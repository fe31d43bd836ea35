---------------------------- MODULE MarketPageProofs ----------------------------
(***************************************************************************)
(* Proofs about the market page: every invariant of the module MarketPage  *)
(* holds for any pairs, prices, books, timeframes and bounds.  The         *)
(* inductive invariant has these parts:                                    *)
(*   Types        the shape of the state; an answer in the cache or under  *)
(*                way is for its key; the clicked price is of the pair;    *)
(*   CandlesFit   the ring, an answer under way and the cached answer are  *)
(*                one run of candles, each an older state of the next;     *)
(*   ChartFits    what the chart drew last, and what its series shows;     *)
(*   RingsTell, AnswersTell                                                *)
(*                how many trades a ring or an answer stands for, and at   *)
(*                which of them it closes;                                 *)
(*   RingsAgree   a coarse candle is the merge of the fine ones of its     *)
(*                interval, and the last candles are of the same trade.    *)
(* Types needs nothing else and CandlesFit needs Types; the chart needs    *)
(* both, because which branch draws the new bars depends on how the cached *)
(* answer can have changed since the last drawing.  The tape and the       *)
(* timeframes need CandlesFit: it says which candle a trade extends.       *)
(***************************************************************************)
EXTENDS MarketPage, TableProofs

-----------------------------------------------------------------------------
(* Greatest and least.                                                     *)

\* A finite set of numbers that is not empty has a greatest and a least.
LEMMA MaxAndMin ==
  ASSUME NEW P, P \subseteq Nat, IsFiniteSet(P), P # {}
  PROVE  /\ Max(P) \in P /\ \A x \in P : x <= Max(P)
         /\ Min(P) \in P /\ \A x \in P : Min(P) <= x
<1>1. PICK n : n = Cardinality(P)
  OBVIOUS
<1>2. n \in Nat /\ n # 0
  BY <1>1, FS_CardinalityType, FS_EmptySet
<1>3. PICK a, b : a = Nth(P, 1) /\ b = Nth(P, n)
  OBVIOUS
<1>4. /\ a \in P /\ Cardinality({j \in P : j <= a}) = 1
      /\ b \in P /\ Cardinality({j \in P : j <= b}) = n
  <2>1. 1 \in 1..Cardinality(P) /\ n \in 1..Cardinality(P)
    BY <1>1, <1>2
  <2>2. /\ Nth(P, 1) \in P /\ Cardinality({j \in P : j <= Nth(P, 1)}) = 1
        /\ Nth(P, n) \in P /\ Cardinality({j \in P : j <= Nth(P, n)}) = n
    BY <2>1, NthIsPosition, Zenon
  <2> QED
    BY <2>2, <1>3, Zenon
<1>5. \A x \in P : x <= b
  <2>1. PICK A : A = {j \in P : j <= b}
    OBVIOUS
  <2>2. A \in SUBSET P /\ Cardinality(A) = Cardinality(P)
    BY <1>1, <1>4, <2>1
  <2>3. A = P
    BY <2>2, FS_Subset
  <2> QED
    BY <2>1, <2>3
<1>6. \A x \in P : a <= x
  <2> SUFFICES ASSUME NEW x \in P, x < a
               PROVE  FALSE
    BY <1>4
  <2>1. PICK A : A = {j \in P : j <= a}
    OBVIOUS
  <2>2. {x, a} \subseteq A /\ IsFiniteSet(A)
    BY <2>1, <1>4, FS_Subset
  <2>3. Cardinality({x, a}) = 2
    <3>1. IsFiniteSet({a}) /\ Cardinality({a}) = 1
      BY FS_Singleton
    <3>2. x \notin {a}
      BY <1>4
    <3>3. {a} \cup {x} = {x, a}
      OBVIOUS
    <3> QED
      BY <3>1, <3>2, <3>3, FS_AddElement
  <2>4. Cardinality({x, a}) <= Cardinality(A)
    BY <2>2, FS_Subset
  <2> QED
    BY <2>1, <2>3, <2>4, <1>4
<1>7. \E x \in P : \A y \in P : x >= y
  BY <1>4, <1>5
<1>8. \E x \in P : \A y \in P : x =< y
  BY <1>4, <1>6
<1>9. Max(P) \in P /\ \A y \in P : Max(P) >= y
  BY <1>7 DEF Max
<1>10. Min(P) \in P /\ \A y \in P : Min(P) =< y
  BY <1>8 DEF Min
<1> QED
  BY <1>9, <1>10

-----------------------------------------------------------------------------
(* The invariant, by parts.                                                *)

\* What a query of the books and one of the candles returns.
BookAnswer(p) == [pair : {p}, book : PairBooks[p], known : Nat, trades : Seq(PairPrices[p])]
CandlesOf(p, tf) == [pair : {p}, tf : {tf}, candles : Seq(ServerCandle)]

\* A query under way is for a key, and there is one for each.
Query(x) ==
  \/ \E p \in Pairs : x.key = BookKey(p) /\ x.data \in BookAnswer(p)
  \/ \E p \in Pairs, tf \in Timeframes : x.key = CandlesKey(p, tf) /\ x.data \in CandlesOf(p, tf)

PageType == [pair : Pairs, tf : Timeframes, prefill : Nat, panels : SUBSET Panels]

PageTypes ==
  /\ page \in PageType
  /\ stored \in [pair : Pairs, tf : Timeframes, panels : SUBSET Panels]
  /\ form \in Nat

TeeTypes ==
  /\ tee = [clock |-> tee.clock, rings |-> tee.rings, trades |-> tee.trades, book |-> tee.book,
            traded |-> tee.traded, back |-> tee.back, restarts |-> tee.restarts]
  /\ tee.clock \in Nat
  /\ tee.rings \in [Pairs -> [Timeframes -> Seq(ServerCandle)]]
  /\ tee.trades = [p \in Pairs |-> tee.trades[p]] /\ tee.book = [p \in Pairs |-> tee.book[p]]
  /\ \A p \in Pairs : tee.trades[p] \in Seq(PairPrices[p]) /\ tee.book[p] \in PairBooks[p]
  /\ tee.back \in BOOLEAN /\ tee.restarts \in BOOLEAN

CacheTypes ==
  /\ books = [p \in Pairs |-> books[p]]
  /\ \A p \in Pairs : books[p] = NoAnswer \/ books[p] \in BookAnswer(p)
  /\ candles = [p \in Pairs |-> [tf \in Timeframes |-> candles[p][tf]]]
  /\ \A p \in Pairs, tf \in Timeframes :
       candles[p][tf] = NoAnswer \/ candles[p][tf] \in CandlesOf(p, tf)
  /\ \A x \in inflight : Query(x)
  /\ \A x, y \in inflight : x.key = y.key => x = y

\* The price last clicked is of the selected pair.
PrefillFits == page.prefill # NoPrefill => page.prefill \in Clickable(page.pair)

Types == PageTypes /\ TeeTypes /\ CacheTypes /\ PrefillFits

\* A run of candles as one ring pushed them.
Chain(cs, tf) ==
  /\ cs \in Seq(ServerCandle)
  /\ \A i \in 1..Len(cs) : /\ cs[i].openTime % tf = 0
                           /\ cs[i].low <= cs[i].close /\ cs[i].close <= cs[i].high
  /\ \A i \in 1..(Len(cs) - 1) : /\ cs[i + 1].openTime # cs[i].openTime
                                 /\ cs[i + 1].open = cs[i].close

\* One that no setback of the clock disturbed, up to the time now.
Ascending(cs, now) ==
  /\ \A i, j \in 1..Len(cs) : i < j => cs[i].openTime < cs[j].openTime
  /\ \A i \in 1..Len(cs) : cs[i].openTime <= now

\* Of two answers of one key, without a restart between them the first candle alone
\* is the first candle still, and without a setback the last one comes no later.
Grows(older, newer) ==
  older # <<>> =>
    /\ newer # <<>>
    /\ Len(newer) = 1 => Len(older) = 1 /\ older[1].openTime = newer[1].openTime

Later(older, newer) ==
  older # <<>> /\ newer # <<>> => older[Len(older)].openTime <= newer[Len(newer)].openTime

Follows(older, newer) ==
  (~tee.restarts => Grows(older, newer)) /\ (~tee.back => Later(older, newer))

Fits(cs, tf) == Chain(cs, tf) /\ (~tee.back => Ascending(cs, tee.clock))

Cached(cs, p, tf) == IF cs[p][tf] = NoAnswer THEN <<>> ELSE cs[p][tf].candles

\* Ring, answer under way and answer in the cache are one story.
AnswerFits(p, tf, cs) == /\ Fits(cs, tf)
                         /\ Follows(Cached(candles, p, tf), cs)
                         /\ Follows(cs, tee.rings[p][tf])

CandlesFit ==
  \A p \in Pairs, tf \in Timeframes :
    /\ Fits(tee.rings[p][tf], tf) /\ Fits(Cached(candles, p, tf), tf)
    /\ Follows(Cached(candles, p, tf), tee.rings[p][tf])
    /\ \A x \in inflight : x.key = CandlesKey(p, tf) => AnswerFits(p, tf, x.data.candles)

\* The series s ends with the bars b.
EndsWith(s, b) ==
  Len(b) <= Len(s) /\ \A i \in 1..Len(b) : b[i] = s[Len(s) - Len(b) + i]

\* The chart drew the bars last, and remembers for which pair and timeframe.
Drew(ch, bars, pair, tf) ==
  /\ ch.prev = bars /\ ch.lastTf = tf /\ ch.lastPair = pair /\ ~ch.broken
  /\ EndsWith(ch.series, bars)
  /\ ~tee.restarts => ch.series = bars
  /\ ch.series # <<>> => bars # <<>>

\* Its references and series, and what it shows of the bars; only a restart of the TEE
\* and a setback of its clock together make it refuse one.
ChartType(ch) ==
  /\ ch = [series |-> ch.series, prev |-> ch.prev, lastTf |-> ch.lastTf,
           lastPair |-> ch.lastPair, broken |-> ch.broken]
  /\ ch.series \in Seq(Bar) /\ ch.broken \in BOOLEAN

Shows(ch, bars, pair, tf) ==
  /\ ChartType(ch)
  /\ ch.broken \/ Drew(ch, bars, pair, tf)
  /\ ch.broken => tee.back /\ tee.restarts

ChartFits == IF "chart" \in page.panels THEN Shows(chart, Bars, page.pair, page.tf)
             ELSE chart = NewChart

\* The trades that all candles of an answer or a ring stand for.
TradesOf(cs) == TradesIn(cs, DOMAIN cs)

\* A ring stands for no more trades than there were, and closes at the newest.
RingTells(ring, all) ==
  /\ TradesOf(ring) <= Len(all)
  /\ ring # <<>> => all # <<>> /\ ring[Len(ring)].close = all[1]

\* While the ring stands for every trade and an answer of it is the whole ring, an
\* answer stands for the oldest of the trades and closes at the newest of those.
Tells(cs, ring, all) ==
  (TradesOf(ring) = Len(all) /\ Len(ring) <= CandleLimit) =>
    /\ TradesOf(cs) <= Len(all)
    /\ cs # <<>> => TradesOf(cs) > 0 /\ cs[Len(cs)].close = all[Len(all) - TradesOf(cs) + 1]

\* An answer that knew of k trades, of all that there are now, shows the newest of
\* those first.
Knew(all, k, ts) == k <= Len(all) /\ (k > 0 => ts # <<>> /\ ts[1] = all[Len(all) - k + 1])

\* How many trades the cached answer of a pair knew of.
KnownOf(bk, p) == IF bk[p] = NoAnswer THEN 0 ELSE bk[p].known

\* Rings, answers under way and answers in the cache tell of the trades.
RingsTell == \A p \in Pairs, tf \in Timeframes : RingTells(tee.rings[p][tf], tee.trades[p])

AnswersTell ==
  ~tee.restarts =>
    /\ \A p \in Pairs :
         /\ Knew(tee.trades[p], KnownOf(books, p), ShownTrades(books, p))
         /\ \A x \in inflight :
              x.key = BookKey(p) => Knew(tee.trades[p], x.data.known, x.data.trades)
    /\ \A p \in Pairs, tf \in Timeframes :
         /\ Tells(Cached(candles, p, tf), tee.rings[p][tf], tee.trades[p])
         /\ \A x \in inflight : x.key = CandlesKey(p, tf)
                                  => Tells(x.data.candles, tee.rings[p][tf], tee.trades[p])

\* Whether a ring still holds all the candles that there were in one interval.
Whole(parts, fine, all) == parts # {} /\ (1 \notin parts \/ TradesOf(fine) = Len(all))

\* A candle is the merge of some candles of a ring.
Merged(e, fine, parts) ==
  /\ \E k \in parts : e.open = fine[k].open /\ \A j \in parts : k <= j
  /\ \E k \in parts : e.close = fine[k].close /\ \A j \in parts : j <= k
  /\ \E k \in parts : e.high = fine[k].high
  /\ \E k \in parts : e.low = fine[k].low
  /\ \A k \in parts : e.low <= fine[k].low /\ fine[k].high <= e.high
  /\ e.trades = TradesIn(fine, parts)

\* Every coarse candle is that of the fine ones of its interval, and the last candles
\* are of one trade.
Agree(fine, coarse, all, c) ==
  \A i \in 1..Len(coarse) : Whole(PartsOf(fine, coarse[i].openTime, c), fine, all)
                              => Merged(coarse[i], fine, PartsOf(fine, coarse[i].openTime, c))

Together(fine, coarse, c) ==
  /\ fine = <<>> <=> coarse = <<>>
  /\ fine # <<>> => Bucket(fine[Len(fine)].openTime, c) = coarse[Len(coarse)].openTime

RingsAgree ==
  \A p \in Pairs, f, c \in Timeframes : f < c /\ c % f = 0 =>
    /\ Together(tee.rings[p][f], tee.rings[p][c], c)
    /\ ~tee.back => Agree(tee.rings[p][f], tee.rings[p][c], tee.trades[p], c)

-----------------------------------------------------------------------------
(* Candles.                                                                *)

\* A timeframe is a positive number.
LEMMA TimeframeType ==
  ASSUME MarketPageAssumption, NEW tf, tf \in Timeframes
  PROVE  tf \in Nat /\ tf # 0 /\ tf > 0
BY DEF MarketPageAssumption

\* Buckets: a multiple of the timeframe, and never later than a later time's.
LEMMA BucketParts ==
  ASSUME NEW tf \in Nat \ {0}, NEW t \in Nat
  PROVE  /\ Bucket(t, tf) \in Nat /\ Bucket(t, tf) <= t /\ t < Bucket(t, tf) + tf
         /\ Bucket(t, tf) = tf * (t \div tf) /\ t \div tf \in Nat
         /\ Bucket(t, tf) % tf = 0
<1>1. PICK q, r : q = t \div tf /\ r = t % tf
  OBVIOUS
<1>2. q \in Nat /\ r \in Nat /\ r < tf /\ t = tf * q + r
  BY <1>1
<1>3. PICK m : m = tf * q
  OBVIOUS
<1>4. m \in Nat
  BY <1>2, <1>3
<1>5. Bucket(t, tf) = m
  <2>1. Bucket(t, tf) = t - r
    BY <1>1 DEF Bucket
  <2> QED
    BY <1>2, <1>3, <1>4, <2>1
<1>6. m % tf = 0
  BY <1>2, <1>3
<1> QED
  BY <1>1, <1>2, <1>3, <1>4, <1>5, <1>6

\* Between two multiples of a timeframe lies at least one timeframe.
LEMMA MultiplesApart ==
  ASSUME NEW tf \in Nat \ {0}, NEW a \in Nat, NEW b \in Nat, a % tf = 0, b % tf = 0
  PROVE  /\ a < b => a + tf <= b
         /\ a = tf * (a \div tf) /\ a \div tf \in Nat
         /\ Bucket(a, tf) = a
<1>1. PICK x, y : x = a \div tf /\ y = b \div tf
  OBVIOUS
<1>2. x \in Nat /\ y \in Nat /\ a = tf * x + (a % tf) /\ b = tf * y + (b % tf)
  BY <1>1
<1>3. a = tf * x /\ b = tf * y
  BY <1>2
<1>4. ASSUME a < b PROVE a + tf <= b
  <2>1. y > x
    <3> SUFFICES ASSUME y <= x
                 PROVE  FALSE
      BY <1>2
    <3>1. PICK d : d = x - y
      OBVIOUS
    <3>2. d \in Nat /\ x = y + d
      BY <1>2, <3>1
    <3>3. tf * x = tf * y + tf * d
      BY <1>2, <3>2
    <3>4. tf * d \in Nat /\ tf * y \in Nat
      BY <1>2, <3>2
    <3> QED
      BY <1>3, <1>4, <3>3, <3>4
  <2>2. PICK d : d = y - (x + 1)
    OBVIOUS
  <2>3. d \in Nat /\ y = x + 1 + d
    BY <1>2, <2>1, <2>2
  <2>4. tf * y = tf * x + tf + tf * d
    BY <1>2, <2>3
  <2>5. tf * d \in Nat /\ tf * x \in Nat
    BY <1>2, <2>3
  <2> QED
    BY <1>3, <2>4, <2>5
<1> QED
  BY <1>1, <1>2, <1>3, <1>4 DEF Bucket

\* Later times are in later buckets.
LEMMA BucketMonotone ==
  ASSUME NEW tf \in Nat \ {0}, NEW s \in Nat, NEW t \in Nat, s <= t
  PROVE  Bucket(s, tf) <= Bucket(t, tf)
<1>1. PICK a, b : a = Bucket(s, tf) /\ b = Bucket(t, tf)
  OBVIOUS
<1>2. /\ a \in Nat /\ a <= s /\ a % tf = 0
      /\ b \in Nat /\ t < b + tf /\ b % tf = 0
  BY <1>1, BucketParts
<1>3. b < a => b + tf <= a
  BY <1>2, MultiplesApart
<1> QED
  BY <1>1, <1>2, <1>3

\* The coarse bucket of a fine bucket is that of the time.
LEMMA BucketOfBucket ==
  ASSUME NEW f \in Nat \ {0}, NEW c \in Nat \ {0}, c % f = 0, NEW t \in Nat
  PROVE  Bucket(Bucket(t, f), c) = Bucket(t, c)
<1>1. PICK a, b : a = Bucket(t, f) /\ b = Bucket(t, c)
  OBVIOUS
<1>2. /\ a \in Nat /\ a <= t /\ t < a + f /\ a % f = 0
      /\ b \in Nat /\ b <= t /\ t < b + c /\ b = c * (t \div c) /\ t \div c \in Nat /\ b % c = 0
  BY <1>1, BucketParts
<1>3. b % f = 0
  <2>1. PICK x, y : x = c \div f /\ y = t \div c
    OBVIOUS
  <2>2. c = f * x /\ x \in Nat /\ y \in Nat /\ b = c * y
    BY <1>2, <2>1, MultiplesApart
  <2>3. x * y \in Nat /\ b = f * (x * y)
    BY <2>2
  <2> QED
    BY <2>3
<1>4. b <= a
  <2>1. a < b => a + f <= b
    BY <1>2, <1>3, MultiplesApart
  <2> QED
    BY <1>2, <2>1
<1>5. Bucket(a, c) <= Bucket(t, c) /\ Bucket(b, c) <= Bucket(a, c)
  BY <1>2, <1>4, BucketMonotone
<1>6. Bucket(b, c) = b
  BY <1>2, MultiplesApart
<1>7. Bucket(a, c) \in Nat
  BY <1>2, BucketParts
<1> QED
  BY <1>1, <1>2, <1>5, <1>6, <1>7

\* The newest entries of a sequence are its end.
LEMMA NewestParts ==
  ASSUME NEW S, NEW s \in Seq(S), NEW n \in Nat \ {0}
  PROVE  /\ Newest(s, n) \in Seq(S) /\ EndsWith(s, Newest(s, n))
         /\ Len(Newest(s, n)) = IF Len(s) > n THEN n ELSE Len(s)
<1>1. PICK m : m = Len(s)
  OBVIOUS
<1>2. m \in Nat
  BY <1>1
<1>3. CASE m > n
  <2>1. PICK r : r = SubSeq(s, m - n + 1, m)
    OBVIOUS
  <2>2. Newest(s, n) = r
    BY <1>1, <1>3, <2>1 DEF Newest
  <2>3. r \in Seq(S) /\ Len(r) = n /\ \A i \in 1..n : r[i] = s[m - n + i]
    <3>1. PICK a : a = m - n + 1
      OBVIOUS
    <3>2. a \in 1..(m + 1) /\ a \in Int /\ m \in Int /\ \A i \in a..m : i \in 1..m
      BY <1>2, <1>3, <3>1
    <3>3. /\ SubSeq(s, a, m) \in Seq(S)
          /\ Len(SubSeq(s, a, m)) = m - a + 1
          /\ \A i \in 1..(m - a + 1) : SubSeq(s, a, m)[i] = s[a + i - 1]
      BY <1>1, <3>2, SubSeqProperties
    <3>4. m - a + 1 = n /\ \A i \in 1..n : a + i - 1 = m - n + i
      BY <1>2, <3>1
    <3> QED
      BY <2>1, <3>1, <3>3, <3>4
  <2>4. EndsWith(s, r)
    BY <1>1, <1>2, <1>3, <2>3 DEF EndsWith
  <2> QED
    BY <1>1, <1>3, <2>2, <2>3, <2>4
<1>4. CASE ~(m > n)
  <2>1. Newest(s, n) = s
    BY <1>1, <1>4 DEF Newest
  <2>2. EndsWith(s, s)
    BY <1>1, <1>2 DEF EndsWith
  <2> QED
    BY <1>1, <1>4, <2>1, <2>2
<1> QED
  BY <1>3, <1>4

\* The greater and the smaller of two numbers.
LEMMA MaxOfTwo ==
  ASSUME NEW a \in Nat, NEW b \in Nat
  PROVE  /\ Max({a, b}) \in {a, b} /\ a <= Max({a, b}) /\ b <= Max({a, b})
         /\ Min({a, b}) \in {a, b} /\ Min({a, b}) <= a /\ Min({a, b}) <= b
<1>1. PICK P : P = {a, b}
  OBVIOUS
<1>2. P \subseteq Nat /\ P # {} /\ a \in P /\ b \in P
  BY <1>1
<1>3. IsFiniteSet(P)
  <2>1. IsFiniteSet({a})
    BY FS_Singleton
  <2>2. P = {a} \cup {b}
    BY <1>1
  <2> QED
    BY <2>1, <2>2, FS_AddElement
<1>4. /\ Max(P) \in P /\ \A x \in P : x <= Max(P)
      /\ Min(P) \in P /\ \A x \in P : Min(P) <= x
  BY <1>2, <1>3, MaxAndMin
<1> QED
  BY <1>1, <1>2, <1>4

\* The candle that a trade opens in a bucket, and the one it extends.
NewCandle(c, ring, t, price) ==
  LET open == IF ring = <<>> THEN price ELSE ring[Len(ring)].close
  IN  /\ c \in ServerCandle
      /\ c.openTime = t /\ c.open = open /\ c.close = price /\ c.trades = 1
      /\ c.high \in {open, price} /\ open <= c.high /\ price <= c.high
      /\ c.low \in {open, price} /\ c.low <= open /\ c.low <= price

Traded(c, e, price) ==
  /\ c \in ServerCandle
  /\ c.openTime = e.openTime /\ c.open = e.open /\ c.close = price /\ c.trades = e.trades + 1
  /\ c.high \in {e.high, price} /\ e.high <= c.high /\ price <= c.high
  /\ c.low \in {e.low, price} /\ c.low <= e.low /\ c.low <= price

\* The ring r is the other one with a candle more, less its d oldest ones, or with
\* another last candle.
Opened(r, ring, c, d) ==
  /\ d \in {0, 1} /\ (d = 1 <=> Len(ring) + 1 > RingSize)
  /\ Len(r) = Len(ring) + 1 - d
  /\ \A i \in 1..Len(r) : r[i] = IF i = Len(r) THEN c ELSE ring[i + d]

Extended(r, ring, c) ==
  /\ Len(ring) > 0 /\ Len(r) = Len(ring)
  /\ \A i \in 1..Len(r) : r[i] = IF i = Len(r) THEN c ELSE ring[i]

\* What a push does to a ring.
LEMMA PushParts ==
  ASSUME MarketDataAssumption, NEW ring \in Seq(ServerCandle), NEW c \in ServerCandle
  PROVE  /\ Push(ring, c, RingSize) \in Seq(ServerCandle)
         /\ \E d : Opened(Push(ring, c, RingSize), ring, c, d)
<1>1. PICK n, all, r : n = Len(ring) /\ all = Append(ring, c) /\ r = Push(ring, c, RingSize)
  OBVIOUS
<1>2. n \in Nat /\ RingSize \in Nat
  BY <1>1 DEF MarketDataAssumption
<1>3. /\ all \in Seq(ServerCandle) /\ Len(all) = n + 1
      /\ \A i \in 1..(n + 1) : all[i] = IF i = n + 1 THEN c ELSE ring[i]
  BY <1>1
<1>4. CASE n + 1 > RingSize
  <2>1. r = Tail(all)
    BY <1>1, <1>3, <1>4 DEF Push
  <2>2. r \in Seq(ServerCandle) /\ Len(r) = n /\ \A i \in 1..n : r[i] = all[i + 1]
    BY <1>2, <1>3, <2>1
  <2>3. \A i \in 1..n : r[i] = IF i = n THEN c ELSE ring[i + 1]
    BY <1>2, <1>3, <2>2
  <2>4. Opened(r, ring, c, 1)
    BY <1>1, <1>2, <1>4, <2>2, <2>3 DEF Opened
  <2> QED
    BY <1>1, <2>2, <2>4
<1>5. CASE ~(n + 1 > RingSize)
  <2>1. r = all
    BY <1>1, <1>3, <1>5 DEF Push
  <2>2. Opened(r, ring, c, 0)
    BY <1>1, <1>2, <1>3, <1>5, <2>1 DEF Opened
  <2> QED
    BY <1>1, <1>3, <2>1, <2>2
<1> QED
  BY <1>4, <1>5

\* What a trade does to a ring.
Rolled(r, ring, t, price) ==
  \/ /\ ring = <<>> \/ ring[Len(ring)].openTime # t
     /\ \E c, d : NewCandle(c, ring, t, price) /\ Opened(r, ring, c, d)
  \/ /\ ring # <<>> /\ ring[Len(ring)].openTime = t
     /\ \E c : Traded(c, ring[Len(ring)], price) /\ Extended(r, ring, c)

\* rollCandles opens a candle or extends the last one, and keeps the ring a ring.
LEMMA RollParts ==
  ASSUME MarketDataAssumption, NEW ring \in Seq(ServerCandle), NEW tf \in Nat \ {0},
         NEW time \in Nat, NEW price \in Nat \ {0}
  PROVE  /\ RollCandles(ring, tf, time, price) \in Seq(ServerCandle)
         /\ Rolled(RollCandles(ring, tf, time, price), ring, Bucket(time, tf), price)
<1>1. PICK n, t, r, last, open :
        /\ n = Len(ring) /\ t = Bucket(time, tf) /\ last = ring[n]
        /\ r = RollCandles(ring, tf, time, price)
        /\ open = IF ring = <<>> THEN price ELSE last.close
  OBVIOUS
<1>2. n \in Nat /\ t \in Nat
  BY <1>1, BucketParts
<1>3. ring # <<>> => n > 0 /\ last \in ServerCandle
  BY <1>1, <1>2
<1>4. open \in Nat \ {0}
  BY <1>1, <1>3 DEF ServerCandle
<1>5. CASE ring = <<>> \/ last.openTime # t
  <2>1. PICK c : c = [openTime |-> t, open |-> open, high |-> Max({open, price}),
                      low |-> Min({open, price}), close |-> price, trades |-> 1]
    OBVIOUS
  <2>2. /\ Max({open, price}) \in {open, price} /\ open <= Max({open, price})
        /\ price <= Max({open, price})
        /\ Min({open, price}) \in {open, price} /\ Min({open, price}) <= open
        /\ Min({open, price}) <= price
    BY <1>4, MaxOfTwo
  <2>3. c \in ServerCandle
    <3>1. Max({open, price}) \in Nat \ {0} /\ Min({open, price}) \in Nat \ {0}
      BY <1>4, <2>2
    <3> QED
      BY <1>2, <1>4, <2>1, <3>1 DEF ServerCandle
  <2>4. NewCandle(c, ring, t, price)
    BY <1>1, <2>1, <2>2, <2>3 DEF NewCandle
  <2>5. r = Push(ring, c, RingSize)
    BY <1>1, <1>5, <2>1, Zenon DEF RollCandles
  <2>6. r \in Seq(ServerCandle) /\ \E d : Opened(r, ring, c, d)
    BY <2>3, <2>5, PushParts
  <2> QED
    BY <1>1, <1>5, <2>4, <2>6 DEF Rolled
<1>6. CASE ~(ring = <<>> \/ last.openTime # t)
  <2>1. PICK c : c = [last EXCEPT !.high = Max({@, price}), !.low = Min({@, price}),
                                  !.close = price, !.trades = @ + 1]
    OBVIOUS
  <2>2. /\ last \in ServerCandle /\ last.high \in Nat \ {0} /\ last.low \in Nat \ {0}
        /\ last.trades \in Nat \ {0} /\ n > 0
    BY <1>3, <1>6 DEF ServerCandle
  <2>3. /\ Max({last.high, price}) \in {last.high, price} /\ last.high <= Max({last.high, price})
        /\ price <= Max({last.high, price})
        /\ Min({last.low, price}) \in {last.low, price} /\ Min({last.low, price}) <= last.low
        /\ Min({last.low, price}) <= price
    BY <2>2, MaxOfTwo
  <2>4. /\ c = [openTime |-> last.openTime, open |-> last.open, high |-> Max({last.high, price}),
                low |-> Min({last.low, price}), close |-> price, trades |-> last.trades + 1]
    BY <2>1, <2>2 DEF ServerCandle
  <2>5. c \in ServerCandle
    <3>1. Max({last.high, price}) \in Nat \ {0} /\ Min({last.low, price}) \in Nat \ {0}
      BY <2>2, <2>3
    <3>2. last.openTime \in Nat /\ last.open \in Nat \ {0} /\ last.trades + 1 \in Nat \ {0}
      BY <2>2 DEF ServerCandle
    <3> QED
      BY <2>4, <3>1, <3>2 DEF ServerCandle
  <2>6. Traded(c, last, price)
    BY <2>3, <2>4, <2>5 DEF Traded
  <2>7. r = [ring EXCEPT ![n] = c]
    <3>1. r = [ring EXCEPT ![n] = [last EXCEPT !.high = Max({@, price}), !.low = Min({@, price}),
                                               !.close = price, !.trades = @ + 1]]
      BY <1>1, <1>6, Zenon DEF RollCandles
    <3> QED
      BY <2>1, <3>1, Zenon
  <2>8. r \in Seq(ServerCandle) /\ Extended(r, ring, c)
    BY <1>1, <1>2, <2>2, <2>5, <2>7 DEF Extended
  <2> QED
    BY <1>1, <1>6, <2>6, <2>8 DEF Rolled
<1> QED
  BY <1>5, <1>6

\* The end of a chain is one, and of an ascending one too.
LEMMA ChainEnd ==
  ASSUME NEW s, NEW tf, Chain(s, tf), NEW r, r \in Seq(ServerCandle), EndsWith(s, r)
  PROVE  /\ Chain(r, tf)
         /\ \A now : Ascending(s, now) => Ascending(r, now)
<1>1. PICK n, m, d : n = Len(s) /\ m = Len(r) /\ d = n - m
  OBVIOUS
<1>2. /\ n \in Nat /\ m \in Nat /\ d \in Nat /\ n = d + m
      /\ \A i \in 1..m : r[i] = s[d + i]
  <2>1. s \in Seq(ServerCandle)
    BY DEF Chain
  <2>2. m <= n /\ \A i \in 1..m : r[i] = s[n - m + i]
    BY <1>1 DEF EndsWith
  <2> QED
    BY <1>1, <2>1, <2>2
<1>3. \A i \in 1..m : d + i \in 1..n
  BY <1>2
<1>4. ASSUME NEW i \in 1..m
      PROVE  r[i].openTime % tf = 0 /\ r[i].low <= r[i].close /\ r[i].close <= r[i].high
  <2>1. PICK j : j = d + i
    OBVIOUS
  <2>2. j \in 1..n /\ r[i] = s[j]
    BY <1>2, <1>3, <2>1
  <2> QED
    BY <1>1, <2>2 DEF Chain
<1>5. ASSUME NEW i \in 1..(m - 1)
      PROVE  r[i + 1].openTime # r[i].openTime /\ r[i + 1].open = r[i].close
  <2>1. PICK j : j = d + i
    OBVIOUS
  <2>2. j \in 1..(n - 1) /\ r[i] = s[j] /\ r[i + 1] = s[j + 1]
    <3>1. i \in 1..m /\ i + 1 \in 1..m
      BY <1>2
    <3>2. d + (i + 1) = j + 1
      BY <1>2, <2>1
    <3>3. r[i + 1] = s[d + (i + 1)]
      BY <1>2, <3>1
    <3> QED
      BY <1>2, <2>1, <3>1, <3>2, <3>3
  <2> QED
    BY <1>1, <2>2 DEF Chain
<1>6. Chain(r, tf)
  BY <1>1, <1>4, <1>5 DEF Chain
<1>7. ASSUME NEW now, Ascending(s, now) PROVE Ascending(r, now)
  <2>1. ASSUME NEW i \in 1..m, NEW j \in 1..m, i < j PROVE r[i].openTime < r[j].openTime
    <3>1. d + i \in 1..n /\ d + j \in 1..n /\ d + i < d + j
      BY <1>2, <1>3, <2>1
    <3>2. s[d + i].openTime < s[d + j].openTime
      BY <1>1, <1>7, <3>1 DEF Ascending
    <3> QED
      BY <1>2, <3>2
  <2>2. \A i \in 1..m : r[i].openTime <= now
    BY <1>1, <1>2, <1>3, <1>7 DEF Ascending
  <2> QED
    BY <1>1, <2>1, <2>2 DEF Ascending
<1> QED
  BY <1>6, <1>7

\* What a chain's candles are.
LEMMA ChainParts ==
  ASSUME NEW tf \in Nat \ {0}, NEW s, Chain(s, tf)
  PROVE  /\ s \in Seq(ServerCandle) /\ Len(s) \in Nat /\ DOMAIN s = 1..Len(s)
         /\ s = <<>> <=> Len(s) = 0
         /\ \A i \in 1..Len(s) :
              /\ s[i] \in ServerCandle /\ s[i].openTime \in Nat /\ s[i].openTime % tf = 0
              /\ s[i].open \in Nat \ {0} /\ s[i].close \in Nat \ {0} /\ s[i].trades \in Nat \ {0}
              /\ s[i].high \in Nat \ {0} /\ s[i].low \in Nat \ {0}
              /\ s[i].low <= s[i].close /\ s[i].close <= s[i].high
         /\ \A i \in 1..(Len(s) - 1) :
              s[i + 1].openTime # s[i].openTime /\ s[i + 1].open = s[i].close
<1>1. s \in Seq(ServerCandle)
  BY DEF Chain
<1>2. Len(s) \in Nat /\ DOMAIN s = 1..Len(s) /\ (s = <<>> <=> Len(s) = 0)
  BY <1>1
<1>3. \A i \in 1..Len(s) : s[i] \in ServerCandle
  BY <1>1
<1>4. \A i \in 1..Len(s) :
        /\ s[i].openTime \in Nat /\ s[i].open \in Nat \ {0} /\ s[i].close \in Nat \ {0}
        /\ s[i].trades \in Nat \ {0} /\ s[i].high \in Nat \ {0} /\ s[i].low \in Nat \ {0}
  BY <1>3 DEF ServerCandle
<1> QED
  BY <1>1, <1>2, <1>3, <1>4 DEF Chain

\* In a chain up to now, no candle is later than the bucket of a time to come.
LEMMA AscendingBefore ==
  ASSUME NEW tf \in Nat \ {0}, NEW s, Chain(s, tf), NEW now \in Nat, Ascending(s, now),
         NEW time \in Nat, now <= time
  PROVE  \A i \in 1..Len(s) : s[i].openTime <= Bucket(time, tf)
<1> SUFFICES ASSUME NEW i \in 1..Len(s)
             PROVE  s[i].openTime <= Bucket(time, tf)
  OBVIOUS
<1>1. PICK x : x = s[i].openTime
  OBVIOUS
<1>2. x \in Nat /\ x % tf = 0
  BY <1>1, ChainParts
<1>3. x <= time
  BY <1>1, <1>2 DEF Ascending
<1>4. Bucket(x, tf) = x /\ Bucket(x, tf) <= Bucket(time, tf)
  BY <1>2, <1>3, MultiplesApart, BucketMonotone
<1> QED
  BY <1>1, <1>4

-----------------------------------------------------------------------------
(* What the ladder, the tape and the figures show.                         *)

\* The levels of one side of a book.
Quotes(levels) ==
  /\ IsFiniteSet(levels) /\ Prices(levels) \subseteq Nat \ {0}
  /\ \A l, m \in levels : l.price = m.price => l = m

\* A side has finitely many prices.
LEMMA PricesFinite ==
  ASSUME NEW levels, Quotes(levels)
  PROVE  IsFiniteSet(Prices(levels)) /\ Prices(levels) \subseteq Nat
<1>1. PICK f : f = [l \in levels |-> l.price]
  OBVIOUS
<1>2. f \in Surjection(levels, Prices(levels))
  BY <1>1 DEF Surjection, Prices
<1>3. IsFiniteSet(levels)
  BY DEF Quotes
<1>4. IsFiniteSet(Prices(levels))
  BY <1>2, <1>3, FS_Surjection
<1> QED
  BY <1>4 DEF Quotes

\* A side sorted by price is a sequence of its levels: there is a level with i - 1
\* better prices for each i.
LEMMA ByPriceType ==
  ASSUME NEW levels, Quotes(levels), NEW up \in BOOLEAN
  PROVE  ByPrice(levels, up) \in Seq(levels)
<1> DEFINE P == Prices(levels)
           n == Cardinality(P)
           s == ByPrice(levels, up)
<1>1. P = Prices(levels) /\ n = Cardinality(P) /\ s = ByPrice(levels, up)
  OBVIOUS
<1>2. P \subseteq Nat /\ IsFiniteSet(P) /\ n \in Nat
  BY <1>1, PricesFinite, FS_CardinalityType
<1>3. ASSUME NEW i \in 1..n
      PROVE  \E l \in levels : Cardinality({q \in P : IF up THEN q < l.price ELSE q > l.price}) = i - 1
  <2>1. PICK k : k = IF up THEN i ELSE n + 1 - i
    OBVIOUS
  <2>2. k \in 1..Cardinality(P)
    BY <1>1, <1>2, <2>1
  <2>3. Nth(P, k) \in P /\ Cardinality({j \in P : j <= Nth(P, k)}) = k
    BY <1>2, <2>2, NthIsPosition, Zenon
  <2>4. PICK p, A : p = Nth(P, k) /\ A = {j \in P : j <= p}
    OBVIOUS
  <2>5. p \in P /\ p \in Nat /\ A \subseteq P /\ IsFiniteSet(A) /\ Cardinality(A) = k
    BY <1>2, <2>3, <2>4, FS_Subset
  <2>6. PICK l \in levels : l.price = p
    BY <1>1, <2>5 DEF Prices
  <2>7. PICK B : B = {q \in P : IF up THEN q < p ELSE q > p}
    OBVIOUS
  <2>8. CASE up
    <3>1. B = A \ {p}
      <4>1. \A q : q \in B <=> q \in P /\ q < p
        BY <2>7, <2>8
      <4>2. \A q : q \in A \ {p} <=> q \in P /\ q <= p /\ q # p
        BY <2>4
      <4>3. \A q \in P : q < p <=> q <= p /\ q # p
        BY <1>2, <2>5
      <4>4. \A q : q \in B <=> q \in A \ {p}
        BY <4>1, <4>2, <4>3, Zenon
      <4> QED
        BY <4>4
    <3>2. Cardinality(B) = k - 1
      <4>1. p \in A
        BY <2>4, <2>5
      <4>2. Cardinality(A \ {p}) = Cardinality(A) - 1
        BY <2>5, <4>1, FS_RemoveElement
      <4> QED
        BY <2>5, <3>1, <4>2
    <3>3. k - 1 = i - 1
      BY <2>1, <2>8
    <3> QED
      BY <2>6, <2>7, <3>2, <3>3, Zenon
  <2>9. CASE ~up
    <3>1. B = P \ A
      <4>1. \A q : q \in B <=> q \in P /\ q > p
        BY <2>7, <2>9
      <4>2. \A q : q \in P \ A <=> q \in P /\ ~(q <= p)
        BY <2>4
      <4>3. \A q \in P : q > p <=> ~(q <= p)
        BY <1>2, <2>5
      <4>4. \A q : q \in B <=> q \in P \ A
        BY <4>1, <4>2, <4>3, Zenon
      <4> QED
        BY <4>4
    <3>2. Cardinality(P \ A) = Cardinality(P) - Cardinality(P \cap A)
      BY <1>2, FS_Difference
    <3>3. P \cap A = A
      BY <2>5
    <3>4. Cardinality(B) = n - k
      BY <1>1, <2>5, <3>1, <3>2, <3>3
    <3>5. n - k = i - 1
      BY <1>2, <2>1, <2>9
    <3> QED
      BY <2>6, <2>7, <3>4, <3>5, Zenon
  <2> QED
    BY <2>8, <2>9
<1>4. s = [i \in 1..n |-> CHOOSE l \in levels :
             Cardinality({q \in P : IF up THEN q < l.price ELSE q > l.price}) = i - 1]
  BY Zenon DEF ByPrice
<1>5. \A i \in 1..n : s[i] \in levels
  <2> SUFFICES ASSUME NEW i \in 1..n
               PROVE  s[i] \in levels
    OBVIOUS
  <2>1. s[i] = CHOOSE l \in levels :
             Cardinality({q \in P : IF up THEN q < l.price ELSE q > l.price}) = i - 1
    BY <1>4
  <2>2. \E l \in levels : Cardinality({q \in P : IF up THEN q < l.price ELSE q > l.price}) = i - 1
    BY <1>3
  <2> QED
    BY <2>1, <2>2, Zenon
<1>6. s = [i \in 1..n |-> s[i]]
  BY <1>4
<1>7. s \in Seq(levels)
  BY <1>2, <1>5, <1>6
<1> QED
  BY <1>1, <1>7

\* The ladder's side: some of the side's prices.
LEMMA BookSideParts ==
  ASSUME MarketDataAssumption, NEW levels, Quotes(levels), NEW up \in BOOLEAN
  PROVE  \E m \in Nat :
           /\ BookSide(levels, up) = [i \in 1..m |-> BookSide(levels, up)[i]]
           /\ \A i \in 1..m : BookSide(levels, up)[i].price \in Prices(levels)
<1>1. PICK s, m, rows : /\ s = ByPrice(levels, up) /\ m = Min({Len(s), Rows})
                        /\ rows = FirstRows(s)
  OBVIOUS
<1>2. s \in Seq(levels) /\ Rows \in Nat /\ Len(s) \in Nat
  BY <1>1, ByPriceType DEF MarketDataAssumption
<1>3. m \in Nat /\ m <= Len(s)
  BY <1>1, <1>2, MaxOfTwo
<1>4. rows \in Seq(levels) /\ Len(rows) = m
  <2>1. \A i \in 1..m : i \in 1..Len(s)
    BY <1>2, <1>3
  <2>2. /\ SubSeq(s, 1, m) \in Seq(levels) /\ Len(SubSeq(s, 1, m)) = m
    BY <1>2, <1>3, <2>1, SubSeqProperties
  <2> QED
    BY <1>1, <2>2 DEF FirstRows, FirstOf
<1>5. \E sums : BookSide(levels, up)
                  = [i \in DOMAIN rows |-> [price |-> rows[i].price, quantity |-> rows[i].quantity,
                                            cum |-> sums[i]]]
  BY <1>1 DEF BookSide
<1>6. PICK sums : BookSide(levels, up)
                  = [i \in DOMAIN rows |-> [price |-> rows[i].price, quantity |-> rows[i].quantity,
                                            cum |-> sums[i]]]
  BY <1>5
<1>7. DOMAIN rows = 1..m /\ \A i \in 1..m : rows[i] \in levels
  BY <1>3, <1>4
<1>8. \A i \in 1..m : BookSide(levels, up)[i].price = rows[i].price
  BY <1>6, <1>7
<1>9. \A i \in 1..m : BookSide(levels, up)[i].price \in Prices(levels)
  BY <1>7, <1>8 DEF Prices
<1> QED
  BY <1>3, <1>6, <1>7, <1>9

\* The whole ladder shows prices of the book it was given.
LEMMA LadderParts ==
  ASSUME MarketDataAssumption, NEW bids, Quotes(bids), NEW asks, Quotes(asks)
  PROVE  /\ \A i \in DOMAIN BookView(bids, asks).bids : BookView(bids, asks).bids[i].price \in Prices(bids)
         /\ \A i \in DOMAIN BookView(bids, asks).asks : BookView(bids, asks).asks[i].price \in Prices(asks)
<1>1. PICK b, a : b = BookSide(bids, FALSE) /\ a = BookSide(asks, TRUE)
  OBVIOUS
<1>2. PICK m \in Nat : /\ BookSide(bids, FALSE) = [i \in 1..m |-> BookSide(bids, FALSE)[i]]
                       /\ \A i \in 1..m : BookSide(bids, FALSE)[i].price \in Prices(bids)
  BY BookSideParts
<1>3. PICK n \in Nat : /\ BookSide(asks, TRUE) = [i \in 1..n |-> BookSide(asks, TRUE)[i]]
                       /\ \A i \in 1..n : BookSide(asks, TRUE)[i].price \in Prices(asks)
  BY BookSideParts
<1>4. DOMAIN b = 1..m /\ \A i \in 1..m : b[i].price \in Prices(bids)
  BY <1>1, <1>2
<1>5. DOMAIN a = 1..n /\ Len(a) = n /\ \A i \in 1..n : a[i].price \in Prices(asks)
  <2>1. a = [i \in 1..n |-> a[i]] /\ \A i \in 1..n : a[i].price \in Prices(asks)
    BY <1>1, <1>3, Zenon
  <2>2. DOMAIN a = 1..n
    BY <2>1, Zenon
  <2>3. a \in Seq({a[i] : i \in 1..n})
    BY <2>1
  <2>4. Len(a) = n
    BY <2>2, <2>3
  <2> QED
    BY <2>1, <2>2, <2>4, Zenon
<1>6. /\ DOMAIN Reverse(a) = 1..n
      /\ \A i \in 1..n : Reverse(a)[i].price \in Prices(asks)
  <2>1. DOMAIN Reverse(a) = 1..n /\ \A i \in 1..n : Reverse(a)[i] = a[(n - i) + 1]
    BY <1>5 DEF Reverse
  <2>2. \A i \in 1..n : (n - i) + 1 \in 1..n
    OBVIOUS
  <2> QED
    BY <1>5, <2>1, <2>2
<1>7. BookView(bids, asks).bids = b /\ BookView(bids, asks).asks = Reverse(a)
  BY <1>1 DEF BookView
<1> QED
  BY <1>4, <1>6, <1>7

\* The tape shows traded prices, and the highest of the figures is one.
LEMMA TapeParts ==
  ASSUME MarketDataAssumption, NEW S, S \subseteq Nat, NEW trades \in Seq(S), NEW bids, NEW asks
  PROVE  /\ \A i \in DOMAIN TapeView(trades) : TapeView(trades)[i].price \in S
         /\ trades # <<>> => 1 \in DOMAIN TapeView(trades) /\ TapeView(trades)[1].price = trades[1]
         /\ StatsView(bids, asks, trades).high \in S \cup {0}
         /\ trades # <<>> => StatsView(bids, asks, trades).last2 = 2 * trades[1]
<1>1. PICK n, m, recent : /\ n = Len(trades) /\ m = Min({n, TapeRows})
                          /\ recent = SubSeq(trades, 1, m)
  OBVIOUS
<1>2. n \in Nat /\ TapeRows \in Nat \ {0} /\ \A i \in 1..n : trades[i] \in S
  BY <1>1 DEF MarketDataAssumption
<1>3. m \in Nat /\ m <= n /\ m \in {n, TapeRows}
  BY <1>2, <1>1, MaxOfTwo
<1>4. DOMAIN recent = 1..m /\ \A i \in 1..m : recent[i] = trades[i] /\ trades[i] \in S
  <2>1. \A i \in 1..m : i \in 1..Len(trades)
    BY <1>1, <1>2, <1>3
  <2>2. /\ SubSeq(trades, 1, m) \in Seq(S) /\ Len(SubSeq(trades, 1, m)) = m
        /\ \A i \in 1..m : SubSeq(trades, 1, m)[i] = trades[1 + i - 1]
    BY <1>3, <2>1, SubSeqProperties
  <2>3. recent \in Seq(S) /\ Len(recent) = m
    BY <1>1, <2>2
  <2>4. ASSUME NEW i \in 1..m PROVE recent[i] = trades[i] /\ trades[i] \in S
    <3>1. 1 + i - 1 = i /\ i \in 1..n
      BY <1>2, <1>3
    <3>2. SubSeq(trades, 1, m)[i] = trades[1 + i - 1]
      BY <2>2
    <3> QED
      BY <1>1, <1>2, <3>1, <3>2
  <2> QED
    BY <2>3, <2>4
<1>5. /\ DOMAIN TapeView(trades) = 1..m
      /\ \A i \in 1..m : TapeView(trades)[i].price = trades[i]
  <2>1. TapeView(trades) = [i \in DOMAIN recent |->
           [price |-> recent[i],
            dir |-> IF i < Len(recent) /\ recent[i] < recent[i + 1] THEN "dn" ELSE "up"]]
    BY <1>1 DEF TapeView, FirstOf
  <2> QED
    BY <1>4, <2>1
<1>6. trades # <<>> => 1 \in 1..m
  <2>1. trades # <<>> => n > 0
    BY <1>1
  <2> QED
    BY <1>2, <1>3, <2>1
<1>7. PICK T : T = {trades[i] : i \in DOMAIN trades}
  OBVIOUS
<1>8. T \subseteq S /\ T \subseteq Nat /\ IsFiniteSet(T)
  <2>1. DOMAIN trades = 1..n
    BY <1>1
  <2>2. T \subseteq S
    BY <1>2, <1>7, <2>1
  <2>3. PICK f : f = [i \in 1..n |-> trades[i]]
    OBVIOUS
  <2>4. f \in Surjection(1..n, T)
    BY <1>7, <2>1, <2>3 DEF Surjection
  <2>5. 1 \in Int /\ n \in Int
    BY <1>2
  <2>6. IsFiniteSet(1..n)
    BY <2>5, FS_Interval
  <2> QED
    BY <2>2, <2>4, <2>6, FS_Surjection
<1>9. T # {} => Max(T) \in T
  BY <1>8, MaxAndMin
<1>10. StatsView(bids, asks, trades).high = IF T = {} THEN 0 ELSE Max(T)
  BY <1>7 DEF StatsView
<1>11. trades # <<>> => StatsView(bids, asks, trades).last2 = 2 * trades[1]
  BY DEF StatsView
<1> QED
  BY <1>5, <1>6, <1>4, <1>8, <1>9, <1>10, <1>11

\* What the page shows of a pair comes from the pair's books and prices.
LEMMA ShownOfPair ==
  ASSUME MarketPageAssumption, CacheTypes, NEW p \in Pairs
  PROVE  /\ Quotes(ShownBook(books, p).bids) /\ Quotes(ShownBook(books, p).asks)
         /\ Prices(ShownBook(books, p).bids) \cup Prices(ShownBook(books, p).asks)
              \subseteq UNION {Prices(b.bids) \cup Prices(b.asks) : b \in PairBooks[p]}
         /\ ShownTrades(books, p) \in Seq(PairPrices[p])
<1>1. CASE books[p] = NoAnswer
  <2>1. ShownBook(books, p).bids = {} /\ ShownBook(books, p).asks = {} /\ ShownTrades(books, p) = <<>>
    BY <1>1 DEF ShownBook, ShownTrades
  <2>2. Prices({}) = {}
    BY DEF Prices
  <2>3. Quotes({})
    BY <2>2, FS_EmptySet DEF Quotes
  <2>4. ShownTrades(books, p) \in Seq(PairPrices[p])
    BY <2>1
  <2> QED
    BY <2>1, <2>2, <2>3, <2>4
<1>2. CASE books[p] # NoAnswer
  <2>1. books[p] \in BookAnswer(p)
    BY <1>2 DEF CacheTypes
  <2>2. PICK b \in PairBooks[p] : b = books[p].book
    BY <2>1 DEF BookAnswer
  <2>3. ShownBook(books, p) = b /\ ShownTrades(books, p) \in Seq(PairPrices[p])
    BY <1>2, <2>1, <2>2 DEF ShownBook, ShownTrades, BookAnswer
  <2>4. Quotes(b.bids) /\ Quotes(b.asks)
    BY DEF MarketPageAssumption, Quotes
  <2> QED
    BY <2>3, <2>4
<1> QED
  BY <1>1, <1>2

-----------------------------------------------------------------------------
(* Types.                                                                  *)

\* A trade: one pair's trades and rings grow, at a time that is not before now.
TradeMoves(p, x, t) ==
  /\ tee'.clock = t /\ tee.clock <= t /\ t \in Nat /\ x \in Nat \ {0}
  /\ tee'.back = tee.back /\ tee'.restarts = tee.restarts
  /\ tee'.trades[p] = <<x>> \o tee.trades[p]
  /\ \A q \in Pairs : q # p => tee'.trades[q] = tee.trades[q] /\ tee'.rings[q] = tee.rings[q]
  /\ \A tf \in Timeframes : tee'.rings[p][tf] = RollCandles(tee.rings[p][tf], tf, t, x)

\* What a trade does to the TEE's state, and that the state stays of its type.
LEMMA TradeParts ==
  ASSUME MarketDataAssumption, MarketPageAssumption, TeeTypes,
         NEW p \in Pairs, NEW x \in PairPrices[p], NEW t \in 1..MaxTime, Trade(p, x, t)
  PROVE  TradeMoves(p, x, t) /\ TeeTypes'
<1>1. PICK r : r = [tf \in Timeframes |-> RollCandles(tee.rings[p][tf], tf, t, x)]
  OBVIOUS
<1>2. tee' = [tee EXCEPT !.clock = t, !.traded = @ + 1, !.trades[p] = <<x>> \o @, !.rings[p] = r]
  BY <1>1 DEF Trade, Market
<1>3. tee' = [clock |-> t, rings |-> [tee.rings EXCEPT ![p] = r],
              trades |-> [tee.trades EXCEPT ![p] = <<x>> \o @], book |-> tee.book,
              traded |-> tee.traded + 1, back |-> tee.back, restarts |-> tee.restarts]
  <2>1. PICK a, b, c, d, e, f, g :
          /\ a = tee.clock /\ b = tee.rings /\ c = tee.trades /\ d = tee.book
          /\ e = tee.traded /\ f = tee.back /\ g = tee.restarts
    OBVIOUS
  <2>2. tee = [clock |-> a, rings |-> b, trades |-> c, book |-> d, traded |-> e,
               back |-> f, restarts |-> g]
    BY <2>1 DEF TeeTypes
  <2>3. tee' = [clock |-> t, rings |-> [b EXCEPT ![p] = r],
              trades |-> [c EXCEPT ![p] = <<x>> \o @], book |-> d,
              traded |-> e + 1, back |-> f, restarts |-> g]
    BY <1>2, <2>2
  <2> QED
    BY <2>1, <2>3
<1>4. t \in Nat /\ tee.clock <= t /\ x \in Nat \ {0} /\ MaxTime \in Nat
  BY DEF Trade, MarketPageAssumption
<1>5. /\ tee'.clock = t /\ tee'.back = tee.back /\ tee'.restarts = tee.restarts
      /\ tee'.rings = [tee.rings EXCEPT ![p] = r]
      /\ tee'.trades = [tee.trades EXCEPT ![p] = <<x>> \o @]
      /\ tee'.book = tee.book
  BY <1>3
<1>6. DOMAIN tee.trades = Pairs /\ DOMAIN tee.rings = Pairs
  BY DEF TeeTypes
<1>7. /\ tee'.trades[p] = <<x>> \o tee.trades[p]
      /\ \A q \in Pairs : q # p => tee'.trades[q] = tee.trades[q] /\ tee'.rings[q] = tee.rings[q]
      /\ tee'.rings[p] = r
  BY <1>5, <1>6
<1>8. \A tf \in Timeframes : tee'.rings[p][tf] = RollCandles(tee.rings[p][tf], tf, t, x)
  BY <1>1, <1>7
<1>9. tee'.rings \in [Pairs -> [Timeframes -> Seq(ServerCandle)]]
  <2>1. ASSUME NEW tf \in Timeframes PROVE r[tf] \in Seq(ServerCandle)
    <3>1. tf \in Nat \ {0} /\ tee.rings[p][tf] \in Seq(ServerCandle)
      BY TimeframeType DEF TeeTypes
    <3>2. RollCandles(tee.rings[p][tf], tf, t, x) \in Seq(ServerCandle)
      BY <1>4, <3>1, RollParts
    <3> QED
      BY <1>1, <3>2
  <2>2. r \in [Timeframes -> Seq(ServerCandle)]
    BY <1>1, <2>1
  <2>3. tee.rings \in [Pairs -> [Timeframes -> Seq(ServerCandle)]]
    BY DEF TeeTypes
  <2> QED
    BY <1>5, <2>2, <2>3
<1>10. /\ tee'.trades = [q \in Pairs |-> tee'.trades[q]]
       /\ \A q \in Pairs : tee'.trades[q] \in Seq(PairPrices[q])
  <2>1. PICK ts, us : ts = tee.trades /\ us = tee'.trades
    OBVIOUS
  <2>2. us = [ts EXCEPT ![p] = <<x>> \o @] /\ ts = [q \in Pairs |-> ts[q]]
    BY <1>5, <2>1 DEF TeeTypes
  <2>3. us = [q \in Pairs |-> us[q]]
    BY <2>2
  <2>4. \A q \in Pairs : ts[q] \in Seq(PairPrices[q])
    BY <2>1 DEF TeeTypes
  <2>5. <<x>> \o ts[p] \in Seq(PairPrices[p])
    <3>1. PICK S, s : S = PairPrices[p] /\ s = ts[p]
      OBVIOUS
    <3>2. x \in S /\ s \in Seq(S)
      BY <2>4, <3>1
    <3>3. <<x>> \in Seq(S)
      BY <3>2
    <3>4. <<x>> \o s \in Seq(S)
      BY <3>2, <3>3
    <3> QED
      BY <3>1, <3>4
  <2>6. us[p] = <<x>> \o ts[p] /\ \A q \in Pairs : q # p => us[q] = ts[q]
    BY <2>2
  <2>7. \A q \in Pairs : us[q] \in Seq(PairPrices[q])
    BY <2>4, <2>5, <2>6
  <2> QED
    BY <2>1, <2>3, <2>7, Zenon
<1>11. tee' = [clock |-> tee'.clock, rings |-> tee'.rings, trades |-> tee'.trades, book |-> tee'.book,
            traded |-> tee'.traded, back |-> tee'.back, restarts |-> tee'.restarts]
  BY <1>3
<1>12. tee.back \in BOOLEAN /\ tee.restarts \in BOOLEAN /\ tee.book = [q \in Pairs |-> tee.book[q]]
       /\ \A q \in Pairs : tee.book[q] \in PairBooks[q]
  BY DEF TeeTypes
<1>13. tee'.clock \in Nat /\ tee'.back \in BOOLEAN /\ tee'.restarts \in BOOLEAN
  BY <1>4, <1>5, <1>12
<1>14. tee'.book = [q \in Pairs |-> tee'.book[q]]
  BY <1>5, <1>12, Zenon
<1>15. \A q \in Pairs : tee'.book[q] \in PairBooks[q]
  BY <1>5, <1>12, Zenon
<1>16. TeeTypes'
  BY <1>9, <1>10, <1>11, <1>13, <1>14, <1>15, Zenon DEF TeeTypes
<1> QED
  BY <1>4, <1>5, <1>7, <1>8, <1>16, Zenon DEF TradeMoves

\* A step of the market that is not a trade: a book, the clock, a restart.
LEMMA BookMovesParts ==
  ASSUME TeeTypes, NEW p \in Pairs, BookMoves(p)
  PROVE  /\ TeeTypes'
         /\ tee'.clock = tee.clock /\ tee'.rings = tee.rings /\ tee'.trades = tee.trades
         /\ tee'.back = tee.back /\ tee'.restarts = tee.restarts
<1>1. PICK b \in PairBooks[p] : tee' = [tee EXCEPT !.book[p] = b]
  BY DEF BookMoves, Market
<1>2. PICK a, r, c, d, e, f, g :
        /\ a = tee.clock /\ r = tee.rings /\ c = tee.trades /\ d = tee.book
        /\ e = tee.traded /\ f = tee.back /\ g = tee.restarts
  OBVIOUS
<1>3. tee = [clock |-> a, rings |-> r, trades |-> c, book |-> d, traded |-> e, back |-> f, restarts |-> g]
  BY <1>2 DEF TeeTypes
<1>4. tee' = [clock |-> a, rings |-> r, trades |-> c, book |-> [d EXCEPT ![p] = b], traded |-> e,
              back |-> f, restarts |-> g]
  BY <1>1, <1>3
<1>5. d = [q \in Pairs |-> d[q]] /\ \A q \in Pairs : d[q] \in PairBooks[q]
  BY <1>2 DEF TeeTypes
<1>6. tee'.book = [q \in Pairs |-> tee'.book[q]] /\ \A q \in Pairs : tee'.book[q] \in PairBooks[q]
  <2>1. PICK h : h = [d EXCEPT ![p] = b]
    OBVIOUS
  <2>2. h = [q \in Pairs |-> h[q]] /\ \A q \in Pairs : h[q] \in PairBooks[q]
    BY <1>5, <2>1
  <2>3. tee'.book = h
    BY <1>4, <2>1
  <2> QED
    BY <2>2, <2>3, Zenon
<1>7. /\ tee' = [clock |-> tee'.clock, rings |-> tee'.rings, trades |-> tee'.trades, book |-> tee'.book,
                 traded |-> tee'.traded, back |-> tee'.back, restarts |-> tee'.restarts]
      /\ tee'.clock = tee.clock /\ tee'.rings = tee.rings /\ tee'.trades = tee.trades
      /\ tee'.back = tee.back /\ tee'.restarts = tee.restarts
  BY <1>2, <1>4
<1>8. TeeTypes'
  <2>1. /\ tee'.clock \in Nat
        /\ tee'.rings \in [Pairs -> [Timeframes -> Seq(ServerCandle)]]
        /\ tee'.trades = [q \in Pairs |-> tee'.trades[q]]
        /\ \A q \in Pairs : tee'.trades[q] \in Seq(PairPrices[q])
        /\ tee'.back \in BOOLEAN /\ tee'.restarts \in BOOLEAN
    BY <1>7, Zenon DEF TeeTypes
  <2> QED
    BY <1>6, <1>7, <2>1, Zenon DEF TeeTypes
<1> QED
  BY <1>7, <1>8

\* The clock steps back, and that is remembered.
LEMMA ClockStepsBackParts ==
  ASSUME TeeTypes, ClockStepsBack
  PROVE  /\ TeeTypes'
         /\ tee'.rings = tee.rings /\ tee'.trades = tee.trades
         /\ tee'.back = TRUE /\ tee'.restarts = tee.restarts
<1>1. tee' = [tee EXCEPT !.clock = @ - 1, !.back = TRUE] /\ tee.clock > 1
  BY DEF ClockStepsBack, Market
<1>2. PICK a, r, c, d, e, f, g :
        /\ a = tee.clock /\ r = tee.rings /\ c = tee.trades /\ d = tee.book
        /\ e = tee.traded /\ f = tee.back /\ g = tee.restarts
  OBVIOUS
<1>3. tee = [clock |-> a, rings |-> r, trades |-> c, book |-> d, traded |-> e, back |-> f, restarts |-> g]
  BY <1>2 DEF TeeTypes
<1>4. tee' = [clock |-> a - 1, rings |-> r, trades |-> c, book |-> d, traded |-> e,
              back |-> TRUE, restarts |-> g]
  BY <1>1, <1>3
<1>5. a \in Nat /\ a > 1
  BY <1>1, <1>2 DEF TeeTypes
<1>6. /\ tee' = [clock |-> tee'.clock, rings |-> tee'.rings, trades |-> tee'.trades, book |-> tee'.book,
                 traded |-> tee'.traded, back |-> tee'.back, restarts |-> tee'.restarts]
      /\ tee'.rings = tee.rings /\ tee'.trades = tee.trades /\ tee'.book = tee.book
      /\ tee'.back = TRUE /\ tee'.restarts = tee.restarts
  BY <1>2, <1>4
<1>7. tee'.clock \in Nat
  BY <1>4, <1>5
<1>8. TeeTypes'
  <2>1. /\ tee'.rings \in [Pairs -> [Timeframes -> Seq(ServerCandle)]]
        /\ tee'.trades = [q \in Pairs |-> tee'.trades[q]] /\ tee'.book = [q \in Pairs |-> tee'.book[q]]
        /\ \A q \in Pairs : tee'.trades[q] \in Seq(PairPrices[q]) /\ tee'.book[q] \in PairBooks[q]
        /\ tee'.restarts \in BOOLEAN
    BY <1>6, Zenon DEF TeeTypes
  <2>2. tee'.back \in BOOLEAN
    BY <1>6
  <2> QED
    BY <1>6, <1>7, <2>1, <2>2, Zenon DEF TeeTypes
<1> QED
  BY <1>6, <1>8

\* A restart empties the rings and the trades, and is remembered.
LEMMA TeeRestartsParts ==
  ASSUME TeeTypes, TeeRestarts
  PROVE  /\ TeeTypes'
         /\ tee'.clock = tee.clock
         /\ \A p \in Pairs : /\ tee'.trades[p] = <<>>
                             /\ \A tf \in Timeframes : tee'.rings[p][tf] = <<>>
         /\ tee'.back = tee.back /\ tee'.restarts = TRUE
<1>1. tee' = [tee EXCEPT !.restarts = TRUE, !.rings = NoRings, !.trades = [p \in Pairs |-> <<>>]]
  BY DEF TeeRestarts, Market
<1>2. PICK a, r, c, d, e, f, g :
        /\ a = tee.clock /\ r = tee.rings /\ c = tee.trades /\ d = tee.book
        /\ e = tee.traded /\ f = tee.back /\ g = tee.restarts
  OBVIOUS
<1>3. tee = [clock |-> a, rings |-> r, trades |-> c, book |-> d, traded |-> e, back |-> f, restarts |-> g]
  BY <1>2 DEF TeeTypes
<1>4. PICK ts : ts = [p \in Pairs |-> <<>>]
  OBVIOUS
<1>5. tee' = [clock |-> a, rings |-> NoRings, trades |-> ts, book |-> d, traded |-> e,
              back |-> f, restarts |-> TRUE]
  BY <1>1, <1>3, <1>4
<1>6. /\ tee' = [clock |-> tee'.clock, rings |-> tee'.rings, trades |-> tee'.trades, book |-> tee'.book,
                 traded |-> tee'.traded, back |-> tee'.back, restarts |-> tee'.restarts]
      /\ tee'.clock = tee.clock /\ tee'.rings = NoRings /\ tee'.trades = ts /\ tee'.book = tee.book
      /\ tee'.back = tee.back /\ tee'.restarts = TRUE
  BY <1>2, <1>5
<1>7. \A p \in Pairs : /\ tee'.trades[p] = <<>>
                       /\ \A tf \in Timeframes : tee'.rings[p][tf] = <<>>
  BY <1>4, <1>6 DEF NoRings
<1>8. tee'.rings \in [Pairs -> [Timeframes -> Seq(ServerCandle)]]
  BY <1>6 DEF NoRings
<1>9. /\ tee'.trades = [q \in Pairs |-> tee'.trades[q]]
      /\ \A q \in Pairs : tee'.trades[q] \in Seq(PairPrices[q])
  BY <1>4, <1>6
<1>10. TeeTypes'
  <2>1. /\ tee'.clock \in Nat /\ tee'.book = [q \in Pairs |-> tee'.book[q]]
        /\ \A q \in Pairs : tee'.book[q] \in PairBooks[q]
        /\ tee'.back \in BOOLEAN
    BY <1>6, Zenon DEF TeeTypes
  <2>2. tee'.restarts \in BOOLEAN
    BY <1>6
  <2> QED
    BY <1>6, <1>8, <1>9, <2>1, <2>2, Zenon DEF TeeTypes
<1> QED
  BY <1>6, <1>7, <1>10

\* A step of the user: the page's state changes and is saved, the chart ch is
\* rendered, and a prefilled price is one of the ladder's or the one from before.
UserStep(ch) ==
  /\ page' \in PageType /\ stored' = Saved(page') /\ form' = FormPrice(page')
  /\ Rendered(page', candles, ch)
  /\ ~chart.broken /\ tee' = tee /\ books' = books /\ candles' = candles /\ inflight' = inflight
  /\ \/ page'.prefill = NoPrefill
     \/ page'.pair = page.pair /\ page'.prefill \in Clickable(page.pair)

\* What a saved page looks like, and a change of one field of a page.
LEMMA SavedType ==
  ASSUME NEW pg \in PageType
  PROVE  Saved(pg) \in [pair : Pairs, tf : Timeframes, panels : SUBSET Panels]
BY DEF PageType, Saved

\* SelectPair and SelectTimeframe change what is selected, and no panel.
LEMMA SelectPairStep ==
  ASSUME Types, NEW p \in Pairs, SelectPair(p)
  PROVE  UserStep(chart) /\ page'.panels = page.panels
<1>1. PICK a, b, c, d : /\ page = [pair |-> a, tf |-> b, prefill |-> c, panels |-> d]
                        /\ a \in Pairs /\ b \in Timeframes /\ c \in Nat /\ d \in SUBSET Panels
  BY DEF Types, PageTypes, PageType
<1>2. page' = [page EXCEPT !.pair = p, !.prefill = IF p = page.pair THEN @ ELSE NoPrefill]
  BY DEF SelectPair, SetPage, PairChanged
<1>3. page' = [pair |-> p, tf |-> b, prefill |-> IF p = a THEN c ELSE NoPrefill, panels |-> d]
  BY <1>1, <1>2
<1>4. page' \in PageType
  BY <1>1, <1>3 DEF PageType, NoPrefill
<1>5. page.prefill # NoPrefill => page.prefill \in Clickable(page.pair)
  BY DEF Types, PrefillFits, Clickable
<1>6. page'.prefill = NoPrefill \/ (page'.pair = page.pair /\ page'.prefill \in Clickable(page.pair))
  BY <1>1, <1>3, <1>5
<1>7. stored' = Saved(page') /\ form' = FormPrice(page') /\ Rendered(page', candles, chart)
  BY DEF SelectPair, SetPage
<1>8. ~chart.broken /\ tee' = tee /\ books' = books /\ candles' = candles /\ inflight' = inflight
  BY DEF SelectPair, User, Alive
<1> QED
  BY <1>1, <1>3, <1>4, <1>6, <1>7, <1>8 DEF UserStep

\* A timeframe of the bar is selected.
LEMMA SelectTimeframeStep ==
  ASSUME Types, NEW tf \in Timeframes, SelectTimeframe(tf)
  PROVE  UserStep(chart) /\ page'.panels = page.panels
<1>1. PICK a, b, c, d : /\ page = [pair |-> a, tf |-> b, prefill |-> c, panels |-> d]
                        /\ a \in Pairs /\ b \in Timeframes /\ c \in Nat /\ d \in SUBSET Panels
  BY DEF Types, PageTypes, PageType
<1>2. page' = [page EXCEPT !.tf = tf]
  BY DEF SelectTimeframe, SetPage
<1>3. page' = [pair |-> a, tf |-> tf, prefill |-> c, panels |-> d]
  BY <1>1, <1>2
<1>4. page' \in PageType
  BY <1>1, <1>3 DEF PageType
<1>5. page.prefill # NoPrefill => page.prefill \in Clickable(page.pair)
  BY DEF Types, PrefillFits, Clickable
<1>6. page'.prefill = NoPrefill \/ (page'.pair = page.pair /\ page'.prefill \in Clickable(page.pair))
  BY <1>1, <1>3, <1>5
<1>7. stored' = Saved(page') /\ form' = FormPrice(page') /\ Rendered(page', candles, chart)
  BY DEF SelectTimeframe, SetPage
<1>8. ~chart.broken /\ tee' = tee /\ books' = books /\ candles' = candles /\ inflight' = inflight
  BY DEF SelectTimeframe, User, Alive
<1> QED
  BY <1>1, <1>3, <1>4, <1>6, <1>7, <1>8 DEF UserStep

\* A clicked row is one of the ladder, which shows prices of the pair.
LEMMA ClickRowStep ==
  ASSUME MarketDataAssumption, MarketPageAssumption, Types, ClickRow
  PROVE  UserStep(chart) /\ page'.panels = page.panels
<1>1. PICK a, b, c, d : /\ page = [pair |-> a, tf |-> b, prefill |-> c, panels |-> d]
                        /\ a \in Pairs /\ b \in Timeframes /\ c \in Nat /\ d \in SUBSET Panels
  BY DEF Types, PageTypes, PageType
<1>2. PICK side \in {Ladder.bids, Ladder.asks} :
        \E i \in DOMAIN side : SetPage([page EXCEPT !.prefill = side[i].price], chart)
  BY DEF ClickRow
<1> PICK i \in DOMAIN side : SetPage([page EXCEPT !.prefill = side[i].price], chart)
  BY <1>2
<1>3. PICK x : x = side[i].price
  OBVIOUS
<1>4. x \in Clickable(a) /\ x \in Nat
  <2>1. PICK bids, asks : bids = ShownBook(books, a).bids /\ asks = ShownBook(books, a).asks
    OBVIOUS
  <2>2. /\ Quotes(bids) /\ Quotes(asks)
        /\ Prices(bids) \cup Prices(asks) \subseteq Clickable(a)
    BY <1>1, <2>1, ShownOfPair DEF Types, Clickable
  <2>3. /\ \A k \in DOMAIN BookView(bids, asks).bids : BookView(bids, asks).bids[k].price \in Prices(bids)
        /\ \A k \in DOMAIN BookView(bids, asks).asks : BookView(bids, asks).asks[k].price \in Prices(asks)
    BY <2>2, LadderParts
  <2>4. Ladder = BookView(bids, asks)
    BY <1>1, <2>1 DEF Ladder
  <2>5. x \in Prices(bids) \cup Prices(asks)
    BY <1>3, <2>3, <2>4
  <2>6. Prices(bids) \subseteq Nat /\ Prices(asks) \subseteq Nat
    BY <2>2 DEF Quotes
  <2> QED
    BY <2>2, <2>5, <2>6
<1>5. /\ page' = [page EXCEPT !.prefill = x] /\ stored' = Saved(page') /\ form' = FormPrice(page')
      /\ Rendered(page', candles, chart)
  BY <1>3 DEF SetPage
<1>6. page' = [pair |-> a, tf |-> b, prefill |-> x, panels |-> d]
  BY <1>1, <1>5
<1>7. page' \in PageType
  BY <1>1, <1>4, <1>6 DEF PageType
<1>8. ~chart.broken /\ tee' = tee /\ books' = books /\ candles' = candles /\ inflight' = inflight
  BY DEF ClickRow, User, Alive
<1> QED
  BY <1>1, <1>4, <1>5, <1>6, <1>7, <1>8 DEF UserStep

\* A panel goes, and with the chart's panel its chart.
LEMMA ClosePanelStep ==
  ASSUME Types, NEW id \in Panels, ClosePanel(id)
  PROVE  /\ UserStep(IF id = "chart" THEN NewChart ELSE chart)
         /\ page'.panels = page.panels \ {id} /\ page'.pair = page.pair /\ page'.tf = page.tf
<1>1. PICK a, b, c, d : /\ page = [pair |-> a, tf |-> b, prefill |-> c, panels |-> d]
                        /\ a \in Pairs /\ b \in Timeframes /\ c \in Nat /\ d \in SUBSET Panels
  BY DEF Types, PageTypes, PageType
<1>2. page' = [page EXCEPT !.panels = @ \ {id}]
  BY DEF ClosePanel, SetPage
<1>3. page' = [pair |-> a, tf |-> b, prefill |-> c, panels |-> d \ {id}]
  BY <1>1, <1>2
<1>4. page' \in PageType
  BY <1>1, <1>3 DEF PageType
<1>5. page.prefill # NoPrefill => page.prefill \in Clickable(page.pair)
  BY DEF Types, PrefillFits, Clickable
<1>6. page'.prefill = NoPrefill \/ (page'.pair = page.pair /\ page'.prefill \in Clickable(page.pair))
  BY <1>1, <1>3, <1>5
<1>7. /\ stored' = Saved(page') /\ form' = FormPrice(page')
      /\ Rendered(page', candles, IF id = "chart" THEN NewChart ELSE chart)
  BY DEF ClosePanel, SetPage
<1>8. ~chart.broken /\ tee' = tee /\ books' = books /\ candles' = candles /\ inflight' = inflight
  BY DEF ClosePanel, User, Alive
<1> QED
  BY <1>1, <1>3, <1>4, <1>6, <1>7, <1>8 DEF UserStep

\* A panel comes back; the chart's panel with a chart just mounted.
LEMMA RestorePanelStep ==
  ASSUME Types, NEW id \in Panels, RestorePanel(id)
  PROVE  /\ UserStep(IF id # "chart" THEN chart
                     ELSE Mounted(BarsOf(candles, page.pair, page.tf), page.pair, page.tf))
         /\ id \notin page.panels
         /\ page'.panels = page.panels \cup {id} /\ page'.pair = page.pair /\ page'.tf = page.tf
<1>1. PICK a, b, c, d : /\ page = [pair |-> a, tf |-> b, prefill |-> c, panels |-> d]
                        /\ a \in Pairs /\ b \in Timeframes /\ c \in Nat /\ d \in SUBSET Panels
  BY DEF Types, PageTypes, PageType
<1>2. page' = [page EXCEPT !.panels = @ \cup {id}]
  BY DEF RestorePanel, SetPage
<1>3. page' = [pair |-> a, tf |-> b, prefill |-> c, panels |-> d \cup {id}]
  BY <1>1, <1>2
<1>4. page' \in PageType
  BY <1>1, <1>3 DEF PageType
<1>5. page.prefill # NoPrefill => page.prefill \in Clickable(page.pair)
  BY DEF Types, PrefillFits, Clickable
<1>6. page'.prefill = NoPrefill \/ (page'.pair = page.pair /\ page'.prefill \in Clickable(page.pair))
  BY <1>1, <1>3, <1>5
<1>7. /\ stored' = Saved(page') /\ form' = FormPrice(page')
      /\ Rendered(page', candles, IF id # "chart" THEN chart
                     ELSE Mounted(BarsOf(candles, page.pair, page.tf), page.pair, page.tf))
  BY DEF RestorePanel, SetPage
<1>8. ~chart.broken /\ tee' = tee /\ books' = books /\ candles' = candles /\ inflight' = inflight
  BY DEF RestorePanel, User, Alive
<1>9. id \notin page.panels
  BY DEF RestorePanel, HiddenPanels
<1> QED
  BY <1>1, <1>3, <1>4, <1>6, <1>7, <1>8, <1>9 DEF UserStep

\* What a step of the user puts into the form is of the pair selected: it is the
\* price of a click, which a change of pair has forgotten.
LEMMA FormFilled ==
  ASSUME Types, NEW ch, UserStep(ch)
  PROVE  /\ form' \in Nat
         /\ form' # form /\ form' # NoPrefill => form' \in Clickable(page'.pair)
<1>1. \/ form' = NoPrefill \/ form' = form
      \/ form' = page'.prefill /\ page'.prefill # NoPrefill
  BY DEF UserStep, FormPrice, Copies
<1>2. form \in Nat /\ NoPrefill \in Nat /\ page'.prefill \in Nat
  BY DEF Types, PageTypes, UserStep, PageType, NoPrefill
<1>3. page'.prefill # NoPrefill => page'.prefill \in Clickable(page'.pair)
  BY DEF UserStep
<1> QED
  BY <1>1, <1>2, <1>3

\* An answer is told from none by what it holds.
LEMMA AnswerIsSome ==
  /\ \A p \in Pairs : \A x \in BookAnswer(p) : x # NoAnswer
  /\ \A p \in Pairs, tf \in Timeframes : \A x \in CandlesOf(p, tf) : x # NoAnswer
<1>1. DOMAIN NoAnswer = {"pair"}
  BY DEF NoAnswer
<1>2. ASSUME NEW p \in Pairs, NEW x \in BookAnswer(p) PROVE x # NoAnswer
  <2>1. "book" \in DOMAIN x
    BY DEF BookAnswer
  <2> QED
    BY <1>1, <2>1
<1>3. ASSUME NEW p \in Pairs, NEW tf \in Timeframes, NEW x \in CandlesOf(p, tf) PROVE x # NoAnswer
  <2>1. "candles" \in DOMAIN x
    BY DEF CandlesOf
  <2> QED
    BY <1>1, <2>1
<1> QED
  BY <1>2, <1>3

\* Keys say which query of which pair they are of.
LEMMA KeysDiffer ==
  /\ \A p, q : BookKey(p) = BookKey(q) => p = q
  /\ \A p, q, s, t : CandlesKey(p, s) = CandlesKey(q, t) => p = q /\ s = t
  /\ \A p, q, t : BookKey(p) # CandlesKey(q, t)
  /\ \A p : BookKey(p)[1] = "bookState" /\ BookKey(p)[2] = p
  /\ \A p, t : /\ CandlesKey(p, t)[1] = "candles" /\ CandlesKey(p, t)[1] # "bookState"
               /\ CandlesKey(p, t)[2] = p /\ CandlesKey(p, t)[3] = t
               /\ BookKey(p)[1] # "candles"
BY DEF BookKey, CandlesKey

\* An answer just taken knew of all trades, whatever its limit, and one of nothing of
\* none.
LEMMA KnewTrivially ==
  ASSUME NEW S, NEW all \in Seq(S), NEW n \in Nat \ {0}
  PROVE  /\ Knew(all, Len(all), FirstOf(all, n)) /\ \A ts : Knew(all, 0, ts)
         /\ FirstOf(all, n) \in Seq(S)
<1>1. PICK l, m, r : l = Len(all) /\ m = Min({l, n}) /\ r = SubSeq(all, 1, m)
  OBVIOUS
<1>2. l \in Nat /\ FirstOf(all, n) = r
  BY <1>1 DEF FirstOf
<1>3. m \in Nat /\ m <= l /\ m \in {l, n}
  BY <1>1, <1>2, MaxOfTwo
<1>4. r \in Seq(S) /\ Len(r) = m /\ \A i \in 1..m : r[i] = all[i]
  <2>1. \A i \in 1..m : i \in 1..Len(all)
    BY <1>1, <1>2, <1>3
  <2>2. /\ SubSeq(all, 1, m) \in Seq(S) /\ Len(SubSeq(all, 1, m)) = m
        /\ \A i \in 1..m : SubSeq(all, 1, m)[i] = all[1 + i - 1]
    BY <1>3, <2>1, SubSeqProperties
  <2>3. \A i \in 1..m : 1 + i - 1 = i
    BY <1>3
  <2> QED
    BY <1>1, <2>2, <2>3
<1>5. ASSUME l > 0 PROVE r # <<>> /\ r[1] = all[l - l + 1]
  <2>1. 1 \in 1..m /\ l - l + 1 = 1
    BY <1>2, <1>3, <1>5
  <2>2. r # <<>>
    BY <1>4, <2>1
  <2> QED
    BY <1>4, <2>1, <2>2
<1>6. Knew(all, l, r)
  <2>1. Len(all) = l /\ l <= l
    BY <1>1, <1>2
  <2>2. l > 0 => r # <<>> /\ r[1] = all[l - l + 1]
    BY <1>5, Zenon
  <2> QED
    BY <2>1, <2>2, Zenon DEF Knew
<1>7. \A ts : Knew(all, 0, ts)
  BY <1>1, <1>2 DEF Knew
<1> QED
  BY <1>1, <1>2, <1>4, <1>6, <1>7

\* An answer just taken.
Fresh(x) ==
  \/ /\ x.key = BookKey(page.pair)
     /\ x.data = [pair |-> page.pair, book |-> tee.book[page.pair],
                  known |-> Len(tee.trades[page.pair]),
                  trades |-> FirstOf(tee.trades[page.pair], MatchLimit)]
  \/ /\ x.key = CandlesKey(page.pair, page.tf)
     /\ x.data = [pair |-> page.pair, tf |-> page.tf,
                  candles |-> Newest(tee.rings[page.pair][page.tf], CandleLimit)]

Unchanged == /\ tee' = tee /\ page' = page /\ form' = form /\ stored' = stored /\ books' = books
             /\ candles' = candles /\ chart' = chart

\* Taking an answer puts it among those under way, in place of one of its key.
LEMMA TakeAnswerParts ==
  ASSUME MarketDataAssumption, MarketPageAssumption, Types, NEW key \in ActiveKeys, TakeAnswer(key)
  PROVE  /\ Unchanged
         /\ \E x : Fresh(x) /\ Query(x) /\ inflight' = {y \in inflight : y.key # x.key} \cup {x}
<1>1. PICK x : x = [key |-> key, data |-> Answer(key)]
  OBVIOUS
<1>2. inflight' = {y \in inflight : y.key # key} \cup {x} /\ Unchanged
  BY <1>1 DEF TakeAnswer, Unchanged
<1>3. x.key = key /\ x.data = Answer(key)
  BY <1>1
<1>4. PICK p, tf : p = page.pair /\ tf = page.tf /\ p \in Pairs /\ tf \in Timeframes
  BY DEF Types, PageTypes, PageType
<1>5. CASE key = BookKey(p)
  <2>1. key[1] = "bookState" /\ key[2] = p
    BY <1>5, KeysDiffer
  <2>2. x.data = [pair |-> p, book |-> tee.book[p], known |-> Len(tee.trades[p]),
                  trades |-> FirstOf(tee.trades[p], MatchLimit)]
    BY <1>3, <2>1 DEF Answer
  <2>3. Fresh(x)
    BY <1>3, <1>4, <1>5, <2>2 DEF Fresh
  <2>4. /\ tee.book[p] \in PairBooks[p] /\ Len(tee.trades[p]) \in Nat
        /\ FirstOf(tee.trades[p], MatchLimit) \in Seq(PairPrices[p])
    <3>1. tee.book[p] \in PairBooks[p] /\ tee.trades[p] \in Seq(PairPrices[p])
      BY <1>4 DEF Types, TeeTypes
    <3>2. MatchLimit \in Nat \ {0}
      BY DEF MarketPageAssumption
    <3>3. FirstOf(tee.trades[p], MatchLimit) \in Seq(PairPrices[p])
      BY <3>1, <3>2, KnewTrivially, Zenon
    <3> QED
      BY <3>1, <3>3
  <2>5. x.data \in BookAnswer(p)
    BY <2>2, <2>4 DEF BookAnswer
  <2>6. Query(x)
    BY <1>3, <1>4, <1>5, <2>5 DEF Query
  <2> QED
    BY <1>2, <1>3, <2>3, <2>6
<1>6. CASE key = CandlesKey(p, tf)
  <2>1. key[1] # "bookState" /\ key[2] = p /\ key[3] = tf
    BY <1>6, KeysDiffer
  <2>2. x.data = [pair |-> p, tf |-> tf, candles |-> Newest(tee.rings[p][tf], CandleLimit)]
    BY <1>3, <2>1 DEF Answer, CandlesAnswer
  <2>3. Fresh(x)
    BY <1>3, <1>4, <1>6, <2>2 DEF Fresh
  <2>4. tee.rings[p][tf] \in Seq(ServerCandle) /\ CandleLimit \in Nat \ {0}
    BY <1>4 DEF Types, TeeTypes, MarketDataAssumption
  <2>5. Newest(tee.rings[p][tf], CandleLimit) \in Seq(ServerCandle)
    BY <2>4, NewestParts
  <2>6. x.data \in CandlesOf(p, tf)
    BY <2>2, <2>5 DEF CandlesOf
  <2>7. Query(x)
    BY <1>3, <1>4, <1>6, <2>6 DEF Query
  <2> QED
    BY <1>2, <1>3, <2>3, <2>7
<1>7. key = BookKey(p) \/ key = CandlesKey(p, tf)
  BY <1>4 DEF ActiveKeys
<1> QED
  BY <1>5, <1>6, <1>7

\* Applying an answer puts it into its own place of the cache.
BooksTake(p, data) ==
  /\ candles' = candles /\ books'[p] = data
  /\ \A q \in Pairs : q # p => books'[q] = books[q]

CandlesTake(p, tf, data) ==
  /\ books' = books /\ candles'[p][tf] = data
  /\ \A q \in Pairs, t \in Timeframes : (q # p \/ t # tf) => candles'[q][t] = candles[q][t]

\* What applying an answer does: it leaves the queue for the cache, and the page is
\* rendered with it.
LEMMA ApplyAnswerParts ==
  ASSUME Types, NEW x \in inflight, ApplyAnswer(x)
  PROVE  /\ tee' = tee /\ page' = page /\ form' = form /\ stored' = stored
         /\ inflight' = inflight \ {x}
         /\ Rendered(page', candles', chart) /\ ~chart.broken
         /\ \/ \E p \in Pairs : /\ x.key = BookKey(p) /\ x.data \in BookAnswer(p)
                                /\ BooksTake(p, x.data)
            \/ \E p \in Pairs, tf \in Timeframes :
                 /\ x.key = CandlesKey(p, tf) /\ x.data \in CandlesOf(p, tf)
                 /\ CandlesTake(p, tf, x.data)
         /\ CacheTypes'
<1>1. /\ tee' = tee /\ page' = page /\ form' = form /\ stored' = stored
      /\ inflight' = inflight \ {x}
      /\ books' = BooksAfter(x) /\ candles' = CandlesAfter(x) /\ Rendered(page, CandlesAfter(x), chart)
      /\ ~chart.broken
  BY DEF ApplyAnswer, Alive
<1>2. Rendered(page', candles', chart)
  BY <1>1, Zenon
<1>3. \A y \in inflight : Query(y)
  BY DEF Types, CacheTypes
<1>4. /\ \A y \in inflight' : Query(y)
      /\ \A y, z \in inflight' : y.key = z.key => y = z
  BY <1>1, <1>3 DEF Types, CacheTypes
<1>5. /\ books = [p \in Pairs |-> books[p]]
      /\ \A p \in Pairs : books[p] = NoAnswer \/ books[p] \in BookAnswer(p)
      /\ candles = [p \in Pairs |-> [tf \in Timeframes |-> candles[p][tf]]]
      /\ \A p \in Pairs, tf \in Timeframes :
           candles[p][tf] = NoAnswer \/ candles[p][tf] \in CandlesOf(p, tf)
  BY DEF Types, CacheTypes
<1>6. ASSUME NEW p \in Pairs, x.key = BookKey(p), x.data \in BookAnswer(p)
      PROVE  BooksTake(p, x.data) /\ CacheTypes'
  <2>1. x.key[1] = "bookState" /\ x.key[1] # "candles" /\ x.key[2] = p
    BY <1>6, KeysDiffer
  <2>2. books' = [books EXCEPT ![p] = x.data] /\ candles' = candles
    BY <1>1, <2>1 DEF BooksAfter, CandlesAfter
  <2>3. PICK b, c, d : b = books /\ c = books' /\ d = x.data
    OBVIOUS
  <2>4. c = [b EXCEPT ![p] = d] /\ b = [q \in Pairs |-> b[q]]
    BY <1>5, <2>2, <2>3
  <2>5. c = [q \in Pairs |-> c[q]] /\ c[p] = d /\ \A q \in Pairs : q # p => c[q] = b[q]
    BY <2>4
  <2>6. BooksTake(p, x.data)
    BY <2>2, <2>3, <2>5 DEF BooksTake
  <2>7. \A q \in Pairs : c[q] = NoAnswer \/ c[q] \in BookAnswer(q)
    BY <1>5, <1>6, <2>3, <2>5
  <2>8. CacheTypes'
    BY <1>4, <1>5, <2>2, <2>3, <2>5, <2>7, Zenon DEF CacheTypes
  <2> QED
    BY <2>6, <2>8
<1>7. ASSUME NEW p \in Pairs, NEW tf \in Timeframes, x.key = CandlesKey(p, tf), x.data \in CandlesOf(p, tf)
      PROVE  CandlesTake(p, tf, x.data) /\ CacheTypes'
  <2>1. x.key[1] # "bookState" /\ x.key[1] = "candles" /\ x.key[2] = p /\ x.key[3] = tf
    BY <1>7, KeysDiffer
  <2>2. candles' = [candles EXCEPT ![p][tf] = x.data] /\ books' = books
    BY <1>1, <2>1 DEF BooksAfter, CandlesAfter
  <2>3. PICK b, c, d : b = candles /\ c = candles' /\ d = x.data
    OBVIOUS
  <2>4. c = [b EXCEPT ![p][tf] = d] /\ b = [q \in Pairs |-> [t \in Timeframes |-> b[q][t]]]
    BY <1>5, <2>2, <2>3
  <2>5. DOMAIN b = Pairs /\ \A q \in Pairs : b[q] = [t \in Timeframes |-> b[q][t]]
    BY <2>4
  <2>6. /\ c = [q \in Pairs |-> c[q]] /\ c[p] = [b[p] EXCEPT ![tf] = d]
        /\ \A q \in Pairs : q # p => c[q] = b[q]
    BY <2>4, <2>5
  <2>7. DOMAIN b[p] = Timeframes
    BY <2>5
  <2>8. /\ c[p][tf] = d /\ \A t \in Timeframes : t # tf => c[p][t] = b[p][t]
        /\ c[p] = [t \in Timeframes |-> c[p][t]]
    BY <2>6, <2>7
  <2>9. \A q \in Pairs : c[q] = [t \in Timeframes |-> c[q][t]]
    BY <2>5, <2>6, <2>8
  <2>10. c = [q \in Pairs |-> [t \in Timeframes |-> c[q][t]]]
    BY <2>6, <2>9
  <2>11. CandlesTake(p, tf, x.data)
    BY <2>2, <2>3, <2>6, <2>8 DEF CandlesTake
  <2>12. \A q \in Pairs, t \in Timeframes : c[q][t] = NoAnswer \/ c[q][t] \in CandlesOf(q, t)
    BY <1>5, <1>7, <2>3, <2>6, <2>8
  <2>13. CacheTypes'
    <3>1. candles' = [q \in Pairs |-> [t \in Timeframes |-> candles'[q][t]]]
      BY <2>3, <2>10, Zenon
    <3>2. \A q \in Pairs, t \in Timeframes :
            candles'[q][t] = NoAnswer \/ candles'[q][t] \in CandlesOf(q, t)
      BY <2>3, <2>12, Zenon
    <3>3. books' = [q \in Pairs |-> books'[q]]
      BY <1>5, <2>2, Zenon
    <3>4. \A q \in Pairs : books'[q] = NoAnswer \/ books'[q] \in BookAnswer(q)
      BY <1>5, <2>2, Zenon
    <3> QED
      BY <1>4, <3>1, <3>2, <3>3, <3>4, Zenon DEF CacheTypes
  <2> QED
    BY <2>11, <2>13
<1>8. Query(x)
  BY <1>3
<1> QED
  BY <1>1, <1>2, <1>6, <1>7, <1>8 DEF Query

\* Loading a page takes what was saved if it is still offered.
LEMMA LoadedType ==
  ASSUME MarketPageAssumption,
         NEW s, s.panels \in SUBSET Panels
  PROVE  Loaded(s) \in PageType /\ Loaded(s).prefill = NoPrefill
<1>1. /\ (IF s.pair \in Pairs THEN s.pair ELSE DefaultPair) \in Pairs
      /\ (IF s.tf \in Timeframes THEN s.tf ELSE DefaultTimeframe) \in Timeframes
  BY DEF MarketPageAssumption
<1> QED
  BY <1>1 DEF Loaded, PageType, NoPrefill

\* The first visit, from what an earlier version left.
LEMMA TypesInit ==
  ASSUME MarketPageAssumption, Init
  PROVE  Types
<1>1. OldVisit.panels \in SUBSET Panels
  BY DEF OldVisit
<1>2. page \in PageType /\ page.prefill = NoPrefill /\ stored = Saved(page) /\ form \in Nat
  BY <1>1, LoadedType DEF Init, NoPrefill
<1>3. PageTypes
  BY <1>2, SavedType DEF PageTypes
<1>4. PrefillFits
  BY <1>2 DEF PrefillFits
<1>5. PICK b : b = [p \in Pairs |-> CHOOSE x \in PairBooks[p] : TRUE]
  OBVIOUS
<1>6. \A p \in Pairs : b[p] \in PairBooks[p]
  BY <1>5 DEF MarketPageAssumption
<1>7. tee = [clock |-> 1, rings |-> NoRings, trades |-> [p \in Pairs |-> <<>>], book |-> b,
             traded |-> 0, back |-> FALSE, restarts |-> FALSE]
  BY <1>5, Zenon DEF Init
<1>8. PICK ts : ts = [p \in Pairs |-> <<>>]
  OBVIOUS
<1>9. tee = [clock |-> 1, rings |-> NoRings, trades |-> ts, book |-> b,
             traded |-> 0, back |-> FALSE, restarts |-> FALSE]
  BY <1>7, <1>8
<1>10. /\ tee = [clock |-> tee.clock, rings |-> tee.rings, trades |-> tee.trades, book |-> tee.book,
                 traded |-> tee.traded, back |-> tee.back, restarts |-> tee.restarts]
       /\ tee.clock \in Nat /\ tee.rings = NoRings /\ tee.trades = ts /\ tee.book = b
       /\ tee.back \in BOOLEAN /\ tee.restarts \in BOOLEAN
  BY <1>9
<1>11. NoRings \in [Pairs -> [Timeframes -> Seq(ServerCandle)]]
  BY DEF NoRings
<1>12. ts = [p \in Pairs |-> ts[p]] /\ b = [p \in Pairs |-> b[p]]
       /\ \A p \in Pairs : ts[p] \in Seq(PairPrices[p])
  BY <1>5, <1>8
<1>13. TeeTypes
  BY <1>6, <1>10, <1>11, <1>12, Zenon DEF TeeTypes
<1>14. books = NoBooks /\ candles = NoCandles /\ inflight = {}
  BY DEF Init
<1>15. /\ NoBooks = [p \in Pairs |-> NoBooks[p]] /\ \A p \in Pairs : NoBooks[p] = NoAnswer
       /\ NoCandles = [p \in Pairs |-> [tf \in Timeframes |-> NoCandles[p][tf]]]
       /\ \A p \in Pairs, tf \in Timeframes : NoCandles[p][tf] = NoAnswer
  BY DEF NoBooks, NoCandles
<1>16. CacheTypes
  <2>1. /\ books = [p \in Pairs |-> books[p]]
        /\ \A p \in Pairs : books[p] = NoAnswer
    BY <1>14, <1>15, Zenon
  <2>2. candles = [p \in Pairs |-> [tf \in Timeframes |-> candles[p][tf]]]
    <3>1. PICK c : c = NoCandles
      OBVIOUS
    <3>2. c = [p \in Pairs |-> [tf \in Timeframes |-> c[p][tf]]]
      BY <3>1 DEF NoCandles
    <3>3. c = candles
      BY <1>14, <3>1
    <3> QED
      BY <3>2, <3>3, Zenon
  <2>3. \A p \in Pairs, tf \in Timeframes : candles[p][tf] = NoAnswer
    BY <1>14, <1>15, Zenon
  <2>4. \A x \in inflight : FALSE
    BY <1>14
  <2> QED
    BY <2>1, <2>2, <2>3, <2>4, Zenon DEF CacheTypes
<1> QED
  BY <1>3, <1>4, <1>13, <1>16 DEF Types

\* The user's steps keep the types.
LEMMA UserTypes ==
  ASSUME MarketPageAssumption, Types, NEW ch, UserStep(ch)
  PROVE  Types'
<1>1. PageTypes'
  BY SavedType, FormFilled DEF UserStep, PageTypes
<1>2. TeeTypes'
  BY DEF Types, UserStep, TeeTypes
<1>3. books' = books /\ candles' = candles /\ inflight' = inflight
  BY DEF UserStep
<1>4. CacheTypes'
  BY <1>3 DEF Types, CacheTypes, Query
<1>5. PrefillFits'
  BY DEF UserStep, PrefillFits, Clickable
<1> QED
  BY <1>1, <1>2, <1>4, <1>5 DEF Types

\* A reload keeps what was saved and nothing else of the page.
LEMMA ReloadTypes ==
  ASSUME MarketPageAssumption, Types, Reload
  PROVE  Types' /\ tee' = tee
<1>1. stored.panels \in SUBSET Panels
  BY DEF Types, PageTypes
<1>2. Loaded(stored) \in PageType /\ Loaded(stored).prefill = NoPrefill
  BY <1>1, LoadedType
<1>3. page' = Loaded(stored) /\ stored' = Saved(Loaded(stored)) /\ tee' = tee /\ form' \in Nat
  BY DEF Reload, NoPrefill
<1>4. PageTypes'
  BY <1>2, <1>3, SavedType DEF PageTypes
<1>5. PrefillFits'
  BY <1>2, <1>3 DEF PrefillFits
<1>6. TeeTypes'
  BY <1>3 DEF Types, TeeTypes
<1>7. books' = NoBooks /\ candles' = NoCandles /\ inflight' = {}
  BY DEF Reload
<1>8. /\ NoBooks = [p \in Pairs |-> NoBooks[p]] /\ \A p \in Pairs : NoBooks[p] = NoAnswer
      /\ NoCandles = [p \in Pairs |-> [tf \in Timeframes |-> NoCandles[p][tf]]]
      /\ \A p \in Pairs, tf \in Timeframes : NoCandles[p][tf] = NoAnswer
  BY DEF NoBooks, NoCandles
<1>9. CacheTypes'
  <2>1. /\ books' = [p \in Pairs |-> books'[p]]
        /\ \A p \in Pairs : books'[p] = NoAnswer
    BY <1>7, <1>8, Zenon
  <2>2. candles' = [p \in Pairs |-> [tf \in Timeframes |-> candles'[p][tf]]]
    <3>1. PICK c : c = NoCandles
      OBVIOUS
    <3>2. c = [p \in Pairs |-> [tf \in Timeframes |-> c[p][tf]]]
      BY <3>1 DEF NoCandles
    <3>3. c = candles'
      BY <1>7, <3>1
    <3> QED
      BY <3>2, <3>3, Zenon
  <2>3. \A p \in Pairs, tf \in Timeframes : candles'[p][tf] = NoAnswer
    BY <1>7, <1>8, Zenon
  <2>4. \A x \in inflight' : FALSE
    BY <1>7
  <2> QED
    BY <2>1, <2>2, <2>3, <2>4, Zenon DEF CacheTypes
<1> QED
  BY <1>3, <1>4, <1>5, <1>6, <1>9 DEF Types

\* Answers keep the types.
LEMMA TakeAnswerTypes ==
  ASSUME MarketDataAssumption, MarketPageAssumption, Types, NEW key \in ActiveKeys, TakeAnswer(key)
  PROVE  Types'
<1>1. Unchanged /\ \E x : Fresh(x) /\ Query(x) /\ inflight' = {y \in inflight : y.key # x.key} \cup {x}
  BY TakeAnswerParts
<1>2. PICK x : Query(x) /\ inflight' = {y \in inflight : y.key # x.key} \cup {x}
  BY <1>1
<1>3. /\ \A y \in inflight' : Query(y)
      /\ \A y, z \in inflight' : y.key = z.key => y = z
  BY <1>2 DEF Types, CacheTypes
<1>4. CacheTypes'
  BY <1>1, <1>3 DEF Types, CacheTypes, Unchanged
<1>5. PageTypes' /\ TeeTypes' /\ PrefillFits'
  BY <1>1 DEF Types, PageTypes, TeeTypes, PrefillFits, Unchanged
<1> QED
  BY <1>4, <1>5 DEF Types

\* Applying an answer keeps the types.
LEMMA ApplyAnswerTypes ==
  ASSUME Types, NEW x \in inflight, ApplyAnswer(x)
  PROVE  Types'
<1>1. tee' = tee /\ page' = page /\ form' = form /\ stored' = stored /\ CacheTypes'
  BY ApplyAnswerParts
<1>2. PageTypes' /\ TeeTypes' /\ PrefillFits'
  BY <1>1 DEF Types, PageTypes, TeeTypes, PrefillFits
<1> QED
  BY <1>1, <1>2 DEF Types

\* The market's steps leave the page and the caches alone.
PageUnchanged == /\ page' = page /\ form' = form /\ stored' = stored /\ books' = books
                 /\ candles' = candles /\ inflight' = inflight /\ chart' = chart

\* So does a step of the market.
LEMMA MarketTypes ==
  ASSUME Types, PageUnchanged, TeeTypes'
  PROVE  Types'
<1>1. PageTypes' /\ CacheTypes' /\ PrefillFits'
  BY DEF Types, PageTypes, CacheTypes, PrefillFits, PageUnchanged, Query
<1> QED
  BY <1>1 DEF Types

\* The kinds of steps.
LEMMA StepKinds ==
  ASSUME MarketDataAssumption, MarketPageAssumption, Types, [Next]_vars
  PROVE  \/ PageUnchanged /\ tee' = tee
         \/ UserStep(chart) /\ page'.panels = page.panels
         \/ \E id \in Panels : ClosePanel(id) \/ RestorePanel(id)
         \/ Reload
         \/ \E key \in ActiveKeys : TakeAnswer(key)
         \/ \E x \in inflight : ApplyAnswer(x)
         \/ PageUnchanged /\ \E p \in Pairs : \E x \in PairPrices[p], t \in 1..MaxTime : Trade(p, x, t)
         \/ PageUnchanged /\ \E p \in Pairs : BookMoves(p)
         \/ PageUnchanged /\ (ClockStepsBack \/ TeeRestarts)
<1>1. CASE UNCHANGED vars
  BY <1>1 DEF vars, PageUnchanged
<1>2. CASE ClickRow
  BY <1>2, ClickRowStep
<1>3. CASE Reload
  BY <1>3
<1>4. ASSUME NEW p \in Pairs, SelectPair(p) PROVE UserStep(chart) /\ page'.panels = page.panels
  BY <1>4, SelectPairStep
<1>5. ASSUME NEW p \in Pairs, BookMoves(p) PROVE PageUnchanged
  BY <1>5 DEF BookMoves, Market, PageUnchanged
<1>6. ASSUME NEW p \in Pairs, NEW x \in PairPrices[p], NEW t \in 1..MaxTime, Trade(p, x, t)
      PROVE  PageUnchanged
  BY <1>6 DEF Trade, Market, PageUnchanged
<1>7. ASSUME NEW tf \in Timeframes, SelectTimeframe(tf) PROVE UserStep(chart) /\ page'.panels = page.panels
  BY <1>7, SelectTimeframeStep
<1>8. ClockStepsBack \/ TeeRestarts => PageUnchanged
  BY DEF ClockStepsBack, TeeRestarts, Market, PageUnchanged
<1> QED
  BY <1>1, <1>2, <1>3, <1>4, <1>5, <1>6, <1>7, <1>8, Zenon DEF Next

\* Every variable keeps its type, and the prefilled price is of the selected pair.
LEMMA TypesStep ==
  ASSUME MarketDataAssumption, MarketPageAssumption, Types, [Next]_vars
  PROVE  Types'
<1>1. CASE PageUnchanged /\ tee' = tee
  <2>1. TeeTypes'
    BY <1>1 DEF Types, TeeTypes
  <2> QED
    BY <1>1, <2>1, MarketTypes
<1>2. CASE UserStep(chart)
  BY <1>2, UserTypes
<1>3. ASSUME NEW id \in Panels, ClosePanel(id) \/ RestorePanel(id) PROVE Types'
  <2>1. CASE ClosePanel(id)
    BY <2>1, ClosePanelStep, UserTypes
  <2>2. CASE RestorePanel(id)
    BY <2>2, RestorePanelStep, UserTypes
  <2> QED
    BY <1>3, <2>1, <2>2
<1>4. CASE Reload
  BY <1>4, ReloadTypes
<1>5. ASSUME NEW key \in ActiveKeys, TakeAnswer(key) PROVE Types'
  BY <1>5, TakeAnswerTypes
<1>6. ASSUME NEW x \in inflight, ApplyAnswer(x) PROVE Types'
  BY <1>6, ApplyAnswerTypes
<1>7. ASSUME PageUnchanged, NEW p \in Pairs, NEW x \in PairPrices[p], NEW t \in 1..MaxTime, Trade(p, x, t)
      PROVE  Types'
  <2>1. TeeTypes
    BY DEF Types
  <2>2. TeeTypes'
    BY <1>7, <2>1, TradeParts
  <2> QED
    BY <1>7, <2>2, MarketTypes
<1>8. ASSUME PageUnchanged, NEW p \in Pairs, BookMoves(p) PROVE Types'
  <2>1. TeeTypes
    BY DEF Types
  <2>2. TeeTypes'
    BY <1>8, <2>1, BookMovesParts
  <2> QED
    BY <1>8, <2>2, MarketTypes
<1>9. ASSUME PageUnchanged, ClockStepsBack \/ TeeRestarts PROVE Types'
  <2>1. TeeTypes
    BY DEF Types
  <2>2. TeeTypes'
    BY <1>9, <2>1, ClockStepsBackParts, TeeRestartsParts
  <2> QED
    BY <1>9, <2>2, MarketTypes
<1> QED
  BY <1>1, <1>2, <1>3, <1>4, <1>5, <1>6, <1>7, <1>8, <1>9, StepKinds

\* The types hold always.
LEMMA TypesAlways == Spec => []Types
<1>1. Init => Types
  BY TypesInit, MarketPageAssumption
<1>2. Types /\ [Next]_vars => Types'
  BY TypesStep, MarketPageAssumption, MarketDataAssumption
<1> QED
  BY <1>1, <1>2, PTL DEF Spec

\* Whatever is put into the order form, by a click or when the form is opened again,
\* is a price of the pair selected at that moment.
THEOREM PagePrefill == Spec => PrefillOfSelectedPair
<1> DEFINE Filled == form' # form /\ form' # NoPrefill => form' \in Clickable(page'.pair)
<1>1. Types /\ [Next]_vars => [Filled]_vars
  <2> SUFFICES ASSUME Types, [Next]_vars PROVE Filled
    OBVIOUS
  <2>1. CASE form' = form
    BY <2>1
  <2>2. CASE \E ch : UserStep(ch)
    BY <2>2, FormFilled
  <2>3. CASE Reload
    BY <2>3 DEF Reload
  <2>4. \/ form' = form \/ Reload \/ \E ch : UserStep(ch)
    <3>1. ASSUME NEW id \in Panels, ClosePanel(id) \/ RestorePanel(id)
          PROVE  \E ch : UserStep(ch)
      BY <3>1, ClosePanelStep, RestorePanelStep
    <3>2. \A key \in ActiveKeys : TakeAnswer(key) => form' = form
      BY DEF TakeAnswer
    <3>3. \A x \in inflight : ApplyAnswer(x) => form' = form
      BY DEF ApplyAnswer
    <3>4. PageUnchanged => form' = form
      BY DEF PageUnchanged
    <3> QED
      BY <3>1, <3>2, <3>3, <3>4, StepKinds, MarketPageAssumption, MarketDataAssumption
  <2> QED
    BY <2>1, <2>2, <2>3, <2>4
<1> QED
  BY <1>1, TypesAlways, PTL DEF Spec, PrefillOfSelectedPair

\* What is shown is of the selected pair: an answer goes to its own place, and
\* the place of the selected pair is the one looked at.
THEOREM PageShown == Spec => []ShownIsSelected
<1>1. Types => ShownIsSelected
  <2> SUFFICES ASSUME Types PROVE ShownIsSelected
    OBVIOUS
  <2>1. PICK p, bids, asks, ts :
          /\ p = page.pair /\ bids = ShownBook(books, p).bids /\ asks = ShownBook(books, p).asks
          /\ ts = ShownTrades(books, p)
    OBVIOUS
  <2>2. p \in Pairs
    BY <2>1 DEF Types, PageTypes, PageType
  <2>3. CacheTypes
    BY DEF Types
  <2>4. /\ Quotes(bids) /\ Quotes(asks)
        /\ Prices(bids) \cup Prices(asks) \subseteq Clickable(p)
        /\ ts \in Seq(PairPrices[p])
    BY <2>1, <2>2, <2>3, ShownOfPair, MarketPageAssumption DEF Clickable
  <2>5. Ladder = BookView(bids, asks) /\ Tape = TapeView(ts) /\ Stats = StatsView(bids, asks, ts)
    BY <2>1 DEF Ladder, Tape, Stats
  <2>6. /\ \A i \in DOMAIN Ladder.bids : Ladder.bids[i].price \in Prices(bids)
        /\ \A i \in DOMAIN Ladder.asks : Ladder.asks[i].price \in Prices(asks)
    BY <2>4, <2>5, LadderParts, MarketDataAssumption
  <2>7. {Ladder.bids[i].price : i \in DOMAIN Ladder.bids} \cup {Ladder.asks[i].price : i \in DOMAIN Ladder.asks}
          \subseteq Clickable(p)
    BY <2>4, <2>6
  <2>8. PairPrices[p] \subseteq Nat
    BY <2>2, MarketPageAssumption DEF MarketPageAssumption
  <2>9. /\ \A i \in DOMAIN Tape : Tape[i].price \in PairPrices[p]
        /\ Stats.high \in PairPrices[p] \cup {0}
    BY <2>4, <2>5, <2>8, TapeParts, MarketDataAssumption
  <2>10. {Tape[i].price : i \in DOMAIN Tape} \subseteq PairPrices[p]
    BY <2>9
  <2> QED
    BY <2>1, <2>7, <2>9, <2>10 DEF ShownIsSelected, Clickable
<1> QED
  BY <1>1, TypesAlways, PTL

-----------------------------------------------------------------------------
(* Ring, answers and cache tell one story.                                 *)

\* A trade keeps the ring a chain, ...
LEMMA ChainRolls ==
  ASSUME NEW tf \in Nat \ {0}, NEW ring, Chain(ring, tf), NEW r \in Seq(ServerCandle),
         NEW t \in Nat, t % tf = 0, NEW price \in Nat \ {0}, Rolled(r, ring, t, price)
  PROVE  Chain(r, tf)
<1>1. PICK n, m : n = Len(ring) /\ m = Len(r)
  OBVIOUS
<1>2. /\ ring \in Seq(ServerCandle) /\ n \in Nat /\ m \in Nat /\ (ring = <<>> <=> n = 0)
      /\ \A i \in 1..n : /\ ring[i].openTime % tf = 0
                         /\ ring[i].low <= ring[i].close /\ ring[i].close <= ring[i].high
                         /\ ring[i].high \in Nat /\ ring[i].low \in Nat
      /\ \A i \in 1..(n - 1) : ring[i + 1].openTime # ring[i].openTime /\ ring[i + 1].open = ring[i].close
  BY <1>1, ChainParts
<1>3. CASE /\ ring = <<>> \/ ring[n].openTime # t
           /\ \E c, d : NewCandle(c, ring, t, price) /\ Opened(r, ring, c, d)
  <2>1. PICK c, d : NewCandle(c, ring, t, price) /\ Opened(r, ring, c, d)
    BY <1>3
  <2>2. /\ c.openTime = t /\ c.close = price /\ c.low <= price /\ price <= c.high
        /\ ring # <<>> => c.open = ring[n].close
    BY <1>1, <2>1 DEF NewCandle
  <2>3. d \in {0, 1} /\ m = n + 1 - d /\ \A i \in 1..m : r[i] = IF i = m THEN c ELSE ring[i + d]
    BY <1>1, <2>1 DEF Opened
  <2>4. ASSUME NEW i \in 1..m
        PROVE  r[i].openTime % tf = 0 /\ r[i].low <= r[i].close /\ r[i].close <= r[i].high
    <3>1. CASE i = m
      BY <2>2, <2>3, <3>1
    <3>2. CASE i # m
      <4>1. PICK j : j = i + d
        OBVIOUS
      <4>2. j \in 1..n /\ r[i] = ring[j]
        BY <1>2, <2>3, <3>2, <4>1
      <4> QED
        BY <1>2, <4>2
    <3> QED
      BY <3>1, <3>2
  <2>5. ASSUME NEW i \in 1..(m - 1)
        PROVE  r[i + 1].openTime # r[i].openTime /\ r[i + 1].open = r[i].close
    <3>1. PICK j : j = i + d
      OBVIOUS
    <3>2. j \in 1..n /\ r[i] = ring[j] /\ i + 1 \in 1..m
      BY <1>2, <2>3, <3>1
    <3>3. CASE i + 1 = m
      <4>1. j = n /\ r[i + 1] = c
        BY <1>2, <2>3, <3>1, <3>2, <3>3
      <4>2. ring # <<>>
        BY <1>2, <3>2
      <4> QED
        BY <1>3, <2>2, <3>2, <4>1, <4>2
    <3>4. CASE i + 1 # m
      <4>1. j \in 1..(n - 1) /\ (i + 1) + d = j + 1
        BY <1>2, <2>3, <3>1, <3>2, <3>4
      <4>2. r[i + 1] = ring[(i + 1) + d]
        BY <2>3, <3>2, <3>4
      <4>3. r[i + 1] = ring[j + 1]
        BY <4>1, <4>2
      <4> QED
        BY <1>2, <3>2, <4>1, <4>3
    <3> QED
      BY <3>3, <3>4
  <2> QED
    BY <1>1, <2>4, <2>5 DEF Chain
<1>4. CASE /\ ring # <<>> /\ ring[n].openTime = t
           /\ \E c : Traded(c, ring[n], price) /\ Extended(r, ring, c)
  <2>1. PICK c : Traded(c, ring[n], price) /\ Extended(r, ring, c)
    BY <1>4
  <2>2. /\ c.openTime = t /\ c.close = price /\ c.low <= price /\ price <= c.high
        /\ c.open = ring[n].open
    BY <1>4, <2>1 DEF Traded
  <2>3. m = n /\ n > 0 /\ \A i \in 1..m : r[i] = IF i = m THEN c ELSE ring[i]
    BY <1>1, <2>1 DEF Extended
  <2>4. ASSUME NEW i \in 1..m
        PROVE  r[i].openTime % tf = 0 /\ r[i].low <= r[i].close /\ r[i].close <= r[i].high
    BY <1>2, <2>2, <2>3
  <2>5. ASSUME NEW i \in 1..(m - 1)
        PROVE  r[i + 1].openTime # r[i].openTime /\ r[i + 1].open = r[i].close
    <3>1. i \in 1..m /\ i + 1 \in 1..m /\ i # m /\ i \in 1..(n - 1)
      BY <1>2, <2>3
    <3>2. r[i] = ring[i]
      BY <2>3, <3>1
    <3>3. ring[i + 1].openTime # ring[i].openTime /\ ring[i + 1].open = ring[i].close
      BY <1>2, <3>1
    <3>4. r[i + 1].openTime = ring[i + 1].openTime /\ r[i + 1].open = ring[i + 1].open
      BY <1>4, <2>2, <2>3, <3>1
    <3> QED
      BY <3>2, <3>3, <3>4
  <2> QED
    BY <1>1, <2>4, <2>5 DEF Chain
<1> QED
  BY <1>1, <1>3, <1>4 DEF Rolled

\* ... whose last candle is of the trade's bucket, ...
LEMMA RolledLast ==
  ASSUME NEW ring \in Seq(ServerCandle), NEW r \in Seq(ServerCandle),
         NEW t, NEW price, Rolled(r, ring, t, price), MarketDataAssumption
  PROVE  /\ r # <<>> /\ Len(r) > 0 /\ r[Len(r)].openTime = t /\ r[Len(r)].close = price
         /\ Len(r) = 1 /\ ring # <<>> => Len(ring) = 1 /\ ring[1].openTime = t
<1> PICK n, m : n = Len(ring) /\ m = Len(r)
  OBVIOUS
<1>1. n = Len(ring) /\ m = Len(r) /\ n \in Nat /\ m \in Nat
  OBVIOUS
<1>2. RingSize \in Nat /\ RingSize > 1
  BY DEF MarketDataAssumption
<1>3. ring # <<>> => n > 0
  BY <1>1
<1>4. CASE \E c, d : NewCandle(c, ring, t, price) /\ Opened(r, ring, c, d)
  <2>1. PICK c, d : NewCandle(c, ring, t, price) /\ Opened(r, ring, c, d)
    BY <1>4
  <2>2. c.openTime = t /\ c.close = price
    BY <2>1 DEF NewCandle
  <2>3. d \in {0, 1} /\ (d = 1 <=> n + 1 > RingSize) /\ m = n + 1 - d
        /\ \A i \in 1..m : r[i] = IF i = m THEN c ELSE ring[i + d]
    BY <1>1, <2>1 DEF Opened
  <2>4. m > 0 /\ ~(m = 1 /\ n > 0)
    BY <1>1, <1>2, <2>3
  <2>5. r[m] = c
    BY <1>1, <2>3, <2>4
  <2>6. r # <<>>
    BY <1>1, <2>4
  <2> QED
    BY <1>1, <1>3, <2>2, <2>4, <2>5, <2>6
<1>5. CASE /\ ring # <<>> /\ ring[n].openTime = t
           /\ \E c : Traded(c, ring[n], price) /\ Extended(r, ring, c)
  <2>1. PICK c : Traded(c, ring[n], price) /\ Extended(r, ring, c)
    BY <1>5
  <2>2. c.openTime = t /\ c.close = price
    BY <1>5, <2>1 DEF Traded
  <2>3. m = n /\ n > 0 /\ \A i \in 1..m : r[i] = IF i = m THEN c ELSE ring[i]
    BY <1>1, <2>1 DEF Extended
  <2>4. m \in 1..m /\ m > 0
    BY <1>1, <2>3
  <2>5. r[m] = c
    BY <2>3, <2>4
  <2>6. r # <<>>
    BY <1>1, <2>4
  <2>7. n = 1 => ring[1].openTime = t
    BY <1>5
  <2> QED
    BY <1>1, <1>5, <2>2, <2>3, <2>4, <2>5, <2>6, <2>7
<1> QED
  BY <1>1, <1>4, <1>5 DEF Rolled

\* ... and ascending, if the clock never stepped back.
LEMMA AscendingRolls ==
  ASSUME NEW tf \in Nat \ {0}, NEW ring, Chain(ring, tf), NEW r \in Seq(ServerCandle),
         NEW now \in Nat, Ascending(ring, now), NEW time \in Nat, now <= time,
         NEW price \in Nat \ {0}, Rolled(r, ring, Bucket(time, tf), price)
  PROVE  Ascending(r, time)
<1>1. PICK n, m, t : n = Len(ring) /\ m = Len(r) /\ t = Bucket(time, tf)
  OBVIOUS
<1>2. /\ ring \in Seq(ServerCandle) /\ n \in Nat /\ m \in Nat /\ (ring = <<>> <=> n = 0)
      /\ \A i \in 1..n : ring[i].openTime \in Nat
  BY <1>1, ChainParts
<1>3. t \in Nat /\ t <= time
  BY <1>1, BucketParts
<1>4. \A i \in 1..n : ring[i].openTime <= t
  BY <1>1, AscendingBefore
<1>5. \A i, j \in 1..n : i < j => ring[i].openTime < ring[j].openTime
  BY <1>1 DEF Ascending
<1>6. CASE /\ ring = <<>> \/ ring[n].openTime # t
           /\ \E c, d : NewCandle(c, ring, t, price) /\ Opened(r, ring, c, d)
  <2>1. PICK c, d : NewCandle(c, ring, t, price) /\ Opened(r, ring, c, d)
    BY <1>6
  <2>2. c.openTime = t
    BY <2>1 DEF NewCandle
  <2>3. d \in {0, 1} /\ m = n + 1 - d /\ \A i \in 1..m : r[i] = IF i = m THEN c ELSE ring[i + d]
    BY <1>1, <2>1 DEF Opened
  <2>4. \A i \in 1..n : ring[i].openTime < t
    <3> SUFFICES ASSUME NEW i \in 1..n PROVE ring[i].openTime < t
      OBVIOUS
    <3>1. n \in 1..n /\ ring[n].openTime \in Nat /\ ring[n].openTime <= t /\ ring[n].openTime # t
      BY <1>2, <1>4, <1>6
    <3>2. i = n \/ ring[i].openTime < ring[n].openTime
      <4>1. i < n \/ i = n
        BY <1>2
      <4> QED
        BY <1>5, <3>1, <4>1
    <3>3. PICK x, y : x = ring[i].openTime /\ y = ring[n].openTime
      OBVIOUS
    <3>4. x \in Nat /\ y \in Nat /\ y <= t /\ y # t /\ (i = n \/ x < y) /\ (i = n => x = y)
      BY <1>2, <3>1, <3>2, <3>3
    <3>5. x < t
      BY <1>3, <3>4
    <3> QED
      BY <3>3, <3>5
  <2>5. \A i \in 1..m : i # m => i + d \in 1..n /\ r[i] = ring[i + d]
    BY <1>2, <2>3
  <2>6. ASSUME NEW i \in 1..m, NEW j \in 1..m, i < j PROVE r[i].openTime < r[j].openTime
    <3>1. i # m /\ i + d \in 1..n /\ r[i] = ring[i + d]
      BY <1>2, <2>5, <2>6
    <3>2. CASE j = m
      BY <2>2, <2>3, <2>4, <3>1, <3>2
    <3>3. CASE j # m
      <4>1. j + d \in 1..n /\ r[j] = ring[j + d]
        BY <2>5, <3>3
      <4>2. i + d < j + d
        BY <2>3, <2>6
      <4>3. ring[i + d].openTime < ring[j + d].openTime
        BY <1>5, <3>1, <4>1, <4>2
      <4> QED
        BY <3>1, <4>1, <4>3
    <3> QED
      BY <3>2, <3>3
  <2>7. ASSUME NEW i \in 1..m PROVE r[i].openTime <= time
    <3>1. CASE i = m
      BY <1>3, <2>2, <2>3, <3>1
    <3>2. CASE i # m
      <4>1. PICK k \in 1..n : r[i] = ring[k]
        BY <2>5, <3>2
      <4> QED
        BY <1>2, <1>3, <1>4, <4>1
    <3> QED
      BY <3>1, <3>2
  <2> QED
    BY <1>1, <2>6, <2>7 DEF Ascending
<1>7. CASE /\ ring # <<>> /\ ring[n].openTime = t
           /\ \E c : Traded(c, ring[n], price) /\ Extended(r, ring, c)
  <2>1. PICK c : Traded(c, ring[n], price) /\ Extended(r, ring, c)
    BY <1>7
  <2>2. m = n /\ n > 0 /\ \A i \in 1..m : r[i] = IF i = m THEN c ELSE ring[i]
    BY <1>1, <2>1 DEF Extended
  <2>3. \A i \in 1..n : r[i].openTime = ring[i].openTime
    BY <1>2, <1>7, <2>1, <2>2 DEF Traded
  <2>4. \A i \in 1..n : r[i].openTime <= time
    BY <1>2, <1>3, <1>4, <2>3
  <2>5. \A i, j \in 1..n : i < j => r[i].openTime < r[j].openTime
    BY <1>5, <2>3
  <2> QED
    BY <1>1, <2>2, <2>4, <2>5 DEF Ascending
<1> QED
  BY <1>1, <1>6, <1>7 DEF Rolled

\* Candles have times, and a sequence that is not empty has a last one.
LEMMA CandleTimes ==
  ASSUME NEW s \in Seq(ServerCandle)
  PROVE  /\ Len(s) \in Nat /\ (s = <<>> <=> Len(s) = 0)
         /\ s # <<>> => Len(s) \in 1..Len(s)
         /\ \A i \in 1..Len(s) : s[i] \in ServerCandle /\ s[i].openTime \in Nat
<1>1. Len(s) \in Nat /\ \A i \in 1..Len(s) : s[i] \in ServerCandle
  OBVIOUS
<1>2. s = <<>> <=> Len(s) = 0
  OBVIOUS
<1>3. \A i \in 1..Len(s) : s[i].openTime \in Nat
  BY <1>1 DEF ServerCandle
<1> QED
  BY <1>1, <1>2, <1>3

\* The newest entries end where the sequence ends.
LEMMA NewestLast ==
  ASSUME NEW s \in Seq(ServerCandle), NEW n \in Nat \ {0, 1}
  PROVE  /\ s = <<>> <=> Newest(s, n) = <<>>
         /\ s # <<>> => Newest(s, n)[Len(Newest(s, n))] = s[Len(s)]
         /\ Len(Newest(s, n)) = 1 <=> Len(s) = 1
         /\ Len(s) = 1 => Newest(s, n)[1] = s[1]
<1>1. PICK r, k, m : r = Newest(s, n) /\ k = Len(s) /\ m = Len(r)
  OBVIOUS
<1>2. n \in Nat \ {0} /\ n > 1 /\ k \in Nat
  BY <1>1
<1>3. r \in Seq(ServerCandle) /\ EndsWith(s, r) /\ m = IF k > n THEN n ELSE k
  BY <1>1, <1>2, NewestParts
<1>4. m \in Nat /\ m <= k /\ \A i \in 1..m : r[i] = s[k - m + i]
  BY <1>1, <1>2, <1>3 DEF EndsWith
<1>5. (s = <<>> <=> k = 0) /\ (r = <<>> <=> m = 0)
  BY <1>1, <1>3, CandleTimes
<1>6. (k = 0 <=> m = 0) /\ (m = 1 <=> k = 1)
  BY <1>2, <1>3
<1>7. k # 0 => m \in 1..m /\ k - m + m = k
  BY <1>2, <1>4, <1>6
<1>8. k # 0 => r[m] = s[k]
  BY <1>4, <1>7
<1>9. k = 1 => r[1] = s[1]
  BY <1>6, <1>8
<1> QED
  BY <1>1, <1>5, <1>6, <1>8, <1>9

\* Nothing is yet to come after nothing.
LEMMA EmptyFits ==
  ASSUME NEW tf
  PROVE  /\ Fits(<<>>, tf) /\ Fits(<<>>, tf)'
         /\ \A newer : Follows(<<>>, newer) /\ Follows(<<>>, newer)'
<1>1. Chain(<<>>, tf) /\ \A now : Ascending(<<>>, now)
  BY DEF Chain, Ascending
<1>2. \A newer : Grows(<<>>, newer) /\ Later(<<>>, newer)
  BY DEF Grows, Later
<1> QED
  BY <1>1, <1>2 DEF Fits, Follows

\* Time goes on, or it is remembered that it did not.
TimeGoesOn ==
  /\ tee.clock \in Nat /\ tee'.clock \in Nat
  /\ \/ tee'.back = tee.back /\ tee.clock <= tee'.clock
     \/ tee'.back = TRUE
  /\ tee'.restarts = tee.restarts \/ tee'.restarts = TRUE

\* Candles that fit keep fitting as time goes on.
LEMMA FitsKept ==
  ASSUME NEW cs, NEW tf, Fits(cs, tf), TimeGoesOn
  PROVE  Fits(cs, tf)'
<1>1. Chain(cs, tf)
  BY DEF Fits
<1>2. CASE tee'.back = tee.back /\ tee.clock <= tee'.clock /\ ~tee.back
  <2>1. Ascending(cs, tee.clock)
    BY <1>2 DEF Fits
  <2>2. cs \in Seq(ServerCandle)
    BY <1>1 DEF Chain
  <2>3. \A i \in 1..Len(cs) : cs[i].openTime \in Nat
    BY <2>2, CandleTimes
  <2>4. PICK a, b : a = tee.clock /\ b = tee'.clock
    OBVIOUS
  <2>5. a \in Nat /\ b \in Nat /\ a <= b
    BY <1>2, <2>4 DEF TimeGoesOn
  <2>6. Ascending(cs, b)
    BY <2>1, <2>3, <2>4, <2>5 DEF Ascending
  <2> QED
    BY <1>1, <2>4, <2>6 DEF Fits
<1>3. CASE tee'.back
  BY <1>1, <1>3 DEF Fits
<1> QED
  BY <1>2, <1>3 DEF TimeGoesOn

\* Of two answers, the newer one keeps following the older one.
LEMMA FollowsKept ==
  ASSUME NEW older, NEW newer, Follows(older, newer), TimeGoesOn
  PROVE  Follows(older, newer)'
BY DEF TimeGoesOn, Follows

\* What the newest candles of a ring have to do with it, and with an older answer.
LEMMA FreshFollows ==
  ASSUME MarketDataAssumption, NEW tf \in Nat \ {0}, NEW ring, Fits(ring, tf)
  PROVE  /\ Fits(Newest(ring, CandleLimit), tf)
         /\ Follows(Newest(ring, CandleLimit), ring)
         /\ \A older : Follows(older, ring) => Follows(older, Newest(ring, CandleLimit))
<1>1. PICK r : r = Newest(ring, CandleLimit)
  OBVIOUS
<1>2. Chain(ring, tf) /\ (~tee.back => Ascending(ring, tee.clock))
  BY DEF Fits
<1>3. ring \in Seq(ServerCandle) /\ CandleLimit \in Nat \ {0, 1} /\ CandleLimit \in Nat \ {0}
  BY <1>2 DEF Chain, MarketDataAssumption
<1>4. r \in Seq(ServerCandle) /\ EndsWith(ring, r)
  BY <1>1, <1>3, NewestParts
<1>5. Chain(r, tf) /\ \A now : Ascending(ring, now) => Ascending(r, now)
  BY <1>2, <1>4, ChainEnd
<1>6. /\ ring = <<>> <=> r = <<>>
      /\ ring # <<>> => r[Len(r)] = ring[Len(ring)]
      /\ Len(r) = 1 <=> Len(ring) = 1
      /\ Len(ring) = 1 => r[1] = ring[1]
  BY <1>1, <1>3, NewestLast
<1>7. ring # <<>> => ring[Len(ring)].openTime \in Nat
  BY <1>3, CandleTimes
<1>8. Grows(r, ring) /\ Later(r, ring)
  <2>1. Grows(r, ring)
    BY <1>6 DEF Grows
  <2>2. PICK a, b : a = r[Len(r)] /\ b = ring[Len(ring)]
    OBVIOUS
  <2>3. r # <<>> /\ ring # <<>> => a.openTime <= b.openTime
    BY <1>6, <1>7, <2>2
  <2> QED
    BY <2>1, <2>2, <2>3, Zenon DEF Later
<1>9. ASSUME NEW older PROVE /\ Grows(older, ring) => Grows(older, r)
                             /\ Later(older, ring) => Later(older, r)
  BY <1>6 DEF Grows, Later
<1>10. Fits(r, tf)
  BY <1>2, <1>5 DEF Fits
<1> QED
  BY <1>1, <1>8, <1>9, <1>10 DEF Follows

\* What a trade does to the ring of one timeframe, and to what an answer of it is.
LEMMA RingRolls ==
  ASSUME MarketDataAssumption, NEW tf \in Nat \ {0}, NEW ring, Fits(ring, tf),
         NEW time \in Nat, NEW price \in Nat \ {0},
         tee.clock \in Nat, tee.clock <= time,
         tee'.clock = time, tee'.back = tee.back, tee'.restarts = tee.restarts
  PROVE  /\ Fits(RollCandles(ring, tf, time, price), tf)'
         /\ \A older : Follows(older, ring) /\ Fits(older, tf)
                         => Follows(older, RollCandles(ring, tf, time, price))'
<1>1. PICK r, t : r = RollCandles(ring, tf, time, price) /\ t = Bucket(time, tf)
  OBVIOUS
<1>2. Chain(ring, tf) /\ (~tee.back => Ascending(ring, tee.clock))
  BY DEF Fits
<1>3. ring \in Seq(ServerCandle) /\ t \in Nat /\ t % tf = 0
  BY <1>1, <1>2, BucketParts DEF Chain
<1>4. r \in Seq(ServerCandle) /\ Rolled(r, ring, t, price)
  BY <1>1, <1>3, RollParts
<1>5. Chain(r, tf)
  BY <1>2, <1>3, <1>4, ChainRolls
<1>6. PICK now : now = tee.clock
  OBVIOUS
<1>7. ~tee.back => Ascending(r, time)
  BY <1>1, <1>2, <1>4, <1>6, AscendingRolls
<1>8. Fits(r, tf)'
  BY <1>5, <1>7 DEF Fits
<1>9. /\ r # <<>> /\ Len(r) > 0 /\ r[Len(r)].openTime = t
      /\ Len(r) = 1 /\ ring # <<>> => Len(ring) = 1 /\ ring[1].openTime = t
  BY <1>3, <1>4, RolledLast
<1>10. ASSUME NEW older, Follows(older, ring), Fits(older, tf)
       PROVE  Follows(older, r)'
  <2>1. Chain(older, tf) /\ (~tee.back => Ascending(older, tee.clock))
    BY <1>10 DEF Fits
  <2>2. ASSUME Grows(older, ring) PROVE Grows(older, r)
    BY <1>9, <2>2 DEF Grows
  <2>3. ASSUME ~tee.back PROVE Later(older, r)
    <3>1. Ascending(older, now) /\ now \in Nat /\ now <= time
      BY <1>6, <2>1, <2>3
    <3>2. \A i \in 1..Len(older) : older[i].openTime <= Bucket(time, tf)
      BY <2>1, <3>1, AscendingBefore
    <3>3. older \in Seq(ServerCandle)
      BY <2>1 DEF Chain
    <3>4. older # <<>> => Len(older) \in 1..Len(older)
      BY <3>3
    <3> QED
      BY <1>1, <1>9, <3>2, <3>4 DEF Later
  <2> QED
    BY <1>10, <2>2, <2>3 DEF Follows
<1> QED
  BY <1>1, <1>8, <1>10

\* Where the ring and what is cached stay, and time goes on, the story goes on.
LEMMA StoryStays ==
  ASSUME NEW p, NEW tf, TimeGoesOn,
         Cached(candles, p, tf)' = Cached(candles, p, tf), (tee.rings[p][tf])' = tee.rings[p][tf],
         \A x \in inflight' : x.key = CandlesKey(p, tf) => x \in inflight,
         /\ Fits(tee.rings[p][tf], tf) /\ Fits(Cached(candles, p, tf), tf)
         /\ Follows(Cached(candles, p, tf), tee.rings[p][tf])
         /\ \A x \in inflight : x.key = CandlesKey(p, tf) => AnswerFits(p, tf, x.data.candles)
  PROVE  /\ Fits(tee.rings[p][tf], tf)' /\ Fits(Cached(candles, p, tf), tf)'
         /\ Follows(Cached(candles, p, tf), tee.rings[p][tf])'
         /\ \A x \in inflight' : x.key = CandlesKey(p, tf) => AnswerFits(p, tf, x.data.candles)'
<1>1. PICK ring, old : ring = tee.rings[p][tf] /\ old = Cached(candles, p, tf)
  OBVIOUS
<1>2. ring = (tee.rings[p][tf])' /\ old = Cached(candles, p, tf)'
  BY <1>1
<1>3. Fits(ring, tf) /\ Fits(old, tf) /\ Follows(old, ring)
  BY <1>1, Zenon
<1>4. Fits(ring, tf)' /\ Fits(old, tf)' /\ Follows(old, ring)'
  BY <1>3, FitsKept, FollowsKept
<1>5. ASSUME NEW x \in inflight', x.key = CandlesKey(p, tf)
      PROVE  AnswerFits(p, tf, x.data.candles)'
  <2>1. PICK cs : cs = x.data.candles
    OBVIOUS
  <2>2. Fits(cs, tf) /\ Follows(old, cs) /\ Follows(cs, ring)
    BY <1>1, <1>5, <2>1 DEF AnswerFits
  <2>3. Fits(cs, tf)' /\ Follows(old, cs)' /\ Follows(cs, ring)'
    BY <2>2, FitsKept, FollowsKept
  <2> QED
    BY <1>2, <2>1, <2>3 DEF AnswerFits
<1> QED
  BY <1>2, <1>4, <1>5

\* A step after which time goes on, the rings and the cache are as before and no
\* other query of candles is under way.
LEMMA CandlesFitStays ==
  ASSUME CandlesFit, TimeGoesOn, tee'.rings = tee.rings, candles' = candles,
         \A x \in inflight' : \A p, tf : x.key = CandlesKey(p, tf) => x \in inflight
  PROVE  CandlesFit'
<1> SUFFICES ASSUME NEW p \in Pairs, NEW tf \in Timeframes
             PROVE  /\ Fits(tee.rings[p][tf], tf)' /\ Fits(Cached(candles, p, tf), tf)'
                    /\ Follows(Cached(candles, p, tf), tee.rings[p][tf])'
                    /\ \A x \in inflight' : x.key = CandlesKey(p, tf)
                                              => AnswerFits(p, tf, x.data.candles)'
  BY DEF CandlesFit
<1>1. Cached(candles, p, tf)' = Cached(candles, p, tf) /\ (tee.rings[p][tf])' = tee.rings[p][tf]
  BY DEF Cached
<1>2. \A x \in inflight' : x.key = CandlesKey(p, tf) => x \in inflight
  OBVIOUS
<1>3. /\ Fits(tee.rings[p][tf], tf) /\ Fits(Cached(candles, p, tf), tf)
      /\ Follows(Cached(candles, p, tf), tee.rings[p][tf])
      /\ \A x \in inflight : x.key = CandlesKey(p, tf) => AnswerFits(p, tf, x.data.candles)
  BY DEF CandlesFit
<1> QED
  BY <1>1, <1>2, <1>3, StoryStays

\* A page just loaded has no answers.
LEMMA CandlesFitReload ==
  ASSUME Types, CandlesFit, Reload
  PROVE  CandlesFit'
<1>1. TimeGoesOn
  BY DEF Types, TeeTypes, TimeGoesOn, Reload
<1> SUFFICES ASSUME NEW p \in Pairs, NEW tf \in Timeframes
             PROVE  /\ Fits(tee.rings[p][tf], tf)' /\ Fits(Cached(candles, p, tf), tf)'
                    /\ Follows(Cached(candles, p, tf), tee.rings[p][tf])'
                    /\ \A x \in inflight' : x.key = CandlesKey(p, tf)
                                              => AnswerFits(p, tf, x.data.candles)'
  BY DEF CandlesFit
<1>2. PICK ring : ring = tee.rings[p][tf]
  OBVIOUS
<1>3. ring = (tee.rings[p][tf])'
  BY <1>2 DEF Reload
<1>4. Fits(ring, tf)
  BY <1>2 DEF CandlesFit
<1>5. Fits(ring, tf)'
  BY <1>1, <1>4, FitsKept
<1>6. Cached(candles, p, tf)' = <<>>
  BY DEF Reload, NoCandles, Cached
<1>7. Fits(<<>>, tf)' /\ Follows(<<>>, ring)'
  BY EmptyFits
<1>8. inflight' = {}
  BY DEF Reload
<1> QED
  BY <1>3, <1>5, <1>6, <1>7, <1>8

\* An answer just taken is the newest candles of the ring.
LEMMA CandlesFitTake ==
  ASSUME MarketDataAssumption, MarketPageAssumption, Types, CandlesFit,
         NEW key \in ActiveKeys, TakeAnswer(key)
  PROVE  CandlesFit'
<1>1. PICK x : /\ Unchanged /\ Fresh(x) /\ inflight' = {y \in inflight : y.key # x.key} \cup {x}
  BY TakeAnswerParts
<1>2. TimeGoesOn
  BY <1>1 DEF Types, TeeTypes, TimeGoesOn, Unchanged
<1> SUFFICES ASSUME NEW p \in Pairs, NEW tf \in Timeframes
             PROVE  /\ Fits(tee.rings[p][tf], tf)' /\ Fits(Cached(candles, p, tf), tf)'
                    /\ Follows(Cached(candles, p, tf), tee.rings[p][tf])'
                    /\ \A y \in inflight' : y.key = CandlesKey(p, tf)
                                              => AnswerFits(p, tf, y.data.candles)'
  BY DEF CandlesFit
<1>3. Cached(candles, p, tf)' = Cached(candles, p, tf) /\ (tee.rings[p][tf])' = tee.rings[p][tf]
  BY <1>1 DEF Cached, Unchanged
<1>4. /\ Fits(tee.rings[p][tf], tf) /\ Fits(Cached(candles, p, tf), tf)
      /\ Follows(Cached(candles, p, tf), tee.rings[p][tf])
      /\ \A y \in inflight : y.key = CandlesKey(p, tf) => AnswerFits(p, tf, y.data.candles)
  BY DEF CandlesFit
<1>5. CASE x.key # CandlesKey(p, tf)
  <2>1. \A y \in inflight' : y.key = CandlesKey(p, tf) => y \in inflight
    BY <1>1, <1>5
  <2> QED
    BY <1>2, <1>3, <1>4, <2>1, StoryStays
<1>6. CASE x.key = CandlesKey(p, tf)
  <2>1. PICK ring, old, cs :
          /\ ring = tee.rings[p][tf] /\ old = Cached(candles, p, tf) /\ cs = Newest(ring, CandleLimit)
    OBVIOUS
  <2>2. x.data.candles = cs
    <3>1. p = page.pair /\ tf = page.tf
      BY <1>1, <1>6, KeysDiffer DEF Fresh
    <3>2. x.data = [pair |-> p, tf |-> tf, candles |-> cs]
      BY <1>1, <1>6, <2>1, <3>1, KeysDiffer DEF Fresh
    <3> QED
      BY <3>2
  <2>3. tf \in Nat \ {0} /\ Fits(ring, tf) /\ Follows(old, ring) /\ Fits(old, tf)
    BY <1>4, <2>1, TimeframeType
  <2>4. Fits(cs, tf) /\ Follows(cs, ring) /\ Follows(old, cs)
    BY <2>1, <2>3, FreshFollows
  <2>5. /\ Fits(cs, tf)' /\ Follows(cs, ring)' /\ Follows(old, cs)'
        /\ Fits(ring, tf)' /\ Fits(old, tf)' /\ Follows(old, ring)'
    BY <1>2, <2>3, <2>4, FitsKept, FollowsKept
  <2>6. \A y \in inflight' : y.key = CandlesKey(p, tf) => y = x
    BY <1>1, <1>6
  <2>7. ring = (tee.rings[p][tf])' /\ old = Cached(candles, p, tf)'
    BY <1>3, <2>1
  <2>8. AnswerFits(p, tf, cs)'
    BY <2>5, <2>7 DEF AnswerFits
  <2> QED
    BY <2>2, <2>5, <2>6, <2>7, <2>8
<1> QED
  BY <1>5, <1>6

\* An answer that arrives was part of the story.
LEMMA CandlesFitApply ==
  ASSUME Types, CandlesFit, NEW x \in inflight, ApplyAnswer(x)
  PROVE  CandlesFit'
<1>1. /\ tee' = tee /\ page' = page /\ inflight' = inflight \ {x}
      /\ \/ \E p \in Pairs : /\ x.key = BookKey(p) /\ x.data \in BookAnswer(p)
                             /\ BooksTake(p, x.data)
         \/ \E p \in Pairs, tf \in Timeframes :
              /\ x.key = CandlesKey(p, tf) /\ x.data \in CandlesOf(p, tf)
              /\ CandlesTake(p, tf, x.data)
  BY ApplyAnswerParts
<1>2. TimeGoesOn
  BY <1>1 DEF Types, TeeTypes, TimeGoesOn
<1>3. CASE \E p \in Pairs : BooksTake(p, x.data)
  <2>1. candles' = candles
    BY <1>3 DEF BooksTake
  <2>2. tee'.rings = tee.rings /\ \A y \in inflight' : \A p, tf : y.key = CandlesKey(p, tf) => y \in inflight
    BY <1>1
  <2> QED
    BY <1>2, <2>1, <2>2, CandlesFitStays
<1>4. ASSUME NEW p \in Pairs, NEW tf \in Timeframes,
             x.key = CandlesKey(p, tf), x.data \in CandlesOf(p, tf), CandlesTake(p, tf, x.data)
      PROVE  CandlesFit'
  <2> SUFFICES ASSUME NEW q \in Pairs, NEW t \in Timeframes
               PROVE  /\ Fits(tee.rings[q][t], t)' /\ Fits(Cached(candles, q, t), t)'
                      /\ Follows(Cached(candles, q, t), tee.rings[q][t])'
                      /\ \A y \in inflight' : y.key = CandlesKey(q, t)
                                                => AnswerFits(q, t, y.data.candles)'
    BY DEF CandlesFit
  <2>1. /\ Fits(tee.rings[q][t], t) /\ Fits(Cached(candles, q, t), t)
        /\ Follows(Cached(candles, q, t), tee.rings[q][t])
        /\ \A y \in inflight : y.key = CandlesKey(q, t) => AnswerFits(q, t, y.data.candles)
    BY DEF CandlesFit
  <2>2. CASE q # p \/ t # tf
    <3>1. candles'[q][t] = candles[q][t]
      BY <1>4, <2>2 DEF CandlesTake
    <3>2. Cached(candles, q, t)' = Cached(candles, q, t) /\ (tee.rings[q][t])' = tee.rings[q][t]
      BY <1>1, <3>1 DEF Cached
    <3>3. \A y \in inflight' : y.key = CandlesKey(q, t) => y \in inflight
      BY <1>1
    <3> QED
      BY <1>2, <2>1, <3>2, <3>3, StoryStays
  <2>3. CASE q = p /\ t = tf
    <3>1. PICK ring, cs : ring = tee.rings[p][tf] /\ cs = x.data.candles
      OBVIOUS
    <3>2. Fits(cs, tf) /\ Follows(cs, ring) /\ Fits(ring, tf)
      BY <1>4, <2>1, <2>3, <3>1 DEF AnswerFits
    <3>3. Fits(cs, tf)' /\ Follows(cs, ring)' /\ Fits(ring, tf)'
      BY <1>2, <3>2, FitsKept, FollowsKept
    <3>4. candles'[p][tf] = x.data /\ x.data # NoAnswer
      BY <1>4, AnswerIsSome DEF CandlesTake
    <3>5. Cached(candles, p, tf)' = cs /\ (tee.rings[p][tf])' = ring
      BY <1>1, <3>1, <3>4 DEF Cached
    <3>6. \A y \in inflight' : y.key # CandlesKey(p, tf)
      BY <1>1, <1>4 DEF Types, CacheTypes
    <3> QED
      BY <2>3, <3>3, <3>5, <3>6
  <2> QED
    BY <2>2, <2>3
<1> QED
  BY <1>1, <1>3, <1>4

\* A trade goes on with every ring of its pair.
LEMMA CandlesFitTrade ==
  ASSUME MarketDataAssumption, MarketPageAssumption, Types, CandlesFit, PageUnchanged,
         NEW p \in Pairs, NEW x \in PairPrices[p], NEW t \in 1..MaxTime, Trade(p, x, t)
  PROVE  CandlesFit'
<1>1. /\ tee'.clock = t /\ tee.clock <= t /\ t \in Nat /\ x \in Nat \ {0}
      /\ tee'.back = tee.back /\ tee'.restarts = tee.restarts
      /\ \A q \in Pairs : q # p => tee'.rings[q] = tee.rings[q]
      /\ \A tf \in Timeframes : tee'.rings[p][tf] = RollCandles(tee.rings[p][tf], tf, t, x)
  <2>1. TeeTypes
    BY DEF Types
  <2>2. TradeMoves(p, x, t)
    BY <2>1, TradeParts, Zenon
  <2> QED
    BY <2>2 DEF TradeMoves
<1>2. TimeGoesOn /\ tee.clock \in Nat
  BY <1>1 DEF Types, TeeTypes, TimeGoesOn
<1> SUFFICES ASSUME NEW q \in Pairs, NEW tf \in Timeframes
             PROVE  /\ Fits(tee.rings[q][tf], tf)' /\ Fits(Cached(candles, q, tf), tf)'
                    /\ Follows(Cached(candles, q, tf), tee.rings[q][tf])'
                    /\ \A y \in inflight' : y.key = CandlesKey(q, tf)
                                              => AnswerFits(q, tf, y.data.candles)'
  BY DEF CandlesFit
<1>3. /\ Fits(tee.rings[q][tf], tf) /\ Fits(Cached(candles, q, tf), tf)
      /\ Follows(Cached(candles, q, tf), tee.rings[q][tf])
      /\ \A y \in inflight : y.key = CandlesKey(q, tf) => AnswerFits(q, tf, y.data.candles)
  BY DEF CandlesFit
<1>4. Cached(candles, q, tf)' = Cached(candles, q, tf) /\ inflight' = inflight
  BY DEF Cached, PageUnchanged
<1>5. CASE q # p
  <2>1. (tee.rings[q][tf])' = tee.rings[q][tf]
    BY <1>1, <1>5
  <2> QED
    BY <1>2, <1>3, <1>4, <2>1, StoryStays
<1>6. CASE q = p
  <2>1. PICK ring, old, r : /\ ring = tee.rings[p][tf] /\ old = Cached(candles, p, tf)
                            /\ r = RollCandles(ring, tf, t, x)
    OBVIOUS
  <2>2. tf \in Nat \ {0} /\ Fits(ring, tf) /\ Follows(old, ring) /\ Fits(old, tf)
    BY <1>3, <1>6, <2>1, TimeframeType
  <2>3. /\ Fits(r, tf)'
        /\ \A older : Follows(older, ring) /\ Fits(older, tf) => Follows(older, r)'
    BY <1>1, <1>2, <2>1, <2>2, RingRolls
  <2>4. Fits(old, tf)' /\ Follows(old, r)'
    BY <1>2, <2>2, <2>3, FitsKept
  <2>5. (tee.rings[p][tf])' = r /\ old = Cached(candles, p, tf)'
    BY <1>1, <1>4, <1>6, <2>1
  <2>6. ASSUME NEW y \in inflight', y.key = CandlesKey(q, tf)
        PROVE  AnswerFits(q, tf, y.data.candles)'
    <3>1. PICK cs : cs = y.data.candles
      OBVIOUS
    <3>2. Fits(cs, tf) /\ Follows(old, cs) /\ Follows(cs, ring)
      BY <1>3, <1>4, <1>6, <2>1, <2>6, <3>1 DEF AnswerFits
    <3>3. Fits(cs, tf)' /\ Follows(old, cs)' /\ Follows(cs, r)'
      BY <1>2, <2>3, <3>2, FitsKept, FollowsKept
    <3> QED
      BY <1>6, <2>5, <3>1, <3>3 DEF AnswerFits
  <2> QED
    BY <1>6, <2>3, <2>4, <2>5, <2>6
<1> QED
  BY <1>5, <1>6

\* A restart begins the rings anew.
LEMMA CandlesFitRestart ==
  ASSUME Types, CandlesFit, PageUnchanged, TeeRestarts
  PROVE  CandlesFit'
<1>1. /\ tee'.clock = tee.clock /\ tee'.back = tee.back /\ tee'.restarts = TRUE
      /\ \A p \in Pairs, tf \in Timeframes : tee'.rings[p][tf] = <<>>
  <2>1. TeeTypes
    BY DEF Types
  <2> QED
    BY <2>1, TeeRestartsParts
<1>2. TimeGoesOn
  BY <1>1 DEF Types, TeeTypes, TimeGoesOn
<1>3. ASSUME NEW older PROVE Follows(older, <<>>)'
  BY <1>1 DEF Follows, Later
<1> SUFFICES ASSUME NEW p \in Pairs, NEW tf \in Timeframes
             PROVE  /\ Fits(tee.rings[p][tf], tf)' /\ Fits(Cached(candles, p, tf), tf)'
                    /\ Follows(Cached(candles, p, tf), tee.rings[p][tf])'
                    /\ \A y \in inflight' : y.key = CandlesKey(p, tf)
                                              => AnswerFits(p, tf, y.data.candles)'
  BY DEF CandlesFit
<1>4. PICK old : old = Cached(candles, p, tf)
  OBVIOUS
<1>5. old = Cached(candles, p, tf)' /\ inflight' = inflight /\ (tee.rings[p][tf])' = <<>>
  BY <1>1, <1>4 DEF Cached, PageUnchanged
<1>6. Fits(old, tf)
  BY <1>4 DEF CandlesFit
<1>7. Fits(old, tf)' /\ Fits(<<>>, tf)'
  BY <1>2, <1>6, FitsKept, EmptyFits
<1>8. ASSUME NEW y \in inflight', y.key = CandlesKey(p, tf)
      PROVE  AnswerFits(p, tf, y.data.candles)'
  <2>1. PICK cs : cs = y.data.candles
    OBVIOUS
  <2>2. Fits(cs, tf) /\ Follows(old, cs)
    BY <1>4, <1>5, <1>8, <2>1 DEF CandlesFit, AnswerFits
  <2>3. Fits(cs, tf)' /\ Follows(old, cs)'
    BY <1>2, <2>2, FitsKept, FollowsKept
  <2>4. Follows(cs, <<>>)'
    BY <1>3
  <2> QED
    BY <1>5, <2>1, <2>3, <2>4 DEF AnswerFits
<1> QED
  BY <1>3, <1>5, <1>7, <1>8

\* Ring, answers and cache stay one story.
LEMMA CandlesFitInit ==
  ASSUME Init PROVE CandlesFit
<1>1. \A p \in Pairs, tf \in Timeframes : tee.rings[p][tf] = <<>> /\ Cached(candles, p, tf) = <<>>
  BY DEF Init, NoRings, NoCandles, Cached
<1>2. inflight = {}
  BY DEF Init
<1>3. \A tf : Fits(<<>>, tf) /\ Follows(<<>>, <<>>)
  BY EmptyFits
<1> QED
  BY <1>1, <1>2, <1>3 DEF CandlesFit

\* Every step keeps ring, answers and cache one story.
LEMMA CandlesFitStep ==
  ASSUME MarketDataAssumption, MarketPageAssumption, Types, CandlesFit, [Next]_vars
  PROVE  CandlesFit'
<1>1. ASSUME tee' = tee, candles' = candles, inflight' = inflight PROVE CandlesFit'
  <2>1. TimeGoesOn
    BY <1>1 DEF Types, TeeTypes, TimeGoesOn
  <2>2. tee'.rings = tee.rings /\ \A y \in inflight' : \A p, tf : y.key = CandlesKey(p, tf) => y \in inflight
    BY <1>1
  <2> QED
    BY <1>1, <2>1, <2>2, CandlesFitStays
<1>2. CASE PageUnchanged /\ tee' = tee
  BY <1>1, <1>2 DEF PageUnchanged
<1>3. ASSUME NEW ch, UserStep(ch) PROVE CandlesFit'
  BY <1>1, <1>3 DEF UserStep
<1>4. ASSUME NEW id \in Panels, ClosePanel(id) \/ RestorePanel(id) PROVE CandlesFit'
  BY <1>3, <1>4, ClosePanelStep, RestorePanelStep
<1>5. CASE Reload
  BY <1>5, CandlesFitReload
<1>6. ASSUME NEW key \in ActiveKeys, TakeAnswer(key) PROVE CandlesFit'
  BY <1>6, CandlesFitTake
<1>7. ASSUME NEW x \in inflight, ApplyAnswer(x) PROVE CandlesFit'
  BY <1>7, CandlesFitApply
<1>8. ASSUME PageUnchanged, NEW p \in Pairs, NEW x \in PairPrices[p], NEW t \in 1..MaxTime, Trade(p, x, t)
      PROVE  CandlesFit'
  BY <1>8, CandlesFitTrade
<1>9. ASSUME PageUnchanged, (\E p \in Pairs : BookMoves(p)) \/ ClockStepsBack PROVE CandlesFit'
  <2>1. TeeTypes
    BY DEF Types
  <2>2. /\ TeeTypes' /\ tee'.rings = tee.rings /\ tee'.restarts = tee.restarts
        /\ (tee'.clock = tee.clock /\ tee'.back = tee.back) \/ tee'.back = TRUE
    BY <1>9, <2>1, BookMovesParts, ClockStepsBackParts
  <2>3. TimeGoesOn
    BY <2>1, <2>2 DEF TeeTypes, TimeGoesOn
  <2>4. candles' = candles /\ inflight' = inflight
    BY <1>9 DEF PageUnchanged
  <2> QED
    BY <2>2, <2>3, <2>4, CandlesFitStays
<1>10. ASSUME PageUnchanged, TeeRestarts PROVE CandlesFit'
  BY <1>10, CandlesFitRestart
<1> QED
  BY <1>2, <1>3, <1>4, <1>5, <1>6, <1>7, <1>8, <1>9, <1>10, StepKinds

-----------------------------------------------------------------------------
(* Bars.                                                                   *)

\* The parts of fromServerCandles by name: the times of the candles, the candle that
\* counts at one of them, the time of the last candle up to t, and the bar at t.
TimesOf(cs) == {cs[i].openTime : i \in DOMAIN cs}
CandleAt(cs, t) == cs[Max({i \in DOMAIN cs : cs[i].openTime = t})]
TimeBefore(cs, t) == Max({x \in TimesOf(cs) : x <= t})
BarOf(c, t) == IF c.openTime = t
               THEN [time |-> t, open |-> c.open, high |-> c.high, low |-> c.low, close |-> c.close]
               ELSE [time |-> t, open |-> c.close, high |-> c.close, low |-> c.close, close |-> c.close]
BarAt(cs, t) == BarOf(CandleAt(cs, TimeBefore(cs, t)), t)
AllBars(cs, tf) == [i \in 1..((Max(TimesOf(cs)) - Min(TimesOf(cs))) \div tf + 1) |->
                      BarAt(cs, Min(TimesOf(cs)) + (i - 1) * tf)]

\* The bars are the newest of all of them.
LEMMA BarsByName ==
  ASSUME NEW cs, NEW tf, cs # <<>>
  PROVE  FromServerCandles(cs, tf) = Newest(AllBars(cs, tf), MaxBars)
BY Zenon DEF FromServerCandles, AllBars, BarAt, BarOf, TimeBefore, CandleAt, TimesOf

\* The times of a chain: a first and a last, both multiples of the timeframe.
LEMMA TimesParts ==
  ASSUME NEW tf \in Nat \ {0}, NEW cs, Chain(cs, tf), cs # <<>>
  PROVE  /\ TimesOf(cs) \subseteq Nat /\ IsFiniteSet(TimesOf(cs)) /\ TimesOf(cs) # {}
         /\ \A x \in TimesOf(cs) : x % tf = 0
         /\ \A i \in 1..Len(cs) : cs[i].openTime \in TimesOf(cs)
         /\ \A x \in TimesOf(cs) : \E i \in 1..Len(cs) : cs[i].openTime = x
         /\ Max(TimesOf(cs)) \in TimesOf(cs) /\ \A x \in TimesOf(cs) : x <= Max(TimesOf(cs))
         /\ Min(TimesOf(cs)) \in TimesOf(cs) /\ \A x \in TimesOf(cs) : Min(TimesOf(cs)) <= x
<1>1. PICK n, T : n = Len(cs) /\ T = TimesOf(cs)
  OBVIOUS
<1>2. /\ n \in Nat /\ DOMAIN cs = 1..n /\ n # 0
      /\ \A i \in 1..n : cs[i].openTime \in Nat /\ cs[i].openTime % tf = 0
  BY <1>1, ChainParts
<1>3. T = {cs[i].openTime : i \in 1..n}
  BY <1>1, <1>2 DEF TimesOf
<1>4. T \subseteq Nat /\ T # {} /\ \A x \in T : x % tf = 0
  <2>1. 1 \in 1..n
    BY <1>2
  <2> QED
    BY <1>2, <1>3, <2>1
<1>5. /\ \A i \in 1..n : cs[i].openTime \in T
      /\ \A x \in T : \E i \in 1..n : cs[i].openTime = x
  BY <1>3
<1>6. IsFiniteSet(T)
  <2>1. PICK f : f = [i \in 1..n |-> cs[i].openTime]
    OBVIOUS
  <2>2. f \in Surjection(1..n, T)
    BY <1>3, <2>1 DEF Surjection
  <2>3. 1 \in Int /\ n \in Int
    BY <1>2
  <2>4. IsFiniteSet(1..n)
    BY <2>3, FS_Interval
  <2> QED
    BY <2>2, <2>4, FS_Surjection
<1>7. /\ Max(T) \in T /\ \A x \in T : x <= Max(T)
      /\ Min(T) \in T /\ \A x \in T : Min(T) <= x
  BY <1>4, <1>6, MaxAndMin
<1> QED
  BY <1>1, <1>4, <1>5, <1>6, <1>7

\* The candle that counts at a time is one of that time, the last of them.
LEMMA CandleAtParts ==
  ASSUME NEW tf \in Nat \ {0}, NEW cs, Chain(cs, tf), NEW k \in 1..Len(cs)
  PROVE  \E j \in 1..Len(cs) : /\ CandleAt(cs, cs[k].openTime) = cs[j]
                               /\ cs[j].openTime = cs[k].openTime
                               /\ \A i \in 1..Len(cs) : cs[i].openTime = cs[k].openTime => i <= j
<1>1. PICK n, t, P : n = Len(cs) /\ t = cs[k].openTime /\ P = {i \in DOMAIN cs : cs[i].openTime = t}
  OBVIOUS
<1>2. n \in Nat /\ DOMAIN cs = 1..n
  BY <1>1, ChainParts
<1>3. P \subseteq 1..n /\ P \subseteq Nat /\ k \in P
  BY <1>1, <1>2
<1>4. IsFiniteSet(P)
  <2>1. 1 \in Int /\ n \in Int
    BY <1>2
  <2>2. IsFiniteSet(1..n)
    BY <2>1, FS_Interval
  <2> QED
    BY <1>3, <2>2, FS_Subset
<1>5. Max(P) \in P /\ \A x \in P : x <= Max(P)
  BY <1>3, <1>4, MaxAndMin
<1>6. CandleAt(cs, t) = cs[Max(P)]
  BY <1>1 DEF CandleAt
<1>7. \A i \in 1..n : cs[i].openTime = t => i \in P
  BY <1>1, <1>2
<1>8. Max(P) \in 1..n /\ cs[Max(P)].openTime = t
  BY <1>1, <1>3, <1>5
<1> QED
  BY <1>1, <1>5, <1>6, <1>7, <1>8

\* The last time up to t.
LEMMA TimeBeforeParts ==
  ASSUME NEW tf \in Nat \ {0}, NEW cs, Chain(cs, tf), cs # <<>>,
         NEW t \in Nat, Min(TimesOf(cs)) <= t
  PROVE  /\ TimeBefore(cs, t) \in TimesOf(cs) /\ TimeBefore(cs, t) <= t
         /\ \A x \in TimesOf(cs) : x <= t => x <= TimeBefore(cs, t)
<1>1. PICK T, P : T = TimesOf(cs) /\ P = {x \in T : x <= t}
  OBVIOUS
<1>2. T \subseteq Nat /\ IsFiniteSet(T) /\ Min(T) \in T
  BY <1>1, TimesParts
<1>3. P \subseteq T /\ P \subseteq Nat /\ Min(T) \in P
  BY <1>1, <1>2
<1>4. IsFiniteSet(P)
  BY <1>2, <1>3, FS_Subset
<1>5. Max(P) \in P /\ \A x \in P : x <= Max(P)
  BY <1>3, <1>4, MaxAndMin
<1>6. TimeBefore(cs, t) = Max(P)
  BY <1>1 DEF TimeBefore
<1> QED
  BY <1>1, <1>5, <1>6

\* The bar at a time: of that time, made of the last candle up to it.
LEMMA BarAtParts ==
  ASSUME NEW tf \in Nat \ {0}, NEW cs, Chain(cs, tf), cs # <<>>,
         NEW t \in Nat, Min(TimesOf(cs)) <= t
  PROVE  /\ BarAt(cs, t) \in Bar /\ BarAt(cs, t).time = t
         /\ \E j \in 1..Len(cs) :
              /\ cs[j].openTime <= t /\ BarAt(cs, t) = BarOf(cs[j], t)
              /\ \A x \in TimesOf(cs) : x <= t => x <= cs[j].openTime
              /\ \A i \in 1..Len(cs) : cs[i].openTime = cs[j].openTime => i <= j
<1>1. PICK x : x = TimeBefore(cs, t)
  OBVIOUS
<1>2. x \in TimesOf(cs) /\ x <= t /\ \A y \in TimesOf(cs) : y <= t => y <= x
  BY <1>1, TimeBeforeParts
<1>3. PICK k \in 1..Len(cs) : cs[k].openTime = x
  BY <1>2, TimesParts
<1>4. PICK j \in 1..Len(cs) : /\ CandleAt(cs, cs[k].openTime) = cs[j]
                              /\ cs[j].openTime = cs[k].openTime
                              /\ \A i \in 1..Len(cs) : cs[i].openTime = cs[k].openTime => i <= j
  BY CandleAtParts
<1>5. BarAt(cs, t) = BarOf(cs[j], t)
  BY <1>1, <1>3, <1>4, Zenon DEF BarAt
<1>6. cs[j].open \in Nat \ {0} /\ cs[j].high \in Nat \ {0} /\ cs[j].low \in Nat \ {0}
      /\ cs[j].close \in Nat \ {0}
  BY ChainParts
<1>7. BarOf(cs[j], t) \in Bar /\ BarOf(cs[j], t).time = t
  BY <1>6 DEF BarOf, Bar
<1> QED
  BY <1>2, <1>3, <1>4, <1>5, <1>7

\* A multiple divided by its factor.
LEMMA DivideMultiple ==
  ASSUME NEW tf \in Nat \ {0}, NEW d \in Nat
  PROVE  (tf * d) \div tf = d
<1>1. PICK q, x : q = (tf * d) \div tf /\ x = tf * d
  OBVIOUS
<1>2. x \in Nat /\ x % tf = 0 /\ q \in Nat
  BY <1>1
<1>3. x = tf * q
  BY <1>1, <1>2, MultiplesApart
<1>4. ASSUME NEW a \in Nat, NEW b \in Nat, a < b PROVE tf * a # tf * b
  <2>1. PICK e : e = b - (a + 1)
    OBVIOUS
  <2>2. e \in Nat /\ b = a + 1 + e
    BY <1>4, <2>1
  <2>3. tf * b = tf * a + tf + tf * e
    BY <2>2
  <2>4. tf * e \in Nat /\ tf * a \in Nat
    BY <2>2
  <2> QED
    BY <2>3, <2>4
<1>5. ~(q < d) /\ ~(d < q)
  BY <1>1, <1>2, <1>3, <1>4
<1> QED
  BY <1>1, <1>2, <1>5

\* One bar per bucket, from the first to the last.
LEMMA AllBarsParts ==
  ASSUME NEW tf \in Nat \ {0}, NEW cs, Chain(cs, tf), cs # <<>>
  PROVE  \E n \in Nat \ {0} :
           /\ AllBars(cs, tf) \in Seq(Bar) /\ Len(AllBars(cs, tf)) = n
           /\ \A i \in 1..n : /\ Min(TimesOf(cs)) + (i - 1) * tf \in Nat
                              /\ Min(TimesOf(cs)) <= Min(TimesOf(cs)) + (i - 1) * tf
                              /\ (Min(TimesOf(cs)) + (i - 1) * tf) % tf = 0
                              /\ AllBars(cs, tf)[i] = BarAt(cs, Min(TimesOf(cs)) + (i - 1) * tf)
           /\ \A i \in 1..(n - 1) : Min(TimesOf(cs)) + ((i + 1) - 1) * tf
                                      = (Min(TimesOf(cs)) + (i - 1) * tf) + tf
           /\ Min(TimesOf(cs)) + (n - 1) * tf = Max(TimesOf(cs))
           /\ Min(TimesOf(cs)) # Max(TimesOf(cs)) => n >= 2
<1>1. PICK T, a, b : T = TimesOf(cs) /\ a = Min(T) /\ b = Max(T)
  OBVIOUS
<1>2. a \in T /\ b \in T /\ a \in Nat /\ b \in Nat /\ a <= b /\ a % tf = 0 /\ b % tf = 0
  BY <1>1, TimesParts
<1>3. PICK p, q, d : p = a \div tf /\ q = b \div tf /\ d = q - p
  OBVIOUS
<1>4. p \in Nat /\ q \in Nat /\ a = tf * p /\ b = tf * q
  BY <1>2, <1>3, MultiplesApart
<1>5. p <= q
  <2> SUFFICES ASSUME q < p PROVE FALSE
    BY <1>4
  <2>1. PICK e : e = p - (q + 1)
    OBVIOUS
  <2>2. e \in Nat /\ p = q + 1 + e
    BY <1>4, <2>1
  <2>3. tf * p = tf * q + tf + tf * e /\ tf * e \in Nat
    BY <1>4, <2>2
  <2> QED
    BY <1>2, <1>4, <2>3
<1>6. d \in Nat /\ q = p + d
  BY <1>3, <1>4, <1>5
<1>7. b = a + tf * d /\ tf * d \in Nat
  <2>1. tf * q = tf * p + tf * d /\ tf * d \in Nat
    BY <1>4, <1>6
  <2> QED
    BY <1>4, <2>1
<1>8. (b - a) \div tf = d
  <2>1. b - a = tf * d
    BY <1>2, <1>7
  <2> QED
    BY <1>6, <2>1, DivideMultiple
<1>9. PICK n, time : n = d + 1 /\ time = [i \in 1..n |-> a + (i - 1) * tf]
  OBVIOUS
<1>10. n \in Nat \ {0} /\ d + 1 = n /\ n - 1 = d
  BY <1>6, <1>9
<1>11. AllBars(cs, tf) = [i \in 1..n |-> BarAt(cs, a + (i - 1) * tf)]
  <2>1. AllBars(cs, tf) = [i \in 1..((b - a) \div tf + 1) |-> BarAt(cs, a + (i - 1) * tf)]
    BY <1>1, Zenon DEF AllBars
  <2> QED
    BY <1>8, <1>9, <2>1
<1>12. ASSUME NEW i \in 1..n
       PROVE  /\ a + (i - 1) * tf \in Nat /\ a <= a + (i - 1) * tf
              /\ (a + (i - 1) * tf) % tf = 0
              /\ AllBars(cs, tf)[i] = BarAt(cs, a + (i - 1) * tf)
  <2>1. PICK e : e = i - 1
    OBVIOUS
  <2>2. e \in Nat
    BY <1>10, <2>1
  <2>3. e * tf \in Nat /\ e * tf = tf * e
    BY <2>2
  <2>4. a + e * tf = tf * (p + e) /\ p + e \in Nat
    BY <1>4, <2>2, <2>3
  <2>5. (a + e * tf) % tf = 0
    BY <2>4
  <2>6. a + e * tf \in Nat /\ a <= a + e * tf
    BY <1>2, <2>3
  <2>7. AllBars(cs, tf)[i] = BarAt(cs, a + (i - 1) * tf)
    BY <1>11
  <2> QED
    BY <2>1, <2>5, <2>6, <2>7
<1>13. ASSUME NEW i \in 1..(n - 1)
       PROVE  a + ((i + 1) - 1) * tf = (a + (i - 1) * tf) + tf
  <2>1. PICK e : e = i - 1
    OBVIOUS
  <2>2. e \in Nat /\ (i + 1) - 1 = e + 1
    BY <1>10, <2>1
  <2>3. (e + 1) * tf = e * tf + tf /\ e * tf \in Nat
    BY <2>2
  <2> QED
    BY <1>2, <2>1, <2>2, <2>3
<1>14. a + (n - 1) * tf = b
  BY <1>6, <1>7, <1>10
<1>15. a # b => n >= 2
  <2>1. d = 0 => tf * d = 0
    OBVIOUS
  <2> QED
    BY <1>2, <1>6, <1>7, <1>10, <2>1
<1>16. AllBars(cs, tf) \in Seq(Bar) /\ Len(AllBars(cs, tf)) = n
  <2>1. \A i \in 1..n : AllBars(cs, tf)[i] \in Bar
    BY <1>1, <1>12, BarAtParts
  <2>2. PICK s : s = AllBars(cs, tf)
    OBVIOUS
  <2>3. s = [i \in 1..n |-> s[i]]
    BY <1>11, <2>2
  <2>4. s \in Seq(Bar) /\ Len(s) = n
    BY <1>10, <2>1, <2>2, <2>3
  <2> QED
    BY <2>2, <2>4
<1> QED
  BY <1>1, <1>10, <1>12, <1>13, <1>14, <1>15, <1>16

\* Without a setback of the clock the next bar opens where a bar closes.
LEMMA BarsJoin ==
  ASSUME NEW tf \in Nat \ {0}, NEW cs, Chain(cs, tf), cs # <<>>, NEW now, Ascending(cs, now),
         NEW t \in Nat, t % tf = 0, Min(TimesOf(cs)) <= t
  PROVE  BarAt(cs, t + tf).open = BarAt(cs, t).close
<1>1. PICK n, u : n = Len(cs) /\ u = t + tf
  OBVIOUS
<1>2. /\ n \in Nat /\ n # 0 /\ u \in Nat /\ t < u /\ u % tf = 0
      /\ \A i \in 1..n : cs[i].openTime \in Nat /\ cs[i].openTime % tf = 0
      /\ \A i \in 1..(n - 1) : cs[i + 1].open = cs[i].close
      /\ Min(TimesOf(cs)) <= u
  <2>1. n \in Nat /\ n # 0 /\ \A i \in 1..n : cs[i].openTime \in Nat /\ cs[i].openTime % tf = 0
    BY <1>1, ChainParts
  <2>2. \A i \in 1..(n - 1) : cs[i + 1].open = cs[i].close
    BY <1>1, ChainParts
  <2>3. u \in Nat /\ t < u
    BY <1>1
  <2>4. u % tf = 0
    <3>1. PICK a : a = t \div tf
      OBVIOUS
    <3>2. a \in Nat /\ t = tf * a
      BY <3>1, MultiplesApart
    <3>3. u = tf * (a + 1)
      BY <1>1, <3>2
    <3> QED
      BY <3>2, <3>3
  <2>5. Min(TimesOf(cs)) \in Nat
    BY TimesParts
  <2> QED
    BY <2>1, <2>2, <2>3, <2>4, <2>5
<1>3. \A i, j \in 1..n : i < j => cs[i].openTime < cs[j].openTime
  BY <1>1 DEF Ascending
<1>4. PICK j \in 1..n : /\ cs[j].openTime <= t /\ BarAt(cs, t) = BarOf(cs[j], t)
                        /\ \A x \in TimesOf(cs) : x <= t => x <= cs[j].openTime
  BY <1>1, BarAtParts
<1>5. PICK k \in 1..n : /\ cs[k].openTime <= u /\ BarAt(cs, u) = BarOf(cs[k], u)
                        /\ \A x \in TimesOf(cs) : x <= u => x <= cs[k].openTime
  BY <1>1, <1>2, BarAtParts
<1>6. \A i \in 1..n : cs[i].openTime \in TimesOf(cs)
  BY <1>1, TimesParts
<1>7. BarAt(cs, t).close = cs[j].close
  BY <1>4 DEF BarOf
<1>8. \A i \in 1..n : cs[i].openTime < u => cs[i].openTime <= t
  <2> SUFFICES ASSUME NEW i \in 1..n, cs[i].openTime < u PROVE cs[i].openTime <= t
    OBVIOUS
  <2>1. PICK x : x = cs[i].openTime
    OBVIOUS
  <2>2. x \in Nat /\ x % tf = 0 /\ x < u
    BY <1>2, <2>1
  <2>3. x + tf <= u
    BY <1>2, <2>2, MultiplesApart
  <2> QED
    BY <1>1, <2>1, <2>2, <2>3
<1>9. cs[j].openTime < u
  <2>1. PICK x : x = cs[j].openTime
    OBVIOUS
  <2>2. x \in Nat /\ x <= t
    BY <1>2, <1>4, <2>1
  <2> QED
    BY <1>2, <2>1, <2>2
<1>10. CASE cs[k].openTime = u
  <2>1. BarAt(cs, u).open = cs[k].open
    BY <1>5, <1>10 DEF BarOf
  <2>2. j < k
    <3>1. j # k
      BY <1>9, <1>10, <1>2
    <3>2. ~(k < j)
      <4> SUFFICES ASSUME k < j PROVE FALSE
        OBVIOUS
      <4>1. cs[k].openTime < cs[j].openTime
        BY <1>3
      <4>2. cs[k].openTime \in Nat /\ cs[j].openTime \in Nat
        BY <1>2
      <4> QED
        BY <1>9, <1>10, <4>1, <4>2, <1>2
    <3> QED
      BY <3>1, <3>2
  <2>3. k = j + 1
    <3> SUFFICES ASSUME j + 1 < k PROVE FALSE
      BY <2>2
    <3>1. PICK i \in 1..n : i = j + 1
      BY <1>2
    <3>2. cs[j].openTime < cs[i].openTime /\ cs[i].openTime < cs[k].openTime
      BY <1>3, <3>1
    <3>3. cs[i].openTime <= t
      BY <1>8, <1>10, <3>2
    <3>4. cs[i].openTime <= cs[j].openTime
      BY <1>4, <1>6, <3>3
    <3>5. cs[i].openTime \in Nat /\ cs[j].openTime \in Nat
      BY <1>2
    <3> QED
      BY <3>2, <3>4, <3>5
  <2>4. j \in 1..(n - 1)
    BY <1>2, <2>3
  <2>5. cs[j + 1].open = cs[j].close
    BY <1>2, <2>4
  <2> QED
    BY <1>1, <1>7, <2>1, <2>3, <2>5
<1>11. CASE cs[k].openTime # u
  <2>1. BarAt(cs, u).open = cs[k].close
    BY <1>5, <1>11 DEF BarOf
  <2>2. PICK x, y : x = cs[j].openTime /\ y = cs[k].openTime
    OBVIOUS
  <2>3. x \in Nat /\ y \in Nat /\ y < u
    BY <1>2, <1>5, <1>11, <2>2
  <2>4. y <= t
    BY <1>8, <2>2, <2>3
  <2>5. y <= x
    BY <1>4, <1>6, <2>2, <2>4
  <2>6. x <= y
    BY <1>5, <1>6, <1>9, <2>2, <2>3, <1>2
  <2>7. x = y
    BY <2>3, <2>5, <2>6
  <2>8. j = k
    <3>1. ~(j < k)
      <4> SUFFICES ASSUME j < k
                   PROVE  FALSE
        OBVIOUS
      <4>1. x < y
        BY <1>3, <2>2
      <4> QED
        BY <2>3, <2>7, <4>1
    <3>2. ~(k < j)
      <4> SUFFICES ASSUME k < j
                   PROVE  FALSE
        OBVIOUS
      <4>1. y < x
        BY <1>3, <2>2
      <4> QED
        BY <2>3, <2>7, <4>1
    <3> QED
      BY <3>1, <3>2, <1>2
  <2> QED
    BY <1>1, <1>7, <2>1, <2>8
<1> QED
  BY <1>10, <1>11

\* Bars one interval apart, and how they stand to the candles they were made of.
Steady(b, tf) ==
  b \in Seq(Bar) /\ \A i \in 1..(Len(b) - 1) : b[i + 1].time = b[i].time + tf

Joined(b) == \A i \in 1..(Len(b) - 1) : b[i + 1].open = b[i].close

\* Bars are one interval apart, a single one is of a single candle; without a setback
\* of the clock each opens where the one before it closed and the last closes where
\* the last candle does.
LEMMA BarsParts ==
  ASSUME MarketDataAssumption, NEW tf \in Nat \ {0}, NEW cs, Chain(cs, tf), cs # <<>>,
         NEW b, b = FromServerCandles(cs, tf)
  PROVE  /\ Steady(b, tf) /\ b # <<>> /\ Len(b) \in 1..Len(b)
         /\ Len(b) = 1 => Len(cs) = 1 /\ b[1].time = cs[1].openTime
         /\ \A now : Ascending(cs, now) => Joined(b) /\ b[Len(b)].close = cs[Len(cs)].close
<1>1. PICK all, T, a, z : /\ all = AllBars(cs, tf) /\ T = TimesOf(cs)
                          /\ a = Min(TimesOf(cs)) /\ z = Max(TimesOf(cs))
  OBVIOUS
<1>2. PICK n \in Nat \ {0} :
           /\ all \in Seq(Bar) /\ Len(all) = n
           /\ \A i \in 1..n : /\ a + (i - 1) * tf \in Nat /\ a <= a + (i - 1) * tf
                              /\ (a + (i - 1) * tf) % tf = 0
                              /\ all[i] = BarAt(cs, a + (i - 1) * tf)
           /\ \A i \in 1..(n - 1) : a + ((i + 1) - 1) * tf = (a + (i - 1) * tf) + tf
           /\ a + (n - 1) * tf = z
           /\ a # z => n >= 2
  BY <1>1, AllBarsParts
<1>3. PICK m, k : m = Len(b) /\ k = Len(cs)
  OBVIOUS
<1>4. /\ k \in Nat /\ k # 0 /\ \A i \in 1..k : cs[i].openTime \in Nat
      /\ \A i \in 1..(k - 1) : cs[i + 1].openTime # cs[i].openTime
  <2>1. /\ Len(cs) \in Nat /\ Len(cs) # 0 /\ \A i \in 1..Len(cs) : cs[i].openTime \in Nat
        /\ \A i \in 1..(Len(cs) - 1) : cs[i + 1].openTime # cs[i].openTime
    BY ChainParts
  <2> QED
    BY <1>3, <2>1
<1>5. /\ T \subseteq Nat /\ a \in T /\ z \in T
      /\ \A x \in T : a <= x /\ x <= z
      /\ \A i \in 1..k : cs[i].openTime \in T
      /\ \A x \in T : \E i \in 1..k : cs[i].openTime = x
  BY <1>1, <1>3, TimesParts
<1>6. MaxBars \in Nat \ {0} /\ MaxBars > 1
  BY DEF MarketDataAssumption
<1>7. b = Newest(all, MaxBars)
  BY <1>1, BarsByName
<1>8. b \in Seq(Bar) /\ EndsWith(all, b) /\ m = IF n > MaxBars THEN MaxBars ELSE n
  BY <1>2, <1>3, <1>6, <1>7, NewestParts
<1>9. m \in Nat /\ m <= n /\ m # 0 /\ \A i \in 1..m : b[i] = all[n - m + i]
  BY <1>2, <1>3, <1>6, <1>8 DEF EndsWith
<1>10. \A i \in 1..m : n - m + i \in 1..n
  BY <1>2, <1>9
<1>11. \A i \in 1..(m - 1) : /\ i \in 1..m /\ i + 1 \in 1..m /\ n - m + i \in 1..(n - 1)
                             /\ n - m + (i + 1) = (n - m + i) + 1
  BY <1>2, <1>9
<1>12. \A i \in 1..n : all[i].time = a + (i - 1) * tf
  <2> SUFFICES ASSUME NEW i \in 1..n PROVE all[i].time = a + (i - 1) * tf
    OBVIOUS
  <2>1. PICK t : t = a + (i - 1) * tf
    OBVIOUS
  <2>2. t \in Nat /\ Min(TimesOf(cs)) <= t /\ all[i] = BarAt(cs, t)
    BY <1>1, <1>2, <2>1
  <2>3. BarAt(cs, t).time = t
    BY <2>2, BarAtParts
  <2> QED
    BY <2>1, <2>2, <2>3
<1>13. Steady(b, tf)
  <2> SUFFICES ASSUME NEW i \in 1..(m - 1) PROVE b[i + 1].time = b[i].time + tf
    BY <1>3, <1>8 DEF Steady
  <2>1. PICK j : j = n - m + i
    OBVIOUS
  <2>2. j \in 1..(n - 1) /\ b[i] = all[j] /\ b[i + 1] = all[j + 1]
    BY <1>9, <1>11, <2>1
  <2>3. j \in 1..n /\ j + 1 \in 1..n
    BY <1>2, <2>2
  <2>4. all[j].time = a + (j - 1) * tf /\ all[j + 1].time = a + ((j + 1) - 1) * tf
    BY <1>12, <2>3
  <2> QED
    BY <1>2, <2>2, <2>4
<1>14. b # <<>> /\ m \in 1..m
  BY <1>3, <1>9
<1>15. ASSUME m = 1 PROVE k = 1 /\ b[1].time = cs[1].openTime
  <2>1. n = 1
    BY <1>2, <1>6, <1>8, <1>15
  <2>2. a = z
    BY <1>2, <2>1
  <2>3. k = 1
    <3> SUFFICES ASSUME k # 1 PROVE FALSE
      OBVIOUS
    <3>1. 1 \in 1..(k - 1) /\ 1 \in 1..k /\ 1 + 1 \in 1..k
      BY <1>4
    <3>2. PICK x, y : x = cs[1].openTime /\ y = cs[1 + 1].openTime
      OBVIOUS
    <3>3. x # y /\ x \in T /\ y \in T
      BY <1>4, <1>5, <3>1, <3>2
    <3>4. x \in Nat /\ y \in Nat /\ a \in Nat /\ a <= x /\ x <= a /\ a <= y /\ y <= a
      BY <1>5, <2>2, <3>3
    <3> QED
      BY <3>3, <3>4
  <2>4. b[1] = all[1] /\ all[1].time = a + (1 - 1) * tf
    BY <1>9, <1>12, <1>15, <2>1
  <2>5. a + (1 - 1) * tf = z
    BY <1>2, <2>1
  <2>6. cs[1].openTime \in T /\ cs[1].openTime = a
    <3>1. PICK x : x = cs[1].openTime
      OBVIOUS
    <3>2. x \in T
      BY <1>5, <2>3, <3>1
    <3>3. x \in Nat /\ a \in Nat /\ a <= x /\ x <= a
      BY <1>5, <2>2, <3>2
    <3> QED
      BY <3>1, <3>2, <3>3
  <2> QED
    BY <2>2, <2>3, <2>4, <2>5, <2>6
<1>16. ASSUME NEW now, Ascending(cs, now) PROVE Joined(b) /\ b[m].close = cs[k].close
  <2>1. Joined(b)
    <3> SUFFICES ASSUME NEW i \in 1..(m - 1) PROVE b[i + 1].open = b[i].close
      BY <1>3 DEF Joined
    <3>1. PICK j : j = n - m + i
      OBVIOUS
    <3>2. j \in 1..(n - 1) /\ b[i] = all[j] /\ b[i + 1] = all[j + 1]
      BY <1>9, <1>11, <3>1
    <3>3. j \in 1..n /\ j + 1 \in 1..n
      BY <1>2, <3>2
    <3>4. PICK t : t = a + (j - 1) * tf
      OBVIOUS
    <3>5. /\ t \in Nat /\ Min(TimesOf(cs)) <= t /\ t % tf = 0 /\ all[j] = BarAt(cs, t)
          /\ all[j + 1] = BarAt(cs, t + tf)
      BY <1>1, <1>2, <3>2, <3>3, <3>4
    <3>6. BarAt(cs, t + tf).open = BarAt(cs, t).close
      BY <1>16, <3>5, BarsJoin
    <3> QED
      BY <3>2, <3>5, <3>6
  <2>2. b[m] = all[n]
    <3>1. n - m + m = n
      BY <1>2, <1>9
    <3> QED
      BY <1>9, <1>14, <3>1
  <2>3. z \in Nat /\ a <= z /\ all[n] = BarAt(cs, z)
    <3>1. n \in 1..n
      BY <1>2
    <3>2. all[n] = BarAt(cs, a + (n - 1) * tf)
      BY <1>2, <3>1
    <3>3. all[n] = BarAt(cs, z)
      BY <1>2, <3>2, Zenon
    <3> QED
      BY <1>5, <3>3
  <2>4. PICK j \in 1..k : /\ cs[j].openTime <= z /\ BarAt(cs, z) = BarOf(cs[j], z)
                          /\ \A x \in T : x <= z => x <= cs[j].openTime
    BY <1>1, <1>3, <2>3, BarAtParts
  <2>5. BarOf(cs[j], z).close = cs[j].close
    BY DEF BarOf
  <2>6. j = k
    <3>1. PICK x, y : x = cs[j].openTime /\ y = cs[k].openTime
      OBVIOUS
    <3>2. k \in 1..k /\ x \in T /\ y \in T
      BY <1>4, <1>5, <3>1
    <3>3. x \in Nat /\ y \in Nat /\ y <= z /\ y <= x
      BY <1>5, <2>4, <3>1, <3>2
    <3>4. j < k => x < y
      BY <1>3, <1>16, <3>1, <3>2 DEF Ascending
    <3>5. ~(j < k)
      BY <3>3, <3>4
    <3> QED
      BY <1>4, <3>5
  <2> QED
    BY <2>1, <2>2, <2>3, <2>4, <2>5, <2>6
<1> QED
  BY <1>3, <1>13, <1>14, <1>15, <1>16

-----------------------------------------------------------------------------
(* The bars of the page.                                                   *)

\* The chart is handed the bars of what is cached.
LEMMA BarsOfCached ==
  ASSUME NEW cs, NEW p, NEW tf
  PROVE  /\ Cached(cs, p, tf) = <<>> => BarsOf(cs, p, tf) = <<>>
         /\ Cached(cs, p, tf) # <<>> => BarsOf(cs, p, tf) = FromServerCandles(Cached(cs, p, tf), tf)
<1>1. CASE cs[p][tf] = NoAnswer
  BY <1>1 DEF Cached, BarsOf
<1>2. CASE cs[p][tf] # NoAnswer
  <2>1. PICK c : c = cs[p][tf].candles
    OBVIOUS
  <2>2. Cached(cs, p, tf) = c /\ BarsOf(cs, p, tf) = FromServerCandles(c, tf)
    BY <1>2, <2>1 DEF Cached, BarsOf
  <2>3. c = <<>> => FromServerCandles(c, tf) = <<>>
    BY DEF FromServerCandles
  <2> QED
    BY <2>2, <2>3, Zenon
<1> QED
  BY <1>1, <1>2

\* The bars of any pair and timeframe.
LEMMA BarsOfFits ==
  ASSUME MarketDataAssumption, NEW tf \in Nat \ {0}, NEW cs, NEW p, Chain(Cached(cs, p, tf), tf)
  PROVE  /\ Steady(BarsOf(cs, p, tf), tf) /\ Len(BarsOf(cs, p, tf)) \in Nat
         /\ BarsOf(cs, p, tf) = <<>> <=> Cached(cs, p, tf) = <<>>
         /\ Len(BarsOf(cs, p, tf)) = 1 =>
              Len(Cached(cs, p, tf)) = 1 /\ BarsOf(cs, p, tf)[1].time = Cached(cs, p, tf)[1].openTime
         /\ \A now : Ascending(Cached(cs, p, tf), now) =>
              /\ Joined(BarsOf(cs, p, tf))
              /\ Cached(cs, p, tf) # <<>> => BarsOf(cs, p, tf)[Len(BarsOf(cs, p, tf))].close
                                               = Cached(cs, p, tf)[Len(Cached(cs, p, tf))].close
<1>1. PICK c, b : c = Cached(cs, p, tf) /\ b = BarsOf(cs, p, tf)
  OBVIOUS
<1>2. (c = <<>> => b = <<>>) /\ (c # <<>> => b = FromServerCandles(c, tf)) /\ Chain(c, tf)
  BY <1>1, BarsOfCached
<1>3. CASE c = <<>>
  <2>1. Steady(<<>>, tf) /\ Joined(<<>>) /\ Len(<<>>) = 0
    BY DEF Steady, Joined
  <2> QED
    BY <1>1, <1>2, <1>3, <2>1
<1>4. CASE c # <<>>
  <2>1. /\ Steady(b, tf) /\ b # <<>> /\ Len(b) \in 1..Len(b)
        /\ Len(b) = 1 => Len(c) = 1 /\ b[1].time = c[1].openTime
        /\ \A now : Ascending(c, now) => Joined(b) /\ b[Len(b)].close = c[Len(c)].close
    BY <1>2, <1>4, BarsParts
  <2>2. Len(b) \in Nat
    BY <2>1 DEF Steady
  <2> QED
    BY <1>1, <1>4, <2>1, <2>2
<1> QED
  BY <1>3, <1>4

\* The page's bars are continuous.
LEMMA BarsOfPage ==
  ASSUME MarketDataAssumption, MarketPageAssumption, Types, CandlesFit
  PROVE  BarsContinuous
<1>1. PICK p, tf, b, c, now : /\ p = page.pair /\ tf = page.tf /\ b = Bars
                              /\ c = Cached(candles, page.pair, page.tf) /\ now = tee.clock
  OBVIOUS
<1>2. p \in Pairs /\ tf \in Timeframes /\ tf \in Nat \ {0}
  BY <1>1, TimeframeType DEF Types, PageTypes, PageType
<1>3. Fits(c, tf) /\ b = BarsOf(candles, p, tf) /\ c = Cached(candles, p, tf)
  BY <1>1, <1>2 DEF CandlesFit, Bars
<1>4. Chain(c, tf) /\ (~tee.back => Ascending(c, now))
  BY <1>1, <1>3 DEF Fits
<1>5. Steady(b, tf) /\ (~tee.back => Joined(b))
  BY <1>2, <1>3, <1>4, BarsOfFits
<1> QED
  BY <1>1, <1>5 DEF BarsContinuous, Steady, Joined

\* One bar per interval, each opening where the one before it closed: across empty
\* intervals, dropped candles, late answers and restarts of the TEE, unless its clock
\* stepped back.
THEOREM PageBarsContinuous == Spec => []BarsContinuous
<1>1. Init => Types /\ CandlesFit
  BY TypesInit, CandlesFitInit, MarketPageAssumption
<1>2. (Types /\ CandlesFit) /\ [Next]_vars => (Types /\ CandlesFit)'
  BY TypesStep, CandlesFitStep, MarketPageAssumption, MarketDataAssumption
<1>3. Types /\ CandlesFit => BarsContinuous
  BY BarsOfPage, MarketPageAssumption, MarketDataAssumption
<1> QED
  BY <1>1, <1>2, <1>3, PTL DEF Spec

-----------------------------------------------------------------------------
(* The chart.                                                              *)

\* What series.update does with a bar that is later than the last, of its time, or earlier.
LEMMA UpdateParts ==
  ASSUME NEW ch, ChartType(ch), NEW bar \in Bar, ch.series # <<>>,
         NEW s, s = ch.series
  PROVE  /\ bar.time > s[Len(s)].time =>
              UpdateSeries(ch, bar) = [series |-> Append(s, bar), prev |-> ch.prev,
                lastTf |-> ch.lastTf, lastPair |-> ch.lastPair, broken |-> ch.broken]
         /\ bar.time = s[Len(s)].time =>
              UpdateSeries(ch, bar) = [series |-> [s EXCEPT ![Len(s)] = bar], prev |-> ch.prev,
                lastTf |-> ch.lastTf, lastPair |-> ch.lastPair, broken |-> ch.broken]
         /\ bar.time < s[Len(s)].time =>
              UpdateSeries(ch, bar) = [series |-> s, prev |-> ch.prev,
                lastTf |-> ch.lastTf, lastPair |-> ch.lastPair, broken |-> TRUE]
<1>1. PICK x, y, a, b, c, d : /\ x = bar.time /\ y = s[Len(s)].time
                           /\ a = ch.prev /\ b = ch.lastTf /\ c = ch.lastPair /\ d = ch.broken
  OBVIOUS
<1>2. ch = [series |-> s, prev |-> a, lastTf |-> b, lastPair |-> c, broken |-> d]
  BY <1>1 DEF ChartType
<1>3. x \in Nat /\ y \in Nat
  <2>1. s \in Seq(Bar)
    BY DEF ChartType
  <2>2. Len(s) \in 1..Len(s)
    BY <2>1
  <2>3. s[Len(s)] \in Bar
    BY <2>1, <2>2
  <2> QED
    BY <1>1, <2>3 DEF Bar
<1>4. UpdateSeries(ch, bar) =
        CASE x > y -> [ch EXCEPT !.series = Append(s, bar)]
          [] x = y -> [ch EXCEPT !.series[Len(s)] = bar]
          [] OTHER -> [ch EXCEPT !.broken = TRUE]
  BY <1>1 DEF UpdateSeries
<1>5. ASSUME x > y
      PROVE  UpdateSeries(ch, bar) = [series |-> Append(s, bar), prev |-> ch.prev,
                lastTf |-> ch.lastTf, lastPair |-> ch.lastPair, broken |-> ch.broken]
  <2>1. x # y
    BY <1>3, <1>5
  <2>2. UpdateSeries(ch, bar) = [ch EXCEPT !.series = Append(s, bar)]
    BY <1>4, <1>5, <2>1
  <2>3. PICK u : u = Append(s, bar)
    OBVIOUS
  <2>4. PICK w : w = [ch EXCEPT !.series = u]
    OBVIOUS
  <2>5. w = [series |-> u, prev |-> a, lastTf |-> b, lastPair |-> c, broken |-> d]
    BY <1>2, <2>4
  <2> QED
    BY <1>1, <2>2, <2>3, <2>4, <2>5, Zenon
<1>6. ASSUME x = y
      PROVE  UpdateSeries(ch, bar) = [series |-> [s EXCEPT ![Len(s)] = bar], prev |-> ch.prev,
                lastTf |-> ch.lastTf, lastPair |-> ch.lastPair, broken |-> ch.broken]
  <2>1. ~(x > y)
    BY <1>3, <1>6
  <2>2. UpdateSeries(ch, bar) = [ch EXCEPT !.series[Len(s)] = bar]
    BY <1>4, <1>6, <2>1
  <2>3. PICK u : u = [s EXCEPT ![Len(s)] = bar]
    OBVIOUS
  <2>4. PICK w : w = [ch EXCEPT !.series = u]
    OBVIOUS
  <2>5. w = [series |-> u, prev |-> a, lastTf |-> b, lastPair |-> c, broken |-> d]
    BY <1>2, <2>4
  <2>6. UpdateSeries(ch, bar) = [ch EXCEPT !.series = u]
    BY <2>2, <2>3
  <2> QED
    BY <1>1, <2>3, <2>4, <2>5, <2>6, Zenon
<1>7. ASSUME x < y
      PROVE  UpdateSeries(ch, bar) = [series |-> s, prev |-> ch.prev,
                lastTf |-> ch.lastTf, lastPair |-> ch.lastPair, broken |-> TRUE]
  <2>1. ~(x > y) /\ x # y
    BY <1>3, <1>7
  <2>2. UpdateSeries(ch, bar) = [ch EXCEPT !.broken = TRUE]
    BY <1>4, <2>1
  <2>5. PICK e : e = TRUE
    OBVIOUS
  <2>3. PICK w : w = [ch EXCEPT !.broken = e]
    OBVIOUS
  <2>4. w = [series |-> s, prev |-> a, lastTf |-> b, lastPair |-> c, broken |-> e]
    BY <1>2, <2>3
  <2> QED
    BY <1>1, <2>2, <2>3, <2>4, <2>5, Zenon
<1> QED
  BY <1>1, <1>5, <1>6, <1>7, Zenon

\* A full redraw.
Redrawn(ch, bars, pair, tf) ==
  [ch EXCEPT !.series = bars, !.prev = bars, !.lastTf = tf, !.lastPair = pair]

\* Field by field.
LEMMA RedrawnFields ==
  ASSUME NEW ch, ChartType(ch), NEW bars, NEW pair, NEW tf
  PROVE  Redrawn(ch, bars, pair, tf)
           = [series |-> bars, prev |-> bars, lastTf |-> tf, lastPair |-> pair, broken |-> ch.broken]
<1>1. PICK a, b, c, d, e : ch = [series |-> a, prev |-> b, lastTf |-> c, lastPair |-> d, broken |-> e]
  BY Zenon DEF ChartType
<1>2. PICK w : w = [ch EXCEPT !.series = bars, !.prev = bars, !.lastTf = tf, !.lastPair = pair]
  OBVIOUS
<1>3. w = [series |-> bars, prev |-> bars, lastTf |-> tf, lastPair |-> pair, broken |-> e] /\ ch.broken = e
  BY <1>1, <1>2
<1> QED
  BY <1>2, <1>3, Zenon DEF Redrawn

\* It shows the bars.
LEMMA RedrawShows ==
  ASSUME NEW ch, ChartType(ch), ~ch.broken, NEW bars, NEW pair, NEW tf, bars \in Seq(Bar)
  PROVE  Shows(Redrawn(ch, bars, pair, tf), bars, pair, tf) /\ ~Redrawn(ch, bars, pair, tf).broken
<1> DEFINE new == Redrawn(ch, bars, pair, tf)
<1>1. new = [series |-> bars, prev |-> bars, lastTf |-> tf, lastPair |-> pair, broken |-> FALSE]
  <2>2. Redrawn(ch, bars, pair, tf)
          = [series |-> bars, prev |-> bars, lastTf |-> tf, lastPair |-> pair, broken |-> ch.broken]
    BY RedrawnFields, Zenon
  <2>3. ch.broken = FALSE
    BY DEF ChartType
  <2> QED
    BY <2>2, <2>3, Zenon
<1> HIDE DEF new
<1>2. Len(bars) \in Nat
  OBVIOUS
<1>3. EndsWith(bars, bars)
  BY <1>2 DEF EndsWith
<1>4. ChartType(new)
  BY <1>1 DEF ChartType
<1>5. Drew(new, bars, pair, tf)
  BY <1>1, <1>3 DEF Drew
<1>6. Shows(new, bars, pair, tf) /\ ~new.broken
  BY <1>1, <1>4, <1>5 DEF Shows
<1> QED
  BY <1>6 DEF new

\* When there is nothing to compare with, or nothing to draw, the chart is redrawn.
LEMMA DrawnAnew ==
  ASSUME NEW ch, ChartType(ch), ~ch.broken, NEW bars, NEW pair, NEW tf, bars \in Seq(Bar),
         ch.lastTf # tf \/ ch.lastPair # pair \/ bars = <<>>
  PROVE  Shows(Drawn(ch, bars, pair, tf), bars, pair, tf) /\ ~Drawn(ch, bars, pair, tf).broken
<1>1. bars = <<>> => ~(Len(bars) > 0)
  OBVIOUS
<1>2. Drawn(ch, bars, pair, tf) = Redrawn(ch, bars, pair, tf)
  BY <1>1 DEF Drawn, Redrawn
<1>3. Shows(Redrawn(ch, bars, pair, tf), bars, pair, tf) /\ ~Redrawn(ch, bars, pair, tf).broken
  BY RedrawShows, Zenon
<1> QED
  BY <1>2, <1>3, Zenon

\* The bars drawn last are remembered; the rest of the chart stays.
LEMMA PrevSet ==
  ASSUME NEW c, NEW s, NEW p, NEW a, NEW b, NEW d, NEW bars,
         c = [series |-> s, prev |-> p, lastTf |-> a, lastPair |-> b, broken |-> d],
         NEW w, w = [c EXCEPT !.prev = bars]
  PROVE  w = [series |-> s, prev |-> bars, lastTf |-> a, lastPair |-> b, broken |-> d]
OBVIOUS

\* A chart of these fields.
LEMMA ShowsFields ==
  ASSUME NEW c, NEW s \in Seq(Bar), NEW bars, NEW pair, NEW tf, NEW d \in BOOLEAN,
         c = [series |-> s, prev |-> bars, lastTf |-> tf, lastPair |-> pair, broken |-> d]
  PROVE  /\ d /\ tee.back /\ tee.restarts => Shows(c, bars, pair, tf)
         /\ (~d /\ EndsWith(s, bars) /\ (~tee.restarts => s = bars) /\ bars # <<>>)
              => Shows(c, bars, pair, tf)
<1>1. c.series = s /\ c.prev = bars /\ c.lastTf = tf /\ c.lastPair = pair /\ c.broken = d
  OBVIOUS
<1>2. ChartType(c)
  BY <1>1, Zenon DEF ChartType
<1> QED
  BY <1>1, <1>2, Zenon DEF Shows, Drew

\* Of two successive answers made into bars, single bars are of one time without a
\* restart, and in order without a setback.
Comes(old, bars) ==
  Len(old) = 1 /\ Len(bars) = 1 =>
    /\ ~tee.restarts => bars[1].time = old[1].time
    /\ ~tee.back => old[1].time <= bars[1].time

\* Where the last bar alone differs, the chart is updated in place.
LEMMA DrawnLast ==
  ASSUME NEW ch, ChartType(ch), ~ch.broken, NEW old, NEW bars, NEW pair, NEW tf \in Nat \ {0},
         Steady(old, tf), Steady(bars, tf), Drew(ch, old, pair, tf), Comes(old, bars),
         Len(old) = Len(bars), Len(bars) > 0,
         \A i \in 1..Len(bars) : i # Len(bars) => bars[i] = old[i]
  PROVE  Shows([UpdateSeries(ch, bars[Len(bars)]) EXCEPT !.prev = bars], bars, pair, tf)
<1>1. PICK n, s, m, f : n = Len(bars) /\ s = ch.series /\ m = Len(s) /\ f = ch.broken
  OBVIOUS
<1>2. /\ n \in Nat /\ n > 0 /\ Len(old) = n /\ n \in 1..n /\ bars \in Seq(Bar) /\ old \in Seq(Bar)
      /\ \A i \in 1..(n - 1) : bars[i] = old[i]
  <2>1. bars \in Seq(Bar) /\ old \in Seq(Bar)
    BY DEF Steady
  <2> QED
    BY <1>1, <2>1
<1>3. s \in Seq(Bar) /\ m \in Nat /\ n <= m /\ \A i \in 1..n : old[i] = s[m - n + i]
  BY <1>1, <1>2 DEF ChartType, Drew, EndsWith
<1>4. /\ ch.lastTf = tf /\ ch.lastPair = pair /\ f \in BOOLEAN /\ ~f
      /\ ~tee.restarts => s = old
  BY <1>1 DEF Drew, ChartType
<1>5. bars[n] \in Bar /\ s # <<>> /\ m \in 1..m /\ s[m] = old[n] /\ bars # <<>>
  <2>1. m - n + n = m
    BY <1>2, <1>3
  <2>2. s[m] = old[n]
    BY <1>2, <1>3, <2>1
  <2> QED
    BY <1>1, <1>2, <1>3, <2>2
<1>6. PICK x, y, u, p : x = bars[n].time /\ y = old[n].time /\ u = UpdateSeries(ch, bars[n]) /\ p = ch.prev
  OBVIOUS
<1>7. x \in Nat /\ y \in Nat
  <2>1. bars[n] \in Bar
    BY <1>5
  <2>2. old[n] \in Bar
    BY <1>2, ElementOfSeq
  <2> QED
    BY <1>6, <2>1, <2>2 DEF Bar
<1>8. /\ x > y => u = [series |-> Append(s, bars[n]), prev |-> p, lastTf |-> tf, lastPair |-> pair, broken |-> f]
      /\ x = y => u = [series |-> [s EXCEPT ![m] = bars[n]], prev |-> p, lastTf |-> tf,
                       lastPair |-> pair, broken |-> f]
      /\ x < y => u = [series |-> s, prev |-> p, lastTf |-> tf, lastPair |-> pair, broken |-> TRUE]
  <2>1. PICK bar \in Bar : bar = bars[n]
    BY <1>5
  <2>2. /\ bar.time > s[Len(s)].time =>
              UpdateSeries(ch, bar) = [series |-> Append(s, bar), prev |-> ch.prev,
                lastTf |-> ch.lastTf, lastPair |-> ch.lastPair, broken |-> ch.broken]
        /\ bar.time = s[Len(s)].time =>
              UpdateSeries(ch, bar) = [series |-> [s EXCEPT ![Len(s)] = bar], prev |-> ch.prev,
                lastTf |-> ch.lastTf, lastPair |-> ch.lastPair, broken |-> ch.broken]
        /\ bar.time < s[Len(s)].time =>
              UpdateSeries(ch, bar) = [series |-> s, prev |-> ch.prev,
                lastTf |-> ch.lastTf, lastPair |-> ch.lastPair, broken |-> TRUE]
    BY <1>1, <1>5, UpdateParts, Zenon
  <2>3. bar.time = x /\ s[Len(s)].time = y
    BY <1>1, <1>5, <1>6, <2>1
  <2> QED
    BY <1>1, <1>4, <1>6, <2>1, <2>2, <2>3, Zenon
<1>9. n # 1 => x = y
  <2> SUFFICES ASSUME n # 1 PROVE x = y
    OBVIOUS
  <2>1. PICK k : k = n - 1
    OBVIOUS
  <2>2. k \in 1..(n - 1) /\ k + 1 = n
    BY <1>2, <2>1
  <2>3. bars[k + 1].time = bars[k].time + tf /\ old[k + 1].time = old[k].time + tf
    BY <1>1, <1>2, <2>2 DEF Steady
  <2>4. bars[k] = old[k]
    BY <1>2, <2>2
  <2> QED
    BY <1>6, <2>2, <2>3, <2>4
<1>10. n = 1 => (~tee.restarts => x = y) /\ (~tee.back => y <= x)
  BY <1>1, <1>2, <1>6 DEF Comes
<1>11. CASE x > y
  <2>1. PICK t : t = Append(s, bars[n])
    OBVIOUS
  <2>2. n = 1 /\ tee.restarts
    BY <1>7, <1>9, <1>10, <1>11
  <2>3. t \in Seq(Bar) /\ Len(t) = m + 1 /\ t[m + 1] = bars[n]
    BY <1>1, <1>3, <1>5, <2>1
  <2>4. EndsWith(t, bars)
    BY <1>1, <1>3, <2>2, <2>3 DEF EndsWith
  <2>6. u = [series |-> t, prev |-> p, lastTf |-> tf, lastPair |-> pair, broken |-> f]
    BY <1>8, <1>11, <2>1, Zenon
  <2>5. [u EXCEPT !.prev = bars] = [series |-> t, prev |-> bars, lastTf |-> tf, lastPair |-> pair, broken |-> f]
    <3>1. PICK w : w = [u EXCEPT !.prev = bars]
      OBVIOUS
    <3>2. w = [series |-> t, prev |-> bars, lastTf |-> tf, lastPair |-> pair, broken |-> f]
      BY <2>6, <3>1, PrevSet, Zenon
    <3> QED
      BY <3>1, <3>2, Zenon
  <2> QED
    BY <1>1, <1>4, <1>5, <1>6, <2>2, <2>3, <2>4, <2>5, ShowsFields, Zenon
<1>12. CASE x = y
  <2>1. PICK t : t = [s EXCEPT ![m] = bars[n]]
    OBVIOUS
  <2>2. t \in Seq(Bar) /\ Len(t) = m /\ t[m] = bars[n] /\ \A i \in 1..m : i # m => t[i] = s[i]
    BY <1>1, <1>3, <1>5, <2>1
  <2>3. ASSUME NEW i \in 1..n PROVE bars[i] = t[m - n + i]
    <3>1. CASE i = n
      <4>1. m - n + i = m
        BY <1>2, <1>3, <3>1
      <4> QED
        BY <2>2, <3>1, <4>1
    <3>2. CASE i # n
      <4>1. i \in 1..(n - 1) /\ m - n + i \in 1..m /\ m - n + i # m
        BY <1>2, <1>3, <3>2
      <4>2. bars[i] = old[i] /\ old[i] = s[m - n + i] /\ t[m - n + i] = s[m - n + i]
        BY <1>2, <1>3, <2>2, <4>1
      <4> QED
        BY <4>2
    <3> QED
      BY <3>1, <3>2
  <2>4. EndsWith(t, bars)
    BY <1>1, <1>3, <2>2, <2>3 DEF EndsWith
  <2>5. ~tee.restarts => t = bars
    <3> SUFFICES ASSUME ~tee.restarts PROVE t = bars
      OBVIOUS
    <3>1. m = n
      BY <1>1, <1>2, <1>4
    <3>2. \A i \in 1..n : bars[i] = t[i]
      <4> SUFFICES ASSUME NEW i \in 1..n PROVE bars[i] = t[i]
        OBVIOUS
      <4>1. m - n + i = i
        BY <1>2, <3>1
      <4> QED
        BY <2>3, <4>1
    <3> QED
      BY <1>1, <1>2, <2>2, <3>1, <3>2
  <2>7. u = [series |-> t, prev |-> p, lastTf |-> tf, lastPair |-> pair, broken |-> f]
    BY <1>8, <1>12, <2>1, Zenon
  <2>6. [u EXCEPT !.prev = bars] = [series |-> t, prev |-> bars, lastTf |-> tf, lastPair |-> pair, broken |-> f]
    <3>1. PICK w : w = [u EXCEPT !.prev = bars]
      OBVIOUS
    <3>2. w = [series |-> t, prev |-> bars, lastTf |-> tf, lastPair |-> pair, broken |-> f]
      BY <2>7, <3>1, PrevSet, Zenon
    <3> QED
      BY <3>1, <3>2, Zenon
  <2> QED
    BY <1>1, <1>4, <1>5, <1>6, <2>2, <2>4, <2>5, <2>6, ShowsFields, Zenon
<1>13. CASE x < y
  <2>1. n = 1 /\ tee.restarts /\ tee.back
    BY <1>7, <1>9, <1>10, <1>13
  <2>2. PICK g : g = TRUE
    OBVIOUS
  <2>3. u = [series |-> s, prev |-> p, lastTf |-> tf, lastPair |-> pair, broken |-> g]
    BY <1>8, <1>13, <2>2, Zenon
  <2>4. [u EXCEPT !.prev = bars] = [series |-> s, prev |-> bars, lastTf |-> tf, lastPair |-> pair, broken |-> g]
    <3>1. PICK w : w = [u EXCEPT !.prev = bars]
      OBVIOUS
    <3>2. w = [series |-> s, prev |-> bars, lastTf |-> tf, lastPair |-> pair, broken |-> g]
      BY <2>3, <3>1, PrevSet, Zenon
    <3> QED
      BY <3>1, <3>2, Zenon
  <2>5. PICK w : w = [u EXCEPT !.prev = bars]
    OBVIOUS
  <2>6. w.series = s /\ w.prev = bars /\ w.lastTf = tf /\ w.lastPair = pair /\ w.broken = g
    BY <2>4, <2>5
  <2>7. ChartType(w)
    <3>1. g \in BOOLEAN
      BY <2>2
    <3> QED
      BY <1>3, <2>4, <2>5, <2>6, <3>1, Zenon DEF ChartType
  <2>8. w.broken
    BY <2>2, <2>6
  <2>9. Shows(w, bars, pair, tf)
    BY <2>1, <2>7, <2>8, Zenon DEF Shows
  <2> QED
    BY <1>1, <1>6, <2>5, <2>9, Zenon
<1> QED
  BY <1>7, <1>11, <1>12, <1>13

\* A chart that drew one answer's bars shows those of the next.
LEMMA DrawnOn ==
  ASSUME NEW ch, ChartType(ch), ~ch.broken, NEW old, NEW bars, NEW pair, NEW tf \in Nat \ {0},
         Steady(old, tf), Steady(bars, tf), Drew(ch, old, pair, tf), Comes(old, bars)
  PROVE  Shows(Drawn(ch, bars, pair, tf), bars, pair, tf)
<1>1. PICK n, D : n = Len(bars) /\ D = {i \in 1..n : bars[i] # ch.prev[i]}
  OBVIOUS
<1>2. /\ bars \in Seq(Bar) /\ old \in Seq(Bar) /\ n \in Nat /\ Len(old) \in Nat
      /\ ch.prev = old /\ ch.lastTf = tf /\ ch.lastPair = pair
      /\ bars # <<>> => n > 0
  <2>1. bars \in Seq(Bar) /\ old \in Seq(Bar)
    BY DEF Steady
  <2>2. Len(bars) \in Nat /\ Len(old) \in Nat /\ (bars # <<>> => Len(bars) > 0)
    BY <2>1
  <2> QED
    BY <1>1, <2>1, <2>2, Zenon DEF Drew
<1>3. CASE bars = <<>>
  BY <1>2, <1>3, DrawnAnew
<1>4. Shows(Redrawn(ch, bars, pair, tf), bars, pair, tf)
  BY <1>2, RedrawShows, Zenon
<1>5. CASE n # Len(old)
  <2>1. Drawn(ch, bars, pair, tf) = Redrawn(ch, bars, pair, tf)
    BY <1>1, <1>2, <1>5, Zenon DEF Drawn, Redrawn
  <2> QED
    BY <1>4, <2>1, Zenon
<1>6. CASE bars # <<>> /\ n = Len(old)
  <2>1. n > 0
    BY <1>2, <1>6, Zenon
  <2>2. Drawn(ch, bars, pair, tf) =
          CASE D = {} -> [ch EXCEPT !.prev = bars]
            [] D = {n} -> [UpdateSeries(ch, bars[n]) EXCEPT !.prev = bars]
            [] OTHER -> Redrawn(ch, bars, pair, tf)
    BY <1>1, <1>2, <1>6, <2>1, Zenon DEF Drawn, Redrawn
  <2>3. CASE D = {}
    <3>1. D # {n}
      BY <2>3
    <3>2. Drawn(ch, bars, pair, tf) = [ch EXCEPT !.prev = bars]
      BY <2>2, <2>3, <3>1, Zenon
    <3>3. \A i \in 1..n : bars[i] = old[i]
      BY <1>1, <1>2, <2>3
    <3>4. bars = old
      <4>1. Len(bars) = Len(old) /\ \A i \in 1..Len(bars) : bars[i] = old[i]
        BY <1>1, <1>6, <3>3, Zenon
      <4> QED
        BY <1>2, <4>1, SeqEqual, Zenon
    <3>5. PICK a, b, c, d, e : /\ a = ch.series /\ b = ch.prev /\ c = ch.lastTf
                               /\ d = ch.lastPair /\ e = ch.broken
      OBVIOUS
    <3>6. ch = [series |-> a, prev |-> b, lastTf |-> c, lastPair |-> d, broken |-> e]
      BY <3>5, Zenon DEF ChartType
    <3>7. PICK w : w = [ch EXCEPT !.prev = bars]
      OBVIOUS
    <3>8. w = [series |-> a, prev |-> bars, lastTf |-> c, lastPair |-> d, broken |-> e]
      BY <3>6, <3>7, PrevSet, Zenon
    <3>9. w = ch
      BY <1>2, <3>4, <3>5, <3>6, <3>8, Zenon
    <3>10. Shows(ch, bars, pair, tf)
      BY <3>4, Zenon DEF Shows
    <3> QED
      BY <3>2, <3>7, <3>9, <3>10, Zenon
  <2>4. CASE D = {n}
    <3>1. D # {}
      BY <2>4
    <3>2. Drawn(ch, bars, pair, tf) = [UpdateSeries(ch, bars[n]) EXCEPT !.prev = bars]
      BY <2>2, <2>4, <3>1, Zenon
    <3>3. \A i \in 1..n : i # n => bars[i] = old[i]
      BY <1>1, <1>2, <2>4
    <3>4. \A i \in 1..Len(bars) : i # Len(bars) => bars[i] = old[i]
      BY <1>1, <3>3, Zenon
    <3>5. Len(old) = Len(bars) /\ Len(bars) > 0
      BY <1>1, <1>6, <2>1
    <3>6. Shows([UpdateSeries(ch, bars[Len(bars)]) EXCEPT !.prev = bars], bars, pair, tf)
      BY <3>4, <3>5, DrawnLast, Zenon
    <3> QED
      BY <1>1, <3>2, <3>6, Zenon
  <2>5. CASE D # {} /\ D # {n}
    <3>1. Drawn(ch, bars, pair, tf) = Redrawn(ch, bars, pair, tf)
      BY <2>2, <2>5, Zenon
    <3> QED
      BY <1>4, <3>1, Zenon
  <2> QED
    BY <2>3, <2>4, <2>5
<1> QED
  BY <1>3, <1>5, <1>6

\* A new chart shows the bars, drawn once or, under StrictMode, twice.
LEMMA NewChartParts ==
  /\ ChartType(NewChart) /\ ~NewChart.broken
  /\ NewChart.series = <<>> /\ NewChart.prev = <<>>
  /\ NewChart.lastTf = 0 /\ NewChart.lastPair = "none"
<1>1. <<>> \in Seq(Bar)
  OBVIOUS
<1> QED
  BY <1>1 DEF NewChart, ChartType, NoTf, NoPair

\* A chart that mounts shows its bars.
LEMMA MountedShows ==
  ASSUME NEW bars \in Seq(Bar), NEW pair, NEW tf \in Nat \ {0}
  PROVE  Shows(Mounted(bars, pair, tf), bars, pair, tf) /\ ~Mounted(bars, pair, tf).broken
<1>1. PICK c : c = Drawn(NewChart, bars, pair, tf)
  OBVIOUS
<1>2. c = Redrawn(NewChart, bars, pair, tf)
  <2>1. NewChart.lastTf # tf
    BY NewChartParts
  <2> QED
    BY <1>1, <2>1, Zenon DEF Drawn, Redrawn
<1>3. c = [series |-> bars, prev |-> bars, lastTf |-> tf, lastPair |-> pair, broken |-> NewChart.broken]
  BY <1>2, NewChartParts, RedrawnFields, Zenon
<1>4. PICK f : f = NewChart.broken
  OBVIOUS
<1>5. PICK r : r = Remade(c)
  OBVIOUS
<1>6. r = [series |-> <<>>, prev |-> bars, lastTf |-> 0, lastPair |-> "none", broken |-> f]
  <2>1. c = [series |-> bars, prev |-> bars, lastTf |-> tf, lastPair |-> pair, broken |-> f]
    BY <1>3, <1>4, Zenon
  <2>2. PICK x, y, z : x = <<>> /\ y = 0 /\ z = "none"
    OBVIOUS
  <2>3. PICK w : w = [c EXCEPT !.series = x, !.lastTf = y, !.lastPair = z]
    OBVIOUS
  <2>4. w = [series |-> x, prev |-> bars, lastTf |-> y, lastPair |-> z, broken |-> f]
    BY <2>1, <2>3
  <2>5. r = w
    BY <1>5, <2>2, <2>3, Zenon DEF Remade, NoTf, NoPair
  <2> QED
    BY <2>2, <2>4, <2>5, Zenon
<1>7. /\ r.series = <<>> /\ r.prev = bars /\ r.lastTf = 0 /\ r.lastPair = "none" /\ r.broken = f
      /\ r.lastTf # tf
  BY <1>6
<1>8. f \in BOOLEAN /\ ~f
  BY <1>4, NewChartParts DEF ChartType
<1>9. ChartType(r)
  <2>1. r = [series |-> r.series, prev |-> r.prev, lastTf |-> r.lastTf, lastPair |-> r.lastPair,
             broken |-> r.broken]
    BY <1>6, <1>7, Zenon
  <2>2. <<>> \in Seq(Bar)
    OBVIOUS
  <2> QED
    BY <1>7, <1>8, <2>1, <2>2, Zenon DEF ChartType
<1>10. Shows(Drawn(r, bars, pair, tf), bars, pair, tf) /\ ~Drawn(r, bars, pair, tf).broken
  BY <1>7, <1>8, <1>9, DrawnAnew
<1> QED
  BY <1>1, <1>5, <1>10 DEF Mounted

\* What a chart shows it shows while neither the bars nor the chart change.
LEMMA ShowsStays ==
  ASSUME NEW ch, NEW bars, NEW pair, NEW tf, Shows(ch, bars, pair, tf), TimeGoesOn
  PROVE  Shows(ch, bars, pair, tf)'
BY DEF Shows, Drew, ChartType, TimeGoesOn

\* What was drawn and is to be drawn: other bars, or the same ones' next answer.
ToDraw(ch, old, bars, pair, tf) ==
  \/ ch.lastTf # tf \/ ch.lastPair # pair
  \/ Drew(ch, old, pair, tf) /\ Steady(old, tf) /\ Comes(old, bars)

\* The same answer comes after itself.
LEMMA ComesItself ==
  ASSUME NEW tf, NEW b, Steady(b, tf)
  PROVE  Comes(b, b)
<1>1. Len(b) = 1 => b[1].time \in Nat
  <2> SUFFICES ASSUME Len(b) = 1 PROVE b[1].time \in Nat
    OBVIOUS
  <2>1. b \in Seq(Bar) /\ 1 \in 1..Len(b)
    BY DEF Steady
  <2>2. b[1] \in Bar
    BY <2>1, ElementOfSeq
  <2> QED
    BY <2>2 DEF Bar
<1>2. PICK x : x = b[1].time
  OBVIOUS
<1>3. Len(b) = 1 => x <= x
  BY <1>1, <1>2
<1> QED
  BY <1>2, <1>3, Zenon DEF Comes

\* The render after a step of the page.
LEMMA RenderFits ==
  ASSUME TimeGoesOn, tee' = tee, NEW ch, NEW old, Rendered(page', candles', ch),
         page' \in PageType, MarketPageAssumption,
         Steady(Bars', page'.tf),
         "chart" \in page'.panels =>
           ChartType(ch) /\ ~ch.broken /\ ToDraw(ch, old, Bars', page'.pair, page'.tf),
         "chart" \notin page'.panels => ch = NewChart
  PROVE  ChartFits'
<1>1. PICK b, p, tf, new : b = Bars' /\ p = page'.pair /\ tf = page'.tf /\ new = chart'
  OBVIOUS
<1>2. b = BarsOf(candles', p, tf)
  BY <1>1 DEF Bars
<1>3. tf \in Nat \ {0}
  BY <1>1, TimeframeType DEF PageType
<1>4. new = IF "chart" \notin page'.panels THEN ch ELSE Drawn(ch, b, p, tf)
  BY <1>1, <1>2, Zenon DEF Rendered
<1>5. CASE "chart" \notin page'.panels
  BY <1>1, <1>4, <1>5 DEF ChartFits
<1>6. CASE "chart" \in page'.panels
  <2>1. ChartType(ch) /\ ~ch.broken /\ ToDraw(ch, old, b, p, tf) /\ Steady(b, tf)
    BY <1>1, <1>6
  <2>2. b \in Seq(Bar)
    BY <2>1 DEF Steady
  <2>3. Shows(Drawn(ch, b, p, tf), b, p, tf)
    <3>1. CASE ch.lastTf # tf \/ ch.lastPair # p
      BY <2>1, <2>2, <3>1, DrawnAnew
    <3>2. CASE Drew(ch, old, p, tf) /\ Steady(old, tf) /\ Comes(old, b)
      BY <1>3, <2>1, <3>2, DrawnOn
    <3> QED
      BY <2>1, <3>1, <3>2 DEF ToDraw
  <2>4. Shows(new, b, p, tf)
    BY <1>4, <1>6, <2>3, Zenon
  <2>5. Shows(new, b, p, tf)'
    BY <2>4, ShowsStays
  <2> QED
    BY <1>1, <1>6, <2>5, Zenon DEF ChartFits
<1> QED
  BY <1>5, <1>6

\* The bars of a page whose answers are one story.
LEMMA BarsSteady ==
  ASSUME MarketDataAssumption, MarketPageAssumption, CandlesFit,
         NEW p \in Pairs, NEW tf \in Timeframes
  PROVE  Steady(BarsOf(candles, p, tf), tf)
<1>1. Fits(Cached(candles, p, tf), tf)
  BY DEF CandlesFit
<1>2. Chain(Cached(candles, p, tf), tf) /\ tf \in Nat \ {0}
  BY <1>1, TimeframeType DEF Fits
<1> QED
  BY <1>2, BarsOfFits

\* A step of the user draws the bars of what is selected now.
LEMMA ChartFitsUser ==
  ASSUME MarketDataAssumption, MarketPageAssumption, Types, CandlesFit, ChartFits,
         NEW ch, UserStep(ch),
         \/ ch = chart /\ ("chart" \in page'.panels <=> "chart" \in page.panels)
         \/ ch = NewChart /\ "chart" \notin page'.panels
         \/ /\ ch = Mounted(BarsOf(candles, page'.pair, page'.tf), page'.pair, page'.tf)
            /\ "chart" \in page'.panels
  PROVE  ChartFits'
<1>1. TimeGoesOn
  BY DEF UserStep, Types, TeeTypes, TimeGoesOn
<1>2. PICK p, tf, b : p = page'.pair /\ tf = page'.tf /\ b = BarsOf(candles, page'.pair, page'.tf)
  OBVIOUS
<1>3. page' \in PageType /\ candles' = candles /\ tee' = tee /\ Rendered(page', candles', ch) /\ ~chart.broken
  BY Zenon DEF UserStep
<1>4. p \in Pairs /\ tf \in Timeframes /\ tf \in Nat \ {0}
  BY <1>2, <1>3, TimeframeType DEF PageType
<1>5. Steady(b, tf) /\ b = Bars'
  <2>1. b = BarsOf(candles, p, tf)
    BY <1>2, Zenon
  <2>2. Steady(b, tf)
    BY <1>4, <2>1, BarsSteady, Zenon
  <2> QED
    BY <1>2, <1>3, <2>2 DEF Bars
<1>6. Comes(b, b) /\ b \in Seq(Bar)
  BY <1>5, ComesItself DEF Steady
<1>7. CASE ch = chart /\ ("chart" \in page'.panels <=> "chart" \in page.panels)
  <2>1. CASE "chart" \notin page'.panels
    <3>1. ch = NewChart
      BY <1>7, <2>1 DEF ChartFits
    <3>2. Steady(Bars', page'.tf)
      BY <1>2, <1>5
    <3> QED
      BY <1>1, <1>3, <2>1, <3>1, <3>2, RenderFits
  <2>2. CASE "chart" \in page'.panels
    <3>1. PICK old : old = Bars
      OBVIOUS
    <3>2. ChartType(chart) /\ Drew(chart, old, page.pair, page.tf)
      BY <1>3, <1>7, <2>2, <3>1 DEF ChartFits, Shows
    <3>3. chart.lastTf = page.tf /\ chart.lastPair = page.pair
      BY <3>2 DEF Drew
    <3>4. CASE p # page.pair \/ tf # page.tf
      <4>1. ToDraw(ch, old, b, p, tf)
        BY <1>7, <3>3, <3>4 DEF ToDraw
      <4> QED
        BY <1>1, <1>2, <1>3, <1>5, <1>7, <2>2, <3>2, <4>1, RenderFits
    <3>5. CASE p = page.pair /\ tf = page.tf
      <4>1. old = b
        BY <1>2, <3>1, <3>5 DEF Bars
      <4>2. ToDraw(ch, b, b, p, tf)
        BY <1>5, <1>6, <1>7, <3>2, <3>5, <4>1 DEF ToDraw
      <4> QED
        BY <1>1, <1>2, <1>3, <1>5, <1>7, <2>2, <3>2, <4>2, RenderFits
    <3> QED
      BY <3>4, <3>5
  <2> QED
    BY <2>1, <2>2
<1>8. CASE ch = NewChart /\ "chart" \notin page'.panels
  <2>1. Steady(Bars', page'.tf)
    BY <1>2, <1>5
  <2> QED
    BY <1>1, <1>3, <1>8, <2>1, RenderFits
<1>9. CASE ch = Mounted(b, p, tf) /\ "chart" \in page'.panels
  <2>1. Shows(Mounted(b, p, tf), b, p, tf) /\ ~Mounted(b, p, tf).broken
    BY <1>4, <1>6, MountedShows
  <2>2. Shows(ch, b, p, tf) /\ ~ch.broken
    BY <1>9, <2>1, Zenon
  <2>3. ChartType(ch) /\ Drew(ch, b, p, tf)
    BY <2>2 DEF Shows
  <2>4. ToDraw(ch, b, b, p, tf)
    BY <1>5, <1>6, <2>3 DEF ToDraw
  <2> QED
    BY <1>1, <1>2, <1>3, <1>5, <1>9, <2>2, <2>3, <2>4, RenderFits
<1> QED
  BY <1>2, <1>7, <1>8, <1>9, Zenon

\* Where the page, the answers and the chart stay, the chart shows what it did.
LEMMA ChartFitsStays ==
  ASSUME TimeGoesOn, ChartFits, page' = page, candles' = candles, chart' = chart
  PROVE  ChartFits'
<1>1. PICK b, p, tf, ch : b = Bars /\ p = page.pair /\ tf = page.tf /\ ch = chart
  OBVIOUS
<1>2. b = Bars' /\ p = page'.pair /\ tf = page'.tf /\ ch = chart'
  BY <1>1 DEF Bars
<1>3. CASE "chart" \in page.panels
  <2>1. Shows(ch, b, p, tf)
    BY <1>1, <1>3, Zenon DEF ChartFits
  <2>2. Shows(ch, b, p, tf)'
    BY <2>1, ShowsStays
  <2> QED
    BY <1>2, <1>3, <2>2, Zenon DEF ChartFits
<1>4. CASE "chart" \notin page.panels
  BY <1>4 DEF ChartFits
<1> QED
  BY <1>3, <1>4

\* A page that starts has a chart that shows no bars yet.
LEMMA FirstChartFits ==
  ASSUME TimeGoesOn, NEW pg \in PageType, MarketPageAssumption
  PROVE  /\ "chart" \in pg.panels => Shows(FirstChart(pg), <<>>, pg.pair, pg.tf)
         /\ "chart" \in pg.panels => Shows(FirstChart(pg), <<>>, pg.pair, pg.tf)'
         /\ "chart" \notin pg.panels => FirstChart(pg) = NewChart
<1>1. pg.tf \in Nat \ {0} /\ <<>> \in Seq(Bar)
  BY TimeframeType DEF PageType
<1>2. PICK c : c = Mounted(<<>>, pg.pair, pg.tf)
  OBVIOUS
<1>3. Shows(c, <<>>, pg.pair, pg.tf)
  BY <1>1, <1>2, MountedShows
<1>4. Shows(c, <<>>, pg.pair, pg.tf)'
  BY <1>3, ShowsStays
<1> QED
  BY <1>2, <1>3, <1>4 DEF FirstChart

\* A page that was loaded again.
LEMMA ChartFitsReload ==
  ASSUME MarketDataAssumption, MarketPageAssumption, Types, Reload
  PROVE  ChartFits'
<1>1. Types' /\ tee' = tee
  BY ReloadTypes
<1>2. TimeGoesOn
  BY <1>1 DEF Types, TeeTypes, TimeGoesOn
<1>3. PICK pg \in PageType : pg = page'
  BY <1>1 DEF Types, PageTypes
<1>4. chart' = FirstChart(pg) /\ candles' = NoCandles
  BY <1>3 DEF Reload
<1>5. Bars' = <<>>
  <2>1. pg.pair \in Pairs /\ pg.tf \in Timeframes
    BY DEF PageType
  <2>2. NoCandles[pg.pair][pg.tf] = NoAnswer
    BY <2>1 DEF NoCandles
  <2> QED
    BY <1>3, <1>4, <2>2 DEF Bars, BarsOf
<1>6. /\ "chart" \in pg.panels => Shows(FirstChart(pg), <<>>, pg.pair, pg.tf)'
      /\ "chart" \notin pg.panels => FirstChart(pg) = NewChart
  BY <1>2, FirstChartFits
<1> QED
  BY <1>3, <1>4, <1>5, <1>6, Zenon DEF ChartFits

\* The first page.
LEMMA ChartFitsInit ==
  ASSUME MarketDataAssumption, MarketPageAssumption, Init
  PROVE  ChartFits
<1>1. PageTypes
  BY TypesInit DEF Types
<1>2. PICK pg \in PageType : pg = page
  BY <1>1 DEF PageTypes
<1>3. chart = FirstChart(pg) /\ candles = NoCandles
  BY <1>2 DEF Init
<1>4. Bars = <<>>
  <2>1. pg.pair \in Pairs /\ pg.tf \in Timeframes
    BY DEF PageType
  <2>2. NoCandles[pg.pair][pg.tf] = NoAnswer
    BY <2>1 DEF NoCandles
  <2> QED
    BY <1>2, <1>3, <2>2 DEF Bars, BarsOf
<1>5. PICK c : c = Mounted(<<>>, pg.pair, pg.tf)
  OBVIOUS
<1>6. pg.tf \in Nat \ {0} /\ <<>> \in Seq(Bar)
  BY TimeframeType DEF PageType
<1>7. Shows(c, <<>>, pg.pair, pg.tf)
  BY <1>5, <1>6, MountedShows
<1> QED
  BY <1>2, <1>3, <1>4, <1>5, <1>7 DEF ChartFits, FirstChart

\* An answer of the same key comes after the cached one, and so do its bars.
LEMMA AnswerComes ==
  ASSUME MarketDataAssumption, NEW p, NEW tf \in Nat \ {0}, NEW cs, NEW ds,
         Fits(Cached(cs, p, tf), tf), Fits(Cached(ds, p, tf), tf),
         Follows(Cached(cs, p, tf), Cached(ds, p, tf))
  PROVE  Comes(BarsOf(cs, p, tf), BarsOf(ds, p, tf))
<1>1. PICK a, b, o, n : /\ a = BarsOf(cs, p, tf) /\ b = BarsOf(ds, p, tf)
                        /\ o = Cached(cs, p, tf) /\ n = Cached(ds, p, tf)
  OBVIOUS
<1>2. Chain(o, tf) /\ Chain(n, tf) /\ Follows(o, n)
  BY <1>1, Zenon DEF Fits
<1>3. /\ Len(a) = 1 => Len(o) = 1 /\ a[1].time = o[1].openTime
      /\ Len(b) = 1 => Len(n) = 1 /\ b[1].time = n[1].openTime
  <2>1. Chain(Cached(cs, p, tf), tf) /\ Chain(Cached(ds, p, tf), tf)
    BY <1>1, <1>2
  <2> QED
    BY <1>1, <2>1, BarsOfFits
<1> SUFFICES ASSUME Len(a) = 1, Len(b) = 1
             PROVE  /\ ~tee.restarts => b[1].time = a[1].time
                    /\ ~tee.back => a[1].time <= b[1].time
  BY <1>1, Zenon DEF Comes
<1>4. PICK x, y : x = o[1].openTime /\ y = n[1].openTime
  OBVIOUS
<1>5. Len(o) = 1 /\ Len(n) = 1 /\ a[1].time = x /\ b[1].time = y
  BY <1>3, <1>4
<1>6. o # <<>> /\ n # <<>>
  <2>1. o \in Seq(ServerCandle) /\ n \in Seq(ServerCandle)
    BY <1>2 DEF Chain
  <2>2. (o = <<>> <=> Len(o) = 0) /\ (n = <<>> <=> Len(n) = 0)
    BY <2>1, CandleTimes
  <2> QED
    BY <1>5, <2>2
<1>7. ~tee.restarts => x = y
  BY <1>2, <1>4, <1>5, <1>6 DEF Follows, Grows
<1>8. ~tee.back => x <= y
  BY <1>2, <1>4, <1>5, <1>6 DEF Follows, Later
<1> QED
  BY <1>5, <1>7, <1>8

\* An answer that arrives is drawn if it is of what is selected.
LEMMA ChartFitsApply ==
  ASSUME MarketDataAssumption, MarketPageAssumption, Types, CandlesFit, CandlesFit', ChartFits,
         NEW x \in inflight, ApplyAnswer(x)
  PROVE  ChartFits'
<1>1. /\ tee' = tee /\ page' = page /\ Rendered(page', candles', chart) /\ ~chart.broken
      /\ \/ \E p \in Pairs : /\ x.key = BookKey(p) /\ x.data \in BookAnswer(p)
                             /\ BooksTake(p, x.data)
         \/ \E p \in Pairs, tf \in Timeframes :
              /\ x.key = CandlesKey(p, tf) /\ x.data \in CandlesOf(p, tf)
              /\ CandlesTake(p, tf, x.data)
  BY ApplyAnswerParts
<1>2. TimeGoesOn
  BY <1>1 DEF Types, TeeTypes, TimeGoesOn
<1>3. PICK p, tf, old, b, ds : /\ p = page.pair /\ tf = page.tf /\ old = Bars /\ b = Bars' /\ ds = candles'
  OBVIOUS
<1>4. p \in Pairs /\ tf \in Timeframes /\ tf \in Nat \ {0} /\ page' \in PageType
  BY <1>1, <1>3, TimeframeType DEF Types, PageTypes, PageType
<1>5. p = page'.pair /\ tf = page'.tf /\ old = BarsOf(candles, p, tf) /\ b = BarsOf(ds, p, tf)
  BY <1>1, <1>3 DEF Bars
<1>6. Fits(Cached(candles, p, tf), tf) /\ Fits(Cached(ds, p, tf), tf)
  <2>1. Fits(Cached(candles, p, tf), tf) /\ Fits(Cached(candles, p, tf), tf)'
    BY <1>4 DEF CandlesFit
  <2> QED
    BY <1>1, <1>3, <2>1 DEF Fits, Cached
<1>7. Follows(Cached(candles, p, tf), Cached(ds, p, tf)) \/ Cached(ds, p, tf) = Cached(candles, p, tf)
  <2>1. CASE candles'[p][tf] = candles[p][tf]
    BY <1>3, <2>1 DEF Cached
  <2>2. CASE candles'[p][tf] # candles[p][tf]
    <3>1. x.key = CandlesKey(p, tf) /\ x.data \in CandlesOf(p, tf) /\ candles'[p][tf] = x.data
      BY <1>1, <1>4, <2>2 DEF BooksTake, CandlesTake
    <3>2. Cached(ds, p, tf) = x.data.candles
      <4>1. PICK d : d = x.data
        OBVIOUS
      <4>2. d # NoAnswer
        BY <1>4, <3>1, <4>1, AnswerIsSome
      <4>3. ds[p][tf] = d
        BY <1>3, <3>1, <4>1
      <4> QED
        BY <4>1, <4>2, <4>3 DEF Cached
    <3>3. AnswerFits(p, tf, x.data.candles)
      BY <1>4, <3>1 DEF CandlesFit
    <3> QED
      BY <3>2, <3>3 DEF AnswerFits
  <2> QED
    BY <2>1, <2>2
<1>8. Steady(old, tf) /\ Steady(b, tf)
  BY <1>4, <1>5, <1>6, BarsOfFits DEF Fits
<1>9. Comes(old, b)
  <2>1. CASE Follows(Cached(candles, p, tf), Cached(ds, p, tf))
    BY <1>4, <1>5, <1>6, <2>1, AnswerComes
  <2>2. CASE Cached(ds, p, tf) = Cached(candles, p, tf)
    <3>1. b = old
      BY <1>5, <2>2, BarsOfCached
    <3> QED
      BY <1>8, <3>1, ComesItself
  <2> QED
    BY <1>7, <2>1, <2>2
<1>10. "chart" \in page'.panels =>
         ChartType(chart) /\ ~chart.broken /\ ToDraw(chart, old, Bars', page'.pair, page'.tf)
  <2> SUFFICES ASSUME "chart" \in page'.panels
               PROVE  ChartType(chart) /\ ~chart.broken /\ ToDraw(chart, old, b, p, tf)
    BY <1>3, <1>5, Zenon
  <2>1. Shows(chart, old, p, tf)
    BY <1>1, <1>3, Zenon DEF ChartFits
  <2> QED
    BY <1>1, <1>8, <1>9, <2>1 DEF Shows, ToDraw
<1>11. "chart" \notin page'.panels => chart = NewChart
  BY <1>1 DEF ChartFits
<1>12. Steady(Bars', page'.tf)
  BY <1>3, <1>5, <1>8
<1> QED
  BY <1>1, <1>2, <1>4, <1>10, <1>11, <1>12, RenderFits

\* What the chart shows is kept by every step.
LEMMA ChartFitsStep ==
  ASSUME MarketDataAssumption, MarketPageAssumption, Types, CandlesFit, ChartFits, [Next]_vars
  PROVE  ChartFits'
<1>1. ASSUME PageUnchanged, TimeGoesOn PROVE ChartFits'
  BY <1>1, ChartFitsStays DEF PageUnchanged
<1>2. CASE PageUnchanged /\ tee' = tee
  <2>1. TimeGoesOn
    BY <1>2 DEF Types, TeeTypes, TimeGoesOn
  <2> QED
    BY <1>1, <1>2, <2>1
<1>3. CASE UserStep(chart) /\ page'.panels = page.panels
  BY <1>3, ChartFitsUser
<1>4. ASSUME NEW id \in Panels, ClosePanel(id) PROVE ChartFits'
  <2>1. UserStep(IF id = "chart" THEN NewChart ELSE chart) /\ page'.panels = page.panels \ {id}
    BY <1>4, ClosePanelStep
  <2>2. CASE id = "chart"
    <3>1. UserStep(NewChart) /\ "chart" \notin page'.panels
      BY <2>1, <2>2
    <3> QED
      BY <3>1, ChartFitsUser
  <2>3. CASE id # "chart"
    <3>1. UserStep(chart) /\ ("chart" \in page'.panels <=> "chart" \in page.panels)
      BY <2>1, <2>3
    <3> QED
      BY <3>1, ChartFitsUser
  <2> QED
    BY <2>2, <2>3
<1>5. ASSUME NEW id \in Panels, RestorePanel(id) PROVE ChartFits'
  <2>1. PICK ch : ch = Mounted(BarsOf(candles, page.pair, page.tf), page.pair, page.tf)
    OBVIOUS
  <2>2. /\ UserStep(IF id # "chart" THEN chart ELSE ch)
        /\ page'.panels = page.panels \cup {id} /\ page'.pair = page.pair /\ page'.tf = page.tf
    BY <1>5, <2>1, RestorePanelStep
  <2>3. CASE id = "chart"
    <3>1. UserStep(ch) /\ "chart" \in page'.panels
      BY <2>2, <2>3
    <3>2. ch = Mounted(BarsOf(candles, page'.pair, page'.tf), page'.pair, page'.tf)
      BY <2>1, <2>2
    <3> QED
      BY <3>1, <3>2, ChartFitsUser
  <2>4. CASE id # "chart"
    <3>1. UserStep(chart) /\ ("chart" \in page'.panels <=> "chart" \in page.panels)
      BY <2>2, <2>4
    <3> QED
      BY <3>1, ChartFitsUser
  <2> QED
    BY <2>3, <2>4
<1>6. CASE Reload
  BY <1>6, ChartFitsReload
<1>7. ASSUME NEW key \in ActiveKeys, TakeAnswer(key) PROVE ChartFits'
  <2>1. Unchanged
    BY <1>7, TakeAnswerParts
  <2>2. TimeGoesOn
    BY <2>1 DEF Unchanged, Types, TeeTypes, TimeGoesOn
  <2> QED
    BY <2>1, <2>2, ChartFitsStays DEF Unchanged
<1>8. ASSUME NEW x \in inflight, ApplyAnswer(x) PROVE ChartFits'
  <2>1. CandlesFit'
    BY <1>8, CandlesFitApply
  <2> QED
    BY <1>8, <2>1, ChartFitsApply
<1>9. TeeTypes
  BY DEF Types
<1>10. ASSUME PageUnchanged, NEW p \in Pairs, NEW x \in PairPrices[p], NEW t \in 1..MaxTime, Trade(p, x, t)
       PROVE  ChartFits'
  <2>1. TradeMoves(p, x, t) /\ TeeTypes'
    BY <1>9, <1>10, TradeParts
  <2>2. TimeGoesOn
    BY <1>9, <2>1 DEF TradeMoves, TeeTypes, TimeGoesOn
  <2> QED
    BY <1>1, <1>10, <2>2
<1>11. ASSUME PageUnchanged, (\E p \in Pairs : BookMoves(p)) \/ ClockStepsBack \/ TeeRestarts
       PROVE  ChartFits'
  <2>1. /\ TeeTypes'
        /\ tee'.restarts = tee.restarts \/ tee'.restarts = TRUE
        /\ (tee'.clock = tee.clock /\ tee'.back = tee.back) \/ tee'.back = TRUE
    BY <1>9, <1>11, BookMovesParts, ClockStepsBackParts, TeeRestartsParts
  <2>2. TimeGoesOn
    BY <1>9, <2>1 DEF TeeTypes, TimeGoesOn
  <2> QED
    BY <1>1, <1>11, <2>2
<1> QED
  BY <1>2, <1>3, <1>4, <1>5, <1>6, <1>7, <1>8, <1>10, <1>11, StepKinds

\* A chart that fits shows the bars, and one that broke needed a restart and a setback.
LEMMA FittingChart ==
  ASSUME MarketDataAssumption, MarketPageAssumption, Types, CandlesFit, ChartFits
  PROVE  ChartShowsBars /\ \A i \in DOMAIN chart.series : chart.series[i] \in Bar
<1>1. PICK b, s, m, n : b = Bars /\ s = chart.series /\ m = Len(s) /\ n = Len(b)
  OBVIOUS
<1>2. page.pair \in Pairs /\ page.tf \in Timeframes
  BY DEF Types, PageTypes, PageType
<1>3. Steady(b, page.tf)
  BY <1>1, <1>2, BarsSteady DEF Bars
<1>4. b \in Seq(Bar) /\ n \in Nat
  BY <1>1, <1>3 DEF Steady
<1>5. CASE "chart" \notin page.panels
  <2>1. chart = NewChart
    BY <1>5 DEF ChartFits
  <2>2. Alive /\ s = <<>>
    BY <1>1, <2>1, NewChartParts DEF Alive
  <2> QED
    BY <1>1, <1>5, <2>2 DEF ChartShowsBars
<1>6. CASE "chart" \in page.panels
  <2>1. Shows(chart, b, page.pair, page.tf)
    BY <1>1, <1>6 DEF ChartFits
  <2>2. s \in Seq(Bar) /\ m \in Nat
    BY <1>1, <2>1 DEF Shows, ChartType
  <2>3. ASSUME Alive
        PROVE  IF ~tee.restarts THEN s = b ELSE \E k \in 0..m : b = SubSeq(s, k + 1, m)
    <3>1. EndsWith(s, b) /\ (~tee.restarts => s = b)
      BY <1>1, <2>1, <2>3 DEF Shows, Drew, Alive
    <3>2. PICK k : k = m - n
      OBVIOUS
    <3>3. n <= m /\ k \in 0..m /\ \A i \in 1..n : b[i] = s[k + i]
      BY <1>1, <1>4, <2>2, <3>1, <3>2 DEF EndsWith
    <3>4. PICK a, t : a = k + 1 /\ t = SubSeq(s, a, m)
      OBVIOUS
    <3>5. t \in Seq(Bar) /\ Len(t) = n /\ \A i \in 1..n : t[i] = s[k + i]
      <4>0. a = k + 1 /\ n <= m /\ k \in Int
        BY <1>4, <2>2, <3>2, <3>3, <3>4
      <4>1. /\ a \in Int /\ m \in Int /\ (a <= m \/ a = m + 1)
            /\ m - a + 1 = n /\ \A i \in 1..n : a + i - 1 = k + i
        <5>1. m \in Int /\ n \in Nat /\ a \in Int
          BY <1>4, <2>2, <4>0
        <5>2. a <= m \/ a = m + 1
          BY <3>2, <4>0, <5>1
        <5>3. m - a + 1 = n
          BY <3>2, <4>0, <5>1
        <5>4. \A i \in 1..n : a + i - 1 = k + i
          BY <4>0, <5>1
        <5> QED
          BY <5>1, <5>2, <5>3, <5>4
      <4>2. \A i \in a..m : s[i] \in Bar
        <5>1. \A i \in a..m : i \in 1..m
          BY <2>2, <3>3, <3>4
        <5> QED
          BY <1>1, <2>2, <5>1, ElementOfSeq
      <4>3. /\ SubSeq(s, a, m) \in Seq(Bar)
            /\ Len(SubSeq(s, a, m)) = IF a <= m THEN m - a + 1 ELSE 0
            /\ \A i \in 1..(m - a + 1) : SubSeq(s, a, m)[i] = s[a + i - 1]
        BY <4>1, <4>2, SubSeqProperties
      <4>4. Len(SubSeq(s, a, m)) = n
        BY <4>1, <4>3
      <4> QED
        BY <3>4, <4>1, <4>3, <4>4
    <3>6. \A i \in 1..Len(b) : b[i] = t[i]
      BY <1>1, <3>3, <3>5
    <3>7. b = t
      BY <1>1, <1>4, <3>5, <3>6, SeqEqual
    <3> QED
      BY <3>1, <3>3, <3>4, <3>7
  <2>4. ~Alive => tee.back /\ tee.restarts
    BY <2>1 DEF Shows, Alive
  <2>5. \A i \in DOMAIN s : s[i] \in Bar
    BY <2>2
  <2> QED
    BY <1>1, <2>3, <2>4, <2>5 DEF ChartShowsBars
<1> QED
  BY <1>5, <1>6

\* The page's inductive invariant up to the chart.
PageFits == Types /\ CandlesFit /\ ChartFits

\* It is one.
LEMMA PageFitsAlways == Spec => []PageFits
<1>1. Init => PageFits
  BY TypesInit, CandlesFitInit, ChartFitsInit, MarketPageAssumption, MarketDataAssumption DEF PageFits
<1>2. PageFits /\ [Next]_vars => PageFits'
  BY TypesStep, CandlesFitStep, ChartFitsStep, MarketPageAssumption, MarketDataAssumption DEF PageFits
<1> QED
  BY <1>1, <1>2, PTL DEF Spec

\* Type correctness: the page's state, the series the chart draws and the rings.
THEOREM PageTypeCorrect == Spec => []TypeOK
<1>1. PageFits => TypeOK
  <2> SUFFICES ASSUME PageFits PROVE TypeOK
    OBVIOUS
  <2>1. page.pair \in Pairs /\ page.tf \in Timeframes /\ page.panels \subseteq Panels
    BY DEF PageFits, Types, PageTypes, PageType
  <2>2. form \in Nat
    BY DEF PageFits, Types, PageTypes
  <2>3. \A p \in Pairs, tf \in Timeframes : \A i \in DOMAIN tee.rings[p][tf] : tee.rings[p][tf][i] \in ServerCandle
    <3> SUFFICES ASSUME NEW p \in Pairs, NEW tf \in Timeframes
                 PROVE  \A i \in DOMAIN tee.rings[p][tf] : tee.rings[p][tf][i] \in ServerCandle
      OBVIOUS
    <3>1. PICK r : r = tee.rings[p][tf]
      OBVIOUS
    <3>2. r \in Seq(ServerCandle)
      BY <3>1 DEF PageFits, Types, TeeTypes
    <3> QED
      BY <3>1, <3>2
  <2>4. \A i \in DOMAIN chart.series : chart.series[i] \in Bar
    BY FittingChart, MarketPageAssumption, MarketDataAssumption DEF PageFits
  <2> QED
    BY <2>1, <2>2, <2>3, <2>4 DEF TypeOK
<1> QED
  BY <1>1, PageFitsAlways, PTL

\* However the bars changed since the last drawing, the series on screen is what a
\* full redraw would show, or ends with it after a restart of the TEE; and the page
\* survives unless the TEE restarted and its clock stepped back.
THEOREM PageChartShowsBars == Spec => []ChartShowsBars
<1>1. PageFits => ChartShowsBars
  BY FittingChart, MarketPageAssumption, MarketDataAssumption DEF PageFits
<1> QED
  BY <1>1, PageFitsAlways, PTL

-----------------------------------------------------------------------------
(* The tape and the chart.                                                 *)

\* The table g of the places in A is f read d places further on.
Shifted(g, A, f, B, d) ==
  /\ A \subseteq Nat /\ d \in Nat /\ B = {a + d : a \in A}
  /\ f \in [B -> Nat] /\ g = [a \in A |-> f[a + d]]

\* They have one total.
LEMMA TotalShifted ==
  ASSUME NEW A, IsFiniteSet(A), NEW B, NEW g, NEW f, NEW d, Shifted(g, A, f, B, d)
  PROVE  Total(g) = Total(f)
<1>1. PICK b : b = [a \in A |-> a + d]
  OBVIOUS
<1>2. b \in [A -> B] /\ \A a \in A : b[a] = a + d
  BY <1>1 DEF Shifted
<1>3. \A x, y \in A : b[x] = b[y] => x = y
  BY <1>2 DEF Shifted
<1>4. \A y \in B : \E x \in A : b[x] = y
  BY <1>2 DEF Shifted
<1>5. b \in Bijection(A, B)
  BY <1>2, <1>3, <1>4 DEF Bijection, Injection, IsInjective, Surjection
<1>6. g \in [A -> Nat] /\ f \in [B -> Nat]
  BY <1>2 DEF Shifted
<1>7. \A a \in A : g[a] = f[b[a]]
  BY <1>2 DEF Shifted
<1> QED
  BY <1>5, <1>6, <1>7, TotalReindex

\* The table of the trades of some candles.
LEMMA CountType ==
  ASSUME NEW cs \in Seq(ServerCandle)
  PROVE  /\ [k \in 1..Len(cs) |-> cs[k].trades] \in [1..Len(cs) -> Nat]
         /\ IsFiniteSet(1..Len(cs)) /\ Len(cs) \in Nat
         /\ \A k \in 1..Len(cs) : cs[k].trades \in Nat \ {0}
         /\ TradesOf(cs) = Total([k \in 1..Len(cs) |-> cs[k].trades])
<1>1. Len(cs) \in Nat /\ DOMAIN cs = 1..Len(cs) /\ \A k \in 1..Len(cs) : cs[k] \in ServerCandle
  OBVIOUS
<1>2. \A k \in 1..Len(cs) : cs[k].trades \in Nat \ {0}
  BY <1>1 DEF ServerCandle
<1>3. IsFiniteSet(1..Len(cs))
  <2>1. 1 \in Int /\ Len(cs) \in Int
    BY <1>1
  <2> QED
    BY <2>1, FS_Interval
<1> QED
  BY <1>1, <1>2, <1>3 DEF TradesOf, TradesIn

\* No candles stand for no trade, some for at least one.
LEMMA CountParts ==
  ASSUME NEW cs \in Seq(ServerCandle)
  PROVE  /\ TradesOf(cs) \in Nat
         /\ cs = <<>> => TradesOf(cs) = 0
         /\ cs # <<>> => TradesOf(cs) > 0
<1>1. PICK n, f : n = Len(cs) /\ f = [k \in 1..n |-> cs[k].trades]
  OBVIOUS
<1>2. f \in [1..n -> Nat] /\ IsFiniteSet(1..n) /\ n \in Nat /\ TradesOf(cs) = Total(f)
      /\ \A k \in 1..n : f[k] \in Nat \ {0}
  BY <1>1, CountType
<1>3. Total(f) \in Nat
  BY <1>2, UnitsFinite
<1>4. ASSUME cs = <<>> PROVE Total(f) = 0
  <2>1. DOMAIN f = {}
    BY <1>1, <1>4
  <2> QED
    BY <2>1, TotalEmpty
<1>5. ASSUME cs # <<>> PROVE Total(f) > 0
  <2>1. 1 \in 1..n
    BY <1>1, <1>2, <1>5
  <2>2. f[1] <= Total(f)
    BY <1>2, <2>1, EntryWithinTotal
  <2> QED
    BY <1>2, <1>3, <2>1, <2>2
<1> QED
  BY <1>2, <1>3, <1>4, <1>5

\* A sequence with one candle more stands for that candle's trades more.
LEMMA CountAppended ==
  ASSUME NEW cs \in Seq(ServerCandle), NEW r \in Seq(ServerCandle), NEW c \in ServerCandle,
         Len(r) = Len(cs) + 1, \A i \in 1..Len(r) : r[i] = IF i = Len(r) THEN c ELSE cs[i]
  PROVE  TradesOf(r) = TradesOf(cs) + c.trades
<1>1. PICK n, m, f, g : /\ n = Len(cs) /\ f = [k \in 1..n |-> cs[k].trades]
                        /\ m = Len(r) /\ g = [k \in 1..m |-> r[k].trades]
  OBVIOUS
<1>2. /\ f \in [1..n -> Nat] /\ n \in Nat /\ TradesOf(cs) = Total(f)
      /\ g \in [1..m -> Nat] /\ IsFiniteSet(1..m) /\ TradesOf(r) = Total(g)
  BY <1>1, CountType
<1>3. m = n + 1 /\ m \in 1..m /\ (1..m) \ {m} = 1..n
  BY <1>1, <1>2
<1>4. Total(g) = Total([v \in (1..m) \ {m} |-> g[v]]) + g[m]
  <2>1. PICK S : S = 1..m
    OBVIOUS
  <2>2. IsFiniteSet(S) /\ g \in [S -> Nat] /\ m \in S
    BY <1>2, <1>3, <2>1, Zenon
  <2>3. Total(g) = Total([v \in S \ {m} |-> g[v]]) + g[m]
    BY <2>2, TotalRemove, Zenon
  <2> QED
    BY <2>1, <2>3, Zenon
<1>5. \A k \in 1..n : g[k] = cs[k].trades
  <2>1. \A k \in 1..n : k \in 1..m /\ k # m
    BY <1>2, <1>3
  <2> QED
    BY <1>1, <2>1
<1>6. [v \in (1..m) \ {m} |-> g[v]] = f
  BY <1>1, <1>3, <1>5
<1>7. g[m] = c.trades
  BY <1>1, <1>3
<1> QED
  BY <1>2, <1>4, <1>6, <1>7

\* The sequence r is cs without its first candle.
Shortened(r, cs) == Len(cs) = Len(r) + 1 /\ \A i \in 1..Len(r) : r[i] = cs[i + 1]

\* It stands for that one's trades less.
LEMMA CountDropped ==
  ASSUME NEW cs \in Seq(ServerCandle), NEW r \in Seq(ServerCandle),
         Shortened(r, cs)
  PROVE  TradesOf(cs) = TradesOf(r) + cs[1].trades
<1>1. PICK n, m, f, g : /\ n = Len(cs) /\ f = [k \in 1..n |-> cs[k].trades]
                        /\ m = Len(r) /\ g = [k \in 1..m |-> r[k].trades]
  OBVIOUS
<1>2. /\ f \in [1..n -> Nat] /\ IsFiniteSet(1..n) /\ m \in Nat /\ TradesOf(cs) = Total(f)
      /\ g \in [1..m -> Nat] /\ IsFiniteSet(1..m) /\ TradesOf(r) = Total(g)
  BY <1>1, CountType
<1>3. n = m + 1 /\ 1 \in 1..n /\ (1..n) \ {1} = 2..n
  BY <1>1, <1>2 DEF Shortened
<1>4. PICK h : h = [v \in 2..n |-> f[v]]
  OBVIOUS
<1>5. Total(f) = Total(h) + f[1]
  <2>1. PICK S : S = 1..n
    OBVIOUS
  <2>2. IsFiniteSet(S) /\ f \in [S -> Nat] /\ 1 \in S
    BY <1>2, <1>3, <2>1, Zenon
  <2>3. Total(f) = Total([v \in S \ {1} |-> f[v]]) + f[1]
    BY <2>2, TotalRemove, Zenon
  <2>4. S \ {1} = 2..n
    BY <1>3, <2>1, Zenon
  <2> QED
    BY <1>4, <2>3, <2>4, Zenon
<1>6. Total(g) = Total(h)
  <2>1. \A i \in 1..m : i + 1 \in 2..n /\ i + 1 \in 1..n
    BY <1>2, <1>3
  <2>2. \A j \in 2..n : \E i \in 1..m : j = i + 1
    <3> SUFFICES ASSUME NEW j \in 2..n PROVE \E i \in 1..m : j = i + 1
      OBVIOUS
    <3>1. PICK i : i = j - 1
      OBVIOUS
    <3>2. i \in 1..m /\ j = i + 1
      BY <1>2, <1>3, <3>1
    <3> QED
      BY <3>2
  <2>3. 2..n = {i + 1 : i \in 1..m}
    BY <2>1, <2>2
  <2>4. h \in [2..n -> Nat]
    <3>1. \A v \in 2..n : v \in 1..n
      BY <1>2, <1>3
    <3> QED
      BY <1>2, <1>4, <3>1
  <2>5. ASSUME NEW i \in 1..m PROVE g[i] = h[i + 1]
    <3>1. i + 1 \in 2..n /\ i + 1 \in 1..n
      BY <2>1
    <3>2. h[i + 1] = cs[i + 1].trades
      BY <1>1, <1>4, <3>1
    <3> QED
      BY <1>1, <3>2 DEF Shortened
  <2>6. PICK A, B : A = 1..m /\ B = 2..n
    OBVIOUS
  <2>7. IsFiniteSet(A)
    BY <1>2, <2>6
  <2>8. Shifted(g, A, h, B, 1)
    <3>1. A \subseteq Nat /\ 1 \in Nat
      BY <1>2, <2>6
    <3>2. B = {i + 1 : i \in A} /\ h \in [B -> Nat]
      BY <2>3, <2>4, <2>6, Zenon
    <3>3. g = [i \in A |-> h[i + 1]]
      BY <1>2, <2>5, <2>6
    <3> QED
      BY <3>1, <3>2, <3>3 DEF Shifted
  <2> QED
    BY <2>7, <2>8, TotalShifted
<1>7. f[1] = cs[1].trades
  BY <1>1, <1>3
<1> QED
  BY <1>2, <1>5, <1>6, <1>7

\* With another last candle, it stands for more by what that one has more.
LEMMA CountExtended ==
  ASSUME NEW cs \in Seq(ServerCandle), NEW r \in Seq(ServerCandle), NEW c, Extended(r, cs, c),
         c.trades = cs[Len(cs)].trades + 1
  PROVE  TradesOf(r) = TradesOf(cs) + 1
<1>1. PICK n, m, f, g : /\ n = Len(cs) /\ f = [k \in 1..n |-> cs[k].trades]
                        /\ m = Len(r) /\ g = [k \in 1..m |-> r[k].trades]
  OBVIOUS
<1>2. /\ f \in [1..n -> Nat] /\ IsFiniteSet(1..n) /\ n \in Nat /\ TradesOf(cs) = Total(f)
      /\ g \in [1..m -> Nat] /\ TradesOf(r) = Total(g)
  BY <1>1, CountType
<1>3. m = n /\ n \in 1..n /\ \A i \in 1..n : r[i] = IF i = n THEN c ELSE cs[i]
  BY <1>1, <1>2 DEF Extended
<1>4. g[n] = f[n] + 1 /\ \A v \in (1..n) \ {n} : g[v] = f[v]
  BY <1>1, <1>3
<1>5. PICK S : S = 1..n
  OBVIOUS
<1>6. IsFiniteSet(S) /\ f \in [S -> Nat] /\ g \in [S -> Nat] /\ n \in S
  BY <1>2, <1>3, <1>5, Zenon
<1>7. Total(g) + f[n] = Total(f) + g[n]
  <2>1. \A v \in S \ {n} : g[v] = f[v]
    BY <1>4, <1>5, Zenon
  <2> QED
    BY <1>6, <2>1, TotalUpdate
<1>8. Total(f) \in Nat /\ Total(g) \in Nat
  BY <1>6, UnitsFinite, Zenon
<1>9. f[n] \in Nat
  BY <1>6
<1>10. PICK x, y, z : x = Total(f) /\ y = Total(g) /\ z = f[n]
  OBVIOUS
<1>11. x \in Nat /\ y \in Nat /\ z \in Nat /\ y + z = x + (z + 1)
  BY <1>4, <1>7, <1>8, <1>9, <1>10
<1>12. y = x + 1
  BY <1>11
<1> QED
  BY <1>2, <1>10, <1>12

\* A candle opened is one trade more; a ring that was full stands for no more than before.
LEMMA OpenedCount ==
  ASSUME NEW ring \in Seq(ServerCandle), NEW r \in Seq(ServerCandle),
         NEW t, NEW price, NEW c, NEW d, NewCandle(c, ring, t, price), Opened(r, ring, c, d)
  PROVE  /\ TradesOf(r) <= TradesOf(ring) + 1 /\ Len(ring) <= Len(r)
         /\ d = 1 => TradesOf(r) <= TradesOf(ring)
<1>1. PICK n, m, x, y : n = Len(ring) /\ m = Len(r) /\ x = TradesOf(ring) /\ y = TradesOf(r)
  OBVIOUS
<1>2. n \in Nat /\ m \in Nat /\ x \in Nat /\ y \in Nat
  BY <1>1, CountParts
<1>3. c \in ServerCandle /\ c.trades = 1
  BY DEF NewCandle
<1>4. d \in {0, 1} /\ m = n + 1 - d /\ \A i \in 1..m : r[i] = IF i = m THEN c ELSE ring[i + d]
  BY <1>1 DEF Opened
<1>5. PICK all : all = Append(ring, c)
  OBVIOUS
<1>6. /\ all \in Seq(ServerCandle) /\ Len(all) = n + 1
      /\ \A i \in 1..(n + 1) : all[i] = IF i = n + 1 THEN c ELSE ring[i]
  BY <1>1, <1>3, <1>5
<1>7. TradesOf(all) = x + 1
  <2>1. Len(all) = Len(ring) + 1 /\ \A i \in 1..Len(all) : all[i] = IF i = Len(all) THEN c ELSE ring[i]
    BY <1>1, <1>6
  <2>2. TradesOf(all) = TradesOf(ring) + c.trades
    BY <1>3, <1>6, <2>1, CountAppended
  <2> QED
    BY <1>1, <1>3, <2>2
<1>8. ASSUME d = 0 PROVE y <= x + 1 /\ n <= m
  <2>1. m = n + 1 /\ \A i \in 1..m : r[i] = all[i]
    BY <1>2, <1>4, <1>6, <1>8
  <2>2. r = all
    BY <1>1, <1>6, <2>1, SeqEqual
  <2>3. y = x + 1
    BY <1>1, <1>7, <2>2, Zenon
  <2>4. m = n + 1
    BY <2>1
  <2> QED
    BY <1>2, <2>3, <2>4
<1>9. ASSUME d = 1 PROVE y <= x /\ n <= m
  <2>1. m = n
    BY <1>2, <1>4, <1>9
  <2>2. \A i \in 1..m : r[i] = all[i + 1]
    <3> SUFFICES ASSUME NEW i \in 1..m PROVE r[i] = all[i + 1]
      OBVIOUS
    <3>1. i + 1 \in 1..(n + 1) /\ (i + 1 = n + 1 <=> i = m)
      BY <1>2, <2>1
    <3> QED
      BY <1>4, <1>6, <1>9, <3>1
  <2>3. Shortened(r, all)
    BY <1>1, <1>6, <2>1, <2>2 DEF Shortened
  <2>4. TradesOf(all) = y + all[1].trades
    BY <1>1, <1>6, <2>3, CountDropped
  <2>5. all[1].trades \in Nat \ {0}
    <3>1. 1 \in 1..(n + 1)
      BY <1>2
    <3>2. all[1] \in ServerCandle
      BY <1>6, <3>1, ElementOfSeq
    <3> QED
      BY <3>2 DEF ServerCandle
  <2>6. PICK z : z = all[1].trades
    OBVIOUS
  <2>7. x + 1 = y + z /\ z \in Nat \ {0}
    BY <1>7, <2>4, <2>5, <2>6, Zenon
  <2>8. y <= x
    BY <1>2, <2>7
  <2> QED
    BY <1>2, <2>1, <2>8
<1>10. y <= x + 1 /\ n <= m /\ (d = 1 => y <= x)
  BY <1>2, <1>4, <1>8, <1>9
<1> QED
  BY <1>1, <1>10, Zenon

\* A trade is one more at most, and the ring does not shrink.
LEMMA RollCount ==
  ASSUME NEW ring \in Seq(ServerCandle), NEW r \in Seq(ServerCandle),
         NEW t, NEW price, Rolled(r, ring, t, price)
  PROVE  TradesOf(r) <= TradesOf(ring) + 1 /\ Len(ring) <= Len(r)
<1>1. PICK n, m, x, y : n = Len(ring) /\ m = Len(r) /\ x = TradesOf(ring) /\ y = TradesOf(r)
  OBVIOUS
<1>2. n \in Nat /\ m \in Nat /\ x \in Nat /\ y \in Nat
  BY <1>1, CountParts
<1>3. ASSUME NEW c, NEW d, NewCandle(c, ring, t, price), Opened(r, ring, c, d)
      PROVE  y <= x + 1 /\ n <= m
  BY <1>1, <1>3, OpenedCount
<1>4. ASSUME NEW c, Traded(c, ring[n], price), Extended(r, ring, c)
      PROVE  y <= x + 1 /\ n <= m
  <2>1. c.trades = ring[Len(ring)].trades + 1
    BY <1>1, <1>4 DEF Traded
  <2>2. y = x + 1
    BY <1>1, <1>4, <2>1, CountExtended
  <2>3. m = n
    BY <1>1, <1>4 DEF Extended
  <2> QED
    BY <1>2, <2>2, <2>3
<1> QED
  BY <1>1, <1>3, <1>4 DEF Rolled

\* The trades with one more, the newest first.
LEMMA Prepended ==
  ASSUME NEW S, NEW all \in Seq(S), NEW x \in S
  PROVE  /\ <<x>> \o all \in Seq(S) /\ <<x>> \o all # <<>> /\ Len(all) \in Nat
         /\ Len(<<x>> \o all) = Len(all) + 1 /\ (<<x>> \o all)[1] = x
         /\ \A i \in 1..Len(all) : (<<x>> \o all)[i + 1] = all[i]
<1>1. <<x>> \in Seq(S) /\ Len(<<x>>) = 1
  OBVIOUS
<1>2. PICK s, b : s = <<x>> /\ b = s \o all
  OBVIOUS
<1>3. s \in Seq(S) /\ Len(s) = 1 /\ s[1] = x
  BY <1>1, <1>2
<1>4. b \in Seq(S) /\ Len(b) = 1 + Len(all) /\ Len(all) \in Nat
  BY <1>2, <1>3
<1>5. b[1] = x
  BY <1>2, <1>3, <1>4
<1>6. \A i \in 1..Len(all) : b[i + 1] = all[i]
  <2> SUFFICES ASSUME NEW i \in 1..Len(all) PROVE b[i + 1] = all[i]
    OBVIOUS
  <2>1. i + 1 \in 1..(1 + Len(all)) /\ i + 1 > 1 /\ i + 1 - 1 = i
    BY <1>4
  <2> QED
    BY <1>2, <1>3, <2>1
<1>7. b # <<>>
  BY <1>4
<1> QED
  BY <1>2, <1>4, <1>5, <1>6, <1>7

\* What an answer knew of the trades it knew still after one more.
LEMMA KnewPrepended ==
  ASSUME NEW S, NEW all \in Seq(S), NEW x \in S, NEW k \in Nat, NEW ts, Knew(all, k, ts)
  PROVE  Knew(<<x>> \o all, k, ts)
<1>1. PICK n, b : n = Len(all) /\ b = <<x>> \o all
  OBVIOUS
<1>2. n \in Nat /\ Len(b) = n + 1 /\ \A i \in 1..n : b[i + 1] = all[i]
  BY <1>1, Prepended
<1>3. k <= n /\ (k > 0 => ts # <<>> /\ ts[1] = all[n - k + 1])
  BY <1>1 DEF Knew
<1>4. ASSUME k > 0 PROVE b[Len(b) - k + 1] = all[n - k + 1]
  <2>1. PICK j : j = n - k + 1
    OBVIOUS
  <2>2. j \in 1..n /\ Len(b) - k + 1 = j + 1
    BY <1>2, <1>3, <1>4, <2>1
  <2> QED
    BY <1>2, <2>1, <2>2
<1>5. k <= Len(b)
  BY <1>2, <1>3
<1>6. k > 0 => ts # <<>> /\ ts[1] = b[Len(b) - k + 1]
  BY <1>3, <1>4
<1> QED
  BY <1>1, <1>5, <1>6 DEF Knew

\* A ring tells of the trades with the one that it took, and an answer as it did.
LEMMA RollTells ==
  ASSUME MarketDataAssumption, NEW ring \in Seq(ServerCandle), NEW r \in Seq(ServerCandle),
         NEW t, NEW S, NEW all \in Seq(S), NEW x \in S, Rolled(r, ring, t, x), RingTells(ring, all)
  PROVE  /\ RingTells(r, <<x>> \o all)
         /\ \A cs \in Seq(ServerCandle) : Tells(cs, ring, all) => Tells(cs, r, <<x>> \o all)
<1>1. PICK n, b, k, l : /\ n = Len(all) /\ b = <<x>> \o all
                        /\ k = TradesOf(ring) /\ l = TradesOf(r)
  OBVIOUS
<1>2. /\ n \in Nat /\ b # <<>> /\ Len(b) = n + 1 /\ b[1] = x
      /\ \A i \in 1..n : b[i + 1] = all[i]
  BY <1>1, Prepended
<1>3. k \in Nat /\ l \in Nat /\ l <= k + 1 /\ Len(ring) <= Len(r)
  BY <1>1, CountParts, RollCount
<1>4. k <= n
  BY <1>1 DEF RingTells
<1>5. r[Len(r)].close = x
  BY RolledLast
<1>6. RingTells(r, b)
  BY <1>1, <1>2, <1>3, <1>4, <1>5 DEF RingTells
<1>7. ASSUME NEW cs \in Seq(ServerCandle), Tells(cs, ring, all) PROVE Tells(cs, r, b)
  <2> SUFFICES ASSUME l = Len(b), Len(r) <= CandleLimit
               PROVE  /\ TradesOf(cs) <= Len(b)
                      /\ cs # <<>> => TradesOf(cs) > 0 /\ cs[Len(cs)].close = b[Len(b) - TradesOf(cs) + 1]
    BY <1>1, Zenon DEF Tells
  <2>1. k = n
    BY <1>2, <1>3, <1>4
  <2>2. Len(ring) <= CandleLimit
    <3>1. Len(ring) \in Nat /\ Len(r) \in Nat /\ CandleLimit \in Nat
      BY DEF MarketDataAssumption
    <3> QED
      BY <1>3, <3>1
  <2>3. PICK j : j = TradesOf(cs)
    OBVIOUS
  <2>4. j \in Nat /\ j <= n /\ (cs # <<>> => j > 0 /\ cs[Len(cs)].close = all[n - j + 1])
    BY <1>1, <1>7, <2>1, <2>2, <2>3, CountParts DEF Tells
  <2>5. j <= Len(b)
    BY <1>2, <2>4
  <2>6. ASSUME cs # <<>> PROVE b[Len(b) - j + 1] = all[n - j + 1]
    <3>1. PICK i : i = n - j + 1
      OBVIOUS
    <3>2. i \in 1..n /\ Len(b) - j + 1 = i + 1
      BY <1>2, <2>4, <2>6, <3>1
    <3> QED
      BY <1>2, <3>1, <3>2
  <2> QED
    BY <2>3, <2>4, <2>5, <2>6, Zenon
<1> QED
  BY <1>1, <1>6, <1>7

\* An answer just taken tells of all the trades, none of none.
LEMMA NewestTells ==
  ASSUME MarketDataAssumption, NEW ring \in Seq(ServerCandle), NEW S, NEW all \in Seq(S),
         RingTells(ring, all)
  PROVE  Tells(Newest(ring, CandleLimit), ring, all) /\ Tells(<<>>, ring, all)
<1>1. PICK n, k : n = Len(all) /\ k = TradesOf(ring)
  OBVIOUS
<1>2. n \in Nat /\ k \in Nat /\ (ring # <<>> => k > 0)
  BY <1>1, CountParts
<1>3. ASSUME k = n, Len(ring) <= CandleLimit
      PROVE  /\ k <= n
             /\ ring # <<>> => k > 0 /\ ring[Len(ring)].close = all[n - k + 1]
  <2>1. n - k + 1 = 1 /\ k <= n
    BY <1>2, <1>3
  <2>2. ring # <<>> => ring[Len(ring)].close = all[1]
    BY DEF RingTells
  <2> QED
    BY <1>2, <2>1, <2>2
<1>4. ASSUME Len(ring) <= CandleLimit PROVE Newest(ring, CandleLimit) = ring
  <2>1. ~(Len(ring) > CandleLimit)
    <3>1. Len(ring) \in Nat /\ CandleLimit \in Nat
      BY DEF MarketDataAssumption
    <3> QED
      BY <1>4, <3>1
  <2> QED
    BY <2>1, Zenon DEF Newest
<1>5. Tells(Newest(ring, CandleLimit), ring, all)
  <2>1. CASE Len(ring) <= CandleLimit
    BY <1>1, <1>3, <1>4, <2>1 DEF Tells
  <2> QED
    BY <2>1 DEF Tells
<1>6. TradesOf(<<>>) = 0
  <2>1. <<>> \in Seq(ServerCandle)
    OBVIOUS
  <2> QED
    BY <2>1, CountParts
<1>7. Tells(<<>>, ring, all)
  BY <1>1, <1>2, <1>6 DEF Tells
<1> QED
  BY <1>5, <1>7

\* A step after which what is cached was so before, or came from an answer under way,
\* or is nothing, and what is under way was so before or is of now.
TradesCached(p) ==
  \/ KnownOf(books, p)' = 0
  \/ KnownOf(books, p)' = KnownOf(books, p) /\ ShownTrades(books, p)' = ShownTrades(books, p)
  \/ \E x \in inflight : /\ x.key = BookKey(p) /\ KnownOf(books, p)' = x.data.known
                         /\ ShownTrades(books, p)' = x.data.trades

CandlesCached(p, tf) ==
  \/ Cached(candles, p, tf)' = Cached(candles, p, tf) \/ Cached(candles, p, tf)' = <<>>
  \/ \E x \in inflight : x.key = CandlesKey(p, tf) /\ Cached(candles, p, tf)' = x.data.candles

Answering ==
  /\ \A p \in Pairs : TradesCached(p)
  /\ \A p \in Pairs, tf \in Timeframes : CandlesCached(p, tf)
  /\ \A x \in inflight' : x \in inflight \/ Fresh(x)

\* ... keeps what the rings and the answers tell while the market stands still.
LEMMA TellsStays ==
  ASSUME MarketDataAssumption, MarketPageAssumption, Types, RingsTell, AnswersTell, Answering,
         tee'.rings = tee.rings, tee'.trades = tee.trades, tee'.restarts = tee.restarts
  PROVE  RingsTell' /\ AnswersTell'
<1>1. RingsTell'
  BY DEF RingsTell
<1>2. ASSUME NEW p \in Pairs, NEW tf \in Timeframes, ~tee.restarts
      PROVE  /\ Knew(tee.trades[p], KnownOf(books, p)', ShownTrades(books, p)')
             /\ \A x \in inflight' :
                  x.key = BookKey(p) => Knew(tee.trades[p], x.data.known, x.data.trades)
             /\ Tells(Cached(candles, p, tf)', tee.rings[p][tf], tee.trades[p])
             /\ \A x \in inflight' : x.key = CandlesKey(p, tf)
                                       => Tells(x.data.candles, tee.rings[p][tf], tee.trades[p])
  <2>1. PICK ring, all : ring = tee.rings[p][tf] /\ all = tee.trades[p]
    OBVIOUS
  <2>2. ring \in Seq(ServerCandle) /\ all \in Seq(PairPrices[p])
    BY <2>1 DEF Types, TeeTypes
  <2>3. RingTells(ring, all)
    BY <2>1 DEF RingsTell
  <2>4. /\ Knew(all, KnownOf(books, p), ShownTrades(books, p))
        /\ Tells(Cached(candles, p, tf), ring, all)
        /\ \A x \in inflight : x.key = BookKey(p) => Knew(all, x.data.known, x.data.trades)
        /\ \A x \in inflight : x.key = CandlesKey(p, tf) => Tells(x.data.candles, ring, all)
    BY <1>2, <2>1, Zenon DEF AnswersTell
  <2>5. Knew(all, Len(all), FirstOf(all, MatchLimit)) /\ \A ts : Knew(all, 0, ts)
    BY <2>2, KnewTrivially, MarketPageAssumption DEF MarketPageAssumption
  <2>6. Tells(Newest(ring, CandleLimit), ring, all) /\ Tells(<<>>, ring, all)
    BY <2>2, <2>3, NewestTells
  <2>7. Knew(all, KnownOf(books, p)', ShownTrades(books, p)')
    <3>1. TradesCached(p)
      BY DEF Answering
    <3> QED
      BY <2>4, <2>5, <3>1, Zenon DEF TradesCached
  <2>8. Tells(Cached(candles, p, tf)', ring, all)
    <3>1. CandlesCached(p, tf)
      BY DEF Answering
    <3> QED
      BY <2>4, <2>6, <3>1, Zenon DEF CandlesCached
  <2>9. ASSUME NEW x \in inflight', x.key = BookKey(p) PROVE Knew(all, x.data.known, x.data.trades)
    <3>1. CASE x \in inflight
      BY <2>4, <2>9, <3>1, Zenon
    <3>2. CASE Fresh(x)
      <4>1. p = page.pair
        BY <2>9, <3>2, KeysDiffer DEF Fresh
      <4>2. x.data = [pair |-> p, book |-> tee.book[p], known |-> Len(all),
                      trades |-> FirstOf(all, MatchLimit)]
        BY <2>1, <2>9, <3>2, <4>1, KeysDiffer DEF Fresh
      <4>3. x.data.known = Len(all) /\ x.data.trades = FirstOf(all, MatchLimit)
        BY <4>2
      <4> QED
        BY <2>5, <4>3
    <3> QED
      BY <3>1, <3>2 DEF Answering
  <2>10. ASSUME NEW x \in inflight', x.key = CandlesKey(p, tf) PROVE Tells(x.data.candles, ring, all)
    <3>1. CASE x \in inflight
      BY <2>4, <2>10, <3>1, Zenon
    <3>2. CASE Fresh(x)
      <4>1. p = page.pair /\ tf = page.tf
        BY <2>10, <3>2, KeysDiffer DEF Fresh
      <4>2. x.data = [pair |-> p, tf |-> tf, candles |-> Newest(ring, CandleLimit)]
        BY <2>1, <2>10, <3>2, <4>1, KeysDiffer DEF Fresh
      <4>3. x.data.candles = Newest(ring, CandleLimit)
        BY <4>2
      <4> QED
        BY <2>6, <4>3
    <3> QED
      BY <3>1, <3>2 DEF Answering
  <2> QED
    BY <2>1, <2>7, <2>8, <2>9, <2>10
<1>3. \E tf : tf \in Timeframes
  BY DEF Types, PageTypes, PageType
<1>4. AnswersTell'
  BY <1>2, <1>3 DEF AnswersTell
<1> QED
  BY <1>1, <1>4

\* A trade is told of by the rings, and the answers tell as before.
LEMMA TellsTrade ==
  ASSUME MarketDataAssumption, MarketPageAssumption, Types, RingsTell, AnswersTell, PageUnchanged,
         NEW p \in Pairs, NEW x \in PairPrices[p], NEW t \in 1..MaxTime, Trade(p, x, t)
  PROVE  RingsTell' /\ AnswersTell'
<1>1. TradeMoves(p, x, t) /\ Types'
  <2>1. TeeTypes
    BY DEF Types
  <2>2. TradeMoves(p, x, t) /\ TeeTypes'
    BY <2>1, TradeParts, Zenon
  <2> QED
    BY <2>2, MarketTypes
<1>2. /\ t \in Nat /\ x \in Nat \ {0} /\ tee'.restarts = tee.restarts
      /\ tee'.trades[p] = <<x>> \o tee.trades[p]
      /\ \A q \in Pairs : q # p => tee'.trades[q] = tee.trades[q] /\ tee'.rings[q] = tee.rings[q]
      /\ \A tf \in Timeframes : tee'.rings[p][tf] = RollCandles(tee.rings[p][tf], tf, t, x)
  BY <1>1 DEF TradeMoves
<1>3. ASSUME NEW q \in Pairs, NEW tf \in Timeframes
      PROVE  /\ RingTells(tee'.rings[q][tf], tee'.trades[q])
             /\ \A cs \in Seq(ServerCandle) :
                  Tells(cs, tee.rings[q][tf], tee.trades[q])
                    => Tells(cs, tee'.rings[q][tf], tee'.trades[q])
             /\ \A k \in Nat : \A ts : Knew(tee.trades[q], k, ts) => Knew(tee'.trades[q], k, ts)
  <2>1. PICK ring, all : ring = tee.rings[q][tf] /\ all = tee.trades[q]
    OBVIOUS
  <2>2. ring \in Seq(ServerCandle) /\ all \in Seq(PairPrices[q]) /\ RingTells(ring, all)
    <3>1. RingTells(ring, all)
      BY <2>1 DEF RingsTell
    <3>2. ring \in Seq(ServerCandle) /\ all \in Seq(PairPrices[q])
      BY <2>1 DEF Types, TeeTypes
    <3> QED
      BY <3>1, <3>2
  <2>3. CASE q # p
    <3>1. tee'.trades[q] = all /\ tee'.rings[q][tf] = ring
      BY <1>2, <2>1, <2>3
    <3> QED
      BY <2>1, <2>2, <3>1
  <2>4. CASE q = p
    <3>1. PICK r : r = RollCandles(ring, tf, t, x)
      OBVIOUS
    <3>2. tee'.trades[q] = <<x>> \o all /\ tee'.rings[q][tf] = r
      BY <1>2, <2>1, <2>4, <3>1
    <3>3. tf \in Nat \ {0}
      BY TimeframeType
    <3>4. r \in Seq(ServerCandle) /\ Rolled(r, ring, Bucket(t, tf), x)
      BY <1>2, <2>2, <3>1, <3>3, RollParts
    <3>5. x \in PairPrices[q]
      BY <2>4
    <3>6. /\ RingTells(r, <<x>> \o all)
          /\ \A cs \in Seq(ServerCandle) : Tells(cs, ring, all) => Tells(cs, r, <<x>> \o all)
      BY <2>2, <3>4, <3>5, RollTells
    <3>7. \A k \in Nat : \A ts : Knew(all, k, ts) => Knew(<<x>> \o all, k, ts)
      BY <2>2, <3>5, KnewPrepended
    <3> QED
      BY <2>1, <3>2, <3>6, <3>7
  <2> QED
    BY <2>3, <2>4
<1>4. books' = books /\ candles' = candles /\ inflight' = inflight
  BY DEF PageUnchanged
<1>5. CacheTypes
  BY DEF Types
<1>6. ASSUME NEW q \in Pairs, NEW tf \in Timeframes
      PROVE  /\ KnownOf(books, q) \in Nat /\ Cached(candles, q, tf) \in Seq(ServerCandle)
             /\ \A y \in inflight : y.key = BookKey(q) => y.data.known \in Nat
             /\ \A y \in inflight : y.key = CandlesKey(q, tf) => y.data.candles \in Seq(ServerCandle)
  <2>1. KnownOf(books, q) \in Nat
    <3>1. books[q] = NoAnswer \/ books[q] \in BookAnswer(q)
      BY <1>5 DEF CacheTypes
    <3> QED
      BY <3>1 DEF KnownOf, BookAnswer
  <2>2. Cached(candles, q, tf) \in Seq(ServerCandle)
    <3>1. candles[q][tf] = NoAnswer \/ candles[q][tf] \in CandlesOf(q, tf)
      BY <1>5 DEF CacheTypes
    <3> QED
      BY <3>1 DEF Cached, CandlesOf
  <2>3. ASSUME NEW y \in inflight, y.key = BookKey(q) PROVE y.data.known \in Nat
    <3>1. Query(y)
      BY <1>5 DEF CacheTypes
    <3>2. y.data \in BookAnswer(q)
      BY <2>3, <3>1, KeysDiffer DEF Query
    <3> QED
      BY <3>2 DEF BookAnswer
  <2>4. ASSUME NEW y \in inflight, y.key = CandlesKey(q, tf) PROVE y.data.candles \in Seq(ServerCandle)
    <3>1. Query(y)
      BY <1>5 DEF CacheTypes
    <3>2. y.data \in CandlesOf(q, tf)
      BY <2>4, <3>1, KeysDiffer DEF Query
    <3> QED
      BY <3>2 DEF CandlesOf
  <2> QED
    BY <2>1, <2>2, <2>3, <2>4
<1>7. \E tf : tf \in Timeframes
  BY DEF Types, PageTypes, PageType
<1>8. RingsTell'
  BY <1>3 DEF RingsTell
<1>9. ASSUME ~tee.restarts, NEW q \in Pairs, NEW tf \in Timeframes
      PROVE  /\ Knew(tee'.trades[q], KnownOf(books, q), ShownTrades(books, q))
             /\ \A y \in inflight :
                  y.key = BookKey(q) => Knew(tee'.trades[q], y.data.known, y.data.trades)
             /\ Tells(Cached(candles, q, tf), tee'.rings[q][tf], tee'.trades[q])
             /\ \A y \in inflight : y.key = CandlesKey(q, tf)
                                      => Tells(y.data.candles, tee'.rings[q][tf], tee'.trades[q])
  <2>1. /\ Knew(tee.trades[q], KnownOf(books, q), ShownTrades(books, q))
        /\ Tells(Cached(candles, q, tf), tee.rings[q][tf], tee.trades[q])
        /\ \A y \in inflight :
             y.key = BookKey(q) => Knew(tee.trades[q], y.data.known, y.data.trades)
        /\ \A y \in inflight : y.key = CandlesKey(q, tf)
                                 => Tells(y.data.candles, tee.rings[q][tf], tee.trades[q])
    BY <1>9, Zenon DEF AnswersTell
  <2>2. Knew(tee'.trades[q], KnownOf(books, q), ShownTrades(books, q))
    BY <1>3, <1>6, <2>1, Zenon
  <2>3. Tells(Cached(candles, q, tf), tee'.rings[q][tf], tee'.trades[q])
    BY <1>3, <1>6, <2>1, Zenon
  <2>4. \A y \in inflight :
          y.key = BookKey(q) => Knew(tee'.trades[q], y.data.known, y.data.trades)
    BY <1>3, <1>6, <2>1, Zenon
  <2>5. \A y \in inflight : y.key = CandlesKey(q, tf)
                              => Tells(y.data.candles, tee'.rings[q][tf], tee'.trades[q])
    BY <1>3, <1>6, <2>1, Zenon
  <2> QED
    BY <2>2, <2>3, <2>4, <2>5
<1>10. AnswersTell'
  <2>1. \A q \in Pairs : /\ KnownOf(books, q)' = KnownOf(books, q)
                          /\ ShownTrades(books, q)' = ShownTrades(books, q)
    BY <1>4 DEF ShownTrades, KnownOf
  <2>2. \A q \in Pairs, tf \in Timeframes : Cached(candles, q, tf)' = Cached(candles, q, tf)
    BY <1>4 DEF Cached
  <2> QED
    BY <1>2, <1>4, <1>7, <1>9, <2>1, <2>2 DEF AnswersTell
<1> QED
  BY <1>8, <1>10

\* Nothing is told before the first trade, and after a restart nothing of the answers.
LEMMA TellsInit ==
  ASSUME Init PROVE RingsTell /\ AnswersTell
<1>1. TradesOf(<<>>) = 0 /\ Len(<<>>) = 0
  <2>1. <<>> \in Seq(ServerCandle)
    OBVIOUS
  <2> QED
    BY <2>1, CountParts
<1>2. RingTells(<<>>, <<>>) /\ Tells(<<>>, <<>>, <<>>)
  BY <1>1 DEF RingTells, Tells
<1>3. \A ts : Knew(<<>>, 0, ts)
  BY <1>1 DEF Knew
<1>4. \A p \in Pairs : /\ tee.trades[p] = <<>> /\ KnownOf(books, p) = 0
                       /\ \A tf \in Timeframes : /\ tee.rings[p][tf] = <<>>
                                                 /\ Cached(candles, p, tf) = <<>>
  BY DEF Init, NoRings, NoBooks, NoCandles, KnownOf, Cached
<1>5. inflight = {}
  BY DEF Init
<1>6. RingsTell
  BY <1>2, <1>4 DEF RingsTell
<1>7. AnswersTell
  BY <1>2, <1>3, <1>4, <1>5 DEF AnswersTell
<1> QED
  BY <1>6, <1>7

\* What the rings and the answers tell stays so.
LEMMA TellsStep ==
  ASSUME MarketDataAssumption, MarketPageAssumption, Types, RingsTell, AnswersTell, [Next]_vars
  PROVE  RingsTell' /\ AnswersTell'
<1>1. ASSUME tee'.rings = tee.rings, tee'.trades = tee.trades, tee'.restarts = tee.restarts,
             books' = books, candles' = candles, inflight' = inflight
      PROVE  RingsTell' /\ AnswersTell'
  <2>1. Answering
    BY <1>1 DEF Answering, TradesCached, CandlesCached, ShownTrades, KnownOf, Cached
  <2> QED
    BY <1>1, <2>1, TellsStays
<1>2. CASE PageUnchanged /\ tee' = tee
  BY <1>1, <1>2 DEF PageUnchanged
<1>3. ASSUME NEW ch, UserStep(ch) PROVE RingsTell' /\ AnswersTell'
  BY <1>1, <1>3 DEF UserStep
<1>4. ASSUME NEW id \in Panels, ClosePanel(id) \/ RestorePanel(id) PROVE RingsTell' /\ AnswersTell'
  BY <1>3, <1>4, ClosePanelStep, RestorePanelStep
<1>5. CASE Reload
  <2>1. tee' = tee /\ books' = NoBooks /\ candles' = NoCandles /\ inflight' = {}
    BY <1>5 DEF Reload
  <2>2. \A p \in Pairs : KnownOf(books, p)' = 0
    BY <2>1 DEF NoBooks, KnownOf
  <2>3. \A p \in Pairs, tf \in Timeframes : Cached(candles, p, tf)' = <<>>
    BY <2>1 DEF NoCandles, Cached
  <2>4. Answering
    BY <2>1, <2>2, <2>3, Zenon DEF Answering, TradesCached, CandlesCached
  <2>5. tee'.rings = tee.rings /\ tee'.trades = tee.trades /\ tee'.restarts = tee.restarts
    BY <2>1
  <2> QED
    BY <2>4, <2>5, TellsStays
<1>6. ASSUME NEW key \in ActiveKeys, TakeAnswer(key) PROVE RingsTell' /\ AnswersTell'
  <2>1. PICK x : /\ Unchanged /\ Fresh(x) /\ inflight' = {y \in inflight : y.key # x.key} \cup {x}
    BY <1>6, TakeAnswerParts
  <2>2. \A y \in inflight' : y \in inflight \/ Fresh(y)
    BY <2>1
  <2>3. \A p \in Pairs : /\ KnownOf(books, p)' = KnownOf(books, p)
                          /\ ShownTrades(books, p)' = ShownTrades(books, p)
    BY <2>1 DEF Unchanged, ShownTrades, KnownOf
  <2>4. \A p \in Pairs, tf \in Timeframes : Cached(candles, p, tf)' = Cached(candles, p, tf)
    BY <2>1 DEF Unchanged, Cached
  <2>5. Answering
    BY <2>2, <2>3, <2>4, Zenon DEF Answering, TradesCached, CandlesCached
  <2>6. tee'.rings = tee.rings /\ tee'.trades = tee.trades /\ tee'.restarts = tee.restarts
    BY <2>1 DEF Unchanged
  <2> QED
    BY <2>5, <2>6, TellsStays
<1>7. ASSUME NEW x \in inflight, ApplyAnswer(x) PROVE RingsTell' /\ AnswersTell'
  <2>1. /\ tee' = tee /\ inflight' = inflight \ {x}
        /\ \/ \E p \in Pairs : /\ x.key = BookKey(p) /\ x.data \in BookAnswer(p)
                               /\ BooksTake(p, x.data)
           \/ \E p \in Pairs, tf \in Timeframes :
                /\ x.key = CandlesKey(p, tf) /\ x.data \in CandlesOf(p, tf)
                /\ CandlesTake(p, tf, x.data)
    BY <1>7, ApplyAnswerParts
  <2>2. tee'.rings = tee.rings /\ tee'.trades = tee.trades /\ tee'.restarts = tee.restarts
    BY <2>1
  <2>3. \A y \in inflight' : y \in inflight
    BY <2>1
  <2>4. ASSUME NEW p \in Pairs, x.key = BookKey(p), x.data \in BookAnswer(p), BooksTake(p, x.data)
        PROVE  Answering
    <3>1. candles' = candles /\ books'[p] = x.data /\ \A q \in Pairs : q # p => books'[q] = books[q]
      BY <2>4 DEF BooksTake
    <3>2. x.data # NoAnswer
      BY <2>4, AnswerIsSome
    <3>3. ShownTrades(books, p)' = x.data.trades /\ KnownOf(books, p)' = x.data.known
      BY <3>1, <3>2 DEF ShownTrades, KnownOf
    <3>4. \A q \in Pairs : q # p => /\ KnownOf(books, q)' = KnownOf(books, q)
                                    /\ ShownTrades(books, q)' = ShownTrades(books, q)
      BY <3>1 DEF ShownTrades, KnownOf
    <3>5. \A q \in Pairs : TradesCached(q)
      BY <2>4, <3>3, <3>4, Zenon DEF TradesCached
    <3>6. \A q \in Pairs, t \in Timeframes : CandlesCached(q, t)
      BY <3>1 DEF CandlesCached, Cached
    <3> QED
      BY <2>3, <3>5, <3>6, Zenon DEF Answering
  <2>5. ASSUME NEW p \in Pairs, NEW tf \in Timeframes,
               x.key = CandlesKey(p, tf), x.data \in CandlesOf(p, tf), CandlesTake(p, tf, x.data)
        PROVE  Answering
    <3>1. /\ books' = books /\ candles'[p][tf] = x.data
          /\ \A q \in Pairs, t \in Timeframes : (q # p \/ t # tf) => candles'[q][t] = candles[q][t]
      BY <2>5 DEF CandlesTake
    <3>2. x.data # NoAnswer
      BY <2>5, AnswerIsSome
    <3>3. Cached(candles, p, tf)' = x.data.candles
      BY <3>1, <3>2 DEF Cached
    <3>4. \A q \in Pairs, t \in Timeframes :
            (q # p \/ t # tf) => Cached(candles, q, t)' = Cached(candles, q, t)
      BY <3>1 DEF Cached
    <3>5. \A q \in Pairs, t \in Timeframes : CandlesCached(q, t)
      BY <2>5, <3>3, <3>4, Zenon DEF CandlesCached
    <3>6. \A q \in Pairs : TradesCached(q)
      BY <3>1 DEF TradesCached, ShownTrades, KnownOf
    <3> QED
      BY <2>3, <3>5, <3>6, Zenon DEF Answering
  <2>6. Answering
    BY <2>1, <2>4, <2>5
  <2> QED
    BY <2>2, <2>6, TellsStays
<1>8. ASSUME PageUnchanged, NEW p \in Pairs, NEW x \in PairPrices[p], NEW t \in 1..MaxTime, Trade(p, x, t)
      PROVE  RingsTell' /\ AnswersTell'
  BY <1>8, TellsTrade
<1>9. ASSUME PageUnchanged, (\E p \in Pairs : BookMoves(p)) \/ ClockStepsBack
      PROVE  RingsTell' /\ AnswersTell'
  <2>1. TeeTypes
    BY DEF Types
  <2>2. tee'.rings = tee.rings /\ tee'.trades = tee.trades /\ tee'.restarts = tee.restarts
    BY <1>9, <2>1, BookMovesParts, ClockStepsBackParts
  <2>3. books' = books /\ candles' = candles /\ inflight' = inflight
    BY <1>9 DEF PageUnchanged
  <2> QED
    BY <1>1, <2>2, <2>3
<1>10. ASSUME PageUnchanged, TeeRestarts PROVE RingsTell' /\ AnswersTell'
  <2>1. TeeTypes
    BY DEF Types
  <2>2. /\ tee'.restarts = TRUE
        /\ \A p \in Pairs : /\ tee'.trades[p] = <<>>
                            /\ \A tf \in Timeframes : tee'.rings[p][tf] = <<>>
    BY <1>10, <2>1, TeeRestartsParts
  <2>3. AnswersTell'
    BY <2>2, Zenon DEF AnswersTell
  <2>4. TradesOf(<<>>) = 0 /\ Len(<<>>) = 0
    <3>1. <<>> \in Seq(ServerCandle)
      OBVIOUS
    <3> QED
      BY <3>1, CountParts
  <2>5. RingTells(<<>>, <<>>)
    BY <2>4 DEF RingTells
  <2>6. RingsTell'
    BY <2>2, <2>5 DEF RingsTell
  <2> QED
    BY <2>3, <2>6
<1> QED
  BY <1>2, <1>3, <1>4, <1>5, <1>6, <1>7, <1>8, <1>9, <1>10, StepKinds

\* Where the tape and the chart know the same trades, and none was dropped, the tape's
\* newest is the last bar's close.
LEMMA TapeMeets ==
  ASSUME MarketDataAssumption, MarketPageAssumption, Types, CandlesFit, RingsTell, AnswersTell
  PROVE  TapeMeetsChart
<1> SUFFICES ASSUME ~tee.back, ~tee.restarts, candles[page.pair][page.tf] # NoAnswer,
                    books[page.pair] # NoAnswer, Bars # <<>>,
                    NothingDropped(page.pair, page.tf),
                    Len(tee.rings[page.pair][page.tf]) <= CandleLimit,
                    TradesIn(candles[page.pair][page.tf].candles,
                             DOMAIN candles[page.pair][page.tf].candles)
                      = books[page.pair].known
             PROVE  /\ Bars[Len(Bars)].close = Tape[1].price
                    /\ Stats.last2 = 2 * Bars[Len(Bars)].close
  BY Zenon DEF TapeMeetsChart
<1>1. PICK p, tf, ring, all, cs, k, ts, b, now :
        /\ p = page.pair /\ tf = page.tf /\ ring = tee.rings[p][tf] /\ all = tee.trades[p]
        /\ cs = Cached(candles, p, tf) /\ k = books[p].known /\ ts = ShownTrades(books, p)
        /\ b = Bars /\ now = tee.clock
  OBVIOUS
<1>2. p \in Pairs /\ tf \in Timeframes /\ tf \in Nat \ {0}
  BY <1>1, TimeframeType DEF Types, PageTypes, PageType
<1>3. ring \in Seq(ServerCandle) /\ all \in Seq(PairPrices[p]) /\ PairPrices[p] \subseteq Nat \ {0}
  <2>1. TeeTypes
    BY DEF Types
  <2>2. tee.trades[p] \in Seq(PairPrices[p]) /\ tee.rings[p] \in [Timeframes -> Seq(ServerCandle)]
    BY <1>2, <2>1 DEF TeeTypes
  <2>3. ring \in Seq(ServerCandle) /\ all \in Seq(PairPrices[p])
    BY <1>1, <1>2, <2>2
  <2>4. PairPrices[p] \subseteq Nat \ {0}
    BY <1>2, Zenon DEF MarketPageAssumption
  <2> QED
    BY <2>3, <2>4, Zenon
<1>4. ts \in Seq(PairPrices[p]) /\ k = KnownOf(books, p)
  BY <1>1, <1>2, ShownOfPair DEF Types, KnownOf
<1>5. Knew(all, k, ts) /\ Tells(cs, ring, all)
  BY <1>1, <1>2, <1>4, Zenon DEF AnswersTell
<1>6. Fits(cs, tf) /\ b = BarsOf(candles, p, tf)
  BY <1>1, <1>2 DEF CandlesFit, Bars
<1>7. Chain(cs, tf) /\ Ascending(cs, now)
  BY <1>1, <1>6 DEF Fits
<1>8. (b = <<>> <=> cs = <<>>) /\ (cs # <<>> => b[Len(b)].close = cs[Len(cs)].close)
  <2>1. Chain(Cached(candles, p, tf), tf) /\ Ascending(Cached(candles, p, tf), now)
    BY <1>1, <1>7, Zenon
  <2>2. /\ BarsOf(candles, p, tf) = <<>> <=> Cached(candles, p, tf) = <<>>
        /\ \A at : Ascending(Cached(candles, p, tf), at) =>
             (Cached(candles, p, tf) # <<>> =>
                BarsOf(candles, p, tf)[Len(BarsOf(candles, p, tf))].close
                  = Cached(candles, p, tf)[Len(Cached(candles, p, tf))].close)
    BY <1>2, <2>1, BarsOfFits
  <2>3. Cached(candles, p, tf) # <<>> =>
          BarsOf(candles, p, tf)[Len(BarsOf(candles, p, tf))].close
            = Cached(candles, p, tf)[Len(Cached(candles, p, tf))].close
    BY <2>1, <2>2, Zenon
  <2>4. cs = Cached(candles, p, tf) /\ b = BarsOf(candles, p, tf)
    BY <1>1, <1>6, Zenon
  <2> QED
    BY <2>2, <2>3, <2>4, Zenon
<1>9. cs = candles[p][tf].candles /\ TradesOf(ring) = Len(all) /\ TradesOf(cs) = k
  <2>1. cs = candles[p][tf].candles
    BY <1>1 DEF Cached
  <2> QED
    BY <1>1, <2>1 DEF NothingDropped, TradesOf
<1>10. cs # <<>> /\ b # <<>>
  BY <1>1, <1>8
<1>11. k > 0 /\ cs[Len(cs)].close = all[Len(all) - k + 1]
  BY <1>1, <1>5, <1>9, <1>10, Zenon DEF Tells
<1>12. ts # <<>> /\ ts[1] = all[Len(all) - k + 1]
  BY <1>5, <1>11, Zenon DEF Knew
<1>13. b[Len(b)].close = ts[1]
  BY <1>8, <1>10, <1>11, <1>12, Zenon
<1>14. Tape[1].price = ts[1] /\ Stats.last2 = 2 * ts[1]
  <2>1. PICK S, bids, asks : /\ S = PairPrices[p] /\ bids = ShownBook(books, page.pair).bids
                             /\ asks = ShownBook(books, page.pair).asks
    OBVIOUS
  <2>2. S \subseteq Nat /\ ts \in Seq(S)
    BY <1>3, <1>4, <2>1
  <2>3. TapeView(ts)[1].price = ts[1] /\ StatsView(bids, asks, ts).last2 = 2 * ts[1]
    <3>1. TapeView(ts)[1].price = ts[1]
      BY <1>12, <2>2, TapeParts
    <3>2. StatsView(bids, asks, ts).last2 = 2 * ts[1]
      BY <1>12 DEF StatsView
    <3> QED
      BY <3>1, <3>2
  <2>4. Tape = TapeView(ts) /\ Stats = StatsView(bids, asks, ts)
    BY <1>1, <2>1 DEF Tape, Stats
  <2> QED
    BY <2>3, <2>4
<1> QED
  BY <1>1, <1>13, <1>14

\* The parts that speak of the trades, always.
Telling == Types /\ CandlesFit /\ RingsTell /\ AnswersTell

\* They hold of every reachable state.
LEMMA TellingAlways == Spec => []Telling
<1>1. Init => Telling
  BY TypesInit, CandlesFitInit, TellsInit, MarketPageAssumption, MarketDataAssumption DEF Telling
<1>2. Telling /\ [Next]_vars => Telling'
  BY TypesStep, CandlesFitStep, TellsStep, MarketPageAssumption, MarketDataAssumption DEF Telling
<1> QED
  BY <1>1, <1>2, PTL DEF Spec

\* The newest trade of the tape is the close of the newest bar whenever the two answers
\* know the same trades and no candle has been dropped, however far apart they were taken
\* and however many trades the answer's limit cut off.
THEOREM PageTapeMeetsChart == Spec => []TapeMeetsChart
<1>1. Telling => TapeMeetsChart
  BY TapeMeets, MarketPageAssumption, MarketDataAssumption DEF Telling
<1> QED
  BY <1>1, TellingAlways, PTL


-----------------------------------------------------------------------------
(* The timeframes.                                                         *)

\* The places in P of one ring are those in Q of another, d places further on.
Places(fine, P, r, Q, d) ==
  /\ P \subseteq 1..Len(fine) /\ Q \subseteq 1..Len(r) /\ d \in Nat
  /\ P = {k + d : k \in Q} /\ \A k \in Q : r[k] = fine[k + d]

\* The table of the trades of some candles of a ring.
LEMMA PartsType ==
  ASSUME NEW cs \in Seq(ServerCandle), NEW P, P \subseteq 1..Len(cs)
  PROVE  /\ IsFiniteSet(P) /\ P \subseteq Nat
         /\ [k \in P |-> cs[k].trades] \in [P -> Nat]
         /\ TradesIn(cs, P) = Total([k \in P |-> cs[k].trades])
<1>1. IsFiniteSet(1..Len(cs)) /\ \A k \in 1..Len(cs) : cs[k].trades \in Nat \ {0}
  BY CountType
<1>2. IsFiniteSet(P)
  BY <1>1, FS_Subset
<1>3. \A k \in P : cs[k].trades \in Nat
  BY <1>1
<1>4. P \subseteq Nat
  OBVIOUS
<1> QED
  BY <1>2, <1>3, <1>4 DEF TradesIn

\* They stand for the same trades, ...
LEMMA PlacesCount ==
  ASSUME NEW fine \in Seq(ServerCandle), NEW r \in Seq(ServerCandle), NEW P, NEW Q, NEW d,
         Places(fine, P, r, Q, d)
  PROVE  TradesIn(fine, P) = TradesIn(r, Q)
<1>1. P \subseteq 1..Len(fine) /\ Q \subseteq 1..Len(r)
  BY DEF Places
<1>2. PICK f, g : f = [k \in P |-> fine[k].trades] /\ g = [k \in Q |-> r[k].trades]
  OBVIOUS
<1>3. /\ f \in [P -> Nat] /\ TradesIn(fine, P) = Total(f)
      /\ IsFiniteSet(Q) /\ Q \subseteq Nat /\ TradesIn(r, Q) = Total(g)
  BY <1>1, <1>2, PartsType
<1>4. g = [k \in Q |-> f[k + d]]
  <2>1. \A k \in Q : k + d \in P /\ r[k] = fine[k + d]
    BY DEF Places
  <2> QED
    BY <1>2, <2>1
<1>5. Shifted(g, Q, f, P, d)
  BY <1>3, <1>4 DEF Shifted, Places
<1>6. Total(g) = Total(f)
  BY <1>3, <1>5, TotalShifted
<1> QED
  BY <1>3, <1>6, Zenon

\* ... and what was their merge is that still.
LEMMA MergedShifted ==
  ASSUME NEW fine \in Seq(ServerCandle), NEW r \in Seq(ServerCandle), NEW P, NEW Q, NEW d,
         Places(fine, P, r, Q, d), NEW e, Merged(e, fine, P)
  PROVE  Merged(e, r, Q)
<1>1. /\ Q \subseteq Nat /\ d \in Nat /\ P = {k + d : k \in Q} /\ \A k \in Q : r[k] = fine[k + d]
  BY DEF Places
<1>2. ASSUME NEW k \in P PROVE \E l \in Q : k = l + d /\ r[l] = fine[k]
  BY <1>1
<1>3. \A j \in Q : j + d \in P
  BY <1>1
<1>4. \E k \in Q : e.open = r[k].open /\ \A j \in Q : k <= j
  <2>1. PICK k \in P : e.open = fine[k].open /\ \A j \in P : k <= j
    BY DEF Merged
  <2>2. PICK l \in Q : k = l + d /\ r[l] = fine[k]
    BY <1>2
  <2>3. ASSUME NEW j \in Q PROVE l <= j
    <3>1. l + d <= j + d
      BY <1>3, <2>1, <2>2
    <3>2. j \in Nat /\ l \in Nat /\ d \in Nat
      BY <1>1
    <3> QED
      BY <3>1, <3>2
  <2> QED
    BY <2>1, <2>2, <2>3
<1>5. \E k \in Q : e.close = r[k].close /\ \A j \in Q : j <= k
  <2>1. PICK k \in P : e.close = fine[k].close /\ \A j \in P : j <= k
    BY DEF Merged
  <2>2. PICK l \in Q : k = l + d /\ r[l] = fine[k]
    BY <1>2
  <2>3. ASSUME NEW j \in Q PROVE j <= l
    <3>1. j + d <= l + d
      BY <1>3, <2>1, <2>2
    <3>2. j \in Nat /\ l \in Nat /\ d \in Nat
      BY <1>1
    <3> QED
      BY <3>1, <3>2
  <2> QED
    BY <2>1, <2>2, <2>3
<1>6. (\E k \in Q : e.high = r[k].high) /\ (\E k \in Q : e.low = r[k].low)
  <2>1. (\E k \in P : e.high = fine[k].high) /\ (\E k \in P : e.low = fine[k].low)
    BY DEF Merged
  <2> QED
    BY <1>2, <2>1
<1>7. \A k \in Q : e.low <= r[k].low /\ r[k].high <= e.high
  <2>1. \A k \in P : e.low <= fine[k].low /\ fine[k].high <= e.high
    BY DEF Merged
  <2> QED
    BY <1>1, <1>3, <2>1
<1>8. e.trades = TradesIn(r, Q)
  BY PlacesCount DEF Merged
<1> QED
  BY <1>4, <1>5, <1>6, <1>7, <1>8 DEF Merged

\* Numbers in order.
LEMMA Between ==
  ASSUME NEW a \in Nat, NEW b \in Nat, NEW c \in Nat, a <= b, b <= c
  PROVE  a <= c
OBVIOUS

\* All places but the last.
LEMMA ButTheLast ==
  ASSUME NEW m \in Nat
  PROVE  \A k : k \in 1..(m - 1) <=> k \in 1..m /\ k # m
<1>1. \A k \in 1..(m - 1) : k \in 1..m /\ k # m
  OBVIOUS
<1>2. ASSUME NEW k \in 1..m, k # m PROVE k \in 1..(m - 1)
  BY <1>2
<1> QED
  BY <1>1, <1>2, Zenon

\* Of two heights of which one bounds the other, both raised to take a price, ...
LEMMA Raised ==
  ASSUME NEW a \in Nat, NEW b \in Nat, NEW x \in Nat, NEW h, NEW l, b <= a,
         h \in {a, x}, a <= h, x <= h, l \in {b, x}, b <= l, x <= l
  PROVE  l <= h /\ (h = x => l = x) /\ (h = a /\ a = b => l = b)
OBVIOUS

\* ... and of two depths.
LEMMA Lowered ==
  ASSUME NEW a \in Nat, NEW b \in Nat, NEW x \in Nat, NEW h, NEW l, a <= b,
         h \in {a, x}, h <= a, h <= x, l \in {b, x}, l <= b, l <= x
  PROVE  h <= l /\ (h = x => l = x) /\ (h = a /\ a = b => l = b)
OBVIOUS

\* The last candle of an interval and the coarse one take a trade both.
LEMMA MergedExtended ==
  ASSUME NEW fine \in Seq(ServerCandle), NEW r \in Seq(ServerCandle), NEW P, P \subseteq 1..Len(fine),
         Len(fine) \in P, NEW g, NEW x \in Nat, Traded(g, fine[Len(fine)], x), Extended(r, fine, g),
         NEW e \in ServerCandle, Merged(e, fine, P), NEW e2, Traded(e2, e, x)
  PROVE  Merged(e2, r, P)
<1>1. PICK n, last : n = Len(fine) /\ last = fine[n]
  OBVIOUS
<1>2. /\ n \in P /\ n \in Nat /\ P \subseteq 1..n
      /\ \A k \in P : fine[k] \in ServerCandle /\ r[k] = IF k = n THEN g ELSE fine[k]
  <2>1. n \in P /\ n \in Nat /\ P \subseteq 1..n
    BY <1>1
  <2>2. \A k \in 1..n : fine[k] \in ServerCandle
    BY <1>1, ElementOfSeq
  <2>3. \A k \in 1..n : r[k] = IF k = n THEN g ELSE fine[k]
    BY <1>1 DEF Extended
  <2> QED
    BY <2>1, <2>2, <2>3
<1>3. /\ g \in ServerCandle /\ g.open = last.open /\ g.close = x /\ g.trades = last.trades + 1
      /\ g.high \in {last.high, x} /\ last.high <= g.high /\ x <= g.high
      /\ g.low \in {last.low, x} /\ g.low <= last.low /\ g.low <= x
  BY <1>1 DEF Traded
<1>4. /\ e2.open = e.open /\ e2.close = x /\ e2.trades = e.trades + 1
      /\ e2.high \in {e.high, x} /\ e.high <= e2.high /\ x <= e2.high
      /\ e2.low \in {e.low, x} /\ e2.low <= e.low /\ e2.low <= x /\ e2 \in ServerCandle
  BY DEF Traded
<1>5. /\ e.high \in Nat /\ e.low \in Nat /\ e2.high \in Nat /\ e2.low \in Nat
      /\ g.high \in Nat /\ g.low \in Nat
  BY <1>3, <1>4 DEF ServerCandle
<1>6. \A k \in P : fine[k].high \in Nat /\ fine[k].low \in Nat /\ fine[k].trades \in Nat
  BY <1>2 DEF ServerCandle
<1>7. \A k \in P : k # n => r[k] = fine[k]
  BY <1>2
<1>8. r[n] = g
  BY <1>2
<1>9. \A k \in P : e.low <= fine[k].low /\ fine[k].high <= e.high
  BY DEF Merged
<1>10. /\ last.high \in Nat /\ last.low \in Nat /\ e.low <= last.low /\ last.high <= e.high
  BY <1>1, <1>2, <1>6, <1>9
<1>11. /\ g.high <= e2.high /\ (e2.high = x => g.high = x)
       /\ e2.high = e.high /\ e.high = last.high => g.high = last.high
  <2>1. PICK a, d, h, l : a = e.high /\ d = last.high /\ h = e2.high /\ l = g.high
    OBVIOUS
  <2>2. /\ a \in Nat /\ d \in Nat /\ d <= a
        /\ h \in {a, x} /\ a <= h /\ x <= h /\ l \in {d, x} /\ d <= l /\ x <= l
    BY <1>3, <1>4, <1>5, <1>10, <2>1
  <2>3. l <= h /\ (h = x => l = x) /\ (h = a /\ a = d => l = d)
    BY <2>2, Raised
  <2> QED
    BY <2>1, <2>3, Zenon
<1>12. /\ e2.low <= g.low /\ (e2.low = x => g.low = x)
       /\ e2.low = e.low /\ e.low = last.low => g.low = last.low
  <2>1. PICK a, d, h, l : a = e.low /\ d = last.low /\ h = e2.low /\ l = g.low
    OBVIOUS
  <2>2. /\ a \in Nat /\ d \in Nat /\ a <= d
        /\ h \in {a, x} /\ h <= a /\ h <= x /\ l \in {d, x} /\ l <= d /\ l <= x
    BY <1>3, <1>4, <1>5, <1>10, <2>1
  <2>3. h <= l /\ (h = x => l = x) /\ (h = a /\ a = d => l = d)
    BY <2>2, Lowered
  <2> QED
    BY <2>1, <2>3, Zenon
<1>13. \E k \in P : e2.open = r[k].open /\ \A j \in P : k <= j
  <2>1. PICK k \in P : e.open = fine[k].open /\ \A j \in P : k <= j
    BY DEF Merged
  <2>2. r[k].open = fine[k].open
    BY <1>1, <1>3, <1>7, <1>8
  <2> QED
    BY <1>4, <2>1, <2>2
<1>14. \E k \in P : e2.close = r[k].close /\ \A j \in P : j <= k
  <2>1. \A j \in P : j <= n
    BY <1>2
  <2> QED
    BY <1>2, <1>3, <1>4, <1>8, <2>1
<1>15. \E k \in P : e2.high = r[k].high
  <2>1. PICK k \in P : e.high = fine[k].high
    BY DEF Merged
  <2>2. CASE e2.high = e.high /\ k # n
    BY <1>7, <2>1, <2>2
  <2>3. CASE e2.high = e.high /\ k = n
    <3>1. last.high = e.high
      BY <1>1, <2>1, <2>3
    <3>2. g.high = e.high
      BY <1>11, <2>3, <3>1
    <3> QED
      BY <1>2, <1>8, <2>3, <3>2
  <2>4. CASE e2.high = x
    BY <1>2, <1>8, <1>11, <2>4
  <2> QED
    BY <1>4, <2>2, <2>3, <2>4
<1>16. \E k \in P : e2.low = r[k].low
  <2>1. PICK k \in P : e.low = fine[k].low
    BY DEF Merged
  <2>2. CASE e2.low = e.low /\ k # n
    BY <1>7, <2>1, <2>2
  <2>3. CASE e2.low = e.low /\ k = n
    <3>1. last.low = e.low
      BY <1>1, <2>1, <2>3
    <3>2. g.low = e.low
      BY <1>12, <2>3, <3>1
    <3> QED
      BY <1>2, <1>8, <2>3, <3>2
  <2>4. CASE e2.low = x
    BY <1>2, <1>8, <1>12, <2>4
  <2> QED
    BY <1>4, <2>2, <2>3, <2>4
<1>17. ASSUME NEW k \in P PROVE e2.low <= r[k].low /\ r[k].high <= e2.high
  <2>1. CASE k = n
    BY <1>8, <1>11, <1>12, <2>1
  <2>2. CASE k # n
    <3>1. r[k] = fine[k] /\ e.low <= fine[k].low /\ fine[k].high <= e.high
      BY <1>7, <1>9, <2>2
    <3> QED
      BY <1>4, <1>5, <1>6, <3>1
  <2> QED
    BY <2>1, <2>2
<1>18. e2.trades = TradesIn(r, P)
  <2>1. PICK f, h : f = [k \in P |-> fine[k].trades] /\ h = [k \in P |-> r[k].trades]
    OBVIOUS
  <2>2. P \subseteq 1..Len(r)
    BY DEF Extended
  <2>3. /\ IsFiniteSet(P) /\ f \in [P -> Nat] /\ TradesIn(fine, P) = Total(f)
        /\ h \in [P -> Nat] /\ TradesIn(r, P) = Total(h)
    BY <2>1, <2>2, PartsType
  <2>4. \A v \in P \ {n} : h[v] = f[v]
    BY <1>7, <2>1
  <2>5. Total(h) + f[n] = Total(f) + h[n]
    <3>1. n \in P
      BY <1>2
    <3> QED
      BY <2>3, <2>4, <3>1, TotalUpdate
  <2>6. f[n] = last.trades /\ h[n] = last.trades + 1 /\ e.trades = Total(f)
    BY <1>1, <1>2, <1>3, <1>8, <2>1, <2>3 DEF Merged
  <2>7. PICK a, b, u : a = Total(f) /\ b = Total(h) /\ u = last.trades
    OBVIOUS
  <2>8. a \in Nat /\ b \in Nat
    BY <2>3, <2>7, UnitsFinite
  <2>9. u \in Nat
    BY <1>1, <1>2, <1>6, <2>7
  <2>10. b + u = a + (u + 1)
    BY <2>5, <2>6, <2>7, Zenon
  <2>11. b = a + 1
    BY <2>8, <2>9, <2>10
  <2> QED
    BY <1>4, <2>3, <2>6, <2>7, <2>11, Zenon
<1> QED
  BY <1>13, <1>14, <1>15, <1>16, <1>17, <1>18 DEF Merged

\* A coarse candle and the merge it is of, both with the trade that opens a fine candle.
LEMMA MergedAdded ==
  ASSUME NEW r \in Seq(ServerCandle), NEW Q, NEW m \in Nat, m \in 1..Len(r), Q \subseteq 1..(m - 1),
         m - 1 \in Q, NEW x \in Nat, r[m - 1].low <= r[m - 1].close, r[m - 1].close <= r[m - 1].high,
         r[m].open = r[m - 1].close, r[m].close = x, r[m].trades = 1,
         r[m].high \in {r[m].open, x}, r[m].open <= r[m].high, x <= r[m].high,
         r[m].low \in {r[m].open, x}, r[m].low <= r[m].open, r[m].low <= x,
         NEW e \in ServerCandle, Merged(e, r, Q), NEW e2, Traded(e2, e, x)
  PROVE  Merged(e2, r, Q \cup {m})
<1>1. PICK g, last, P : g = r[m] /\ last = r[m - 1] /\ P = Q \cup {m}
  OBVIOUS
<1>2. /\ P \subseteq 1..Len(r) /\ m \in P /\ m \notin Q /\ P \ {m} = Q
      /\ \A k \in Q : k \in P /\ k <= m
      /\ \A k \in P : k <= m /\ (k = m \/ k \in Q)
  BY <1>1
<1>3. \A k \in P : r[k].high \in Nat /\ r[k].low \in Nat /\ r[k].close \in Nat /\ r[k].trades \in Nat
  <2>1. \A k \in P : r[k] \in ServerCandle
    BY <1>2, ElementOfSeq
  <2> QED
    BY <2>1 DEF ServerCandle
<1>4. /\ e2.open = e.open /\ e2.close = x /\ e2.trades = e.trades + 1
      /\ e2.high \in {e.high, x} /\ e.high <= e2.high /\ x <= e2.high
      /\ e2.low \in {e.low, x} /\ e2.low <= e.low /\ e2.low <= x /\ e2 \in ServerCandle
  BY DEF Traded
<1>5. e.high \in Nat /\ e.low \in Nat /\ e2.high \in Nat /\ e2.low \in Nat
  BY <1>4 DEF ServerCandle
<1>6. \A k \in Q : e.low <= r[k].low /\ r[k].high <= e.high
  BY DEF Merged
<1>7. last.close \in Nat /\ last.close <= e.high /\ e.low <= last.close
  <2>1. /\ e.low <= last.low /\ last.low <= last.close
        /\ last.close <= last.high /\ last.high <= e.high
    BY <1>1, <1>6
  <2>2. last.low \in Nat /\ last.close \in Nat /\ last.high \in Nat
    BY <1>1, <1>2, <1>3
  <2>3. last.close <= e.high
    BY <1>5, <2>1, <2>2, Between
  <2>4. e.low <= last.close
    BY <1>5, <2>1, <2>2, Between
  <2> QED
    BY <2>2, <2>3, <2>4
<1>8. /\ g.high \in {last.close, x} /\ last.close <= g.high /\ x <= g.high
      /\ g.low \in {last.close, x} /\ g.low <= last.close /\ g.low <= x
  BY <1>1
<1>9. g.high <= e2.high /\ (e2.high = x => g.high = x)
  BY <1>4, <1>5, <1>7, <1>8, Raised
<1>10. e2.low <= g.low /\ (e2.low = x => g.low = x)
  BY <1>4, <1>5, <1>7, <1>8, Lowered
<1>11. \E k \in P : e2.open = r[k].open /\ \A j \in P : k <= j
  <2>1. PICK k \in Q : e.open = r[k].open /\ \A j \in Q : k <= j
    BY DEF Merged
  <2>2. \A j \in P : k <= j
    BY <1>2, <2>1
  <2> QED
    BY <1>2, <1>4, <2>1, <2>2
<1>12. \E k \in P : e2.close = r[k].close /\ \A j \in P : j <= k
  BY <1>2, <1>4
<1>13. \E k \in P : e2.high = r[k].high
  <2>1. PICK k \in Q : e.high = r[k].high
    BY DEF Merged
  <2> QED
    BY <1>1, <1>2, <1>4, <1>9, <2>1
<1>14. \E k \in P : e2.low = r[k].low
  <2>1. PICK k \in Q : e.low = r[k].low
    BY DEF Merged
  <2> QED
    BY <1>1, <1>2, <1>4, <1>10, <2>1
<1>15. ASSUME NEW k \in P PROVE e2.low <= r[k].low /\ r[k].high <= e2.high
  <2>1. CASE k = m
    BY <1>1, <1>9, <1>10, <2>1
  <2>2. CASE k # m
    <3>1. e.low <= r[k].low /\ r[k].high <= e.high /\ r[k].low \in Nat /\ r[k].high \in Nat
      BY <1>2, <1>3, <1>6, <2>2
    <3>2. e2.low <= e.low /\ e.high <= e2.high
      BY <1>4
    <3>3. e2.low <= r[k].low
      BY <1>5, <3>1, <3>2, Between
    <3>4. r[k].high <= e2.high
      BY <1>5, <3>1, <3>2, Between
    <3> QED
      BY <3>3, <3>4
  <2> QED
    BY <2>1, <2>2
<1>16. e2.trades = TradesIn(r, P)
  <2>1. PICK f, h : f = [k \in P |-> r[k].trades] /\ h = [k \in Q |-> r[k].trades]
    OBVIOUS
  <2>2. Q \subseteq 1..Len(r)
    BY <1>2
  <2>3. /\ IsFiniteSet(P) /\ f \in [P -> Nat] /\ TradesIn(r, P) = Total(f)
        /\ TradesIn(r, Q) = Total(h)
    BY <1>2, <2>1, <2>2, PartsType
  <2>4. m \in P
    BY <1>2
  <2>5. Total(f) = Total([v \in P \ {m} |-> f[v]]) + f[m]
    BY <2>3, <2>4, TotalRemove
  <2>6. [v \in P \ {m} |-> f[v]] = h
    BY <1>2, <2>1
  <2>7. f[m] = 1
    BY <2>1, <2>4
  <2>8. e.trades = Total(h)
    BY <2>3 DEF Merged
  <2>9. Total(f) = e.trades + 1
    BY <2>5, <2>6, <2>7, <2>8
  <2> QED
    BY <1>4, <2>3, <2>9, Zenon
<1>17. Merged(e2, r, P)
  BY <1>11, <1>12, <1>13, <1>14, <1>15, <1>16 DEF Merged
<1> QED
  BY <1>1, <1>17, Zenon

\* A coarse candle and a fine one that one trade opens at one price.
LEMMA MergedAlone ==
  ASSUME NEW r \in Seq(ServerCandle), NEW m, m \in 1..Len(r), NEW ring, NEW other, NEW t, NEW u,
         NEW x \in Nat, NewCandle(r[m], ring, t, x), NEW e, NewCandle(e, other, u, x),
         e.open = r[m].open
  PROVE  Merged(e, r, {m})
<1>1. PICK g, o : g = r[m] /\ o = g.open
  OBVIOUS
<1>2. /\ g \in ServerCandle /\ g.open = o /\ g.close = x /\ g.trades = 1
      /\ g.high \in {o, x} /\ o <= g.high /\ x <= g.high
      /\ g.low \in {o, x} /\ g.low <= o /\ g.low <= x
  BY <1>1 DEF NewCandle
<1>3. /\ e \in ServerCandle /\ e.open = o /\ e.close = x /\ e.trades = 1
      /\ e.high \in {o, x} /\ o <= e.high /\ x <= e.high
      /\ e.low \in {o, x} /\ e.low <= o /\ e.low <= x
  BY <1>1 DEF NewCandle
<1>4. o \in Nat
  BY <1>2 DEF ServerCandle
<1>5. e.high = g.high /\ e.low = g.low /\ e.high \in Nat /\ e.low \in Nat
  BY <1>2, <1>3, <1>4
<1>6. TradesIn(r, {m}) = 1
  <2>1. PICK S, f, h : /\ S = {m} /\ f = [k \in S |-> r[k].trades]
                       /\ h = [v \in S \ {m} |-> f[v]]
    OBVIOUS
  <2>2. S \subseteq 1..Len(r)
    BY <2>1
  <2>3. IsFiniteSet(S) /\ f \in [S -> Nat] /\ TradesIn(r, S) = Total(f)
    BY <2>1, <2>2, PartsType
  <2>4. m \in S /\ f[m] = 1 /\ DOMAIN h = {}
    BY <1>1, <1>2, <2>1
  <2>5. Total(f) = Total([v \in S \ {m} |-> f[v]]) + f[m]
    BY <2>3, <2>4, TotalRemove, Zenon
  <2>7. Total(f) = Total(h) + f[m]
    BY <2>1, <2>5, Zenon
  <2>6. Total(h) = 0
    BY <2>4, TotalEmpty
  <2> QED
    BY <2>1, <2>3, <2>4, <2>6, <2>7
<1>7. m \in Nat /\ m <= m
  OBVIOUS
<1>8. /\ \E k \in {m} : e.open = r[k].open /\ \A j \in {m} : k <= j
      /\ \E k \in {m} : e.close = r[k].close /\ \A j \in {m} : j <= k
  BY <1>1, <1>2, <1>3, <1>7
<1>9. /\ \E k \in {m} : e.high = r[k].high
      /\ \E k \in {m} : e.low = r[k].low
      /\ \A k \in {m} : e.low <= r[k].low /\ r[k].high <= e.high
  BY <1>1, <1>5
<1> QED
  BY <1>3, <1>6, <1>8, <1>9 DEF Merged

\* The candles of an interval before a candle opened are those after it but the new one:
\* the ring holds them all still, if it does afterwards.
LEMMA OpenedPlaces ==
  ASSUME MarketDataAssumption, NEW c \in Nat \ {0}, NEW fine \in Seq(ServerCandle),
         NEW r \in Seq(ServerCandle), NEW now, Ascending(fine, now), NEW e, NEW d, NEW t,
         NEW S, NEW all \in Seq(S), NEW x \in S, RingTells(fine, all),
         NewCandle(e, fine, t, x), Opened(r, fine, e, d), NEW b,
         Whole(PartsOf(r, b, c), r, <<x>> \o all),
         PartsOf(r, b, c) \ {Len(r)} # {} \/ Len(fine) \in PartsOf(fine, b, c)
  PROVE  /\ Places(fine, PartsOf(fine, b, c), r, PartsOf(r, b, c) \ {Len(r)}, d)
         /\ Whole(PartsOf(fine, b, c), fine, all)
<1>1. PICK n, m, P, R, Q, rest :
        /\ n = Len(fine) /\ m = Len(r) /\ P = PartsOf(fine, b, c) /\ R = PartsOf(r, b, c)
        /\ Q = R \ {m} /\ rest = <<x>> \o all
  OBVIOUS
<1>2. /\ n \in Nat /\ m \in Nat /\ \A i \in 1..n : fine[i].openTime \in Nat
      /\ RingSize \in Nat /\ RingSize > 1
  <2>1. RingSize \in Nat /\ RingSize > 1
    BY DEF MarketDataAssumption
  <2>2. n \in Nat /\ \A i \in 1..n : fine[i].openTime \in Nat
    BY <1>1, CandleTimes
  <2>3. m \in Nat
    BY <1>1, CandleTimes
  <2> QED
    BY <2>1, <2>2, <2>3
<1>3. /\ d \in {0, 1} /\ (d = 1 => n + 1 > RingSize) /\ m = n + 1 - d
      /\ \A i \in 1..m : r[i] = IF i = m THEN e ELSE fine[i + d]
  BY <1>1 DEF Opened
<1>4. \A k : k \in Q <=> k \in 1..(m - 1) /\ k + d \in P
  <2>1. ASSUME NEW k \in 1..m, k # m PROVE k \in R <=> k + d \in P
    <3>1. k \in Nat /\ 1 <= k /\ k <= m /\ d \in Nat /\ m = n + 1 - d
      BY <1>2, <1>3
    <3>2. k + d \in 1..n
      BY <1>2, <2>1, <3>1
    <3>3. r[k] = fine[k + d]
      BY <1>3, <2>1, Zenon
    <3> QED
      BY <1>1, <3>2, <3>3 DEF PartsOf
  <2>2. \A k \in R : k \in 1..m
    BY <1>1 DEF PartsOf
  <2>3. \A k : k \in 1..(m - 1) <=> k \in 1..m /\ k # m
    <3>1. m \in Nat
      BY <1>2
    <3> QED
      BY <3>1, ButTheLast, Zenon
  <2>4. \A k : k \in Q <=> k \in R /\ k # m
    BY <1>1
  <2> QED
    BY <2>1, <2>2, <2>3, <2>4, Zenon
<1>5. P \subseteq 1..n /\ Q \subseteq 1..m /\ R \subseteq 1..m /\ Q \subseteq R
  BY <1>1 DEF PartsOf
<1>6. Len(rest) = Len(all) + 1 /\ Len(all) \in Nat
  BY <1>1, Prepended
<1>7. /\ TradesOf(r) \in Nat /\ TradesOf(fine) \in Nat /\ TradesOf(fine) <= Len(all)
      /\ TradesOf(r) <= TradesOf(fine) + 1 /\ (d = 1 => TradesOf(r) <= TradesOf(fine))
  BY CountParts, OpenedCount DEF RingTells
<1>8. 1 \notin R \/ TradesOf(r) = Len(rest)
  BY <1>1 DEF Whole
<1>9. PICK u, v, w : u = TradesOf(r) /\ v = TradesOf(fine) /\ w = Len(all)
  OBVIOUS
<1>10. /\ u \in Nat /\ v \in Nat /\ w \in Nat /\ v <= w /\ u <= v + 1 /\ (d = 1 => u <= v)
       /\ 1 \notin R \/ u = w + 1
  BY <1>1, <1>6, <1>7, <1>8, <1>9
<1>11. ASSUME d = 1 PROVE 1 \notin P
  <2> SUFFICES ASSUME 1 \in P PROVE FALSE
    OBVIOUS
  <2>1. 1 \notin R /\ n > 1 /\ m = n
    BY <1>2, <1>3, <1>10, <1>11
  <2>2. 2 \notin P
    <3>1. 1 \in 1..(m - 1) /\ 1 + d = 2 /\ 1 \notin Q
      BY <1>2, <1>5, <1>11, <2>1
    <3> QED
      BY <1>4, <3>1
  <2>3. PICK j \in P : j > 2
    <3>1. CASE Q # {}
      <4>1. PICK k : k \in Q
        BY <3>1
      <4>2. k \in 1..(m - 1) /\ k + 1 \in P
        BY <1>4, <1>11, <4>1
      <4>3. k # 1
        BY <2>2, <4>2
      <4>4. k + 1 > 2
        BY <1>2, <4>2, <4>3
      <4> QED
        BY <4>2, <4>4
    <3>2. CASE n \in P
      <4>1. n # 2
        BY <2>2, <3>2
      <4>2. n > 2
        BY <1>2, <2>1, <4>1
      <4> QED
        BY <3>2, <4>2
    <3> QED
      BY <1>1, <3>1, <3>2
  <2>4. j \in 1..n /\ 1 \in 1..n /\ 2 \in 1..n /\ 1 < 2 /\ 2 < j
    BY <1>2, <1>5, <2>1, <2>3
  <2>5. fine[1].openTime < fine[2].openTime /\ fine[2].openTime < fine[j].openTime
    BY <1>1, <2>4 DEF Ascending
  <2>6. PICK a1, a2, a3 : a1 = fine[1].openTime /\ a2 = fine[2].openTime /\ a3 = fine[j].openTime
    OBVIOUS
  <2>7. a1 \in Nat /\ a2 \in Nat /\ a3 \in Nat /\ a1 <= a2 /\ a2 <= a3
    <3>1. a1 \in Nat /\ a2 \in Nat /\ a3 \in Nat
      BY <1>2, <2>4, <2>6, Zenon
    <3>2. a1 < a2 /\ a2 < a3
      BY <2>5, <2>6, Zenon
    <3> QED
      BY <3>1, <3>2
  <2>8. Bucket(a1, c) <= Bucket(a2, c) /\ Bucket(a2, c) <= Bucket(a3, c)
    BY <2>7, BucketMonotone
  <2>9. Bucket(a1, c) = b /\ Bucket(a3, c) = b
    BY <1>1, <2>3, <2>6 DEF PartsOf
  <2>10. Bucket(a2, c) \in Nat /\ Bucket(a1, c) \in Nat
    BY <2>7, BucketParts
  <2>11. Bucket(a2, c) = b
    BY <2>8, <2>9, <2>10
  <2> QED
    BY <1>1, <2>2, <2>4, <2>6, <2>11 DEF PartsOf
<1>12. P = {k + d : k \in Q}
  <2>1. ASSUME NEW j \in P PROVE \E k \in Q : j = k + d
    <3>1. PICK k : k = j - d
      OBVIOUS
    <3>2. j \in 1..n /\ (d = 1 => j # 1)
      BY <1>5, <1>11
    <3>3. k \in 1..(m - 1) /\ j = k + d
      BY <1>2, <1>3, <3>1, <3>2
    <3> QED
      BY <1>4, <3>3
  <2>2. \A k \in Q : k + d \in P
    BY <1>4
  <2> QED
    BY <2>1, <2>2
<1>13. \A k \in Q : r[k] = fine[k + d]
  <2> SUFFICES ASSUME NEW k \in Q PROVE r[k] = fine[k + d]
    OBVIOUS
  <2>1. k \in 1..m /\ k # m
    BY <1>1, <1>5
  <2> QED
    BY <1>3, <2>1
<1>14. Places(fine, P, r, Q, d)
  <2>1. d \in Nat
    BY <1>3
  <2> QED
    BY <1>1, <1>5, <1>12, <1>13, <2>1 DEF Places
<1>15. P # {}
  BY <1>1, <1>4
<1>16. 1 \notin P \/ v = w
  <2>1. CASE d = 1
    BY <1>11, <2>1
  <2>2. CASE d = 0
    <3>1. CASE u = w + 1
      BY <1>10, <3>1
    <3>2. CASE 1 \notin R
      <4>1. \A j \in P : j # 1
        <5> SUFFICES ASSUME NEW j \in P, j = 1 PROVE FALSE
          OBVIOUS
        <5>1. PICK k \in Q : j = k + d
          BY <1>12
        <5>2. k = 1
          BY <1>5, <2>2, <5>1
        <5> QED
          BY <1>5, <3>2, <5>2
      <4> QED
        BY <4>1
    <3> QED
      BY <1>10, <3>1, <3>2
  <2> QED
    BY <1>3, <2>1, <2>2
<1>17. Whole(P, fine, all)
  BY <1>9, <1>15, <1>16 DEF Whole
<1> QED
  BY <1>1, <1>14, <1>17, Zenon

\* With another last candle of the same time the places of the intervals are the same, and
\* the ring held them all if it does now.
LEMMA ExtendedPlaces ==
  ASSUME NEW c, NEW fine \in Seq(ServerCandle), NEW r \in Seq(ServerCandle), NEW g,
         NEW S, NEW all \in Seq(S), NEW x \in S, RingTells(fine, all),
         Traded(g, fine[Len(fine)], x), Extended(r, fine, g), NEW b
  PROVE  /\ PartsOf(r, b, c) = PartsOf(fine, b, c)
         /\ Whole(PartsOf(r, b, c), r, <<x>> \o all) => Whole(PartsOf(fine, b, c), fine, all)
<1>1. PICK n, rest : n = Len(fine) /\ rest = <<x>> \o all
  OBVIOUS
<1>2. n \in Nat /\ Len(r) = n /\ \A i \in 1..n : r[i] = IF i = n THEN g ELSE fine[i]
  BY <1>1 DEF Extended
<1>3. g.openTime = fine[n].openTime /\ g.trades = fine[n].trades + 1
  BY <1>1 DEF Traded
<1>4. \A i \in 1..n : r[i].openTime = fine[i].openTime
  BY <1>2, <1>3
<1>5. PartsOf(r, b, c) = PartsOf(fine, b, c)
  BY <1>1, <1>2, <1>4 DEF PartsOf
<1>6. TradesOf(r) = TradesOf(fine) + 1
  BY <1>1, <1>3, CountExtended
<1>7. Len(rest) = Len(all) + 1 /\ Len(all) \in Nat
  BY <1>1, Prepended
<1>8. TradesOf(fine) \in Nat
  BY CountParts
<1>9. PICK v, w : v = TradesOf(fine) /\ w = Len(all)
  OBVIOUS
<1>10. v \in Nat /\ w \in Nat /\ TradesOf(r) = v + 1 /\ Len(rest) = w + 1
  BY <1>6, <1>7, <1>8, <1>9
<1>11. TradesOf(r) = Len(rest) => v = w
  BY <1>10
<1> QED
  BY <1>1, <1>5, <1>9, <1>11, Zenon DEF Whole

\* Another interval's coarse candle is the merge that it was.
LEMMA FineElsewhere ==
  ASSUME MarketDataAssumption, NEW c \in Nat \ {0}, NEW fine \in Seq(ServerCandle),
         NEW r \in Seq(ServerCandle), NEW now, Ascending(fine, now), NEW t,
         NEW S, NEW all \in Seq(S), NEW x \in S, RingTells(fine, all), Rolled(r, fine, t, x),
         NEW b, b # Bucket(t, c), Whole(PartsOf(r, b, c), r, <<x>> \o all), NEW e,
         Whole(PartsOf(fine, b, c), fine, all) => Merged(e, fine, PartsOf(fine, b, c))
  PROVE  Merged(e, r, PartsOf(r, b, c))
<1>1. PICK n, m, P, R : /\ n = Len(fine) /\ P = PartsOf(fine, b, c)
                        /\ m = Len(r) /\ R = PartsOf(r, b, c)
  OBVIOUS
<1>2. n \in Nat /\ m \in Nat
  BY <1>1
<1>3. r[m].openTime = t /\ m \notin R
  <2>1. r[m].openTime = t
    BY <1>1, RolledLast
  <2> QED
    BY <1>1, <2>1 DEF PartsOf
<1>4. R # {} /\ R \ {m} = R
  BY <1>1, <1>3 DEF Whole
<1>5. ASSUME NEW g, NEW d, NewCandle(g, fine, t, x), Opened(r, fine, g, d)
      PROVE  Merged(e, r, R)
  <2>1. PartsOf(r, b, c) \ {Len(r)} # {}
    BY <1>1, <1>4, Zenon
  <2>2. /\ Places(fine, PartsOf(fine, b, c), r, PartsOf(r, b, c) \ {Len(r)}, d)
        /\ Whole(PartsOf(fine, b, c), fine, all)
    BY <1>5, <2>1, OpenedPlaces
  <2>3. Places(fine, P, r, R, d) /\ Merged(e, fine, P)
    BY <1>1, <1>4, <2>2, Zenon
  <2> QED
    BY <2>3, MergedShifted
<1>6. ASSUME NEW g, fine[n].openTime = t, Traded(g, fine[n], x), Extended(r, fine, g)
      PROVE  Merged(e, r, R)
  <2>1. R = P /\ Whole(P, fine, all)
    BY <1>1, <1>6, ExtendedPlaces
  <2>2. Merged(e, fine, P)
    BY <1>1, <2>1, Zenon
  <2>3. Places(fine, P, r, P, 0)
    <3>1. m = n /\ \A i \in 1..n : i # n => r[i] = fine[i]
      BY <1>1, <1>6 DEF Extended
    <3>2. P \subseteq 1..n /\ n \notin P
      BY <1>1, <1>3, <2>1, <3>1 DEF PartsOf
    <3>3. \A k \in P : k \in Nat /\ k + 0 = k /\ r[k] = fine[k]
      BY <3>1, <3>2
    <3>4. P = {k + 0 : k \in P}
      BY <3>3
    <3> QED
      BY <1>1, <3>1, <3>2, <3>3, <3>4 DEF Places
  <2> QED
    BY <2>1, <2>2, <2>3, MergedShifted
<1>7. Merged(e, r, R)
  BY <1>1, <1>5, <1>6 DEF Rolled
<1> QED
  BY <1>1, <1>7, Zenon

\* The coarse candle of the trade's interval takes it, as the fine ones do.
LEMMA FineJoins ==
  ASSUME MarketDataAssumption, NEW c \in Nat \ {0}, NEW f \in Nat \ {0}, NEW fine, Chain(fine, f),
         NEW r \in Seq(ServerCandle), NEW now, Ascending(fine, now), NEW t,
         NEW S, NEW all \in Seq(S), NEW x \in S, x \in Nat, RingTells(fine, all),
         Rolled(r, fine, t, x),
         NEW b, b = Bucket(t, c), Whole(PartsOf(r, b, c), r, <<x>> \o all),
         fine # <<>>, Bucket(fine[Len(fine)].openTime, c) = b, NEW e \in ServerCandle,
         Whole(PartsOf(fine, b, c), fine, all) => Merged(e, fine, PartsOf(fine, b, c)),
         NEW e2, Traded(e2, e, x)
  PROVE  Merged(e2, r, PartsOf(r, b, c))
<1>1. PICK n, m, P, R : /\ n = Len(fine) /\ P = PartsOf(fine, b, c)
                        /\ m = Len(r) /\ R = PartsOf(r, b, c)
  OBVIOUS
<1>2. fine \in Seq(ServerCandle) /\ n \in Nat /\ m \in Nat /\ n \in 1..n
  <2>1. fine \in Seq(ServerCandle)
    BY ChainParts
  <2>2. n \in Nat /\ n \in 1..n
    BY <1>1, <2>1, CandleTimes
  <2> QED
    BY <1>1, <2>1, <2>2
<1>3. n \in P /\ P \subseteq 1..n
  BY <1>1, <1>2 DEF PartsOf
<1>4. fine[n].low <= fine[n].close /\ fine[n].close <= fine[n].high
  BY <1>1, <1>2, ChainParts
<1>5. ASSUME NEW g, NEW d, NewCandle(g, fine, t, x), Opened(r, fine, g, d)
      PROVE  Merged(e2, r, R)
  <2>1. PICK Q : Q = R \ {m}
    OBVIOUS
  <2>2. Len(fine) \in PartsOf(fine, b, c)
    BY <1>1, <1>3, Zenon
  <2>3. /\ Places(fine, PartsOf(fine, b, c), r, PartsOf(r, b, c) \ {Len(r)}, d)
        /\ Whole(PartsOf(fine, b, c), fine, all)
    BY <1>2, <1>5, <2>2, OpenedPlaces
  <2>4. Places(fine, P, r, Q, d) /\ Merged(e, fine, P)
    BY <1>1, <2>1, <2>3, Zenon
  <2>5. Merged(e, r, Q)
    BY <1>2, <2>4, MergedShifted
  <2>6. d \in {0, 1} /\ m = n + 1 - d /\ \A i \in 1..m : r[i] = IF i = m THEN g ELSE fine[i + d]
    BY <1>1, <1>5 DEF Opened
  <2>7. m \in 1..m /\ r[m] = g
    BY <1>2, <2>6
  <2>8. m \in R /\ R = Q \cup {m}
    <3>1. g.openTime = t
      BY <1>5 DEF NewCandle
    <3> QED
      BY <1>1, <2>1, <2>7, <3>1 DEF PartsOf
  <2>9. Q \subseteq 1..(m - 1) /\ m - 1 \in Q /\ r[m - 1] = fine[n]
    <3>1. \A k \in Q : k \in 1..m /\ k # m
      BY <1>1, <2>1 DEF PartsOf
    <3>2. Q \subseteq 1..(m - 1)
      <4>1. m \in Nat
        BY <1>2
      <4> QED
        BY <3>1, <4>1, ButTheLast, Zenon
    <3>3. PICK k \in Q : n = k + d
      BY <1>3, <2>4 DEF Places
    <3>4. k = m - 1
      <4>1. k \in 1..m
        BY <3>1, <3>3, Zenon
      <4>2. d \in {0, 1} /\ m = n + 1 - d
        BY <2>6, Zenon
      <4> QED
        BY <1>2, <3>3, <4>1, <4>2
    <3>5. r[k] = fine[n]
      BY <2>6, <3>1, <3>3
    <3> QED
      BY <3>2, <3>4, <3>5
  <2>10. /\ g.open = fine[n].close /\ g.close = x /\ g.trades = 1
         /\ g.high \in {g.open, x} /\ g.open <= g.high /\ x <= g.high
         /\ g.low \in {g.open, x} /\ g.low <= g.open /\ g.low <= x
    BY <1>1, <1>5 DEF NewCandle
  <2>11. Merged(e2, r, Q \cup {m})
    <3>1. /\ r[m - 1].low <= r[m - 1].close /\ r[m - 1].close <= r[m - 1].high
          /\ r[m].open = r[m - 1].close /\ r[m].close = x /\ r[m].trades = 1
          /\ r[m].high \in {r[m].open, x} /\ r[m].open <= r[m].high /\ x <= r[m].high
          /\ r[m].low \in {r[m].open, x} /\ r[m].low <= r[m].open /\ r[m].low <= x
      BY <1>4, <2>7, <2>9, <2>10
    <3>2. m \in 1..Len(r) /\ Q \subseteq 1..(m - 1) /\ m - 1 \in Q
      BY <1>1, <2>7, <2>9
    <3> QED
      BY <1>2, <2>5, <3>1, <3>2, MergedAdded
  <2> QED
    BY <2>8, <2>11, Zenon
<1>6. ASSUME NEW g, Traded(g, fine[n], x), Extended(r, fine, g)
      PROVE  Merged(e2, r, R)
  <2>1. R = P /\ Whole(P, fine, all)
    BY <1>1, <1>2, <1>6, ExtendedPlaces
  <2>2. Merged(e, fine, P)
    BY <1>1, <2>1, Zenon
  <2>3. Merged(e2, r, P)
    BY <1>1, <1>2, <1>3, <1>6, <2>2, MergedExtended
  <2> QED
    BY <2>1, <2>3, Zenon
<1>7. Merged(e2, r, R)
  BY <1>1, <1>5, <1>6 DEF Rolled
<1> QED
  BY <1>1, <1>7, Zenon

\* One trade opens a coarse candle and the first fine one of its interval.
LEMMA FineOpens ==
  ASSUME MarketDataAssumption, NEW c, NEW fine \in Seq(ServerCandle),
         NEW r \in Seq(ServerCandle), NEW t, NEW x \in Nat, Rolled(r, fine, t, x),
         NEW b, b = Bucket(t, c), \A k \in 1..Len(fine) : Bucket(fine[k].openTime, c) # b,
         NEW coarse, NEW u, NEW e, NewCandle(e, coarse, u, x), fine = <<>> <=> coarse = <<>>,
         fine # <<>> => fine[Len(fine)].close = coarse[Len(coarse)].close
  PROVE  Merged(e, r, PartsOf(r, b, c))
<1>1. PICK n, m, R : n = Len(fine) /\ m = Len(r) /\ R = PartsOf(r, b, c)
  OBVIOUS
<1>2. n \in Nat /\ m \in Nat /\ (fine # <<>> => n \in 1..n)
  BY <1>1, CandleTimes
<1>3. ~(fine # <<>> /\ fine[n].openTime = t)
  BY <1>1, <1>2
<1>4. PICK g, d : NewCandle(g, fine, t, x) /\ Opened(r, fine, g, d)
  BY <1>1, <1>3 DEF Rolled
<1>5. d \in {0, 1} /\ m = n + 1 - d /\ \A i \in 1..m : r[i] = IF i = m THEN g ELSE fine[i + d]
  BY <1>1, <1>4 DEF Opened
<1>6. m \in 1..m /\ r[m] = g /\ g.openTime = t
  <2>1. g.openTime = t
    BY <1>4 DEF NewCandle
  <2>2. m > 0
    BY <1>1, RolledLast
  <2> QED
    BY <1>2, <1>5, <2>1, <2>2
<1>7. R = {m}
  <2>1. m \in R
    BY <1>1, <1>6 DEF PartsOf
  <2>2. ASSUME NEW k \in R, k # m PROVE FALSE
    <3>1. k \in 1..m /\ Bucket(r[k].openTime, c) = b
      BY <1>1 DEF PartsOf
    <3>2. k + d \in 1..n /\ r[k] = fine[k + d]
      BY <1>2, <1>5, <2>2, <3>1
    <3> QED
      BY <1>1, <3>1, <3>2
  <2> QED
    BY <2>1, <2>2
<1>8. e.open = g.open
  BY <1>1, <1>4 DEF NewCandle
<1>9. Merged(e, r, {m})
  <2>1. m \in 1..Len(r) /\ NewCandle(r[m], fine, t, x) /\ e.open = r[m].open
    BY <1>1, <1>4, <1>6, <1>8
  <2> QED
    BY <2>1, MergedAlone
<1> QED
  BY <1>1, <1>7, <1>9, Zenon

\* After a trade the last candles are of one interval, that of the trade.
LEMMA TogetherRolls ==
  ASSUME MarketDataAssumption, NEW f \in Nat \ {0}, NEW c \in Nat \ {0}, c % f = 0,
         NEW fine \in Seq(ServerCandle), NEW r \in Seq(ServerCandle),
         NEW coarse \in Seq(ServerCandle), NEW r2 \in Seq(ServerCandle),
         NEW time \in Nat, NEW x,
         Rolled(r, fine, Bucket(time, f), x), Rolled(r2, coarse, Bucket(time, c), x)
  PROVE  Together(r, r2, c)
<1>1. r # <<>> /\ r[Len(r)].openTime = Bucket(time, f)
  BY RolledLast
<1>2. r2 # <<>> /\ r2[Len(r2)].openTime = Bucket(time, c)
  BY RolledLast
<1>3. Bucket(Bucket(time, f), c) = Bucket(time, c)
  BY BucketOfBucket
<1> QED
  BY <1>1, <1>2, <1>3 DEF Together

\* ... and the two rings agree as they did.
LEMMA AgreeRolls ==
  ASSUME MarketDataAssumption, NEW f \in Nat \ {0}, NEW c \in Nat \ {0}, c % f = 0,
         NEW fine, Chain(fine, f), NEW r \in Seq(ServerCandle),
         NEW coarse, Chain(coarse, c), NEW r2 \in Seq(ServerCandle),
         NEW now \in Nat, Ascending(fine, now), Ascending(coarse, now),
         NEW time \in Nat, now <= time, NEW S, NEW all \in Seq(S), NEW x \in S, x \in Nat \ {0},
         Rolled(r, fine, Bucket(time, f), x), Rolled(r2, coarse, Bucket(time, c), x),
         RingTells(fine, all), RingTells(coarse, all),
         Together(fine, coarse, c), Agree(fine, coarse, all, c)
  PROVE  Agree(r, r2, <<x>> \o all, c)
<1> SUFFICES ASSUME NEW i \in 1..Len(r2),
                    Whole(PartsOf(r, r2[i].openTime, c), r, <<x>> \o all)
             PROVE  Merged(r2[i], r, PartsOf(r, r2[i].openTime, c))
  BY DEF Agree
<1>1. PICK n, m, k, t, b : /\ n = Len(fine) /\ m = Len(coarse) /\ k = Len(r2)
                           /\ t = Bucket(time, f) /\ b = Bucket(time, c)
  OBVIOUS
<1>2. fine \in Seq(ServerCandle) /\ coarse \in Seq(ServerCandle) /\ x \in Nat
  BY ChainParts
<1>3. n \in Nat /\ m \in Nat /\ k \in Nat /\ (fine # <<>> => n \in 1..n) /\ (coarse # <<>> => m \in 1..m)
  <2>1. n \in Nat /\ (fine # <<>> => n \in 1..n)
    BY <1>1, <1>2, CandleTimes
  <2>2. m \in Nat /\ (coarse # <<>> => m \in 1..m)
    BY <1>1, <1>2, CandleTimes
  <2>3. k \in Nat
    BY <1>1, CandleTimes
  <2> QED
    BY <2>1, <2>2, <2>3
<1>4. Bucket(t, c) = b /\ t \in Nat /\ b \in Nat
  <2>1. Bucket(t, c) = b
    BY <1>1, BucketOfBucket
  <2>2. t \in Nat /\ b \in Nat
    BY <1>1, BucketParts
  <2> QED
    BY <2>1, <2>2
<1>5. ASSUME NEW j \in 1..m, r2[i].openTime # b,
             r2[i] = coarse[j]
      PROVE  Merged(r2[i], r, PartsOf(r, r2[i].openTime, c))
  <2>1. PICK e, y : e = coarse[j] /\ y = e.openTime
    OBVIOUS
  <2>2. /\ Whole(PartsOf(r, y, c), r, <<x>> \o all) /\ y # Bucket(t, c)
        /\ r2[i] = e
    BY <1>4, <1>5, <2>1
  <2>3. Whole(PartsOf(fine, y, c), fine, all) => Merged(e, fine, PartsOf(fine, y, c))
    BY <1>1, <2>1 DEF Agree
  <2>4. Merged(e, r, PartsOf(r, y, c))
    BY <1>1, <1>2, <2>2, <2>3, FineElsewhere
  <2> QED
    BY <2>1, <2>2, <2>4, Zenon
<1>6. \A j \in 1..m : coarse[j].openTime \in Nat /\ coarse[j].openTime <= b
  <2>1. \A j \in 1..Len(coarse) : coarse[j].openTime \in Nat
    BY <1>2, CandleTimes
  <2>2. \A j \in 1..Len(coarse) : coarse[j].openTime <= Bucket(time, c)
    BY AscendingBefore
  <2> QED
    BY <1>1, <2>1, <2>2, Zenon
<1>7. CASE coarse # <<>> /\ coarse[m].openTime = b
  <2>1. PICK g : Traded(g, coarse[m], x) /\ Extended(r2, coarse, g)
    BY <1>1, <1>7 DEF Rolled
  <2>2. k = m /\ \A j \in 1..m : r2[j] = IF j = m THEN g ELSE coarse[j]
    BY <1>1, <2>1 DEF Extended
  <2>3. i \in 1..m
    BY <1>1, <2>2
  <2>4. CASE i = m
    <3>1. fine # <<>> /\ Bucket(fine[Len(fine)].openTime, c) = b
      BY <1>1, <1>7 DEF Together
    <3>2. r2[i] = g /\ g.openTime = b
      BY <1>7, <2>1, <2>2, <2>3, <2>4 DEF Traded
    <3>3. PICK e : e = coarse[m]
      OBVIOUS
    <3>4. e \in ServerCandle /\ Traded(g, e, x)
      BY <1>1, <1>2, <1>3, <1>7, <2>1, <3>3, ElementOfSeq
    <3>5. Whole(PartsOf(fine, b, c), fine, all) => Merged(e, fine, PartsOf(fine, b, c))
      <4>1. coarse[m].openTime = b /\ m \in 1..Len(coarse)
        BY <1>1, <1>3, <1>7
      <4> QED
        BY <3>3, <4>1 DEF Agree
    <3>6. Whole(PartsOf(r, b, c), r, <<x>> \o all)
      BY <3>2
    <3>7. Merged(g, r, PartsOf(r, b, c))
      BY <1>1, <1>2, <1>4, <3>1, <3>4, <3>5, <3>6, FineJoins
    <3> QED
      BY <3>2, <3>7, Zenon
  <2>5. CASE i # m
    <3>1. r2[i] = coarse[i]
      BY <2>2, <2>3, <2>5
    <3>2. coarse[i].openTime # b
      <4>1. i < m /\ m \in 1..m
        BY <1>3, <2>3, <2>5
      <4>2. coarse[i].openTime < coarse[m].openTime
        BY <1>1, <2>3, <4>1 DEF Ascending
      <4>3. coarse[i].openTime \in Nat
        BY <1>6, <2>3
      <4>4. PICK y : y = coarse[i].openTime
        OBVIOUS
      <4>5. y \in Nat /\ y < b
        BY <1>7, <4>2, <4>3, <4>4
      <4>6. y # b
        BY <1>4, <4>5
      <4> QED
        BY <4>4, <4>6
    <3> QED
      BY <1>5, <2>3, <3>1, <3>2
  <2> QED
    BY <2>4, <2>5
<1>8. CASE ~(coarse # <<>> /\ coarse[m].openTime = b)
  <2>1. PICK g, d : NewCandle(g, coarse, b, x) /\ Opened(r2, coarse, g, d)
    BY <1>1, <1>8 DEF Rolled
  <2>2. d \in {0, 1} /\ k = m + 1 - d /\ \A j \in 1..k : r2[j] = IF j = k THEN g ELSE coarse[j + d]
    BY <1>1, <2>1 DEF Opened
  <2>3. ASSUME coarse # <<>> PROVE coarse[m].openTime < b
    <3>1. m \in 1..m
      BY <1>3, <2>3
    <3>2. PICK y : y = coarse[m].openTime
      OBVIOUS
    <3>3. y \in Nat /\ y <= b /\ y # b
      BY <1>6, <1>8, <2>3, <3>1, <3>2
    <3>4. y < b
      BY <1>4, <3>3
    <3> QED
      BY <3>2, <3>4
  <2>4. CASE i = k
    <3>1. r2[i] = g /\ g.openTime = b
      BY <1>1, <2>1, <2>2, <2>4 DEF NewCandle
    <3>2. ASSUME NEW j \in 1..n PROVE Bucket(fine[j].openTime, c) # b
      <4>1. fine # <<>> /\ coarse # <<>> /\ n \in 1..n
        <5>1. fine # <<>>
          BY <1>1, <1>2, <1>3, CandleTimes
        <5> QED
          BY <1>3, <5>1 DEF Together
      <4>2. PICK y, z : y = fine[j].openTime /\ z = fine[n].openTime
        OBVIOUS
      <4>3. y \in Nat /\ z \in Nat
        BY <1>1, <4>1, <4>2, ChainParts
      <4>4. y <= z
        <5>1. j < n \/ j = n
          BY <1>3
        <5>2. j < n => y < z
          BY <1>1, <4>1, <4>2 DEF Ascending
        <5>3. j = n => y = z
          BY <4>2
        <5> QED
          BY <4>3, <5>1, <5>2, <5>3
      <4>5. Bucket(y, c) <= Bucket(z, c)
        BY <4>3, <4>4, BucketMonotone
      <4>6. Bucket(z, c) = coarse[m].openTime
        BY <1>1, <4>1, <4>2 DEF Together
      <4>7. Bucket(z, c) < b
        BY <2>3, <4>1, <4>6
      <4>8. Bucket(y, c) \in Nat /\ Bucket(z, c) \in Nat
        BY <4>3, BucketParts
      <4>9. PICK u, v : u = Bucket(y, c) /\ v = Bucket(z, c)
        OBVIOUS
      <4>10. u \in Nat /\ v \in Nat /\ u <= v /\ v < b
        BY <4>5, <4>7, <4>8, <4>9
      <4>11. u # b
        BY <1>4, <4>10
      <4> QED
        BY <4>2, <4>9, <4>11, Zenon
    <3>3. fine = <<>> <=> coarse = <<>>
      BY DEF Together
    <3>4. fine # <<>> => fine[Len(fine)].close = coarse[Len(coarse)].close
      BY <3>3 DEF RingTells
    <3>5. Merged(g, r, PartsOf(r, b, c))
      <4>1. \A j \in 1..Len(fine) : Bucket(fine[j].openTime, c) # b
        BY <1>1, <3>2
      <4>2. Rolled(r, fine, t, x) /\ b = Bucket(t, c)
        BY <1>1, <1>4
      <4> QED
        BY <1>2, <2>1, <3>3, <3>4, <4>1, <4>2, FineOpens
    <3> QED
      BY <3>1, <3>5, Zenon
  <2>5. CASE i # k
    <3>1. PICK j : j = i + d
      OBVIOUS
    <3>2. j \in 1..m /\ r2[i] = coarse[j]
      <4>1. i \in 1..k
        BY <1>1
      <4>2. r2[i] = coarse[j]
        BY <2>2, <2>5, <3>1, <4>1
      <4>3. j \in 1..m
        BY <1>3, <2>2, <2>5, <3>1, <4>1
      <4> QED
        BY <4>2, <4>3
    <3>3. coarse[j].openTime # b
      <4>1. coarse # <<>> /\ m \in 1..m
        <5>1. coarse # <<>>
          BY <1>1, <1>2, <3>2, CandleTimes
        <5> QED
          BY <1>3, <5>1
      <4>2. j < m \/ j = m
        BY <1>3, <3>2
      <4>3. j < m => coarse[j].openTime < coarse[m].openTime
        BY <1>1, <3>2, <4>1 DEF Ascending
      <4>4. PICK y, z : y = coarse[j].openTime /\ z = coarse[m].openTime
        OBVIOUS
      <4>5. y \in Nat /\ z \in Nat /\ z < b /\ (y < z \/ y = z)
        <5>1. y \in Nat /\ z \in Nat
          BY <1>6, <3>2, <4>1, <4>4
        <5>2. z < b
          BY <2>3, <4>1, <4>4
        <5>3. y < z \/ y = z
          BY <4>2, <4>3, <4>4
        <5> QED
          BY <5>1, <5>2, <5>3
      <4>6. y # b
        BY <1>4, <4>5
      <4> QED
        BY <4>4, <4>6
    <3> QED
      BY <1>5, <3>2, <3>3
  <2> QED
    BY <2>4, <2>5
<1> QED
  BY <1>7, <1>8

\* A trade keeps the timeframes agreeing.
LEMMA RingsAgreeTrade ==
  ASSUME MarketDataAssumption, MarketPageAssumption, Types, CandlesFit, RingsTell, RingsAgree,
         NEW p \in Pairs, NEW x \in PairPrices[p], NEW t \in 1..MaxTime, Trade(p, x, t)
  PROVE  RingsAgree'
<1>1. TradeMoves(p, x, t)
  <2>1. TeeTypes
    BY DEF Types
  <2> QED
    BY <2>1, TradeParts, Zenon
<1>2. /\ t \in Nat /\ x \in Nat \ {0} /\ tee.clock <= t /\ tee'.back = tee.back
      /\ tee'.trades[p] = <<x>> \o tee.trades[p]
      /\ \A q \in Pairs : q # p => tee'.trades[q] = tee.trades[q] /\ tee'.rings[q] = tee.rings[q]
      /\ \A tf \in Timeframes : tee'.rings[p][tf] = RollCandles(tee.rings[p][tf], tf, t, x)
  BY <1>1 DEF TradeMoves
<1>3. ASSUME NEW q \in Pairs, NEW f \in Timeframes, NEW c \in Timeframes, f < c, c % f = 0
      PROVE  /\ Together(tee'.rings[q][f], tee'.rings[q][c], c)
             /\ ~tee'.back => Agree(tee'.rings[q][f], tee'.rings[q][c], tee'.trades[q], c)
  <2>1. PICK fine, coarse, all : /\ fine = tee.rings[q][f] /\ coarse = tee.rings[q][c]
                                 /\ all = tee.trades[q]
    OBVIOUS
  <2>2. /\ Together(fine, coarse, c)
        /\ ~tee.back => Agree(fine, coarse, all, c)
    BY <1>3, <2>1, Zenon DEF RingsAgree
  <2>3. CASE q # p
    <3>1. /\ tee'.trades[q] = all /\ tee'.rings[q][f] = fine /\ tee'.rings[q][c] = coarse
          /\ tee'.back = tee.back
      BY <1>2, <2>1, <2>3
    <3> QED
      BY <2>2, <3>1, Zenon
  <2>4. CASE q = p
    <3>1. f \in Nat \ {0} /\ c \in Nat \ {0}
      BY TimeframeType
    <3>2. fine \in Seq(ServerCandle) /\ coarse \in Seq(ServerCandle) /\ all \in Seq(PairPrices[q])
      BY <2>1 DEF Types, TeeTypes
    <3>3. PICK r, r2 : r = RollCandles(fine, f, t, x) /\ r2 = RollCandles(coarse, c, t, x)
      OBVIOUS
    <3>4. tee'.trades[q] = <<x>> \o all /\ tee'.rings[q][f] = r /\ tee'.rings[q][c] = r2
      BY <1>2, <2>1, <2>4, <3>3
    <3>5. r \in Seq(ServerCandle) /\ Rolled(r, fine, Bucket(t, f), x)
      BY <1>2, <3>1, <3>2, <3>3, RollParts
    <3>6. r2 \in Seq(ServerCandle) /\ Rolled(r2, coarse, Bucket(t, c), x)
      BY <1>2, <3>1, <3>2, <3>3, RollParts
    <3>7. Together(r, r2, c)
      BY <1>2, <1>3, <3>1, <3>2, <3>5, <3>6, TogetherRolls
    <3>8. ASSUME ~tee.back PROVE Agree(r, r2, <<x>> \o all, c)
      <4>1. PICK now : now = tee.clock
        OBVIOUS
      <4>2. now \in Nat /\ now <= t
        BY <1>2, <4>1 DEF Types, TeeTypes
      <4>3. Fits(fine, f) /\ Fits(coarse, c)
        BY <2>1 DEF CandlesFit
      <4>4. Chain(fine, f) /\ Chain(coarse, c) /\ Ascending(fine, now) /\ Ascending(coarse, now)
        BY <3>8, <4>1, <4>3 DEF Fits
      <4>5. RingTells(fine, all) /\ RingTells(coarse, all)
        BY <2>1 DEF RingsTell
      <4>6. x \in PairPrices[q] /\ Agree(fine, coarse, all, c)
        BY <2>2, <2>4, <3>8
      <4> QED
        BY <1>2, <1>3, <2>2, <3>1, <3>2, <3>5, <3>6, <4>2, <4>4, <4>5, <4>6, AgreeRolls
    <3> QED
      BY <1>2, <3>4, <3>7, <3>8
  <2> QED
    BY <2>3, <2>4
<1> QED
  BY <1>3 DEF RingsAgree

\* Empty rings agree.
LEMMA EmptyAgree ==
  \A all, c : Together(<<>>, <<>>, c) /\ Agree(<<>>, <<>>, all, c)
<1>1. Len(<<>>) = 0 /\ 1..0 = {}
  OBVIOUS
<1> QED
  BY <1>1 DEF Together, Agree

\* The timeframes agree at the start, ...
LEMMA RingsAgreeInit ==
  ASSUME Init PROVE RingsAgree
<1>1. \A p \in Pairs : \A tf \in Timeframes : tee.rings[p][tf] = <<>>
  BY DEF Init, NoRings
<1> QED
  BY <1>1, EmptyAgree DEF RingsAgree

\* ... and do so after every step.
LEMMA RingsAgreeStep ==
  ASSUME MarketDataAssumption, MarketPageAssumption, Types, CandlesFit, RingsTell, RingsAgree,
         [Next]_vars
  PROVE  RingsAgree'
<1>1. ASSUME tee'.rings = tee.rings, tee'.trades = tee.trades, tee'.back = tee.back
      PROVE  RingsAgree'
  BY <1>1 DEF RingsAgree
<1>2. CASE PageUnchanged /\ tee' = tee
  BY <1>1, <1>2
<1>3. ASSUME NEW ch, UserStep(ch) PROVE RingsAgree'
  BY <1>1, <1>3 DEF UserStep
<1>4. ASSUME NEW id \in Panels, ClosePanel(id) \/ RestorePanel(id) PROVE RingsAgree'
  BY <1>3, <1>4, ClosePanelStep, RestorePanelStep
<1>5. CASE Reload
  BY <1>1, <1>5 DEF Reload
<1>6. ASSUME NEW key \in ActiveKeys, TakeAnswer(key) PROVE RingsAgree'
  BY <1>1, <1>6, TakeAnswerParts DEF Unchanged
<1>7. ASSUME NEW x \in inflight, ApplyAnswer(x) PROVE RingsAgree'
  BY <1>1, <1>7, ApplyAnswerParts
<1>8. ASSUME PageUnchanged, NEW p \in Pairs, NEW x \in PairPrices[p], NEW t \in 1..MaxTime, Trade(p, x, t)
      PROVE  RingsAgree'
  BY <1>8, RingsAgreeTrade
<1>9. ASSUME PageUnchanged, NEW p \in Pairs, BookMoves(p) PROVE RingsAgree'
  <2>1. TeeTypes
    BY DEF Types
  <2> QED
    BY <1>1, <1>9, <2>1, BookMovesParts
<1>10. ASSUME PageUnchanged, ClockStepsBack PROVE RingsAgree'
  <2>1. TeeTypes
    BY DEF Types
  <2>2. tee'.rings = tee.rings /\ tee'.trades = tee.trades /\ tee'.back = TRUE
    BY <1>10, <2>1, ClockStepsBackParts
  <2> QED
    BY <2>2 DEF RingsAgree
<1>11. ASSUME PageUnchanged, TeeRestarts PROVE RingsAgree'
  <2>1. TeeTypes
    BY DEF Types
  <2>2. \A p \in Pairs : \A tf \in Timeframes : tee'.rings[p][tf] = <<>>
    BY <1>11, <2>1, TeeRestartsParts
  <2>3. ASSUME NEW p \in Pairs, NEW f \in Timeframes, NEW c \in Timeframes
        PROVE  /\ Together(tee'.rings[p][f], tee'.rings[p][c], c)
               /\ Agree(tee'.rings[p][f], tee'.rings[p][c], tee'.trades[p], c)
    <3>1. tee'.rings[p][f] = <<>> /\ tee'.rings[p][c] = <<>>
      BY <2>2, Zenon
    <3>2. \A all, d : Together(<<>>, <<>>, d) /\ Agree(<<>>, <<>>, all, d)
      BY EmptyAgree, Zenon
    <3>3. Together(<<>>, <<>>, c) /\ Agree(<<>>, <<>>, tee'.trades[p], c)
      BY <3>2, Zenon
    <3> QED
      BY <3>1, <3>3
  <2> QED
    BY <2>3 DEF RingsAgree
<1> QED
  BY <1>2, <1>3, <1>4, <1>5, <1>6, <1>7, <1>8, <1>9, <1>10, <1>11, StepKinds

\* The greatest and the least of the entries of some candles are those that bound them.
LEMMA MergedIs ==
  ASSUME NEW fine \in Seq(ServerCandle), NEW P, P \subseteq 1..Len(fine), NEW e, Merged(e, fine, P)
  PROVE  MergeOf(e, fine, P)
<1>1. IsFiniteSet(P) /\ P \subseteq Nat /\ P # {}
  BY PartsType DEF Merged
<1>2. \A k \in P : fine[k].high \in Nat /\ fine[k].low \in Nat
  <2>1. \A k \in P : fine[k] \in ServerCandle
    BY ElementOfSeq
  <2> QED
    BY <2>1 DEF ServerCandle
<1>3. /\ Max(P) \in P /\ \A k \in P : k <= Max(P)
      /\ Min(P) \in P /\ \A k \in P : Min(P) <= k
  BY <1>1, MaxAndMin
<1>4. e.open = fine[Min(P)].open
  <2>1. PICK k \in P : e.open = fine[k].open /\ \A j \in P : k <= j
    BY DEF Merged
  <2>2. PICK a : a = Min(P)
    OBVIOUS
  <2>3. a \in Nat /\ k \in Nat /\ a <= k /\ k <= a
    BY <1>1, <1>3, <2>1, <2>2
  <2>4. k = a
    BY <2>3
  <2> QED
    BY <2>1, <2>2, <2>4
<1>5. e.close = fine[Max(P)].close
  <2>1. PICK k \in P : e.close = fine[k].close /\ \A j \in P : j <= k
    BY DEF Merged
  <2>2. PICK a : a = Max(P)
    OBVIOUS
  <2>3. a \in Nat /\ k \in Nat /\ a <= k /\ k <= a
    BY <1>1, <1>3, <2>1, <2>2
  <2>4. k = a
    BY <2>3
  <2> QED
    BY <2>1, <2>2, <2>4
<1>6. e.high = Max({fine[k].high : k \in P})
  <2>1. PICK H, h : H = {fine[k].high : k \in P} /\ h = [k \in P |-> fine[k].high]
    OBVIOUS
  <2>2. H \subseteq Nat /\ H # {}
    BY <1>1, <1>2, <2>1
  <2>3. IsFiniteSet(H)
    <3>1. h \in Surjection(P, H)
      BY <2>1 DEF Surjection
    <3> QED
      BY <1>1, <3>1, FS_Surjection
  <2>4. Max(H) \in H /\ \A y \in H : y <= Max(H)
    BY <2>2, <2>3, MaxAndMin
  <2>5. e.high \in H /\ \A y \in H : y <= e.high
    BY <2>1 DEF Merged
  <2>6. PICK a, b : a = Max(H) /\ b = e.high
    OBVIOUS
  <2>7. a \in Nat /\ b \in Nat /\ a <= b /\ b <= a
    BY <2>2, <2>4, <2>5, <2>6
  <2>8. a = b
    BY <2>7
  <2> QED
    BY <2>1, <2>6, <2>8
<1>7. e.low = Min({fine[k].low : k \in P})
  <2>1. PICK H, h : H = {fine[k].low : k \in P} /\ h = [k \in P |-> fine[k].low]
    OBVIOUS
  <2>2. H \subseteq Nat /\ H # {}
    BY <1>1, <1>2, <2>1
  <2>3. IsFiniteSet(H)
    <3>1. h \in Surjection(P, H)
      BY <2>1 DEF Surjection
    <3> QED
      BY <1>1, <3>1, FS_Surjection
  <2>4. Min(H) \in H /\ \A y \in H : Min(H) <= y
    BY <2>2, <2>3, MaxAndMin
  <2>5. e.low \in H /\ \A y \in H : e.low <= y
    BY <2>1 DEF Merged
  <2>6. PICK a, b : a = Min(H) /\ b = e.low
    OBVIOUS
  <2>7. a \in Nat /\ b \in Nat /\ a <= b /\ b <= a
    BY <2>2, <2>4, <2>5, <2>6
  <2>8. a = b
    BY <2>7
  <2> QED
    BY <2>1, <2>6, <2>8
<1>8. e.trades = TradesIn(fine, P)
  BY DEF Merged
<1> QED
  BY <1>4, <1>5, <1>6, <1>7, <1>8, Zenon DEF MergeOf

\* A coarse candle of rings that agree.
LEMMA AgreeingCandle ==
  ASSUME NEW fine \in Seq(ServerCandle), NEW coarse, NEW all, NEW c, Agree(fine, coarse, all, c),
         NEW i \in 1..Len(coarse), NEW P, P = PartsOf(fine, coarse[i].openTime, c), P # {},
         Min(P) > 1 \/ TradesOf(fine) = Len(all)
  PROVE  MergeOf(coarse[i], fine, P)
<1>1. P \subseteq 1..Len(fine)
  BY DEF PartsOf
<1>2. Whole(P, fine, all)
  <2>1. ASSUME 1 \in P PROVE ~(Min(P) > 1)
    <3>1. IsFiniteSet(P) /\ P \subseteq Nat
      BY <1>1, PartsType
    <3>2. Min(P) <= 1 /\ Min(P) \in Nat
      BY <2>1, <3>1, MaxAndMin
    <3>3. PICK a : a = Min(P)
      OBVIOUS
    <3>4. a \in Nat /\ a <= 1
      BY <3>2, <3>3
    <3> QED
      BY <3>3, <3>4
  <2> QED
    BY <2>1, Zenon DEF Whole
<1>3. Merged(coarse[i], fine, P)
  BY <1>2, Zenon DEF Agree
<1>4. PICK e : e = coarse[i]
  OBVIOUS
<1>5. Merged(e, fine, P)
  BY <1>3, <1>4, Zenon
<1>6. MergeOf(e, fine, P)
  BY <1>1, <1>5, MergedIs
<1> QED
  BY <1>4, <1>6, Zenon

\* Rings that agree tell one story.
LEMMA AgreeingTimeframes ==
  ASSUME Types, RingsAgree
  PROVE  TimeframesAgree
<1> SUFFICES ASSUME ~tee.back, NEW p \in Pairs, NEW f \in Timeframes, NEW c \in Timeframes,
                    f < c, c % f = 0, NEW i \in DOMAIN tee.rings[p][c],
                    NEW e, e = tee.rings[p][c][i],
                    NEW parts, parts = PartsOf(tee.rings[p][f], e.openTime, c),
                    parts # {}, Min(parts) > 1 \/ NothingDropped(p, f)
             PROVE  MergeOf(e, tee.rings[p][f], parts)
  BY DEF TimeframesAgree
<1>1. PICK fine, coarse, all : /\ fine = tee.rings[p][f] /\ coarse = tee.rings[p][c]
                               /\ all = tee.trades[p]
  OBVIOUS
<1>2. fine \in Seq(ServerCandle) /\ coarse \in Seq(ServerCandle)
  BY <1>1 DEF Types, TeeTypes
<1>3. i \in 1..Len(coarse) /\ coarse[i] = e
  <2>1. i \in DOMAIN coarse
    BY <1>1
  <2> QED
    BY <1>1, <1>2, <2>1
<1>4. parts = PartsOf(fine, coarse[i].openTime, c)
  BY <1>1, <1>3, Zenon
<1>5. Agree(fine, coarse, all, c)
  BY <1>1, Zenon DEF RingsAgree
<1>6. Min(parts) > 1 \/ TradesOf(fine) = Len(all)
  BY <1>1, Zenon DEF NothingDropped, TradesOf
<1>7. MergeOf(coarse[i], fine, parts)
  BY <1>2, <1>3, <1>4, <1>5, <1>6, AgreeingCandle
<1> QED
  BY <1>1, <1>3, <1>7, Zenon

\* A coarse candle (open, close, high, low, number of trades) is the merge of the fine
\* candles of its interval as long as the fine ring still holds them all, after any number
\* of trades, restarts and dropped candles, unless the clock stepped back.
THEOREM PageTimeframesAgree == Spec => []TimeframesAgree
<1>1. Init => RingsAgree
  BY RingsAgreeInit
<1>2. Telling /\ RingsAgree /\ [Next]_vars => RingsAgree'
  BY RingsAgreeStep, MarketPageAssumption, MarketDataAssumption DEF Telling
<1>3. Telling /\ RingsAgree => TimeframesAgree
  BY AgreeingTimeframes DEF Telling
<1> QED
  BY <1>1, <1>2, <1>3, TellingAlways, PTL DEF Spec

=============================================================================
