# A TLA+ model of the Flare orderbook extension

The repository is a limit order book that runs as an extension of a TEE node:
users deposit tokens into a contract on chain, trade inside the enclave with
signed requests, and withdraw with slips the enclave signs. This directory
models it in TLA+, checks the models with TLC and proves the central facts with
TLAPS. Paths below are relative to the repository.

## 1. Inventory

| Component | State | Operations | Correct when |
|---|---|---|---|
| Balance manager `pkg/balance/manager.go` | user → token → available, held; one mutex | Deposit, Withdraw, Hold, Release, Transfer, EvictEmpty | units are neither made nor lost; nothing goes negative or wraps; a missing entry is a zero |
| Persistence `pkg/balance/persist.go` | a path, off by default, and one snapshot file | save after every mutation (error dropped), load at start | the snapshot is whole; with a path and after a good write a restart loses nothing |
| Matching engine `pkg/orderbook/` | per pair: two sides, each a tree of levels, FIFO queues, an ID map, two aggregates; one mutex | place limit, place market, cancel, evict excess levels | price-time priority; the four structures agree; never crossed |
| Order handlers `internal/extension/handlers.go` | `e.orders`, `e.userOrders`, history, candles; `e.mu` | PLACE_ORDER, CANCEL_ORDER | what is held covers every obligation; exactly what rests is tracked; caps hold; requests end |
| Deposit, withdrawal `deposit.go`, `withdraw.go`, `withdraw_request.go` | history | credit, cut to uint64; authorise, advance the nonce, debit, sign, undo on failure | every unit in the vault is owed to exactly one place, or was lost at one of three known places, whatever was cut off in between |
| Session keys `fsa_store.go`, `fsa_bind_sig.go`, `crypto.go` | user → bound key, user → last nonce | bind, authorise, advance nonce | one use per signed request while the TEE lives; a connected account signs with the bound key |
| Candles, recent trades `pkg/orderbook/candle.go`, `ring.go`, `updateCandles` | a ring of bounded size per pair and timeframe | push, roll | the timeframes are merges of one another; bars continuous |
| Contract `contracts/InstructionSender.sol` | vault, KYC list, used withdrawal IDs, TEE address | deposit, withdraw, executeWithdrawal | solvent; a slip pays once |
| Direct instructions `lib/teeClient.ts`, `lib/orderbook.ts`, order hooks, `OrderForm`, `OpenOrders`, `MyFills`, `Balances` | form, buttons, mutations under way, one cached answer per address | edit, submit, cancel, poll, refetch, switch wallet | an order is what the form showed; only the own state is shown; nothing stale after a success; buttons come back |
| Tray `components/ui/ActionTray.tsx` | jobs, their steps and the handles' cursors | start, advance, failStep, finish, fail, dismiss | a card says "done" only of what was done |
| Trading page `pages/Trade.tsx`, ladder, tape, figures, chart | pair, timeframe, panels (localStorage), the form's price, answers per key, the chart's references | select, click, close, restore, reload, apply an answer | the selected pair is shown; the chart is what a redraw would show |
| Connecting `XamanContext`, `WalletConnectFlow`, `lib/session.ts`, `lib/fsaTee.ts` | connected wallets, session key per account (localStorage) | sign in, look up, resolve, bind | the key is the bound one and can be had again |
| XRP payments `lib/fsaFlow.ts`, `lib/fsa.ts` | the payment recorded per account (localStorage) | build, open, sign, wait | no second payment for a nonce, unless the first was given up unseen |
| Wallet modal, `useXamanOps`, `useDeposit`, `useWithdraw`, `useFaucet`, `xaman-service` | operations under way, one stored slip per account, one in memory | mint, deposit, withdraw, retry, relay | the slip survives a reload; nothing is paid twice; everything ends |
| Views, decoder, configuration, binaries, tools, scripts | none of their own | queries, parsing, deployment | - |

**How they interact.** HTTP requests reach the handlers concurrently. A handler
calls the book and the manager, each of which locks itself for one call;
`e.mu` is above both (`handlers.go:76-78`). PLACE_ORDER has `e.mu` from its
first change of state to its last. CANCEL_ORDER takes it for the lookup and
again for the clean-up, and changes the book and the ledger in between. Deposits,
withdrawals and the five-minute sweep of empty users take only the manager's
mutex. Only the ledger can outlive the process, and only if a path for its
snapshot is configured (`persist.go:14`, `config.go:45`, `extension.go:101-107`;
`docs/deployment-steps.md:293` says the deployment does not): a restart forgets
orders, bindings, nonces, candles and trades, and without a path, or when the
snapshot cannot be read, every balance. `docs/architecture.md:139`,
`docs/flows/orders.md:235` and `README.md:64` call the balances lost without
that condition, the comment at `manager.go:24-26` calls them reloaded without it:
each is right of one of the two configurations, and both are modelled. The browser reaches the TEE through a proxy: it
posts an instruction and polls for the result until it gives up, which does not
stop the instruction. It reaches the chain through MetaMask, or for a
PersonalAccount through the relay and through XRPL payments that others execute.

**What is hard.** The steps of a cancel among those of placements; three
roundings of the same product that must never eat into one another; dropped
errors of Transfer, Release and save; structures edited from two places
(`fillFromQueue` by-passes `OrderSide`); market orders, whose hold is not what
they may spend; panics under a lock; crashes between two persisted steps. In
the browser: answers that arrive after the account, pair or panel they were for
has gone; polls that give up on what still happens; reloads at any moment; a
relay whose answer is lost; three candidates for one session key; a chart
updated from what it believes it drew.
`PROJECT.json` lists each hazard at its line with the properties aimed at it.

## 2. Modules

| Module | Models | Corresponds to |
|---|---|---|
| `UnitSum` | the sum of a finite table of naturals | - (mathematics the others use) |
| `Balance` | the ledger and the five calls, amounts modulo `Word` | one action per method: the mutex covers each body. A refusal changes no amount and is the negation of the `Can...` guard. `TryRelease`, `TryTransfer`: a call whose error the caller drops |
| `BalanceStore` | `Balance` with map entries, the snapshot, failing writes, the sweep, restarts | `Save` ends every mutation, and replaces the snapshot, fails silently, or has no path (`persistPath`) to write to; `Reload` is `SetPersistPath` with `load`, `StartEmpty` a start without a path or with a load that failed |
| `PriceTime` | price-time priority in closed form | how much an order takes of each resting order, without loops |
| `PriceTimeBook` | the book as its callers see it | abstract specification: each call is one step |
| `OrderBook` | the book as it is coded | tree = function from its keys, queue = sequence, ID map, `volume`, `count`; a step per loop iteration of `matchBuy`, `matchSell`, `EvictExcessLevels`; `EndPlace...` is the return |
| `Extension` | PLACE_ORDER and CANCEL_ORDER, with deposits, withdrawals, restarts | extends `Balance` and uses `PriceTime` for the book: what `OrderBook` is shown to implement. `task[h]` is the request a goroutine runs and how far it is; `mu` is `e.mu`; the steps are the calls that another goroutine can come between |
| `ActionTray` | the tray's jobs as pure functions, and when a card is well formed | an operator per method of the handle, applied to the step its cursor named when it was called; `Visible` is the provider, `CardState` the card |
| `Trading` | a trader at the form, with proxy and TEE as the browser sees them | `Submit`, `Cancel` start a mutation (`calls`), `Posted` ... `Fails` are its awaits, `Edit`, `FillPct`, `SwitchWallet`, `Remount...` what may happen between them; `fetch` and `cache` are react-query's; `ReadBalances` and `ReadOrders` are the two reads of GET_MY_STATE, `ExecuteCancel` and `ReleaseCancelled` the two steps of a cancel, `ExecutePlace` and `TradeResting` the TEE's moments under `e.mu` |
| `MarketData` | rings, bars, chart update, ladder, figures, tape, as pure functions | `RollCandles` is `updateCandles`, `FromServerCandles` is `lib/candles.ts`, `Drawn` the effect of `Chart.tsx`, `BookView`, `StatsView`, `TapeView` the components |
| `MarketPage` | the trading page as a reader of the market | one action per handler of `Trade.tsx` and its panels; `form` is the price in `OrderForm`'s own state; `TakeAnswer` and `ApplyAnswer` are the two ends of a query; `Trade`, `BookMoves`, `Clock...`, `TeeRestarts` the server |
| `Session` | who is connected, session keys, the TEE's bindings and nonces | `SelectXaman`, `SignIn`, `Lookup`, `Resolve`, `SignBind`, `BindAnswer` are the awaits of `connect()`; `BindAdvance`, `BindSet` the two critical sections of `processBindSessionSig` |
| `FsaFlow` | a call paid for in XRP | `Build` ... `SeeExecuted` are the stages of `runFsaFlow`, `Answer` the user, `Execute` the chain |
| `Funds` | faucet, deposits, withdrawals, slips, relay, contract, TEE | `Start...` are the modal's buttons; `calls` is what the relay or MetaMask was given, `Carry`, `AnswerLost`, `NotCarried` what becomes of it; `Authorize`, `UseNonce`, `Debit`, `Sign` the steps of `processWithdrawRequest`; `Truncated`, `Plus`, `Exact` are what uint64 and JavaScript's Number do to an amount |
| `Wallet` | `Session`, `FsaFlow` and `Funds` composed, with reloads and restarts | extends the three; a step of one leaves the others alone, except where a change of account changes the slip in memory (`SlipFollowsAccount`) and where a reload or restart hits all |
| `MC...` | small instances | constants, symmetry |
| `TableProofs`, `BalanceProofs` | lemmas about sums and matching, and about the ledger's calls | TLAPS |
| `BalanceStoreProofs`, `OrderBookProofs`, `ExtensionProofs`, `TradingProofs`, `MarketPageProofs`, `WalletProofs` | the theorems of section 4 | TLAPS |

`Extension`, step by step (`handlers.go`): `PlaceOrder` 79-113 (the hold is
computed *before* the lock), `EnterPlace` 115-125, `MatchOrder` 127-145,
`SettleQuote`, `SettleBase` 266-293 once per match, `Panic` where `mulPrice`
overflows (the HTTP server recovers it and the deferred unlock runs),
`FinishPlace` 147-183, `EvictLevels`, `RefundEvicted` 185-191 and 371-383;
`CancelOrder`, `CancelRejected` 220-232, `CancelInBook` 234, `CancelRefund`
239-243, `CancelUntrack` 245-248.

Abstractions: one pair (pairs share `e.mu` and the ledger but no book); an order
ID is a number; history and candles, which nothing else in these modules reads, are left out (the candles are in
`MarketData`); names, messages and JSON are left out. `supply` is a history variable: what was
credited less what was debited. A deposit is taken only while `supply` stays
within `MaxSupply < Word`: the assumption on the token that keeps uint64 exact.

In the browser modules an order fills whole, and prices stay raw: `formatPrice`
divides both sides of each comparison by one constant. In `Funds` the contract
moves any amount and the TEE counts modulo `Word`: a deposit or an on-chain
withdrawal is cut (`deposit.go:92`, `withdraw.go:155`), a balance may wrap
(`manager.go:41-53`), and an amount outside `Exact` is another one once the page
has read it as a Number: an off-chain request is then refused, for it is not the
one signed (`fsaTee.ts:112-117`), and a slip reverts (`useWithdraw.ts:47`). `past`, `pressed`, `floor`, `got` and the fields `back`, `restarts`, `known` and
`missing` are history variables: no guard that models code reads them. In `Funds` a wallet
always has what it deposits (the faucet is free), a MetaMask prompt left open
over a reload counts as refused, one retry runs at a time, and a refused
connection of MetaMask is a click that changes nothing. In `Trading` a query reads
the balances and then the orders, holding `e.mu` for reading (`userstate.go:29-36`),
so that nothing is placed between the two; a cancel, which has let go of `e.mu`,
takes its order out of the book in one step and releases the hold in a later one
(`handlers.go:234`, `:242`). An order is one step, as `e.mu` is locked from before
its hold to its return (`handlers.go:115-116`) and nobody reads in between; its own
steps, and those of a cancel among them, are taken apart in `Extension`. An
invalidation drops the query under way if an answer is cached, and otherwise joins
it, which is what react-query's `cancelRefetch` does. React-query gives a mutation the latest
options of its hook, so a faucet under way mints the remaining tokens for the
account connected by then (`XamanMints`).

Next to some definitions stands a *mutant*, the same operator with a plausible
slip. It is used by no specification: `PROJECT.json` pairs each property with a
mutant under which TLC finds it violated.

## 3. Runs

| Run | Shows | Instance |
|---|---|---|
| `balance_store` | conservation, with a snapshot, without one and from one that cannot be read; a configured snapshot is current after a good write; a restart from it then loses nothing and frees what was held | 2 users, 1 token, supply 3, width 4: the supply can meet the width |
| `balance_store_live` (violation) | a dropped write error makes a restart forget an answered mutation, against `manager.go:24-26` | supply 2 |
| `order_book` | structures agree at every iteration; never crossed; `OrderBook` implements `PriceTimeBook` | 3 orders, 2 prices, quantities 1-2, 2 owners, 1 level kept: enough to sweep two makers, cancel, re-queue and evict |
| `order_book_refused_cancel` (violation) | a refused cancel loses the owner's priority, against `docs/flows/orders.md:215` | same |
| `extension_limit` | limit orders: lock policy, coverage of every obligation, tracking, caps, no overflow | 2 traders, 2 requests at once, 3 orders, prices 2 and 3, quantities 1-3, precision 3 (so products round), width 8 (so 3 * 3 overflows), caps 2 orders and 1 level |
| `extension_market` | market, limit and malformed orders with deposits, withdrawals, a restart, panics: conservation, types, every request ends | 2 orders, one external event, no symmetry (liveness) |
| `market_phantom` (violation) | a partly filled market order is tracked but never rests, against the invariant of `race_test.go:202` | 2 orders |
| `market_settlement` (violation) | a market buy matches more than its hold: the quote transfer fails, the base transfer is made, against `orders.md:134` | width 16, so that no product overflows |
| `market_overflow` (violation) | a market buy meets a limit sell whose product was never vetted, against the comment at `handlers.go:54-57` | width 6 |
| `trading` | an order is what the form showed at the press, once; the tray is truthful; buttons follow their cancels; fills, orders and held amounts are one user's, and HELD covers the orders at whatever two moments it was read; no older answer replaces one after a success; every call and finished card ends | two accounts in one browser, one with a unit; 2 pairs, 1 price and quantity, 1 submit, 1 cancel, 2 wallet changes or remounts |
| `market_page` | the page shows the selected pair, a clicked price reaches the form of its own pair only, the incremental chart is the redraw, bars are continuous, timeframes agree, the tape meets the chart | 2 pairs, the second in prices of its own; timeframes 1 and 2 over 3 instants; rings of 2, 2 bars, 2 prices, 2 trades in an answer; at most 3 trades and 3 steps of the user or accidents, 4 of both together; 1 answer under way |
| `wallet` | the vault holds what is owed and what the TEE lost track of, exactly; slips survive reloads; nonces stop redelivery; payments are guarded; session keys stay usable; cards are true; everything ends | a wallet that signs reproducibly, one that does not, MetaMask; 3 operations, 1 fault, 2 faucet tokens; a word of 3, amounts 1 and 5, numbers exact up to 1: 5 is cut to 2, which is not exact, and 2 with 1 wraps |

Why the bounds are enough to be interesting: two requests suffice for every
pairwise interleaving, and the placing side is serialised by `e.mu`, so a third
request adds a second cancel beside a placement and nothing else; three orders
let one sweep two, or make a level too many; products that round and products
that overflow both occur; TLC's coverage shows every action fires. Deadlock is
checked in the runs of the TEE side: a handler can always answer a request it
turns away. The three browser runs may stop once their bounds are spent.

The browser runs need two accounts (one left behind, one arrived), two pairs for
the same reason, and rings shorter than the trades, so that candles drop; the
faults of `wallet` are one reload, restart, lost answer, redelivery or scan with another
wallet at any point of any three operations, so a withdrawal can fail, a second
one follow and a retry of either meet the fault. `MaxVersion`, `MaxTime`,
`MaxTrades`, `MaxSteps`, `MaxEvents`, `MaxInflight`, `MaxInterruptions`, `MaxSubmits`,
`MaxCancels`, `MaxOps` and `MaxFaults` are the bounds, each in a guard.

**The strongest property** is `HeldCovers`: at every step, what a user has held
is at least what its resting orders, its unsettled matches and the releases
under way may still take, with every division rounded as coded. It is why the
dropped errors are harmless with limit orders; the market runs show where it
ends.

**What the wallet properties leave out, on purpose.** Each premise is a case the
code does not handle and TLC reaches. `ConnectedIsBound` excludes a restart of
the TEE since connecting (bindings are in memory) and a bind signed by another
wallet than the sign-in (`connect` does not compare them). `DebitedOnce` excludes
restarts, since nonces are in memory while balances may be on disk. `SlipKept`
excludes a second slip of the account and a second account in the browser:
`storeSlip` has one slot per account, so a later slip replaces an unpaid one, and
the closure of one account writes the slip in memory of another. MetaMask's slip is kept in
memory only. In all of these `Backed` still holds: the amount stays in the vault.

`Backed` is an equation. The vault has what is owed and, besides, `missing`: what
the TEE should have entered and has not. That grows at three places only: a deposit cut to uint64
(`deposit.go:92`; `docs/flows/deposit.md:145` knows of it), a sum that wraps
(`manager.go:50`) and a ledger started empty (`docs/flows/deposit.md:139`,
`docs/architecture.md:139`). A withdrawal that is cut debits and signs the same
amount (`withdraw.go:155`, `docs/flows/withdrawal.md:259`) and loses nothing. A debit whose slip was lost counts as owed still
(`docs/flows/withdrawal.md:254-255` call it a loss). So nothing is ever paid that the
vault does not have, and without one of these losses it has nothing but what it
owes; whoever counts on more must widen the type or configure the snapshot.

`PaymentGuarded` allows a second payment for a nonce only after a request was
left before its signature was seen. `FreshAfterSuccess` says nothing of the first
answer for an account: with nothing cached an invalidation joins the query under
way, whose answer may be older than the success. `FillsAreMine` has HELD cover the
open orders, not equal them: a cancel half done, and the rounding of partial fills,
leave more held. `PrefillOfSelectedPair` is about the price that is put into the
form; what it holds already it keeps over a change of pair (`OrderForm.tsx:46-50`
ignores null and `Trade.tsx:340` gives the form no key), and no property calls
that right. `ChartShowsBars` has the chart throw, and the
page with it, only when both the TEE restarted and the clock stepped back.

**Fairness.** `FairSpec` asks strong fairness of each request's steps: a runnable
goroutine runs, and Go's mutex, in its starvation mode, hands itself to a waiter
that has waited too long. No fairness is asked of arrivals, deposits or restarts.
`Trading` asks weak fairness of the client as a whole, whose polls end after
fifteen attempts (`teeClient.ts:113`, `:164`), and of the eight-second timer of a finished card: nothing of
the trader, the network or the TEE. `Wallet` asks it of `System`: timeouts and
polls of the page (fifteen attempts, or thirty for an on-chain instruction),
the relay's answers, the TEE; a person who never answers is
timed out by the page. `MarketPage` states no liveness: its queries repeat for
ever and promise nothing about when.

## 4. Proofs

| Theorems | For every | Inductive invariant |
|---|---|---|
| `TypeCorrect`, `Conservation`, `AbsenceIsZero`, `SnapshotIsCurrent`, `RestartIsLossless` (`BalanceStoreProofs`) | finite set of users, set of tokens, supply below the width | `IInv` of that module |
| `OrderBookInvariant`, `OrderBookTypes`, `SidesConsistent`, `NeverCrossed`, `Refinement` (`OrderBookProofs`) | prices, quantities, owners, number of orders, number of levels kept | `IInv` of that module |
| `TypeCorrect`, `Conservation`, `LockPolicy` (`ExtensionProofs`) | as above, and any handlers, prices, quantities, order types, caps and precision | `IInv` of that module |
| `RestingOrdersTracked`, `CapsRespected` (`ExtensionProofs`) | as above | `TrackInv` |
| `HoldsCoverDues`, `ProductsFit`, `LimitSettlesInFull`, `TrackedOrdersRest` (`ExtensionProofs`) | as above, order types without "market" | `CoverInv`, `VetInv`, `RestInv` |
| `TradingTypeCorrect`, `OrdersAsShown`, `TrayIsTrue`, `ButtonsFollow`, `OwnRows`, `NoOlderAnswer` (`TradingProofs`) | sets of users, pairs, prices and quantities, funds, numbers of submits, cancels and interruptions | `TradingInv` |
| `PageTypeCorrect`, `PagePrefill`, `PageShown`, `PageBarsContinuous`, `PageChartShowsBars`, `PageTapeMeetsChart`, `PageTimeframesAgree` (`MarketPageProofs`) | sets of pairs, timeframes, prices and books, sizes of rings, answers, limits, chart, ladder and tape, numbers of trades, steps and events | `Types`, `CandlesFit` and, for the last three, `ChartFits`, `AnswersTell`, `RingsAgree` |
| `WalletTypeCorrect`, `ConnectedKeyIsBound`, `BoundKeyIsKept`, `NoDoubleDebit`, `PaymentsGuarded`, `SlipsSurvive`, `VaultBacked`, `CardIsTrue` (`WalletProofs`) | finite set of accounts, any of them signing reproducibly, balances, amounts, word size, exact numbers, number of tokens, number of operations and faults | `WalletInv` |

Assumptions: `UsersAssumption` (finitely many users), `SupplyAssumption`
(`MaxSupply < Word`), `PairAssumption` (two tokens), `HandlersAssumption` (no
request is called "free"), `ExtensionAssumption` (the constants are numbers,
and the loaded snapshot is within the supply), `OrderBookAssumption` (prices and
quantities are positive numbers, at least one level is kept), `SessionAssumption` (finitely many
accounts, MetaMask's address none of them), `FundsAssumption` (there is a token and a
word, a user moves positive amounts, balances fit the word), `TradingAssumption` (a form can be opened: there is a pair,
"buy" and "limit"; prices and quantities are positive), `MarketDataAssumption` (rings,
answers and chart hold at least two candles, ladder and tape at least one row) and
`MarketPageAssumption` (timeframes and prices are positive, a side of a book has
finitely many levels and one per price, the page has a pair and a timeframe to open
with, an answer holds at least one trade, the bounds are numbers), all evaluated by TLC in the runs. `LimitOnly` is no
assumption on a constant but the premise of four theorems: the runs
`market_settlement`, `market_overflow` and `market_phantom` show that the code
does not keep what they state once a market order comes in. Every invariant below
was checked by TLC, as an invariant of the runs' instances, before its proof.

**The ledger.** Conservation needs that additions do not wrap; that needs a bound
on every entry; and the bound comes from conservation: an entry is at most the
whole custody, which is `supply <= MaxSupply < Word` (`EntryWithinTotal`,
`EquityBound`, `FitsWord`). So the invariant carries types, conservation and
the bound together (`BalanceInv`). Each call is one lemma (`DepositInv` ...
`TransferInv`), the transfer to oneself included. `BalanceStore` adds that an
absent user has nothing, that with a path a clean snapshot matches memory, and that the
snapshot, current or not, is itself bounded (`DiskBounded`), or a restart from
an old one could wrap. The sum of a table is the number of its units, a
cardinality (`UnitSum`), so `TableProofs` derives how it changes when one or
two entries do from the library's facts about finite sets, without a recursion.

**The matching engine.** All five theorems come from one invariant, `IInv`, whose
subject is a list per side: the orders of the tree, best level first, each level
from its front.

- `Lists` says what the four structures of a side have to do with its list: the level
  at a price is the stretch of the list that begins at `start[p]` (`Walk`), the map
  has the list's IDs with their prices, `volume` and `count` are the list's sum and
  length, no ID comes twice. Each edit of the code does one thing to the list: `Add`
  inserts behind the last order that is as good, `RemoveOrder` takes one out,
  `FillFront` takes the front or shortens it, `EvictLevel` cuts off a tail
  (`ListsWith`, `RemoveOrderLists`, `FillFrontFull`,
  `FillFrontPart`, `EvictLevelLists`). Nothing else in the proof looks at a tree.
- `Book` joins the two sides: no ID on both, no ID from the future, every bid below
  every ask. Shrinking a side keeps it (`BookShrinks`); an order may be added where
  it meets no order of the other side (`BookGrows`), which is what the fill loop
  leaves when it ends (`SweepRests`).
- Between the iterations of a call the invariant says how far it is. The fill loop
  has taken the first `k` orders of the list callers last saw and `a` of the
  next (`Sweeping`): when it stops, `k` and `a` are what `PriceTime` computes from
  sums over the queue (`SweepFills`, `SweepLeft`). The eviction loop has cut each list
  between two levels and never below the number kept (`Evicting`), so when no
  level is too many the cut is the one the ranks make (`CutKeeps`). A cancel is one
  step; a refused one takes the order out and adds it again, behind its level.
- `Refinement`: the lists callers last saw are `PriceTimeBook`'s `book`; each action but
  the returns leaves them alone, and each return is the abstract call.

`OrderBookAssumption` is all that is assumed: `MaxOrders` bounds the runs, and in
the theorems is any number.

**The handlers.** Each step calls the ledger at most once, so
conservation reduces to the lemmas above, provided the amount is a natural
number and the parties are users. That is what the types are for: `TypeOK` says
what each stage of a request carries and that a settling request stands at one
of its fills. The types in turn need that matching, resting, cancelling and
evicting return books (`TableProofs`): the part of a queue at chosen
positions is a queue of its members, because counting upwards reaches each
position of a finite set once (`NthIsPosition`, by the pigeonhole facts of the
library), and an order takes from a resting one no more than rests
(`TakenType`). The lock policy is carried in the same invariant; `Moves` and
`Ends` state once what a request's next stage may do with `e.mu`, and each
action is one lemma. A restart needs the custody bound again: what was
held is added to what is available, and the sum must not wrap
(`RestartBalance`).

**What is tracked.** `e.mu` is free between the steps of a cancel, and the cap is
checked on what is tracked while it speaks of what rests, so neither property is
inductive. `TrackInv` follows each order: the book, `e.orders`, `e.userOrders` and
the requests that place, settle, evict or cancel it agree on its owner (`Agreed`);
an order being placed is no other's business, one taken out is out (`Apart`); an ID
rests once (`OneEach`); whatever rests is tracked or about to be (`Tracked`); whoever
passed the cap's check leaves room for one more, and a side is over its levels only
until the eviction (`WithinCaps`). Here market orders are included.

**What is held.** `HeldCovers` is inductive once it is known what a request has
vetted and that the hold it carries is the one its order asks for (`Sized`). Its
heart is arithmetic on data: the product for the whole of a limit order, rounded
once, is at least the products for its parts, each rounded on its own, and the
price paid never exceeds the limit (`DivBounds` and the lemmas after it, for any
precision). A step that takes from what is held is shown to take no more from what
is due (one lemma per step). From it follow that both transfers of each match are
made, so the two errors `processMatch` drops are never returned, and with `VetInv`
that no product overflows although `calculateHold` vets only buys. `RestInv` adds
to `TrackInv` that what is tracked rests or is on its way out.

**The trader.** `NoOlderAnswer` is an action property, the others are invariants; all
six come from `TradingInv`, whose parts are

- `Presses`: an order's call carries what the form showed at its press, no other call
  or instruction is of that press while it is being posted. `PlacedAsShown` alone is
  not inductive: the next post could be the second of its press.
- `Buttons`: the rows disabled are exactly the cancels begun in the table mounted
  now, one per order, so that the end of an earlier table's cancel enables nothing.
- `EngineFits`: each order of the TEE stands for a settled instruction, or for a cancel
  that has yet to release its hold, so no two have one number, and what is held of a
  token is the sum over the open orders and those being released (with the lemmas of
  `TableProofs`).
- `AnswersFit`: an answer, in the cache or under way, is of one user, and its balances
  cover its orders (`Covered`). That of a query half read is the heart of it: between
  its two reads nothing is placed or matched, so the orders read later are among those
  that the balances read before were held for (`ReadFits`, `CancelFits`, `ReleaseFits`).
  One under way is no older than the last success reported to that user, or is the
  first for the account (`NotOlder`), since that success dropped a query before it if
  something was cached. From these follow `OwnRows` and `NoOlderAnswer`.
- `Cards`: a card's number is its own, and its steps are where its call is (`Posting`,
  `Polling`), or closed; a card dismissed is out of reach of its handle.
- `Counted`: a call that polls waits for an instruction of its own, and the cards that
  say "done" are no more than the instructions done that no call waits for. A success
  adds one to both; a call that gave up leaves an instruction done and a card failed.

**The market page.** `Types` says what the state is made of, and that an answer, in the
cache or under way, is for its key: `PageShown` and `PagePrefill`, for which the page's
  clicked price is one of its pair, follow from it and
from what the ladder does with levels (`LadderParts`). The rest is about time: the
ring goes on while an answer of it travels, and the chart was drawn from an older one.

- `CandlesFit`: the cached answer, the answer under way and the ring are runs of candles
  as one ring pushed them (`Chain`), each an older state of the next (`Follows`). As
  long as the clock did not step back their times ascend. `PageBarsContinuous` is a fact
  about the bars that `FromServerCandles` makes of such a run (`BarsOfFits`).
- `ChartFits`: what the chart drew last, for which pair and timeframe, and that its
  series ends with it (`Drew`). `Drawn` chooses between a redraw and an update of the
  last bar by comparing lengths and times; `CandlesFit` at the moment of the answer
  rules out the changes in which that comparison would mislead it.
- `RingsTell`, `AnswersTell`: trades can be counted. A ring stands for at most the
  trades there were and closes at the newest; an answer stands for the oldest of
  them and closes at the newest of those (`Tells`); the tape of an answer is the newest
  part, as long as the limit lets it be, of a known number of them. So an answer for the candles and one for the books that count the same
  trades agree, however far apart they were taken.
- `RingsAgree`: of two timeframes, one a multiple of the other, the last candles are of
  one trade (`Together`) and each coarse candle is the merge of the fine ones of its
  interval while these are still there (`Agree`). The merge is stated by bounds that are
  reached (`Merged`), which is how a trade changes it, and shown to be the greatest and
  the least that `TimeframesAgree` speaks of (`MergedIs`). That the fine candles are all
  there is known from the count of trades, since a ring that dropped one counts fewer.

**The wallet.** `WalletInv` has seven parts, proved in the order in which they lean
on one another:

- `SessionInv`: as long as no bind was signed by another wallet there is one key per
  account that the stored session, the bindings, the binds on their way and the
  connection agree on (`OneKey`); a key derived at a login is newer than any kept
  (`FreshLogin`); nonces are behind the clock (`Clocked`); what was seen bound is
  bound until the TEE restarts (`StillBound`).
- `SlipsInv`: a request past its nonce check has its nonce at or below the one the
  TEE keeps (`NoncesTaken`), so of two deliveries one is refused.
- `PaymentInv`: a signed payment the page saw is recorded until its nonce passed
  (`SeenRecorded`), a flow is about the newest request of its account
  (`FlowIsNewest`), every nonce consumed was consumed by a payment (`Consumed`);
  so a new request is made only when each signed rival was left (`Alone`).
- `OpsInv`: operations, calls and slips belong to users that were connected, each
  call to the one operation that waits for it (`CallsOwned`), and every slip that the
  page, the relay or the contract has is signed (`SlipsHad`).
- `SlipKept`, then `Backed`: each step changes what the vault has, and what is owed to
  one user or missing, by the same amount; the sums over users, deposits and slips
  are `UnitSum`'s.
- `FaucetFits`: the card's failed steps are the mints that failed, and while it runs
  its cursor is at the token being minted.

Only model-checked: liveness (`RequestsEnd`, `CallsEnd`, `OpsEnd`: fairness and ENABLED
are out of the provers' reach), and the five violations, which are counterexamples.
Every invariant and every action property of the passing runs is a theorem.

## 5. Not modelled, and the plan

Not modelled, each with its reason in `PROJECT.json`: the test token, start-up
and configuration, the decoder, tools and scripts. Of the modelled parts:

- a directory entry lost after the rename, by a crash of the machine, is outside
  `BalanceStore`, and so is a snapshot path that changes between two starts;
- in `Funds` a snapshot is current or absent: one left behind by a failed write is
  `BalanceStore`'s;
- the delivery of an on-chain instruction exactly once is the proxy's and the
  TEE node's, outside this repository: a DEPOSIT is credited once in `Funds`;
- the contract's allowlist, pause and administrative functions; a refusal by
  them is a transaction that fails (`EvmApproves`, `NotCarried`);
- volumes of candles, the per-user and per-pair histories, EXPORT_HISTORY;
- toasts, wording and number formatting, with the percent and MAX buttons'
  rounding to four decimals, which may ask for a little more than there is and
  be refused; the 24-hour figures of the pair list (`useAllPairStats.ts`), the
  search field, the widths of panels, the bottom panel's height, the history tab, the TEE banner
  (`TeeProxyStatus.tsx`), the UI kit and the generated configuration;
- `bucketMatches`, `lib/withdraw.ts`, `lib/deposit.ts` and
  `refreshPendingFsaOp`, which no page uses.

What is left is to model more, where the list above says so; of what is modelled,
the liveness properties have no proof.
