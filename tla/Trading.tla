------------------------------- MODULE Trading -------------------------------
(***************************************************************************)
(* A trader at the order form: OrderForm, OpenOrders, MyFills, the hooks   *)
(* usePlaceOrder, useCancelOrder, useMyState, the direct-instruction       *)
(* client (lib/teeClient.ts, lib/orderbook.ts) and the progress tray, with *)
(* the proxy and the TEE reduced to what the browser can tell apart.       *)
(*                                                                         *)
(* Everything the browser sends is an instruction: posted, run by the TEE  *)
(* some time later or not at all, its result polled until the client gives *)
(* up.  A client that gave up does not stop the instruction.  A state      *)
(* query is an instruction too; react-query keeps one answer per address.  *)
(***************************************************************************)
EXTENDS ActionTray, Integers, FiniteSets, Functions, UnitSum

CONSTANTS Users,        \* addresses that can be connected in this browser
          Other,        \* the owner of every counter-order
          Pairs,        \* PAIRS of the generated configuration
          FormSides, Types, \* "buy"/"sell", "limit"/"market"
          Prices, Quantities,  \* what can be typed: positive numbers
          Funds,        \* user |-> the available amount of each token at the start
          MaxSubmits, MaxCancels, MaxInterruptions, MaxVersion  \* bounds

VARIABLES
  engine,      \* the TEE: [open, releasing, matches, balances, version], releasing the
               \* orders that a cancel has taken out and whose hold it has yet to release
  instr,       \* the orders and cancels posted: sequence of [req, press, status]
  address,     \* useIdentity: the connected address or NoUser
  form,        \* OrderForm: its fields (0 for an empty text) and its mutation
  decimals,    \* the tokens' decimals have been read
  calls,       \* the mutations under way: job |-> [pc, req, press, act]
  cancelling,  \* OpenOrders' set of rows whose button is disabled
  jobs,        \* the tray
  cache,       \* react-query: last answer of ["myState", user]
  fetch,       \* react-query: the query under way for ["myState", user]
  pressed,     \* what the form showed at each press, one entry per submit
  floor,       \* version at which a success was last reported to this user
  used         \* wallet changes, cancels and mounts so far, and the table's mount

page == <<address, form, decimals, cancelling, pressed, used>>
query == <<cache, fetch, floor>>
trading == <<engine, instr, calls, jobs, page, query>>

NoUser == "none"
None == [version |-> 0]

ASSUME TradingAssumption ==
  /\ "buy" \in FormSides /\ FormSides \subseteq {"buy", "sell"}
  /\ "limit" \in Types /\ Types \subseteq {"limit", "market"}
  /\ Pairs # {} /\ Prices # {}
  /\ Prices \subseteq Nat \ {0} /\ Quantities \subseteq Nat \ {0}
  /\ Funds \in [Users -> Nat] /\ {Other, NoUser} \cap Users = {}
  /\ {MaxSubmits, MaxCancels, MaxInterruptions} \subseteq Nat /\ MaxVersion \in Nat \ {0}

\* The distinct tokens of the configured pairs.
Tokens == {"base", "quote"}
PLACE_ORDER_STEPS == 2
CANCEL_ORDER_STEPS == 2

-----------------------------------------------------------------------------
(* Requests and answers of lib/orderbook.ts.                               *)

PlaceOrderReq == [sender : Users, pair : Pairs, side : FormSides, type : Types,
                  price : Prices \cup {0}, quantity : Quantities]
CancelOrderReq == [sender : Users, orderId : Nat]
OpenOrder == [id : Nat, owner : Users, pair : Pairs, side : FormSides,
              price : Prices, remaining : Quantities]
BookMatch == [id : Nat, buyOwner : Users \cup {Other}, sellOwner : Users \cup {Other},
              pair : Pairs]
TokenBalance == [available : Nat, held : Nat]
GetMyStateResp == [version : 1..MaxVersion, balances : [Tokens -> TokenBalance],
                   openOrders : SUBSET OpenOrder, matches : SUBSET BookMatch]

\* What GET_MY_STATE answers: this user's part of the state, the balances being
\* those of the moment at which they were read.
MyState(u, version, balances) ==
  [version |-> version, balances |-> balances,
   openOrders |-> {o \in engine.open : o.owner = u},
   matches |-> {m \in engine.matches : u \in {m.buyOwner, m.sellOwner}}]
MyStateNow(u) == MyState(u, engine.version, engine.balances[u])

\* Mutant: a query that keeps the answer it has until the new key's arrives.
ShownOfAnyone ==
  IF address = NoUser THEN None
  ELSE IF cache[address] # None \/ \A u \in Users : cache[u] = None THEN cache[address]
  ELSE cache[CHOOSE u \in Users : cache[u] # None]

\* useMyState: the cached answer of the connected address, nothing without one.
Shown == IF address = NoUser THEN None ELSE cache[address]
ShownOrders == IF Shown = None THEN {} ELSE Shown.openOrders
ShownMatches == IF Shown = None THEN {} ELSE Shown.matches
ShownAvailable(t) == IF Shown = None THEN 0 ELSE Shown.balances[t].available

\* MyFills: the rows of the selected pair, each with the side it is given.
MyFillsRows ==
  {[match |-> m, side |-> IF m.buyOwner = address THEN "buy" ELSE "sell"] :
     m \in {x \in ShownMatches : x.pair = form.pair}}

\* OpenOrders: the rows and whether their CANCEL button can be pressed.
OpenOrdersRows == {[order |-> o, enabled |-> o.id \notin cancelling] : o \in ShownOrders}

\* Balances: a row per token; without the token's decimals it shows a dash.
BalancesRows ==
  IF Shown = None \/ ~decimals THEN <<>>
  ELSE [t \in Tokens |-> [available |-> ShownAvailable(t), held |-> Shown.balances[t].held]]

SpentToken(side) == IF side = "buy" THEN "quote" ELSE "base"
GainedToken(side) == IF side = "buy" THEN "base" ELSE "quote"
Cost(side, price, qty) == IF side = "buy" THEN price * qty ELSE qty
Gain(side, price, qty) == IF side = "buy" THEN qty ELSE price * qty

-----------------------------------------------------------------------------
(* The browser.                                                            *)

FetchIdle == [pc |-> "idle"]
FetchWaiting == [pc |-> "waiting"]

\* Mutant: an invalidation that joins the fetch under way.
InvalidateIdle(f) ==
  IF address = NoUser \/ f[address] # FetchIdle THEN f ELSE [f EXCEPT ![address] = FetchWaiting]

\* The fetch that an invalidation of the active key starts: it drops the one under
\* way if there is an answer in the cache, and joins it when it is to be the first.
Invalidate(f) ==
  IF address = NoUser \/ (cache[address] = None /\ f[address] # FetchIdle) THEN f
  ELSE [f EXCEPT ![address] = FetchWaiting]

\* A mutation that succeeded invalidates the user's state.
ReportSuccess ==
  /\ fetch' = Invalidate(fetch)
  /\ floor' = IF address = NoUser THEN floor ELSE [floor EXCEPT ![address] = engine.version]

IsConnected == address # NoUser

\* The form's own mutation is under way; a form mounted anew has none.
IsPending == form.job \in DOMAIN calls

CanSubmit == /\ IsConnected
             /\ ~IsPending
             /\ form.quantity > 0
             /\ form.type = "market" \/ form.price > 0

\* What one press of the button asks for (submit), with the sender the hook adds.
\* usePlaceOrder scales price and quantity to the tokens' raw units, one to one
\* on the amounts used here.
RequestOf(f, sender) ==
  [sender |-> sender, pair |-> f.pair, side |-> f.side, type |-> f.type,
   price |-> IF f.type = "limit" THEN f.price ELSE 0, quantity |-> f.quantity]

\* nextJobId: one per submit and one per cancel.
NextJob == Len(pressed) + used.cancels
NoJob == MaxSubmits + MaxCancels

EmptyForm(pair) == [pair |-> pair, side |-> "buy", type |-> "limit", price |-> 0,
                    quantity |-> 0, job |-> NoJob]

Init ==
  /\ engine = [open |-> {}, releasing |-> {}, matches |-> {}, version |-> 1,
               balances |-> [u \in Users |-> [t \in Tokens |-> [available |-> Funds[u], held |-> 0]]]]
  /\ instr = <<>> /\ calls = <<>> /\ jobs = <<>> /\ pressed = <<>>
  /\ address = NoUser /\ decimals = FALSE /\ cancelling = {}
  /\ form = EmptyForm(CHOOSE p \in Pairs : TRUE)
  /\ cache = [u \in Users |-> None]
  /\ fetch = [u \in Users |-> FetchIdle]
  /\ floor = [u \in Users |-> 0]
  /\ used = [switches |-> 0, cancels |-> 0, mounts |-> 0, table |-> 0]

\* Bound on the wallet changes and mounts together.
Interruptible == used.switches + used.mounts < MaxInterruptions

\* The wallet connects, changes account or disconnects; the key of a newly
\* connected address is mounted and fetched, unless its fetch is under way.
SwitchWallet(u) ==
  /\ Interruptible /\ u # address
  /\ used' = [used EXCEPT !.switches = @ + 1]
  /\ address' = u
  /\ fetch' = IF u = NoUser \/ fetch[u] # FetchIdle THEN fetch
              ELSE [fetch EXCEPT ![u] = FetchWaiting]
  /\ UNCHANGED <<engine, instr, calls, jobs, form, decimals, cancelling, pressed, cache, floor>>

\* The entry panel is hidden and restored, or the activity tab changed and
\* changed back: the component's state is gone, its mutations go on.
RemountEntry ==
  /\ Interruptible /\ used' = [used EXCEPT !.mounts = @ + 1]
  /\ form' = EmptyForm(form.pair)
  /\ UNCHANGED <<engine, instr, calls, jobs, address, decimals, cancelling, pressed, query>>
RemountOrders ==
  /\ Interruptible
  /\ used' = [used EXCEPT !.mounts = @ + 1, !.table = used.mounts + 1]
  /\ cancelling' = {}
  /\ UNCHANGED <<engine, instr, calls, jobs, address, decimals, form, pressed, query>>

\* useWalletBalances: the decimals are read once and never go stale.
LoadDecimals ==
  /\ ~decimals /\ decimals' = TRUE
  /\ UNCHANGED <<engine, instr, calls, jobs, address, form, cancelling, pressed, used, query>>

\* The trader edits one field of the form; a pair change is the page's and
\* leaves the form's texts as they are.
Edit ==
  /\ \/ \E s \in FormSides : form' = [form EXCEPT !.side = s]
     \/ \E t \in Types : form' = [form EXCEPT !.type = t]
     \/ \E p \in Prices : form' = [form EXCEPT !.price = p]
     \/ \E q \in Quantities : form' = [form EXCEPT !.quantity = q]
     \/ \E p \in Pairs : form' = [form EXCEPT !.pair = p]
  /\ form' # form
  /\ UNCHANGED <<engine, instr, calls, jobs, address, decimals, cancelling, pressed, used, query>>

\* fillPct: a share of the available amount, for a buy only at a positive price.
FillPct ==
  /\ form.side = "sell" \/ form.price > 0
  /\ \E part \in 0..ShownAvailable(SpentToken(form.side)) :
        LET q == IF form.side = "sell" THEN part ELSE part \div form.price
        IN q \in Quantities \cup {0} /\ form' = [form EXCEPT !.quantity = q]
  /\ form' # form
  /\ UNCHANGED <<engine, instr, calls, jobs, address, decimals, cancelling, pressed, used, query>>

With(f, k, v) == [x \in DOMAIN f \cup {k} |-> IF x = k THEN v ELSE f[x]]
NewCall(req, press) ==
  [pc |-> "post", req |-> req, press |-> press, act |-> 0, table |-> used.table]

\* submit: the tray job starts and the mutation with it.  Without the tokens'
\* decimals the mutation throws before anything is sent.
Submit ==
  /\ CanSubmit /\ Len(pressed) < MaxSubmits
  /\ LET req == RequestOf(form, address)
         started == Start(jobs, NextJob, PLACE_ORDER_STEPS)
     IN /\ pressed' = Append(pressed, req)
        /\ IF decimals
             THEN /\ calls' = With(calls, NextJob, NewCall(req, Len(pressed) + 1))
                  /\ form' = [form EXCEPT !.job = NextJob]
                  /\ jobs' = started
             ELSE /\ jobs' = Update(started, NextJob, Fail)
                  /\ UNCHANGED <<calls, form>>
  /\ UNCHANGED <<engine, instr, address, decimals, cancelling, used, query>>

\* handleCancel on a row whose button is enabled.
Cancel(row) ==
  /\ row.enabled /\ used.cancels < MaxCancels
  /\ used' = [used EXCEPT !.cancels = @ + 1]
  /\ jobs' = Start(jobs, NextJob, CANCEL_ORDER_STEPS)
  /\ cancelling' = cancelling \cup {row.order.id}
  /\ calls' = With(calls, NextJob, NewCall([sender |-> address, orderId |-> row.order.id], 0))
  /\ UNCHANGED <<engine, instr, address, decimals, form, pressed, query>>

IsPlace(req) == "pair" \in DOMAIN req

\* Mutant: the request read from the page when it is sent.
InstructionFromPage(req, press) ==
  [req |-> IF IsPlace(req) /\ address # NoUser THEN RequestOf(form, address) ELSE req,
   press |-> press, status |-> "queued"]

\* postDirect: the proxy takes the instruction as the mutation holds it.
Instruction(req, press) == [req |-> req, press |-> press, status |-> "queued"]

\* postDirect answers: the tray moves to the second step.
Posted(j) ==
  /\ calls[j].pc = "post"
  /\ instr' = Append(instr, Instruction(calls[j].req, calls[j].press))
  /\ calls' = [calls EXCEPT ![j].pc = "poll", ![j].act = Len(instr) + 1]
  /\ jobs' = Update(jobs, j, Advance)
  /\ UNCHANGED <<engine, page, query>>

\* Mutant: no finally.
ButtonsKept(c) == cancelling

\* What follows a mutation's end in the component that called it: the form
\* empties its quantity on success; a cancel's button is enabled either way.
\* A component mounted since then is not the one that called.
FormAfter(j, ok) == IF ok /\ form.job = j THEN [form EXCEPT !.quantity = 0] ELSE form
ButtonsAfter(c) == IF IsPlace(c.req) \/ c.table # used.table THEN cancelling
                   ELSE cancelling \ {c.req.orderId}

MutationOver(j, ok) ==
  /\ calls' = Restrict(calls, DOMAIN calls \ {j})
  /\ jobs' = IF ok THEN Update(jobs, j, Finish) ELSE Update(jobs, j, Fail)
  /\ form' = FormAfter(j, ok)
  /\ cancelling' = ButtonsAfter(calls[j])
  /\ UNCHANGED <<engine, address, decimals, pressed, used, cache>>

\* postDirect throws: refused, or the answer was lost after the proxy took it.
Refused(j) ==
  /\ calls[j].pc = "post"
  /\ MutationOver(j, FALSE)
  /\ \/ UNCHANGED instr
     \/ instr' = Append(instr, Instruction(calls[j].req, calls[j].press))
  /\ UNCHANGED <<fetch, floor>>

\* Mutant: every answer that is not "pending" is taken for a result.
PollAnswered(status) == status # "queued"

\* What the client makes of a polled result: only status 1 is an answer; 0
\* (failed), 2 (pending: the TEE has not run it) and the last attempt throw.
PollOk(status) == status = "done"

Succeeds(j) ==
  /\ calls[j].pc = "poll" /\ PollOk(instr[calls[j].act].status)
  /\ MutationOver(j, TRUE)
  /\ ReportSuccess
  /\ UNCHANGED instr

\* Mutant: a client that polls until there is a result.
FailsOnResult(j) ==
  /\ calls[j].pc = "poll" /\ instr[calls[j].act].status = "failed"
  /\ MutationOver(j, FALSE)
  /\ UNCHANGED <<instr, fetch, floor>>

\* The attempts may end although the result exists: every request for it failed.
Fails(j) ==
  /\ calls[j].pc = "poll"
  /\ MutationOver(j, FALSE)
  /\ UNCHANGED <<instr, fetch, floor>>

\* The timer of a finished job, or the card's button.
DismissCard(j) ==
  /\ jobs' = Dismiss(jobs, j.id)
  /\ UNCHANGED <<engine, instr, calls, page, query>>
TimerDismiss == \E j \in Range(jobs) : CardState(j) \in {"done", "partial"} /\ DismissCard(j)
ButtonDismiss == \E j \in Visible(jobs) : DismissCard(j)

\* The 3 s timer of the connected address.
Refetch ==
  /\ address # NoUser /\ fetch[address] = FetchIdle
  /\ cache[address] # MyStateNow(address)
  /\ fetch' = [fetch EXCEPT ![address] = FetchWaiting]
  /\ UNCHANGED <<engine, instr, calls, jobs, page, cache, floor>>

\* processGetMyState: the balances are read, then the orders, under e.mu.RLock: a
\* cancel may take an order out or release its hold between, nothing is placed.
ReadBalances(u) ==
  /\ fetch[u] = FetchWaiting
  /\ fetch' = [fetch EXCEPT ![u] = [pc |-> "reading", version |-> engine.version, balances |-> engine.balances[u]]]
  /\ UNCHANGED <<engine, instr, calls, jobs, page, cache, floor>>
\* The answer is on its way.
ReadOrders(u) ==
  /\ fetch[u].pc = "reading"
  /\ fetch' = [fetch EXCEPT ![u] = [pc |-> "answered", data |-> MyState(u, @.version, @.balances)]]
  /\ UNCHANGED <<engine, instr, calls, jobs, page, cache, floor>>

\* Mutant: the state read without e.mu.
ReadUnlocked == FALSE
Reading == \E u \in Users : fetch[u].pc = "reading"

ApplyAnswer(u) ==
  /\ fetch[u].pc = "answered"
  /\ cache' = [cache EXCEPT ![u] = fetch[u].data]
  /\ fetch' = [fetch EXCEPT ![u] = FetchIdle]
  /\ UNCHANGED <<engine, instr, calls, jobs, page, floor>>

\* The query throws; retry is off and the cached answer stays.
QueryFails(u) ==
  /\ fetch[u] # FetchIdle
  /\ fetch' = [fetch EXCEPT ![u] = FetchIdle]
  /\ UNCHANGED <<engine, instr, calls, jobs, page, cache, floor>>

-----------------------------------------------------------------------------
(* The TEE, as far as the browser sees it.                                 *)

Settle(k, status, e) ==
  /\ instr' = [instr EXCEPT ![k].status = status]
  /\ engine' = [e EXCEPT !.version = IF e = engine THEN @ ELSE @ + 1]
  /\ UNCHANGED <<calls, jobs, page, query>>

\* Mutant: the hold booked with the wrong sign.
MoveReversed(bal, u, token, avail, held) ==
  [bal EXCEPT ![u][token] = [available |-> @.available + avail, held |-> @.held - held]]
Move(bal, u, token, avail, held) ==
  [bal EXCEPT ![u][token] = [available |-> @.available + avail, held |-> @.held + held]]

\* A match of a resting or incoming order against the Other trader's.
MatchOf(id, r) ==
  [id |-> id, pair |-> r.pair,
   buyOwner |-> IF r.side = "buy" THEN r.owner ELSE Other,
   sellOwner |-> IF r.side = "buy" THEN Other ELSE r.owner]

ExecPrice(r) == IF r.price = 0 THEN CHOOSE p \in Prices : \A x \in Prices : p <= x ELSE r.price

\* PLACE_ORDER: refused; or resting with its amount held; or traded at once.  One
\* step, as e.mu is locked from before the hold to the answer.
ExecutePlace(k) ==
  /\ IsPlace(instr[k].req) /\ instr[k].status = "queued"
  /\ engine.version < MaxVersion /\ ~Reading
  /\ LET r == instr[k].req
         p == ExecPrice(r)
         cost == Cost(r.side, p, r.quantity)
         order == [id |-> k, owner |-> r.sender, pair |-> r.pair, side |-> r.side,
                   price |-> p, remaining |-> r.quantity]
         enough == engine.balances[r.sender][SpentToken(r.side)].available >= cost
     IN \/ /\ ~enough
           /\ Settle(k, "failed", engine)
        \/ /\ enough /\ r.type = "limit"
           /\ Settle(k, "done", [engine EXCEPT !.open = @ \cup {order},
                !.balances = Move(@, r.sender, SpentToken(r.side), 0 - cost, cost)])
        \/ /\ enough
           /\ Settle(k, "done", [engine EXCEPT !.matches = @ \cup {MatchOf(k, order)},
                !.balances = Move(Move(@, r.sender, SpentToken(r.side), 0 - cost, 0), r.sender,
                                  GainedToken(r.side), Gain(r.side, p, r.quantity), 0)])

\* CANCEL_ORDER: the owner's resting order leaves the book ...
ExecuteCancel(k) ==
  /\ ~IsPlace(instr[k].req) /\ instr[k].status = "queued"
  /\ LET mine == {o \in engine.open : o.id = instr[k].req.orderId /\ o.owner = instr[k].req.sender}
     IN \/ mine = {} /\ Settle(k, "failed", engine)
        \/ \E o \in mine :
             /\ instr' = [instr EXCEPT ![k].status = "removed"]
             /\ engine' = [engine EXCEPT !.open = @ \ {o}, !.releasing = @ \cup {o}]
             /\ UNCHANGED <<calls, jobs, page, query>>
\* ... and, with no lock held, its hold is released.  What is left under e.mu, the
\* tracking, shows to nobody.
ReleaseCancelled(k) ==
  /\ instr[k].status = "removed" /\ engine.version < MaxVersion
  /\ \E o \in engine.releasing :
       LET cost == Cost(o.side, o.price, o.remaining)
       IN /\ o.id = instr[k].req.orderId
          /\ Settle(k, "done", [engine EXCEPT !.releasing = @ \ {o},
               !.balances = Move(@, o.owner, SpentToken(o.side), cost, 0 - cost)])

\* Another trader's order takes a resting one.
TradeResting(o) ==
  /\ engine.version < MaxVersion /\ ~Reading
  /\ engine' = [engine EXCEPT !.open = @ \ {o}, !.version = @ + 1,
       !.matches = @ \cup {MatchOf(o.id, o)},
       !.balances = Move(Move(@, o.owner, SpentToken(o.side), 0, 0 - Cost(o.side, o.price, o.remaining)),
                         o.owner, GainedToken(o.side), Gain(o.side, o.price, o.remaining), 0)]
  /\ UNCHANGED <<instr, calls, jobs, page, query>>

Client == \E j \in DOMAIN calls : Posted(j) \/ Refused(j) \/ Succeeds(j) \/ Fails(j)

Next ==
  \/ \E u \in Users \cup {NoUser} : SwitchWallet(u)
  \/ RemountEntry \/ RemountOrders \/ LoadDecimals \/ Edit \/ FillPct \/ Submit
  \/ \E row \in OpenOrdersRows : Cancel(row)
  \/ Client
  \/ TimerDismiss \/ ButtonDismiss \/ Refetch
  \/ \E u \in Users : ReadBalances(u) \/ ReadOrders(u) \/ ApplyAnswer(u) \/ QueryFails(u)
  \/ \E k \in DOMAIN instr : ExecutePlace(k) \/ ExecuteCancel(k) \/ ReleaseCancelled(k)
  \/ \E o \in engine.open : TradeResting(o)

\* Polls end after their attempts and timers fire; nothing is assumed of the
\* trader, the network or the TEE.
Fairness == WF_trading(Client) /\ WF_trading(TimerDismiss)

Spec == Init /\ [][Next]_trading /\ Fairness

-----------------------------------------------------------------------------
TypeOK ==
  /\ engine.open \cup engine.releasing \subseteq OpenOrder /\ engine.matches \subseteq BookMatch
  /\ engine.balances \in [Users -> [Tokens -> TokenBalance]]
  /\ address \in Users \cup {NoUser}
  /\ \A u \in Users : cache[u] = None \/ cache[u] \in GetMyStateResp
  /\ \A k \in DOMAIN pressed : pressed[k] \in PlaceOrderReq
  /\ \A k \in DOMAIN instr : instr[k].req \in PlaceOrderReq \cup CancelOrderReq
  /\ \A k \in DOMAIN jobs : jobs[k] \in Job(2)
  /\ cancelling \subseteq Nat

\* One press of the submit button is at most one instruction, and what the TEE
\* is asked is what the form showed at that press: a pair, a field or an account
\* changed while the order was under way does not reach it.
PlacedAsShown ==
  LET placed == {k \in DOMAIN instr : IsPlace(instr[k].req)}
  IN /\ \A k \in placed : instr[k].req = pressed[instr[k].press]
     /\ \A k, l \in placed : instr[k].press = instr[l].press => k = l

\* A card of the tray is in order at every moment; it says "done" only of an
\* instruction the TEE has carried out, and "running" only of a call under way.
TrayTellsTheTruth ==
  /\ \A j \in Range(jobs) : JobWellFormed(j) /\ (CardState(j) = "running" => j.id \in DOMAIN calls)
  /\ Cardinality({j \in Range(jobs) : CardState(j) = "done"})
       <= Cardinality({k \in DOMAIN instr : instr[k].status = "done"})

\* A row's button is disabled only while a cancel of its order is under way, and
\* while one is: unless the table was mounted anew, which forgets it.
ButtonFollowsCancel ==
  LET underWay == {calls[j].req.orderId : j \in {i \in DOMAIN calls : ~IsPlace(calls[i].req)}}
  IN cancelling \subseteq underWay /\ (used.mounts = 0 => cancelling = underWay)

\* The rows of MyFills and OpenOrders are the connected user's own, a fill on the
\* side the user took, and Balances' HELD covers what those open orders hold (it is
\* more for a moment while a cancel is carried out): whatever accounts were connected
\* before, whichever answer is under way and whenever the TEE read its two halves.
FillsAreMine ==
  /\ \A r \in MyFillsRows : address = IF r.side = "buy" THEN r.match.buyOwner ELSE r.match.sellOwner
  /\ \A o \in ShownOrders : o.owner = address
  /\ \A t \in DOMAIN BalancesRows :
        BalancesRows[t].held >= Total([o \in {x \in ShownOrders : SpentToken(x.side) = t} |->
                                         Cost(o.side, o.price, o.remaining)])

\* After a success was reported, an answer of before it is not applied any more, so
\* that the rows that follow contain the order's effect; only the very first answer
\* for an account may be older, as the invalidation joins its query.
FreshAfterSuccess ==
  [][\A u \in Users : address = u /\ cache'[u] # cache[u] /\ cache[u] # None
                        => cache'[u].version >= floor[u]]_trading

\* Every submit and cancel comes to an end, answered or not: the form and the rows
\* come back, and the card of an order that went through goes away by itself.
CallsEnd == []<>(calls = <<>>) /\ []<>(\A j \in Range(jobs) : CardState(j) # "done")
=============================================================================
