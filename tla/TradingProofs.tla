----------------------------- MODULE TradingProofs -----------------------------
(***************************************************************************)
(* Proofs about the trader's page: every invariant that the module Trading *)
(* states holds for any users, pairs, prices, quantities, funds and        *)
(* bounds, and so does what a step may never do (FreshAfterSuccess).  The  *)
(* inductive invariant TradingInv has a part for each promise:             *)
(*   PageShape   what the form, the calls and the instructions are;        *)
(*   Presses     a call carries what the form showed at its press, and     *)
(*               nothing else was posted of that press;                    *)
(*   Buttons     the rows disabled are the cancels of the table mounted;   *)
(*   EngineFits  the TEE holds what its open orders and those about to be  *)
(*               released hold, token by token;                            *)
(*   AnswersFit  an answer, applied, under way or half read, is of one     *)
(*               user, holds enough for its orders and is, unless it is    *)
(*               the first, no older than the last success reported;       *)
(*   Cards       a card is as far as its call is, and closes with it;      *)
(*   Counted     cards that say "done" are no more than the instructions   *)
(*               done whose calls have ended.                              *)
(* They are proved in this order; each one needs some of those before it.  *)
(***************************************************************************)
EXTENDS Trading, TableProofs

-----------------------------------------------------------------------------
(* The invariant, by parts.                                                *)

\* What a request, an instruction, the form, a call and the TEE's state are.
Req == PlaceOrderReq \cup CancelOrderReq
Instr == [req : Req, press : Nat, status : {"queued", "removed", "done", "failed"}]
Form == [pair : Pairs, side : FormSides, type : Types, price : Prices \cup {0},
         quantity : Quantities \cup {0}, job : Nat]
CallType == [pc : {"post", "poll"}, req : Req, press : Nat, act : Nat, table : Nat]
Used == [switches : Nat, cancels : Nat, mounts : Nat, table : Nat]
Engine == [open : SUBSET OpenOrder, releasing : SUBSET OpenOrder, matches : SUBSET BookMatch,
           balances : [Users -> [Tokens -> TokenBalance]], version : 1..MaxVersion]

\* Type correctness of what the page keeps; a call's number was given out before.
PageShape ==
  /\ instr \in Seq(Instr) /\ pressed \in Seq(PlaceOrderReq)
  /\ address \in Users \cup {NoUser} /\ form \in Form /\ cancelling \subseteq Nat
  /\ used \in Used
  /\ calls \in [DOMAIN calls -> CallType] /\ DOMAIN calls \subseteq 0..(NextJob - 1)

\* An order's call carries what the form showed at one press, and no other call
\* or instruction is of that press.
Places(j) == IsPlace(calls[j].req)
Placed == {k \in DOMAIN instr : IsPlace(instr[k].req)}

Presses ==
  /\ \A j \in DOMAIN calls : Places(j) =>
       /\ calls[j].press \in DOMAIN pressed /\ calls[j].req = pressed[calls[j].press]
       /\ calls[j].pc = "post" => \A k \in Placed : instr[k].press # calls[j].press
  /\ \A i, j \in DOMAIN calls : Places(i) /\ Places(j) /\ calls[i].press = calls[j].press => i = j
  /\ \A k \in Placed : instr[k].press \in DOMAIN pressed
  /\ PlacedAsShown

\* The buttons follow the cancels of the table that is mounted.
Mounted(j) == ~Places(j) /\ calls[j].table = used.table
OrderOf(j) == calls[j].req.orderId

Buttons ==
  /\ used.table <= used.mounts
  /\ \A j \in DOMAIN calls : calls[j].table <= used.table
  /\ \A id \in cancelling : \E j \in DOMAIN calls : Mounted(j) /\ OrderOf(j) = id
  /\ \A i, j \in DOMAIN calls : Mounted(i) /\ Mounted(j) /\ OrderOf(i) = OrderOf(j) => i = j
  /\ \A j \in DOMAIN calls : Mounted(j) => OrderOf(j) \in cancelling

\* What is held is what the open orders hold, and those whose cancel is half done.
Dues(orders) == [o \in orders |-> Cost(o.side, o.price, o.remaining)]
OfToken(orders, t) == {o \in orders : SpentToken(o.side) = t}
Owing == engine.open \cup engine.releasing
OwingOf(u) == {o \in Owing : o.owner = u}

EngineFits ==
  /\ engine \in Engine /\ IsFiniteSet(Owing) /\ engine.open \cap engine.releasing = {}
  /\ \A o \in Owing : o.id \in DOMAIN instr /\ instr[o.id].status # "queued"
  /\ \A u \in Users, t \in Tokens : engine.balances[u][t].held = Total(Dues(OfToken(OwingOf(u), t)))

\* Balances that hold enough for these orders.
Covered(balances, orders) ==
  \A t \in Tokens : balances[t].held >= Total(Dues(OfToken(orders, t)))

\* An answer is of one user.
AnswerFits(u, d) ==
  /\ d \in GetMyStateResp /\ d.version <= engine.version
  /\ \A o \in d.openOrders : o.owner = u
  /\ \A m \in d.matches : u \in {m.buyOwner, m.sellOwner}
  /\ Covered(d.balances, d.openOrders)

\* So will the answer be whose balances have been read, whatever has been released since.
ReadFits(u, v, b) ==
  /\ v \in 1..MaxVersion /\ b \in [Tokens -> TokenBalance] /\ v <= engine.version
  /\ Covered(b, OwingOf(u))

\* Only the first answer for a user may be older than a success.
NotOlder(u, v) == cache[u] = None \/ floor[u] <= v

FetchFits(u) ==
  \/ fetch[u] \in {FetchIdle, FetchWaiting}
  \/ \E v, b : /\ fetch[u] = [pc |-> "reading", version |-> v, balances |-> b]
               /\ ReadFits(u, v, b) /\ NotOlder(u, v)
  \/ \E d : fetch[u] = [pc |-> "answered", data |-> d] /\ AnswerFits(u, d) /\ NotOlder(u, d.version)

AnswersFit ==
  /\ cache = [u \in Users |-> cache[u]] /\ fetch = [u \in Users |-> fetch[u]]
  /\ floor \in [Users -> Nat]
  /\ \A u \in Users : /\ cache[u] = None \/ AnswerFits(u, cache[u])
                      /\ FetchFits(u)
                      /\ floor[u] <= engine.version

\* A card follows its call, and closes with it.
Posting(j) == j.cursor = 1 /\ j.steps[1] = "active" /\ j.steps[2] = "pending"
Polling(j) == j.cursor = 2 /\ j.steps[1] = "done" /\ j.steps[2] = "active"
Open(j) == ~j.completed /\ ~j.error
Closed(j) == j.completed /\ \A i \in 1..2 : j.steps[i] \notin {"pending", "active"}

Follows(j) ==
  IF j.id \in DOMAIN calls
  THEN Open(j) /\ IF calls[j.id].pc = "post" THEN Posting(j) ELSE Polling(j)
  ELSE Closed(j)

Cards ==
  /\ jobs \in Seq(Job(2))
  /\ \A k, l \in DOMAIN jobs : jobs[k].id = jobs[l].id => k = l
  /\ \A k \in DOMAIN jobs : jobs[k].id < NextJob /\ Follows(jobs[k])

\* The cards that say "done" are no more than the instructions done whose calls
\* have ended.
Polls(j) == calls[j].pc = "poll"
Acts == {calls[j].act : j \in {i \in DOMAIN calls : Polls(i)}}
DoneInstr == {k \in DOMAIN instr : instr[k].status = "done"}
DoneCards == {j \in Range(jobs) : CardState(j) = "done"}

Counted ==
  /\ \A j \in DOMAIN calls : Polls(j) => calls[j].act \in DOMAIN instr
  /\ \A i, j \in DOMAIN calls : Polls(i) /\ Polls(j) /\ calls[i].act = calls[j].act => i = j
  /\ Cardinality(DoneCards) <= Cardinality(DoneInstr \ Acts)

TradingInv == PageShape /\ Presses /\ Buttons /\ EngineFits /\ AnswersFit /\ Cards /\ Counted

-----------------------------------------------------------------------------
(* The kinds of step.                                                      *)

EditForm == LoadDecimals \/ Edit \/ FillPct
SwitchAction == \E u \in Users \cup {NoUser} : SwitchWallet(u)
CancelAction == \E row \in OpenOrdersRows : Cancel(row)
EndAction == \E j \in DOMAIN calls : Refused(j) \/ Succeeds(j) \/ Fails(j)
PostAction == \E j \in DOMAIN calls : Posted(j)
DismissAction == TimerDismiss \/ ButtonDismiss
QueryAction ==
  Refetch \/ \E u \in Users : ReadBalances(u) \/ ReadOrders(u) \/ ApplyAnswer(u) \/ QueryFails(u)
TeeAction ==
  \/ \E k \in DOMAIN instr : ExecutePlace(k) \/ ExecuteCancel(k) \/ ReleaseCancelled(k)
  \/ \E o \in engine.open : TradeResting(o)

\* Every step is of one of these kinds.
LEMMA Kinds ==
  ASSUME Next
  PROVE  \/ EditForm \/ SwitchAction \/ RemountEntry \/ RemountOrders \/ Submit \/ CancelAction
         \/ PostAction \/ EndAction \/ DismissAction \/ QueryAction \/ TeeAction
BY Zenon DEF Next, Client, EditForm, SwitchAction, CancelAction, EndAction, PostAction, DismissAction,
             QueryAction, TeeAction

\* The instructions and presses of a step: those there were stay, and what an
\* instruction or press is does not change.
InstrGrow ==
  /\ DOMAIN instr \subseteq DOMAIN instr'
  /\ \A k \in DOMAIN instr : instr'[k].req = instr[k].req /\ instr'[k].press = instr[k].press
  /\ \A k \in DOMAIN instr : /\ instr[k].status # "queued" => instr'[k].status # "queued"
                             /\ instr[k].status = "done" => instr'[k].status = "done"

\* What is known of the sequences.
LEMMA SeqTypes ==
  ASSUME PageShape
  PROVE  /\ DOMAIN instr = 1..Len(instr) /\ Len(instr) \in Nat
         /\ DOMAIN pressed = 1..Len(pressed) /\ Len(pressed) \in Nat
         /\ \A k \in DOMAIN instr : instr[k] \in Instr
         /\ \A k \in DOMAIN pressed : pressed[k] \in PlaceOrderReq
         /\ NextJob \in Nat /\ used.cancels \in Nat
         /\ \A j \in DOMAIN calls : calls[j] \in CallType /\ j \in Nat /\ j < NextJob
<1>1. used.cancels \in Nat /\ Len(pressed) \in Nat
  BY DEF PageShape, Used
<1>2. NextJob \in Nat
  BY <1>1 DEF NextJob
<1> QED
  BY <1>1, <1>2 DEF PageShape

\* An order is no cancel.
LEMMA PlaceOrCancel ==
  /\ \A r \in PlaceOrderReq : IsPlace(r) /\ r \in Req
  /\ \A r \in CancelOrderReq : ~IsPlace(r) /\ r.orderId \in Nat /\ r \in Req
  /\ \A r \in Req : IsPlace(r) <=> r \in PlaceOrderReq
<1>1. \A r \in PlaceOrderReq : IsPlace(r)
  BY DEF PlaceOrderReq, IsPlace
<1>2. \A r \in CancelOrderReq : ~IsPlace(r) /\ r.orderId \in Nat
  BY DEF CancelOrderReq, IsPlace
<1> QED
  BY <1>1, <1>2 DEF Req

\* Instructions appended.
LEMMA InstrAppended ==
  ASSUME PageShape, NEW x \in Instr, instr' = Append(instr, x)
  PROVE  /\ instr' \in Seq(Instr) /\ DOMAIN instr' = DOMAIN instr \cup {Len(instr) + 1}
         /\ Len(instr') = Len(instr) + 1 /\ Len(instr) + 1 \notin DOMAIN instr
         /\ instr'[Len(instr) + 1] = x /\ \A k \in DOMAIN instr : instr'[k] = instr[k]
  BY DEF PageShape

\* The instruction that a call has posted.
LEMMA InstructionIs ==
  ASSUME PageShape, NEW j \in DOMAIN calls
  PROVE  /\ Instruction(calls[j].req, calls[j].press) \in Instr
         /\ Instruction(calls[j].req, calls[j].press).req = calls[j].req
         /\ Instruction(calls[j].req, calls[j].press).press = calls[j].press
         /\ Instruction(calls[j].req, calls[j].press).status = "queued"
<1>1. calls[j] \in CallType
  BY SeqTypes
<1> QED
  BY <1>1 DEF Instruction, Instr, CallType

\* An instruction is carried out in part or in full, or refused.
LEMMA Settled ==
  ASSUME PageShape, NEW k \in DOMAIN instr, NEW status \in {"removed", "done", "failed"},
         instr' = [instr EXCEPT ![k].status = status]
  PROVE  /\ instr' \in Seq(Instr) /\ DOMAIN instr' = DOMAIN instr /\ Len(instr') = Len(instr)
         /\ instr'[k].req = instr[k].req /\ instr'[k].press = instr[k].press /\ instr'[k].status = status
         /\ \A l \in DOMAIN instr : l # k => instr'[l] = instr[l]
<1>2. instr[k] \in Instr
  BY SeqTypes
<1>3. PICK x : x = [instr[k] EXCEPT !.status = status]
  OBVIOUS
<1>4. x \in Instr /\ x.req = instr[k].req /\ x.press = instr[k].press /\ x.status = status
  BY <1>2, <1>3 DEF Instr
<1>5. instr' = [instr EXCEPT ![k] = x]
  BY <1>3, Zenon
<1>6. instr \in Seq(Instr) /\ x \in Instr
  BY <1>4 DEF PageShape
<1>7. instr' \in Seq(Instr) /\ DOMAIN instr' = DOMAIN instr /\ Len(instr') = Len(instr)
  BY <1>5, <1>6
<1>8. instr'[k] = x /\ \A l \in DOMAIN instr : l # k => instr'[l] = instr[l]
  BY <1>5, <1>6
<1> QED
  BY <1>4, <1>7, <1>8

\* What the TEE does leaves the page, and takes up one instruction at most.
LEMMA TeeFrame ==
  ASSUME PageShape, TeeAction
  PROVE  /\ UNCHANGED <<calls, jobs, page, query>>
         /\ instr' \in Seq(Instr) /\ DOMAIN instr' = DOMAIN instr /\ InstrGrow
<1>1. ASSUME NEW k \in DOMAIN instr, ExecutePlace(k) \/ ExecuteCancel(k) \/ ReleaseCancelled(k)
      PROVE  /\ UNCHANGED <<calls, jobs, page, query>>
             /\ instr' \in Seq(Instr) /\ DOMAIN instr' = DOMAIN instr /\ InstrGrow
  <2>1. /\ instr[k].status # "done" /\ UNCHANGED <<calls, jobs, page, query>>
        /\ \E status \in {"removed", "done", "failed"} : instr' = [instr EXCEPT ![k].status = status]
    <3>1. CASE ExecutePlace(k)
      BY <3>1, Zenon DEF ExecutePlace, Settle
    <3>2. CASE ExecuteCancel(k)
      BY <3>2, Zenon DEF ExecuteCancel, Settle
    <3>3. CASE ReleaseCancelled(k)
      BY <3>3, Zenon DEF ReleaseCancelled, Settle
    <3> QED
      BY <1>1, <3>1, <3>2, <3>3
  <2>2. PICK status \in {"removed", "done", "failed"} : instr' = [instr EXCEPT ![k].status = status]
    BY <2>1, Zenon
  <2> QED
    BY <2>1, <2>2, Settled DEF InstrGrow
<1>2. ASSUME NEW o, TradeResting(o)
      PROVE  UNCHANGED <<instr, calls, jobs, page, query>>
  BY <1>2 DEF TradeResting
<1> QED
  BY <1>1, <1>2 DEF TeeAction, InstrGrow, PageShape

-----------------------------------------------------------------------------
(* What the steps do to the calls.                                         *)

\* A call begins under a number never used before.
LEMMA CallAdded ==
  ASSUME PageShape, NEW c \in CallType, calls' = With(calls, NextJob, c)
  PROVE  /\ DOMAIN calls' = DOMAIN calls \cup {NextJob} /\ NextJob \notin DOMAIN calls
         /\ calls'[NextJob] = c /\ \A i \in DOMAIN calls : calls'[i] = calls[i]
         /\ calls' \in [DOMAIN calls' -> CallType]
<1>1. NextJob \notin DOMAIN calls /\ \A i \in DOMAIN calls : calls[i] \in CallType
  BY SeqTypes
<1>2. calls' = [x \in DOMAIN calls \cup {NextJob} |-> IF x = NextJob THEN c ELSE calls[x]]
  BY DEF With
<1> QED
  BY <1>1, <1>2

\* A call ends.
LEMMA CallRemoved ==
  ASSUME PageShape, NEW j \in DOMAIN calls, calls' = Restrict(calls, DOMAIN calls \ {j})
  PROVE  /\ DOMAIN calls' = DOMAIN calls \ {j} /\ \A i \in DOMAIN calls' : calls'[i] = calls[i]
         /\ calls' \in [DOMAIN calls' -> CallType]
<1>1. calls' = [x \in DOMAIN calls \ {j} |-> calls[x]]
  BY DEF Restrict
<1> QED
  BY <1>1, SeqTypes

\* The end of a call.
LEMMA EndFrame ==
  ASSUME PageShape, NEW j \in DOMAIN calls, Refused(j) \/ Succeeds(j) \/ Fails(j)
  PROVE  /\ DOMAIN calls' = DOMAIN calls \ {j} /\ \A i \in DOMAIN calls' : calls'[i] = calls[i]
         /\ calls' \in [DOMAIN calls' -> CallType]
         /\ cancelling' = ButtonsAfter(calls[j])
         /\ form' = [form EXCEPT !.quantity = 0] \/ form' = form
         /\ UNCHANGED <<engine, address, decimals, pressed, used, cache>>
         /\ instr' = instr \/ /\ instr' = Append(instr, Instruction(calls[j].req, calls[j].press))
                              /\ calls[j].pc = "post"
<1>1. \E ok \in BOOLEAN : MutationOver(j, ok)
  BY Zenon DEF Refused, Succeeds, Fails
<1>2. PICK ok \in BOOLEAN : MutationOver(j, ok)
  BY <1>1, Zenon
<1>3. calls' = Restrict(calls, DOMAIN calls \ {j})
  BY <1>2, Zenon DEF MutationOver
<1>4. form' = [form EXCEPT !.quantity = 0] \/ form' = form
  BY <1>2, Zenon DEF MutationOver, FormAfter
<1>5. /\ cancelling' = ButtonsAfter(calls[j])
      /\ UNCHANGED <<engine, address, decimals, pressed, used, cache>>
  BY <1>2, Zenon DEF MutationOver
<1>6. instr' = instr \/ /\ instr' = Append(instr, Instruction(calls[j].req, calls[j].press))
                        /\ calls[j].pc = "post"
  BY Zenon DEF Refused, Succeeds, Fails
<1> QED
  BY <1>3, <1>4, <1>5, <1>6, CallRemoved

\* The proxy has taken a call's instruction.
LEMMA PostFrame ==
  ASSUME PageShape, NEW j \in DOMAIN calls, Posted(j)
  PROVE  /\ DOMAIN calls' = DOMAIN calls
         /\ \A i \in DOMAIN calls : i # j => calls'[i] = calls[i]
         /\ calls[j].pc = "post" /\ calls'[j].pc = "poll" /\ calls'[j].act = Len(instr) + 1
         /\ calls'[j].req = calls[j].req /\ calls'[j].press = calls[j].press
         /\ calls'[j].table = calls[j].table
         /\ calls' \in [DOMAIN calls' -> CallType]
         /\ instr' = Append(instr, Instruction(calls[j].req, calls[j].press))
         /\ UNCHANGED <<engine, page, query>>
<1>1. calls' = [calls EXCEPT ![j].pc = "poll", ![j].act = Len(instr) + 1]
  BY Zenon DEF Posted
<1>2. \A i \in DOMAIN calls : calls[i] \in CallType
  BY SeqTypes
<1>3. PICK n : n = Len(instr) + 1
  OBVIOUS
<1>4. n \in Nat
  BY <1>3, SeqTypes
<1>5. PICK c : c = [calls[j] EXCEPT !.pc = "poll", !.act = n]
  OBVIOUS
<1>6. /\ c \in CallType /\ c.pc = "poll" /\ c.act = n /\ c.req = calls[j].req
      /\ c.press = calls[j].press /\ c.table = calls[j].table
  BY <1>2, <1>4, <1>5 DEF CallType
<1>7. calls \in [DOMAIN calls -> CallType]
  BY DEF PageShape
<1>8. calls' = [calls EXCEPT ![j] = c]
  BY <1>1, <1>2, <1>3, <1>5, <1>7 DEF CallType
<1>9. DOMAIN calls' = DOMAIN calls /\ calls' \in [DOMAIN calls -> CallType] /\ calls'[j] = c
      /\ \A i \in DOMAIN calls : i # j => calls'[i] = calls[i]
  BY <1>6, <1>7, <1>8
<1> QED
  BY <1>3, <1>6, <1>9 DEF Posted

\* A press of the button: the request is an order, and a call carries it unless
\* nothing can be sent.
LEMMA SubmitFrame ==
  ASSUME TradingAssumption, PageShape, Submit
  PROVE  /\ RequestOf(form, address) \in PlaceOrderReq
         /\ pressed' = Append(pressed, RequestOf(form, address)) /\ NextJob' = NextJob + 1
         /\ UNCHANGED <<engine, instr, address, decimals, cancelling, used, query>>
         /\ form' \in Form
         /\ \/ /\ NewCall(RequestOf(form, address), Len(pressed) + 1) \in CallType
               /\ calls' = With(calls, NextJob, NewCall(RequestOf(form, address), Len(pressed) + 1))
               /\ jobs' = Start(jobs, NextJob, PLACE_ORDER_STEPS)
            \/ /\ calls' = calls
               /\ jobs' = Update(Start(jobs, NextJob, PLACE_ORDER_STEPS), NextJob, Fail)
<1>1. /\ IsConnected /\ form.quantity > 0
      /\ form.type = "market" \/ form.price > 0
  BY DEF Submit, CanSubmit
<1>2. form \in Form /\ address \in Users
  BY <1>1 DEF PageShape, IsConnected
<1>3. form.quantity \in Quantities /\ (form.type = "limit" => form.price \in Prices)
  BY <1>1, <1>2, TradingAssumption DEF Form
<1>4. RequestOf(form, address) \in PlaceOrderReq
  BY <1>2, <1>3 DEF RequestOf, PlaceOrderReq, Form
<1>5. pressed' = Append(pressed, RequestOf(form, address))
  BY Zenon DEF Submit
<1>6. /\ UNCHANGED <<engine, instr, address, decimals, cancelling, used, query>>
      /\ \/ /\ calls' = With(calls, NextJob, NewCall(RequestOf(form, address), Len(pressed) + 1))
            /\ form' = [form EXCEPT !.job = NextJob]
            /\ jobs' = Start(jobs, NextJob, PLACE_ORDER_STEPS)
         \/ /\ calls' = calls /\ form' = form
            /\ jobs' = Update(Start(jobs, NextJob, PLACE_ORDER_STEPS), NextJob, Fail)
  BY Zenon DEF Submit
<1>7. NextJob' = NextJob + 1
  <2>1. Len(pressed') = Len(pressed) + 1 /\ used'.cancels = used.cancels
    BY <1>5, <1>6, <1>4 DEF PageShape
  <2> QED
    BY <2>1, SeqTypes DEF NextJob
<1>8. NewCall(RequestOf(form, address), Len(pressed) + 1) \in CallType
  BY <1>4, SeqTypes DEF NewCall, CallType, Req, PageShape, Used
<1>9. form' \in Form
  BY <1>2, <1>6, SeqTypes DEF Form
<1> QED
  BY <1>4, <1>5, <1>6, <1>7, <1>8, <1>9

\* A press of a row's button: the cancel is this user's, of an order the row shows.
LEMMA CancelFrame ==
  ASSUME TradingAssumption, PageShape, AnswersFit, NEW row \in OpenOrdersRows, Cancel(row)
  PROVE  LET req == [sender |-> address, orderId |-> row.order.id]
         IN /\ req \in CancelOrderReq /\ row.order.id \in Nat /\ row.order.id \notin cancelling
            /\ NewCall(req, 0) \in CallType
            /\ calls' = With(calls, NextJob, NewCall(req, 0))
            /\ cancelling' = cancelling \cup {row.order.id}
            /\ jobs' = Start(jobs, NextJob, CANCEL_ORDER_STEPS)
            /\ used' = [used EXCEPT !.cancels = @ + 1] /\ NextJob' = NextJob + 1
            /\ UNCHANGED <<engine, instr, address, decimals, form, pressed, query>>
<1> DEFINE req == [sender |-> address, orderId |-> row.order.id]
<1>1. PICK o \in ShownOrders : row = [order |-> o, enabled |-> o.id \notin cancelling]
  BY DEF OpenOrdersRows
<1>2. row.order = o /\ (row.enabled <=> o.id \notin cancelling)
  BY <1>1, Zenon
<1>3. o \in OpenOrder /\ address \in Users
  BY DEF ShownOrders, Shown, AnswersFit, AnswerFits, GetMyStateResp, PageShape
<1>4. row.order.id \in Nat
  BY <1>2, <1>3 DEF OpenOrder
<1>5. req \in CancelOrderReq
  BY <1>3, <1>4 DEF CancelOrderReq
<1>6. NewCall(req, 0) \in CallType
  BY <1>5 DEF NewCall, CallType, Req, PageShape, Used
<1>7. row.enabled
  BY DEF Cancel
<1>8. row.order.id \notin cancelling
  BY <1>2, <1>7, Zenon
<1>9. /\ calls' = With(calls, NextJob, NewCall(req, 0))
      /\ cancelling' = cancelling \cup {row.order.id}
      /\ jobs' = Start(jobs, NextJob, CANCEL_ORDER_STEPS)
      /\ used' = [used EXCEPT !.cancels = @ + 1]
      /\ UNCHANGED <<engine, instr, address, decimals, form, pressed, query>>
  BY Zenon DEF Cancel
<1>10. NextJob' = NextJob + 1
  <2>1. used'.cancels = used.cancels + 1 /\ pressed' = pressed
    BY <1>9 DEF PageShape
  <2> QED
    BY <2>1, SeqTypes DEF NextJob
<1> QED
  BY <1>4, <1>5, <1>6, <1>8, <1>9, <1>10

\* The page's counters.
LEMMA UsedTypes ==
  ASSUME NEW r \in Used
  PROVE  /\ [r EXCEPT !.switches = @ + 1] \in Used /\ [r EXCEPT !.switches = @ + 1].cancels = r.cancels
         /\ [r EXCEPT !.mounts = @ + 1] \in Used /\ [r EXCEPT !.mounts = @ + 1].cancels = r.cancels
         /\ [r EXCEPT !.cancels = @ + 1] \in Used /\ [r EXCEPT !.cancels = @ + 1].cancels = r.cancels + 1
         /\ LET s == [r EXCEPT !.mounts = @ + 1, !.table = r.mounts + 1]
            IN s \in Used /\ s.cancels = r.cancels /\ s.mounts = r.mounts + 1 /\ s.table = r.mounts + 1
<1>1. PICK a \in Nat, b \in Nat, c \in Nat : a = r.switches + 1 /\ b = r.mounts + 1 /\ c = r.cancels + 1
  BY DEF Used
<1>2. /\ [r EXCEPT !.switches = a] \in Used /\ [r EXCEPT !.switches = a].cancels = r.cancels
      /\ [r EXCEPT !.mounts = b] \in Used /\ [r EXCEPT !.mounts = b].cancels = r.cancels
      /\ [r EXCEPT !.cancels = c] \in Used /\ [r EXCEPT !.cancels = c].cancels = c
  BY DEF Used
<1>3. PICK s : s = [r EXCEPT !.mounts = b, !.table = b]
  OBVIOUS
<1>4. s \in Used /\ s.cancels = r.cancels /\ s.mounts = b /\ s.table = b
  BY <1>3 DEF Used
<1> QED
  BY <1>1, <1>2, <1>3, <1>4

\* The steps that touch neither an instruction, a call nor a press.
Aside == EditForm \/ SwitchAction \/ RemountEntry \/ RemountOrders \/ DismissAction \/ QueryAction

\* What the steps aside leave alone.
LEMMA AsideFrame ==
  ASSUME Aside
  PROVE  /\ UNCHANGED <<engine, instr, calls, pressed, floor>>
         /\ EditForm \/ UNCHANGED decimals
<1>1. DismissAction => UNCHANGED <<engine, instr, calls, page, query>>
  BY Zenon DEF DismissAction, TimerDismiss, ButtonDismiss, DismissCard
<1>2. QueryAction => UNCHANGED <<engine, instr, calls, page, floor>>
  BY Zenon DEF QueryAction, Refetch, ReadBalances, ReadOrders, ApplyAnswer, QueryFails
<1>3. EditForm => UNCHANGED <<engine, instr, calls, pressed, query>>
  BY Zenon DEF EditForm, LoadDecimals, Edit, FillPct
<1>4. SwitchAction \/ RemountEntry \/ RemountOrders => UNCHANGED <<engine, instr, calls, pressed, floor, decimals>>
  BY DEF SwitchAction, SwitchWallet, RemountEntry, RemountOrders, query
<1> QED
  BY <1>1, <1>2, <1>3, <1>4 DEF Aside, page, query

\* The shape of the page under those steps.
LEMMA AsideKeepsShape ==
  ASSUME TradingAssumption, PageShape, Aside
  PROVE  PageShape'
<1>1. UNCHANGED <<instr, calls, pressed>>
  BY AsideFrame, Zenon
<1>2. /\ address' \in Users \cup {NoUser} /\ form' \in Form /\ cancelling' \subseteq Nat
      /\ used' \in Used
      /\ used'.cancels = used.cancels
  <2>1. CASE EditForm
    <3>1. UNCHANGED <<address, cancelling, used>>
      BY <2>1, Zenon DEF EditForm, LoadDecimals, Edit, FillPct
    <3>2. form' \in Form
      <4>1. CASE LoadDecimals
        BY <4>1 DEF LoadDecimals, PageShape
      <4>2. CASE Edit
        BY <4>2 DEF Edit, PageShape, Form
      <4>3. CASE FillPct
        <5>1. PICK q \in Quantities \cup {0} : form' = [form EXCEPT !.quantity = q]
          BY <4>3, Zenon DEF FillPct
        <5> QED
          BY <5>1 DEF PageShape, Form
      <4> QED
        BY <2>1, <4>1, <4>2, <4>3 DEF EditForm
    <3> QED
      BY <3>1, <3>2 DEF PageShape
  <2>2. CASE SwitchAction
    <3>1. PICK u \in Users \cup {NoUser} : SwitchWallet(u)
      BY <2>2 DEF SwitchAction
    <3>2. /\ used' = [used EXCEPT !.switches = @ + 1] /\ address' = u
          /\ UNCHANGED <<form, cancelling>>
      BY <3>1, Zenon DEF SwitchWallet
    <3> QED
      BY <3>2, UsedTypes DEF PageShape
  <2>3. CASE RemountEntry
    <3>1. form' \in Form
      BY <2>3, TradingAssumption DEF RemountEntry, EmptyForm, NoJob, PageShape, Form
    <3>2. used' = [used EXCEPT !.mounts = @ + 1] /\ UNCHANGED <<address, cancelling>>
      BY <2>3, Zenon DEF RemountEntry
    <3> QED
      BY <3>1, <3>2, UsedTypes DEF PageShape
  <2>4. CASE RemountOrders
    <3>1. /\ used' = [used EXCEPT !.mounts = @ + 1, !.table = used.mounts + 1]
          /\ cancelling' = {} /\ UNCHANGED <<address, form>>
      BY <2>4, Zenon DEF RemountOrders
    <3> QED
      BY <3>1, UsedTypes DEF PageShape
  <2>5. CASE DismissAction
    BY <2>5 DEF DismissAction, TimerDismiss, ButtonDismiss, DismissCard, page, PageShape
  <2>6. CASE QueryAction
    BY <2>6 DEF QueryAction, Refetch, ReadBalances, ReadOrders, ApplyAnswer, QueryFails, page, PageShape
  <2> QED
    BY <2>1, <2>2, <2>3, <2>4, <2>5, <2>6 DEF Aside
<1>3. NextJob' = NextJob
  BY <1>1, <1>2 DEF NextJob
<1> QED
  BY <1>1, <1>2, <1>3 DEF PageShape

\* The shape of the page under every step.
LEMMA ShapeKept ==
  ASSUME TradingAssumption, PageShape, AnswersFit, Next
  PROVE  PageShape'
<1>1. CASE Aside
  BY <1>1, AsideKeepsShape
<1>2. CASE Submit
  <2>1. PICK r \in PlaceOrderReq : r = RequestOf(form, address)
    BY <1>2, SubmitFrame, Zenon
  <2>2. pressed' = Append(pressed, r) /\ NextJob' = NextJob + 1 /\ form' \in Form
    BY <1>2, <2>1, SubmitFrame, Zenon
  <2>3. UNCHANGED <<instr, address, cancelling, used>>
    BY <1>2, SubmitFrame
  <2>4. calls' \in [DOMAIN calls' -> CallType] /\ DOMAIN calls' \subseteq DOMAIN calls \cup {NextJob}
    BY <1>2, SubmitFrame, CallAdded DEF PageShape
  <2>5. DOMAIN calls' \subseteq 0..(NextJob' - 1)
    BY <2>2, <2>4, SeqTypes
  <2>6. pressed' \in Seq(PlaceOrderReq)
    BY <2>2 DEF PageShape
  <2> QED
    BY <2>2, <2>3, <2>4, <2>5, <2>6 DEF PageShape
<1>3. CASE CancelAction
  <2>1. PICK row \in OpenOrdersRows : Cancel(row)
    BY <1>3 DEF CancelAction
  <2>2. /\ UNCHANGED <<instr, address, form, pressed>> /\ cancelling' \subseteq Nat
        /\ used' = [used EXCEPT !.cancels = @ + 1] /\ NextJob' = NextJob + 1
    BY <2>1, CancelFrame DEF PageShape
  <2>3. calls' \in [DOMAIN calls' -> CallType] /\ DOMAIN calls' = DOMAIN calls \cup {NextJob}
    BY <2>1, CancelFrame, CallAdded
  <2>4. DOMAIN calls' \subseteq 0..(NextJob' - 1)
    BY <2>2, <2>3, SeqTypes
  <2>5. used' \in Used
    BY <2>2, UsedTypes DEF PageShape
  <2> QED
    BY <2>2, <2>3, <2>4, <2>5 DEF PageShape
<1>4. CASE PostAction
  <2>1. PICK j \in DOMAIN calls : Posted(j)
    BY <1>4 DEF PostAction
  <2>2. /\ calls' \in [DOMAIN calls' -> CallType] /\ DOMAIN calls' = DOMAIN calls
        /\ UNCHANGED <<address, form, cancelling, pressed, used>>
    BY <2>1, PostFrame DEF page
  <2>3. instr' \in Seq(Instr)
    BY <2>1, PostFrame, InstructionIs, InstrAppended
  <2>4. NextJob' = NextJob
    BY <2>2 DEF NextJob
  <2> QED
    BY <2>2, <2>3, <2>4 DEF PageShape
<1>5. CASE EndAction
  <2>1. PICK j \in DOMAIN calls : Refused(j) \/ Succeeds(j) \/ Fails(j)
    BY <1>5 DEF EndAction
  <2>2. /\ calls' \in [DOMAIN calls' -> CallType] /\ DOMAIN calls' = DOMAIN calls \ {j}
        /\ cancelling' = ButtonsAfter(calls[j])
        /\ form' = [form EXCEPT !.quantity = 0] \/ form' = form
        /\ UNCHANGED <<address, pressed, used>>
    BY <2>1, EndFrame, Zenon
  <2>3. instr' \in Seq(Instr)
    BY <2>1, EndFrame, InstructionIs, InstrAppended DEF PageShape
  <2>4. NextJob' = NextJob
    BY <2>2 DEF NextJob
  <2>5. form' \in Form
    BY <2>2 DEF PageShape, Form
  <2>6. cancelling' \subseteq Nat
    BY <2>2 DEF ButtonsAfter, PageShape
  <2> QED
    BY <2>2, <2>3, <2>4, <2>5, <2>6 DEF PageShape
<1>6. CASE TeeAction
  <2>1. UNCHANGED <<calls, page>> /\ instr' \in Seq(Instr)
    BY <1>6, TeeFrame, Zenon
  <2>2. NextJob' = NextJob
    BY <2>1 DEF NextJob, page
  <2> QED
    BY <2>1, <2>2 DEF PageShape, page
<1> QED
  BY <1>1, <1>2, <1>3, <1>4, <1>5, <1>6, Kinds DEF Aside

-----------------------------------------------------------------------------
(* One press, one instruction.                                             *)

\* The order of an instruction that the new state has is an old one, or the new.
LEMMA PlacedAppended ==
  ASSUME PageShape, NEW x \in Instr, instr' = Append(instr, x)
  PROVE  /\ Placed \subseteq Placed' /\ Placed' \subseteq Placed \cup {Len(instr) + 1}
         /\ Len(instr) + 1 \in Placed' <=> IsPlace(x.req)
         /\ Len(instr) + 1 \notin Placed
         /\ \A k \in Placed : instr'[k] = instr[k] /\ k \in DOMAIN instr
         /\ instr'[Len(instr) + 1] = x
<1>1. /\ DOMAIN instr' = DOMAIN instr \cup {Len(instr) + 1} /\ Len(instr) + 1 \notin DOMAIN instr
      /\ instr'[Len(instr) + 1] = x /\ \A k \in DOMAIN instr : instr'[k] = instr[k]
  BY InstrAppended
<1> QED
  BY <1>1, Zenon DEF Placed

\* Presses while the calls stay, or one of them ends, and nothing is posted.
LEMMA PressesFewer ==
  ASSUME Presses, UNCHANGED <<instr, pressed>>, DOMAIN calls' \subseteq DOMAIN calls,
         \A i \in DOMAIN calls' : calls'[i] = calls[i]
  PROVE  Presses'
<1>1. Placed' = Placed /\ PlacedAsShown' = PlacedAsShown
  BY DEF Placed, PlacedAsShown
<1>2. \A i \in DOMAIN calls' : Places(i)' <=> Places(i)
  BY Zenon DEF Places
<1> QED
  BY <1>1, <1>2, Zenon DEF Presses

\* A call's order is posted: it is the order of its press, the first of it.
LEMMA PressesPosted ==
  ASSUME PageShape, Presses, NEW j \in DOMAIN calls, calls[j].pc = "post",
         instr' = Append(instr, Instruction(calls[j].req, calls[j].press)), pressed' = pressed,
         DOMAIN calls' \subseteq DOMAIN calls,
         \A i \in DOMAIN calls' : i # j => calls'[i] = calls[i],
         j \in DOMAIN calls' => /\ calls'[j].pc = "poll" /\ calls'[j].req = calls[j].req
                                /\ calls'[j].press = calls[j].press
  PROVE  Presses'
<1>1. PICK x \in Instr : /\ instr' = Append(instr, x) /\ x.req = calls[j].req
                         /\ x.press = calls[j].press
  BY InstructionIs
<1> DEFINE n == Len(instr) + 1
<1>2. /\ Placed \subseteq Placed' /\ Placed' \subseteq Placed \cup {n}
      /\ n \in Placed' <=> Places(j)
      /\ \A k \in Placed : instr'[k] = instr[k]
      /\ instr'[n] = x
  <2>1. /\ Placed \subseteq Placed' /\ Placed' \subseteq Placed \cup {n} /\ instr'[n] = x
        /\ \A k \in Placed : instr'[k] = instr[k]
    BY <1>1, PlacedAppended, Zenon
  <2>2. n \in Placed' <=> IsPlace(x.req)
    BY <1>1, PlacedAppended, Zenon
  <2>3. IsPlace(x.req) <=> Places(j)
    BY <1>1 DEF Places
  <2> QED
    BY <2>1, <2>2, <2>3
<1>3. \A i \in DOMAIN calls' : Places(i)' <=> Places(i)
  BY Zenon DEF Places
<1>4. \A i \in DOMAIN calls' : /\ calls'[i].press = calls[i].press /\ calls'[i].req = calls[i].req
                               /\ i # j => calls'[i].pc = calls[i].pc
  OBVIOUS
<1>5. ASSUME NEW i \in DOMAIN calls', Places(i)'
      PROVE  /\ calls'[i].press \in DOMAIN pressed' /\ calls'[i].req = pressed'[calls'[i].press]
             /\ calls'[i].pc = "post" => \A k \in Placed' : instr'[k].press # calls'[i].press
  <2>1. Places(i) /\ i \in DOMAIN calls
    BY <1>3, <1>5
  <2>2. calls'[i].press \in DOMAIN pressed' /\ calls'[i].req = pressed'[calls'[i].press]
    BY <1>4, <2>1 DEF Presses
  <2>3. ASSUME calls'[i].pc = "post", NEW k \in Placed'
        PROVE  instr'[k].press # calls'[i].press
    <3>1. i # j /\ calls[i].pc = "post"
      BY <1>4, <2>3
    <3>2. CASE k \in Placed
      <4>1. instr[k].press # calls[i].press
        BY <2>1, <3>1, <3>2, Zenon DEF Presses
      <4> QED
        BY <1>2, <1>4, <3>2, <4>1
    <3>3. CASE k = n /\ Places(j)
      BY <1>1, <1>2, <1>4, <2>1, <3>1, <3>3, Zenon DEF Presses
    <3> QED
      BY <1>2, <3>2, <3>3
  <2> QED
    BY <2>2, <2>3
<1>6. ASSUME NEW i \in DOMAIN calls', NEW l \in DOMAIN calls', Places(i)', Places(l)',
             calls'[i].press = calls'[l].press
      PROVE  i = l
  <2>1. i \in DOMAIN calls /\ l \in DOMAIN calls
    BY <1>6
  <2>2. Places(i) /\ Places(l) /\ calls[i].press = calls[l].press
    BY <1>3, <1>4, <1>6, Zenon
  <2> QED
    BY <2>1, <2>2, Zenon DEF Presses
<1>7. \A k \in Placed' : instr'[k].press \in DOMAIN pressed' /\ instr'[k].req = pressed'[instr'[k].press]
  <2>1. \A k \in Placed : instr[k].press \in DOMAIN pressed /\ instr[k].req = pressed[instr[k].press]
    BY Zenon DEF Presses, PlacedAsShown, Placed
  <2>2. Places(j) => calls[j].press \in DOMAIN pressed /\ calls[j].req = pressed[calls[j].press]
    BY DEF Presses
  <2> QED
    BY <1>1, <1>2, <2>1, <2>2
<1>8. ASSUME NEW k \in Placed', NEW l \in Placed', instr'[k].press = instr'[l].press
      PROVE  k = l
  <2>1. CASE k \in Placed /\ l \in Placed
    BY <1>2, <1>8, <2>1, Zenon DEF Presses, PlacedAsShown, Placed
  <2>2. Places(j) => \A m \in Placed : instr[m].press # calls[j].press
    BY DEF Presses
  <2> QED
    BY <1>1, <1>2, <1>8, <2>1, <2>2, Zenon
<1>9. PlacedAsShown'
  BY <1>7, <1>8, Zenon DEF PlacedAsShown, Placed
<1> QED
  BY <1>5, <1>6, <1>7, <1>9, Zenon DEF Presses

\* What the presses say is kept by every step.
LEMMA PressesKept ==
  ASSUME TradingAssumption, PageShape, Presses, AnswersFit, Next
  PROVE  Presses'
<1>1. CASE Aside
  <2>1. UNCHANGED <<instr, calls, pressed>>
    BY <1>1, AsideFrame, Zenon
  <2> QED
    BY <2>1, PressesFewer
<1>2. CASE Submit
  <2>1. PICK r \in PlaceOrderReq : r = RequestOf(form, address)
    BY <1>2, SubmitFrame, Zenon
  <2>2. /\ pressed' = Append(pressed, r) /\ instr' = instr
        /\ \/ /\ NewCall(r, Len(pressed) + 1) \in CallType
              /\ calls' = With(calls, NextJob, NewCall(r, Len(pressed) + 1))
           \/ calls' = calls
    BY <1>2, <2>1, SubmitFrame, Zenon
  <2> DEFINE n == Len(pressed) + 1
             m == NextJob
  <2>3. /\ DOMAIN pressed' = DOMAIN pressed \cup {n} /\ n \notin DOMAIN pressed /\ pressed'[n] = r
        /\ \A k \in DOMAIN pressed : pressed'[k] = pressed[k]
    BY <2>2 DEF PageShape
  <2>4. /\ m \notin DOMAIN calls /\ DOMAIN calls \subseteq DOMAIN calls'
        /\ DOMAIN calls' \subseteq DOMAIN calls \cup {m}
        /\ \A i \in DOMAIN calls : calls'[i] = calls[i]
        /\ m \in DOMAIN calls' => calls'[m] = NewCall(r, n)
    <3>1. CASE calls' = calls
      BY <3>1, SeqTypes
    <3>2. CASE /\ NewCall(r, Len(pressed) + 1) \in CallType
               /\ calls' = With(calls, NextJob, NewCall(r, Len(pressed) + 1))
      BY <3>2, CallAdded
    <3> QED
      BY <2>2, <3>1, <3>2
  <2>5. NewCall(r, n).req = r /\ NewCall(r, n).press = n
    BY DEF NewCall
  <2>6. /\ Placed' = Placed /\ \A i \in DOMAIN calls : Places(i)' <=> Places(i)
    BY <2>2, <2>4, Zenon DEF Placed, Places
  <2>7. ASSUME NEW i \in DOMAIN calls', Places(i)'
        PROVE  /\ calls'[i].press \in DOMAIN pressed' /\ calls'[i].req = pressed'[calls'[i].press]
               /\ calls'[i].pc = "post" => \A k \in Placed' : instr'[k].press # calls'[i].press
    <3>1. CASE i \in DOMAIN calls
      BY <2>2, <2>3, <2>4, <2>6, <2>7, <3>1 DEF Presses
    <3>2. CASE i = m
      BY <2>2, <2>3, <2>4, <2>5, <2>6, <3>2 DEF Presses
    <3> QED
      BY <2>4, <3>1, <3>2
  <2>8. ASSUME NEW i \in DOMAIN calls', NEW l \in DOMAIN calls', Places(i)', Places(l)',
               calls'[i].press = calls'[l].press
        PROVE  i = l
    <3>1. \A q \in DOMAIN calls : Places(q) => calls[q].press # n
      BY <2>3 DEF Presses
    <3>2. CASE i \in DOMAIN calls /\ l \in DOMAIN calls
      BY <2>4, <2>6, <2>8, <3>2, Zenon DEF Presses
    <3>3. CASE i = m /\ l \in DOMAIN calls
      BY <2>4, <2>5, <2>6, <2>8, <3>1, <3>3
    <3>4. CASE l = m /\ i \in DOMAIN calls
      BY <2>4, <2>5, <2>6, <2>8, <3>1, <3>4
    <3> QED
      BY <2>4, <3>2, <3>3, <3>4
  <2>9. \A k \in Placed' : instr'[k].press \in DOMAIN pressed'
    BY <2>2, <2>3, <2>6 DEF Presses
  <2>10. PlacedAsShown'
    BY <2>2, <2>3, Zenon DEF PlacedAsShown, Presses, Placed
  <2> QED
    BY <2>7, <2>8, <2>9, <2>10, Zenon DEF Presses
<1>3. CASE CancelAction
  <2>1. PICK row \in OpenOrdersRows : Cancel(row)
    BY <1>3 DEF CancelAction
  <2>2. PICK r \in CancelOrderReq : /\ NewCall(r, 0) \in CallType
                                    /\ calls' = With(calls, NextJob, NewCall(r, 0))
    BY <2>1, CancelFrame, Zenon
  <2>3. instr' = instr /\ pressed' = pressed
    BY <2>1, CancelFrame
  <2>4. /\ DOMAIN calls' = DOMAIN calls \cup {NextJob} /\ NextJob \notin DOMAIN calls
        /\ calls'[NextJob] = NewCall(r, 0) /\ \A i \in DOMAIN calls : calls'[i] = calls[i]
    BY <2>2, CallAdded, Zenon
  <2>5. NewCall(r, 0).req = r /\ ~IsPlace(r)
    BY PlaceOrCancel DEF NewCall
  <2>6. \A i \in DOMAIN calls' : Places(i)' => i \in DOMAIN calls /\ Places(i) /\ calls'[i] = calls[i]
    <3>1. \A i \in DOMAIN calls : Places(i)' <=> Places(i)
      BY <2>4, Zenon DEF Places
    <3>2. PICK n : n = NextJob
      OBVIOUS
    <3>3. ~Places(n)'
      BY <2>4, <2>5, <3>2, Zenon DEF Places
    <3> QED
      BY <2>4, <3>1, <3>2, <3>3, Zenon
  <2>7. Placed' = Placed /\ PlacedAsShown' = PlacedAsShown
    BY <2>3 DEF Placed, PlacedAsShown
  <2>8. ASSUME NEW i \in DOMAIN calls', Places(i)'
        PROVE  /\ calls'[i].press \in DOMAIN pressed' /\ calls'[i].req = pressed'[calls'[i].press]
               /\ calls'[i].pc = "post" => \A k \in Placed' : instr'[k].press # calls'[i].press
    <3>1. i \in DOMAIN calls /\ Places(i) /\ calls'[i] = calls[i]
      BY <2>6, <2>8
    <3> QED
      BY <2>3, <2>7, <3>1 DEF Presses
  <2>9. ASSUME NEW i \in DOMAIN calls', NEW l \in DOMAIN calls', Places(i)', Places(l)',
               calls'[i].press = calls'[l].press
        PROVE  i = l
    BY <2>6, <2>9, Zenon DEF Presses
  <2>10. PlacedAsShown' /\ \A k \in Placed' : instr'[k].press \in DOMAIN pressed'
    BY <2>3, <2>7 DEF Presses
  <2> QED
    BY <2>8, <2>9, <2>10, Zenon DEF Presses
<1>4. CASE PostAction
  <2>1. PICK j \in DOMAIN calls : Posted(j)
    BY <1>4 DEF PostAction
  <2>2. /\ DOMAIN calls' = DOMAIN calls /\ \A i \in DOMAIN calls : i # j => calls'[i] = calls[i]
        /\ calls[j].pc = "post" /\ calls'[j].pc = "poll"
        /\ calls'[j].req = calls[j].req /\ calls'[j].press = calls[j].press
        /\ instr' = Append(instr, Instruction(calls[j].req, calls[j].press))
        /\ pressed' = pressed
    BY <2>1, PostFrame DEF page
  <2> QED
    BY <2>2, PressesPosted
<1>5. CASE EndAction
  <2>1. PICK j \in DOMAIN calls : Refused(j) \/ Succeeds(j) \/ Fails(j)
    BY <1>5 DEF EndAction
  <2>2. /\ DOMAIN calls' = DOMAIN calls \ {j} /\ \A i \in DOMAIN calls' : calls'[i] = calls[i]
        /\ pressed' = pressed
        /\ instr' = instr \/ /\ instr' = Append(instr, Instruction(calls[j].req, calls[j].press))
                             /\ calls[j].pc = "post"
    BY <2>1, EndFrame, Zenon
  <2>3. CASE instr' = instr
    BY <2>2, <2>3, PressesFewer
  <2>4. CASE instr' = Append(instr, Instruction(calls[j].req, calls[j].press)) /\ calls[j].pc = "post"
    BY <2>2, <2>4, PressesPosted
  <2> QED
    BY <2>2, <2>3, <2>4
<1>6. CASE TeeAction
  <2>1. UNCHANGED <<calls, page>> /\ DOMAIN instr' = DOMAIN instr /\ InstrGrow
    BY <1>6, TeeFrame, Zenon
  <2>2. /\ calls' = calls /\ pressed' = pressed
        /\ \A k \in DOMAIN instr : instr'[k].req = instr[k].req /\ instr'[k].press = instr[k].press
    BY <2>1, Zenon DEF page, InstrGrow
  <2>3. Placed' = Placed /\ \A j : Places(j)' <=> Places(j)
    BY <2>1, <2>2, Zenon DEF Placed, Places
  <2>4. PlacedAsShown'
    BY <2>1, <2>2, <2>3, Zenon DEF PlacedAsShown, Presses, Placed
  <2>5. \A k \in Placed' : k \in Placed /\ instr'[k].press = instr[k].press
    BY <2>2, <2>3, Zenon DEF Placed
  <2>6. ASSUME NEW i \in DOMAIN calls', Places(i)'
        PROVE  /\ calls'[i].press \in DOMAIN pressed' /\ calls'[i].req = pressed'[calls'[i].press]
               /\ calls'[i].pc = "post" => \A k \in Placed' : instr'[k].press # calls'[i].press
    BY <2>2, <2>3, <2>5, <2>6 DEF Presses
  <2>7. ASSUME NEW i \in DOMAIN calls', NEW l \in DOMAIN calls', Places(i)', Places(l)',
               calls'[i].press = calls'[l].press
        PROVE  i = l
    BY <2>2, <2>3, <2>7, Zenon DEF Presses
  <2>8. \A k \in Placed' : instr'[k].press \in DOMAIN pressed'
    BY <2>2, <2>5 DEF Presses
  <2> QED
    BY <2>4, <2>6, <2>7, <2>8, Zenon DEF Presses
<1> QED
  BY <1>1, <1>2, <1>3, <1>4, <1>5, <1>6, Kinds DEF Aside

-----------------------------------------------------------------------------
(* A row's button and its cancel.                                          *)

\* A button stays as it is while the cancels of the mounted table do.
LEMMA ButtonsSame ==
  ASSUME Buttons, cancelling' = cancelling, used'.table <= used'.mounts,
         \A i \in DOMAIN calls' : calls'[i].table <= used'.table,
         \A i : i \in DOMAIN calls' /\ Mounted(i)' <=> i \in DOMAIN calls /\ Mounted(i),
         \A i : i \in DOMAIN calls /\ Mounted(i) => OrderOf(i)' = OrderOf(i)
  PROVE  Buttons'
<1>1. ASSUME NEW id \in cancelling'
      PROVE  \E i \in DOMAIN calls' : Mounted(i)' /\ OrderOf(i)' = id
  <2>1. PICK i \in DOMAIN calls : Mounted(i) /\ OrderOf(i) = id
    BY <1>1 DEF Buttons
  <2> QED
    BY <2>1
<1>2. ASSUME NEW i \in DOMAIN calls', NEW l \in DOMAIN calls', Mounted(i)', Mounted(l)',
             OrderOf(i)' = OrderOf(l)'
      PROVE  i = l
  <2>1. i \in DOMAIN calls /\ Mounted(i) /\ l \in DOMAIN calls /\ Mounted(l)
    BY <1>2
  <2>2. OrderOf(i) = OrderOf(l)
    BY <1>2, <2>1
  <2> QED
    BY <2>1, <2>2 DEF Buttons
<1>3. \A i \in DOMAIN calls' : Mounted(i)' => OrderOf(i)' \in cancelling'
  BY DEF Buttons
<1> QED
  BY <1>1, <1>2, <1>3, Zenon DEF Buttons

\* A table mounted anew disables no button, and no cancel is its own.
LEMMA ButtonsRemounted ==
  ASSUME PageShape, Buttons, RemountOrders
  PROVE  Buttons'
<1>1. /\ used' = [used EXCEPT !.mounts = @ + 1, !.table = used.mounts + 1]
      /\ cancelling' = {} /\ calls' = calls
  BY Zenon DEF RemountOrders
<1>2. used'.mounts = used.mounts + 1 /\ used'.table = used.mounts + 1 /\ used \in Used
  BY <1>1, UsedTypes DEF PageShape
<1>3. \A i \in DOMAIN calls : calls[i].table \in Nat /\ calls[i].table <= used.table
  BY SeqTypes DEF Buttons, CallType
<1>4. used.table \in Nat /\ used.mounts \in Nat /\ used.table <= used.mounts
  BY <1>2 DEF Used, Buttons
<1>5. \A i \in DOMAIN calls' : ~Mounted(i)' /\ calls'[i].table <= used'.table
  BY <1>1, <1>2, <1>3, <1>4 DEF Mounted
<1>6. used'.table <= used'.mounts
  BY <1>2, <1>4
<1> QED
  BY <1>1, <1>5, <1>6, Zenon DEF Buttons

\* The buttons follow the cancels, whatever happens.
LEMMA ButtonsStay ==
  ASSUME TradingAssumption, PageShape, Buttons, AnswersFit, Next
  PROVE  Buttons'
<1>1. CASE Aside /\ ~RemountOrders
  <2>1. calls' = calls
    BY <1>1, AsideFrame, Zenon
  <2>2. cancelling' = cancelling /\ used'.table = used.table /\ used.mounts <= used'.mounts
        /\ used'.mounts \in Nat
    <3>1. EditForm \/ DismissAction \/ QueryAction => cancelling' = cancelling /\ used' = used
      BY Zenon DEF EditForm, LoadDecimals, Edit, FillPct, DismissAction, TimerDismiss, ButtonDismiss,
                   DismissCard, QueryAction, Refetch, ReadBalances, ReadOrders, ApplyAnswer, QueryFails, page
    <3>2. CASE SwitchAction
      BY <3>2 DEF SwitchAction, SwitchWallet, PageShape, Used
    <3>3. CASE RemountEntry
      BY <3>3 DEF RemountEntry, PageShape, Used
    <3>4. CASE used' = used /\ cancelling' = cancelling
      BY <3>4 DEF PageShape, Used
    <3> QED
      BY <1>1, <3>1, <3>2, <3>3, <3>4 DEF Aside
  <2>3. used.table \in Nat /\ used.mounts \in Nat
    BY DEF PageShape, Used
  <2>4. used'.table <= used'.mounts
    BY <2>2, <2>3 DEF Buttons
  <2>5. \A i : (Mounted(i)' <=> Mounted(i)) /\ OrderOf(i)' = OrderOf(i)
    BY <2>1, <2>2, Zenon DEF Mounted, OrderOf, Places
  <2>6. \A i \in DOMAIN calls' : calls'[i].table <= used'.table
    BY <2>1, <2>2 DEF Buttons
  <2> QED
    BY <2>1, <2>2, <2>4, <2>5, <2>6, ButtonsSame
<1>2. CASE RemountOrders
  BY <1>2, ButtonsRemounted
<1>3. CASE Submit
  <2>1. cancelling' = cancelling /\ used' = used
    BY <1>3, SubmitFrame
  <2>2. PICK c : c = NewCall(RequestOf(form, address), Len(pressed) + 1)
    OBVIOUS
  <2>3. ~(~IsPlace(c.req)) /\ c.table = used.table
    BY <1>3, <2>2, SubmitFrame, PlaceOrCancel DEF NewCall
  <2>4. \/ calls' = calls
        \/ /\ DOMAIN calls' = DOMAIN calls \cup {NextJob} /\ NextJob \notin DOMAIN calls
           /\ calls'[NextJob] = c /\ \A i \in DOMAIN calls : calls'[i] = calls[i]
    BY <1>3, <2>2, SubmitFrame, CallAdded, Zenon
  <2>5. \A i \in DOMAIN calls : i \in DOMAIN calls' /\ calls'[i] = calls[i]
    BY <2>4
  <2>6. \A i \in DOMAIN calls' : i \in DOMAIN calls \/ calls'[i] = c
    BY <2>4
  <2>7. \A i \in DOMAIN calls : (Mounted(i)' <=> Mounted(i)) /\ OrderOf(i)' = OrderOf(i)
    BY <2>1, <2>5, Zenon DEF Mounted, OrderOf, Places
  <2>8. \A i \in DOMAIN calls' : calls'[i] = c => ~Mounted(i)'
    BY <2>3, Zenon DEF Mounted, Places
  <2>9. \A i : i \in DOMAIN calls' /\ Mounted(i)' <=> i \in DOMAIN calls /\ Mounted(i)
    BY <2>5, <2>6, <2>7, <2>8, Zenon
  <2>10. \A i \in DOMAIN calls' : calls'[i].table <= used'.table
    <3>1. used.table \in Nat /\ \A i \in DOMAIN calls : calls[i].table <= used.table
      BY DEF Buttons, PageShape, Used
    <3>2. used.table <= used.table
      BY <3>1
    <3> QED
      BY <2>1, <2>3, <2>5, <2>6, <3>1, <3>2, Zenon
  <2>11. used'.table <= used'.mounts
    BY <2>1 DEF Buttons
  <2> QED
    BY <2>1, <2>7, <2>9, <2>10, <2>11, ButtonsSame
<1>4. CASE CancelAction
  <2>1. PICK row \in OpenOrdersRows : Cancel(row)
    BY <1>4 DEF CancelAction
  <2>2. PICK id, r : id = row.order.id /\ r = [sender |-> address, orderId |-> row.order.id]
    OBVIOUS
  <2>3. /\ r \in CancelOrderReq /\ r.orderId = id /\ id \notin cancelling /\ NewCall(r, 0) \in CallType
        /\ calls' = With(calls, NextJob, NewCall(r, 0))
        /\ cancelling' = cancelling \cup {id} /\ used' = [used EXCEPT !.cancels = @ + 1]
    BY <2>1, <2>2, CancelFrame, Zenon
  <2>4. PICK n, c : n = NextJob /\ c = NewCall(r, 0)
    OBVIOUS
  <2>5. ~IsPlace(c.req) /\ c.req.orderId = id /\ c.table = used.table
    BY <2>3, <2>4, PlaceOrCancel DEF NewCall
  <2>6. /\ DOMAIN calls' = DOMAIN calls \cup {n} /\ n \notin DOMAIN calls
        /\ calls'[n] = c /\ \A i \in DOMAIN calls : calls'[i] = calls[i]
    BY <2>3, <2>4, CallAdded, Zenon
  <2>7. used'.table = used.table /\ used'.mounts = used.mounts
    BY <2>3 DEF PageShape, Used
  <2>8. Mounted(n)' /\ OrderOf(n)' = id
    BY <2>5, <2>6, <2>7, Zenon DEF Mounted, OrderOf, Places
  <2>9. \A i \in DOMAIN calls : (Mounted(i)' <=> Mounted(i)) /\ OrderOf(i)' = OrderOf(i)
    BY <2>6, <2>7, Zenon DEF Mounted, OrderOf, Places
  <2>10. \A i \in DOMAIN calls : Mounted(i) => OrderOf(i) # id /\ OrderOf(i) \in cancelling
    BY <2>3 DEF Buttons
  <2>11. ASSUME NEW x \in cancelling'
         PROVE  \E i \in DOMAIN calls' : Mounted(i)' /\ OrderOf(i)' = x
    <3>1. CASE x = id
      BY <2>6, <2>8, <3>1
    <3>2. CASE x \in cancelling
      <4>1. PICK i \in DOMAIN calls : Mounted(i) /\ OrderOf(i) = x
        BY <3>2 DEF Buttons
      <4> QED
        BY <2>6, <2>9, <4>1
    <3> QED
      BY <2>3, <2>11, <3>1, <3>2
  <2>12. ASSUME NEW i \in DOMAIN calls', NEW l \in DOMAIN calls', Mounted(i)', Mounted(l)',
                OrderOf(i)' = OrderOf(l)'
         PROVE  i = l
    <3>1. CASE i \in DOMAIN calls /\ l \in DOMAIN calls
      BY <2>9, <2>12, <3>1 DEF Buttons
    <3> QED
      BY <2>6, <2>8, <2>9, <2>10, <2>12, <3>1
  <2>13. \A i \in DOMAIN calls' : Mounted(i)' => OrderOf(i)' \in cancelling'
    BY <2>3, <2>6, <2>8, <2>9, <2>10
  <2>14. \A i \in DOMAIN calls' : calls'[i].table <= used'.table
    BY <2>5, <2>6, <2>7 DEF Buttons, PageShape, Used
  <2>15. used'.table <= used'.mounts
    BY <2>7 DEF Buttons
  <2> QED
    BY <2>11, <2>12, <2>13, <2>14, <2>15, Zenon DEF Buttons
<1>5. CASE PostAction
  <2>1. PICK j \in DOMAIN calls : Posted(j)
    BY <1>5 DEF PostAction
  <2>2. /\ DOMAIN calls' = DOMAIN calls /\ cancelling' = cancelling /\ used' = used
        /\ \A i \in DOMAIN calls : calls'[i].req = calls[i].req /\ calls'[i].table = calls[i].table
    BY <2>1, PostFrame DEF page
  <2>3. \A i \in DOMAIN calls : (Mounted(i)' <=> Mounted(i)) /\ OrderOf(i)' = OrderOf(i)
    BY <2>2, Zenon DEF Mounted, OrderOf, Places
  <2>4. \A i \in DOMAIN calls' : calls'[i].table <= used'.table
    BY <2>2 DEF Buttons
  <2>5. used'.table <= used'.mounts
    BY <2>2 DEF Buttons
  <2> QED
    BY <2>2, <2>3, <2>4, <2>5, ButtonsSame
<1>6. CASE EndAction
  <2>1. PICK j \in DOMAIN calls : Refused(j) \/ Succeeds(j) \/ Fails(j)
    BY <1>6 DEF EndAction
  <2>2. /\ DOMAIN calls' = DOMAIN calls \ {j} /\ \A i \in DOMAIN calls' : calls'[i] = calls[i]
        /\ cancelling' = ButtonsAfter(calls[j]) /\ used' = used
    BY <2>1, EndFrame, Zenon
  <2>3. \A i \in DOMAIN calls' : (Mounted(i)' <=> Mounted(i)) /\ OrderOf(i)' = OrderOf(i)
    BY <2>2, Zenon DEF Mounted, OrderOf, Places
  <2>4. \A i \in DOMAIN calls' : calls'[i].table <= used'.table
    BY <2>2 DEF Buttons
  <2>5. used'.table <= used'.mounts
    BY <2>2 DEF Buttons
  <2>6. cancelling' = IF Mounted(j) THEN cancelling \ {OrderOf(j)} ELSE cancelling
    BY <2>2, Zenon DEF ButtonsAfter, Mounted, OrderOf, Places
  <2>7. CASE ~Mounted(j)
    <3>1. \A i : i \in DOMAIN calls' /\ Mounted(i)' <=> i \in DOMAIN calls /\ Mounted(i)
      BY <2>2, <2>3, <2>7
    <3> QED
      BY <2>2, <2>3, <2>4, <2>5, <2>6, <2>7, <3>1, ButtonsSame
  <2>8. CASE Mounted(j)
    <3>1. cancelling' = cancelling \ {OrderOf(j)}
      BY <2>6, <2>8
    <3>2. ASSUME NEW x \in cancelling'
          PROVE  \E i \in DOMAIN calls' : Mounted(i)' /\ OrderOf(i)' = x
      <4>1. x \in cancelling /\ x # OrderOf(j)
        BY <3>1, <3>2
      <4>2. PICK i \in DOMAIN calls : Mounted(i) /\ OrderOf(i) = x
        BY <4>1 DEF Buttons
      <4> QED
        BY <2>2, <2>3, <4>1, <4>2
    <3>3. ASSUME NEW i \in DOMAIN calls', NEW l \in DOMAIN calls', Mounted(i)', Mounted(l)',
                 OrderOf(i)' = OrderOf(l)'
          PROVE  i = l
      BY <2>2, <2>3, <3>3 DEF Buttons
    <3>4. ASSUME NEW i \in DOMAIN calls', Mounted(i)'
          PROVE  OrderOf(i)' \in cancelling'
      <4>1. i \in DOMAIN calls /\ Mounted(i) /\ i # j /\ OrderOf(i)' = OrderOf(i)
        BY <2>2, <2>3, <3>4
      <4>2. OrderOf(i) \in cancelling /\ OrderOf(i) # OrderOf(j)
        BY <2>8, <4>1 DEF Buttons
      <4> QED
        BY <3>1, <4>1, <4>2
    <3> QED
      BY <2>4, <2>5, <3>2, <3>3, <3>4, Zenon DEF Buttons
  <2> QED
    BY <2>7, <2>8
<1>7. CASE TeeAction
  <2>1. calls' = calls /\ cancelling' = cancelling /\ used' = used
    BY <1>7, TeeFrame DEF page
  <2> QED
    BY <2>1, Zenon DEF Buttons, Mounted, OrderOf, Places
<1> QED
  BY <1>1, <1>2, <1>3, <1>4, <1>5, <1>6, <1>7, Kinds DEF Aside

-----------------------------------------------------------------------------
(* What is held is what the open orders hold.                              *)

OrderCost(o) == Cost(o.side, o.price, o.remaining)
Owned(orders, u, t) == {o \in orders : o.owner = u /\ SpentToken(o.side) = t}

\* Costs and gains are amounts; a side spends one token and gains the other.
LEMMA Amounts ==
  ASSUME TradingAssumption, NEW side \in FormSides, NEW p \in Prices, NEW q \in Quantities
  PROVE  /\ Cost(side, p, q) \in Nat /\ Gain(side, p, q) \in Nat
         /\ SpentToken(side) \in Tokens /\ GainedToken(side) \in Tokens
<1>1. p \in Nat /\ q \in Nat
  OBVIOUS
<1>2. p * q \in Nat
  BY <1>1
<1> QED
  BY <1>1, <1>2, Zenon DEF Cost, Gain, SpentToken, GainedToken, Tokens

\* An order that is added brings its hold.
LEMMA DuesAdded ==
  ASSUME TradingAssumption, NEW S, IsFiniteSet(S), S \subseteq OpenOrder, NEW o \in OpenOrder, o \notin S
  PROVE  /\ Total(Dues(S \cup {o})) = Total(Dues(S)) + OrderCost(o)
         /\ Total(Dues(S)) \in Nat /\ OrderCost(o) \in Nat
<1>1. \A x \in S \cup {o} : OrderCost(x) \in Nat
  BY Amounts DEF OpenOrder, OrderCost
<1> DEFINE f == [x \in S \cup {o} |-> OrderCost(x)]
<1>2. IsFiniteSet(S \cup {o})
  BY FS_AddElement
<1>3. f \in [S \cup {o} -> Nat]
  BY <1>1
<1>4. Total(f) = Total([x \in (S \cup {o}) \ {o} |-> f[x]]) + f[o]
  BY <1>2, <1>3, TotalRemove
<1>5. [x \in (S \cup {o}) \ {o} |-> f[x]] = Dues(S)
  BY DEF Dues, OrderCost
<1>6. f = Dues(S \cup {o}) /\ f[o] = OrderCost(o)
  BY DEF Dues, OrderCost
<1>7. Dues(S) \in [S -> Nat]
  BY <1>1 DEF Dues, OrderCost
<1>8. Total(Dues(S)) \in Nat
  BY <1>7, UnitsFinite
<1> QED
  BY <1>1, <1>4, <1>5, <1>6, <1>8

\* An order that leaves takes its hold along.
LEMMA DuesRemoved ==
  ASSUME TradingAssumption, NEW S, IsFiniteSet(S), S \subseteq OpenOrder, NEW o \in S
  PROVE  /\ Total(Dues(S)) = Total(Dues(S \ {o})) + OrderCost(o)
         /\ Total(Dues(S \ {o})) \in Nat /\ OrderCost(o) \in Nat
<1>1. IsFiniteSet(S \ {o})
  BY FS_RemoveElement
<1>2. S = (S \ {o}) \cup {o} /\ o \notin S \ {o} /\ S \ {o} \subseteq OpenOrder /\ o \in OpenOrder
  OBVIOUS
<1> QED
  BY <1>1, <1>2, DuesAdded, Zenon

\* Fewer orders hold no more.
LEMMA DuesLess ==
  ASSUME TradingAssumption, NEW S, IsFiniteSet(S), S \subseteq OpenOrder, NEW T \in SUBSET S
  PROVE  /\ Total(Dues(T)) <= Total(Dues(S)) /\ Total(Dues(T)) \in Nat /\ Total(Dues(S)) \in Nat
<1>1. \A x \in S : OrderCost(x) \in Nat
  BY Amounts DEF OpenOrder, OrderCost
<1>2. Dues(S) \in [S -> Nat] /\ Dues(T) \in [T -> Nat] /\ Dues(S \ T) \in [S \ T -> Nat]
  BY <1>1 DEF Dues, OrderCost
<1>3. IsFiniteSet(T) /\ IsFiniteSet(S \ T)
  BY FS_Subset
<1>4. PICK f \in [S -> Nat] : f = Dues(S)
  BY <1>2
<1>5. [x \in T |-> f[x]] = Dues(T) /\ [x \in S \ T |-> f[x]] = Dues(S \ T)
  BY <1>4 DEF Dues
<1>6. Total(f) = Total([x \in T |-> f[x]]) + Total([x \in S \ T |-> f[x]])
  BY TotalParts
<1>7. Total(Dues(S)) \in Nat /\ Total(Dues(T)) \in Nat /\ Total(Dues(S \ T)) \in Nat
  BY <1>2, <1>3, UnitsFinite
<1> QED
  BY <1>4, <1>5, <1>6, <1>7

\* The balances while an amount moves.
LEMMA Moved ==
  ASSUME NEW bal \in [Users -> [Tokens -> TokenBalance]], NEW u \in Users, NEW t \in Tokens,
         NEW a \in Int, NEW h \in Int,
         bal[u][t].available + a \in Nat, bal[u][t].held + h \in Nat
  PROVE  /\ Move(bal, u, t, a, h) \in [Users -> [Tokens -> TokenBalance]]
         /\ Move(bal, u, t, a, h)[u][t].held = bal[u][t].held + h
         /\ Move(bal, u, t, a, h)[u][t].available = bal[u][t].available + a
         /\ \A v \in Users, s \in Tokens :
              v # u \/ s # t => Move(bal, u, t, a, h)[v][s] = bal[v][s]
<1>1. PICK x : x = [available |-> bal[u][t].available + a, held |-> bal[u][t].held + h]
  OBVIOUS
<1>2. x \in TokenBalance /\ x.available = bal[u][t].available + a /\ x.held = bal[u][t].held + h
  BY <1>1 DEF TokenBalance
<1>3. Move(bal, u, t, a, h) = [bal EXCEPT ![u][t] = x]
  BY <1>1, Zenon DEF Move
<1>4. bal[u] \in [Tokens -> TokenBalance]
  OBVIOUS
<1>5. PICK y : y = [bal[u] EXCEPT ![t] = x]
  OBVIOUS
<1>6. y \in [Tokens -> TokenBalance] /\ y[t] = x /\ \A s \in Tokens : s # t => y[s] = bal[u][s]
  BY <1>2, <1>4, <1>5
<1>7. Move(bal, u, t, a, h) = [bal EXCEPT ![u] = y]
  BY <1>3, <1>5, Zenon
<1> QED
  BY <1>2, <1>6, <1>7

\* What is held of a user's token is what its orders hold.
HeldIs(bal, orders) ==
  \A u \in Users, t \in Tokens : bal[u][t].held = Total(Dues(Owned(orders, u, t)))

\* An order comes to rest and its cost is held.
LEMMA HeldMore ==
  ASSUME TradingAssumption, NEW bal \in [Users -> [Tokens -> TokenBalance]], NEW S, IsFiniteSet(S),
         S \subseteq OpenOrder, NEW o \in OpenOrder, o \notin S, HeldIs(bal, S), NEW a \in Int,
         bal[o.owner][SpentToken(o.side)].available + a \in Nat
  PROVE  LET after == Move(bal, o.owner, SpentToken(o.side), a, OrderCost(o))
         IN after \in [Users -> [Tokens -> TokenBalance]] /\ HeldIs(after, S \cup {o})
<1> DEFINE after == Move(bal, o.owner, SpentToken(o.side), a, OrderCost(o))
<1>1. o.owner \in Users /\ SpentToken(o.side) \in Tokens /\ OrderCost(o) \in Nat
  BY Amounts DEF OpenOrder, OrderCost
<1>2. PICK w \in Users, s \in Tokens : w = o.owner /\ s = SpentToken(o.side)
  BY <1>1
<1>3. bal[w][s].held \in Nat /\ bal[w][s].available + a \in Nat
  BY <1>2 DEF TokenBalance
<1>4. bal[w][s].held + OrderCost(o) \in Nat
  BY <1>1, <1>3
<1>5. /\ after \in [Users -> [Tokens -> TokenBalance]]
      /\ after[w][s].held = bal[w][s].held + OrderCost(o)
      /\ \A v \in Users, x \in Tokens : v # w \/ x # s => after[v][x] = bal[v][x]
  BY <1>1, <1>2, <1>3, <1>4, Moved
<1>6. ASSUME NEW v \in Users, NEW x \in Tokens
      PROVE  after[v][x].held = Total(Dues(Owned(S \cup {o}, v, x)))
  <2>1. CASE v = w /\ x = s
    <3>1. Owned(S \cup {o}, v, x) = Owned(S, v, x) \cup {o} /\ o \notin Owned(S, v, x)
          /\ Owned(S, v, x) \subseteq S
      BY <1>2, <2>1 DEF Owned
    <3>2. IsFiniteSet(Owned(S, v, x)) /\ Owned(S, v, x) \subseteq OpenOrder
      BY <3>1, FS_Subset
    <3>3. Total(Dues(Owned(S, v, x) \cup {o})) = Total(Dues(Owned(S, v, x))) + OrderCost(o)
      BY <3>1, <3>2, DuesAdded, Zenon
    <3>4. bal[v][x].held = Total(Dues(Owned(S, v, x)))
      BY DEF HeldIs
    <3> QED
      BY <1>5, <2>1, <3>1, <3>3, <3>4
  <2>2. CASE v # w \/ x # s
    <3>1. Owned(S \cup {o}, v, x) = Owned(S, v, x)
      BY <1>2, <2>2 DEF Owned
    <3>2. bal[v][x].held = Total(Dues(Owned(S, v, x)))
      BY DEF HeldIs
    <3> QED
      BY <1>5, <2>2, <3>1, <3>2
  <2> QED
    BY <2>1, <2>2
<1>7. HeldIs(after, S \cup {o})
  BY <1>6, Zenon DEF HeldIs
<1> QED
  BY <1>5, <1>7

\* An order leaves and its cost is released.
LEMMA HeldLess ==
  ASSUME TradingAssumption, NEW bal \in [Users -> [Tokens -> TokenBalance]], NEW S, IsFiniteSet(S),
         S \subseteq OpenOrder, NEW o \in S, HeldIs(bal, S), NEW a \in Int,
         bal[o.owner][SpentToken(o.side)].available + a \in Nat
  PROVE  LET after == Move(bal, o.owner, SpentToken(o.side), a, 0 - OrderCost(o))
         IN after \in [Users -> [Tokens -> TokenBalance]] /\ HeldIs(after, S \ {o})
<1> DEFINE after == Move(bal, o.owner, SpentToken(o.side), a, 0 - OrderCost(o))
<1>1. o.owner \in Users /\ SpentToken(o.side) \in Tokens /\ OrderCost(o) \in Nat
  BY Amounts DEF OpenOrder, OrderCost
<1>2. PICK w \in Users, s \in Tokens : w = o.owner /\ s = SpentToken(o.side)
  BY <1>1
<1>3. /\ o \in Owned(S, w, s) /\ Owned(S, w, s) \subseteq S
      /\ Owned(S \ {o}, w, s) = Owned(S, w, s) \ {o}
  BY <1>2 DEF Owned
<1>4. IsFiniteSet(Owned(S, w, s)) /\ Owned(S, w, s) \subseteq OpenOrder
  BY <1>3, FS_Subset
<1>5. /\ Total(Dues(Owned(S, w, s))) = Total(Dues(Owned(S, w, s) \ {o})) + OrderCost(o)
      /\ Total(Dues(Owned(S, w, s) \ {o})) \in Nat
  BY <1>3, <1>4, DuesRemoved, Zenon
<1>6. bal[w][s].held = Total(Dues(Owned(S, w, s)))
  BY DEF HeldIs
<1>7. PICK h \in Int : h = 0 - OrderCost(o)
  BY <1>1
<1>8. bal[w][s].held + h \in Nat /\ bal[w][s].held + h = Total(Dues(Owned(S, w, s) \ {o}))
  BY <1>1, <1>5, <1>6, <1>7
<1>9. bal[w][s].available + a \in Nat /\ after = Move(bal, w, s, a, h)
  BY <1>2, <1>7
<1>10. /\ after \in [Users -> [Tokens -> TokenBalance]]
       /\ after[w][s].held = bal[w][s].held + h
       /\ \A v \in Users, x \in Tokens : v # w \/ x # s => after[v][x] = bal[v][x]
  BY <1>8, <1>9, Moved
<1>11. ASSUME NEW v \in Users, NEW x \in Tokens
       PROVE  after[v][x].held = Total(Dues(Owned(S \ {o}, v, x)))
  <2>1. CASE v = w /\ x = s
    BY <1>3, <1>8, <1>10, <2>1
  <2>2. CASE v # w \/ x # s
    <3>1. Owned(S \ {o}, v, x) = Owned(S, v, x)
      BY <1>2, <2>2 DEF Owned
    <3>2. bal[v][x].held = Total(Dues(Owned(S, v, x)))
      BY DEF HeldIs
    <3> QED
      BY <1>10, <2>2, <3>1, <3>2
  <2> QED
    BY <2>1, <2>2
<1>12. HeldIs(after, S \ {o})
  BY <1>11, Zenon DEF HeldIs
<1> QED
  BY <1>10, <1>12

\* An amount moved without a hold changes nothing of what is held.
LEMMA HeldSame ==
  ASSUME NEW bal \in [Users -> [Tokens -> TokenBalance]], NEW S, HeldIs(bal, S),
         NEW u \in Users, NEW t \in Tokens, NEW a \in Int, bal[u][t].available + a \in Nat
  PROVE  /\ Move(bal, u, t, a, 0) \in [Users -> [Tokens -> TokenBalance]]
         /\ HeldIs(Move(bal, u, t, a, 0), S)
<1> DEFINE after == Move(bal, u, t, a, 0)
<1>1. bal[u][t].held + 0 \in Nat /\ bal[u][t].held + 0 = bal[u][t].held
  BY DEF TokenBalance
<1>2. /\ after \in [Users -> [Tokens -> TokenBalance]]
      /\ after[u][t].held = bal[u][t].held
      /\ \A v \in Users, x \in Tokens : v # u \/ x # t => after[v][x] = bal[v][x]
  BY <1>1, Moved
<1>3. \A v \in Users, x \in Tokens : after[v][x].held = bal[v][x].held
  BY <1>2
<1> QED
  BY <1>2, <1>3, Zenon DEF HeldIs

\* The invariant's own words for the same.
LEMMA HeldFits ==
  ASSUME NEW u, NEW t
  PROVE  OfToken(OwingOf(u), t) = Owned(Owing, u, t)
BY DEF OfToken, OwingOf, Owned

\* What the engine's parts are.
LEMMA EngineParts ==
  ASSUME EngineFits
  PROVE  /\ engine \in Engine /\ engine.balances \in [Users -> [Tokens -> TokenBalance]]
         /\ engine.open \subseteq Owing /\ engine.releasing \subseteq Owing /\ Owing \subseteq OpenOrder
         /\ engine.open \subseteq OpenOrder /\ engine.releasing \subseteq OpenOrder
         /\ engine.matches \subseteq BookMatch /\ IsFiniteSet(Owing)
         /\ HeldIs(engine.balances, Owing) /\ engine.open \cap engine.releasing = {}
<1>1. HeldIs(engine.balances, Owing)
  BY HeldFits DEF HeldIs, EngineFits
<1> QED
  BY <1>1 DEF EngineFits, Engine, Owing

\* The engine's version is a number.
LEMMA VersionIsNat ==
  ASSUME EngineFits
  PROVE  engine.version \in Nat
BY DEF EngineFits, Engine

\* A next engine that fits.
LEMMA EngineNext ==
  ASSUME engine' \in Engine, NEW S, S = engine'.open \cup engine'.releasing, IsFiniteSet(S),
         engine'.open \cap engine'.releasing = {}, HeldIs(engine'.balances, S),
         \A o \in S : o.id \in DOMAIN instr' /\ instr'[o.id].status # "queued"
  PROVE  EngineFits'
<1>0. Owing' = S
  BY DEF Owing
<1>1. \A u, t : (OfToken(OwingOf(u), t))' = Owned(S, u, t)
  BY <1>0 DEF OfToken, OwingOf, Owned
<1>2. \A u \in Users, t \in Tokens :
         engine'.balances[u][t].held = Total(Dues((OfToken(OwingOf(u), t))'))
  BY <1>1 DEF HeldIs
<1> QED
  BY <1>0, <1>2, Zenon DEF EngineFits, OfToken, OwingOf

\* A change of the engine counts as a version; no change does not.
LEMMA NewVersion ==
  ASSUME EngineFits, TradingAssumption, NEW e \in Engine, e.version = engine.version,
         engine.version < MaxVersion \/ e = engine,
         engine' = [e EXCEPT !.version = IF e = engine THEN @ ELSE @ + 1]
  PROVE  /\ engine' \in Engine /\ engine'.open = e.open /\ engine'.releasing = e.releasing
         /\ engine'.balances = e.balances
         /\ engine'.version \in Nat /\ engine.version <= engine'.version
<1>1. engine.version \in 1..MaxVersion /\ MaxVersion \in Nat
  BY TradingAssumption DEF EngineFits, Engine
<1>2. PICK n \in 1..MaxVersion : /\ n = IF e = engine THEN e.version ELSE e.version + 1
                                 /\ engine.version <= n
  BY <1>1
<1>3. engine' = [e EXCEPT !.version = n]
  BY <1>2
<1>4. /\ engine' \in Engine /\ engine'.open = e.open /\ engine'.releasing = e.releasing
      /\ engine'.balances = e.balances /\ engine'.version = n
  BY <1>3 DEF Engine
<1> QED
  BY <1>1, <1>2, <1>4

\* The engine that an instruction carried out leaves.
LEMMA SettledFits ==
  ASSUME TradingAssumption, PageShape, EngineFits, NEW k \in DOMAIN instr,
         NEW status \in {"done", "failed"}, NEW e \in Engine, Settle(k, status, e),
         e.version = engine.version, engine.version < MaxVersion \/ e = engine,
         NEW S, S = e.open \cup e.releasing, IsFiniteSet(S), e.open \cap e.releasing = {},
         HeldIs(e.balances, S), \A x \in S : x \in Owing \/ x.id = k
  PROVE  EngineFits' /\ engine'.version \in Nat /\ engine.version <= engine'.version
<1>1. /\ engine' = [e EXCEPT !.version = IF e = engine THEN @ ELSE @ + 1]
      /\ instr' = [instr EXCEPT ![k].status = status]
  BY Zenon DEF Settle
<1>2. /\ engine' \in Engine /\ engine'.open = e.open /\ engine'.releasing = e.releasing
      /\ engine'.balances = e.balances
      /\ engine'.version \in Nat /\ engine.version <= engine'.version
  BY <1>1, NewVersion
<1>3. /\ DOMAIN instr' = DOMAIN instr /\ instr'[k].status = status
      /\ \A l \in DOMAIN instr : l # k => instr'[l] = instr[l]
  BY <1>1, Settled
<1>4. \A x \in S : x.id \in DOMAIN instr' /\ instr'[x.id].status # "queued"
  BY <1>3 DEF EngineFits
<1>5. EngineFits'
  BY <1>2, <1>4, EngineNext
<1> QED
  BY <1>2, <1>5

\* The execution price is a price.
LEMMA ExecPriceIsPrice ==
  ASSUME TradingAssumption, NEW r \in PlaceOrderReq
  PROVE  ExecPrice(r) \in Prices
<1>1. \E p \in Prices : \A x \in Prices : p <= x
  <2>1. IsWellFoundedOn(OpToRel(<, Nat), Nat)
    BY NatLessThanWellFounded
  <2>2. Prices \subseteq Nat /\ Prices # {}
    OBVIOUS
  <2>3. \E p \in Prices : \A x \in Prices : ~(<<x, p>> \in OpToRel(<, Nat))
    BY <2>1, <2>2, WFMin, Zenon
  <2>4. \E p \in Prices : \A x \in Prices : ~(x < p)
    BY <2>2, <2>3, Zenon DEF OpToRel
  <2> QED
    BY <2>2, <2>4
<1>2. r.price \in Prices \cup {0}
  BY DEF PlaceOrderReq
<1> QED
  BY <1>1, <1>2 DEF ExecPrice

\* A match of a user's order is one.
LEMMA MatchIsMatch ==
  ASSUME NEW id \in Nat, NEW r, r.owner \in Users, r.pair \in Pairs
  PROVE  MatchOf(id, r) \in BookMatch
BY DEF MatchOf, BookMatch

\* An order carried out.
LEMMA PlaceFits ==
  ASSUME TradingAssumption, PageShape, EngineFits, NEW k \in DOMAIN instr, ExecutePlace(k)
  PROVE  EngineFits' /\ engine'.version \in Nat /\ engine.version <= engine'.version
<1>1. IsPlace(instr[k].req) /\ instr[k].status = "queued" /\ engine.version < MaxVersion
  BY Zenon DEF ExecutePlace
<1>2. instr[k].req \in PlaceOrderReq /\ k \in Nat
  BY <1>1, SeqTypes, PlaceOrCancel DEF Instr
<1>3. PICK r \in PlaceOrderReq : r = instr[k].req
  BY <1>2
<1>4. PICK p \in Prices : p = ExecPrice(r)
  BY ExecPriceIsPrice
<1>5. PICK o : o = [id |-> k, owner |-> r.sender, pair |-> r.pair, side |-> r.side,
                    price |-> p, remaining |-> r.quantity]
  OBVIOUS
<1>6. /\ o \in OpenOrder /\ o.id = k /\ o.owner = r.sender /\ o.pair = r.pair /\ o.side = r.side
      /\ o.price = p /\ o.remaining = r.quantity
  BY <1>2, <1>5 DEF OpenOrder, PlaceOrderReq
<1>7. r.sender \in Users /\ r.side \in FormSides /\ r.quantity \in Quantities /\ r.pair \in Pairs
  BY DEF PlaceOrderReq
<1>8. PICK u \in Users, t \in Tokens, g \in Tokens, cost \in Nat, gain \in Nat :
        /\ u = r.sender /\ t = SpentToken(r.side) /\ g = GainedToken(r.side)
        /\ cost = Cost(r.side, p, r.quantity) /\ gain = Gain(r.side, p, r.quantity)
  BY <1>7, Amounts
<1>9. /\ engine \in Engine /\ engine.balances \in [Users -> [Tokens -> TokenBalance]]
      /\ engine.open \subseteq OpenOrder /\ engine.matches \subseteq BookMatch
      /\ Owing \subseteq OpenOrder /\ IsFiniteSet(Owing) /\ HeldIs(engine.balances, Owing)
      /\ engine.open \cap engine.releasing = {} /\ engine.releasing \subseteq Owing
  BY EngineParts
<1>10. engine.balances[u][t].available \in Nat /\ engine.balances[u][t].held \in Nat
  BY <1>9 DEF TokenBalance
<1>11. o \notin Owing
  BY <1>1, <1>6 DEF EngineFits
<1>14. CASE Settle(k, "failed", engine)
  BY <1>9, <1>14, SettledFits DEF Owing
<1>15. CASE /\ engine.balances[u][t].available >= cost
            /\ Settle(k, "done", [engine EXCEPT !.open = @ \cup {o},
                 !.balances = Move(@, u, t, 0 - cost, cost)])
  <2>1. PICK a \in Int : a = 0 - cost
    OBVIOUS
  <2>2. engine.balances[u][t].available + a \in Nat
    BY <1>10, <1>15, <2>1
  <2>3. PICK B : B = Move(engine.balances, u, t, a, cost)
    OBVIOUS
  <2>4. OrderCost(o) = cost /\ o.owner = u /\ SpentToken(o.side) = t
    BY <1>6, <1>8 DEF OrderCost
  <2>5. B \in [Users -> [Tokens -> TokenBalance]] /\ HeldIs(B, Owing \cup {o})
    BY <1>6, <1>9, <1>11, <2>2, <2>3, <2>4, HeldMore
  <2>6. PICK O : O = engine.open \cup {o}
    OBVIOUS
  <2>7. O \subseteq OpenOrder /\ IsFiniteSet(Owing \cup {o})
    BY <1>6, <1>9, <2>6, FS_AddElement
  <2>8. PICK e : e = [engine EXCEPT !.open = O, !.balances = B]
    OBVIOUS
  <2>9. /\ e \in Engine /\ e.version = engine.version /\ e.open = O /\ e.balances = B
        /\ e.releasing = engine.releasing
    BY <1>9, <2>5, <2>7, <2>8 DEF Engine
  <2>10. Settle(k, "done", e)
    BY <1>15, <2>1, <2>3, <2>6, <2>8, Zenon
  <2>11. /\ Owing \cup {o} = e.open \cup e.releasing /\ e.open \cap e.releasing = {}
         /\ \A x \in Owing \cup {o} : x \in Owing \/ x.id = k
    BY <1>6, <1>9, <1>11, <2>6, <2>9 DEF Owing
  <2>12. HeldIs(e.balances, Owing \cup {o})
    BY <2>5, <2>9
  <2> QED
    BY <1>1, <2>7, <2>9, <2>10, <2>11, <2>12, SettledFits
<1>16. CASE /\ engine.balances[u][t].available >= cost
            /\ Settle(k, "done", [engine EXCEPT !.matches = @ \cup {MatchOf(k, o)},
                 !.balances = Move(Move(@, u, t, 0 - cost, 0), u, g, gain, 0)])
  <2>1. PICK a \in Int : a = 0 - cost
    OBVIOUS
  <2>2. engine.balances[u][t].available + a \in Nat
    BY <1>10, <1>16, <2>1
  <2>3. PICK A : A = Move(engine.balances, u, t, a, 0)
    OBVIOUS
  <2>4. A \in [Users -> [Tokens -> TokenBalance]] /\ HeldIs(A, Owing)
    BY <1>9, <2>2, <2>3, HeldSame
  <2>5. A[u][g].available + gain \in Nat
    BY <2>4 DEF TokenBalance
  <2>6. PICK B : B = Move(A, u, g, gain, 0)
    OBVIOUS
  <2>7. B \in [Users -> [Tokens -> TokenBalance]] /\ HeldIs(B, Owing)
    BY <2>4, <2>5, <2>6, HeldSame
  <2>8. PICK M : M = engine.matches \cup {MatchOf(k, o)}
    OBVIOUS
  <2>9. M \subseteq BookMatch
    BY <1>2, <1>6, <1>7, <1>9, <2>8, MatchIsMatch
  <2>10. PICK e : e = [engine EXCEPT !.matches = M, !.balances = B]
    OBVIOUS
  <2>11. /\ e \in Engine /\ e.version = engine.version /\ e.open = engine.open /\ e.balances = B
         /\ e.releasing = engine.releasing
    BY <1>9, <2>7, <2>9, <2>10 DEF Engine
  <2>12. Settle(k, "done", e)
    BY <1>16, <2>1, <2>3, <2>6, <2>8, <2>10, Zenon
  <2>13. /\ Owing = e.open \cup e.releasing /\ e.open \cap e.releasing = {}
         /\ HeldIs(e.balances, Owing)
    BY <1>9, <2>7, <2>11 DEF Owing
  <2> QED
    BY <1>1, <1>9, <2>11, <2>12, <2>13, SettledFits
<1>17. \/ Settle(k, "failed", engine)
       \/ /\ engine.balances[u][t].available >= cost
          /\ Settle(k, "done", [engine EXCEPT !.open = @ \cup {o},
               !.balances = Move(@, u, t, 0 - cost, cost)])
       \/ /\ engine.balances[u][t].available >= cost
          /\ Settle(k, "done", [engine EXCEPT !.matches = @ \cup {MatchOf(k, o)},
               !.balances = Move(Move(@, u, t, 0 - cost, 0), u, g, gain, 0)])
  BY <1>3, <1>4, <1>5, <1>8, Zenon DEF ExecutePlace
<1> QED
  BY <1>14, <1>15, <1>16, <1>17

\* A cancel begun: the order leaves the book and its hold stays.
LEMMA CancelFits ==
  ASSUME TradingAssumption, PageShape, EngineFits, NEW k \in DOMAIN instr, ExecuteCancel(k)
  PROVE  EngineFits' /\ engine'.version \in Nat /\ engine.version <= engine'.version /\ Owing' \subseteq Owing
<1>1. CASE Settle(k, "failed", engine)
  <2>1. EngineFits' /\ engine'.version \in Nat /\ engine.version <= engine'.version
    BY <1>1, EngineParts, SettledFits DEF Owing
  <2>2. Owing' = Owing
    <3>1. engine' = [engine EXCEPT !.version = IF engine = engine THEN @ ELSE @ + 1]
      BY <1>1, Zenon DEF Settle
    <3> QED
      BY <3>1, EngineParts DEF Engine, Owing
  <2> QED
    BY <2>1, <2>2
<1>2. ASSUME NEW o \in engine.open, instr' = [instr EXCEPT ![k].status = "removed"],
             engine' = [engine EXCEPT !.open = @ \ {o}, !.releasing = @ \cup {o}]
      PROVE  EngineFits' /\ engine'.version \in Nat /\ engine.version <= engine'.version /\ Owing' \subseteq Owing
  <2>1. PICK O, R : O = engine.open \ {o} /\ R = engine.releasing \cup {o}
    OBVIOUS
  <2>2. engine' = [engine EXCEPT !.open = O, !.releasing = R]
    BY <1>2, <2>1
  <2>3. O \subseteq OpenOrder /\ R \subseteq OpenOrder /\ O \cap R = {} /\ O \cup R = Owing
    BY <2>1, EngineParts DEF Owing
  <2>4. /\ engine' \in Engine /\ engine'.open = O /\ engine'.releasing = R
        /\ engine'.balances = engine.balances /\ engine'.version = engine.version
    BY <2>2, <2>3, EngineParts DEF Engine
  <2>5. /\ DOMAIN instr' = DOMAIN instr /\ instr'[k].status = "removed"
        /\ \A l \in DOMAIN instr : l # k => instr'[l] = instr[l]
    BY <1>2, Settled
  <2>6. \A x \in Owing : x.id \in DOMAIN instr' /\ instr'[x.id].status # "queued"
    BY <2>5 DEF EngineFits
  <2>7. EngineFits'
    BY <2>3, <2>4, <2>6, EngineParts, EngineNext
  <2>8. Owing' = Owing
    BY <2>3, <2>4 DEF Owing
  <2> QED
    BY <2>4, <2>7, <2>8, VersionIsNat
<1>3. \/ Settle(k, "failed", engine)
      \/ \E o \in engine.open : /\ instr' = [instr EXCEPT ![k].status = "removed"]
                                /\ engine' = [engine EXCEPT !.open = @ \ {o}, !.releasing = @ \cup {o}]
  BY Zenon DEF ExecuteCancel
<1> QED
  BY <1>1, <1>2, <1>3

\* A cancel carried out: the hold goes.
LEMMA ReleaseFits ==
  ASSUME TradingAssumption, PageShape, EngineFits, NEW k \in DOMAIN instr, ReleaseCancelled(k)
  PROVE  EngineFits' /\ engine'.version \in Nat /\ engine.version <= engine'.version /\ Owing' \subseteq Owing
<1>1. engine.version < MaxVersion
  BY Zenon DEF ReleaseCancelled
<1>2. PICK o \in engine.releasing :
        Settle(k, "done", [engine EXCEPT !.releasing = @ \ {o},
               !.balances = Move(@, o.owner, SpentToken(o.side), Cost(o.side, o.price, o.remaining),
                                 0 - Cost(o.side, o.price, o.remaining))])
  BY Zenon DEF ReleaseCancelled
<1>3. o \in Owing /\ o \in OpenOrder /\ o \notin engine.open
  BY EngineParts
<1>4. o.owner \in Users /\ SpentToken(o.side) \in Tokens /\ OrderCost(o) \in Nat
  BY <1>3, Amounts DEF OpenOrder, OrderCost
<1>5. PICK u \in Users, t \in Tokens, a \in Int : u = o.owner /\ t = SpentToken(o.side) /\ a = OrderCost(o)
  BY <1>4
<1>6. engine.balances[u][t].available \in Nat
  BY EngineParts DEF TokenBalance
<1>7. engine.balances[o.owner][SpentToken(o.side)].available + a \in Nat
  BY <1>4, <1>5, <1>6
<1>8. PICK B : B = Move(engine.balances, o.owner, SpentToken(o.side), a, 0 - OrderCost(o))
  OBVIOUS
<1>9. PICK R, S : R = engine.releasing \ {o} /\ S = Owing \ {o}
  OBVIOUS
<1>10. B \in [Users -> [Tokens -> TokenBalance]] /\ HeldIs(B, S)
  BY <1>3, <1>7, <1>8, <1>9, EngineParts, HeldLess
<1>11. S = engine.open \cup R /\ S \subseteq Owing /\ R \subseteq OpenOrder /\ engine.open \cap R = {}
  BY <1>3, <1>9, EngineParts DEF Owing
<1>12. IsFiniteSet(S)
  BY <1>9, EngineParts, FS_RemoveElement
<1>13. PICK e : e = [engine EXCEPT !.releasing = R, !.balances = B]
  OBVIOUS
<1>14. /\ e \in Engine /\ e.version = engine.version /\ e.open = engine.open /\ e.releasing = R
       /\ e.balances = B
  BY <1>10, <1>11, <1>13, EngineParts DEF Engine
<1>15. Settle(k, "done", e)
  BY <1>2, <1>5, <1>8, <1>9, <1>13, Zenon DEF OrderCost
<1>16. EngineFits' /\ engine'.version \in Nat /\ engine.version <= engine'.version
  <2>1. S = e.open \cup e.releasing /\ e.open \cap e.releasing = {} /\ HeldIs(e.balances, S)
    BY <1>10, <1>11, <1>14
  <2> QED
    BY <1>1, <1>11, <1>12, <1>14, <1>15, <2>1, SettledFits
<1>17. Owing' \subseteq Owing
  <2>1. engine' = [e EXCEPT !.version = IF e = engine THEN @ ELSE @ + 1]
    BY <1>15, Zenon DEF Settle
  <2>2. engine'.open = e.open /\ engine'.releasing = e.releasing
    BY <1>1, <1>14, <2>1, NewVersion
  <2> QED
    BY <1>11, <1>14, <2>2 DEF Owing
<1> QED
  BY <1>16, <1>17

\* A resting order taken by another trader's.
LEMMA TradeFits ==
  ASSUME TradingAssumption, PageShape, EngineFits, NEW o \in engine.open, TradeResting(o)
  PROVE  EngineFits' /\ engine'.version \in Nat /\ engine.version <= engine'.version
<1>1. /\ engine.version < MaxVersion /\ instr' = instr
      /\ engine' = [engine EXCEPT !.open = @ \ {o}, !.version = @ + 1,
           !.matches = @ \cup {MatchOf(o.id, o)},
           !.balances = Move(Move(@, o.owner, SpentToken(o.side), 0,
                                  0 - Cost(o.side, o.price, o.remaining)),
                             o.owner, GainedToken(o.side), Gain(o.side, o.price, o.remaining), 0)]
  BY Zenon DEF TradeResting
<1>2. /\ o \in OpenOrder /\ o.id \in Nat /\ o.owner \in Users /\ o.pair \in Pairs
      /\ o.side \in FormSides /\ o.price \in Prices /\ o.remaining \in Quantities
  BY EngineParts DEF OpenOrder
<1>3. PICK u \in Users, t \in Tokens, g \in Tokens, cost \in Nat, gain \in Nat :
        /\ u = o.owner /\ t = SpentToken(o.side) /\ g = GainedToken(o.side)
        /\ cost = OrderCost(o) /\ gain = Gain(o.side, o.price, o.remaining)
  BY <1>2, Amounts DEF OrderCost
<1>4. engine.balances[u][t].available \in Nat
  BY EngineParts DEF TokenBalance
<1>a. PICK z \in Int : z = 0
  OBVIOUS
<1>5. engine.balances[o.owner][SpentToken(o.side)].available + z \in Nat
  BY <1>3, <1>4, <1>a
<1>6. PICK O, S : O = engine.open \ {o} /\ S = Owing \ {o}
  OBVIOUS
<1>7. PICK A : A = Move(engine.balances, o.owner, SpentToken(o.side), z, 0 - OrderCost(o))
  OBVIOUS
<1>8. A \in [Users -> [Tokens -> TokenBalance]] /\ HeldIs(A, S)
  BY <1>5, <1>6, <1>7, EngineParts, HeldLess
<1>9. A[u][g].available + gain \in Nat
  BY <1>8 DEF TokenBalance
<1>10. PICK B : B = Move(A, u, g, gain, 0)
  OBVIOUS
<1>11. B \in [Users -> [Tokens -> TokenBalance]] /\ HeldIs(B, S)
  BY <1>8, <1>9, <1>10, HeldSame
<1>12. PICK M : M = engine.matches \cup {MatchOf(o.id, o)}
  OBVIOUS
<1>13. M \subseteq BookMatch
  BY <1>2, <1>12, EngineParts, MatchIsMatch
<1>14. /\ O \subseteq OpenOrder /\ S = O \cup engine.releasing /\ O \cap engine.releasing = {}
       /\ S \subseteq Owing /\ IsFiniteSet(S)
  <2>1. IsFiniteSet(S)
    BY <1>6, EngineParts, FS_RemoveElement
  <2> QED
    BY <1>6, <2>1, EngineParts DEF Owing
<1>15. PICK n : n = engine.version + 1
  OBVIOUS
<1>16. n \in 1..MaxVersion /\ engine.version <= n /\ n \in Nat
  BY <1>1, <1>15, TradingAssumption DEF EngineFits, Engine
<1>17. engine' = [engine EXCEPT !.open = O, !.version = n, !.matches = M, !.balances = B]
  BY <1>1, <1>3, <1>6, <1>7, <1>10, <1>12, <1>15, <1>a, Zenon DEF OrderCost
<1>18. /\ engine' \in Engine /\ engine'.open = O /\ engine'.releasing = engine.releasing
       /\ engine'.balances = B /\ engine'.version = n
  BY <1>11, <1>13, <1>14, <1>16, <1>17, EngineParts DEF Engine
<1>19. \A x \in S : x.id \in DOMAIN instr' /\ instr'[x.id].status # "queued"
  BY <1>1, <1>14 DEF EngineFits
<1>20. EngineFits'
  BY <1>11, <1>14, <1>18, <1>19, EngineNext
<1> QED
  BY <1>16, <1>18, <1>20

\* The instructions of the other steps grow.
LEMMA BrowserFrame ==
  ASSUME PageShape, Next, ~TeeAction
  PROVE  engine' = engine /\ InstrGrow
<1>1. CASE instr' = instr /\ engine' = engine
  BY <1>1 DEF InstrGrow
<1>2. ASSUME NEW j \in DOMAIN calls, engine' = engine,
             instr' = Append(instr, Instruction(calls[j].req, calls[j].press))
      PROVE  engine' = engine /\ InstrGrow
  BY <1>2, InstructionIs, InstrAppended DEF InstrGrow
<1>3. Aside => instr' = instr /\ engine' = engine
  BY AsideFrame, Zenon
<1>4. Submit => instr' = instr /\ engine' = engine
  BY Zenon DEF Submit
<1>5. CancelAction => instr' = instr /\ engine' = engine
  BY Zenon DEF CancelAction, Cancel
<1>6. CASE PostAction
  BY <1>2, <1>6, Zenon DEF PostAction, Posted
<1>7. CASE EndAction
  BY <1>1, <1>2, <1>7, EndFrame, Zenon DEF EndAction
<1> QED
  BY <1>1, <1>3, <1>4, <1>5, <1>6, <1>7, Kinds DEF Aside

\* The engine fits after every step, and its versions only grow.
LEMMA EngineStays ==
  ASSUME TradingAssumption, PageShape, EngineFits, Next
  PROVE  EngineFits' /\ engine'.version \in Nat /\ engine.version <= engine'.version
<1>1. CASE TeeAction
  BY <1>1, PlaceFits, CancelFits, ReleaseFits, TradeFits, Zenon DEF TeeAction
<1>2. CASE ~TeeAction
  <2>1. engine' = engine /\ InstrGrow
    BY <1>2, BrowserFrame
  <2>2. \A x \in Owing : x.id \in DOMAIN instr' /\ instr'[x.id].status # "queued"
    BY <2>1 DEF EngineFits, InstrGrow
  <2>3. EngineFits'
    <3>1. Owing = engine'.open \cup engine'.releasing
      BY <2>1 DEF Owing
    <3> QED
      BY <2>1, <2>2, <3>1, EngineParts, EngineNext
  <2> QED
    BY <2>1, <2>3, VersionIsNat
<1> QED
  BY <1>1, <1>2

-----------------------------------------------------------------------------
(* The answers under way, and the one kept.                                *)

\* Balances that cover some orders cover fewer.
LEMMA CoveredLess ==
  ASSUME TradingAssumption, NEW S, IsFiniteSet(S), S \subseteq OpenOrder, NEW T \in SUBSET S,
         NEW b \in [Tokens -> TokenBalance], Covered(b, S)
  PROVE  Covered(b, T)
<1>1. ASSUME NEW t \in Tokens
      PROVE  b[t].held >= Total(Dues(OfToken(T, t)))
  <2>1. PICK X, Y : X = OfToken(S, t) /\ Y = OfToken(T, t)
    OBVIOUS
  <2>2. Y \subseteq X /\ X \subseteq S
    BY <2>1 DEF OfToken
  <2>3. IsFiniteSet(X) /\ X \subseteq OpenOrder
    BY <2>2, FS_Subset
  <2>4. Total(Dues(Y)) <= Total(Dues(X)) /\ Total(Dues(Y)) \in Nat /\ Total(Dues(X)) \in Nat
    BY <2>2, <2>3, DuesLess
  <2>5. b[t].held >= Total(Dues(X)) /\ b[t].held \in Nat
    BY <2>1 DEF Covered, TokenBalance
  <2>6. b[t].held >= Total(Dues(Y))
    BY <2>4, <2>5
  <2> QED
    BY <2>1, <2>6
<1> QED
  BY <1>1 DEF Covered

\* The orders owing of one user.
LEMMA OwingIs ==
  ASSUME EngineFits, NEW u
  PROVE  /\ IsFiniteSet(OwingOf(u)) /\ OwingOf(u) \subseteq OpenOrder /\ IsFiniteSet(Owing)
         /\ {o \in engine.open : o.owner = u} \subseteq OwingOf(u)
<1>1. OwingOf(u) \subseteq Owing /\ {o \in engine.open : o.owner = u} \subseteq OwingOf(u)
  BY DEF OwingOf, Owing
<1> QED
  BY <1>1, EngineParts, FS_Subset

\* The balances as they are cover what is owing.
LEMMA NowRead ==
  ASSUME EngineFits, NEW u \in Users
  PROVE  ReadFits(u, engine.version, engine.balances[u])
<1>1. engine.version \in 1..MaxVersion /\ engine.balances[u] \in [Tokens -> TokenBalance]
  BY DEF EngineFits, Engine
<1>2. \A t \in Tokens : engine.balances[u][t].held \in Nat
  BY <1>1 DEF TokenBalance
<1>3. \A t \in Tokens : engine.balances[u][t].held = Total(Dues(OfToken(OwingOf(u), t)))
  BY DEF EngineFits
<1>4. Covered(engine.balances[u], OwingOf(u))
  BY <1>2, <1>3 DEF Covered
<1> QED
  BY <1>1, <1>4 DEF ReadFits

\* What has been read fits with the orders that are then read.
LEMMA ReadAnswers ==
  ASSUME TradingAssumption, EngineFits, NEW u \in Users, NEW v, NEW b, ReadFits(u, v, b)
  PROVE  AnswerFits(u, MyState(u, v, b)) /\ MyState(u, v, b).version = v
<1>1. PICK d : d = MyState(u, v, b)
  OBVIOUS
<1>2. /\ d.version = v /\ d.balances = b
      /\ d.openOrders = {o \in engine.open : o.owner = u}
      /\ d.matches = {m \in engine.matches : u \in {m.buyOwner, m.sellOwner}}
  BY <1>1 DEF MyState
<1>3. v \in 1..MaxVersion /\ b \in [Tokens -> TokenBalance] /\ v <= engine.version
  BY DEF ReadFits
<1>4. d.openOrders \subseteq OpenOrder /\ d.matches \subseteq BookMatch
  BY <1>2, EngineParts
<1>5. d \in GetMyStateResp
  BY <1>1, <1>2, <1>3, <1>4 DEF GetMyStateResp, MyState
<1>6. Covered(d.balances, d.openOrders)
  <2>1. d.openOrders \in SUBSET OwingOf(u) /\ Covered(b, OwingOf(u))
    BY <1>2, OwingIs DEF ReadFits
  <2>2. IsFiniteSet(OwingOf(u)) /\ OwingOf(u) \subseteq OpenOrder
    BY OwingIs
  <2>3. Covered(b, d.openOrders)
    BY <1>3, <2>1, <2>2, CoveredLess
  <2> QED
    BY <1>2, <2>3
<1>7. (\A o \in d.openOrders : o.owner = u) /\ (\A m \in d.matches : u \in {m.buyOwner, m.sellOwner})
  BY <1>2
<1> QED
  BY <1>1, <1>2, <1>3, <1>5, <1>6, <1>7 DEF AnswerFits

\* An answer that fits goes on fitting while versions grow.
LEMMA FitsLater ==
  ASSUME NEW u, NEW d, AnswerFits(u, d), engine.version \in Nat, engine'.version \in Nat,
         engine.version <= engine'.version
  PROVE  AnswerFits(u, d)'
<1>1. d.version \in Nat
  BY DEF AnswerFits, GetMyStateResp
<1>2. d.version <= engine'.version
  BY <1>1 DEF AnswerFits
<1> QED
  BY <1>2 DEF AnswerFits

\* So does what has been read, as orders are only released until the answer is complete.
LEMMA ReadLater ==
  ASSUME TradingAssumption, EngineFits, NEW u, NEW v, NEW b, ReadFits(u, v, b), engine'.version \in Nat,
         engine.version <= engine'.version, Owing' \subseteq Owing
  PROVE  ReadFits(u, v, b)'
<1>1. v \in 1..MaxVersion /\ b \in [Tokens -> TokenBalance] /\ v <= engine.version /\ engine.version \in Nat
  BY VersionIsNat DEF ReadFits
<1>2. v <= engine'.version
  BY <1>1
<1>3. PICK T : T = {o \in Owing' : o.owner = u}
  OBVIOUS
<1>4. T \in SUBSET OwingOf(u)
  BY <1>3 DEF OwingOf
<1>5. Covered(b, OwingOf(u)) /\ IsFiniteSet(OwingOf(u)) /\ OwingOf(u) \subseteq OpenOrder
  BY OwingIs DEF ReadFits
<1>6. Covered(b, T)
  BY <1>1, <1>4, <1>5, CoveredLess
<1>7. (OwingOf(u))' = T
  BY <1>3 DEF OwingOf
<1>8. Covered(b, (OwingOf(u))')
  BY <1>6, <1>7
<1> QED
  BY <1>1, <1>2, <1>8 DEF ReadFits, Covered

\* While balances have been read and orders not, nothing is placed or traded.
LEMMA OwingShrinks ==
  ASSUME TradingAssumption, PageShape, EngineFits, Next, Reading
  PROVE  Owing' \subseteq Owing
<1>1. CASE TeeAction
  <2>1. PICK k \in DOMAIN instr : ExecuteCancel(k) \/ ReleaseCancelled(k)
    BY <1>1, Zenon DEF TeeAction, ExecutePlace, TradeResting
  <2> QED
    BY <2>1, CancelFits, ReleaseFits
<1>2. CASE ~TeeAction
  BY <1>2, BrowserFrame DEF Owing
<1> QED
  BY <1>1, <1>2

\* One user's part of the invariant.
CacheFits(u) == cache[u] = None \/ AnswerFits(u, cache[u])
UserFits(u) == CacheFits(u) /\ FetchFits(u) /\ floor[u] <= engine.version

\* An answer that fits may be kept.
LEMMA MayBeKept ==
  ASSUME NEW u, NEW d, d = None \/ AnswerFits(u, d)', cache'[u] = d
  PROVE  CacheFits(u)'
BY DEF CacheFits, AnswerFits

\* A fetch that reads or has its answer.
LEMMA FetchIs ==
  ASSUME NEW u, FetchFits(u)
  PROVE  /\ fetch[u].pc = "reading" =>
               \E v, b : /\ fetch[u] = [pc |-> "reading", version |-> v, balances |-> b]
                        /\ ReadFits(u, v, b) /\ NotOlder(u, v)
         /\ fetch[u].pc = "answered" =>
               \E d : fetch[u] = [pc |-> "answered", data |-> d] /\ AnswerFits(u, d) /\ NotOlder(u, d.version)
<1>1. CASE fetch[u] \in {FetchIdle, FetchWaiting}
  BY <1>1 DEF FetchIdle, FetchWaiting
<1>2. CASE \E v, b : /\ fetch[u] = [pc |-> "reading", version |-> v, balances |-> b]
                     /\ ReadFits(u, v, b) /\ NotOlder(u, v)
  <2>1. fetch[u].pc = "reading"
    BY <1>2
  <2>2. fetch[u].pc # "answered"
    BY <2>1
  <2> QED
    BY <1>2, <2>2, Zenon
<1>3. CASE \E d : fetch[u] = [pc |-> "answered", data |-> d] /\ AnswerFits(u, d) /\ NotOlder(u, d.version)
  <2>1. fetch[u].pc = "answered"
    BY <1>3
  <2>2. fetch[u].pc # "reading"
    BY <2>1
  <2> QED
    BY <1>3, <2>2, Zenon
<1> QED
  BY <1>1, <1>2, <1>3, Zenon DEF FetchFits

\* It stays while what is kept for the user does, and also when the fetch is dropped or
\* begun; a user without an answer may have a success reported.
LEMMA UserKept ==
  ASSUME TradingAssumption, EngineFits, NEW u \in Users, UserFits(u), cache'[u] = cache[u],
         floor'[u] = floor[u] \/ (cache[u] = None /\ floor'[u] <= engine'.version),
         floor[u] \in Nat, Reading => Owing' \subseteq Owing,
         fetch'[u] = fetch[u] \/ fetch'[u] \in {FetchIdle, FetchWaiting},
         engine.version \in Nat, engine'.version \in Nat, engine.version <= engine'.version
  PROVE  UserFits(u)'
<1>1. CacheFits(u)'
  <2>1. PICK d : d = cache[u]
    OBVIOUS
  <2>2. d = None \/ AnswerFits(u, d)'
    BY <2>1, FitsLater DEF UserFits, CacheFits
  <2> QED
    BY <2>1, <2>2, MayBeKept
<1>0. ASSUME NEW v, NotOlder(u, v)
      PROVE  NotOlder(u, v)'
  BY <1>0, Zenon DEF NotOlder
<1>2. FetchFits(u)'
  <2>1. CASE fetch'[u] \in {FetchIdle, FetchWaiting}
    BY <2>1 DEF FetchFits, FetchIdle, FetchWaiting
  <2>2. CASE fetch'[u] = fetch[u] /\ \E d : /\ fetch[u] = [pc |-> "answered", data |-> d]
                                           /\ AnswerFits(u, d) /\ NotOlder(u, d.version)
    <3>1. PICK d : fetch[u] = [pc |-> "answered", data |-> d] /\ AnswerFits(u, d) /\ NotOlder(u, d.version)
      BY <2>2, Zenon
    <3>2. AnswerFits(u, d)'
      BY <3>1, FitsLater
    <3>3. fetch'[u] = [pc |-> "answered", data |-> d] /\ NotOlder(u, d.version)'
      BY <1>0, <2>2, <3>1, Zenon
    <3> QED
      BY <3>2, <3>3, Zenon DEF FetchFits, NotOlder
  <2>3. CASE fetch'[u] = fetch[u] /\ \E v, b : /\ fetch[u] = [pc |-> "reading", version |-> v, balances |-> b]
                                              /\ ReadFits(u, v, b) /\ NotOlder(u, v)
    <3>1. PICK v, b : /\ fetch[u] = [pc |-> "reading", version |-> v, balances |-> b]
                      /\ ReadFits(u, v, b) /\ NotOlder(u, v)
      BY <2>3, Zenon
    <3>2. Reading
      <4>1. fetch[u].pc = "reading"
        BY <3>1
      <4> QED
        BY <4>1, Zenon DEF Reading
    <3>3. ReadFits(u, v, b)'
      BY <3>1, <3>2, ReadLater
    <3>4. fetch'[u] = [pc |-> "reading", version |-> v, balances |-> b] /\ NotOlder(u, v)'
      BY <1>0, <2>3, <3>1, Zenon
    <3> QED
      BY <3>3, <3>4, Zenon DEF FetchFits, NotOlder, ReadFits
  <2> QED
    BY <2>1, <2>2, <2>3, Zenon DEF UserFits, FetchFits
<1>3. floor'[u] <= engine'.version
  BY DEF UserFits
<1> QED
  BY <1>1, <1>2, <1>3, Zenon DEF UserFits

\* The answers fit after every step of the browser, the TEE's ones apart.
LEMMA AnswersStay ==
  ASSUME TradingAssumption, PageShape, EngineFits, AnswersFit, Next,
         engine'.version \in Nat, engine.version <= engine'.version, TeeAction \/ engine' = engine
  PROVE  AnswersFit'
<1>1. engine.version \in Nat /\ \A u \in Users : UserFits(u) /\ floor[u] \in Nat
  BY VersionIsNat DEF AnswersFit, UserFits, CacheFits
<1>0. Reading => Owing' \subseteq Owing
  BY OwingShrinks
<1>a. ASSUME NEW u \in Users, cache'[u] = cache[u],
             floor'[u] = floor[u] \/ (cache[u] = None /\ floor'[u] <= engine'.version),
             fetch'[u] = fetch[u] \/ fetch'[u] \in {FetchIdle, FetchWaiting}
      PROVE  UserFits(u)'
  BY <1>0, <1>1, <1>a, UserKept
<1>2. ASSUME UNCHANGED query
      PROVE  AnswersFit'
  <2>1. \A u \in Users : UserFits(u)'
    BY <1>a, <1>2 DEF query
  <2> QED
    BY <1>2, <2>1 DEF AnswersFit, query, UserFits, CacheFits
<1>3. ASSUME NEW v \in Users, fetch' = [fetch EXCEPT ![v] = FetchWaiting] \/ fetch' = [fetch EXCEPT ![v] = FetchIdle],
             UNCHANGED <<cache, floor>>
      PROVE  AnswersFit'
  <2>1. /\ fetch' = [u \in Users |-> fetch'[u]]
        /\ \A u \in Users : fetch'[u] = fetch[u] \/ fetch'[u] \in {FetchIdle, FetchWaiting}
    BY <1>3 DEF AnswersFit
  <2>2. \A u \in Users : UserFits(u)'
    BY <1>a, <1>3, <2>1
  <2> QED
    BY <1>3, <2>1, <2>2 DEF AnswersFit, UserFits, CacheFits
<1>4. CASE SwitchAction
  <2>1. PICK u \in Users \cup {NoUser} : SwitchWallet(u)
    BY <1>4 DEF SwitchAction
  <2>2. UNCHANGED query \/ /\ u \in Users /\ fetch' = [fetch EXCEPT ![u] = FetchWaiting]
                           /\ UNCHANGED <<cache, floor>>
    BY <2>1 DEF SwitchWallet, query
  <2> QED
    BY <1>2, <1>3, <2>2
<1>5. CASE QueryAction
  <2>1. CASE Refetch
    <3>1. /\ address \in Users /\ fetch' = [fetch EXCEPT ![address] = FetchWaiting]
          /\ UNCHANGED <<cache, floor>>
      BY <2>1 DEF Refetch, PageShape
    <3> QED
      BY <1>3, <3>1
  <2>2. ASSUME NEW v \in Users, ReadBalances(v)
        PROVE  AnswersFit'
    <3>1. PICK n, b : n = engine.version /\ b = engine.balances[v]
      OBVIOUS
    <3>2. /\ fetch' = [fetch EXCEPT ![v] = [pc |-> "reading", version |-> n, balances |-> b]]
          /\ UNCHANGED <<engine, cache, floor>>
      BY <2>2, <3>1, Zenon DEF ReadBalances
    <3>3. ReadFits(v, n, b) /\ NotOlder(v, n)
      BY <1>1, <3>1, NowRead DEF NotOlder, UserFits
    <3>4. /\ fetch' = [u \in Users |-> fetch'[u]]
          /\ fetch'[v] = [pc |-> "reading", version |-> n, balances |-> b]
          /\ \A u \in Users \ {v} : fetch'[u] = fetch[u]
      BY <3>2 DEF AnswersFit
    <3>5. \A u \in Users \ {v} : UserFits(u)'
      BY <1>a, <3>2, <3>4
    <3>6. UserFits(v)'
      <4>1. ReadFits(v, n, b)' /\ NotOlder(v, n)'
        BY <3>2, <3>3, Zenon DEF ReadFits, OwingOf, Owing, NotOlder
      <4>2. FetchFits(v)'
        BY <3>4, <4>1, Zenon DEF FetchFits
      <4>3. floor'[v] <= engine'.version /\ CacheFits(v)'
        BY <1>1, <3>2, Zenon DEF UserFits, CacheFits, AnswerFits
      <4> QED
        BY <4>2, <4>3, Zenon DEF UserFits
    <3> QED
      BY <3>2, <3>4, <3>5, <3>6 DEF AnswersFit, UserFits, CacheFits
  <2>6. ASSUME NEW v \in Users, ReadOrders(v)
        PROVE  AnswersFit'
    <3>1. fetch[v].pc = "reading"
      BY <2>6, Zenon DEF ReadOrders
    <3>2. PICK n, b : /\ fetch[v] = [pc |-> "reading", version |-> n, balances |-> b]
                      /\ ReadFits(v, n, b) /\ NotOlder(v, n)
      BY <1>1, <3>1, FetchIs, Zenon DEF UserFits
    <3>3. PICK d : d = MyState(v, n, b)
      OBVIOUS
    <3>4. /\ fetch' = [fetch EXCEPT ![v] = [pc |-> "answered", data |-> MyState(v, @.version, @.balances)]]
          /\ UNCHANGED <<engine, cache, floor>>
      BY <2>6, Zenon DEF ReadOrders
    <3>5. fetch[v].version = n /\ fetch[v].balances = b
      BY <3>2
    <3>6. /\ fetch' = [u \in Users |-> fetch'[u]]
          /\ fetch'[v] = [pc |-> "answered", data |-> d]
          /\ \A u \in Users \ {v} : fetch'[u] = fetch[u]
      BY <3>3, <3>4, <3>5 DEF AnswersFit
    <3>7. AnswerFits(v, d) /\ NotOlder(v, d.version)
      BY <3>2, <3>3, ReadAnswers
    <3>8. \A u \in Users \ {v} : UserFits(u)'
      BY <1>a, <3>4, <3>6
    <3>9. UserFits(v)'
      <4>1. AnswerFits(v, d)' /\ NotOlder(v, d.version)'
        BY <3>4, <3>7, Zenon DEF AnswerFits, NotOlder
      <4>2. FetchFits(v)'
        BY <3>6, <4>1, Zenon DEF FetchFits
      <4>3. floor'[v] <= engine'.version /\ CacheFits(v)'
        BY <1>1, <3>4, Zenon DEF UserFits, CacheFits, AnswerFits
      <4> QED
        BY <4>2, <4>3, Zenon DEF UserFits
    <3> QED
      BY <3>4, <3>6, <3>8, <3>9 DEF AnswersFit, UserFits, CacheFits
  <2>3. ASSUME NEW v \in Users, ApplyAnswer(v)
        PROVE  AnswersFit'
    <3>1. /\ cache' = [cache EXCEPT ![v] = fetch[v].data] /\ fetch[v].pc = "answered"
          /\ fetch' = [fetch EXCEPT ![v] = FetchIdle] /\ UNCHANGED <<engine, floor>>
      BY <2>3, Zenon DEF ApplyAnswer
    <3>3. PICK d : fetch[v] = [pc |-> "answered", data |-> d] /\ AnswerFits(v, d)
      BY <1>1, <3>1, FetchIs, Zenon DEF UserFits
    <3>4. cache' = [cache EXCEPT ![v] = d]
      BY <3>1, <3>3
    <3>5. /\ cache' = [u \in Users |-> cache'[u]] /\ fetch' = [u \in Users |-> fetch'[u]]
          /\ cache'[v] = d /\ fetch'[v] = FetchIdle
          /\ \A u \in Users \ {v} : cache'[u] = cache[u] /\ fetch'[u] = fetch[u]
      BY <3>1, <3>4 DEF AnswersFit
    <3>6. \A u \in Users \ {v} : UserFits(u)'
      BY <1>a, <3>1, <3>5
    <3>7. UserFits(v)'
      <4>1. AnswerFits(v, d)'
        BY <3>1, <3>3 DEF AnswerFits
      <4>2. FetchFits(v)'
        BY <3>5 DEF FetchFits, FetchIdle, FetchWaiting
      <4>3. CacheFits(v)' /\ floor'[v] <= engine'.version
        BY <1>1, <3>1, <3>5, <4>1, MayBeKept DEF UserFits
      <4> QED
        BY <4>2, <4>3, Zenon DEF UserFits
    <3> QED
      BY <3>1, <3>5, <3>6, <3>7 DEF AnswersFit, UserFits, CacheFits
  <2>4. ASSUME NEW v \in Users, QueryFails(v)
        PROVE  AnswersFit'
    BY <1>3, <2>4 DEF QueryFails
  <2> QED
    BY <1>5, <2>1, <2>2, <2>3, <2>4, <2>6 DEF QueryAction
<1>6. CASE EndAction
  <2>1. PICK j \in DOMAIN calls : Refused(j) \/ Succeeds(j) \/ Fails(j)
    BY <1>6 DEF EndAction
  <2>2. cache' = cache /\ engine' = engine
    BY <2>1, EndFrame, Zenon
  <2>3. CASE Succeeds(j) /\ address # NoUser
    <3>0. PICK a \in Users : a = address
      BY <2>3 DEF PageShape
    <3>1. /\ floor' = [floor EXCEPT ![a] = engine.version]
          /\ \/ fetch' = [fetch EXCEPT ![a] = FetchWaiting]
             \/ fetch' = fetch /\ cache[a] = None
      BY <2>3, <3>0 DEF Succeeds, ReportSuccess, Invalidate
    <3>2. /\ fetch' = [u \in Users |-> fetch'[u]] /\ floor' \in [Users -> Nat]
          /\ fetch'[a] = FetchWaiting \/ (fetch'[a] = fetch[a] /\ cache[a] = None)
          /\ floor'[a] = engine.version
          /\ \A u \in Users \ {a} : fetch'[u] = fetch[u] /\ floor'[u] = floor[u]
      BY <1>1, <3>1 DEF AnswersFit
    <3>3. \A u \in Users \ {a} : UserFits(u)'
      BY <1>a, <2>2, <3>2
    <3>4. UserFits(a)'
      <4>1. floor'[a] <= engine'.version
        BY <1>1, <2>2, <3>2
      <4>2. CASE fetch'[a] = FetchWaiting
        <5>1. FetchFits(a)'
          BY <4>2 DEF FetchFits
        <5>2. CacheFits(a)'
          BY <1>1, <2>2, Zenon DEF UserFits, CacheFits, AnswerFits
        <5> QED
          BY <4>1, <5>1, <5>2, Zenon DEF UserFits
      <4>3. CASE fetch'[a] = fetch[a] /\ cache[a] = None
        BY <1>a, <2>2, <4>1, <4>3
      <4> QED
        BY <3>2, <4>2, <4>3
    <3> QED
      BY <2>2, <3>2, <3>3, <3>4 DEF AnswersFit, UserFits, CacheFits
  <2>4. CASE Succeeds(j) /\ address = NoUser
    <3>1. UNCHANGED <<fetch, floor>>
      BY <2>4 DEF Succeeds, ReportSuccess, Invalidate
    <3> QED
      BY <1>2, <2>2, <3>1 DEF query
  <2>5. CASE Refused(j) \/ Fails(j)
    <3>1. UNCHANGED <<fetch, floor>>
      BY <2>5, Zenon DEF Refused, Fails
    <3> QED
      BY <1>2, <2>2, <3>1 DEF query
  <2> QED
    BY <2>1, <2>3, <2>4, <2>5
<1>7. EditForm \/ RemountEntry \/ RemountOrders \/ DismissAction \/ TeeAction => UNCHANGED query
  <2>1. DismissAction => UNCHANGED query
    BY Zenon DEF DismissAction, TimerDismiss, ButtonDismiss, DismissCard
  <2>2. EditForm => UNCHANGED query
    BY Zenon DEF EditForm, LoadDecimals, Edit, FillPct
  <2>3. TeeAction => UNCHANGED query
    BY TeeFrame, Zenon
  <2>4. RemountEntry \/ RemountOrders => UNCHANGED query
    BY Zenon DEF RemountEntry, RemountOrders
  <2> QED
    BY <2>1, <2>2, <2>3, <2>4
<1>8. Submit => UNCHANGED query
  BY Zenon DEF Submit
<1>9. CancelAction => UNCHANGED query
  BY Zenon DEF CancelAction, Cancel
<1>10. PostAction => UNCHANGED query
  BY Zenon DEF PostAction, Posted
<1> QED
  BY <1>2, <1>4, <1>5, <1>6, <1>7, <1>8, <1>9, <1>10, Kinds

-----------------------------------------------------------------------------
(* The cards.                                                              *)

Running(j) == Open(j) /\ (Posting(j) \/ Polling(j))

\* What the handle's methods make of a card under way.
LEMMA NewJobIs ==
  ASSUME NEW id \in Nat
  PROVE  LET x == NewJob(id, 2) IN x \in Job(2) /\ x.id = id /\ Open(x) /\ Posting(x)
<1>1. PICK x : x = NewJob(id, 2)
  OBVIOUS
<1>2. x = [id |-> id, steps |-> [i \in 1..2 |-> IF i = 1 THEN "active" ELSE "pending"],
           cursor |-> 1, error |-> FALSE, completed |-> FALSE]
  BY <1>1 DEF NewJob
<1>3. [i \in 1..2 |-> IF i = 1 THEN "active" ELSE "pending"] \in [1..2 -> StepStatus]
  BY DEF StepStatus
<1>4. x \in Job(2) /\ x.id = id
  BY <1>2, <1>3 DEF Job
<1>5. Open(x)
  BY <1>2, Zenon DEF Open
<1>6. Posting(x)
  BY <1>2 DEF Posting
<1> QED
  BY <1>1, <1>4, <1>5, <1>6

\* An advance of a card whose order is being posted: its result is polled.
LEMMA AdvanceIs ==
  ASSUME NEW j \in Job(2), Open(j), Posting(j)
  PROVE  Advance(j) \in Job(2) /\ Advance(j).id = j.id /\ Open(Advance(j)) /\ Polling(Advance(j))
<1>1. PICK s : s = [i \in DOMAIN j.steps |->
                      CASE i < j.cursor + 1 -> IF j.steps[i] = "failed" THEN "failed" ELSE "done"
                        [] i = j.cursor + 1 -> "active"
                        [] i > j.cursor + 1 -> j.steps[i]]
  OBVIOUS
<1>2. j.cursor = 1 /\ DOMAIN j.steps = 1..2 /\ j.steps[1] = "active"
  BY DEF Posting, Job
<1>3. s = [i \in 1..2 |-> IF i = 1 THEN "done" ELSE "active"]
  BY <1>1, <1>2
<1>4. s \in [1..2 -> StepStatus] /\ s[1] = "done" /\ s[2] = "active"
  BY <1>3 DEF StepStatus
<1>5. PICK x : x = [j EXCEPT !.cursor = 2, !.steps = s]
  OBVIOUS
<1>6. j.cursor + 1 = 2
  BY <1>2
<1>7. Advance(j) = x
  BY <1>1, <1>5, <1>6 DEF Advance, Job
<1>8. x \in Job(2) /\ x.id = j.id /\ x.cursor = 2 /\ x.steps = s
  BY <1>4, <1>5 DEF Job
<1>9. Open(x)
  BY <1>5, Zenon DEF Open, Job
<1>10. Polling(x)
  BY <1>4, <1>8 DEF Polling
<1> QED
  BY <1>7, <1>8, <1>9, <1>10

\* A finish closes the card.
LEMMA FinishIs ==
  ASSUME NEW j \in Job(2), Running(j)
  PROVE  Finish(j) \in Job(2) /\ Finish(j).id = j.id /\ Closed(Finish(j))
<1>1. PICK s : s = [i \in DOMAIN j.steps |-> IF j.steps[i] = "failed" THEN "failed" ELSE "done"]
  OBVIOUS
<1>2. s \in [1..2 -> StepStatus] /\ \A i \in 1..2 : s[i] \notin {"pending", "active"}
  BY <1>1 DEF StepStatus, Job
<1>3. PICK x : x = [j EXCEPT !.completed = TRUE, !.steps = s]
  OBVIOUS
<1>4. Finish(j) = x
  BY <1>1, <1>3 DEF Finish, Job
<1>5. x \in Job(2) /\ x.id = j.id /\ x.steps = s
  BY <1>2, <1>3 DEF Job
<1>6. x.completed
  BY <1>3 DEF Job
<1> QED
  BY <1>2, <1>4, <1>5, <1>6 DEF Closed

\* A failure closes the card, and it says so.
LEMMA FailIs ==
  ASSUME NEW j \in Job(2), Running(j)
  PROVE  Fail(j) \in Job(2) /\ Fail(j).id = j.id /\ Closed(Fail(j)) /\ CardState(Fail(j)) = "failed"
<1>1. PICK s : s = [i \in DOMAIN j.steps |-> CASE i < j.cursor -> j.steps[i]
                                               [] i = j.cursor -> "failed"
                                               [] i > j.cursor -> "cancelled"]
  OBVIOUS
<1>2. /\ j.steps \in [1..2 -> StepStatus] /\ j.cursor \in {1, 2}
      /\ j.cursor = 2 => j.steps[1] = "done"
  BY DEF Running, Posting, Polling, Job
<1>3. s \in [1..2 -> StepStatus] /\ \A i \in 1..2 : s[i] \notin {"pending", "active"}
  <2>1. CASE j.cursor = 1
    <3>1. s = [i \in 1..2 |-> IF i = 1 THEN "failed" ELSE "cancelled"]
      BY <1>1, <1>2, <2>1
    <3> QED
      BY <3>1 DEF StepStatus
  <2>2. CASE j.cursor = 2
    <3>1. s = [i \in 1..2 |-> IF i = 1 THEN "done" ELSE "failed"]
      BY <1>1, <1>2, <2>2
    <3> QED
      BY <3>1 DEF StepStatus
  <2> QED
    BY <1>2, <2>1, <2>2
<1>4. PICK x : x = [j EXCEPT !.completed = TRUE, !.error = TRUE, !.steps = s]
  OBVIOUS
<1>5. Fail(j) = x
  BY <1>1, <1>4 DEF Fail, Job
<1>6. x \in Job(2) /\ x.id = j.id /\ x.steps = s
  BY <1>3, <1>4 DEF Job
<1>7. x.completed
  BY <1>4 DEF Job
<1>8. x.error
  BY <1>4 DEF Job
<1>9. CardState(x) = "failed"
  BY <1>8, Zenon DEF CardState
<1> QED
  BY <1>3, <1>5, <1>6, <1>7, <1>9 DEF Closed

\* Only a card whose job is over says something else than "running".
LEMMA CardSays ==
  ASSUME NEW j \in Job(2)
  PROVE  /\ Open(j) => CardState(j) = "running"
         /\ Closed(j) => CardState(j) # "running"
<1>1. Open(j) => CardState(j) = "running"
  BY Zenon DEF Open, CardState
<1>2. Closed(j) => CardState(j) # "running"
  BY DEF Closed, CardState
<1> QED
  BY <1>1, <1>2

\* A card that follows its call is in order.
LEMMA FollowsWell ==
  ASSUME NEW j \in Job(2), Follows(j)
  PROVE  JobWellFormed(j) /\ (CardState(j) = "running" => j.id \in DOMAIN calls)
<1>1. CASE j.id \in DOMAIN calls
  <2>1. Open(j) /\ (Posting(j) \/ Polling(j))
    BY <1>1 DEF Follows
  <2>2. RunningInOrder(j)
    BY <2>1 DEF RunningInOrder, Posting, Polling, Job
  <2>3. CompletedIsClosed(j)
    BY <2>1, Zenon DEF CompletedIsClosed, Open
  <2> QED
    BY <1>1, <2>2, <2>3 DEF JobWellFormed
<1>2. CASE j.id \notin DOMAIN calls
  <2>1. Closed(j)
    BY <1>2 DEF Follows
  <2>2. RunningInOrder(j)
    BY <2>1, Zenon DEF RunningInOrder, Closed
  <2>3. CompletedIsClosed(j)
    BY <2>1 DEF CompletedIsClosed, Closed, Job
  <2> QED
    BY <2>1, <2>2, <2>3, CardSays DEF JobWellFormed
<1> QED
  BY <1>1, <1>2

\* A card taken away: the others are as they were, in their order.
LEMMA RemovedCards ==
  ASSUME NEW S, NEW s \in Seq(S), NEW n \in DOMAIN s
  PROVE  /\ RemoveAt(s, n) \in Seq(S) /\ DOMAIN RemoveAt(s, n) = 1..(Len(s) - 1)
         /\ \A k \in 1..(Len(s) - 1) :
              RemoveAt(s, n)[k] = IF k < n THEN s[k] ELSE s[k + 1]
<1>1. PICK a, b : a = SubSeq(s, 1, n - 1) /\ b = SubSeq(s, n + 1, Len(s))
  OBVIOUS
<1>2. n \in 1..Len(s) /\ Len(s) \in Nat /\ n \in Nat
  OBVIOUS
<1>3. a \in Seq(S) /\ Len(a) = n - 1 /\ \A k \in 1..(n - 1) : a[k] = s[k]
  BY <1>1, <1>2
<1>4. b \in Seq(S) /\ Len(b) = Len(s) - n /\ \A k \in 1..(Len(s) - n) : b[k] = s[n + k]
  BY <1>1, <1>2
<1>5. RemoveAt(s, n) = a \o b
  BY <1>1 DEF RemoveAt
<1>6. /\ a \o b \in Seq(S) /\ Len(a \o b) = Len(s) - 1
      /\ \A k \in 1..(Len(s) - 1) : (a \o b)[k] = IF k <= n - 1 THEN a[k] ELSE b[k - (n - 1)]
  BY <1>2, <1>3, <1>4
<1>7. ASSUME NEW k \in 1..(Len(s) - 1)
      PROVE  (a \o b)[k] = IF k < n THEN s[k] ELSE s[k + 1]
  <2>1. CASE k < n
    BY <1>2, <1>3, <1>6, <2>1
  <2>2. CASE ~(k < n)
    <3>1. k - (n - 1) \in 1..(Len(s) - n) /\ n + (k - (n - 1)) = k + 1
      BY <1>2, <2>2
    <3>2. b[k - (n - 1)] = s[k + 1]
      BY <1>4, <3>1
    <3>3. ~(k <= n - 1)
      BY <1>2, <2>2
    <3>4. (a \o b)[k] = b[k - (n - 1)]
      BY <1>6, <3>3
    <3> QED
      BY <2>2, <3>2, <3>4
  <2> QED
    BY <2>1, <2>2
<1> QED
  BY <1>5, <1>6, <1>7

\* What a dismissal leaves of the tray.
LEMMA DismissFrame ==
  ASSUME Cards, DismissAction
  PROVE  /\ jobs' \in Seq(Job(2))
         /\ \A k \in DOMAIN jobs' : \E l \in DOMAIN jobs : jobs'[k] = jobs[l]
         /\ \A k, l \in DOMAIN jobs' : jobs'[k].id = jobs'[l].id => k = l
         /\ UNCHANGED <<engine, instr, calls, page, query>>
<1>1. PICK id : jobs' = Dismiss(jobs, id)
  BY Zenon DEF DismissAction, TimerDismiss, ButtonDismiss, DismissCard
<1>2. UNCHANGED <<engine, instr, calls, page, query>>
  BY Zenon DEF DismissAction, TimerDismiss, ButtonDismiss, DismissCard
<1>3. jobs \in Seq(Job(2)) /\ \A k, l \in DOMAIN jobs : jobs[k].id = jobs[l].id => k = l
  BY DEF Cards
<1>4. CASE jobs' = jobs
  BY <1>2, <1>3, <1>4
<1>5. CASE jobs' # jobs
  <2>1. PICK n \in DOMAIN jobs : jobs' = RemoveAt(jobs, n)
    BY <1>1, <1>5 DEF Dismiss
  <2>2. /\ jobs' \in Seq(Job(2)) /\ DOMAIN jobs' = 1..(Len(jobs) - 1)
        /\ \A k \in 1..(Len(jobs) - 1) : jobs'[k] = IF k < n THEN jobs[k] ELSE jobs[k + 1]
    BY <1>3, <2>1, RemovedCards
  <2>3. DOMAIN jobs = 1..Len(jobs) /\ Len(jobs) \in Nat /\ n \in 1..Len(jobs)
    BY <1>3
  <2>4. \A k \in DOMAIN jobs' : \E l \in DOMAIN jobs : jobs'[k] = jobs[l] /\ l = IF k < n THEN k ELSE k + 1
    BY <2>2, <2>3
  <2>5. ASSUME NEW k \in DOMAIN jobs', NEW l \in DOMAIN jobs', jobs'[k].id = jobs'[l].id
        PROVE  k = l
    <3>1. PICK x \in DOMAIN jobs : jobs'[k] = jobs[x] /\ x = IF k < n THEN k ELSE k + 1
      BY <2>4
    <3>2. PICK y \in DOMAIN jobs : jobs'[l] = jobs[y] /\ y = IF l < n THEN l ELSE l + 1
      BY <2>4
    <3>3. x = y
      BY <1>3, <2>5, <3>1, <3>2
    <3> QED
      BY <2>2, <2>3, <3>1, <3>2, <3>3
  <2> QED
    BY <1>2, <2>2, <2>4, <2>5
<1> QED
  BY <1>4, <1>5

\* A card follows its call as long as the call goes on as it was.
LEMMA FollowsOn ==
  ASSUME NEW j, Follows(j), j.id \in DOMAIN calls' <=> j.id \in DOMAIN calls,
         j.id \in DOMAIN calls => calls'[j.id] = calls[j.id]
  PROVE  Follows(j)'
<1>1. Open(j)' = Open(j) /\ Closed(j)' = Closed(j) /\ Posting(j)' = Posting(j) /\ Polling(j)' = Polling(j)
  OBVIOUS
<1> QED
  BY Zenon DEF Follows

\* The cards' numbers are of jobs begun.
LEMMA CardIds ==
  ASSUME PageShape, Cards
  PROVE  /\ jobs \in Seq(Job(2)) /\ NextJob \in Nat
         /\ \A k \in DOMAIN jobs : /\ jobs[k] \in Job(2) /\ jobs[k].id \in Nat /\ jobs[k].id < NextJob
                                   /\ jobs[k].id # NextJob
<1>1. NextJob \in Nat
  BY SeqTypes
<1>2. jobs \in Seq(Job(2)) /\ \A k \in DOMAIN jobs : jobs[k].id < NextJob
  BY Zenon DEF Cards
<1>3. \A k \in DOMAIN jobs : jobs[k] \in Job(2)
  BY <1>2
<1>4. \A y \in Job(2) : y.id \in Nat
  BY DEF Job
<1>5. \A k \in DOMAIN jobs : jobs[k].id \in Nat
  BY <1>3, <1>4, Zenon
<1>6. \A k \in DOMAIN jobs : jobs[k].id # NextJob
  BY <1>1, <1>2, <1>5
<1> QED
  BY <1>1, <1>2, <1>3, <1>5, <1>6

\* What a new job does to the tray.
LEMMA CardAdded ==
  ASSUME PageShape, Cards, NEW x \in Job(2), x.id = NextJob, jobs' = Append(jobs, x)
  PROVE  /\ jobs' \in Seq(Job(2)) /\ DOMAIN jobs' = DOMAIN jobs \cup {Len(jobs) + 1}
         /\ jobs'[Len(jobs) + 1] = x /\ \A k \in DOMAIN jobs : jobs'[k] = jobs[k] /\ jobs[k].id # NextJob
         /\ \A k, l \in DOMAIN jobs' : jobs'[k].id = jobs'[l].id => k = l
<1>1. jobs \in Seq(Job(2)) /\ NextJob \in Nat /\ \A k \in DOMAIN jobs : jobs[k].id < NextJob /\ jobs[k].id \in Nat
  BY CardIds
<1>2. \A k \in DOMAIN jobs : jobs[k].id # NextJob
  BY <1>1
<1>3. /\ jobs' \in Seq(Job(2)) /\ DOMAIN jobs' = DOMAIN jobs \cup {Len(jobs) + 1}
      /\ jobs'[Len(jobs) + 1] = x /\ \A k \in DOMAIN jobs : jobs'[k] = jobs[k]
  BY <1>1
<1>4. ASSUME NEW k \in DOMAIN jobs', NEW l \in DOMAIN jobs', jobs'[k].id = jobs'[l].id
      PROVE  k = l
  <2>1. CASE k \in DOMAIN jobs /\ l \in DOMAIN jobs
    BY <1>3, <1>4, <2>1, Zenon DEF Cards
  <2>2. CASE k \in DOMAIN jobs /\ l = Len(jobs) + 1
    BY <1>2, <1>3, <1>4, <2>2
  <2>3. CASE l \in DOMAIN jobs /\ k = Len(jobs) + 1
    BY <1>2, <1>3, <1>4, <2>3
  <2> QED
    BY <1>3, <2>1, <2>2, <2>3
<1> QED
  BY <1>2, <1>3, <1>4

\* What a method of the handle of job "id" does to the tray: the card of that
\* number is what the method makes of it, the others stay.
Changed(id, m) == [k \in DOMAIN jobs |-> IF jobs[k].id = id THEN m[k] ELSE jobs[k]]

\* An update of one card is that card's alone.
LEMMA CardUpdated ==
  ASSUME Cards, NEW id, NEW m, \A k \in DOMAIN jobs : jobs[k].id = id => m[k] \in Job(2) /\ m[k].id = id,
         jobs' = Changed(id, m)
  PROVE  /\ jobs' \in Seq(Job(2)) /\ DOMAIN jobs' = DOMAIN jobs
         /\ \A k \in DOMAIN jobs : /\ jobs[k].id = id => jobs'[k] = m[k]
                                   /\ jobs[k].id # id => jobs'[k] = jobs[k]
                                   /\ jobs'[k].id = jobs[k].id
         /\ \A k, l \in DOMAIN jobs' : jobs'[k].id = jobs'[l].id => k = l
<1>1. jobs \in Seq(Job(2))
  BY DEF Cards
<1>2. DOMAIN jobs = 1..Len(jobs) /\ Len(jobs) \in Nat /\ \A k \in DOMAIN jobs : jobs[k] \in Job(2)
  BY <1>1
<1>3. /\ DOMAIN jobs' = DOMAIN jobs
      /\ \A k \in DOMAIN jobs : /\ jobs[k].id = id => jobs'[k] = m[k]
                                /\ jobs[k].id # id => jobs'[k] = jobs[k]
  BY Zenon DEF Changed
<1>4. \A k \in DOMAIN jobs : jobs'[k] \in Job(2) /\ jobs'[k].id = jobs[k].id
  BY <1>2, <1>3
<1>5. jobs' = [k \in 1..Len(jobs) |-> jobs'[k]]
  BY <1>2 DEF Changed
<1>6. jobs' \in Seq(Job(2))
  BY <1>2, <1>4, <1>5
<1>7. \A k, l \in DOMAIN jobs' : jobs'[k].id = jobs'[l].id => k = l
  BY <1>3, <1>4 DEF Cards
<1> QED
  BY <1>3, <1>4, <1>6, <1>7

\* A job begins: under a new number, with its call, or over at once.
BeginsWith(x) ==
  /\ x \in Job(2) /\ x.id = NextJob /\ jobs' = Append(jobs, x) /\ CardState(x) # "done"
  /\ IF NextJob \in DOMAIN calls' THEN Open(x) /\ Posting(x) ELSE Closed(x)

\* A submit and a cancel begin one card, and one call at most.
LEMMA BeginFrame ==
  ASSUME TradingAssumption, PageShape, AnswersFit, Cards, Submit \/ CancelAction
  PROVE  /\ \E x : BeginsWith(x)
         /\ NextJob' = NextJob + 1 /\ instr' = instr /\ NextJob \notin DOMAIN calls
         /\ DOMAIN calls \subseteq DOMAIN calls' /\ DOMAIN calls' \subseteq DOMAIN calls \cup {NextJob}
         /\ \A i \in DOMAIN calls : calls'[i] = calls[i]
         /\ NextJob \in DOMAIN calls' => calls'[NextJob].pc = "post"
<1>1. PICK x : x = NewJob(NextJob, 2)
  OBVIOUS
<1>2. x \in Job(2) /\ x.id = NextJob /\ Open(x) /\ Posting(x) /\ NextJob \in Nat
  BY <1>1, SeqTypes, NewJobIs
<1>3. CardState(x) = "running"
  BY <1>2, CardSays
<1>4. ASSUME NEW c \in CallType, c.pc = "post", calls' = With(calls, NextJob, c), jobs' = Append(jobs, x)
      PROVE  /\ \E y : BeginsWith(y)
             /\ NextJob \notin DOMAIN calls
             /\ DOMAIN calls \subseteq DOMAIN calls' /\ DOMAIN calls' \subseteq DOMAIN calls \cup {NextJob}
             /\ \A i \in DOMAIN calls : calls'[i] = calls[i]
             /\ NextJob \in DOMAIN calls' => calls'[NextJob].pc = "post"
  <2>1. /\ DOMAIN calls' = DOMAIN calls \cup {NextJob} /\ NextJob \notin DOMAIN calls
        /\ calls'[NextJob] = c /\ \A i \in DOMAIN calls : calls'[i] = calls[i]
    BY <1>4, CallAdded
  <2>2. BeginsWith(x)
    BY <1>2, <1>3, <1>4, <2>1 DEF BeginsWith
  <2> QED
    BY <1>4, <2>1, <2>2
<1>5. CASE Submit
  <2>1. NextJob' = NextJob + 1 /\ instr' = instr
    BY <1>5, SubmitFrame
  <2>2. PICK r : r = NewCall(RequestOf(form, address), Len(pressed) + 1)
    OBVIOUS
  <2>3. \/ r \in CallType /\ calls' = With(calls, NextJob, r) /\ jobs' = Start(jobs, NextJob, PLACE_ORDER_STEPS)
        \/ calls' = calls /\ jobs' = Update(Start(jobs, NextJob, PLACE_ORDER_STEPS), NextJob, Fail)
    BY <1>5, <2>2, SubmitFrame, Zenon
  <2>4. r.pc = "post"
    BY <2>2 DEF NewCall
  <2>5. Start(jobs, NextJob, PLACE_ORDER_STEPS) = Append(jobs, x)
    BY <1>1 DEF Start, PLACE_ORDER_STEPS
  <2>6. CASE calls' = calls /\ jobs' = Update(Append(jobs, x), NextJob, Fail)
    <3>1. PICK y : y = Fail(x)
      OBVIOUS
    <3>2. y \in Job(2) /\ y.id = NextJob /\ Closed(y) /\ CardState(y) = "failed"
      BY <1>2, <3>1, FailIs DEF Running
    <3>3. NextJob \notin DOMAIN calls /\ \A k \in DOMAIN jobs : jobs[k].id # NextJob
      BY CardIds, SeqTypes
    <3>4. jobs \in Seq(Job(2))
      BY DEF Cards
    <3>5. jobs' = Append(jobs, y)
      <4>1. PICK s : s = Append(jobs, x)
        OBVIOUS
      <4>2. jobs' = [k \in DOMAIN s |-> IF s[k].id = NextJob THEN Fail(s[k]) ELSE s[k]]
        BY <2>6, <4>1, Zenon DEF Update
      <4>3. /\ s \in Seq(Job(2)) /\ DOMAIN s = 1..(Len(jobs) + 1) /\ s[Len(jobs) + 1] = x
            /\ \A k \in 1..Len(jobs) : s[k] = jobs[k]
        BY <1>2, <3>4, <4>1
      <4>4. \A k \in 1..Len(jobs) : s[k].id # NextJob
        BY <3>3, <3>4, <4>3
      <4>5. /\ DOMAIN jobs' = 1..(Len(jobs) + 1) /\ jobs'[Len(jobs) + 1] = y
            /\ \A k \in 1..Len(jobs) : jobs'[k] = jobs[k]
        BY <1>2, <3>1, <3>4, <4>2, <4>3, <4>4
      <4>6. jobs' = [k \in 1..(Len(jobs) + 1) |-> jobs'[k]]
        BY <4>2, <4>5
      <4>7. PICK z : z = Append(jobs, y)
        OBVIOUS
      <4>8. /\ z \in Seq(Job(2)) /\ DOMAIN z = 1..(Len(jobs) + 1) /\ z[Len(jobs) + 1] = y
            /\ \A k \in 1..Len(jobs) : z[k] = jobs[k]
        BY <3>2, <3>4, <4>7
      <4>9. z = [k \in 1..(Len(jobs) + 1) |-> z[k]]
        BY <4>8
      <4>10. \A k \in 1..(Len(jobs) + 1) : jobs'[k] = z[k]
        BY <3>4, <4>5, <4>8
      <4> QED
        BY <4>6, <4>7, <4>9, <4>10
    <3>6. BeginsWith(y)
      BY <2>6, <3>2, <3>3, <3>5 DEF BeginsWith
    <3> QED
      BY <2>1, <2>6, <3>3, <3>6, SeqTypes
  <2>7. CASE r \in CallType /\ calls' = With(calls, NextJob, r) /\ jobs' = Append(jobs, x)
    BY <1>4, <2>1, <2>4, <2>7
  <2> QED
    BY <2>3, <2>5, <2>6, <2>7
<1>6. CASE CancelAction
  <2>1. PICK row \in OpenOrdersRows : Cancel(row)
    BY <1>6 DEF CancelAction
  <2>2. NextJob' = NextJob + 1 /\ instr' = instr
    BY <2>1, CancelFrame
  <2>3. PICK r : r = NewCall([sender |-> address, orderId |-> row.order.id], 0)
    OBVIOUS
  <2>4. r \in CallType /\ calls' = With(calls, NextJob, r) /\ jobs' = Start(jobs, NextJob, CANCEL_ORDER_STEPS)
    BY <2>1, <2>3, CancelFrame, Zenon
  <2>5. r.pc = "post"
    BY <2>3 DEF NewCall
  <2>6. Start(jobs, NextJob, CANCEL_ORDER_STEPS) = Append(jobs, x)
    BY <1>1 DEF Start, CANCEL_ORDER_STEPS
  <2> QED
    BY <1>4, <2>2, <2>4, <2>5, <2>6
<1> QED
  BY <1>5, <1>6

\* The card of a call under way.
LEMMA CardOfCall ==
  ASSUME Cards, NEW k \in DOMAIN jobs, jobs[k].id \in DOMAIN calls
  PROVE  /\ jobs[k] \in Job(2) /\ Open(jobs[k]) /\ Running(jobs[k])
         /\ calls[jobs[k].id].pc = "post" => Posting(jobs[k])
<1>1. jobs[k] \in Job(2)
  BY DEF Cards
<1>2. Follows(jobs[k])
  BY Zenon DEF Cards
<1> QED
  BY <1>1, <1>2, Zenon DEF Follows, Running

\* The card of a call that was posted.
LEMMA PostCards ==
  ASSUME PageShape, Cards, NEW j \in DOMAIN calls, Posted(j)
  PROVE  /\ jobs' \in Seq(Job(2)) /\ DOMAIN jobs' = DOMAIN jobs
         /\ \A k \in DOMAIN jobs : /\ jobs[k].id = j => Open(jobs'[k]) /\ Polling(jobs'[k])
                                   /\ jobs[k].id # j => jobs'[k] = jobs[k]
                                   /\ jobs'[k].id = jobs[k].id
         /\ \A k, l \in DOMAIN jobs' : jobs'[k].id = jobs'[l].id => k = l
<1>a. PICK m : m = [k \in DOMAIN jobs |-> Advance(jobs[k])]
  OBVIOUS
<1>1. calls[j].pc = "post" /\ jobs' = Update(jobs, j, Advance)
  BY Zenon DEF Posted
<1>2. jobs' = Changed(j, m)
  BY <1>1, <1>a DEF Update, Changed
<1>3. \A k \in DOMAIN jobs : jobs[k].id = j => /\ m[k] \in Job(2) /\ m[k].id = j
                                               /\ Open(m[k]) /\ Polling(m[k])
  BY <1>1, <1>a, CardOfCall, AdvanceIs
<1>4. \A k \in DOMAIN jobs : jobs[k].id = j => m[k] \in Job(2) /\ m[k].id = j
  BY <1>3, Zenon
<1>5. /\ jobs' \in Seq(Job(2)) /\ DOMAIN jobs' = DOMAIN jobs
      /\ \A k \in DOMAIN jobs : /\ jobs[k].id = j => jobs'[k] = m[k]
                                /\ jobs[k].id # j => jobs'[k] = jobs[k]
                                /\ jobs'[k].id = jobs[k].id
      /\ \A k, l \in DOMAIN jobs' : jobs'[k].id = jobs'[l].id => k = l
  BY <1>2, <1>4, CardUpdated
<1> QED
  BY <1>3, <1>5

\* The card of a call that ended.
LEMMA EndCards ==
  ASSUME PageShape, Cards, NEW j \in DOMAIN calls, NEW ok \in BOOLEAN, MutationOver(j, ok)
  PROVE  /\ jobs' \in Seq(Job(2)) /\ DOMAIN jobs' = DOMAIN jobs
         /\ \A k \in DOMAIN jobs : /\ jobs[k].id = j => Closed(jobs'[k]) /\ (~ok => CardState(jobs'[k]) = "failed")
                                   /\ jobs[k].id # j => jobs'[k] = jobs[k]
                                   /\ jobs'[k].id = jobs[k].id
         /\ \A k, l \in DOMAIN jobs' : jobs'[k].id = jobs'[l].id => k = l
<1>a. PICK m : m = [k \in DOMAIN jobs |-> IF ok THEN Finish(jobs[k]) ELSE Fail(jobs[k])]
  OBVIOUS
<1>1. jobs' = IF ok THEN Update(jobs, j, Finish) ELSE Update(jobs, j, Fail)
  BY Zenon DEF MutationOver
<1>2. jobs' = Changed(j, m)
  BY <1>1, <1>a DEF Update, Changed
<1>3. \A k \in DOMAIN jobs : jobs[k].id = j => /\ m[k] \in Job(2) /\ m[k].id = j
                                               /\ Closed(m[k]) /\ (~ok => CardState(m[k]) = "failed")
  BY <1>a, CardOfCall, FinishIs, FailIs
<1>4. \A k \in DOMAIN jobs : jobs[k].id = j => m[k] \in Job(2) /\ m[k].id = j
  BY <1>3, Zenon
<1>5. /\ jobs' \in Seq(Job(2)) /\ DOMAIN jobs' = DOMAIN jobs
      /\ \A k \in DOMAIN jobs : /\ jobs[k].id = j => jobs'[k] = m[k]
                                /\ jobs[k].id # j => jobs'[k] = jobs[k]
                                /\ jobs'[k].id = jobs[k].id
      /\ \A k, l \in DOMAIN jobs' : jobs'[k].id = jobs'[l].id => k = l
  BY <1>2, <1>4, CardUpdated
<1> QED
  BY <1>3, <1>5

\* Every card follows its call after every step.
LEMMA CardsStay ==
  ASSUME TradingAssumption, PageShape, AnswersFit, Cards, Next
  PROVE  Cards'
<1>1. ASSUME jobs' = jobs, NextJob' = NextJob, calls' = calls
      PROVE  Cards'
  <2>1. \A k \in DOMAIN jobs : Follows(jobs[k])'
    <3>1. ASSUME NEW k \in DOMAIN jobs
          PROVE  Follows(jobs[k])'
      <4>1. PICK x : x = jobs[k]
        OBVIOUS
      <4>2. Follows(x)
        BY <4>1, Zenon DEF Cards
      <4>3. Follows(x)'
        BY <1>1, <4>2, FollowsOn
      <4> QED
        BY <1>1, <4>1, <4>3, Zenon DEF Follows
    <3> QED
      BY <3>1
  <2> QED
    BY <1>1, <2>1, Zenon DEF Cards, Follows
<1>2. CASE Submit \/ CancelAction
  <2>1. /\ NextJob' = NextJob + 1 /\ NextJob \notin DOMAIN calls
        /\ DOMAIN calls \subseteq DOMAIN calls' /\ DOMAIN calls' \subseteq DOMAIN calls \cup {NextJob}
        /\ \A i \in DOMAIN calls : calls'[i] = calls[i]
        /\ NextJob \in DOMAIN calls' => calls'[NextJob].pc = "post"
    BY <1>2, BeginFrame
  <2>2. PICK x : BeginsWith(x)
    BY <1>2, BeginFrame
  <2>3. /\ x \in Job(2) /\ x.id = NextJob /\ jobs' = Append(jobs, x)
        /\ IF NextJob \in DOMAIN calls' THEN Open(x) /\ Posting(x) ELSE Closed(x)
    BY <2>2, Zenon DEF BeginsWith
  <2>4. /\ jobs' \in Seq(Job(2)) /\ DOMAIN jobs' = DOMAIN jobs \cup {Len(jobs) + 1}
        /\ jobs'[Len(jobs) + 1] = x /\ \A k \in DOMAIN jobs : jobs'[k] = jobs[k] /\ jobs[k].id # NextJob
        /\ \A k, l \in DOMAIN jobs' : jobs'[k].id = jobs'[l].id => k = l
    BY <2>3, CardAdded
  <2>5. \A k \in DOMAIN jobs' : jobs'[k].id < NextJob'
    BY <2>1, <2>3, <2>4, CardIds
  <2>6. Follows(x)'
    BY <2>1, <2>3 DEF Follows
  <2>7. ASSUME NEW k \in DOMAIN jobs', NEW y, y = jobs'[k]
        PROVE  Follows(y)'
    <3>1. CASE k \in DOMAIN jobs
      <4>1. y = jobs[k]
        BY <2>4, <2>7, <3>1
      <4>2. Follows(y)
        BY <3>1, <4>1, Zenon DEF Cards
      <4>3. y.id # NextJob
        BY <2>4, <3>1, <4>1
      <4>4. (y.id \in DOMAIN calls' <=> y.id \in DOMAIN calls)
            /\ (y.id \in DOMAIN calls => calls'[y.id] = calls[y.id])
        BY <2>1, <4>3
      <4> QED
        BY <4>2, <4>4, FollowsOn
    <3>2. CASE k = Len(jobs) + 1
      BY <2>4, <2>6, <2>7, <3>2
    <3> QED
      BY <2>4, <3>1, <3>2
  <2>8. \A k \in DOMAIN jobs' : \E y : y = jobs'[k] /\ Follows(y)'
    BY <2>7
  <2> QED
    BY <2>4, <2>5, <2>8, Zenon DEF Cards, Follows
<1>3. CASE PostAction
  <2>1. PICK j \in DOMAIN calls : Posted(j)
    BY <1>3 DEF PostAction
  <2>2. /\ DOMAIN calls' = DOMAIN calls /\ calls'[j].pc = "poll" /\ NextJob' = NextJob
        /\ \A i \in DOMAIN calls : i # j => calls'[i] = calls[i]
    BY <2>1, PostFrame DEF page, NextJob
  <2>3. /\ jobs' \in Seq(Job(2)) /\ DOMAIN jobs' = DOMAIN jobs
        /\ \A k \in DOMAIN jobs : /\ jobs[k].id = j => Open(jobs'[k]) /\ Polling(jobs'[k])
                                  /\ jobs[k].id # j => jobs'[k] = jobs[k]
                                  /\ jobs'[k].id = jobs[k].id
        /\ \A k, l \in DOMAIN jobs' : jobs'[k].id = jobs'[l].id => k = l
    BY <2>1, PostCards
  <2>4. \A k \in DOMAIN jobs' : jobs'[k].id < NextJob'
    BY <2>2, <2>3, CardIds
  <2>5. ASSUME NEW k \in DOMAIN jobs', NEW y, y = jobs'[k]
        PROVE  Follows(y)'
    <3>1. CASE jobs[k].id = j
      <4>1. Open(y) /\ Polling(y) /\ y.id = j
        BY <2>3, <2>5, <3>1
      <4> QED
        BY <2>2, <4>1 DEF Follows
    <3>2. CASE jobs[k].id # j
      <4>1. y = jobs[k] /\ y.id # j
        BY <2>3, <2>5, <3>2
      <4>2. Follows(y)
        BY <2>3, <4>1, Zenon DEF Cards
      <4> QED
        BY <2>2, <4>1, <4>2, FollowsOn
    <3> QED
      BY <3>1, <3>2
  <2>6. \A k \in DOMAIN jobs' : \E y : y = jobs'[k] /\ Follows(y)'
    BY <2>5
  <2> QED
    BY <2>3, <2>4, <2>6, Zenon DEF Cards, Follows
<1>4. CASE EndAction
  <2>1. PICK j \in DOMAIN calls : Refused(j) \/ Succeeds(j) \/ Fails(j)
    BY <1>4 DEF EndAction
  <2>2. PICK ok \in BOOLEAN : MutationOver(j, ok)
    BY <2>1, Zenon DEF Refused, Succeeds, Fails
  <2>3. DOMAIN calls' = DOMAIN calls \ {j} /\ \A i \in DOMAIN calls' : calls'[i] = calls[i]
    BY <2>1, EndFrame
  <2>4. NextJob' = NextJob
    BY <2>1, EndFrame DEF NextJob
  <2>5. /\ jobs' \in Seq(Job(2)) /\ DOMAIN jobs' = DOMAIN jobs
        /\ \A k \in DOMAIN jobs : /\ jobs[k].id = j => Closed(jobs'[k])
                                  /\ jobs[k].id # j => jobs'[k] = jobs[k]
                                  /\ jobs'[k].id = jobs[k].id
        /\ \A k, l \in DOMAIN jobs' : jobs'[k].id = jobs'[l].id => k = l
    BY <2>2, EndCards
  <2>6. \A k \in DOMAIN jobs' : jobs'[k].id < NextJob'
    BY <2>4, <2>5, CardIds
  <2>7. ASSUME NEW k \in DOMAIN jobs', NEW y, y = jobs'[k]
        PROVE  Follows(y)'
    <3>1. CASE jobs[k].id = j
      <4>1. Closed(y) /\ y.id = j
        BY <2>5, <2>7, <3>1
      <4> QED
        BY <2>3, <4>1 DEF Follows
    <3>2. CASE jobs[k].id # j
      <4>1. y = jobs[k] /\ y.id # j
        BY <2>5, <2>7, <3>2
      <4>2. Follows(y)
        BY <2>5, <4>1, Zenon DEF Cards
      <4>3. (y.id \in DOMAIN calls' <=> y.id \in DOMAIN calls)
            /\ (y.id \in DOMAIN calls => calls'[y.id] = calls[y.id])
        BY <2>3, <4>1
      <4> QED
        BY <4>2, <4>3, FollowsOn
    <3> QED
      BY <3>1, <3>2
  <2>8. \A k \in DOMAIN jobs' : \E y : y = jobs'[k] /\ Follows(y)'
    BY <2>7
  <2> QED
    BY <2>5, <2>6, <2>8, Zenon DEF Cards, Follows
<1>5. CASE DismissAction
  <2>1. /\ jobs' \in Seq(Job(2))
        /\ \A k \in DOMAIN jobs' : \E l \in DOMAIN jobs : jobs'[k] = jobs[l]
        /\ \A k, l \in DOMAIN jobs' : jobs'[k].id = jobs'[l].id => k = l
        /\ UNCHANGED <<engine, instr, calls, page, query>>
    BY <1>5, DismissFrame
  <2>2. NextJob' = NextJob /\ calls' = calls
    BY <2>1 DEF page, NextJob
  <2>3. \A k \in DOMAIN jobs' : jobs'[k].id < NextJob'
    BY <2>1, <2>2, CardIds
  <2>4. ASSUME NEW k \in DOMAIN jobs', NEW y, y = jobs'[k]
        PROVE  Follows(y)'
    <3>1. Follows(y)
      BY <2>1, <2>4, Zenon DEF Cards
    <3> QED
      BY <2>2, <3>1, FollowsOn
  <2>5. \A k \in DOMAIN jobs' : \E y : y = jobs'[k] /\ Follows(y)'
    BY <2>4
  <2> QED
    BY <2>1, <2>3, <2>5, Zenon DEF Cards, Follows
<1>6. CASE Aside /\ ~DismissAction
  <2>1. jobs' = jobs /\ used'.cancels = used.cancels
    <3>1. EditForm => jobs' = jobs /\ used' = used
      BY Zenon DEF EditForm, LoadDecimals, Edit, FillPct
    <3>2. QueryAction => jobs' = jobs /\ used' = used
      BY Zenon DEF QueryAction, Refetch, ReadBalances, ReadOrders, ApplyAnswer, QueryFails, page
    <3>3. SwitchAction => jobs' = jobs /\ used'.cancels = used.cancels
      BY UsedTypes DEF SwitchAction, SwitchWallet, PageShape
    <3>4. RemountEntry \/ RemountOrders => jobs' = jobs /\ used'.cancels = used.cancels
      BY UsedTypes DEF RemountEntry, RemountOrders, PageShape
    <3> QED
      BY <1>6, <3>1, <3>2, <3>3, <3>4 DEF Aside
  <2>2. calls' = calls /\ pressed' = pressed
    BY <1>6, AsideFrame
  <2> QED
    BY <1>1, <2>1, <2>2 DEF NextJob
<1>7. CASE TeeAction
  <2>1. jobs' = jobs /\ calls' = calls /\ NextJob' = NextJob
    BY <1>7, TeeFrame DEF page, NextJob
  <2> QED
    BY <1>1, <2>1
<1> QED
  BY <1>2, <1>3, <1>4, <1>5, <1>6, <1>7, Kinds DEF Aside

-----------------------------------------------------------------------------
(* A card says "done" of an instruction carried out.                       *)

\* Instructions done of which no call under way waits for the result.
Reported == DoneInstr \ Acts

\* A sequence has finitely many elements.
LEMMA ElementsFinite ==
  ASSUME NEW S, NEW s \in Seq(S)
  PROVE  IsFiniteSet(DOMAIN s) /\ IsFiniteSet(Range(s))
<1>1. DOMAIN s = 1..Len(s) /\ Len(s) \in Nat /\ s = [k \in DOMAIN s |-> s[k]]
  OBVIOUS
<1>2. IsFiniteSet(DOMAIN s)
  <2>1. \A n \in Nat : IsFiniteSet(1..n)
    BY FS_Interval
  <2> QED
    BY <1>1, <2>1
<1>3. s \in Surjection(DOMAIN s, Range(s))
  BY <1>1 DEF Surjection, Range
<1> QED
  BY <1>2, <1>3, FS_Surjection

\* The counts are of finite sets.
LEMMA CountsFinite ==
  ASSUME NEW s \in Seq(Job(2)), NEW t \in Seq(Instr)
  PROVE  /\ IsFiniteSet({j \in Range(s) : CardState(j) = "done"})
         /\ IsFiniteSet({k \in DOMAIN t : t[k].status = "done"})
<1>1. IsFiniteSet(Range(s)) /\ IsFiniteSet(DOMAIN t)
  BY ElementsFinite
<1>2. /\ {j \in Range(s) : CardState(j) = "done"} \subseteq Range(s)
      /\ {k \in DOMAIN t : t[k].status = "done"} \subseteq DOMAIN t
  OBVIOUS
<1> QED
  BY <1>1, <1>2, FS_Subset

\* Cards that say "done" come from cards that did.
LEMMA DoneFromDone ==
  ASSUME \A k \in DOMAIN jobs' : CardState(jobs'[k]) = "done" => \E l \in DOMAIN jobs : jobs'[k] = jobs[l]
  PROVE  DoneCards' \subseteq DoneCards
<1>1. ASSUME NEW y \in DoneCards'
      PROVE  y \in DoneCards
  <2>1. PICK k \in DOMAIN jobs' : y = jobs'[k]
    BY <1>1 DEF DoneCards, Range
  <2>2. CardState(y) = "done"
    BY <1>1 DEF DoneCards
  <2>3. PICK l \in DOMAIN jobs : y = jobs[l]
    BY <2>1, <2>2
  <2> QED
    BY <2>2, <2>3 DEF DoneCards, Range
<1> QED
  BY <1>1

\* No more cards, no fewer instructions.
LEMMA CountKept ==
  ASSUME PageShape, Cards, PageShape', Cards', Counted, DoneCards' \subseteq DoneCards, Reported \subseteq Reported'
  PROVE  Cardinality(DoneCards') <= Cardinality(Reported')
<1>1. IsFiniteSet(DoneCards) /\ IsFiniteSet(Reported)
  <2>1. IsFiniteSet(DoneCards) /\ IsFiniteSet(DoneInstr)
    BY CountsFinite DEF DoneCards, DoneInstr, PageShape, Cards
  <2> QED
    BY <2>1, FS_Subset DEF Reported
<1>2. IsFiniteSet(DoneCards') /\ IsFiniteSet(Reported')
  <2>1. IsFiniteSet(DoneCards') /\ IsFiniteSet(DoneInstr')
    BY CountsFinite DEF DoneCards, DoneInstr, PageShape, Cards
  <2> QED
    BY <2>1, FS_Subset DEF Reported
<1>3. Cardinality(DoneCards') <= Cardinality(DoneCards) /\ Cardinality(Reported) <= Cardinality(Reported')
  BY <1>1, <1>2, FS_Subset
<1>4. /\ Cardinality(DoneCards) \in Nat /\ Cardinality(Reported) \in Nat
      /\ Cardinality(DoneCards') \in Nat /\ Cardinality(Reported') \in Nat
  BY <1>1, <1>2, FS_CardinalityType
<1>5. Cardinality(DoneCards) <= Cardinality(Reported)
  BY DEF Counted, Reported
<1> QED
  BY <1>3, <1>4, <1>5

\* What Acts says, call by call.
LEMMA ActsAre ==
  /\ \A a : a \in Acts <=> \E j \in DOMAIN calls : Polls(j) /\ calls[j].act = a
  /\ \A a : a \in Acts' <=> \E j \in DOMAIN calls' : Polls(j)' /\ calls'[j].act = a
BY DEF Acts

\* The new call of a step waits for nothing yet, the card that begins says nothing.
LEMMA CountedBegin ==
  ASSUME TradingAssumption, PageShape, AnswersFit, Cards, PageShape', Cards', Counted,
         Submit \/ CancelAction
  PROVE  Counted'
<1>1. /\ instr' = instr /\ NextJob \notin DOMAIN calls
      /\ DOMAIN calls \subseteq DOMAIN calls' /\ DOMAIN calls' \subseteq DOMAIN calls \cup {NextJob}
      /\ \A i \in DOMAIN calls : calls'[i] = calls[i]
      /\ NextJob \in DOMAIN calls' => calls'[NextJob].pc = "post"
  BY BeginFrame
<1>2. PICK x : BeginsWith(x)
  BY BeginFrame
<1>3. /\ x \in Job(2) /\ x.id = NextJob /\ jobs' = Append(jobs, x) /\ CardState(x) # "done"
  BY <1>2, Zenon DEF BeginsWith
<1>4. /\ DOMAIN jobs' = DOMAIN jobs \cup {Len(jobs) + 1} /\ jobs'[Len(jobs) + 1] = x
      /\ \A k \in DOMAIN jobs : jobs'[k] = jobs[k]
  BY <1>3, CardAdded
<1>5. \A i \in DOMAIN calls' : Polls(i)' => i \in DOMAIN calls /\ Polls(i) /\ calls'[i].act = calls[i].act
  BY <1>1 DEF Polls
<1>6. \A i \in DOMAIN calls : Polls(i) => i \in DOMAIN calls' /\ Polls(i)' /\ calls'[i].act = calls[i].act
  BY <1>1 DEF Polls
<1>7. Acts' = Acts
  BY <1>5, <1>6, ActsAre, Zenon
<1>8. Reported' = Reported
  BY <1>1, <1>7 DEF Reported, DoneInstr
<1>9. DoneCards' \subseteq DoneCards
  BY <1>3, <1>4, DoneFromDone
<1>10. Cardinality(DoneCards') <= Cardinality(Reported')
  BY <1>8, <1>9, CountKept
<1>11. \A i \in DOMAIN calls' : Polls(i)' => calls'[i].act \in DOMAIN instr'
  BY <1>1, <1>5 DEF Counted
<1>12. \A i, l \in DOMAIN calls' : Polls(i)' /\ Polls(l)' /\ calls'[i].act = calls'[l].act => i = l
  BY <1>5, Zenon DEF Counted
<1> QED
  BY <1>10, <1>11, <1>12, Zenon DEF Counted, Reported

\* A posted instruction is not carried out yet, and its call waits for it.
LEMMA CountedPost ==
  ASSUME PageShape, Cards, PageShape', Cards', Counted, NEW j \in DOMAIN calls, Posted(j)
  PROVE  Counted'
<1>1. /\ DOMAIN calls' = DOMAIN calls /\ \A i \in DOMAIN calls : i # j => calls'[i] = calls[i]
      /\ calls[j].pc = "post" /\ calls'[j].pc = "poll" /\ calls'[j].act = Len(instr) + 1
      /\ instr' = Append(instr, Instruction(calls[j].req, calls[j].press))
  BY PostFrame
<1>2. PICK n, x : n = Len(instr) + 1 /\ x = Instruction(calls[j].req, calls[j].press)
  OBVIOUS
<1>3. x \in Instr /\ x.status = "queued"
  BY <1>2, InstructionIs
<1>4. /\ DOMAIN instr' = DOMAIN instr \cup {n} /\ n \notin DOMAIN instr
      /\ instr'[n] = x /\ \A k \in DOMAIN instr : instr'[k] = instr[k]
  BY <1>1, <1>2, <1>3, InstrAppended
<1>5. \A i \in DOMAIN calls' : Polls(i)' => \/ (i = j /\ calls'[i].act = n)
                                           \/ (i # j /\ Polls(i) /\ calls'[i].act = calls[i].act)
  BY <1>1, <1>2 DEF Polls
<1>6. \A i \in DOMAIN calls : Polls(i) => i # j /\ i \in DOMAIN calls' /\ Polls(i)' /\ calls'[i].act = calls[i].act
  BY <1>1 DEF Polls
<1>7. \A a : a \in Acts' => a \in Acts \/ a = n
  BY <1>1, <1>5, ActsAre
<1>8. DoneInstr' = DoneInstr
  BY <1>3, <1>4 DEF DoneInstr
<1>9. Reported \subseteq Reported'
  BY <1>4, <1>7, <1>8 DEF Reported, DoneInstr
<1>10. /\ DOMAIN jobs' = DOMAIN jobs
       /\ \A k \in DOMAIN jobs : /\ jobs[k].id = j => Open(jobs'[k])
                                 /\ jobs[k].id # j => jobs'[k] = jobs[k]
  BY PostCards
<1>11. \A k \in DOMAIN jobs' : Open(jobs'[k]) => CardState(jobs'[k]) # "done"
  BY Zenon DEF Open, CardState
<1>12. DoneCards' \subseteq DoneCards
  BY <1>10, <1>11, DoneFromDone
<1>13. Cardinality(DoneCards') <= Cardinality(Reported')
  BY <1>9, <1>12, CountKept
<1>14. \A i \in DOMAIN calls' : Polls(i)' => calls'[i].act \in DOMAIN instr'
  BY <1>1, <1>4, <1>5 DEF Counted
<1>15. ASSUME NEW i \in DOMAIN calls', NEW l \in DOMAIN calls', Polls(i)', Polls(l)',
              calls'[i].act = calls'[l].act
       PROVE  i = l
  <2>1. \A q \in DOMAIN calls : Polls(q) => calls[q].act # n
    BY <1>4 DEF Counted
  <2>2. CASE i = j \/ l = j
    BY <1>1, <1>5, <1>15, <2>1, <2>2
  <2>3. CASE i # j /\ l # j
    BY <1>1, <1>5, <1>15, <2>3 DEF Counted
  <2> QED
    BY <2>2, <2>3
<1> QED
  BY <1>13, <1>14, <1>15, Zenon DEF Counted, Reported

\* A call that ends without a success leaves a card that failed.
LEMMA CountedFailure ==
  ASSUME PageShape, Cards, PageShape', Cards', Counted, NEW j \in DOMAIN calls, Refused(j) \/ Fails(j)
  PROVE  Counted'
<1>1. /\ DOMAIN calls' = DOMAIN calls \ {j} /\ \A i \in DOMAIN calls' : calls'[i] = calls[i]
      /\ instr' = instr \/ /\ instr' = Append(instr, Instruction(calls[j].req, calls[j].press))
                           /\ calls[j].pc = "post"
  BY EndFrame, Zenon
<1>2. MutationOver(j, FALSE)
  BY Zenon DEF Refused, Fails
<1>3. \A k \in DOMAIN instr : k \in DOMAIN instr' /\ instr'[k] = instr[k]
  BY <1>1, InstructionIs, InstrAppended
<1>4. \A i \in DOMAIN calls' : Polls(i)' => i \in DOMAIN calls /\ Polls(i) /\ calls'[i].act = calls[i].act
  BY <1>1 DEF Polls
<1>5. \A a : a \in Acts' => a \in Acts
  BY <1>4, ActsAre, Zenon
<1>6. Reported \subseteq Reported'
  BY <1>3, <1>5 DEF Reported, DoneInstr
<1>7. /\ DOMAIN jobs' = DOMAIN jobs
      /\ \A k \in DOMAIN jobs : /\ jobs[k].id = j => CardState(jobs'[k]) = "failed"
                                /\ jobs[k].id # j => jobs'[k] = jobs[k]
  BY <1>2, EndCards
<1>8. DoneCards' \subseteq DoneCards
  BY <1>7, DoneFromDone
<1>9. Cardinality(DoneCards') <= Cardinality(Reported')
  BY <1>6, <1>8, CountKept
<1>10. \A i \in DOMAIN calls' : Polls(i)' => calls'[i].act \in DOMAIN instr'
  BY <1>3, <1>4 DEF Counted
<1>11. \A i, l \in DOMAIN calls' : Polls(i)' /\ Polls(l)' /\ calls'[i].act = calls'[l].act => i = l
  BY <1>4, Zenon DEF Counted
<1> QED
  BY <1>9, <1>10, <1>11, Zenon DEF Counted, Reported

\* A call that ends with a success: one card more, and the instruction that it waited for.
LEMMA CountedSuccess ==
  ASSUME PageShape, Cards, PageShape', Cards', Counted, NEW j \in DOMAIN calls, Succeeds(j)
  PROVE  Counted'
<1>1. /\ DOMAIN calls' = DOMAIN calls \ {j} /\ \A i \in DOMAIN calls' : calls'[i] = calls[i]
  BY EndFrame, Zenon
<1>2. /\ MutationOver(j, TRUE) /\ instr' = instr /\ Polls(j) /\ instr[calls[j].act].status = "done"
  BY Zenon DEF Succeeds, Polls, PollOk
<1>3. \A i \in DOMAIN calls' : Polls(i)' => i \in DOMAIN calls /\ i # j /\ Polls(i) /\ calls'[i].act = calls[i].act
  BY <1>1 DEF Polls
<1>4. PICK a : a = calls[j].act
  OBVIOUS
<1>5. a \in DOMAIN instr /\ a \in DoneInstr /\ a \in Acts
  BY <1>2, <1>4, ActsAre DEF Counted, DoneInstr
<1>6. \A b : b \in Acts' => b \in Acts /\ b # a
  <2>1. ASSUME NEW b \in Acts'
        PROVE  b \in Acts /\ b # a
    <3>1. PICK i \in DOMAIN calls' : Polls(i)' /\ calls'[i].act = b
      BY <2>1, ActsAre
    <3>2. i \in DOMAIN calls /\ i # j /\ Polls(i) /\ calls[i].act = b
      BY <1>3, <3>1
    <3>3. b \in Acts
      BY <3>2, ActsAre
    <3>4. b # a
      BY <1>2, <1>4, <3>2 DEF Counted
    <3> QED
      BY <3>3, <3>4
  <2> QED
    BY <2>1
<1>7. DoneInstr' = DoneInstr
  BY <1>2 DEF DoneInstr
<1>8. Reported \cup {a} \subseteq Reported' /\ a \notin Reported
  BY <1>5, <1>6, <1>7 DEF Reported
<1>9. /\ DOMAIN jobs' = DOMAIN jobs
      /\ \A k \in DOMAIN jobs : jobs[k].id # j => jobs'[k] = jobs[k]
      /\ \A k \in DOMAIN jobs : jobs'[k].id = jobs[k].id
  BY <1>2, EndCards
<1>10. \E y : DoneCards' \subseteq DoneCards \cup {y}
  <2>1. CASE \E k \in DOMAIN jobs : jobs[k].id = j
    <3>1. PICK k \in DOMAIN jobs : jobs[k].id = j
      BY <2>1
    <3>2. PICK y : y = jobs'[k]
      OBVIOUS
    <3>3. ASSUME NEW z \in DoneCards', z # y
          PROVE  z \in DoneCards
      <4>1. PICK l \in DOMAIN jobs' : z = jobs'[l]
        BY <3>3 DEF DoneCards, Range
      <4>2. CardState(z) = "done"
        BY <3>3 DEF DoneCards
      <4>3. l # k
        BY <3>2, <3>3, <4>1
      <4>4. jobs[l].id # j
        BY <1>9, <3>1, <4>3 DEF Cards
      <4>5. z = jobs[l] /\ l \in DOMAIN jobs
        BY <1>9, <4>1, <4>4
      <4> QED
        BY <4>2, <4>5 DEF DoneCards, Range
    <3> QED
      BY <3>3
  <2>2. CASE ~\E k \in DOMAIN jobs : jobs[k].id = j
    <3>1. DoneCards' \subseteq DoneCards
      BY <1>9, <2>2, DoneFromDone
    <3> QED
      BY <3>1
  <2> QED
    BY <2>1, <2>2
<1>11. PICK y : DoneCards' \subseteq DoneCards \cup {y}
  BY <1>10
<1>12. Cardinality(DoneCards') <= Cardinality(Reported')
  <2>1. IsFiniteSet(DoneCards) /\ IsFiniteSet(DoneInstr)
    BY CountsFinite DEF DoneCards, DoneInstr, PageShape, Cards
  <2>2. IsFiniteSet(DoneInstr')
    BY <1>7, <2>1
  <2>3. IsFiniteSet(Reported) /\ IsFiniteSet(Reported')
    BY <2>1, <2>2, FS_Subset DEF Reported
  <2>4. /\ Cardinality(Reported \cup {a}) = Cardinality(Reported) + 1 /\ IsFiniteSet(Reported \cup {a})
        /\ Cardinality(Reported) \in Nat
    BY <1>8, <2>3, FS_AddElement, FS_CardinalityType
  <2>5. Cardinality(Reported \cup {a}) <= Cardinality(Reported') /\ Cardinality(Reported') \in Nat
    BY <1>8, <2>3, FS_Subset, FS_CardinalityType
  <2>6. /\ Cardinality(DoneCards \cup {y}) <= Cardinality(DoneCards) + 1 /\ IsFiniteSet(DoneCards \cup {y})
        /\ Cardinality(DoneCards) \in Nat /\ Cardinality(DoneCards \cup {y}) \in Nat
    <3>1. IsFiniteSet(DoneCards \cup {y}) /\ Cardinality(DoneCards) \in Nat /\ Cardinality(DoneCards \cup {y}) \in Nat
      BY <2>1, FS_AddElement, FS_CardinalityType
    <3>2. CASE y \in DoneCards
      <4>1. DoneCards \cup {y} = DoneCards
        BY <3>2
      <4>2. Cardinality(DoneCards \cup {y}) = Cardinality(DoneCards)
        BY <4>1
      <4>3. Cardinality(DoneCards) <= Cardinality(DoneCards) + 1
        BY <3>1
      <4> QED
        BY <3>1, <4>2, <4>3
    <3>3. CASE y \notin DoneCards
      BY <2>1, <3>1, <3>3, FS_AddElement
    <3> QED
      BY <3>1, <3>2, <3>3
  <2>7. Cardinality(DoneCards') <= Cardinality(DoneCards \cup {y}) /\ Cardinality(DoneCards') \in Nat
    <3>1. Cardinality(DoneCards') <= Cardinality(DoneCards \cup {y}) /\ IsFiniteSet(DoneCards')
      BY <1>11, <2>6, FS_Subset
    <3> QED
      BY <3>1, FS_CardinalityType
  <2>8. Cardinality(DoneCards) <= Cardinality(Reported)
    BY DEF Counted, Reported
  <2> QED
    BY <2>4, <2>5, <2>6, <2>7, <2>8
<1>13. \A i \in DOMAIN calls' : Polls(i)' => calls'[i].act \in DOMAIN instr'
  BY <1>2, <1>3 DEF Counted
<1>14. \A i, l \in DOMAIN calls' : Polls(i)' /\ Polls(l)' /\ calls'[i].act = calls'[l].act => i = l
  BY <1>3, Zenon DEF Counted
<1> QED
  BY <1>12, <1>13, <1>14, Zenon DEF Counted, Reported

\* What the cards say stays covered.
LEMMA CountedStays ==
  ASSUME TradingAssumption, PageShape, AnswersFit, Cards, PageShape', Cards', Counted, Next
  PROVE  Counted'
<1>1. ASSUME calls' = calls, DOMAIN instr' = DOMAIN instr,
             \A k \in DOMAIN instr : instr[k].status = "done" => instr'[k].status = "done",
             DoneCards' \subseteq DoneCards
      PROVE  Counted'
  <2>1. Acts' = Acts
    BY <1>1 DEF Acts, Polls
  <2>2. Reported \subseteq Reported'
    BY <1>1, <2>1 DEF Reported, DoneInstr
  <2>3. Cardinality(DoneCards') <= Cardinality(Reported')
    BY <1>1, <2>2, CountKept
  <2>4. \A i : Polls(i)' <=> Polls(i)
    BY <1>1 DEF Polls
  <2>5. \A i \in DOMAIN calls' : Polls(i)' => calls'[i].act \in DOMAIN instr'
    BY <1>1, <2>4 DEF Counted
  <2>6. \A i, l \in DOMAIN calls' : Polls(i)' /\ Polls(l)' /\ calls'[i].act = calls'[l].act => i = l
    BY <1>1, <2>4, Zenon DEF Counted
  <2> QED
    BY <2>3, <2>5, <2>6, Zenon DEF Counted, Reported
<1>2. CASE Aside
  <2>1. calls' = calls /\ instr' = instr
    BY <1>2, AsideFrame, Zenon
  <2>2. DoneCards' \subseteq DoneCards
    <3>1. CASE DismissAction
      BY <3>1, DismissFrame, DoneFromDone
    <3>2. CASE ~DismissAction
      <4>1. jobs' = jobs
        BY <1>2, <3>2, Zenon DEF Aside, EditForm, LoadDecimals, Edit, FillPct, SwitchAction, SwitchWallet,
             RemountEntry, RemountOrders, QueryAction, Refetch, ReadBalances, ReadOrders, ApplyAnswer, QueryFails
      <4> QED
        BY <4>1 DEF DoneCards
    <3> QED
      BY <3>1, <3>2
  <2> QED
    BY <1>1, <2>1, <2>2
<1>3. CASE Submit \/ CancelAction
  BY <1>3, CountedBegin
<1>4. CASE PostAction
  BY <1>4, CountedPost, Zenon DEF PostAction
<1>5. CASE EndAction
  BY <1>5, CountedFailure, CountedSuccess, Zenon DEF EndAction
<1>6. CASE TeeAction
  <2>1. UNCHANGED <<calls, jobs>> /\ DOMAIN instr' = DOMAIN instr /\ InstrGrow
    BY <1>6, TeeFrame, Zenon
  <2>2. DoneCards' \subseteq DoneCards
    BY <2>1 DEF DoneCards
  <2>3. \A k \in DOMAIN instr : instr[k].status = "done" => instr'[k].status = "done"
    BY <2>1 DEF InstrGrow
  <2> QED
    BY <1>1, <2>1, <2>2, <2>3
<1> QED
  BY <1>2, <1>3, <1>4, <1>5, <1>6, Kinds DEF Aside

-----------------------------------------------------------------------------
(* The invariant holds.                                                    *)

\* The page as it opens: nobody connected, nothing placed, nothing held.
LEMMA InitHolds ==
  ASSUME TradingAssumption, Init
  PROVE  TradingInv
<1>1. /\ instr = <<>> /\ calls = <<>> /\ jobs = <<>> /\ pressed = <<>>
      /\ address = NoUser /\ cancelling = {}
      /\ used = [switches |-> 0, cancels |-> 0, mounts |-> 0, table |-> 0]
  BY DEF Init
<1>2. DOMAIN instr = {} /\ DOMAIN calls = {} /\ DOMAIN jobs = {} /\ DOMAIN pressed = {} /\ Len(pressed) = 0
  BY <1>1
<1>3. PageShape
  <2>1. instr \in Seq(Instr) /\ pressed \in Seq(PlaceOrderReq) /\ address \in Users \cup {NoUser}
        /\ cancelling \subseteq Nat /\ used \in Used
    BY <1>1 DEF Used
  <2>2. (CHOOSE p \in Pairs : TRUE) \in Pairs /\ NoJob \in Nat
    BY DEF TradingAssumption, NoJob
  <2>3. form \in Form
    <3>1. form = EmptyForm(CHOOSE p \in Pairs : TRUE)
      BY DEF Init
    <3> QED
      BY <2>2, <3>1 DEF EmptyForm, Form, TradingAssumption
  <2>4. calls \in [DOMAIN calls -> CallType] /\ DOMAIN calls \subseteq 0..(NextJob - 1)
    BY <1>1, <1>2
  <2> QED
    BY <2>1, <2>3, <2>4 DEF PageShape
<1>4. Presses
  BY <1>2 DEF Presses, Placed, PlacedAsShown
<1>5. Buttons
  BY <1>1, <1>2 DEF Buttons
<1>6. EngineFits
  <2>1. engine = [open |-> {}, releasing |-> {}, matches |-> {}, version |-> 1,
                  balances |-> [u \in Users |-> [t \in Tokens |-> [available |-> Funds[u], held |-> 0]]]]
    BY DEF Init
  <2>2. engine.open = {} /\ engine.releasing = {} /\ Owing = {}
        /\ \A u \in Users, t \in Tokens : engine.balances[u][t] = [available |-> Funds[u], held |-> 0]
    BY <2>1 DEF Owing
  <2>3. engine \in Engine
    <3>1. 1 \in 1..MaxVersion /\ \A u \in Users : Funds[u] \in Nat
      BY DEF TradingAssumption
    <3>2. [u \in Users |-> [t \in Tokens |-> [available |-> Funds[u], held |-> 0]]]
             \in [Users -> [Tokens -> TokenBalance]]
      BY <3>1 DEF TokenBalance
    <3> QED
      BY <2>1, <3>1, <3>2 DEF Engine
  <2>4. ASSUME NEW u \in Users, NEW t \in Tokens
        PROVE  engine.balances[u][t].held = Total(Dues(OfToken(OwingOf(u), t)))
    <3>1. OfToken(OwingOf(u), t) = {}
      BY <2>2 DEF OfToken, OwingOf
    <3>2. PICK f : f = Dues(OfToken(OwingOf(u), t))
      OBVIOUS
    <3>3. DOMAIN f = {}
      BY <3>1, <3>2 DEF Dues
    <3>4. Total(f) = 0
      BY <3>3, TotalEmpty
    <3>5. engine.balances[u][t].held = 0
      <4>1. engine.balances[u][t] = [available |-> Funds[u], held |-> 0]
        BY <2>2, Zenon
      <4> QED
        BY <4>1
    <3> QED
      BY <3>2, <3>4, <3>5, Zenon
  <2>5. IsFiniteSet(Owing)
    BY <2>2, FS_EmptySet
  <2> QED
    BY <2>2, <2>3, <2>4, <2>5 DEF EngineFits
<1>7. AnswersFit
  <2>1. cache = [u \in Users |-> None] /\ fetch = [u \in Users |-> FetchIdle]
        /\ floor = [u \in Users |-> 0] /\ engine.version = 1
    BY DEF Init
  <2>2. ASSUME NEW u \in Users
        PROVE  cache[u] = None /\ fetch[u] = FetchIdle /\ floor[u] = 0
    BY <2>1
  <2>3. cache = [u \in Users |-> cache[u]] /\ fetch = [u \in Users |-> fetch[u]]
    BY <2>1
  <2>4. floor \in [Users -> Nat]
    BY <2>1
  <2>5. \A u \in Users : floor[u] <= engine.version
    BY <2>1, <2>2
  <2>6. \A u \in Users : (cache[u] = None \/ AnswerFits(u, cache[u])) /\ FetchFits(u)
    BY <2>2, Zenon DEF FetchFits
  <2> QED
    BY <2>3, <2>4, <2>5, <2>6, Zenon DEF AnswersFit
<1>8. Cards
  BY <1>1, <1>2 DEF Cards
<1>9. Counted
  <2>1. DoneCards = {} /\ DoneInstr \ Acts = {}
    BY <1>1, <1>2 DEF DoneCards, DoneInstr, Range
  <2>2. Cardinality({}) = 0 /\ IsFiniteSet({})
    BY FS_EmptySet
  <2>3. Cardinality(DoneCards) <= Cardinality(DoneInstr \ Acts)
    BY <2>1, <2>2
  <2> QED
    BY <1>2, <2>1, <2>2, <2>3 DEF Counted
<1> QED
  BY <1>3, <1>4, <1>5, <1>6, <1>7, <1>8, <1>9 DEF TradingInv

\* Every step keeps it, part by part, each part with the help of those before it.
LEMMA StepHolds ==
  ASSUME TradingAssumption, TradingInv, Next
  PROVE  TradingInv'
<1>1. PageShape /\ Presses /\ Buttons /\ EngineFits /\ AnswersFit /\ Cards /\ Counted
  BY DEF TradingInv
<1>2. PageShape' /\ Presses' /\ Buttons'
  BY <1>1, ShapeKept, PressesKept, ButtonsStay
<1>3. EngineFits' /\ engine'.version \in Nat /\ engine.version <= engine'.version
  BY <1>1, EngineStays
<1>4. TeeAction \/ engine' = engine
  BY <1>1, BrowserFrame
<1>5. AnswersFit'
  BY <1>1, <1>3, <1>4, AnswersStay
<1>6. Cards'
  BY <1>1, CardsStay
<1>7. Counted'
  BY <1>1, <1>2, <1>6, CountedStays
<1> QED
  BY <1>2, <1>3, <1>5, <1>6, <1>7 DEF TradingInv

\* A step that changes nothing the model keeps keeps the invariant.
LEMMA StutterHolds ==
  ASSUME TradingInv, UNCHANGED trading
  PROVE  TradingInv'
<1>1. UNCHANGED <<engine, instr, calls, jobs, address, form, cancelling, pressed, used, cache, fetch, floor>>
  BY DEF trading, page, query
<1>2. NextJob' = NextJob
  BY <1>1 DEF NextJob
<1>3. PageShape' /\ Presses' /\ Buttons'
  <2>1. PageShape /\ Presses /\ Buttons
    BY DEF TradingInv
  <2>2. PageShape'
    BY <1>1, <1>2, <2>1 DEF PageShape
  <2>3. Presses'
    BY <1>1, <2>1, PressesFewer
  <2>4. Buttons'
    BY <1>1, <2>1 DEF Buttons, Mounted, OrderOf, Places
  <2> QED
    BY <2>2, <2>3, <2>4
<1>4. (EngineFits /\ AnswersFit)'
  BY <1>1, Zenon DEF TradingInv, EngineFits, Owing, OwingOf, AnswersFit, AnswerFits, ReadFits, NotOlder, FetchFits
<1>5. (Cards /\ Counted)'
  BY <1>1, <1>2, Zenon DEF TradingInv, Cards, Follows, Counted, Polls, Acts, DoneInstr, DoneCards
<1> QED
  BY <1>3, <1>4, <1>5 DEF TradingInv

\* The inductive invariant of the trader's page, of its queries and of the TEE
\* behind them.
LEMMA TradingInvariance == Spec => []TradingInv
<1>1. TradingAssumption
  BY TradingAssumption
<1>2. Init => TradingInv
  BY <1>1, InitHolds
<1>3. TradingInv /\ [Next]_trading => TradingInv'
  BY <1>1, StepHolds, StutterHolds
<1> QED
  BY <1>2, <1>3, PTL DEF Spec

-----------------------------------------------------------------------------
(* What the page promises.                                                 *)

\* Type correctness of the form, the tables, the tray and the answers they show.
THEOREM TradingTypeCorrect == Spec => []TypeOK
<1>1. TradingInv => TypeOK
  <2>1. ASSUME TradingInv
        PROVE  TypeOK
    <3>1. PageShape /\ EngineFits /\ AnswersFit /\ Cards
      BY <2>1 DEF TradingInv
    <3>2. \A k \in DOMAIN pressed : pressed[k] \in PlaceOrderReq
      BY <3>1, SeqTypes
    <3>3. \A k \in DOMAIN instr : instr[k].req \in PlaceOrderReq \cup CancelOrderReq
      BY <3>1, SeqTypes DEF Instr, Req
    <3>4. \A k \in DOMAIN jobs : jobs[k] \in Job(2)
      BY <3>1 DEF Cards
    <3>5. \A u \in Users : cache[u] = None \/ cache[u] \in GetMyStateResp
      BY <3>1 DEF AnswersFit, AnswerFits
    <3>6. engine.open \cup engine.releasing \subseteq OpenOrder /\ engine.matches \subseteq BookMatch
          /\ engine.balances \in [Users -> [Tokens -> TokenBalance]]
      BY <3>1 DEF EngineFits, Engine
    <3>7. address \in Users \cup {NoUser} /\ cancelling \subseteq Nat
      BY <3>1 DEF PageShape
    <3> QED
      BY <3>2, <3>3, <3>4, <3>5, <3>6, <3>7 DEF TypeOK
  <2> QED
    BY <2>1
<1> QED
  BY <1>1, TradingInvariance, PTL

\* submit and postDirect: a press is one instruction at most, of what the form
\* showed at that press.
THEOREM OrdersAsShown == Spec => []PlacedAsShown
<1>1. TradingInv => PlacedAsShown
  BY DEF TradingInv, Presses
<1> QED
  BY <1>1, TradingInvariance, PTL

\* The handle of ActionTray and the hooks that drive it: a card that runs has a
\* call under way, and the cards that say "done" are no more than the
\* instructions the TEE has carried out.
THEOREM TrayIsTrue == Spec => []TrayTellsTheTruth
<1>1. TradingInv => TrayTellsTheTruth
  <2>1. ASSUME TradingInv
        PROVE  TrayTellsTheTruth
    <3>1. PageShape /\ Cards /\ Counted
      BY <2>1 DEF TradingInv
    <3>2. ASSUME NEW j \in Range(jobs)
          PROVE  JobWellFormed(j) /\ (CardState(j) = "running" => j.id \in DOMAIN calls)
      <4>1. PICK k \in DOMAIN jobs : j = jobs[k]
        BY DEF Range
      <4>2. j \in Job(2) /\ Follows(j)
        BY <3>1, <4>1 DEF Cards
      <4> QED
        BY <4>2, FollowsWell
    <3>3. jobs \in Seq(Job(2)) /\ instr \in Seq(Instr)
      BY <3>1 DEF Cards, PageShape
    <3>4. IsFiniteSet(DoneCards) /\ IsFiniteSet(DoneInstr)
      BY <3>3, CountsFinite DEF DoneCards, DoneInstr
    <3>5. IsFiniteSet(DoneInstr \ Acts) /\ Cardinality(DoneInstr \ Acts) <= Cardinality(DoneInstr)
      <4>1. DoneInstr \ Acts \subseteq DoneInstr
        OBVIOUS
      <4> QED
        BY <3>4, <4>1, FS_Subset
    <3>6. Cardinality(DoneCards) \in Nat /\ Cardinality(DoneInstr) \in Nat
          /\ Cardinality(DoneInstr \ Acts) \in Nat
      BY <3>4, <3>5, FS_CardinalityType
    <3>7. Cardinality(DoneCards) <= Cardinality(DoneInstr)
      BY <3>1, <3>5, <3>6 DEF Counted
    <3> QED
      BY <3>2, <3>7 DEF TrayTellsTheTruth, DoneCards, DoneInstr
  <2> QED
    BY <2>1
<1> QED
  BY <1>1, TradingInvariance, PTL

\* handleCancel and its finally: the disabled rows are those whose cancel is under
\* way, and only a table mounted anew forgets one.
THEOREM ButtonsFollow == Spec => []ButtonFollowsCancel
<1>1. TradingInv => ButtonFollowsCancel
  <2>1. ASSUME TradingInv
        PROVE  ButtonFollowsCancel
    <3> DEFINE underWay == {calls[j].req.orderId : j \in {i \in DOMAIN calls : ~IsPlace(calls[i].req)}}
    <3>1. PageShape /\ Buttons
      BY <2>1 DEF TradingInv
    <3>2. cancelling \subseteq underWay
      <4>1. ASSUME NEW id \in cancelling
            PROVE  id \in underWay
        <5>1. PICK j \in DOMAIN calls : Mounted(j) /\ OrderOf(j) = id
          BY <3>1 DEF Buttons
        <5> QED
          BY <5>1 DEF Mounted, OrderOf, Places
      <4> QED
        BY <4>1
    <3>3. ASSUME used.mounts = 0
          PROVE  underWay \subseteq cancelling
      <4>1. used.table \in Nat /\ \A j \in DOMAIN calls : calls[j].table \in Nat /\ calls[j].table <= used.table
        BY <3>1, SeqTypes DEF PageShape, Used, CallType, Buttons
      <4>2. used.table = 0 /\ \A j \in DOMAIN calls : calls[j].table = 0
        BY <3>1, <3>3, <4>1 DEF Buttons
      <4>3. ASSUME NEW j \in DOMAIN calls, ~IsPlace(calls[j].req)
            PROVE  calls[j].req.orderId \in cancelling
        <5>1. Mounted(j)
          BY <4>2, <4>3 DEF Mounted, Places
        <5> QED
          BY <3>1, <5>1 DEF Buttons, OrderOf
      <4> QED
        BY <4>3
    <3> QED
      BY <3>2, <3>3 DEF ButtonFollowsCancel
  <2> QED
    BY <2>1
<1> QED
  BY <1>1, TradingInvariance, PTL

\* useMyState, MyFills, OpenOrders and Balances: the rows are the connected user's
\* own, and the amount shown as held covers the open orders shown, also when a
\* cancel ran while the TEE was reading the two.
THEOREM OwnRows == Spec => []FillsAreMine
<1>1. TradingInv => FillsAreMine
  <2>1. ASSUME TradingInv
        PROVE  FillsAreMine
    <3>1. PageShape /\ AnswersFit
      BY <2>1 DEF TradingInv
    <3>2. CASE Shown = None
      <4>1. MyFillsRows = {} /\ ShownOrders = {} /\ BalancesRows = <<>>
        BY <3>2 DEF MyFillsRows, ShownMatches, ShownOrders, BalancesRows
      <4>2. DOMAIN BalancesRows = {}
        BY <4>1
      <4> QED
        BY <4>1, <4>2 DEF FillsAreMine
    <3>3. CASE Shown # None
      <4>1. address \in Users /\ Shown = cache[address]
        BY <3>1, <3>3 DEF Shown, PageShape
      <4>2. AnswerFits(address, Shown)
        BY <3>1, <3>3, <4>1 DEF AnswersFit
      <4>3. ShownOrders = Shown.openOrders /\ ShownMatches = Shown.matches
        BY <3>3 DEF ShownOrders, ShownMatches
      <4>4. ASSUME NEW r \in MyFillsRows
            PROVE  address = IF r.side = "buy" THEN r.match.buyOwner ELSE r.match.sellOwner
        <5>1. PICK m \in ShownMatches : r = [match |-> m, side |-> IF m.buyOwner = address THEN "buy" ELSE "sell"]
          BY DEF MyFillsRows
        <5>2. address \in {m.buyOwner, m.sellOwner}
          BY <4>2, <4>3, <5>1 DEF AnswerFits
        <5>3. r.match = m /\ r.side = IF m.buyOwner = address THEN "buy" ELSE "sell"
          BY <5>1
        <5> QED
          BY <5>2, <5>3
      <4>5. \A o \in ShownOrders : o.owner = address
        BY <4>2, <4>3 DEF AnswerFits
      <4>6. ASSUME NEW t \in DOMAIN BalancesRows
            PROVE  BalancesRows[t].held >= Total([o \in {x \in ShownOrders : SpentToken(x.side) = t} |->
                                                     Cost(o.side, o.price, o.remaining)])
        <5>1. decimals
          BY <4>6 DEF BalancesRows
        <5>2. BalancesRows = [x \in Tokens |-> [available |-> ShownAvailable(x), held |-> Shown.balances[x].held]]
          BY <3>3, <5>1 DEF BalancesRows
        <5>3. t \in Tokens /\ BalancesRows[t].held = Shown.balances[t].held
          BY <4>6, <5>2
        <5>4. Shown.balances[t].held >= Total(Dues(OfToken(Shown.openOrders, t)))
          BY <4>2, <5>3 DEF AnswerFits, Covered
        <5> QED
          BY <4>3, <5>3, <5>4 DEF Dues, OfToken
      <4> QED
        BY <4>4, <4>5, <4>6 DEF FillsAreMine
    <3> QED
      BY <3>2, <3>3
  <2> QED
    BY <2>1
<1> QED
  BY <1>1, TradingInvariance, PTL

\* invalidateQueries: after a success was reported, no answer from before it
\* replaces one that the page has.
THEOREM NoOlderAnswer == Spec => FreshAfterSuccess
<1> DEFINE Fresh == \A u \in Users : address = u /\ cache'[u] # cache[u] /\ cache[u] # None
                                       => cache'[u].version >= floor[u]
<1>1. TradingInv /\ [Next]_trading => [Fresh]_trading
  <2>1. ASSUME TradingInv, Next
        PROVE  Fresh
    <3>1. PageShape /\ AnswersFit
      BY <2>1 DEF TradingInv
    <3>2. CASE \E u \in Users : ApplyAnswer(u)
      <4>1. PICK u \in Users : ApplyAnswer(u)
        BY <3>2
      <4>2. fetch[u].pc = "answered" /\ cache' = [cache EXCEPT ![u] = fetch[u].data]
        BY <4>1 DEF ApplyAnswer
      <4>3. PICK d : /\ fetch[u] = [pc |-> "answered", data |-> d] /\ AnswerFits(u, d)
                     /\ cache[u] = None \/ floor[u] <= d.version
        <5>1. FetchFits(u)
          BY <3>1 DEF AnswersFit
        <5> QED
          BY <4>2, <5>1, FetchIs, Zenon DEF NotOlder
      <4>4. cache = [x \in Users |-> cache[x]] /\ floor[u] \in Nat /\ d.version \in Nat
        BY <3>1, <4>3 DEF AnswersFit, AnswerFits, GetMyStateResp
      <4>5. cache'[u] = d /\ \A x \in Users \ {u} : cache'[x] = cache[x]
        BY <4>2, <4>3, <4>4
      <4> QED
        BY <4>3, <4>4, <4>5
    <3>3. CASE ~\E u \in Users : ApplyAnswer(u)
      <4>1. cache' = cache
        <5>1. EditForm \/ SwitchAction \/ RemountEntry \/ RemountOrders => cache' = cache
          <6>1. EditForm \/ RemountEntry \/ RemountOrders => UNCHANGED query
            BY Zenon DEF EditForm, LoadDecimals, Edit, FillPct, RemountEntry, RemountOrders
          <6>2. SwitchAction => cache' = cache
            BY DEF SwitchAction, SwitchWallet
          <6> QED
            BY <6>1, <6>2 DEF query
        <5>2. Submit \/ CancelAction => UNCHANGED query
          BY Zenon DEF Submit, CancelAction, Cancel
        <5>3. PostAction => UNCHANGED query
          BY Zenon DEF PostAction, Posted
        <5>4. EndAction => cache' = cache
          BY <3>1, EndFrame DEF EndAction
        <5>5. DismissAction => UNCHANGED query
          BY Zenon DEF DismissAction, TimerDismiss, ButtonDismiss, DismissCard
        <5>6. QueryAction => cache' = cache
          BY <3>3, Zenon DEF QueryAction, Refetch, ReadBalances, ReadOrders, QueryFails
        <5>7. TeeAction => UNCHANGED query
          BY <3>1, TeeFrame
        <5> QED
          BY <2>1, <5>1, <5>2, <5>3, <5>4, <5>5, <5>6, <5>7, Kinds DEF query
      <4> QED
        BY <4>1
    <3> QED
      BY <3>2, <3>3
  <2> QED
    BY <2>1
<1> QED
  BY <1>1, TradingInvariance, PTL DEF Spec, FreshAfterSuccess


=============================================================================
