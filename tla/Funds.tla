--------------------------------- MODULE Funds ---------------------------------
(***************************************************************************)
(* Money in and out of the exchange: the faucet, deposit and withdraw tabs *)
(* of WalletModal.tsx with the hooks behind them (useXamanOps.ts for a     *)
(* PersonalAccount, useFaucet/useDeposit/useWithdraw.ts for MetaMask), the *)
(* relay of xaman-service, the InstructionSender contract and the TEE's    *)
(* deposits and withdrawals.  One token is followed.  The contract moves   *)
(* any uint256, the TEE counts in uint64 and the page reads a slip with    *)
(* JavaScript's Number: an amount is cut to Word at the TEE, and one out of *)
(* Exact is not the amount signed.  A wallet always has what it deposits   *)
(* (the faucet is free).                                                   *)
(***************************************************************************)
EXTENDS FsaFlow, ActionTray, UnitSum

CONSTANTS Tokens,   \* how many tokens the faucet mints
          Word,     \* how many numbers a uint64 holds
          Amounts,  \* what a user may move at once: uint256
          Exact,    \* the amounts that a Number holds exactly
          Balance   \* user |-> initial balance at the TEE

ASSUME FundsAssumption ==
  /\ {Tokens, Word} \subseteq Nat \ {0} /\ Amounts \subseteq Nat \ {0} /\ Exact \subseteq Nat
  /\ Balance \in [Users -> 0..(Word - 1)]

VARIABLES
  ledger,  \* the TEE's available balances, on disk
  vault,   \* InstructionSender: [tokens, used], used the withdrawalIds executed;
           \* and missing, history: what the TEE should have in its ledger and has not
  credits, \* DEPOSIT instructions, oldest first: [user, amount, done]
  slips,   \* withdrawal requests, oldest first: [user, key, nonce, amount, stage];
           \* once signed, one is the slip whose withdrawalId is its index
  saved,   \* where the page keeps slips: [ref: pendingSlip, disk: localStorage,
           \* cached: cachedSignature]
  got,     \* the slips that have reached the page
  calls,   \* calls of the contract that the relay or MetaMask has been given: set
           \* of [what, user, id, amount, at]
  dep, wd, retry, \* operations under way: [step, user, id, amount, at], at their number
  faucet   \* handleFaucet: [i: the token being minted, relay: for a PersonalAccount,
           \* minted: on chain, failed, job]

teeVars == <<ledger, credits, slips>>
opVars == <<dep, wd, retry>>
fundsVars == <<teeVars, opVars, vault, saved, got, calls, faucet>>

NoSlip == 0
NoOp == [step |-> "idle", user |-> None, id |-> NoSlip, amount |-> 0, at |-> 0]
Begin(step, id, amount) == [step |-> step, user |-> Identity, id |-> id, amount |-> amount, at |-> ops + 1]

FundsInit ==
  /\ ledger = Balance
  /\ vault = [tokens |-> Total(Balance), used |-> {}, missing |-> 0]
  /\ credits = <<>> /\ slips = <<>> /\ got = {} /\ calls = {}
  /\ saved = [ref |-> NoSlip, disk |-> [a \in Accounts |-> NoSlip], cached |-> NoSlip]
  /\ dep = NoOp /\ wd = NoOp /\ retry = NoOp
  /\ faucet = [i |-> 0, relay |-> FALSE, minted |-> {}, failed |-> {}, job |-> Finish(NewJob(1, Tokens))]

Call(what, op) ==
  calls' = calls \cup {[what |-> what, user |-> op.user, id |-> op.id, amount |-> op.amount, at |-> op.at]}

\* decodeDepositMessage and decodeWithdrawMessage: big.Int's Uint64.
Truncated(x) == x % Word
\* Manager.Deposit: the uint64 sum.
Plus(balance, x) == (balance + x) % Word
\* What the TEE debits and signs for a request.
Due(slip) == Truncated(slip.amount)

-----------------------------------------------------------------------------
(* WalletModal: what its three tabs offer.                                 *)

CanMint == Identity # None /\ faucet.i = 0
CanDeposit == Identity # None /\ dep.step = "idle"
CanWithdraw == Identity # None /\ wd.step = "idle"
\* RETRY shows the slip in memory, unless a withdrawal is under way.
Retriable == IF Identity = Evm THEN saved.cached ELSE saved.ref
CanRetry == Identity # None /\ wd.step = "idle" /\ retry.step = "idle" /\ Retriable # NoSlip

-----------------------------------------------------------------------------
(* handleFaucet                                                            *)

StartFaucet ==
  /\ Op /\ CanMint
  /\ faucet' = [i |-> 1, relay |-> Identity # Evm, minted |-> {}, failed |-> {}, job |-> NewJob(1, Tokens)]
  /\ UNCHANGED <<sessionVars, fsaVars, teeVars, opVars, vault, saved, got, calls>>

\* What became of a mint: a "lost" one is mined, but nobody hears of it.
Outcomes == {"minted", "reverted", "refused", "lost"}

\* /relay/mint answers with the transaction when its receipt is of a success; ...
RelayMints(outcome) == outcome = "minted"
\* ... useXamanFaucet mints for the account connected by now, and throws without one.
XamanMints(outcome) == xaman.account # None /\ RelayMints(outcome)
\* useFaucet waits for the receipt and does not look at its status.
EvmMints(outcome) == evm /\ outcome \in {"minted", "reverted"}

\* The mint of one token; a failure does not stop the others.
Mint(outcome) ==
  LET able == IF faucet.relay THEN xaman.account # None ELSE evm
      ok == IF faucet.relay THEN XamanMints(outcome) ELSE EvmMints(outcome)
      failed == IF ok THEN faucet.failed ELSE faucet.failed \cup {faucet.i}
      job == IF ok THEN faucet.job ELSE FailStep(faucet.job)
  IN /\ faucet.i # 0
     /\ faucet' = [faucet EXCEPT !.failed = failed,
                   !.minted = IF able /\ outcome \in {"minted", "lost"} THEN @ \cup {faucet.i} ELSE @,
                   !.i = IF faucet.i < Tokens THEN faucet.i + 1 ELSE 0,
                   !.job = IF faucet.i < Tokens THEN Advance(job)
                           ELSE IF Cardinality(failed) = Tokens THEN Fail(job) ELSE Finish(job)]
     /\ UNCHANGED <<sessionVars, budget, fsaVars, teeVars, opVars, vault, saved, got, calls>>

-----------------------------------------------------------------------------
(* Deposits.                                                               *)

\* A PersonalAccount with a standing approval goes straight to the relay.
StartDeposit ==
  /\ Op /\ CanDeposit
  /\ \E x \in Amounts :
       IF Identity \in mac.approved
       THEN dep' = Begin("carry", NoSlip, x) /\ Call("deposit", dep')
       ELSE dep' = Begin("approve", NoSlip, x) /\ UNCHANGED calls
  /\ UNCHANGED <<sessionVars, fsaVars, teeVars, vault, saved, got, wd, retry, faucet>>

\* The approval: an XRP payment, or a transaction confirmed in MetaMask.
AskApproval ==
  /\ dep.step = "approve" /\ dep.user # Evm
  /\ Build(dep.user) /\ dep' = [dep EXCEPT !.step = "flow"]
  /\ UNCHANGED <<sessionVars, budget, mac, teeVars, vault, saved, got, calls, wd, retry, faucet>>
FlowEnds ==
  /\ dep.step = "flow" /\ flow.step \in {"ok", "failed"}
  /\ flow' = NoFlow
  /\ IF flow.step = "ok" THEN dep' = [dep EXCEPT !.step = "carry"] /\ Call("deposit", dep)
                         ELSE dep' = NoOp /\ UNCHANGED calls
  /\ UNCHANGED <<sessionVars, budget, mac, reqs, pending, teeVars, vault, saved, got, wd, retry, faucet>>
\* The allowlist may refuse the wallet, its user the transaction.
EvmApproves ==
  /\ dep.step = "approve" /\ dep.user = Evm
  /\ \/ dep' = [dep EXCEPT !.step = "carry"] /\ Call("deposit", dep)
     \/ dep' = NoOp /\ UNCHANGED calls
  /\ UNCHANGED <<sessionVars, budget, fsaVars, teeVars, vault, saved, got, wd, retry, faucet>>

\* The poll for the TEE's result sees it, or gives up while it is still to come.
DepositConfirmed ==
  /\ dep.step = "poll" /\ credits[dep.id].done
  /\ dep' = NoOp
  /\ UNCHANGED <<sessionVars, budget, fsaVars, teeVars, vault, saved, got, calls, wd, retry, faucet>>
DepositGivesUp ==
  /\ dep.step = "poll" /\ ~credits[dep.id].done
  /\ dep' = NoOp
  /\ UNCHANGED <<sessionVars, budget, fsaVars, teeVars, vault, saved, got, calls, wd, retry, faucet>>

-----------------------------------------------------------------------------
(* Withdrawals.                                                            *)

Requested(user, key, nonce, amount) ==
  Append(slips, [user |-> user, key |-> key, nonce |-> nonce, amount |-> amount, stage |-> "sent"])

\* handleWithdraw: the session key signs a WITHDRAW_REQUEST, or MetaMask is asked.
StartWithdraw ==
  /\ Op /\ CanWithdraw
  /\ \E x \in Amounts :
       IF Identity = Evm
       THEN wd' = Begin("confirm", NoSlip, x) /\ UNCHANGED <<now, slips>>
       ELSE /\ wd' = Begin("request", Len(slips) + 1, x)
            /\ now' = now + 1 /\ slips' = Requested(Identity, xaman.key, now + 1, x)
  /\ UNCHANGED <<xaman, evm, conn, keyStore, fsa, binds, past, fsaVars>>
  /\ UNCHANGED <<ledger, credits, vault, saved, got, calls, dep, retry, faucet>>

\* The withdraw transaction is mined.
EvmConfirms ==
  /\ wd.step = "confirm"
  /\ wd' = [wd EXCEPT !.step = "request", !.id = Len(slips) + 1]
  /\ slips' = Requested(Evm, NoKey, 0, wd.amount)
  /\ UNCHANGED <<sessionVars, budget, fsaVars, ledger, credits, vault, saved, got, calls, dep, retry, faucet>>

\* The slip arrives: a PersonalAccount's is stored before the relay is called.
ReceiveSlip ==
  /\ wd.step = "request" /\ slips[wd.id].stage = "signed"
  /\ wd' = [wd EXCEPT !.step = "carry"] /\ Call("execute", wd)
  /\ got' = got \cup {wd.id}
  /\ saved' = IF wd.user = Evm THEN saved ELSE [saved EXCEPT !.ref = wd.id, !.disk[wd.user] = wd.id]
  /\ UNCHANGED <<sessionVars, budget, fsaVars, teeVars, vault, dep, retry, faucet>>

\* Mutant: the poll waits for an answer for ever.
PollEndsOnAnswer(stage) == stage = "refused"
\* The poll ends without a slip: the TEE refused, or its attempts are used up.
PollEnds(stage) == TRUE
WithdrawFails ==
  /\ \/ wd.step = "confirm"
     \/ wd.step = "request" /\ PollEnds(slips[wd.id].stage)
  /\ wd' = NoOp
  /\ UNCHANGED <<sessionVars, budget, fsaVars, teeVars, vault, saved, got, calls, dep, retry, faucet>>

\* handleRetryExecute
StartRetry ==
  /\ Op /\ CanRetry
  /\ retry' = Begin("carry", Retriable, 0) /\ Call("execute", retry')
  /\ UNCHANGED <<sessionVars, fsaVars, teeVars, vault, saved, got, dep, wd, faucet>>

\* Mutant: the slip is forgotten whatever came of it.
AfterAnyExecute(s, user, id, outcome) ==
  IF user = Evm THEN [s EXCEPT !.cached = NoSlip] ELSE [s EXCEPT !.ref = NoSlip, !.disk[user] = NoSlip]
\* execute, after the call: the account of the closure forgets its slip when it was
\* paid; MetaMask's is remembered when the call was refused or reverted.
AfterExecute(s, user, id, outcome) ==
  CASE outcome = "paid" /\ user # Evm -> [s EXCEPT !.ref = NoSlip, !.disk[user] = NoSlip]
    [] outcome = "paid" /\ user = Evm -> [s EXCEPT !.cached = NoSlip]
    [] outcome = "failed" /\ user = Evm -> [s EXCEPT !.cached = id]
    [] OTHER -> s

-----------------------------------------------------------------------------
(* The relay, MetaMask and the contract.                                   *)

\* The page passes on the amount that the TEE signed.
Legible(slip) == Due(slip) \in Exact
Payable(id) == id \notin vault.used /\ Legible(slips[id])

\* Mutant: used ids are not looked up.
PayOutTwice(v, id, x) == [v EXCEPT !.tokens = @ - x, !.used = @ \cup {id}]
\* executeWithdrawal: every withdrawalId pays once.
PayOut(v, id, x) == IF id \in v.used THEN v ELSE [v EXCEPT !.tokens = @ - x, !.used = @ \cup {id}]

\* The call takes effect on chain ...
Effect(c) ==
  IF c.what = "deposit"
  THEN vault' = [vault EXCEPT !.tokens = @ + c.amount]
       /\ credits' = Append(credits, [user |-> c.user, amount |-> c.amount, done |-> FALSE])
  ELSE vault' = (IF Legible(slips[c.id]) THEN PayOut(vault, c.id, Due(slips[c.id])) ELSE vault)
       /\ UNCHANGED credits

\* ... and the operation that made it, if it is still there, is told the outcome.
Tell(c, outcome) ==
  LET waiting == {op \in {dep, wd, retry} : op.step = "carry" /\ op.at = c.at}
  IN /\ calls' = calls \ {c}
     /\ dep' = IF dep \notin waiting THEN dep
               ELSE IF outcome = "paid" THEN [dep EXCEPT !.step = "poll", !.id = Len(credits')] ELSE NoOp
     /\ wd' = IF wd \in waiting THEN NoOp ELSE wd
     /\ retry' = IF retry \in waiting THEN NoOp ELSE retry
     /\ saved' = IF {wd, retry} \cap waiting = {} THEN saved
                 ELSE AfterExecute(saved, c.user, c.id, outcome)
     /\ UNCHANGED <<sessionVars, fsaVars, ledger, slips, got, faucet>>

\* Carried out, unless the contract reverts: the id is used or the signature is of
\* another amount ...
Carry(c) ==
  /\ Effect(c)
  /\ Tell(c, IF c.what = "execute" /\ ~Payable(c.id) THEN "failed" ELSE "paid")
  /\ UNCHANGED budget
\* ... carried out, and the answer of the relay or the receipt lost ...
AnswerLost(c) == Fault /\ Effect(c) /\ Tell(c, "lost")
\* ... or not sent: the relay fails, or MetaMask's user refuses.
NotCarried(c) ==
  /\ IF c.user = Evm THEN UNCHANGED budget ELSE Fault
  /\ UNCHANGED <<vault, credits>>
  /\ Tell(c, "failed")

-----------------------------------------------------------------------------
(* The TEE.                                                                *)

SlipTo(i, stage) == slips' = [slips EXCEPT ![i].stage = stage]

\* Manager.Deposit, and what the user should have got and has not.
Deposit(user, x, should) ==
  /\ ledger' = [ledger EXCEPT ![user] = Plus(@, x)]
  /\ vault' = [vault EXCEPT !.missing = @ + (ledger[user] + should - ledger'[user])]

\* A deposit that is cut to nothing is refused.
Credit(i) ==
  /\ ~credits[i].done
  /\ credits' = [credits EXCEPT ![i].done = TRUE]
  /\ Deposit(credits[i].user, Truncated(credits[i].amount), credits[i].amount)
  /\ UNCHANGED <<sessionVars, budget, fsaVars, slips, opVars, saved, got, calls, faucet>>

\* A signed request that was taken up is delivered again, by the proxy or by
\* whoever carried it.
Redelivered(i) ==
  /\ Fault /\ slips[i].user # Evm /\ slips[i].stage \notin {"sent", "refused"}
  /\ slips' = Append(slips, [slips[i] EXCEPT !.stage = "sent"])
  /\ UNCHANGED <<sessionVars, fsaVars, ledger, credits, opVars, vault, saved, got, calls, faucet>>

\* processWithdrawRequest: the amount must be a uint64 and the one signed, the page
\* having sent it as a Number; the binding is read, ...
Authorize(i) ==
  /\ slips[i].stage = "sent" /\ slips[i].user # Evm
  /\ SlipTo(i, IF slips[i].amount \in Exact \cap 0..(Word - 1) /\ slips[i].key = fsa.bindings[slips[i].user]
               THEN "authorized" ELSE "refused")
  /\ UNCHANGED <<sessionVars, budget, fsaVars, ledger, credits, opVars, vault, saved, got, calls, faucet>>
\* ... then the nonce is advanced, ...
UseNonce(i) ==
  LET user == slips[i].user
      nonce == slips[i].nonce
  IN /\ slips[i].stage = "authorized"
     /\ IF Advances(fsa.nonces, user, nonce)
        THEN fsa' = [fsa EXCEPT !.nonces[user] = nonce] /\ SlipTo(i, "advanced")
        ELSE SlipTo(i, "refused") /\ UNCHANGED fsa
     /\ UNCHANGED <<now, xaman, evm, conn, keyStore, binds, past, budget, fsaVars>>
     /\ UNCHANGED <<ledger, credits, opVars, vault, saved, got, calls, faucet>>
\* Mutant: the balance is not looked at.
CoversAnything(balance, x) == TRUE
Covers(balance, x) == x > 0 /\ balance >= x
\* ... then, as for an on-chain WITHDRAW, the balance debited, ...
Debit(i) ==
  LET user == slips[i].user
  IN /\ slips[i].stage = IF user = Evm THEN "sent" ELSE "advanced"
     /\ IF Covers(ledger[user], Due(slips[i]))
        THEN ledger' = [ledger EXCEPT ![user] = @ - Due(slips[i])] /\ SlipTo(i, "debited")
        ELSE SlipTo(i, "refused") /\ UNCHANGED ledger
     /\ UNCHANGED <<sessionVars, budget, fsaVars, credits, opVars, vault, saved, got, calls, faucet>>
\* ... and the slip signed, or the debit taken back.
Sign(i) ==
  /\ slips[i].stage = "debited"
  /\ \/ SlipTo(i, "signed") /\ UNCHANGED <<budget, ledger, vault>>
     \/ Fault /\ SlipTo(i, "refused") /\ Deposit(slips[i].user, Due(slips[i]), Due(slips[i]))
  /\ UNCHANGED <<sessionVars, fsaVars, credits, opVars, saved, got, calls, faucet>>

\* A restart in the middle of a request leaves it without an answer, and a debit
\* that was taken without a slip.  With a readable snapshot the ledger is as it was,
\* without one it is empty; one left behind by a failed write is BalanceStore's.
FundsTeeRestart ==
  /\ slips' = [i \in DOMAIN slips |->
       LET s == slips[i]
       IN [s EXCEPT !.stage = CASE @ \in {"authorized", "advanced"} -> "refused"
                                [] @ = "debited" -> "lost" [] OTHER -> @]]
  /\ \/ UNCHANGED <<ledger, vault>>
     \/ ledger' = [u \in Users |-> 0] /\ vault' = [vault EXCEPT !.missing = @ + Total(ledger)]
  /\ UNCHANGED <<credits, opVars, saved, got, calls, faucet>>

\* The page starts afresh; what was sent is on its way.
FundsReload ==
  /\ dep' = NoOp /\ wd' = NoOp /\ retry' = NoOp /\ faucet' = [faucet EXCEPT !.i = 0]
  /\ saved' = [saved EXCEPT !.ref = NoSlip, !.cached = NoSlip]
  /\ UNCHANGED <<teeVars, vault, got, calls>>

FundsOther == \E i \in DOMAIN slips : Redelivered(i)
FundsUser == StartFaucet \/ StartDeposit \/ StartWithdraw \/ StartRetry
FundsStep ==
  \/ \E outcome \in Outcomes : Mint(outcome)
  \/ AskApproval \/ FlowEnds \/ EvmApproves \/ DepositConfirmed \/ DepositGivesUp
  \/ EvmConfirms \/ ReceiveSlip \/ WithdrawFails
  \/ \E c \in calls : Carry(c) \/ AnswerLost(c) \/ NotCarried(c)
  \/ \E i \in DOMAIN credits : Credit(i)
  \/ \E i \in DOMAIN slips : Authorize(i) \/ UseNonce(i) \/ Debit(i) \/ Sign(i)

-----------------------------------------------------------------------------
FundsTypeOK ==
  /\ \A u \in Users : ledger[u] \in 0..(Word - 1)
  /\ {vault.tokens, vault.missing} \subseteq Nat /\ vault.used \subseteq DOMAIN slips /\ got \subseteq DOMAIN slips
  /\ \A i \in DOMAIN slips :
       slips[i].stage \in {"sent", "authorized", "advanced", "debited", "signed", "refused", "lost"}
  /\ {dep.step, wd.step, retry.step} \subseteq {"idle", "approve", "flow", "confirm", "request", "carry", "poll"}
  /\ JobWellFormed(faucet.job)

Waiting(i) == IF credits[i].done THEN 0 ELSE credits[i].amount
Unpaid(i) == IF i \notin vault.used /\ slips[i].stage \in {"debited", "signed", "lost"} THEN Due(slips[i]) ELSE 0

\* What the users have at the TEE, what it has yet to credit to them, and what it has
\* debited for a slip that has not been executed (one that was lost included).
Owed == Total(ledger) + Total([i \in DOMAIN credits |-> Waiting(i)]) + Total([i \in DOMAIN slips |-> Unpaid(i)])

\* The vault holds what the exchange owes and, besides, exactly what the TEE failed to
\* enter or forgot - a deposit above uint64 cut, a balance that wrapped around, a
\* ledger started empty: so it can always pay, and without such a loss it holds
\* just what it owes, whatever was retried, lost on the way back or restarted.
Backed == vault.tokens = Owed + vault.missing

\* A slip that reached the page of a PersonalAccount and has not been paid can be
\* executed after a reload: it is in localStorage, as long as it is the account's
\* only slip and no other account has used this browser.
SlipKept ==
  \A i \in got :
     LET u == slips[i].user
     IN (u # Evm /\ i \notin vault.used /\ (\A j \in got \ {i} : slips[j].user # u)
           /\ Cardinality(past.connected) <= 1) => saved.disk[u] = i

\* A request signed once is debited once, however often it is delivered and in
\* whatever order with others and with binds, while the TEE keeps its nonces.
DebitedOnce ==
  ~past.restarted =>
  \A i, j \in DOMAIN slips :
     (i # j /\ slips[i].user # Evm /\ slips[i].user = slips[j].user /\ slips[i].nonce = slips[j].nonce)
       => "refused" \in {slips[i].stage, slips[j].stage} \/ {slips[i].stage, slips[j].stage} \cap {"sent", "authorized"} # {}

\* The card of the faucet shows as failed just the mints that failed, is failed
\* when all were and a partial success when some were; and what the card of a
\* PersonalAccount shows as done was minted, also when the account was disconnected
\* or changed half-way.
FaucetCardTrue ==
  LET card == CardState(faucet.job)
  IN /\ {i \in 1..Tokens : faucet.job.steps[i] = "failed"} = faucet.failed
     /\ card = "failed" <=> Cardinality(faucet.failed) = Tokens /\ faucet.job.completed
     /\ card = "partial" => faucet.failed # {}
     /\ faucet.relay => {i \in 1..Tokens : faucet.job.steps[i] = "done"} \subseteq faucet.minted
=============================================================================
