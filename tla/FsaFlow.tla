-------------------------------- MODULE FsaFlow --------------------------------
(***************************************************************************)
(* A call made from a PersonalAccount by an XRPL payment (fsaFlow.ts,      *)
(* fsa.ts): the nonce is read, the payment signed in Xaman, and whoever    *)
(* executes it on Flare consumes the nonce; a payment that finds its nonce *)
(* consumed is parked.  The browser records the payment it has seen signed *)
(* and refuses another until the nonce has passed.  The only call made is  *)
(* the approval of a deposit.                                              *)
(***************************************************************************)
EXTENDS Session

VARIABLES
  mac,      \* MasterAccountController and token: [nonces, approved]
  reqs,     \* sign requests, oldest first: [account, nonce, state, left]
  flow,     \* runFsaFlow: [step, req]
  pending   \* localStorage: the nonce recorded for an account, or NoNonce

fsaVars == <<mac, reqs, flow, pending>>

NoNonce == -1
\* The stages of a flow that the page tells apart: build, sign, then the three that
\* wait for the payment's effect, and how it ended.
FSA_STAGES == {"request", "sign", "wait"}
FlowSteps == FSA_STAGES \cup {"idle", "ok", "failed"}
NoFlow == [step |-> "idle", req |-> 0]

FsaInit ==
  /\ mac = [nonces |-> [a \in Accounts |-> 0], approved |-> {}]
  /\ reqs = <<>> /\ flow = NoFlow
  /\ pending = [a \in Accounts |-> NoNonce]

\* The request of the flow, and its account.
Mine == reqs[flow.req]
Payer == Mine.account

\* Mutant: a recorded payment of the account's next nonce is no reason to wait.
BlockedOnlyAhead(recorded, nonce) == recorded # NoNonce /\ recorded > nonce
\* The guard: a payment recorded for a nonce not yet consumed is still to come.
Blocked(recorded, nonce) == recorded # NoNonce /\ recorded >= nonce

\* getNonce of the MasterAccountController
PersonalAccountNonce(a) == mac.nonces[a]

\* The stage under way is marked as failed and the error passed on.
FlowFails == flow' = [flow EXCEPT !.step = "failed"]

\* Build: nonce, guard; a record that the nonce has passed is dropped.  The
\* preflight and the address of the Core Vault are read before the payment is made.
Build(a) ==
  LET nonce == PersonalAccountNonce(a)
  IN IF Blocked(pending[a], nonce)
     THEN flow' = [step |-> "failed", req |-> 0] /\ UNCHANGED <<reqs, pending>>
     ELSE /\ flow' = [step |-> "request", req |-> Len(reqs) + 1]
          /\ reqs' = Append(reqs, [account |-> a, nonce |-> nonce, state |-> "built", left |-> FALSE])
          /\ pending' = [pending EXCEPT ![a] = NoNonce]

\* createPayload: the sign request is open.
CreatePayload == reqs' = [reqs EXCEPT ![flow.req].state = "open"]

\* The request is shown to the user; a failed preflight or service ends the flow.
OpenRequest ==
  /\ flow.step = "request"
  /\ \/ CreatePayload /\ flow' = [flow EXCEPT !.step = "sign"] /\ UNCHANGED budget
     \/ FlowFails /\ Fault /\ UNCHANGED reqs
  /\ UNCHANGED <<mac, pending>>

\* The user answers a request, also one that the page has given up.
Answer(i) ==
  /\ reqs[i].state = "open"
  /\ \E s \in {"signed", "rejected"} : reqs' = [reqs EXCEPT ![i].state = s]
  /\ UNCHANGED <<budget, mac, flow, pending>>

\* Mutant: the signed payment is not recorded.
RecordNothing(recorded, a, nonce) == recorded
\* setPending
Record(recorded, a, nonce) == [recorded EXCEPT ![a] = nonce]

\* The poll of the payload sees the signature, or the rejection.
SeeAnswer ==
  /\ flow.step = "sign" /\ Mine.state \notin {"open", "rejected"}
  /\ flow' = [flow EXCEPT !.step = "wait"]
  /\ pending' = Record(pending, Payer, Mine.nonce)
  /\ UNCHANGED <<budget, mac, reqs>>
SeeRejection ==
  /\ flow.step = "sign" /\ Mine.state = "rejected"
  /\ FlowFails
  /\ UNCHANGED <<budget, mac, reqs, pending>>
\* The poll gives up on a request that may be signed all the same.
SignTimeout ==
  /\ flow.step = "sign"
  /\ FlowFails /\ reqs' = [reqs EXCEPT ![flow.req].left = TRUE]
  /\ UNCHANGED <<budget, mac, pending>>

\* The chain runs a signed payment whose nonce is current and parks any other.
Execute(i) ==
  LET r == reqs[i]
      current == r.nonce = mac.nonces[r.account]
  IN /\ r.state = "signed"
     /\ reqs' = [reqs EXCEPT ![i].state = IF current THEN "executed" ELSE "parked"]
     /\ mac' = IF current THEN [nonces |-> [mac.nonces EXCEPT ![r.account] = @ + 1],
                                approved |-> mac.approved \cup {r.account}]
                          ELSE mac
     /\ UNCHANGED <<budget, flow, pending>>

\* The XRP Ledger may refuse what was signed.
LedgerRefuses(i) ==
  /\ reqs[i].state = "signed" /\ Fault
  /\ reqs' = [reqs EXCEPT ![i].state = "void"]
  /\ UNCHANGED <<mac, flow, pending>>

\* waitForUserOperationExecuted: the event of this account and nonce, whichever
\* payment caused it.
SeeExecuted ==
  /\ flow.step = "wait" /\ Mine.nonce < mac.nonces[Payer]
  /\ flow' = [flow EXCEPT !.step = "ok"]
  /\ pending' = [pending EXCEPT ![Payer] = NoNonce]
  /\ UNCHANGED <<budget, mac, reqs>>

\* ... or five minutes without it; a failed chunk that the scan passed over hides it.
WaitTimeout ==
  /\ flow.step = "wait"
  /\ FlowFails
  /\ UNCHANGED <<budget, mac, reqs, pending>>

\* A reload ends the flow; its request, and its signature not yet seen, remain.
FsaReload ==
  /\ flow' = NoFlow
  /\ reqs' = IF flow.step = "sign" THEN [reqs EXCEPT ![flow.req].left = TRUE] ELSE reqs
  /\ UNCHANGED <<mac, pending>>

FsaStep ==
  \/ OpenRequest \/ SeeAnswer \/ SeeRejection \/ SignTimeout \/ SeeExecuted \/ WaitTimeout
  \/ \E i \in DOMAIN reqs : Execute(i)
FsaOther == \E i \in DOMAIN reqs : Answer(i) \/ LedgerRefuses(i)

-----------------------------------------------------------------------------
FsaTypeOK ==
  /\ flow.step \in FlowSteps /\ flow.req \in 0..Len(reqs)
  /\ \A i \in DOMAIN reqs :
        /\ reqs[i].state \in {"built", "open", "signed", "rejected", "executed", "parked", "void"}
        /\ reqs[i].nonce <= mac.nonces[reqs[i].account]
  /\ mac.approved \subseteq Accounts
  /\ \A a \in Accounts : pending[a] <= mac.nonces[a]

Rivals(i) == {j \in DOMAIN reqs \ {i} : reqs[j].account = reqs[i].account /\ reqs[j].nonce = reqs[i].nonce
                                         /\ reqs[j].state \in {"signed", "executed", "parked", "void"}}

\* Of two payments signed for one nonce one comes from a request that the page had
\* left, by a reload or a poll that gave up, before it saw the signature; and no
\* payment is parked at the Core Vault for any other reason.
PaymentGuarded ==
  \A i \in DOMAIN reqs :
     /\ (reqs[i].state \in {"signed", "executed"} /\ ~reqs[i].left) => \A j \in Rivals(i) : reqs[j].left
     /\ reqs[i].state = "parked" => \E j \in Rivals(i) : reqs[i].left \/ reqs[j].left
=============================================================================
