-------------------------------- MODULE Session --------------------------------
(***************************************************************************)
(* Who is connected: the wallet picker (WalletConnectFlow.tsx), the Xaman  *)
(* connection (XamanContext.tsx) with its session key (session.ts), and    *)
(* the TEE's store of bindings and nonces (fsa_store.go, fsa_bind_sig.go). *)
(*                                                                         *)
(* A session key is <<account, n>>: n is 0 when the wallet signs the same  *)
(* sign-in the same way every time, and the moment of the login otherwise. *)
(* One browser; a reload, a restart of the TEE, a lost answer and a scan   *)
(* with another wallet than the one that signed in are faults.             *)
(***************************************************************************)
EXTENDS Integers, Sequences, FiniteSets

CONSTANTS Accounts,       \* XRPL accounts, each standing for its PersonalAccount too
          Deterministic,  \* those whose wallet signs reproducibly
          Evm,            \* the address in MetaMask
          MaxOps,         \* bound: things the user starts
          MaxFaults       \* bound: faults

VARIABLES
  ops, faults, \* how many so far
  now,         \* Date.now() at the last nonce or login
  xaman,       \* XamanContext: [account, key]
  evm,         \* wagmi: is MetaMask connected
  conn,        \* connect() under way: [step, account, key, bound, nonce]
  keyStore,    \* localStorage: the session key kept for each account
  fsa,         \* the TEE: [bindings, nonces]
  binds,       \* BIND_SESSION_SIG requests: set of [account, key, nonce, stage]
  past         \* [mixed: some bind was signed by another wallet; restarted: the TEE
               \* has, forgot: since connect began; connected: accounts ever connected]

sessionVars == <<now, xaman, evm, conn, keyStore, fsa, binds, past>>
budget == <<ops, faults>>

Users == Accounts \cup {Evm}
None == "none"

ASSUME SessionAssumption ==
  /\ IsFiniteSet(Accounts) /\ Deterministic \subseteq Accounts
  /\ Evm \notin Accounts /\ None \notin Users
  /\ {MaxOps, MaxFaults} \subseteq Nat

NoKey == <<>>
NoConn == [step |-> "idle", account |-> None, key |-> NoKey, bound |-> NoKey, nonce |-> 0]
NotConnected == [account |-> None, key |-> NoKey]
EmptyStore == [bindings |-> [a \in Accounts |-> NoKey], nonces |-> [a \in Accounts |-> 0]]

Op == ops < MaxOps /\ ops' = ops + 1 /\ UNCHANGED faults
Fault == faults < MaxFaults /\ faults' = faults + 1 /\ UNCHANGED ops

\* useIdentity: the Xaman account wins over MetaMask.
Identity == IF xaman.account # None THEN xaman.account ELSE IF evm THEN Evm ELSE None

-----------------------------------------------------------------------------
(* session.ts                                                              *)

\* deriveSessionPriv: a hash of the signed sign-in.
Derived(a, time) == <<a, IF a \in Deterministic THEN 0 ELSE time>>

\* loadSession, persistSession and clearSession: one entry per account.
LoadSession(a) == keyStore[a]
PersistSession(a, key) == keyStore' = [keyStore EXCEPT ![a] = key]

\* Mutant: the derived key is preferred to the stored one.
ResolvePreferringDerived(stored, derived, bound) == [key |-> derived, store |-> derived]
\* Mutant: a match of the stored key drops the backup too.
ResolveDroppingBackup(stored, derived, bound) ==
  IF bound # NoKey /\ bound \in {derived, stored}
  THEN [key |-> bound, store |-> NoKey]
  ELSE LET key == IF stored # NoKey THEN stored ELSE derived IN [key |-> key, store |-> key]
\* resolveSession: the derived key when the TEE knows it, and then no backup;
\* else the stored key, bound or not; else the derived key, stored.
ResolveSession(stored, derived, bound) ==
  IF bound # NoKey /\ derived = bound THEN [key |-> derived, store |-> NoKey]
  ELSE LET key == IF stored # NoKey THEN stored ELSE derived IN [key |-> key, store |-> key]

-----------------------------------------------------------------------------
SessionInit ==
  /\ ops = 0 /\ faults = 0 /\ now = 1 /\ evm = FALSE
  /\ conn = NoConn /\ binds = {}
  /\ \/ xaman = NotConnected /\ fsa = EmptyStore /\ keyStore = [a \in Accounts |-> NoKey]
     \/ \E a \in Accounts :   \* after a first connect of the account
          LET key == Derived(a, 1)
          IN /\ xaman = [account |-> a, key |-> key]
             /\ fsa = [bindings |-> [EmptyStore.bindings EXCEPT ![a] = key],
                       nonces |-> [EmptyStore.nonces EXCEPT ![a] = 1]]
             /\ keyStore = [b \in Accounts |-> IF b = a THEN key ELSE NoKey]
  /\ past = [mixed |-> FALSE, restarted |-> FALSE, forgot |-> FALSE,
              connected |-> IF xaman = NotConnected THEN {} ELSE {xaman.account}]

\* select: a click on the connected wallet disconnects it; another click drops
\* what is connected first.  The picker does not open while connecting.
DisconnectXaman ==
  /\ Op /\ conn.step = "idle" /\ xaman # NotConnected
  /\ xaman' = NotConnected
  /\ UNCHANGED <<now, evm, conn, keyStore, fsa, binds, past>>

SelectXaman ==
  /\ Op /\ conn.step = "idle" /\ xaman = NotConnected
  /\ evm' = FALSE
  /\ conn' = [NoConn EXCEPT !.step = "signin"]
  /\ past' = [past EXCEPT !.forgot = FALSE]
  /\ UNCHANGED <<now, xaman, keyStore, fsa, binds>>

SelectEvm ==
  /\ Op /\ conn.step = "idle"
  /\ evm' = ~evm
  /\ xaman' = IF evm THEN xaman ELSE NotConnected
  /\ UNCHANGED <<now, conn, keyStore, fsa, binds, past>>

\* GET_BINDING
CheckBinding(a) == fsa.bindings[a]

\* connect, step 1: the sign-in comes back with the account and the signed blob.
SignIn(a) ==
  /\ conn.step = "signin" /\ now' = now + 1
  /\ conn' = [conn EXCEPT !.step = "lookup", !.account = a, !.key = Derived(a, now + 1)]
  /\ UNCHANGED <<budget, xaman, evm, keyStore, fsa, binds, past>>

\* step 3: GET_BINDING; a lookup that fails counts as no binding.
Lookup ==
  /\ conn.step = "lookup"
  /\ \/ conn' = [conn EXCEPT !.step = "resolve", !.bound = CheckBinding(conn.account)] /\ UNCHANGED budget
     \/ conn' = [conn EXCEPT !.step = "resolve"] /\ Fault
  /\ UNCHANGED <<now, xaman, evm, keyStore, fsa, binds, past>>

Connected(c) == [account |-> c.account, key |-> c.key]
Remember(c) == [past EXCEPT !.connected = @ \cup {c.account}]

Resolve ==
  LET r == ResolveSession(LoadSession(conn.account), conn.key, conn.bound)
      c == [conn EXCEPT !.key = r.key]
  IN /\ conn.step = "resolve"
     /\ PersistSession(conn.account, r.store)
     /\ IF conn.bound = r.key
        THEN conn' = NoConn /\ xaman' = Connected(c) /\ past' = Remember(c) /\ UNCHANGED now
        ELSE /\ conn' = [c EXCEPT !.step = "bind", !.nonce = now + 1] /\ now' = now + 1
             /\ UNCHANGED <<xaman, past>>
     /\ UNCHANGED <<budget, evm, fsa, binds>>

\* bindSessionKeySig: the statement is signed and sent.  Nothing checks that the
\* wallet that signs it is the one that signed in.
SignBind(b) ==
  /\ conn.step = "bind"
  /\ conn' = [conn EXCEPT !.step = "answer"]
  /\ binds' = binds \cup {[account |-> b, key |-> conn.key, nonce |-> conn.nonce, stage |-> "sent"]}
  /\ IF b = conn.account THEN UNCHANGED <<budget, past>>
                         ELSE Fault /\ past' = [past EXCEPT !.mixed = TRUE]
  /\ UNCHANGED <<now, xaman, evm, keyStore, fsa>>

\* The answer of the TEE reaches the page.
BindAnswer(m) ==
  /\ conn.step = "answer" /\ m.nonce = conn.nonce /\ m.stage \in {"bound", "refused"}
  /\ conn' = NoConn /\ binds' = binds \ {m}
  /\ IF m.stage = "bound" THEN xaman' = Connected(conn) /\ past' = Remember(conn)
                          ELSE UNCHANGED <<xaman, past>>
  /\ UNCHANGED <<budget, now, evm, keyStore, fsa>>

\* A rejected or unanswered scan, or a poll that gives up, ends connect.
ConnectFails ==
  /\ conn.step \in {"signin", "bind", "answer"}
  /\ conn' = NoConn
  /\ UNCHANGED <<budget, now, xaman, evm, keyStore, fsa, binds, past>>

-----------------------------------------------------------------------------
(* The TEE.                                                                *)

\* Mutant: equal nonces pass.
AdvancesOnEqual(nonces, a, nonce) == nonce >= nonces[a]
\* CheckAndAdvanceNonce
Advances(nonces, a, nonce) == nonce > nonces[a]

Staged(m, stage) == (binds \ {m}) \cup {[m EXCEPT !.stage = stage]}

\* processBindSessionSig: the nonce is advanced in one critical section ...
BindAdvance(m) ==
  /\ m.stage = "sent"
  /\ IF Advances(fsa.nonces, m.account, m.nonce)
     THEN fsa' = [fsa EXCEPT !.nonces[m.account] = m.nonce] /\ binds' = Staged(m, "advanced")
     ELSE binds' = Staged(m, "refused") /\ UNCHANGED fsa
  /\ UNCHANGED <<budget, now, xaman, evm, conn, keyStore, past>>

\* ... and the binding set in another.
BindSet(m) ==
  /\ m.stage = "advanced"
  /\ fsa' = [fsa EXCEPT !.bindings[m.account] = m.key] /\ binds' = Staged(m, "bound")
  /\ UNCHANGED <<budget, now, xaman, evm, conn, keyStore, past>>

\* Both maps live in memory only; a bind being handled is lost.
SessionTeeRestart ==
  /\ fsa' = EmptyStore
  /\ binds' = {IF m.stage = "advanced" THEN [m EXCEPT !.stage = "refused"] ELSE m : m \in binds}
  /\ past' = [past EXCEPT !.restarted = TRUE, !.forgot = TRUE]
  /\ UNCHANGED <<now, xaman, evm, conn, keyStore>>

\* The app always starts disconnected; localStorage stays.
SessionReload ==
  /\ xaman' = NotConnected /\ evm' = FALSE /\ conn' = NoConn
  /\ UNCHANGED <<now, keyStore, fsa, binds, past>>

\* What needs no user: a human who does not answer is timed out.
SessionStep ==
  \/ Lookup \/ Resolve \/ ConnectFails
  \/ \E m \in binds : BindAnswer(m) \/ BindAdvance(m) \/ BindSet(m)

SessionUser == DisconnectXaman \/ SelectXaman \/ SelectEvm
SessionScan == \E a \in Accounts : SignIn(a) \/ SignBind(a)

-----------------------------------------------------------------------------
Keys == Accounts \X Nat

SessionTypeOK ==
  /\ ops \in 0..MaxOps /\ faults \in 0..MaxFaults /\ now \in Nat /\ evm \in BOOLEAN
  /\ xaman.account \in Accounts \cup {None} /\ xaman.key \in Keys \cup {NoKey}
  /\ conn.step \in {"idle", "signin", "lookup", "resolve", "bind", "answer"}
  /\ \A a \in Accounts : {keyStore[a], fsa.bindings[a]} \subseteq Keys \cup {NoKey}
  /\ \A m \in binds : m.stage \in {"sent", "advanced", "refused", "bound"} /\ m.nonce <= now

\* A connected Xaman account signs with the key the TEE has bound to it, whatever
\* older binds are still on their way, as long as the TEE has not restarted since
\* and every scan was made with the wallet that signed in.
ConnectedIsBound ==
  (xaman.account # None /\ ~past.mixed /\ ~past.forgot) => fsa.bindings[xaman.account] = xaman.key

\* The key that the TEE has bound to an account can be had again at the next
\* login: it is stored, or the wallet signs reproducibly and it is the derived one.
KeyKept ==
  ~past.mixed =>
  \A a \in Accounts : fsa.bindings[a] # NoKey =>
     \/ keyStore[a] = fsa.bindings[a]
     \/ a \in Deterministic /\ fsa.bindings[a] = Derived(a, 0)
=============================================================================
