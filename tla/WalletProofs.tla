------------------------------ MODULE WalletProofs ------------------------------
(***************************************************************************)
(* Proofs about the wallet side: every invariant that the module Wallet    *)
(* states holds for any accounts, wallets, balances, number of tokens and  *)
(* bounds.  Each part has an inductive invariant of its own:               *)
(*   SessionInv  one key per account; a bind's nonce is behind the clock;  *)
(*   SlipsInv    a slip debited has had its nonce taken;                   *)
(*   PaymentInv  a signed payment that the page saw is recorded until its  *)
(*               nonce has passed;                                         *)
(*   OpsInv      operations, calls and slips belong to known users, and    *)
(*               every slip that the page or the contract has is signed;   *)
(*   SlipKept, Backed, FaucetFits (the card follows the mints).            *)
(* They lean on one another in this order: what the TEE debits needs the   *)
(* session's shape, what an operation does needs the slips, and what the   *)
(* vault owes needs all three.                                             *)
(***************************************************************************)
EXTENDS Wallet, TableProofs

-----------------------------------------------------------------------------
(* The session: who is connected, and with which key.                      *)

MaybeKey == Keys \cup {NoKey}
ConnSteps == {"idle", "signin", "lookup", "resolve", "bind", "answer"}
BindStages == {"sent", "advanced", "refused", "bound"}

\* What a connection under way, a bind and the rest of the session's state are.
Conn == [step : ConnSteps, account : Accounts \cup {None}, key : MaybeKey,
         bound : MaybeKey, nonce : Nat]
Bind == [account : Accounts, key : MaybeKey, nonce : Nat, stage : BindStages]

SessionShape ==
  /\ now \in Nat /\ evm \in BOOLEAN
  /\ xaman \in [account : Accounts \cup {None}, key : MaybeKey]
  /\ conn \in Conn
  /\ conn.step \in {"lookup", "resolve", "bind", "answer"} => conn.account \in Accounts
  /\ keyStore \in [Accounts -> MaybeKey]
  /\ fsa \in [bindings : [Accounts -> MaybeKey], nonces : [Accounts -> Nat]]
  /\ binds \subseteq Bind
  /\ past \in [mixed : BOOLEAN, restarted : BOOLEAN, forgot : BOOLEAN,
               connected : SUBSET Accounts]
  /\ xaman.account # None => xaman.account \in past.connected

\* The clock is ahead of every nonce and of every key; the nonce of a bind about
\* to be signed is ahead of every bind's.
Clocked ==
  /\ \A m \in binds : m.nonce <= now
  /\ conn.nonce <= now
  /\ \A a \in Accounts : keyStore[a] # NoKey => keyStore[a][2] <= now
  /\ conn.step = "bind" => \A m \in binds : m.nonce < conn.nonce
  /\ conn.step = "answer" => \A m \in binds : m.nonce <= conn.nonce

\* The key derived at the login under way: the account's one key, or one that is
\* newer than any kept for the account.
FreshLogin ==
  /\ conn.step \in {"signin", "lookup"} => conn.bound = NoKey
  /\ conn.step \in {"lookup", "resolve"} =>
       \E t \in 0..now : /\ conn.key = Derived(conn.account, t)
                         /\ keyStore[conn.account] # NoKey => keyStore[conn.account][2] < t

\* The one key that an account can have, as long as no bind was signed by another
\* wallet: the derived one, or the one kept in the browser.
TheKey(a) == IF a \in Deterministic THEN <<a, 0>> ELSE keyStore[a]

OneKey ==
  /\ \A a \in Accounts : {keyStore[a], fsa.bindings[a]} \subseteq {NoKey, TheKey(a)}
  /\ \A m \in binds : m.key # NoKey /\ m.key = TheKey(m.account)
  /\ xaman.account # None => xaman.key # NoKey /\ xaman.key = TheKey(xaman.account)
  /\ conn.step \in {"bind", "answer"} => conn.key # NoKey /\ conn.key = TheKey(conn.account)
  /\ conn.step = "resolve" => conn.bound \in {NoKey, TheKey(conn.account)}
  /\ conn.step = "answer" => \A m \in binds : m.nonce = conn.nonce => m.account = conn.account

\* While the TEE has not restarted since the login began, what it is known to have
\* bound is bound.
StillBound ==
  /\ xaman.account # None => fsa.bindings[xaman.account] # NoKey
  /\ (conn.step = "resolve" /\ conn.bound # NoKey) => fsa.bindings[conn.account] # NoKey
  /\ conn.step = "answer" =>
       \A m \in binds : (m.nonce = conn.nonce /\ m.stage = "bound")
                          => fsa.bindings[conn.account] # NoKey

SessionInv ==
  /\ SessionShape /\ Clocked /\ FreshLogin
  /\ ~past.mixed => OneKey
  /\ (~past.mixed /\ ~past.forgot) => StillBound

\* The clock of the page ticks for the nonce of a withdrawal.
ClockTicks == now' = now + 1 /\ UNCHANGED <<xaman, evm, conn, keyStore, fsa, binds, past>>
\* The TEE takes up the nonce of a withdrawal.
NonceTaken ==
  /\ \E a \in Accounts, n \in Nat : n > fsa.nonces[a] /\ fsa' = [fsa EXCEPT !.nonces[a] = n]
  /\ UNCHANGED <<now, xaman, evm, conn, keyStore, binds, past>>

\* A key is not the absence of one, and a derived key is a key.
LEMMA KeyFacts ==
  ASSUME NEW a \in Accounts, NEW n \in Nat
  PROVE  /\ Derived(a, n) \in Keys /\ Derived(a, n) # NoKey
         /\ <<a, n>> \in Keys /\ <<a, n>> # NoKey
         /\ <<a, n>>[2] = n
  BY DEF Derived, Keys, NoKey

\* The kept keys have times, and stay behind a clock that moves on.
LEMMA KeysAge ==
  ASSUME SessionShape, Clocked, NEW t \in Nat, now <= t
  PROVE  /\ \A a \in Accounts : keyStore[a] # NoKey => keyStore[a][2] \in Nat /\ keyStore[a][2] <= t
         /\ \A m \in binds : m.nonce \in Nat /\ m.nonce <= t
         /\ conn.nonce \in Nat /\ conn.nonce <= t
<1>1. ASSUME NEW a \in Accounts, keyStore[a] # NoKey
      PROVE  keyStore[a][2] \in Nat /\ keyStore[a][2] <= t
  <2>1. keyStore[a] \in Keys
    BY <1>1 DEF SessionShape, MaybeKey
  <2>2. keyStore[a][2] \in Nat
    BY <2>1 DEF Keys
  <2> QED
    BY <1>1, <2>2 DEF SessionShape, Clocked
<1>2. \A m \in binds : m.nonce \in Nat /\ m.nonce <= t
  BY DEF SessionShape, Clocked, Bind
<1>3. conn.nonce \in Nat /\ conn.nonce <= t
  BY DEF SessionShape, Clocked, Conn
<1> QED
  BY <1>1, <1>2, <1>3

\* Nobody is connected at the start, or one account is, after its first login.
LEMMA SessionStarts ==
  ASSUME SessionInit
  PROVE  SessionInv
<1>1. CASE xaman = NotConnected /\ fsa = EmptyStore /\ keyStore = [a \in Accounts |-> NoKey]
  <2> USE <1>1 DEF SessionInit, NotConnected, EmptyStore, NoConn
  <2>1. SessionShape
    BY DEF SessionShape, MaybeKey, Conn, ConnSteps, Bind
  <2>2. Clocked /\ FreshLogin
    BY DEF Clocked, FreshLogin
  <2>3. OneKey /\ StillBound
    BY DEF OneKey, StillBound
  <2> QED
    BY <2>1, <2>2, <2>3 DEF SessionInv
<1>2. ASSUME NEW a \in Accounts,
             xaman = [account |-> a, key |-> Derived(a, 1)],
             fsa = [bindings |-> [EmptyStore.bindings EXCEPT ![a] = Derived(a, 1)],
                    nonces |-> [EmptyStore.nonces EXCEPT ![a] = 1]],
             keyStore = [b \in Accounts |-> IF b = a THEN Derived(a, 1) ELSE NoKey]
      PROVE  SessionInv
  <2>1. Derived(a, 1) \in Keys /\ Derived(a, 1) # NoKey /\ Derived(a, 1)[2] \in {0, 1}
    BY KeyFacts DEF Derived
  <2>2. past = [mixed |-> FALSE, restarted |-> FALSE, forgot |-> FALSE, connected |-> {a}]
    <3>1. xaman # NotConnected
      BY <1>2, SessionAssumption DEF NotConnected, Users
    <3> QED
      BY <1>2, <3>1 DEF SessionInit
  <2>3. SessionShape
    <3>1. fsa \in [bindings : [Accounts -> MaybeKey], nonces : [Accounts -> Nat]]
      BY <1>2, <2>1 DEF MaybeKey, EmptyStore
    <3>2. keyStore \in [Accounts -> MaybeKey] /\ xaman \in [account : Accounts \cup {None}, key : MaybeKey]
      BY <1>2, <2>1 DEF MaybeKey
    <3>3. conn \in Conn /\ conn.step = "idle" /\ binds \subseteq Bind /\ now \in Nat /\ evm \in BOOLEAN
      BY DEF SessionInit, NoConn, Conn, ConnSteps, MaybeKey
    <3>4. xaman.account \in past.connected /\ past \in [mixed : BOOLEAN, restarted : BOOLEAN, forgot : BOOLEAN, connected : SUBSET Accounts]
      BY <1>2, <2>2
    <3> QED
      BY <3>1, <3>2, <3>3, <3>4 DEF SessionShape
  <2>4. Clocked /\ FreshLogin
    BY <1>2, <2>1 DEF SessionInit, Clocked, FreshLogin, NoConn
  <2>5. TheKey(a) = Derived(a, 1)
    BY <1>2 DEF TheKey, Derived
  <2>6. OneKey
    BY <1>2, <2>1, <2>5 DEF SessionInit, OneKey, NoConn, EmptyStore
  <2>7. StillBound
    BY <1>2, <2>1 DEF SessionInit, StillBound, NoConn, EmptyStore
  <2> QED
    BY <2>3, <2>4, <2>6, <2>7 DEF SessionInv
<1> QED
  BY <1>1, <1>2 DEF SessionInit

\* What changes nothing of the session but the wallets connected or the login that
\* ends, keeps its invariant.
LEMMA SessionEnds ==
  ASSUME SessionInv, UNCHANGED <<now, keyStore, fsa, binds, past>>, evm' \in BOOLEAN,
         xaman' \in {xaman, NotConnected}, conn' \in {conn, NoConn}
  PROVE  SessionInv'
<1>1. TheKey(xaman.account)' = TheKey(xaman'.account) /\ \A a \in Accounts : TheKey(a)' = TheKey(a)
  BY DEF TheKey
<1>2. SessionShape'
  BY DEF SessionInv, SessionShape, MaybeKey, Conn, ConnSteps, NoConn, NotConnected
<1>3. Clocked' /\ FreshLogin'
  BY DEF SessionInv, SessionShape, Clocked, FreshLogin, NoConn, Derived
<1>4. ASSUME OneKey PROVE OneKey'
  BY <1>1, <1>4 DEF SessionInv, SessionShape, OneKey, NoConn, NotConnected, Conn, Bind
<1>5. ASSUME StillBound PROVE StillBound'
  BY <1>5 DEF SessionInv, StillBound, NoConn, NotConnected
<1> QED
  BY <1>2, <1>3, <1>4, <1>5 DEF SessionInv

\* A click on Xaman: nobody is connected, and what is known of the TEE starts afresh.
LEMMA SelectXamanKeeps ==
  ASSUME SessionInv, SelectXaman
  PROVE  SessionInv'
<1> USE DEF SelectXaman
<1>1. xaman.account = None /\ conn'.step = "signin" /\ past'.mixed = past.mixed
  BY DEF SessionInv, SessionShape, NotConnected, NoConn
<1>2. SessionShape'
  BY DEF SessionInv, SessionShape, MaybeKey, Conn, ConnSteps, NoConn
<1>3. Clocked' /\ FreshLogin'
  BY DEF SessionInv, SessionShape, Clocked, FreshLogin, NoConn
<1>4. OneKey => OneKey'
  BY <1>1 DEF OneKey, TheKey
<1>5. StillBound'
  BY <1>1 DEF StillBound
<1> QED
  BY <1>1, <1>2, <1>3, <1>4, <1>5 DEF SessionInv

\* The sign-in: the key derived for it is newer than any other.
LEMMA SignInKeeps ==
  ASSUME SessionInv, NEW a \in Accounts, SignIn(a)
  PROVE  SessionInv'
<1> DEFINE key == Derived(a, now + 1)
<1>a. /\ conn.step = "signin" /\ now' = now + 1 /\ UNCHANGED <<xaman, evm, keyStore, fsa, binds, past>>
      /\ conn' = [conn EXCEPT !.step = "lookup", !.account = a, !.key = key]
  BY DEF SignIn
<1>b. now \in Nat /\ now + 1 \in Nat
  BY DEF SessionInv, SessionShape
<1>1. key \in Keys
  BY <1>b, KeyFacts
<1>2. conn' = [conn EXCEPT !.step = "lookup", !.account = a, !.key = key]
  BY <1>a
<1>3. conn'.step = "lookup" /\ conn'.account = a /\ conn'.key = key /\ conn'.nonce = conn.nonce
  BY <1>2 DEF SessionInv, SessionShape, Conn
<1>4. key = Derived(a, now + 1)
  OBVIOUS
<1> HIDE DEF key
<1>5. SessionShape'
  BY <1>a, <1>b, <1>1, <1>2, <1>3 DEF SessionInv, SessionShape, MaybeKey, Conn, ConnSteps
<1>6. Clocked'
  <2>1. now <= now + 1
    BY <1>b
  <2>2. /\ \A c \in Accounts : keyStore[c] # NoKey => keyStore[c][2] <= now + 1
        /\ \A m \in binds : m.nonce <= now + 1
        /\ conn.nonce <= now + 1
    BY <1>b, <2>1, KeysAge DEF SessionInv
  <2> QED
    BY <1>a, <1>3, <2>2 DEF Clocked
<1>7. FreshLogin'
  <2>1. now + 1 \in 0..now' /\ (keyStore'[a] # NoKey => keyStore'[a][2] <= now)
    BY <1>a, <1>b DEF SessionInv, Clocked
  <2>2. keyStore'[a] # NoKey => keyStore'[a][2] < now + 1
    <3>1. SUFFICES ASSUME keyStore[a] # NoKey PROVE keyStore[a][2] < now + 1
      BY <1>a
    <3>2. now <= now
      BY <1>b
    <3> QED
      BY <1>b, <3>1, <3>2, KeysAge DEF SessionInv
  <2>3. conn.bound = NoKey
    BY <1>a DEF SessionInv, FreshLogin
  <2> QED
    BY <1>a, <1>2, <1>3, <1>4, <2>1, <2>2, <2>3 DEF FreshLogin
<1>8. OneKey => OneKey'
  BY <1>a, <1>3 DEF OneKey, TheKey
<1>9. StillBound => StillBound'
  BY <1>a, <1>3 DEF StillBound
<1> QED
  BY <1>a, <1>5, <1>6, <1>7, <1>8, <1>9 DEF SessionInv

\* GET_BINDING: what it says is what the TEE has bound.
LEMMA LookupKeeps ==
  ASSUME SessionInv, Lookup
  PROVE  SessionInv'
<1> DEFINE a == conn.account
<1>1. a \in Accounts /\ conn.step = "lookup" /\ UNCHANGED <<now, xaman, evm, keyStore, fsa, binds, past>>
  BY DEF SessionInv, SessionShape, Lookup
<1>2. PICK b \in {NoKey, fsa.bindings[a]} : conn' = [conn EXCEPT !.step = "resolve", !.bound = b]
  <2>1. conn.bound = NoKey /\ conn.step = "lookup"
    BY <1>1 DEF SessionInv, FreshLogin
  <2>2. [conn EXCEPT !.step = "resolve"] = [conn EXCEPT !.step = "resolve", !.bound = NoKey]
    BY <2>1 DEF SessionInv, SessionShape, Conn
  <2> QED
    BY <2>2 DEF Lookup, CheckBinding
<1>3. /\ conn'.step = "resolve" /\ conn'.account = a /\ conn'.bound = b
      /\ conn'.key = conn.key /\ conn'.nonce = conn.nonce /\ b \in MaybeKey
  BY <1>1, <1>2 DEF SessionInv, SessionShape, Conn, MaybeKey
<1>4. SessionShape'
  BY <1>1, <1>2, <1>3 DEF SessionInv, SessionShape, Conn, ConnSteps
<1>5. Clocked' /\ FreshLogin'
  BY <1>1, <1>3 DEF SessionInv, Clocked, FreshLogin
<1>6. OneKey => OneKey'
  BY <1>1, <1>2, <1>3 DEF OneKey, TheKey
<1>7. StillBound => StillBound'
  BY <1>1, <1>2, <1>3 DEF StillBound
<1> QED
  BY <1>1, <1>4, <1>5, <1>6, <1>7 DEF SessionInv

\* What a login works with: a stored key or the derived one; the derived one is
\* taken for the stored one only when it is what the TEE has bound.
LEMMA ResolveParts ==
  ASSUME SessionInv, Resolve
  PROVE  LET a == conn.account
             r == ResolveSession(keyStore[a], conn.key, conn.bound)
         IN  /\ a \in Accounts /\ conn.key \in Keys /\ r.key \in Keys /\ r.store \in MaybeKey
             /\ r.key[2] \in Nat /\ r.key[2] <= now
             /\ \/ conn.bound # NoKey /\ conn.key = conn.bound /\ r.key = conn.key /\ r.store = NoKey
                \/ keyStore[a] # NoKey /\ r.key = keyStore[a] /\ r.store = keyStore[a]
                \/ keyStore[a] = NoKey /\ r.key = conn.key /\ r.store = conn.key
             /\ a \in Deterministic => conn.key = <<a, 0>>
             /\ a \notin Deterministic => conn.key # keyStore[a]
<1> DEFINE a == conn.account
           r == ResolveSession(keyStore[a], conn.key, conn.bound)
<1>1. conn.step = "resolve"
  BY DEF Resolve
<1>2. a \in Accounts /\ now \in Nat /\ keyStore[a] \in MaybeKey
  BY <1>1 DEF SessionInv, SessionShape
<1>3. PICK t \in 0..now : /\ conn.key = Derived(a, t)
                          /\ keyStore[a] # NoKey => keyStore[a][2] < t
  BY <1>1 DEF SessionInv, FreshLogin
<1>4. conn.key \in Keys /\ conn.key # NoKey /\ conn.key[2] \in Nat /\ conn.key[2] <= now
  BY <1>2, <1>3, KeyFacts DEF Derived
<1>5. keyStore[a] # NoKey => keyStore[a][2] \in Nat /\ keyStore[a][2] <= now
  BY <1>2, KeysAge DEF SessionInv
<1>6. a \in Deterministic => conn.key = <<a, 0>>
  BY <1>3 DEF Derived
<1>7. a \notin Deterministic => conn.key # keyStore[a]
  <2> SUFFICES ASSUME a \notin Deterministic, keyStore[a] # NoKey PROVE conn.key # keyStore[a]
    BY <1>4
  <2>1. conn.key[2] = t /\ keyStore[a][2] < t /\ keyStore[a][2] \in Nat
    BY <1>3, <1>5 DEF Derived
  <2> QED
    BY <2>1, <1>3
<1>8. \/ conn.bound # NoKey /\ conn.key = conn.bound /\ r.key = conn.key /\ r.store = NoKey
      \/ keyStore[a] # NoKey /\ r.key = keyStore[a] /\ r.store = keyStore[a]
      \/ keyStore[a] = NoKey /\ r.key = conn.key /\ r.store = conn.key
  BY DEF ResolveSession
<1>9. r.key \in Keys /\ r.store \in MaybeKey /\ r.key[2] \in Nat /\ r.key[2] <= now
  <2> HIDE DEF r
  <2> QED
    BY <1>2, <1>4, <1>5, <1>8 DEF MaybeKey
<1> QED
  BY <1>2, <1>4, <1>6, <1>7, <1>8, <1>9

\* The login finds its key: the account's one key stays what it was, or becomes
\* this one when there was none.
LEMMA ResolveKeeps ==
  ASSUME SessionInv, Resolve
  PROVE  SessionInv'
<1>0. PICK a : a = conn.account
  OBVIOUS
<1> DEFINE r == ResolveSession(keyStore[a], conn.key, conn.bound)
           key == r.key
           store == r.store
<1>1. /\ a \in Accounts /\ conn.key \in Keys /\ key \in Keys /\ store \in MaybeKey
      /\ key[2] \in Nat /\ key[2] <= now
      /\ \/ conn.bound # NoKey /\ conn.key = conn.bound /\ key = conn.key /\ store = NoKey
         \/ keyStore[a] # NoKey /\ key = keyStore[a] /\ store = keyStore[a]
         \/ keyStore[a] = NoKey /\ key = conn.key /\ store = conn.key
      /\ a \in Deterministic => conn.key = <<a, 0>>
      /\ a \notin Deterministic => conn.key # keyStore[a]
  BY <1>0, ResolveParts
<1>2. /\ conn.step = "resolve" /\ keyStore' = [keyStore EXCEPT ![a] = store]
      /\ UNCHANGED <<evm, fsa, binds>>
      /\ \/ /\ conn.bound = key /\ conn' = NoConn /\ xaman' = [account |-> a, key |-> key]
            /\ past' = [past EXCEPT !.connected = @ \cup {a}] /\ UNCHANGED now
         \/ /\ conn' = [conn EXCEPT !.key = key, !.step = "bind", !.nonce = now + 1]
            /\ now' = now + 1 /\ UNCHANGED <<xaman, past>>
  BY <1>0 DEF Resolve, PersistSession, LoadSession, Connected, Remember
<1> HIDE DEF r
<1>a. key # NoKey
  BY <1>1 DEF Keys, NoKey
<1> HIDE DEF key, store
<1>3. now \in Nat /\ now' \in Nat /\ now <= now' /\ keyStore \in [Accounts -> MaybeKey]
  BY <1>2 DEF SessionInv, SessionShape
<1>4. /\ conn'.step \in {"idle", "bind"} /\ conn'.nonce \in Nat /\ conn'.nonce <= now'
      /\ conn'.step = "bind" => conn'.account = a /\ conn'.key = key /\ conn'.nonce = now + 1
      /\ conn'.step = "idle" => conn.bound = key /\ xaman' = [account |-> a, key |-> key]
      /\ conn'.step = "bind" => xaman' = xaman
      /\ past'.mixed = past.mixed /\ past'.forgot = past.forgot
  <2>1. conn \in Conn /\ conn.nonce <= now /\ past \in [mixed : BOOLEAN, restarted : BOOLEAN, forgot : BOOLEAN, connected : SUBSET Accounts]
    BY DEF SessionInv, SessionShape, Clocked
  <2>2. CASE /\ conn.bound = key /\ conn' = NoConn /\ xaman' = [account |-> a, key |-> key]
             /\ past' = [past EXCEPT !.connected = @ \cup {a}] /\ UNCHANGED now
    <3>1. conn'.step = "idle" /\ conn'.nonce = 0 /\ past'.mixed = past.mixed /\ past'.forgot = past.forgot
      BY <2>1, <2>2 DEF NoConn
    <3> QED
      BY <1>3, <2>2, <3>1
  <2>3. CASE /\ conn' = [conn EXCEPT !.key = key, !.step = "bind", !.nonce = now + 1]
             /\ now' = now + 1 /\ UNCHANGED <<xaman, past>>
    <3>1. conn'.step = "bind" /\ conn'.account = conn.account /\ conn'.key = key /\ conn'.nonce = now + 1
      BY <2>1, <2>3 DEF Conn
    <3> QED
      BY <1>0, <1>3, <2>3, <3>1
  <2> QED
    BY <1>2, <2>2, <2>3
<1>5. SessionShape'
  <2>1. conn' \in Conn
    <3>1. conn \in Conn
      BY DEF SessionInv, SessionShape
    <3>2. [conn EXCEPT !.key = key, !.step = "bind", !.nonce = now + 1] \in Conn
      <4>1. key \in MaybeKey /\ now + 1 \in Nat
        BY <1>1, <1>3 DEF MaybeKey
      <4> QED
        BY <3>1, <4>1 DEF Conn, ConnSteps
    <3>3. NoConn \in Conn
      BY DEF NoConn, Conn, ConnSteps, MaybeKey
    <3> QED
      BY <1>2, <3>2, <3>3
  <2>2. keyStore' \in [Accounts -> MaybeKey]
    BY <1>1, <1>2, <1>3
  <2>3. /\ xaman' \in [account : Accounts \cup {None}, key : MaybeKey]
        /\ past' \in [mixed : BOOLEAN, restarted : BOOLEAN, forgot : BOOLEAN, connected : SUBSET Accounts]
        /\ xaman'.account # None => xaman'.account \in past'.connected
    BY <1>1, <1>2 DEF SessionInv, SessionShape, MaybeKey
  <2> QED
    BY <1>1, <1>2, <1>3, <1>4, <2>1, <2>2, <2>3 DEF SessionInv, SessionShape
<1>6. Clocked'
  <2>1. /\ \A c \in Accounts : keyStore[c] # NoKey => keyStore[c][2] \in Nat /\ keyStore[c][2] <= now'
        /\ \A m \in binds : m.nonce \in Nat /\ m.nonce <= now'
    BY <1>3, KeysAge DEF SessionInv
  <2>2. \A m \in binds : m.nonce <= now
    BY DEF SessionInv, Clocked
  <2>3. \A c \in Accounts : keyStore'[c] # NoKey => keyStore'[c][2] <= now'
    <3>1. store # NoKey => store[2] <= now'
      <4>1. store # NoKey => store = key
        BY <1>1
      <4> QED
        BY <1>1, <1>3, <4>1
    <3> QED
      BY <1>2, <1>3, <2>1, <3>1
  <2>4. conn'.step = "bind" => \A m \in binds' : m.nonce < conn'.nonce
    BY <1>2, <1>3, <1>4, <2>1, <2>2
  <2> QED
    BY <1>2, <1>4, <2>1, <2>3, <2>4 DEF Clocked
<1>7. FreshLogin'
  BY <1>4 DEF FreshLogin
<1>8. ASSUME OneKey PROVE OneKey'
  <2>1. TheKey(a)' = key
    <3>1. CASE a \in Deterministic
      <4>1. keyStore[a] # NoKey => keyStore[a] = <<a, 0>>
        BY <1>1, <1>8, <3>1 DEF OneKey, TheKey
      <4> QED
        BY <1>1, <3>1, <4>1 DEF TheKey
    <3>2. CASE a \notin Deterministic
      <4>1. conn.bound \in {NoKey, keyStore[a]}
        BY <1>0, <1>2, <1>8, <3>2 DEF OneKey, TheKey
      <4> QED
        BY <1>1, <1>2, <1>3, <3>2, <4>1 DEF TheKey
    <3> QED
      BY <3>1, <3>2
  <2>2. TheKey(a) \in {NoKey, key}
    <3>1. CASE a \in Deterministic
      BY <2>1, <3>1 DEF TheKey
    <3>2. CASE a \notin Deterministic
      <4>1. conn.bound \in {NoKey, keyStore[a]}
        BY <1>0, <1>2, <1>8, <3>2 DEF OneKey, TheKey
      <4> QED
        BY <1>1, <3>2, <4>1 DEF TheKey
    <3> QED
      BY <3>1, <3>2
  <2>3. \A c \in Accounts \ {a} : TheKey(c)' = TheKey(c) /\ keyStore'[c] = keyStore[c]
    BY <1>2, <1>3 DEF TheKey
  <2>4. keyStore'[a] \in {NoKey, key}
    BY <1>1, <1>2, <1>3
  <2>5. \A c \in Accounts : {keyStore'[c], fsa'.bindings[c]} \subseteq {NoKey, TheKey(c)'}
    BY <1>2, <1>8, <2>1, <2>2, <2>3, <2>4 DEF OneKey
  <2>6. \A m \in binds' : m.key # NoKey /\ m.key = TheKey(m.account)'
    BY <1>2, <1>8, <2>1, <2>2, <2>3 DEF OneKey, SessionInv, SessionShape, Bind
  <2>7. xaman'.account # None => xaman'.key # NoKey /\ xaman'.key = TheKey(xaman.account)'
    <3>1. CASE conn'.step = "idle"
      BY <1>4, <1>a, <2>1, <3>1
    <3>2. CASE conn'.step = "bind"
      BY <1>4, <1>8, <2>1, <2>2, <2>3, <3>2 DEF OneKey, SessionInv, SessionShape
    <3> QED
      BY <1>4, <3>1, <3>2
  <2>8. conn'.step = "bind" => conn'.key # NoKey /\ conn'.key = TheKey(conn.account)'
    BY <1>4, <1>a, <2>1
  <2> QED
    BY <1>4, <2>5, <2>6, <2>7, <2>8 DEF OneKey
<1>9. ASSUME StillBound PROVE StillBound'
  BY <1>0, <1>2, <1>4, <1>9, <1>a DEF StillBound
<1> QED
  BY <1>4, <1>5, <1>6, <1>7, <1>8, <1>9 DEF SessionInv

\* The bind is signed: it is the only one with its nonce.
LEMMA SignBindKeeps ==
  ASSUME SessionInv, NEW b \in Accounts, SignBind(b)
  PROVE  SessionInv'
<1>0. PICK m : m = [account |-> b, key |-> conn.key, nonce |-> conn.nonce, stage |-> "sent"]
  OBVIOUS
<1>1. /\ conn.step = "bind" /\ conn' = [conn EXCEPT !.step = "answer"] /\ binds' = binds \cup {m}
      /\ UNCHANGED <<now, xaman, evm, keyStore, fsa>>
      /\ past' \in {past, [past EXCEPT !.mixed = TRUE]} /\ (b # conn.account => past'.mixed)
  BY <1>0 DEF SignBind, SessionInv, SessionShape
<1>2. /\ conn \in Conn /\ conn.account \in Accounts /\ conn.nonce \in Nat /\ conn.key \in MaybeKey
      /\ conn.nonce <= now /\ now \in Nat
  BY <1>1 DEF SessionInv, SessionShape, Conn, Clocked
<1>3. /\ conn'.step = "answer" /\ conn'.account = conn.account /\ conn'.nonce = conn.nonce
      /\ conn'.key = conn.key /\ conn' \in Conn
  BY <1>1, <1>2 DEF Conn, ConnSteps
<1>4. /\ m \in Bind /\ m.account = b /\ m.key = conn.key /\ m.nonce = conn.nonce /\ m.stage = "sent"
  BY <1>0, <1>2 DEF Bind, BindStages
<1>5. \A n \in binds : n.nonce \in Nat /\ n.nonce < conn.nonce
  BY <1>1 DEF SessionInv, SessionShape, Clocked, Bind
<1>6. /\ past'.forgot = past.forgot /\ past'.connected = past.connected /\ (~past'.mixed => ~past.mixed)
      /\ past' \in [mixed : BOOLEAN, restarted : BOOLEAN, forgot : BOOLEAN, connected : SUBSET Accounts]
  BY <1>1 DEF SessionInv, SessionShape
<1>7. SessionShape'
  BY <1>1, <1>2, <1>3, <1>4, <1>6 DEF SessionInv, SessionShape
<1>8. Clocked'
  BY <1>1, <1>2, <1>3, <1>4, <1>5 DEF SessionInv, Clocked
<1>9. FreshLogin'
  BY <1>3 DEF FreshLogin
<1>10. ASSUME OneKey, ~past'.mixed PROVE OneKey'
  <2>1. b = conn.account
    BY <1>1, <1>10
  <2>2. \A a \in Accounts : TheKey(a)' = TheKey(a)
    BY <1>1 DEF TheKey
  <2>3. \A n \in binds' : n.key # NoKey /\ n.key = TheKey(n.account) /\ n.account \in Accounts
    BY <1>1, <1>4, <1>10, <2>1 DEF OneKey, SessionInv, SessionShape, Bind
  <2>4. \A n \in binds' : n.nonce = conn.nonce => n.account = conn.account
    BY <1>1, <1>4, <1>5, <2>1
  <2> QED
    BY <1>1, <1>2, <1>3, <1>10, <2>2, <2>3, <2>4 DEF OneKey, SessionInv, SessionShape
<1>11. ASSUME StillBound PROVE StillBound'
  BY <1>1, <1>3, <1>4, <1>5, <1>11 DEF StillBound
<1> QED
  BY <1>6, <1>7, <1>8, <1>9, <1>10, <1>11 DEF SessionInv

\* The TEE's answer: a bind that succeeded was this login's, and is bound.
LEMMA BindAnswerKeeps ==
  ASSUME SessionInv, NEW m \in binds, BindAnswer(m)
  PROVE  SessionInv'
<1>0. PICK a : a = conn.account
  OBVIOUS
<1>1. /\ conn.step = "answer" /\ m.nonce = conn.nonce /\ conn' = NoConn /\ binds' = binds \ {m}
      /\ UNCHANGED <<now, evm, keyStore, fsa>>
      /\ \/ /\ m.stage = "bound" /\ xaman' = [account |-> a, key |-> conn.key]
            /\ past' = [past EXCEPT !.connected = @ \cup {a}]
         \/ UNCHANGED <<xaman, past>>
  BY <1>0 DEF BindAnswer, Connected, Remember
<1>2. conn \in Conn /\ a \in Accounts /\ conn.key \in MaybeKey /\ NoConn \in Conn
  BY <1>0, <1>1 DEF SessionInv, SessionShape, Conn, NoConn, ConnSteps, MaybeKey
<1>3. /\ conn'.step = "idle" /\ conn'.nonce = 0
      /\ past'.forgot = past.forgot /\ past'.mixed = past.mixed
      /\ past' \in [mixed : BOOLEAN, restarted : BOOLEAN, forgot : BOOLEAN, connected : SUBSET Accounts]
      /\ xaman' \in [account : Accounts \cup {None}, key : MaybeKey]
      /\ xaman'.account # None => xaman'.account \in past'.connected
  BY <1>1, <1>2 DEF SessionInv, SessionShape, NoConn
<1>4. SessionShape'
  BY <1>1, <1>2, <1>3 DEF SessionInv, SessionShape
<1>5. Clocked' /\ FreshLogin'
  BY <1>1, <1>3 DEF SessionInv, SessionShape, Clocked, FreshLogin
<1>6. \A c \in Accounts : TheKey(c)' = TheKey(c)
  BY <1>1 DEF TheKey
<1>7. ASSUME OneKey PROVE OneKey'
  <2>1. conn.key # NoKey /\ conn.key = TheKey(a)
    BY <1>0, <1>1, <1>7 DEF OneKey
  <2>2. xaman'.account # None => xaman'.account \in Accounts /\ xaman'.key # NoKey /\ xaman'.key = TheKey(xaman'.account)
    <3>1. CASE xaman' = [account |-> a, key |-> conn.key]
      BY <1>2, <2>1, <3>1
    <3>2. CASE UNCHANGED xaman
      BY <1>7, <3>2 DEF OneKey, SessionInv, SessionShape
    <3> QED
      BY <1>1, <3>1, <3>2
  <2>3. xaman'.account # None => xaman'.key # NoKey /\ xaman'.key = TheKey(xaman.account)'
    BY <1>1, <2>2 DEF TheKey
  <2>4. \A n \in binds' : n.key # NoKey /\ n.key = TheKey(n.account)'
    BY <1>1, <1>6, <1>7 DEF OneKey, SessionInv, SessionShape, Bind
  <2>5. \A c \in Accounts : {keyStore'[c], fsa'.bindings[c]} \subseteq {NoKey, TheKey(c)'}
    BY <1>1, <1>6, <1>7 DEF OneKey
  <2> QED
    BY <1>3, <2>3, <2>4, <2>5 DEF OneKey
<1>8. ASSUME StillBound PROVE StillBound'
  BY <1>0, <1>1, <1>3, <1>8 DEF StillBound
<1> QED
  BY <1>3, <1>4, <1>5, <1>7, <1>8 DEF SessionInv

\* A bind goes on at the TEE, or is refused: its nonce, account and key stay.
LEMMA BindStaged ==
  ASSUME SessionInv, NEW m \in binds, NEW stage \in BindStages, binds' = Staged(m, stage)
  PROVE  /\ binds' \subseteq Bind
         /\ \A n \in binds' : \E k \in binds : /\ n.account = k.account /\ n.key = k.key /\ n.nonce = k.nonce
                                               /\ n = k \/ (k = m /\ n.stage = stage)
<1>1. m \in Bind /\ binds \subseteq Bind
  BY DEF SessionInv, SessionShape
<1>2. PICK o : o = [m EXCEPT !.stage = stage]
  OBVIOUS
<1>3. o \in Bind /\ o.account = m.account /\ o.key = m.key /\ o.nonce = m.nonce /\ o.stage = stage
  BY <1>1, <1>2 DEF Bind
<1>4. binds' = (binds \ {m}) \cup {o}
  BY <1>2 DEF Staged
<1> QED
  BY <1>1, <1>3, <1>4

\* What the TEE does with the binds and its store keeps the session's invariant,
\* if binds keep what they carry, and a binding changes to the account's one key.
LEMMA TeeStepKeeps ==
  ASSUME SessionInv, UNCHANGED <<now, xaman, evm, conn, keyStore, past>>,
         binds' \subseteq Bind,
         fsa' \in [bindings : [Accounts -> MaybeKey], nonces : [Accounts -> Nat]],
         \A n \in binds' : \E k \in binds :
            /\ n.account = k.account /\ n.key = k.key /\ n.nonce = k.nonce
            /\ n.stage = "bound" => (k.stage = "bound" \/ fsa'.bindings[n.account] = n.key),
         \A a \in Accounts : fsa'.bindings[a] = fsa.bindings[a]
                               \/ \E k \in binds : k.account = a /\ fsa'.bindings[a] = k.key
  PROVE  SessionInv'
<1>1. SessionShape'
  BY DEF SessionInv, SessionShape
<1>2. Clocked' /\ FreshLogin'
  BY DEF SessionInv, Clocked, FreshLogin
<1>3. \A a \in Accounts : TheKey(a)' = TheKey(a)
  BY DEF TheKey
<1>4. TheKey(conn.account)' = TheKey(conn.account) /\ TheKey(xaman.account)' = TheKey(xaman.account)
  BY DEF TheKey
<1>5. ASSUME OneKey PROVE OneKey'
  <2>1. \A n \in binds' : n.key # NoKey /\ n.key = TheKey(n.account)' /\ (conn.step = "answer" /\ n.nonce = conn.nonce => n.account = conn.account)
    BY <1>3, <1>5 DEF OneKey, SessionInv, SessionShape, Bind
  <2>2. \A a \in Accounts : {keyStore'[a], fsa'.bindings[a]} \subseteq {NoKey, TheKey(a)'}
    BY <1>3, <1>5 DEF OneKey
  <2> QED
    BY <1>4, <1>5, <2>1, <2>2 DEF OneKey
<1>6. ASSUME OneKey, StillBound PROVE StillBound'
  <2>1. \A a \in Accounts : fsa.bindings[a] # NoKey => fsa'.bindings[a] # NoKey
    BY <1>6 DEF OneKey
  <2>2. xaman.account # None => xaman.account \in Accounts
    BY DEF SessionInv, SessionShape
  <2>3. conn.step \in {"resolve", "answer"} => conn.account \in Accounts
    BY DEF SessionInv, SessionShape
  <2>4. ASSUME conn.step = "answer", NEW n \in binds', n.nonce = conn.nonce, n.stage = "bound"
        PROVE  fsa'.bindings[conn.account] # NoKey
    <3>1. PICK k \in binds : /\ n.account = k.account /\ n.key = k.key /\ n.nonce = k.nonce
                             /\ (k.stage = "bound" \/ fsa'.bindings[n.account] = n.key)
      BY <2>4
    <3>2. k.account = conn.account /\ k.key # NoKey
      BY <1>6, <2>4, <3>1 DEF OneKey
    <3>3. k.stage = "bound" => fsa.bindings[conn.account] # NoKey
      BY <1>6, <2>4, <3>1 DEF StillBound
    <3> QED
      BY <2>1, <2>3, <2>4, <3>1, <3>2, <3>3
  <2> QED
    BY <1>6, <2>1, <2>2, <2>3, <2>4 DEF StillBound
<1> QED
  BY <1>1, <1>2, <1>5, <1>6 DEF SessionInv

\* The nonce of a bind is taken, or the bind refused; then the binding is set.
LEMMA TeeBindKeeps ==
  ASSUME SessionInv, NEW m \in binds, BindAdvance(m) \/ BindSet(m)
  PROVE  SessionInv'
<1>1. fsa \in [bindings : [Accounts -> MaybeKey], nonces : [Accounts -> Nat]]
      /\ m.account \in Accounts /\ m.nonce \in Nat /\ m.key \in MaybeKey
  BY DEF SessionInv, SessionShape, Bind
<1>2. CASE BindAdvance(m)
  <2>1. PICK stage \in {"advanced", "refused"} : binds' = Staged(m, stage)
    BY <1>2 DEF BindAdvance
  <2>2. /\ binds' \subseteq Bind
        /\ \A n \in binds' : \E k \in binds : /\ n.account = k.account /\ n.key = k.key /\ n.nonce = k.nonce
                                              /\ n = k \/ (k = m /\ n.stage = stage)
    BY <2>1, BindStaged DEF BindStages
  <2>3. UNCHANGED <<now, xaman, evm, conn, keyStore, past>> /\ fsa' \in {fsa, [fsa EXCEPT !.nonces[m.account] = m.nonce]}
    BY <1>2 DEF BindAdvance
  <2>4. fsa' \in [bindings : [Accounts -> MaybeKey], nonces : [Accounts -> Nat]] /\ fsa'.bindings = fsa.bindings
    BY <1>1, <2>3
  <2>5. \A n \in binds' : \E k \in binds : /\ n.account = k.account /\ n.key = k.key /\ n.nonce = k.nonce
                                           /\ n.stage = "bound" => k.stage = "bound"
    BY <2>1, <2>2
  <2> QED
    BY <2>2, <2>3, <2>4, <2>5, TeeStepKeeps
<1>3. CASE BindSet(m)
  <2>1. binds' = Staged(m, "bound") /\ UNCHANGED <<now, xaman, evm, conn, keyStore, past>>
        /\ fsa' = [fsa EXCEPT !.bindings[m.account] = m.key]
    BY <1>3 DEF BindSet
  <2>2. /\ binds' \subseteq Bind
        /\ \A n \in binds' : \E k \in binds : /\ n.account = k.account /\ n.key = k.key /\ n.nonce = k.nonce
                                              /\ n = k \/ (k = m /\ n.stage = "bound")
    BY <2>1, BindStaged DEF BindStages
  <2>3. /\ fsa' \in [bindings : [Accounts -> MaybeKey], nonces : [Accounts -> Nat]]
        /\ fsa'.bindings[m.account] = m.key
        /\ \A a \in Accounts : fsa'.bindings[a] \in {fsa.bindings[a], m.key} /\ (a # m.account => fsa'.bindings[a] = fsa.bindings[a])
    BY <1>1, <2>1
  <2>4. \A n \in binds' : \E k \in binds : /\ n.account = k.account /\ n.key = k.key /\ n.nonce = k.nonce
                                           /\ n.stage = "bound" => (k.stage = "bound" \/ fsa'.bindings[n.account] = n.key)
    BY <2>2, <2>3
  <2>5. \A a \in Accounts : fsa'.bindings[a] = fsa.bindings[a]
                              \/ \E k \in binds : k.account = a /\ fsa'.bindings[a] = k.key
    BY <2>3
  <2> QED
    BY <2>1, <2>2, <2>3, <2>4, <2>5, TeeStepKeeps
<1> QED
  BY <1>2, <1>3

\* A restart of the TEE: nothing is bound, and the page is not told.
LEMMA SessionRestartKeeps ==
  ASSUME SessionInv, SessionTeeRestart
  PROVE  SessionInv'
<1> DEFINE lose(m) == IF m.stage = "advanced" THEN [m EXCEPT !.stage = "refused"] ELSE m
<1>1. /\ fsa' = EmptyStore /\ binds' = {lose(m) : m \in binds}
      /\ past' = [past EXCEPT !.restarted = TRUE, !.forgot = TRUE]
      /\ UNCHANGED <<now, xaman, evm, conn, keyStore>>
  BY DEF SessionTeeRestart
<1>2. \A m \in binds : /\ lose(m) \in Bind /\ lose(m).account = m.account /\ lose(m).key = m.key
                       /\ lose(m).nonce = m.nonce
  BY DEF SessionInv, SessionShape, Bind, BindStages
<1> HIDE DEF lose
<1>3. /\ binds' \subseteq Bind
      /\ \A n \in binds' : \E m \in binds : n.account = m.account /\ n.key = m.key /\ n.nonce = m.nonce
  BY <1>1, <1>2
<1>4. /\ past' \in [mixed : BOOLEAN, restarted : BOOLEAN, forgot : BOOLEAN, connected : SUBSET Accounts]
      /\ past'.mixed = past.mixed /\ past'.forgot /\ past'.connected = past.connected
  BY <1>1 DEF SessionInv, SessionShape
<1>5. /\ fsa' \in [bindings : [Accounts -> MaybeKey], nonces : [Accounts -> Nat]]
      /\ \A a \in Accounts : fsa'.bindings[a] = NoKey
  BY <1>1 DEF EmptyStore, MaybeKey
<1>6. SessionShape'
  BY <1>1, <1>3, <1>4, <1>5 DEF SessionInv, SessionShape
<1>7. Clocked' /\ FreshLogin'
  BY <1>1, <1>3 DEF SessionInv, Clocked, FreshLogin
<1>8. ASSUME OneKey PROVE OneKey'
  <2>1. \A a \in Accounts : TheKey(a)' = TheKey(a)
    BY <1>1 DEF TheKey
  <2>2. TheKey(conn.account)' = TheKey(conn.account) /\ TheKey(xaman.account)' = TheKey(xaman.account)
    BY <1>1 DEF TheKey
  <2>3. \A n \in binds' : n.key # NoKey /\ n.key = TheKey(n.account)' /\ (conn.step = "answer" /\ n.nonce = conn.nonce => n.account = conn.account)
    BY <1>3, <1>8, <2>1 DEF OneKey, SessionInv, SessionShape, Bind
  <2> QED
    BY <1>1, <1>5, <1>8, <2>1, <2>2, <2>3 DEF OneKey
<1> QED
  BY <1>4, <1>6, <1>7, <1>8 DEF SessionInv

\* A withdrawal makes the clock tick, and has its nonce taken.
LEMMA WithdrawalKeepsSession ==
  ASSUME SessionInv, ClockTicks \/ NonceTaken
  PROVE  SessionInv'
<1>1. CASE ClockTicks
  <2>0. now \in Nat /\ now' = now + 1 /\ now' \in Nat /\ now <= now' /\ UNCHANGED <<xaman, evm, conn, keyStore, fsa, binds, past>>
    BY <1>1 DEF SessionInv, SessionShape, ClockTicks
  <2>1. /\ \A c \in Accounts : keyStore[c] # NoKey => keyStore[c][2] <= now'
        /\ \A m \in binds : m.nonce <= now'
        /\ conn.nonce <= now'
    BY <2>0, KeysAge DEF SessionInv
  <2>2. Clocked'
    BY <2>0, <2>1 DEF SessionInv, Clocked
  <2>3. FreshLogin'
    BY <2>0 DEF SessionInv, FreshLogin
  <2>4. SessionShape'
    BY <2>0 DEF SessionInv, SessionShape
  <2>5. (OneKey => OneKey') /\ (StillBound => StillBound')
    BY <2>0 DEF OneKey, StillBound, TheKey
  <2> QED
    BY <2>0, <2>2, <2>3, <2>4, <2>5 DEF SessionInv
<1>2. CASE NonceTaken
  <2>1. PICK a \in Accounts, n \in Nat : fsa' = [fsa EXCEPT !.nonces[a] = n]
    BY <1>2 DEF NonceTaken
  <2>2. /\ fsa' \in [bindings : [Accounts -> MaybeKey], nonces : [Accounts -> Nat]]
        /\ fsa'.bindings = fsa.bindings
    BY <2>1 DEF SessionInv, SessionShape
  <2>3. UNCHANGED <<now, xaman, evm, conn, keyStore, binds, past>> /\ binds \subseteq Bind
    BY <1>2 DEF NonceTaken, SessionInv, SessionShape
  <2> QED
    BY <2>2, <2>3, TeeStepKeeps
<1> QED
  BY <1>1, <1>2

\* What a step of the whole does to the session.
SessionMoves ==
  \/ UNCHANGED sessionVars \/ ClockTicks \/ NonceTaken
  \/ SessionUser \/ SessionScan \/ SessionStep \/ SessionTeeRestart \/ SessionReload

\* Whatever moves, the session's invariant is kept.
LEMMA SessionKept ==
  ASSUME SessionInv, SessionMoves
  PROVE  SessionInv'
<1>1. CASE UNCHANGED sessionVars
  BY <1>1 DEF sessionVars, SessionInv, SessionShape, Clocked, FreshLogin, OneKey, StillBound, TheKey
<1>2. CASE ClockTicks \/ NonceTaken
  BY <1>2, WithdrawalKeepsSession
<1>3. CASE DisconnectXaman \/ SelectEvm \/ ConnectFails \/ SessionReload
  <2>1. UNCHANGED <<now, keyStore, fsa, binds, past>> /\ evm' \in BOOLEAN
        /\ xaman' \in {xaman, NotConnected} /\ conn' \in {conn, NoConn}
    BY <1>3 DEF DisconnectXaman, SelectEvm, ConnectFails, SessionReload, SessionInv, SessionShape
  <2> QED
    BY <2>1, SessionEnds
<1>4. CASE SelectXaman
  BY <1>4, SelectXamanKeeps
<1>5. CASE SessionScan
  BY <1>5, SignInKeeps, SignBindKeeps DEF SessionScan
<1>6. CASE SessionStep
  BY <1>3, <1>6, LookupKeeps, ResolveKeeps, BindAnswerKeeps, TeeBindKeeps DEF SessionStep
<1>7. CASE SessionTeeRestart
  BY <1>7, SessionRestartKeeps
<1> QED
  BY <1>1, <1>2, <1>3, <1>4, <1>5, <1>6, <1>7 DEF SessionMoves, SessionUser

-----------------------------------------------------------------------------
(* The kinds of step of the whole, and what each leaves alone.             *)

SessionAction == /\ SessionStep \/ SessionUser \/ SessionScan
                 /\ SlipFollowsAccount /\ UNCHANGED fsaVars /\ FundsApart
FsaAction == (FsaStep \/ FsaOther) /\ UNCHANGED <<sessionVars, fundsVars>>
FaucetAction == StartFaucet \/ \E outcome \in Outcomes : Mint(outcome)
OpAction ==
  \/ StartDeposit \/ AskApproval \/ FlowEnds \/ EvmApproves \/ DepositConfirmed \/ DepositGivesUp
  \/ ReceiveSlip \/ WithdrawFails \/ StartRetry
NewSlip == StartWithdraw \/ EvmConfirms
CallAction == \E c \in calls : Carry(c) \/ AnswerLost(c) \/ NotCarried(c)
TeeAction ==
  \/ \E i \in DOMAIN credits : Credit(i)
  \/ \E i \in DOMAIN slips : Redelivered(i) \/ Authorize(i) \/ UseNonce(i) \/ Debit(i) \/ Sign(i)

\* Every step of the whole is of one of these kinds.
LEMMA Kinds ==
  ASSUME Next
  PROVE  \/ SessionAction \/ FsaAction \/ FaucetAction \/ OpAction \/ NewSlip \/ CallAction \/ TeeAction
         \/ TeeRestart \/ Reload
<1>1. CASE System
  <2>1. CASE FundsStep
    BY <2>1, Zenon DEF FundsStep, FaucetAction, OpAction, NewSlip, CallAction, TeeAction
  <2> QED
    BY <1>1, <2>1, Zenon DEF System, SessionAction, FsaAction
<1>2. CASE (SessionUser \/ SessionScan) /\ SlipFollowsAccount /\ UNCHANGED fsaVars /\ FundsApart
  BY <1>2, Zenon DEF SessionAction
<1>3. CASE FsaOther /\ UNCHANGED <<sessionVars, fundsVars>>
  BY <1>3, Zenon DEF FsaAction
<1>4. CASE FundsUser \/ FundsOther
  BY <1>4, Zenon DEF FundsUser, FundsOther, FaucetAction, OpAction, NewSlip, TeeAction
<1> QED
  BY <1>1, <1>2, <1>3, <1>4, Zenon DEF Next

\* What operations, the faucet, calls, and the TEE at work on slips leave alone.
LEMMA OpFrame ==
  ASSUME OpAction
  PROVE  UNCHANGED <<now, xaman, evm, conn, keyStore, fsa, binds, past, mac, ledger, credits, slips, vault, faucet>>
<1> USE DEF sessionVars, fsaVars, teeVars
<1>1. CASE StartDeposit \/ AskApproval \/ FlowEnds \/ EvmApproves \/ DepositConfirmed \/ DepositGivesUp
  BY <1>1 DEF StartDeposit, AskApproval, FlowEnds, EvmApproves, DepositConfirmed, DepositGivesUp
<1>2. CASE ReceiveSlip \/ WithdrawFails \/ StartRetry
  BY <1>2 DEF ReceiveSlip, WithdrawFails, StartRetry
<1> QED
  BY <1>1, <1>2 DEF OpAction

\* The faucet touches nothing else.
LEMMA FaucetFrame ==
  ASSUME FaucetAction
  PROVE  UNCHANGED <<now, xaman, evm, conn, keyStore, fsa, binds, past, mac, reqs, flow, pending,
                     ledger, credits, slips, dep, wd, retry, vault, saved, got, calls>>
BY DEF FaucetAction, StartFaucet, Mint, sessionVars, fsaVars, teeVars, opVars

\* A call that is carried out, or not, leaves the session, the payments and the slips.
LEMMA CallFrame ==
  ASSUME CallAction
  PROVE  UNCHANGED <<now, xaman, evm, conn, keyStore, fsa, binds, past, mac, reqs, flow, pending,
                     ledger, slips, got, faucet>>
<1>1. PICK c \in calls : \E outcome : Tell(c, outcome)
  BY Zenon DEF CallAction, Carry, AnswerLost, NotCarried
<1> QED
  BY <1>1 DEF Tell, sessionVars, fsaVars

\* What the TEE does with deposits and requests is not seen by the page.
LEMMA TeeFrame ==
  ASSUME TeeAction
  PROVE  UNCHANGED <<now, xaman, evm, conn, keyStore, binds, past, mac, reqs, flow, pending,
                     dep, wd, retry, saved, got, calls, faucet>>
<1> USE DEF sessionVars, fsaVars, opVars
<1>1. ASSUME NEW i \in DOMAIN credits, Credit(i)
      PROVE  UNCHANGED <<now, xaman, evm, conn, keyStore, binds, past, mac, reqs, flow, pending,
                         dep, wd, retry, saved, got, calls, faucet>>
  BY <1>1 DEF Credit, Deposit
<1>2. ASSUME NEW i, Redelivered(i) \/ Authorize(i) \/ UseNonce(i) \/ Debit(i) \/ Sign(i)
      PROVE  UNCHANGED <<now, xaman, evm, conn, keyStore, binds, past, mac, reqs, flow, pending,
                         dep, wd, retry, saved, got, calls, faucet>>
  BY <1>2 DEF Redelivered, Authorize, UseNonce, Debit, Sign, Deposit
<1> QED
  BY <1>1, <1>2 DEF TeeAction

\* A withdrawal that is requested adds a slip and moves the clock.
LEMMA NewSlipFrame ==
  ASSUME NewSlip
  PROVE  UNCHANGED <<xaman, evm, conn, keyStore, fsa, binds, past, mac, reqs, flow, pending,
                     ledger, credits, vault, saved, got, calls, dep, retry, faucet>>
BY DEF NewSlip, StartWithdraw, EvmConfirms, sessionVars, fsaVars

\* The session moves the slip in memory along with the account, and no money.
LEMMA SessionFrame ==
  ASSUME SessionAction
  PROVE  /\ UNCHANGED <<mac, reqs, flow, pending, ledger, credits, slips, dep, wd, retry, vault, got, calls, faucet>>
         /\ SlipFollowsAccount
BY DEF SessionAction, FundsApart, fsaVars, teeVars, opVars

\* A payment from a PersonalAccount moves nothing else.
LEMMA FsaFrame ==
  ASSUME FsaAction
  PROVE  UNCHANGED <<now, xaman, evm, conn, keyStore, fsa, binds, past,
                     ledger, credits, slips, dep, wd, retry, vault, saved, got, calls, faucet>>
BY DEF FsaAction, sessionVars, fundsVars, teeVars, opVars

-----------------------------------------------------------------------------
(* Slips.                                                                  *)

SlipStages == {"sent", "authorized", "advanced", "debited", "signed", "refused", "lost"}
Slip == [user : Users, key : MaybeKey, nonce : Nat, amount : Nat, stage : SlipStages]
Ledgers == [Users -> 0..(Word - 1)]

\* Signed requests have owners who were connected once; only they are authorised
\* and have their nonces taken.
SlipsShape ==
  /\ ledger \in Ledgers /\ slips \in Seq(Slip)
  /\ \A i \in DOMAIN slips :
       /\ slips[i].user # Evm => slips[i].user \in past.connected
       /\ slips[i].stage \in {"authorized", "advanced"} => slips[i].user # Evm

\* While the TEE keeps its nonces, a request past the check has its nonce taken.
NoncesTaken ==
  ~past.restarted =>
  \A i \in DOMAIN slips :
     (slips[i].user # Evm /\ slips[i].stage \in {"advanced", "debited", "signed", "lost"})
       => slips[i].nonce <= fsa.nonces[slips[i].user]

\* No two requests past the check have one nonce.
SlipsInv == SlipsShape /\ NoncesTaken /\ DebitedOnce

\* Slips are added, and go on without changing what they are; a signed one stays.
SlipsGrow ==
  /\ DOMAIN slips \subseteq DOMAIN slips'
  /\ \A i \in DOMAIN slips :
       /\ slips'[i].user = slips[i].user /\ slips'[i].key = slips[i].key /\ slips'[i].nonce = slips[i].nonce
       /\ slips'[i].amount = slips[i].amount
       /\ slips[i].stage = "signed" => slips'[i].stage = "signed"
  /\ \A i \in DOMAIN slips' \ DOMAIN slips : slips'[i].stage = "sent"

Past == {"advanced", "debited", "signed", "lost"}

\* A request is added: it has yet to be looked at.
LEMMA SlipAdded ==
  ASSUME SlipsInv, NEW s \in Slip, s.stage = "sent", s.user # Evm => s.user \in past.connected,
         slips' = Append(slips, s), UNCHANGED <<ledger, fsa, past>>
  PROVE  SlipsInv' /\ SlipsGrow
<1>1. slips \in Seq(Slip) /\ slips' \in Seq(Slip) /\ ledger' \in Ledgers
  BY DEF SlipsInv, SlipsShape
<1>2. DOMAIN slips = 1..Len(slips) /\ DOMAIN slips' = 1..(Len(slips) + 1) /\ Len(slips) \in Nat
  BY <1>1
<1>3. \A i \in DOMAIN slips : slips'[i] = slips[i]
  BY <1>1, <1>2
<1>4. \A i \in DOMAIN slips' : i \notin DOMAIN slips => slips'[i] = s
  BY <1>1, <1>2
<1>5. SlipsGrow
  BY <1>2, <1>3, <1>4 DEF SlipsGrow
<1>6. SlipsShape'
  BY <1>1, <1>3, <1>4 DEF SlipsInv, SlipsShape
<1>7. NoncesTaken'
  BY <1>3, <1>4 DEF SlipsInv, NoncesTaken
<1>8. DebitedOnce'
  <2>1. SUFFICES ASSUME ~past.restarted, NEW i \in DOMAIN slips', NEW j \in DOMAIN slips', i # j,
                        slips'[i].user # Evm, slips'[i].user = slips'[j].user, slips'[i].nonce = slips'[j].nonce,
                        {slips'[i].stage, slips'[j].stage} \cap {"sent", "authorized"} = {}
                 PROVE  "refused" \in {slips'[i].stage, slips'[j].stage}
    BY DEF DebitedOnce
  <2>2. i \in DOMAIN slips /\ j \in DOMAIN slips
    BY <1>4, <2>1
  <2> QED
    BY <1>3, <2>1, <2>2 DEF SlipsInv, DebitedOnce
<1> QED
  BY <1>5, <1>6, <1>7, <1>8 DEF SlipsInv

\* A request that is not signed yet goes on.
LEMMA SlipGoesOn ==
  ASSUME SlipsInv, SessionInv, NEW i \in DOMAIN slips, NEW stage \in SlipStages,
         slips[i].stage # "signed", SlipTo(i, stage), ledger' \in Ledgers, UNCHANGED past,
         \A a \in Accounts : fsa.nonces[a] <= fsa'.nonces[a] /\ fsa'.nonces[a] \in Nat,
         stage \in {"authorized", "advanced"} => slips[i].user # Evm,
         \/ stage \notin Past \/ slips[i].stage \in Past \/ slips[i].user = Evm
         \/ /\ fsa.nonces[slips[i].user] < slips[i].nonce
            /\ slips[i].nonce <= fsa'.nonces[slips[i].user]
  PROVE  SlipsInv' /\ SlipsGrow
<1>0. slips \in Seq(Slip) /\ \A a \in Accounts : fsa.nonces[a] \in Nat
  BY DEF SlipsInv, SlipsShape, SessionInv, SessionShape
<1>1. DOMAIN slips = 1..Len(slips) /\ slips \in [DOMAIN slips -> Slip] /\ Len(slips) \in Nat
  BY <1>0
<1>2. PICK s : s = [slips[i] EXCEPT !.stage = stage]
  OBVIOUS
<1>3. /\ s \in Slip /\ s.user = slips[i].user /\ s.key = slips[i].key /\ s.nonce = slips[i].nonce
      /\ s.amount = slips[i].amount /\ s.stage = stage
  BY <1>1, <1>2 DEF Slip
<1>4. /\ DOMAIN slips' = DOMAIN slips /\ slips'[i] = s
      /\ \A j \in DOMAIN slips \ {i} : slips'[j] = slips[j]
      /\ slips' \in Seq(Slip)
  <2>1. slips' = [slips EXCEPT ![i] = s]
    BY <1>2 DEF SlipTo
  <2> QED
    BY <1>0, <1>1, <1>3, <2>1
<1>5. \A j \in DOMAIN slips : /\ slips'[j].user = slips[j].user /\ slips'[j].key = slips[j].key
                              /\ slips'[j].nonce = slips[j].nonce /\ slips'[j].amount = slips[j].amount
  BY <1>3, <1>4
<1>6. SlipsGrow
  BY <1>4, <1>5 DEF SlipsGrow
<1>7. SlipsShape'
  BY <1>3, <1>4, <1>5 DEF SlipsInv, SlipsShape
<1>8. NoncesTaken'
  <2> SUFFICES ASSUME ~past.restarted, NEW j \in DOMAIN slips, slips[j].user # Evm, slips'[j].stage \in Past
               PROVE  slips[j].nonce <= fsa'.nonces[slips[j].user]
    BY <1>4, <1>5 DEF NoncesTaken, Past
  <2>1. slips[j].user \in Accounts /\ slips[j].nonce \in Nat
    BY <1>1 DEF Slip, Users
  <2>2. CASE slips[j].stage \in Past
    <3>1. slips[j].nonce <= fsa.nonces[slips[j].user]
      BY <2>2 DEF SlipsInv, NoncesTaken, Past
    <3> QED
      BY <1>0, <2>1, <3>1
  <2>3. CASE slips[j].stage \notin Past
    BY <1>3, <1>4, <2>1, <2>3
  <2> QED
    BY <2>2, <2>3
<1>9. DebitedOnce'
  <2>1. SUFFICES ASSUME ~past.restarted, NEW j \in DOMAIN slips, NEW k \in DOMAIN slips, j # k,
                        slips[j].user # Evm, slips[j].user = slips[k].user, slips[j].nonce = slips[k].nonce,
                        slips'[j].stage \in Past, slips'[k].stage \in Past
                 PROVE  FALSE
    <3>1. \A j \in DOMAIN slips : slips'[j].stage \in SlipStages
      BY <1>1, <1>3, <1>4 DEF Slip
    <3> QED
      BY <1>4, <1>5, <3>1 DEF DebitedOnce, Past, SlipStages
  <2>2. ~(slips[j].stage \in Past /\ slips[k].stage \in Past)
    BY <2>1 DEF SlipsInv, DebitedOnce, Past
  <2>3. \A n \in {j, k} : n # i => slips[n].stage \in Past
    BY <1>4, <2>1
  <2>4. i \in {j, k} /\ slips[i].stage \notin Past
    BY <2>2, <2>3
  <2>5. PICK n \in {j, k} : n # i
    BY <2>1
  <2>6. slips[n].nonce <= fsa.nonces[slips[n].user] /\ slips[n].user = slips[i].user /\ slips[n].nonce = slips[i].nonce
    BY <2>1, <2>3, <2>4, <2>5 DEF SlipsInv, NoncesTaken, Past
  <2>7. fsa.nonces[slips[i].user] < slips[i].nonce
    BY <1>3, <1>4, <2>1, <2>4
  <2>8. slips[i].nonce \in Nat /\ slips[i].user \in Accounts
    BY <1>1, <2>1, <2>4 DEF Slip, Users
  <2> QED
    BY <1>0, <2>6, <2>7, <2>8
<1> QED
  BY <1>6, <1>7, <1>8, <1>9 DEF SlipsInv

\* Nothing happens to the requests; the nonces only go up.
LEMMA SlipsStay ==
  ASSUME SlipsInv, SessionInv, UNCHANGED slips, ledger' \in Ledgers,
         past.connected \subseteq past'.connected, past'.restarted = past.restarted,
         \A a \in Accounts : fsa.nonces[a] <= fsa'.nonces[a] /\ fsa'.nonces[a] \in Nat
  PROVE  SlipsInv' /\ SlipsGrow
<1>1. SlipsGrow
  BY DEF SlipsGrow
<1>2. SlipsShape' /\ DebitedOnce'
  BY DEF SlipsInv, SlipsShape, DebitedOnce
<1>3. NoncesTaken'
  <2> SUFFICES ASSUME ~past.restarted, NEW i \in DOMAIN slips, slips[i].user # Evm,
                      slips[i].stage \in {"advanced", "debited", "signed", "lost"}
               PROVE  slips[i].nonce <= fsa'.nonces[slips[i].user]
    BY DEF NoncesTaken
  <2>1. slips[i] \in Slip
    BY DEF SlipsInv, SlipsShape
  <2>2. slips[i].nonce <= fsa.nonces[slips[i].user]
    BY DEF SlipsInv, NoncesTaken
  <2>3. fsa.nonces \in [Accounts -> Nat]
    BY DEF SessionInv, SessionShape
  <2> QED
    BY <2>1, <2>2, <2>3 DEF Slip, Users
<1> QED
  BY <1>1, <1>2, <1>3 DEF SlipsInv

\* Deposits under way are of users.
Credited == [user : Users, amount : Nat, done : BOOLEAN]
CreditsShape == credits \in Seq(Credited)

\* A user who is there is MetaMask's, or an account connected once.
LEMMA IdentityIs ==
  ASSUME SessionInv, Identity # None
  PROVE  /\ Identity \in Users
         /\ Identity # Evm => Identity \in past.connected /\ Identity = xaman.account
BY DEF SessionInv, SessionShape, Identity, Users

\* A step of the session takes no nonce back and forgets no account.
LEMMA SessionAdds ==
  ASSUME SessionInv, SessionStep \/ SessionUser \/ SessionScan
  PROVE  /\ past.connected \subseteq past'.connected /\ past'.restarted = past.restarted
         /\ \A a \in Accounts : fsa.nonces[a] <= fsa'.nonces[a] /\ fsa'.nonces[a] \in Nat
         /\ xaman'.account # xaman.account => xaman'.account \in past'.connected \cup {None}
<1>0. /\ fsa.nonces \in [Accounts -> Nat] /\ past.connected \in SUBSET Accounts
      /\ past \in [mixed : BOOLEAN, restarted : BOOLEAN, forgot : BOOLEAN, connected : SUBSET Accounts]
      /\ fsa \in [bindings : [Accounts -> MaybeKey], nonces : [Accounts -> Nat]]
  BY DEF SessionInv, SessionShape
<1>s. SessionInv'
  BY SessionKept DEF SessionMoves
<1>1. xaman'.account # None => xaman'.account \in past'.connected
  BY <1>s DEF SessionInv, SessionShape
<1>2. CASE UNCHANGED fsa /\ past'.connected \in {past.connected, past.connected \cup {conn.account}} /\ past'.restarted = past.restarted
  BY <1>0, <1>1, <1>2
<1>3. CASE SessionUser \/ SessionScan
  <2>1. UNCHANGED fsa /\ \/ UNCHANGED past \/ past' = [past EXCEPT !.forgot = FALSE]
                         \/ past' = [past EXCEPT !.mixed = TRUE]
    BY <1>3 DEF SessionUser, SessionScan, DisconnectXaman, SelectXaman, SelectEvm, SignIn, SignBind
  <2> QED
    BY <1>0, <1>2, <2>1
<1>4. CASE Lookup \/ ConnectFails \/ Resolve \/ \E m \in binds : BindAnswer(m)
  <2>1. UNCHANGED fsa /\ (UNCHANGED past \/ past' = Remember(conn) \/ \E k : past' = Remember([conn EXCEPT !.key = k]))
    <3>1. CASE Lookup \/ ConnectFails \/ \E m \in binds : BindAnswer(m)
      BY <3>1 DEF Lookup, ConnectFails, BindAnswer
    <3>2. CASE Resolve
      BY <3>2 DEF Resolve
    <3> QED
      BY <1>4, <3>1, <3>2
  <2>2. \A k : [conn EXCEPT !.key = k].account = conn.account
    BY DEF SessionInv, SessionShape, Conn
  <2>3. UNCHANGED past \/ past' = [past EXCEPT !.connected = @ \cup {conn.account}]
    BY <2>1, <2>2 DEF Remember
  <2> QED
    BY <1>0, <1>2, <2>1, <2>3
<1>5. CASE \E m \in binds : BindAdvance(m) \/ BindSet(m)
  <2>1. PICK m \in binds : BindAdvance(m) \/ BindSet(m)
    BY <1>5
  <2>2. m.account \in Accounts /\ m.nonce \in Nat
    BY DEF SessionInv, SessionShape, Bind
  <2>3. UNCHANGED past /\ \/ fsa'.nonces = fsa.nonces
                          \/ m.nonce > fsa.nonces[m.account] /\ fsa'.nonces = [fsa.nonces EXCEPT ![m.account] = m.nonce]
    BY <1>0, <2>1 DEF BindAdvance, BindSet, Advances
  <2> QED
    BY <1>0, <1>1, <2>2, <2>3
<1> QED
  BY <1>3, <1>4, <1>5 DEF SessionStep

\* What the page knows of an operation.
Operation == [step : {"idle", "approve", "flow", "confirm", "request", "carry", "poll"},
              user : Users \cup {None}, id : Nat, amount : Nat, at : Nat]

\* There are finitely many users.
LEMMA UsersFinite == IsFiniteSet(Users)
BY SessionAssumption, FS_AddElement DEF Users

\* A uint64, and what is cut to one.
LEMMA Cut ==
  ASSUME NEW x \in Nat
  PROVE  /\ Truncated(x) \in 0..(Word - 1) /\ Truncated(x) <= x
         /\ \A b \in Nat : Plus(b, x) \in 0..(Word - 1) /\ Plus(b, x) <= b + x
<1>1. Word \in Nat \ {0}
  BY FundsAssumption
<1>2. \A y \in Nat : y % Word \in 0..(Word - 1) /\ y % Word <= y
  BY <1>1, SMT
<1>3. \A b \in Nat : b + x \in Nat
  OBVIOUS
<1> QED
  BY <1>2, <1>3 DEF Truncated, Plus

\* What the TEE should have in its ledger grows by m.
MissesBy(m) == vault' = [vault EXCEPT !.missing = @ + m]
Missed == UNCHANGED vault \/ \E m \in Nat : MissesBy(m)

\* A deposit: what does not reach the balance is missing from then on.
LEMMA DepositIs ==
  ASSUME ledger \in Ledgers, NEW user \in Users, NEW x \in Nat, NEW should \in Nat, x <= should,
         Deposit(user, x, should)
  PROVE  /\ ledger' \in Ledgers /\ \A v \in Users : v # user => ledger'[v] = ledger[v]
         /\ \E m \in Nat : MissesBy(m) /\ ledger'[user] + m = ledger[user] + should
<1>1. PICK b : b = ledger[user]
  OBVIOUS
<1>2. PICK c : c = Plus(b, x)
  OBVIOUS
<1>3. Word \in Nat \ {0} /\ b \in Nat
  BY <1>1, FundsAssumption DEF Ledgers
<1>4. c \in 0..(Word - 1) /\ c <= b + x
  BY <1>2, <1>3, Cut
<1>5. ledger' = [ledger EXCEPT ![user] = c]
  BY <1>1, <1>2 DEF Deposit
<1>6. ledger' \in Ledgers /\ ledger'[user] = c /\ \A v \in Users : v # user => ledger'[v] = ledger[v]
  BY <1>4, <1>5 DEF Ledgers
<1>7. PICK m : m = b + should - c
  OBVIOUS
<1>8. m \in Nat /\ c + m = b + should
  BY <1>3, <1>4, <1>7
<1>9. MissesBy(m)
  BY <1>1, <1>6, <1>7 DEF Deposit, MissesBy
<1> QED
  BY <1>1, <1>6, <1>8, <1>9

\* A deposit credited, or a debit taken back, is a deposit of what is due.
LEMMA CreditIs ==
  ASSUME SlipsInv, CreditsShape, NEW i \in DOMAIN credits, Credit(i)
  PROVE  /\ credits[i] \in Credited /\ Deposit(credits[i].user, Truncated(credits[i].amount), credits[i].amount)
         /\ credits[i].user \in Users /\ credits[i].amount \in Nat
         /\ Truncated(credits[i].amount) \in Nat /\ Truncated(credits[i].amount) <= credits[i].amount
<1>1. credits[i] \in Credited
  BY DEF CreditsShape
<1>2. credits[i].user \in Users /\ credits[i].amount \in Nat
  BY <1>1 DEF Credited
<1>3. Truncated(credits[i].amount) \in Nat /\ Truncated(credits[i].amount) <= credits[i].amount
  <2>1. Truncated(credits[i].amount) \in 0..(Word - 1) /\ Truncated(credits[i].amount) <= credits[i].amount
    BY <1>2, Cut, Zenon
  <2> QED
    BY <2>1, FundsAssumption
<1> QED
  BY <1>1, <1>2, <1>3 DEF Credit

\* A request is a user's, of an amount that is due in uint64.
LEMMA DueIs ==
  ASSUME SlipsInv, NEW i \in DOMAIN slips
  PROVE  slips[i] \in Slip /\ slips[i].user \in Users /\ slips[i].amount \in Nat /\ Due(slips[i]) \in 0..(Word - 1)
<1>1. slips[i] \in Slip
  BY DEF SlipsInv, SlipsShape
<1>2. slips[i].user \in Users /\ slips[i].amount \in Nat
  BY <1>1 DEF Slip
<1> QED
  BY <1>1, <1>2, Cut DEF Due

\* Of the vault the TEE's steps touch only what is missing.
LEMMA TeeVault ==
  ASSUME SlipsInv, CreditsShape, TeeAction
  PROVE  Missed
<1>l. ledger \in Ledgers
  BY DEF SlipsInv, SlipsShape
<1>1. ASSUME NEW i \in DOMAIN credits, Credit(i) PROVE Missed
  <2>1. PICK x \in Nat, should \in Nat, user \in Users : x <= should /\ Deposit(user, x, should)
    BY <1>1, CreditIs
  <2> QED
    BY <1>l, <2>1, DepositIs DEF Missed
<1>2. ASSUME NEW i \in DOMAIN slips, Redelivered(i) \/ Authorize(i) \/ UseNonce(i) \/ Debit(i) PROVE Missed
  BY <1>2 DEF Redelivered, Authorize, UseNonce, Debit, Missed
<1>3. ASSUME NEW i \in DOMAIN slips, Sign(i) PROVE Missed
  <2>1. slips[i].user \in Users /\ Due(slips[i]) \in Nat /\ Due(slips[i]) <= Due(slips[i])
    BY DueIs
  <2>2. UNCHANGED vault \/ Deposit(slips[i].user, Due(slips[i]), Due(slips[i]))
    BY <1>3 DEF Sign
  <2> QED
    BY <1>l, <2>1, <2>2, DepositIs DEF Missed
<1> QED
  BY <1>1, <1>2, <1>3 DEF TeeAction

\* Of the vault a restart touches only what is missing.
LEMMA RestartMisses ==
  ASSUME SlipsInv, TeeRestart
  PROVE  Missed
<1>1. ledger \in [Users -> Nat]
  BY FundsAssumption DEF SlipsInv, SlipsShape, Ledgers
<1>2. Total(ledger) \in Nat
  BY <1>1, UsersFinite, UnitsFinite
<1>3. UNCHANGED vault \/ MissesBy(Total(ledger))
  BY DEF TeeRestart, FundsTeeRestart, MissesBy
<1> QED
  BY <1>2, <1>3 DEF Missed

\* The TEE's steps keep what is known of the requests.
LEMMA TeeKeepsSlips ==
  ASSUME SlipsInv, SessionInv, CreditsShape, TeeAction
  PROVE  SlipsInv' /\ SlipsGrow
<1>1. UNCHANGED past
  BY TeeFrame
<1>2. slips \in Seq(Slip) /\ slips \in [DOMAIN slips -> Slip] /\ ledger \in Ledgers
  BY DEF SlipsInv, SlipsShape
<1>3. fsa.nonces \in [Accounts -> Nat] /\ fsa \in [bindings : [Accounts -> MaybeKey], nonces : [Accounts -> Nat]]
      /\ past.connected \subseteq past'.connected /\ past'.restarted = past.restarted
  BY <1>1 DEF SessionInv, SessionShape
<1>4. UNCHANGED fsa => \A a \in Accounts : fsa.nonces[a] <= fsa'.nonces[a] /\ fsa'.nonces[a] \in Nat
  BY <1>3
<1>5. ASSUME NEW i \in DOMAIN credits, Credit(i) PROVE SlipsInv' /\ SlipsGrow
  <2>1. UNCHANGED <<fsa, slips>>
    BY <1>5 DEF Credit, sessionVars
  <2>2. ledger' \in Ledgers
    BY <1>2, <1>5, CreditIs, DepositIs
  <2> QED
    BY <1>3, <1>4, <2>1, <2>2, SlipsStay
<1>6. ASSUME NEW i \in DOMAIN slips, Redelivered(i) PROVE SlipsInv' /\ SlipsGrow
  <2>1. PICK s : s = [slips[i] EXCEPT !.stage = "sent"]
    OBVIOUS
  <2>2. UNCHANGED <<fsa, ledger>> /\ slips' = Append(slips, s)
    BY <1>6, <2>1 DEF Redelivered, sessionVars
  <2>3. s \in Slip /\ s.stage = "sent" /\ s.user = slips[i].user
    BY <1>2, <2>1 DEF Slip, SlipStages
  <2>4. s.user # Evm => s.user \in past.connected
    BY <2>3 DEF SlipsInv, SlipsShape
  <2> QED
    BY <1>1, <2>2, <2>3, <2>4, SlipAdded
<1>7. ASSUME NEW i \in DOMAIN slips, Authorize(i) PROVE SlipsInv' /\ SlipsGrow
  <2>1. PICK stage \in {"authorized", "refused"} : SlipTo(i, stage)
    BY <1>7 DEF Authorize
  <2>2. UNCHANGED <<fsa, ledger>> /\ slips[i].stage = "sent" /\ slips[i].user # Evm
    BY <1>7 DEF Authorize, sessionVars
  <2> QED
    BY <1>1, <1>2, <1>4, <2>1, <2>2, SlipGoesOn DEF SlipStages, Past
<1>8. ASSUME NEW i \in DOMAIN slips, UseNonce(i) PROVE SlipsInv' /\ SlipsGrow
  <2>1. slips[i].stage = "authorized" /\ slips[i].user # Evm /\ slips[i].user \in Accounts /\ slips[i].nonce \in Nat
        /\ UNCHANGED ledger
    BY <1>2, <1>8 DEF UseNonce, SlipsInv, SlipsShape, Slip, Users
  <2>2. CASE fsa' = [fsa EXCEPT !.nonces[slips[i].user] = slips[i].nonce] /\ SlipTo(i, "advanced")
             /\ slips[i].nonce > fsa.nonces[slips[i].user]
    <3>1. /\ \A a \in Accounts : fsa.nonces[a] <= fsa'.nonces[a] /\ fsa'.nonces[a] \in Nat
          /\ fsa.nonces[slips[i].user] < slips[i].nonce
          /\ slips[i].nonce <= fsa'.nonces[slips[i].user]
      BY <1>3, <2>1, <2>2
    <3> QED
      BY <1>1, <1>2, <2>1, <2>2, <3>1, SlipGoesOn DEF SlipStages
  <2>3. CASE UNCHANGED fsa /\ SlipTo(i, "refused")
    BY <1>1, <1>2, <1>4, <2>1, <2>3, SlipGoesOn DEF SlipStages, Past
  <2> QED
    BY <1>8, <2>2, <2>3 DEF UseNonce, Advances
<1>9. ASSUME NEW i \in DOMAIN slips, Debit(i) PROVE SlipsInv' /\ SlipsGrow
  <2>1. /\ slips[i].stage \in {"sent", "advanced"} /\ UNCHANGED fsa
        /\ slips[i].user = Evm \/ slips[i].stage \in Past
        /\ slips[i].user \in Users
    BY <1>2, <1>9 DEF Debit, sessionVars, Past, Slip
  <2>2. PICK stage \in {"debited", "refused"} : SlipTo(i, stage)
    BY <1>9 DEF Debit
  <2>3. ledger' \in Ledgers
    <3>1. PICK n : n = ledger[slips[i].user] - Due(slips[i])
      OBVIOUS
    <3>2. UNCHANGED ledger \/ (ledger' = [ledger EXCEPT ![slips[i].user] = n] /\ ledger[slips[i].user] >= Due(slips[i]))
      BY <1>9, <3>1 DEF Debit, Covers
    <3>3. Due(slips[i]) \in Nat /\ ledger[slips[i].user] \in 0..(Word - 1) /\ Word \in Nat
      BY <1>2, <2>1, DueIs, FundsAssumption DEF Ledgers
    <3>4. ledger[slips[i].user] >= Due(slips[i]) => n \in 0..(Word - 1)
      BY <3>1, <3>3
    <3> QED
      BY <1>2, <2>1, <3>2, <3>4 DEF Ledgers
  <2> QED
    BY <1>1, <1>4, <2>1, <2>2, <2>3, SlipGoesOn DEF SlipStages, Past
<1>10. ASSUME NEW i \in DOMAIN slips, Sign(i) PROVE SlipsInv' /\ SlipsGrow
  <2>1. slips[i].stage = "debited" /\ UNCHANGED fsa /\ slips[i].user \in Users
    BY <1>2, <1>10 DEF Sign, sessionVars, Slip
  <2>2. PICK stage \in {"signed", "refused"} : SlipTo(i, stage)
    BY <1>10 DEF Sign
  <2>3. ledger' \in Ledgers
    <3>1. UNCHANGED ledger \/ Deposit(slips[i].user, Due(slips[i]), Due(slips[i]))
      BY <1>10 DEF Sign
    <3>2. Due(slips[i]) \in Nat /\ Due(slips[i]) <= Due(slips[i])
      BY DueIs
    <3> QED
      BY <1>2, <2>1, <3>1, <3>2, DepositIs
  <2> QED
    BY <1>1, <1>4, <2>1, <2>2, <2>3, SlipGoesOn DEF SlipStages, Past
<1> QED
  BY <1>5, <1>6, <1>7, <1>8, <1>9, <1>10 DEF TeeAction

\* A restart forgets the nonces, and the requests being handled are lost.
LEMMA RestartKeepsSlips ==
  ASSUME SlipsInv, SessionInv, TeeRestart
  PROVE  SlipsInv' /\ SlipsGrow
<1>1. slips \in Seq(Slip) /\ slips \in [DOMAIN slips -> Slip] /\ DOMAIN slips = 1..Len(slips) /\ Len(slips) \in Nat
  BY DEF SlipsInv, SlipsShape
<1> DEFINE to(s) == CASE s.stage \in {"authorized", "advanced"} -> "refused"
                      [] s.stage = "debited" -> "lost" [] OTHER -> s.stage
           lose(s) == [s EXCEPT !.stage = to(s)]
<1>2. \A s \in Slip : /\ lose(s) \in Slip /\ lose(s).user = s.user /\ lose(s).key = s.key /\ lose(s).nonce = s.nonce
                      /\ lose(s).amount = s.amount /\ lose(s).stage = to(s) /\ to(s) \notin {"authorized", "advanced"}
                      /\ s.stage = "signed" => to(s) = "signed"
  BY DEF Slip, SlipStages
<1>3. slips' = [i \in DOMAIN slips |-> lose(slips[i])]
  BY DEF TeeRestart, FundsTeeRestart
<1>l. ledger' \in Ledgers
  <2>1. Word \in Nat \ {0}
    BY FundsAssumption
  <2> QED
    BY <2>1 DEF TeeRestart, FundsTeeRestart, SlipsInv, SlipsShape, Ledgers
<1> HIDE DEF lose, to
<1>4. slips' \in Seq(Slip) /\ DOMAIN slips' = DOMAIN slips
  <2>1. slips' \in [1..Len(slips) -> Slip]
    BY <1>1, <1>2, <1>3
  <2> QED
    BY <1>1, <2>1
<1>5. SlipsGrow
  BY <1>1, <1>2, <1>3 DEF SlipsGrow
<1>6. past'.restarted /\ past'.connected = past.connected
  BY DEF TeeRestart, SessionTeeRestart, SessionInv, SessionShape
<1>7. SlipsShape'
  BY <1>1, <1>2, <1>3, <1>4, <1>6, <1>l DEF SlipsInv, SlipsShape
<1> QED
  BY <1>5, <1>6, <1>7 DEF SlipsInv, NoncesTaken, DebitedOnce

\* A new request is a connected account's, or MetaMask's.
LEMMA NewSlipKeepsSlips ==
  ASSUME SlipsInv, SessionInv, wd \in Operation, NewSlip
  PROVE  SlipsInv' /\ SlipsGrow
<1>1. UNCHANGED <<ledger, fsa, past>>
  BY NewSlipFrame
<1>2. PICK s : /\ s \in Slip /\ s.stage = "sent" /\ (s.user # Evm => s.user \in past.connected)
               /\ slips' = Append(slips, s) \/ UNCHANGED slips
  <2>1. PICK user, key, nonce, amount : /\ user \in Users /\ (user # Evm => user \in past.connected)
                                        /\ key \in MaybeKey /\ nonce \in Nat /\ amount \in Nat
                                        /\ slips' = Requested(user, key, nonce, amount) \/ UNCHANGED slips
    <3>1. CASE StartWithdraw
      <4>1. Identity \in Users /\ (Identity # Evm => Identity \in past.connected) /\ xaman.key \in MaybeKey /\ now + 1 \in Nat
        BY <3>1, IdentityIs DEF StartWithdraw, CanWithdraw, SessionInv, SessionShape
      <4>2. PICK x \in Amounts : slips' = Requested(Identity, xaman.key, now + 1, x) \/ UNCHANGED slips
        BY <3>1 DEF StartWithdraw
      <4>3. x \in Nat
        BY FundsAssumption
      <4> QED
        BY <4>1, <4>2, <4>3
    <3>2. CASE EvmConfirms
      <4>1. Evm \in Users /\ NoKey \in MaybeKey /\ 0 \in Nat /\ wd.amount \in Nat
        BY DEF MaybeKey, Users, Operation
      <4> QED
        BY <3>2, <4>1 DEF EvmConfirms
    <3> QED
      BY <3>1, <3>2 DEF NewSlip
  <2>2. [user |-> user, key |-> key, nonce |-> nonce, amount |-> amount, stage |-> "sent"] \in Slip
    BY <2>1 DEF Slip, SlipStages
  <2> QED
    BY <2>1, <2>2 DEF Requested
<1>3. CASE slips' = Append(slips, s)
  BY <1>1, <1>2, <1>3, SlipAdded
<1>4. CASE UNCHANGED slips
  BY <1>1, <1>4 DEF SlipsInv, SlipsShape, NoncesTaken, DebitedOnce, SlipsGrow
<1> QED
  BY <1>2, <1>3, <1>4

\* Every step of the whole keeps what is known of the requests.
LEMMA SlipsKept ==
  ASSUME SlipsInv, SessionInv, CreditsShape, wd \in Operation, Next
  PROVE  SlipsInv' /\ SlipsGrow
<1>1. fsa.nonces \in [Accounts -> Nat] /\ ledger \in Ledgers
  BY DEF SessionInv, SessionShape, SlipsInv, SlipsShape
<1>2. CASE UNCHANGED <<fsa, past, ledger, slips>>
  BY <1>2 DEF SlipsInv, SlipsShape, NoncesTaken, DebitedOnce, SlipsGrow
<1>3. CASE SessionAction
  <2>1. UNCHANGED <<slips, ledger>>
    BY <1>3, SessionFrame
  <2> QED
    BY <1>1, <1>3, <2>1, SessionAdds, SlipsStay DEF SessionAction
<1>4. CASE FsaAction \/ FaucetAction \/ OpAction \/ CallAction
  BY <1>2, <1>4, FsaFrame, FaucetFrame, OpFrame, CallFrame
<1>5. CASE Reload
  BY <1>2, <1>5 DEF Reload, SessionReload, FundsReload, teeVars
<1> QED
  BY <1>3, <1>4, <1>5, Kinds, NewSlipKeepsSlips, TeeKeepsSlips, RestartKeepsSlips

\* What a step of the whole does to the session.
LEMMA SessionMoved ==
  ASSUME SessionInv, SlipsInv, Next
  PROVE  SessionMoves
<1>1. CASE UNCHANGED <<now, xaman, evm, conn, keyStore, fsa, binds, past>>
  BY <1>1 DEF SessionMoves, sessionVars
<1>2. CASE NewSlip
  <2>1. now' \in {now, now + 1}
    BY <1>2 DEF NewSlip, StartWithdraw, EvmConfirms, sessionVars
  <2> QED
    BY <1>1, <1>2, <2>1, NewSlipFrame DEF SessionMoves, ClockTicks
<1>3. CASE TeeAction
  <2>1. CASE UNCHANGED fsa
    BY <1>1, <1>3, <2>1, TeeFrame
  <2>2. ASSUME NEW i \in DOMAIN slips, UseNonce(i) PROVE UNCHANGED fsa \/ NonceTaken
    <3>1. slips[i].stage = "authorized" /\ slips[i] \in Slip
      BY <2>2 DEF UseNonce, SlipsInv, SlipsShape
    <3>2. slips[i].user \in Accounts /\ slips[i].nonce \in Nat
      BY <3>1 DEF SlipsInv, SlipsShape, Slip, Users
    <3>3. UNCHANGED fsa \/ (/\ slips[i].nonce > fsa.nonces[slips[i].user]
                            /\ fsa' = [fsa EXCEPT !.nonces[slips[i].user] = slips[i].nonce])
      BY <2>2 DEF UseNonce, Advances
    <3> QED
      BY <1>3, <3>2, <3>3, TeeFrame DEF NonceTaken
  <2>3. \/ UNCHANGED fsa \/ \E i \in DOMAIN slips : UseNonce(i)
    <3>1. ASSUME NEW i, Credit(i) \/ Redelivered(i) \/ Authorize(i) \/ Debit(i) \/ Sign(i) PROVE UNCHANGED fsa
      BY <3>1 DEF Credit, Redelivered, Authorize, Debit, Sign, sessionVars
    <3> QED
      BY <1>3, <3>1 DEF TeeAction
  <2> QED
    BY <2>1, <2>2, <2>3 DEF SessionMoves
<1>4. CASE SessionAction
  BY <1>4 DEF SessionAction, SessionMoves
<1>5. CASE FsaAction \/ FaucetAction \/ OpAction \/ CallAction
  BY <1>1, <1>5, FsaFrame, FaucetFrame, OpFrame, CallFrame
<1>6. CASE TeeRestart \/ Reload
  BY <1>6 DEF TeeRestart, Reload, SessionMoves
<1> QED
  BY <1>2, <1>3, <1>4, <1>5, <1>6, Kinds

-----------------------------------------------------------------------------
(* Payments.                                                               *)

Requests == [account : Accounts, nonce : Nat,
             state : {"built", "open", "signed", "rejected", "executed", "parked", "void"},
             left : BOOLEAN]
\* The request's payment has been signed.
SignedOff == {"signed", "executed", "parked", "void"}

FsaShape ==
  /\ mac \in [nonces : [Accounts -> Nat], approved : SUBSET Accounts]
  /\ reqs \in Seq(Requests)
  /\ flow \in [step : FlowSteps, req : Nat] /\ flow.req \in 0..Len(reqs)
  /\ flow.step \in FSA_STAGES => flow.req \in DOMAIN reqs
  /\ pending \in [Accounts -> Int]
  /\ \A a \in Accounts : pending[a] <= mac.nonces[a]
  /\ \A i \in DOMAIN reqs : reqs[i].nonce <= mac.nonces[reqs[i].account]

\* A flow under way is about the account's newest request; only such a one is open
\* and not left.
FlowIsNewest ==
  /\ flow.step \in FSA_STAGES =>
       \A i \in DOMAIN reqs : reqs[i].account = Payer => reqs[i].nonce <= Mine.nonce
  /\ flow.step = "request" => Mine.state = "built"
  /\ flow.step = "sign" => Mine.state # "built"
  /\ flow.step \in {"request", "sign"} => ~Mine.left
  /\ \A i \in DOMAIN reqs : (reqs[i].state = "open" /\ ~reqs[i].left)
                              => flow.step = "sign" /\ i = flow.req

Same(i, j) == reqs[i].account = reqs[j].account /\ reqs[i].nonce = reqs[j].nonce

\* Each nonce consumed was consumed by a payment.
Consumed ==
  \A a \in Accounts : \A n \in 0..(mac.nonces[a] - 1) :
     \E i \in DOMAIN reqs : reqs[i].account = a /\ reqs[i].nonce = n /\ reqs[i].state = "executed"

\* A signed payment that the page has seen is recorded until its nonce has passed.
SeenRecorded ==
  \A i \in DOMAIN reqs :
     (reqs[i].state \in SignedOff /\ ~reqs[i].left /\ ~(flow.step = "sign" /\ flow.req = i))
       => \/ reqs[i].nonce < mac.nonces[reqs[i].account]
          \/ reqs[i].nonce <= pending[reqs[i].account]

\* So a request is made only when every signed payment of its nonce was left.
Alone ==
  flow.step \in {"request", "sign"} =>
    \A i \in DOMAIN reqs \ {flow.req} :
       Same(i, flow.req) /\ reqs[i].state \in SignedOff => reqs[i].left

\* PaymentGuarded, of pairs of requests: two payments signed for one nonce, and a
\* parked one.
OneOfTwoLeft ==
  \A i, j \in DOMAIN reqs :
     (i # j /\ Same(i, j) /\ reqs[i].state \in {"signed", "executed"} /\ ~reqs[i].left
        /\ reqs[j].state \in SignedOff) => reqs[j].left
ParkedForReason ==
  \A i \in DOMAIN reqs : reqs[i].state = "parked" =>
     \E j \in DOMAIN reqs : /\ j # i /\ Same(i, j) /\ reqs[j].state \in SignedOff
                            /\ reqs[i].left \/ reqs[j].left

PaymentInv ==
  FsaShape /\ FlowIsNewest /\ Consumed /\ SeenRecorded /\ Alone /\ OneOfTwoLeft /\ ParkedForReason

\* The page has one flow, and it belongs to the deposit that waits for it.
FlowOfDeposit == flow.step # "idle" => dep.step = "flow"

\* The two readings of PaymentGuarded.
LEMMA GuardedInPairs ==
  ASSUME OneOfTwoLeft, ParkedForReason
  PROVE  PaymentGuarded
<1> SUFFICES ASSUME NEW i \in DOMAIN reqs
             PROVE  /\ (reqs[i].state \in {"signed", "executed"} /\ ~reqs[i].left) => \A j \in Rivals(i) : reqs[j].left
                    /\ reqs[i].state = "parked" => \E j \in Rivals(i) : reqs[i].left \/ reqs[j].left
  BY DEF PaymentGuarded
<1>1. \A j : j \in Rivals(i) <=> (j \in DOMAIN reqs /\ j # i /\ Same(i, j) /\ reqs[j].state \in SignedOff)
  BY DEF Rivals, Same, SignedOff
<1>2. (reqs[i].state \in {"signed", "executed"} /\ ~reqs[i].left) => \A j \in Rivals(i) : reqs[j].left
  BY <1>1 DEF OneOfTwoLeft
<1>3. reqs[i].state = "parked" => \E j \in Rivals(i) : reqs[i].left \/ reqs[j].left
  BY <1>1 DEF ParkedForReason
<1> QED
  BY <1>2, <1>3

\* One request has changed its state, and nothing else of the requests has changed.
GoneOn(i, s) ==
  /\ reqs' \in Seq(Requests) /\ Len(reqs') = Len(reqs) /\ DOMAIN reqs' = DOMAIN reqs
  /\ \A j \in DOMAIN reqs : /\ reqs'[j].account = reqs[j].account /\ reqs'[j].nonce = reqs[j].nonce
                            /\ reqs'[j].left = reqs[j].left
                            /\ reqs'[j].state = IF j = i THEN s ELSE reqs[j].state

\* The state of a request changes.
LEMMA RequestGoesOn ==
  ASSUME FsaShape, NEW i \in DOMAIN reqs,
         NEW s \in {"built", "open", "signed", "rejected", "executed", "parked", "void"},
         reqs' = [reqs EXCEPT ![i].state = s]
  PROVE  GoneOn(i, s)
<1>1. reqs \in Seq(Requests) /\ reqs \in [DOMAIN reqs -> Requests] /\ DOMAIN reqs = 1..Len(reqs) /\ Len(reqs) \in Nat
  BY DEF FsaShape
<1>2. PICK r : r = [reqs[i] EXCEPT !.state = s]
  OBVIOUS
<1>3. r \in Requests /\ r.account = reqs[i].account /\ r.nonce = reqs[i].nonce /\ r.left = reqs[i].left /\ r.state = s
  BY <1>1, <1>2 DEF Requests
<1>4. reqs' = [reqs EXCEPT ![i] = r]
  BY <1>2
<1>5. reqs' \in Seq(Requests) /\ Len(reqs') = Len(reqs) /\ DOMAIN reqs' = DOMAIN reqs
  BY <1>1, <1>3, <1>4
<1> QED
  BY <1>1, <1>3, <1>4, <1>5 DEF GoneOn

\* A request is replaced by another record.
LEMMA RequestReplaced ==
  ASSUME FsaShape, NEW i \in DOMAIN reqs, NEW r \in Requests, NEW new, new = [reqs EXCEPT ![i] = r]
  PROVE  /\ new \in Seq(Requests) /\ Len(new) = Len(reqs) /\ DOMAIN new = DOMAIN reqs
         /\ new[i] = r /\ \A j \in DOMAIN reqs : j # i => new[j] = reqs[j]
BY DEF FsaShape

\* A request is left.
LEMMA RequestIsLeft ==
  ASSUME FsaShape, NEW i \in DOMAIN reqs, reqs' = [reqs EXCEPT ![i].left = TRUE]
  PROVE  /\ reqs' \in Seq(Requests) /\ Len(reqs') = Len(reqs) /\ DOMAIN reqs' = DOMAIN reqs
         /\ \A j \in DOMAIN reqs : /\ reqs'[j].account = reqs[j].account /\ reqs'[j].nonce = reqs[j].nonce
                                   /\ reqs'[j].state = reqs[j].state
                                   /\ j # i => reqs'[j].left = reqs[j].left
         /\ reqs'[i].left
<1>1. reqs[i] \in Requests
  BY DEF FsaShape
<1>2. PICK r : r = [reqs[i] EXCEPT !.left = TRUE]
  OBVIOUS
<1>3. r \in Requests /\ r.account = reqs[i].account /\ r.nonce = reqs[i].nonce /\ r.state = reqs[i].state
  BY <1>1, <1>2 DEF Requests
<1>4. r.left = TRUE
  BY <1>1, <1>2 DEF Requests
<1>5. reqs' = [reqs EXCEPT ![i] = r]
  BY <1>2, Zenon
<1>6. /\ reqs' \in Seq(Requests) /\ Len(reqs') = Len(reqs) /\ DOMAIN reqs' = DOMAIN reqs
      /\ reqs'[i] = r /\ \A j \in DOMAIN reqs : j # i => reqs'[j] = reqs[j]
  BY <1>3, <1>5, RequestReplaced, Zenon
<1>7. \A j \in DOMAIN reqs : /\ reqs'[j].account = reqs[j].account /\ reqs'[j].nonce = reqs[j].nonce
                             /\ reqs'[j].state = reqs[j].state
                             /\ j # i => reqs'[j].left = reqs[j].left
  <2> SUFFICES ASSUME NEW j \in DOMAIN reqs
               PROVE  /\ reqs'[j].account = reqs[j].account /\ reqs'[j].nonce = reqs[j].nonce
                      /\ reqs'[j].state = reqs[j].state
                      /\ j # i => reqs'[j].left = reqs[j].left
    BY Zenon
  <2>1. CASE j = i
    BY <1>3, <1>6, <2>1, Zenon
  <2>2. CASE j # i
    BY <1>6, <2>2, Zenon
  <2> QED
    BY <2>1, <2>2
<1>8. reqs'[i].left
  BY <1>4, <1>6, Zenon
<1> QED
  BY <1>6, <1>7, <1>8, Zenon

\* A step of the page that changes no request and begins none.
LEMMA FlowMovesOn ==
  ASSUME PaymentInv, UNCHANGED <<mac, reqs>>,
         pending' \in [Accounts -> Int], \A a \in Accounts : pending'[a] <= mac.nonces[a],
         flow' \in [step : FlowSteps, req : Nat], flow'.req \in 0..Len(reqs),
         flow'.step \notin {"request", "sign"},
         flow'.step = "wait" => flow.step = "sign" /\ flow'.req = flow.req,
         flow.step = "sign" => Mine.state # "open",
         \A i \in DOMAIN reqs : (reqs[i].state \in SignedOff /\ ~reqs[i].left)
            => \/ reqs[i].nonce < mac.nonces[reqs[i].account]
               \/ reqs[i].nonce <= pending'[reqs[i].account]
  PROVE  PaymentInv'
<1>1. FsaShape'
  BY DEF PaymentInv, FsaShape, FSA_STAGES
<1>2. FlowIsNewest'
  <2>1. \A i \in DOMAIN reqs : ~(reqs[i].state = "open" /\ ~reqs[i].left)
    BY DEF PaymentInv, FlowIsNewest, Mine
  <2>2. ASSUME flow'.step \in FSA_STAGES
        PROVE  \A i \in DOMAIN reqs : reqs[i].account = reqs[flow'.req].account => reqs[i].nonce <= reqs[flow'.req].nonce
    BY <2>2 DEF PaymentInv, FlowIsNewest, FSA_STAGES, Payer, Mine
  <2> QED
    BY <2>1, <2>2 DEF FlowIsNewest, Payer, Mine
<1>3. Consumed' /\ OneOfTwoLeft' /\ ParkedForReason'
  BY DEF PaymentInv, Consumed, OneOfTwoLeft, ParkedForReason, Same
<1>4. SeenRecorded' /\ Alone'
  BY DEF SeenRecorded, Alone
<1> QED
  BY <1>1, <1>2, <1>3, <1>4 DEF PaymentInv

\* What PaymentInv says of the types of a step's parts.
LEMMA FsaTypes ==
  ASSUME FsaShape
  PROVE  /\ reqs \in [DOMAIN reqs -> Requests] /\ DOMAIN reqs = 1..Len(reqs) /\ Len(reqs) \in Nat
         /\ \A i \in DOMAIN reqs : /\ reqs[i] \in Requests /\ reqs[i].account \in Accounts /\ reqs[i].nonce \in Nat
                                   /\ reqs[i].left \in BOOLEAN
         /\ \A a \in Accounts : mac.nonces[a] \in Nat /\ pending[a] \in Int
         /\ flow.req \in Nat /\ flow.step \in FlowSteps
         /\ flow.step \in FSA_STAGES => flow.req \in DOMAIN reqs /\ Mine = reqs[flow.req] /\ Payer = reqs[flow.req].account
<1>1. reqs \in [DOMAIN reqs -> Requests] /\ DOMAIN reqs = 1..Len(reqs) /\ Len(reqs) \in Nat
  BY DEF FsaShape
<1>2. \A i \in DOMAIN reqs : reqs[i] \in Requests
  BY <1>1
<1>3. \A r \in Requests : r.account \in Accounts /\ r.nonce \in Nat /\ r.left \in BOOLEAN
  BY DEF Requests
<1>4. /\ \A a \in Accounts : mac.nonces[a] \in Nat /\ pending[a] \in Int
      /\ flow.req \in Nat /\ flow.step \in FlowSteps
  BY DEF FsaShape
<1>5. flow.step \in FSA_STAGES => flow.req \in DOMAIN reqs /\ Mine = reqs[flow.req] /\ Payer = reqs[flow.req].account
  BY DEF FsaShape, Mine, Payer
<1> QED
  BY <1>1, <1>2, <1>3, <1>4, <1>5

\* The page's own steps: the signature or the rejection seen, the effect seen or
\* waited for too long.
LEMMA PageSees ==
  ASSUME PaymentInv, SeeAnswer \/ SeeRejection \/ SeeExecuted \/ WaitTimeout
  PROVE  PaymentInv'
<1>t. /\ reqs \in [DOMAIN reqs -> Requests] /\ DOMAIN reqs = 1..Len(reqs) /\ Len(reqs) \in Nat
      /\ \A i \in DOMAIN reqs : reqs[i].account \in Accounts /\ reqs[i].nonce \in Nat
      /\ \A a \in Accounts : mac.nonces[a] \in Nat /\ pending[a] \in Int
      /\ flow.step \in FSA_STAGES => flow.req \in DOMAIN reqs /\ Mine = reqs[flow.req] /\ Payer = reqs[flow.req].account
  BY FsaTypes DEF PaymentInv
<1>f. /\ flow \in [step : FlowSteps, req : Nat] /\ flow.req \in 0..Len(reqs)
      /\ pending \in [Accounts -> Int] /\ \A a \in Accounts : pending[a] <= mac.nonces[a]
      /\ \A i \in DOMAIN reqs : reqs[i].nonce <= mac.nonces[reqs[i].account]
  BY DEF PaymentInv, FsaShape
<1>1. PICK step \in {"wait", "ok", "failed"} : flow' = [flow EXCEPT !.step = step] /\ (step = "wait" => flow.step = "sign")
  BY DEF SeeAnswer, SeeRejection, SeeExecuted, WaitTimeout, FlowFails
<1>2. /\ flow' \in [step : FlowSteps, req : Nat] /\ flow'.req = flow.req /\ flow'.step = step
  BY <1>1, <1>f DEF FlowSteps, FSA_STAGES
<1>3. UNCHANGED <<mac, reqs>> /\ flow.step \in {"sign", "wait"} /\ flow.req \in DOMAIN reqs
      /\ (flow.step = "sign" => Mine.state # "open")
  BY <1>t DEF SeeAnswer, SeeRejection, SeeExecuted, WaitTimeout, FSA_STAGES
<1>4. \A i \in DOMAIN reqs : reqs[i].account = Payer => reqs[i].nonce <= Mine.nonce
  BY <1>3 DEF PaymentInv, FlowIsNewest, FSA_STAGES
<1>5. \A i \in DOMAIN reqs \ {flow.req} : (reqs[i].state \in SignedOff /\ ~reqs[i].left)
         => \/ reqs[i].nonce < mac.nonces[reqs[i].account]
            \/ reqs[i].nonce <= pending[reqs[i].account]
  BY DEF PaymentInv, SeenRecorded
<1>6. Mine = reqs[flow.req] /\ Payer = reqs[flow.req].account /\ Payer \in Accounts /\ Mine.nonce \in Nat
  BY <1>t, <1>3 DEF FSA_STAGES
<1>7. ASSUME \A i \in DOMAIN reqs : (reqs[i].state \in SignedOff /\ ~reqs[i].left)
                => \/ reqs[i].nonce < mac.nonces[reqs[i].account]
                   \/ reqs[i].nonce <= pending'[reqs[i].account],
             pending' \in [Accounts -> Int], \A a \in Accounts : pending'[a] <= mac.nonces[a]
      PROVE  PaymentInv'
  BY <1>1, <1>2, <1>3, <1>7, <1>f, FlowMovesOn
<1>8. CASE SeeAnswer
  <2>1. pending' = [pending EXCEPT ![Payer] = Mine.nonce]
    BY <1>8 DEF SeeAnswer, Record
  <2>2. pending' \in [Accounts -> Int] /\ \A a \in Accounts : pending'[a] <= mac.nonces[a]
    BY <1>3, <1>6, <1>f, <2>1
  <2>3. ASSUME NEW i \in DOMAIN reqs, reqs[i].state \in SignedOff, ~reqs[i].left
        PROVE  reqs[i].nonce < mac.nonces[reqs[i].account] \/ reqs[i].nonce <= pending'[reqs[i].account]
    BY <1>t, <1>f, <1>4, <1>5, <1>6, <2>1, <2>3
  <2> QED
    BY <1>7, <2>2, <2>3
<1>9. CASE SeeExecuted
  <2>1. pending' = [pending EXCEPT ![Payer] = NoNonce] /\ Mine.nonce < mac.nonces[Payer]
    BY <1>9 DEF SeeExecuted
  <2>2. pending' \in [Accounts -> Int] /\ \A a \in Accounts : pending'[a] <= mac.nonces[a]
    BY <1>t, <1>3, <1>6, <1>f, <2>1 DEF NoNonce
  <2>3. ASSUME NEW i \in DOMAIN reqs, reqs[i].state \in SignedOff, ~reqs[i].left
        PROVE  reqs[i].nonce < mac.nonces[reqs[i].account] \/ reqs[i].nonce <= pending'[reqs[i].account]
    BY <1>t, <1>f, <1>4, <1>5, <1>6, <2>1, <2>3
  <2> QED
    BY <1>7, <2>2, <2>3
<1>10. CASE SeeRejection \/ WaitTimeout
  <2>1. UNCHANGED pending
    BY <1>10 DEF SeeRejection, WaitTimeout
  <2>2. ASSUME NEW i \in DOMAIN reqs, reqs[i].state \in SignedOff, ~reqs[i].left
        PROVE  reqs[i].nonce < mac.nonces[reqs[i].account] \/ reqs[i].nonce <= pending'[reqs[i].account]
    <3>1. CASE i # flow.req
      BY <1>5, <2>1, <2>2, <3>1
    <3>2. CASE i = flow.req
      <4>1. flow.step # "sign"
        BY <1>10, <1>6, <2>2, <3>2 DEF SeeRejection, WaitTimeout, SignedOff
      <4> QED
        BY <2>1, <2>2, <4>1 DEF PaymentInv, SeenRecorded
    <3> QED
      BY <3>1, <3>2
  <2> QED
    BY <1>7, <1>f, <2>1, <2>2
<1> QED
  BY <1>8, <1>9, <1>10

\* A request is made: no payment of its nonce is still to come unless it was left.
LEMMA BuildKeeps ==
  ASSUME PaymentInv, flow.step = "idle", NEW a \in Accounts, Build(a), UNCHANGED mac
  PROVE  PaymentInv'
<1>t. /\ reqs \in [DOMAIN reqs -> Requests] /\ DOMAIN reqs = 1..Len(reqs) /\ Len(reqs) \in Nat
      /\ \A i \in DOMAIN reqs : reqs[i].account \in Accounts /\ reqs[i].nonce \in Nat
      /\ \A c \in Accounts : mac.nonces[c] \in Nat /\ pending[c] \in Int
  BY FsaTypes DEF PaymentInv
<1>f. /\ reqs \in Seq(Requests) /\ pending \in [Accounts -> Int]
      /\ \A c \in Accounts : pending[c] <= mac.nonces[c]
      /\ \A i \in DOMAIN reqs : reqs[i].nonce <= mac.nonces[reqs[i].account]
      /\ mac \in [nonces : [Accounts -> Nat], approved : SUBSET Accounts]
  BY DEF PaymentInv, FsaShape
<1>s. \A i \in DOMAIN reqs : (reqs[i].state \in SignedOff /\ ~reqs[i].left)
         => \/ reqs[i].nonce < mac.nonces[reqs[i].account]
            \/ reqs[i].nonce <= pending[reqs[i].account]
  BY DEF PaymentInv, SeenRecorded
<1>1. CASE Blocked(pending[a], mac.nonces[a])
  <2>1. flow' = [step |-> "failed", req |-> 0] /\ UNCHANGED <<reqs, pending>>
    BY <1>1 DEF Build, PersonalAccountNonce
  <2>2. flow' \in [step : FlowSteps, req : Nat] /\ flow'.req \in 0..Len(reqs)
    BY <1>t, <2>1 DEF FlowSteps
  <2> QED
    BY <1>f, <1>s, <2>1, <2>2, FlowMovesOn
<1>2. CASE ~Blocked(pending[a], mac.nonces[a])
  <2>1. PICK r : r = [account |-> a, nonce |-> mac.nonces[a], state |-> "built", left |-> FALSE]
    OBVIOUS
  <2>2. /\ flow' = [step |-> "request", req |-> Len(reqs) + 1] /\ reqs' = Append(reqs, r)
        /\ pending' = [pending EXCEPT ![a] = NoNonce]
    BY <1>2, <2>1 DEF Build, PersonalAccountNonce
  <2>3. r \in Requests /\ r.account = a /\ r.nonce = mac.nonces[a] /\ r.state = "built"
    BY <1>t, <2>1 DEF Requests
  <2>l. r.left = FALSE
    BY <2>1
  <2>4. /\ reqs' \in Seq(Requests) /\ Len(reqs') = Len(reqs) + 1 /\ DOMAIN reqs' = DOMAIN reqs \cup {Len(reqs) + 1}
        /\ reqs'[Len(reqs) + 1] = r /\ \A i \in DOMAIN reqs : reqs'[i] = reqs[i]
    BY <1>t, <1>f, <2>2, <2>3
  <2>5. /\ pending' \in [Accounts -> Int]
        /\ \A c \in Accounts : pending'[c] <= mac.nonces[c] /\ (c # a => pending'[c] = pending[c])
    BY <1>t, <1>f, <2>2 DEF NoNonce
  <2>6. flow'.step = "request" /\ flow'.req = Len(reqs) + 1 /\ flow' \in [step : FlowSteps, req : Nat]
    BY <1>t, <2>2 DEF FlowSteps, FSA_STAGES
  <2>7. pending[a] < mac.nonces[a]
    BY <1>2, <1>t DEF Blocked, NoNonce
  <2>8. \A i \in DOMAIN reqs : (reqs[i].state \in SignedOff /\ ~reqs[i].left /\ reqs[i].account = a)
           => reqs[i].nonce < mac.nonces[a]
    BY <1>t, <1>s, <2>7
  <2>9. FsaShape'
    <3>1. \A i \in DOMAIN reqs' : reqs'[i].nonce <= mac.nonces[reqs'[i].account]
      BY <1>t, <1>f, <2>3, <2>4
    <3> QED
      BY <1>t, <1>f, <2>4, <2>5, <2>6, <3>1 DEF FsaShape
  <2>10. FlowIsNewest'
    <3>1. reqs'[flow'.req] = r
      BY <2>4, <2>6
    <3>2. \A i \in DOMAIN reqs' : reqs'[i].account = a => reqs'[i].nonce <= mac.nonces[a]
      BY <1>t, <1>f, <2>3, <2>4
    <3>3. \A i \in DOMAIN reqs : ~(reqs[i].state = "open" /\ ~reqs[i].left)
      BY DEF PaymentInv, FlowIsNewest
    <3>4. \A i \in DOMAIN reqs' : ~(reqs'[i].state = "open" /\ ~reqs'[i].left)
      BY <2>3, <2>4, <3>3
    <3>5. ~reqs'[flow'.req].left
      BY <2>l, <3>1, Zenon
    <3> QED
      BY <2>3, <2>6, <3>1, <3>2, <3>4, <3>5 DEF FlowIsNewest, Payer, Mine
  <2>11. Consumed'
    BY <2>4 DEF PaymentInv, Consumed
  <2>12. SeenRecorded'
    <3> SUFFICES ASSUME NEW i \in DOMAIN reqs', reqs'[i].state \in SignedOff, ~reqs'[i].left
                 PROVE  reqs'[i].nonce < mac.nonces[reqs'[i].account] \/ reqs'[i].nonce <= pending'[reqs'[i].account]
      BY DEF SeenRecorded
    <3>1. i \in DOMAIN reqs /\ reqs'[i] = reqs[i]
      BY <2>3, <2>4 DEF SignedOff
    <3>2. CASE reqs[i].account = a
      BY <2>8, <3>1, <3>2
    <3>3. CASE reqs[i].account # a
      BY <1>s, <1>t, <2>5, <3>1, <3>3
    <3> QED
      BY <3>2, <3>3
  <2>13. Alone'
    <3> SUFFICES ASSUME NEW i \in DOMAIN reqs', i # Len(reqs) + 1, reqs'[i].account = a,
                        reqs'[i].nonce = mac.nonces[a], reqs'[i].state \in SignedOff
                 PROVE  reqs'[i].left
      BY <2>3, <2>4, <2>6 DEF Alone, Same
    <3>1. i \in DOMAIN reqs /\ reqs'[i] = reqs[i]
      BY <2>4
    <3> QED
      BY <1>t, <2>8, <3>1
  <2>14. OneOfTwoLeft'
    <3> SUFFICES ASSUME NEW i \in DOMAIN reqs', NEW j \in DOMAIN reqs', i # j, Same(i, j)',
                        reqs'[i].state \in {"signed", "executed"}, ~reqs'[i].left, reqs'[j].state \in SignedOff
                 PROVE  reqs'[j].left
      BY DEF OneOfTwoLeft
    <3>1. i \in DOMAIN reqs /\ reqs'[i] = reqs[i] /\ j \in DOMAIN reqs /\ reqs'[j] = reqs[j]
      BY <2>3, <2>4 DEF SignedOff
    <3> QED
      BY <3>1 DEF PaymentInv, OneOfTwoLeft, Same
  <2>15. ParkedForReason'
    BY <2>3, <2>4 DEF PaymentInv, ParkedForReason, Same
  <2> QED
    BY <2>9, <2>10, <2>11, <2>12, <2>13, <2>14, <2>15 DEF PaymentInv
<1> QED
  BY <1>1, <1>2

\* The request is shown in Xaman, or the flow ends before.
LEMMA OpenKeeps ==
  ASSUME PaymentInv, OpenRequest
  PROVE  PaymentInv'
<1>0. /\ flow.step = "request" /\ UNCHANGED <<mac, pending>>
      /\ \/ reqs' = [reqs EXCEPT ![flow.req].state = "open"] /\ flow' = [flow EXCEPT !.step = "sign"]
         \/ flow' = [flow EXCEPT !.step = "failed"] /\ UNCHANGED reqs
  BY DEF OpenRequest, CreatePayload, FlowFails
<1>f. /\ flow \in [step : FlowSteps, req : Nat] /\ flow.req \in 0..Len(reqs) /\ flow.req \in DOMAIN reqs
      /\ pending \in [Accounts -> Int] /\ \A a \in Accounts : pending[a] <= mac.nonces[a]
  BY <1>0 DEF PaymentInv, FsaShape, FSA_STAGES
<1>s. \A i \in DOMAIN reqs : (reqs[i].state \in SignedOff /\ ~reqs[i].left)
         => \/ reqs[i].nonce < mac.nonces[reqs[i].account]
            \/ reqs[i].nonce <= pending[reqs[i].account]
  BY <1>0 DEF PaymentInv, SeenRecorded
<1>1. CASE flow' = [flow EXCEPT !.step = "failed"] /\ UNCHANGED reqs
  <2>1. flow' \in [step : FlowSteps, req : Nat] /\ flow'.req = flow.req /\ flow'.step = "failed"
    BY <1>1, <1>f DEF FlowSteps
  <2> QED
    BY <1>0, <1>1, <1>f, <1>s, <2>1, FlowMovesOn
<1>2. CASE reqs' = [reqs EXCEPT ![flow.req].state = "open"] /\ flow' = [flow EXCEPT !.step = "sign"]
  <2>1. flow' \in [step : FlowSteps, req : Nat] /\ flow'.req = flow.req /\ flow'.step = "sign"
    BY <1>2, <1>f DEF FlowSteps, FSA_STAGES
  <2>2. /\ reqs' \in Seq(Requests) /\ Len(reqs') = Len(reqs) /\ DOMAIN reqs' = DOMAIN reqs
        /\ \A j \in DOMAIN reqs : /\ reqs'[j].account = reqs[j].account /\ reqs'[j].nonce = reqs[j].nonce
                                  /\ reqs'[j].left = reqs[j].left
                                  /\ reqs'[j].state = IF j = flow.req THEN "open" ELSE reqs[j].state
    <3>1. FsaShape
      BY DEF PaymentInv
    <3>2. GoneOn(flow.req, "open")
      BY <1>2, <1>f, <3>1, RequestGoesOn
    <3> QED
      BY <3>2 DEF GoneOn
  <2>3. reqs[flow.req].state = "built"
    BY <1>0 DEF PaymentInv, FlowIsNewest, Mine
  <2>4. FsaShape'
    BY <1>0, <1>f, <2>1, <2>2 DEF PaymentInv, FsaShape
  <2>5. FlowIsNewest'
    <3>1. /\ \A i \in DOMAIN reqs : reqs[i].account = reqs[flow.req].account => reqs[i].nonce <= reqs[flow.req].nonce
          /\ ~reqs[flow.req].left
          /\ \A i \in DOMAIN reqs : ~(reqs[i].state = "open" /\ ~reqs[i].left)
      BY <1>0 DEF PaymentInv, FlowIsNewest, FSA_STAGES, Payer, Mine
    <3>2. \A i \in DOMAIN reqs' : (reqs'[i].state = "open" /\ ~reqs'[i].left) => i = flow.req
      BY <2>2, <3>1
    <3> QED
      BY <1>f, <2>1, <2>2, <3>1, <3>2 DEF FlowIsNewest, Payer, Mine
  <2>6. Consumed'
    BY <1>0, <2>2, <2>3 DEF PaymentInv, Consumed
  <2>7. \A j \in DOMAIN reqs : reqs'[j].state \in SignedOff => j # flow.req /\ reqs'[j].state = reqs[j].state
    BY <2>2 DEF SignedOff
  <2>8. SeenRecorded'
    BY <1>0, <1>s, <2>2, <2>7 DEF SeenRecorded
  <2>9. Alone'
    BY <1>0, <1>f, <2>1, <2>2, <2>7 DEF PaymentInv, Alone, Same
  <2>10. OneOfTwoLeft'
    BY <2>2, <2>7 DEF PaymentInv, OneOfTwoLeft, Same, SignedOff
  <2>11. ParkedForReason'
    <3>1. \A j \in DOMAIN reqs : reqs[j].state \in SignedOff => reqs'[j].state = reqs[j].state
      BY <2>2, <2>3 DEF SignedOff
    <3> QED
      BY <2>2, <3>1 DEF PaymentInv, ParkedForReason, Same
  <2> QED
    BY <2>4, <2>5, <2>6, <2>8, <2>9, <2>10, <2>11 DEF PaymentInv
<1> QED
  BY <1>0, <1>1, <1>2

\* The user answers.
LEMMA AnswerKeeps ==
  ASSUME PaymentInv, NEW i \in DOMAIN reqs, Answer(i)
  PROVE  PaymentInv'
<1>1. PICK s \in {"signed", "rejected"} : reqs' = [reqs EXCEPT ![i].state = s]
  BY DEF Answer
<1>2. reqs[i].state = "open" /\ UNCHANGED <<mac, flow, pending>>
  BY DEF Answer
<1>a. FsaShape /\ s \in {"built", "open", "signed", "rejected", "executed", "parked", "void"}
  BY DEF PaymentInv
<1>3. /\ reqs' \in Seq(Requests) /\ Len(reqs') = Len(reqs) /\ DOMAIN reqs' = DOMAIN reqs
      /\ \A j \in DOMAIN reqs : /\ reqs'[j].account = reqs[j].account /\ reqs'[j].nonce = reqs[j].nonce
                                /\ reqs'[j].left = reqs[j].left
                                /\ reqs'[j].state = IF j = i THEN s ELSE reqs[j].state
  <2>1. GoneOn(i, s)
    BY <1>a, <1>1, RequestGoesOn, Zenon
  <2> QED
    BY <2>1 DEF GoneOn
<1>4. ~reqs[i].left => flow.step = "sign" /\ i = flow.req
  BY <1>2 DEF PaymentInv, FlowIsNewest
<1>5. \A j, k \in DOMAIN reqs : Same(j, k)' <=> Same(j, k)
  BY <1>3 DEF Same
<1>6. \A j \in DOMAIN reqs : reqs[j].state \in SignedOff => j # i /\ reqs'[j].state = reqs[j].state
  BY <1>2, <1>3 DEF SignedOff
<1>7. FsaShape'
  BY <1>2, <1>3 DEF PaymentInv, FsaShape
<1>8. FlowIsNewest'
  <2>1. flow.step \in FSA_STAGES => flow.req \in DOMAIN reqs
    BY DEF PaymentInv, FsaShape
  <2>2. flow.step = "request" => reqs[flow.req].state = "built" /\ flow.req # i
    BY <1>2 DEF PaymentInv, FlowIsNewest, Mine
  <2>3. \A j \in DOMAIN reqs' : (reqs'[j].state = "open" /\ ~reqs'[j].left) => (reqs[j].state = "open" /\ ~reqs[j].left)
    BY <1>2, <1>3
  <2>4. flow.step \in FSA_STAGES => \A j \in DOMAIN reqs' : reqs'[j].account = reqs'[flow.req].account => reqs'[j].nonce <= reqs'[flow.req].nonce
    BY <1>3, <2>1 DEF PaymentInv, FlowIsNewest, Payer, Mine
  <2>5. flow.step = "request" => reqs'[flow.req].state = "built"
    BY <1>3, <2>1, <2>2 DEF FSA_STAGES
  <2>6. flow.step = "sign" => reqs'[flow.req].state # "built"
    BY <1>3, <2>1 DEF PaymentInv, FlowIsNewest, FSA_STAGES, Mine
  <2>7. flow.step \in {"request", "sign"} => ~reqs'[flow.req].left
    BY <1>3, <2>1 DEF PaymentInv, FlowIsNewest, FSA_STAGES, Mine
  <2>8. \A j \in DOMAIN reqs' : (reqs'[j].state = "open" /\ ~reqs'[j].left) => flow.step = "sign" /\ j = flow.req
    BY <1>3, <2>3 DEF PaymentInv, FlowIsNewest
  <2> QED
    BY <1>2, <2>4, <2>5, <2>6, <2>7, <2>8 DEF FlowIsNewest, Payer, Mine
<1>9. Consumed'
  BY <1>2, <1>3 DEF PaymentInv, Consumed
<1>10. SeenRecorded'
  BY <1>2, <1>3, <1>4 DEF PaymentInv, SeenRecorded
<1>11. Alone'
  <2> SUFFICES ASSUME flow.step \in {"request", "sign"}, NEW j \in DOMAIN reqs, j # flow.req,
                      Same(j, flow.req)', reqs'[j].state \in SignedOff
               PROVE  reqs'[j].left
    BY <1>2, <1>3 DEF Alone, Same
  <2>1. flow.req \in DOMAIN reqs
    BY DEF PaymentInv, FsaShape, FSA_STAGES
  <2>2. CASE j = i
    BY <1>3, <1>4, <2>2
  <2>3. CASE j # i
    BY <1>2, <1>3, <2>1, <2>3 DEF PaymentInv, Alone, Same
  <2> QED
    BY <2>2, <2>3
<1>12. OneOfTwoLeft'
  <2> SUFFICES ASSUME NEW j \in DOMAIN reqs, NEW k \in DOMAIN reqs, j # k, Same(j, k)',
                      reqs'[j].state \in {"signed", "executed"}, ~reqs'[j].left, reqs'[k].state \in SignedOff
               PROVE  reqs'[k].left
    BY <1>3 DEF OneOfTwoLeft
  <2>0. Same(j, k) /\ Same(k, j) /\ ~reqs[j].left
    BY <1>3, <1>5 DEF Same
  <2>1. CASE j = i
    BY <1>3, <1>4, <2>0, <2>1 DEF PaymentInv, Alone
  <2>2. CASE k = i
    <3>1. reqs[j].state \in SignedOff
      BY <1>3, <2>2 DEF SignedOff
    <3>2. CASE ~reqs[i].left
      BY <1>4, <2>0, <2>2, <3>1, <3>2 DEF PaymentInv, Alone
    <3> QED
      BY <1>3, <2>2, <3>2
  <2>3. CASE j # i /\ k # i
    BY <1>3, <2>0, <2>3 DEF PaymentInv, OneOfTwoLeft
  <2> QED
    BY <2>1, <2>2, <2>3
<1>13. ParkedForReason'
  <2> SUFFICES ASSUME NEW j \in DOMAIN reqs, reqs'[j].state = "parked"
               PROVE  \E k \in DOMAIN reqs : /\ k # j /\ Same(j, k)' /\ reqs'[k].state \in SignedOff
                                             /\ reqs'[j].left \/ reqs'[k].left
    BY <1>3 DEF ParkedForReason
  <2>1. reqs[j].state = "parked"
    BY <1>3
  <2>2. PICK k \in DOMAIN reqs : /\ k # j /\ Same(j, k) /\ reqs[k].state \in SignedOff
                                 /\ reqs[j].left \/ reqs[k].left
    BY <2>1 DEF PaymentInv, ParkedForReason
  <2> QED
    BY <1>3, <1>5, <1>6, <2>2
<1> QED
  BY <1>7, <1>8, <1>9, <1>10, <1>11, <1>12, <1>13 DEF PaymentInv

\* What was signed is executed, parked or refused by the ledger.
LEMMA SignedGoesOn ==
  ASSUME PaymentInv, NEW i \in DOMAIN reqs, NEW s \in {"executed", "parked", "void"},
         reqs[i].state = "signed", GoneOn(i, s), UNCHANGED <<flow, pending>>,
         mac' \in [nonces : [Accounts -> Nat], approved : SUBSET Accounts],
         \A a \in Accounts : mac.nonces[a] <= mac'.nonces[a],
         Consumed',
         s = "parked" => \E k \in DOMAIN reqs : /\ k # i /\ Same(i, k) /\ reqs[k].state \in SignedOff
                                                /\ reqs[i].left \/ reqs[k].left
  PROVE  PaymentInv'
<1>t. /\ \A j \in DOMAIN reqs : reqs[j].account \in Accounts /\ reqs[j].nonce \in Nat
      /\ \A a \in Accounts : mac.nonces[a] \in Nat /\ pending[a] \in Int /\ mac'.nonces[a] \in Nat
      /\ flow.step \in FSA_STAGES => flow.req \in DOMAIN reqs /\ Mine = reqs[flow.req] /\ Payer = reqs[flow.req].account
  BY FsaTypes DEF PaymentInv
<1>f. /\ flow \in [step : FlowSteps, req : Nat] /\ flow.req \in 0..Len(reqs)
      /\ flow.step \in FSA_STAGES => flow.req \in DOMAIN reqs
      /\ pending \in [Accounts -> Int] /\ \A a \in Accounts : pending[a] <= mac.nonces[a]
      /\ \A j \in DOMAIN reqs : reqs[j].nonce <= mac.nonces[reqs[j].account]
  BY DEF PaymentInv, FsaShape
<1>3. /\ reqs' \in Seq(Requests) /\ Len(reqs') = Len(reqs) /\ DOMAIN reqs' = DOMAIN reqs
      /\ \A j \in DOMAIN reqs : /\ reqs'[j].account = reqs[j].account /\ reqs'[j].nonce = reqs[j].nonce
                                /\ reqs'[j].left = reqs[j].left
                                /\ reqs'[j].state = IF j = i THEN s ELSE reqs[j].state
  BY DEF GoneOn
<1>5. \A j, k \in DOMAIN reqs : Same(j, k)' <=> Same(j, k)
  BY <1>3 DEF Same
<1>6. \A j \in DOMAIN reqs : reqs'[j].state \in SignedOff <=> reqs[j].state \in SignedOff
  BY <1>3 DEF SignedOff
<1>7. FsaShape'
  <2>1. \A a \in Accounts : pending'[a] <= mac'.nonces[a]
    <3> SUFFICES ASSUME NEW a \in Accounts PROVE pending[a] <= mac'.nonces[a]
      OBVIOUS
    <3>1. pending[a] <= mac.nonces[a] /\ mac.nonces[a] <= mac'.nonces[a]
      BY <1>f
    <3>2. pending[a] \in Int /\ mac.nonces[a] \in Nat /\ mac'.nonces[a] \in Nat
      BY <1>t
    <3> QED
      BY <3>1, <3>2
  <2>2. \A j \in DOMAIN reqs' : reqs'[j].nonce <= mac'.nonces[reqs'[j].account]
    <3> SUFFICES ASSUME NEW j \in DOMAIN reqs PROVE reqs'[j].nonce <= mac'.nonces[reqs'[j].account]
      BY <1>3
    <3>1. reqs'[j].nonce = reqs[j].nonce /\ reqs'[j].account = reqs[j].account
      BY <1>3
    <3>2. mac.nonces[reqs[j].account] <= mac'.nonces[reqs[j].account] /\ reqs[j].nonce <= mac.nonces[reqs[j].account]
      BY <1>t, <1>f
    <3> QED
      BY <1>t, <3>1, <3>2
  <2>3. /\ flow' \in [step : FlowSteps, req : Nat] /\ flow'.req \in 0..Len(reqs')
        /\ flow'.step \in FSA_STAGES => flow'.req \in DOMAIN reqs'
        /\ pending' \in [Accounts -> Int]
    BY <1>f, <1>3
  <2> QED
    BY <1>3, <2>1, <2>2, <2>3 DEF FsaShape
<1>8. FlowIsNewest'
  <2>1. /\ flow.step \in FSA_STAGES => \A j \in DOMAIN reqs : reqs[j].account = reqs[flow.req].account => reqs[j].nonce <= reqs[flow.req].nonce
        /\ flow.step = "request" => reqs[flow.req].state = "built" /\ flow.req # i
        /\ flow.step = "sign" => reqs[flow.req].state # "built"
        /\ flow.step \in {"request", "sign"} => ~reqs[flow.req].left
        /\ \A j \in DOMAIN reqs : (reqs[j].state = "open" /\ ~reqs[j].left) => flow.step = "sign" /\ j = flow.req
    BY <1>t DEF PaymentInv, FlowIsNewest, FSA_STAGES
  <2>2. flow.step \in FSA_STAGES => \A j \in DOMAIN reqs' : reqs'[j].account = reqs'[flow.req].account => reqs'[j].nonce <= reqs'[flow.req].nonce
    BY <1>3, <1>f, <2>1
  <2>3. /\ flow.step = "request" => reqs'[flow.req].state = "built"
        /\ flow.step = "sign" => reqs'[flow.req].state # "built"
    BY <1>3, <1>f, <2>1 DEF FSA_STAGES
  <2>4. flow.step \in {"request", "sign"} => ~reqs'[flow.req].left
    BY <1>3, <1>f, <2>1 DEF FSA_STAGES
  <2>5. \A j \in DOMAIN reqs' : (reqs'[j].state = "open" /\ ~reqs'[j].left) => flow.step = "sign" /\ j = flow.req
    BY <1>3, <2>1
  <2> QED
    BY <2>2, <2>3, <2>4, <2>5 DEF FlowIsNewest, Payer, Mine
<1>10. SeenRecorded'
  <2> SUFFICES ASSUME NEW j \in DOMAIN reqs, reqs'[j].state \in SignedOff, ~reqs'[j].left,
                      ~(flow.step = "sign" /\ flow.req = j)
               PROVE  reqs'[j].nonce < mac'.nonces[reqs'[j].account] \/ reqs'[j].nonce <= pending[reqs'[j].account]
    BY <1>3 DEF SeenRecorded
  <2>1. reqs[j].nonce < mac.nonces[reqs[j].account] \/ reqs[j].nonce <= pending[reqs[j].account]
    BY <1>3, <1>6 DEF PaymentInv, SeenRecorded
  <2>2. reqs'[j].account = reqs[j].account /\ reqs'[j].nonce = reqs[j].nonce /\ mac.nonces[reqs[j].account] <= mac'.nonces[reqs[j].account]
    BY <1>3, <1>t
  <2> QED
    BY <1>t, <2>1, <2>2
<1>11. Alone'
  <2> SUFFICES ASSUME flow.step \in {"request", "sign"}, NEW j \in DOMAIN reqs, j # flow.req,
                      Same(j, flow.req)', reqs'[j].state \in SignedOff
               PROVE  reqs'[j].left
    BY <1>3 DEF Alone, Same
  <2>1. flow.req \in DOMAIN reqs
    BY DEF PaymentInv, FsaShape, FSA_STAGES
  <2> QED
    BY <1>3, <1>5, <1>6, <2>1 DEF PaymentInv, Alone
<1>12. OneOfTwoLeft'
  <2> SUFFICES ASSUME NEW j \in DOMAIN reqs, NEW k \in DOMAIN reqs, j # k, Same(j, k)',
                      reqs'[j].state \in {"signed", "executed"}, ~reqs'[j].left, reqs'[k].state \in SignedOff
               PROVE  reqs'[k].left
    BY <1>3 DEF OneOfTwoLeft
  <2>1. reqs[j].state \in {"signed", "executed"} /\ Same(j, k) /\ reqs[k].state \in SignedOff
    BY <1>3, <1>5, <1>6
  <2>2. ~reqs[j].left
    BY <1>3
  <2> QED
    BY <1>3, <2>1, <2>2 DEF PaymentInv, OneOfTwoLeft
<1>13. ParkedForReason'
  <2> SUFFICES ASSUME NEW j \in DOMAIN reqs, reqs'[j].state = "parked"
               PROVE  \E k \in DOMAIN reqs : /\ k # j /\ Same(j, k)' /\ reqs'[k].state \in SignedOff
                                             /\ reqs'[j].left \/ reqs'[k].left
    BY <1>3 DEF ParkedForReason
  <2>1. PICK k \in DOMAIN reqs : /\ k # j /\ Same(j, k) /\ reqs[k].state \in SignedOff
                                 /\ reqs[j].left \/ reqs[k].left
    BY <1>3 DEF PaymentInv, ParkedForReason
  <2> QED
    BY <1>3, <1>5, <1>6, <2>1
<1> QED
  BY <1>7, <1>8, <1>10, <1>11, <1>12, <1>13 DEF PaymentInv

\* The chain takes a payment, or the ledger refuses it.
LEMMA ExecuteKeeps ==
  ASSUME PaymentInv, NEW i \in DOMAIN reqs, Execute(i) \/ LedgerRefuses(i)
  PROVE  PaymentInv'
<1>t. /\ \A j \in DOMAIN reqs : reqs[j].account \in Accounts /\ reqs[j].nonce \in Nat
      /\ \A a \in Accounts : mac.nonces[a] \in Nat
  BY FsaTypes DEF PaymentInv
<1>f. /\ FsaShape /\ mac \in [nonces : [Accounts -> Nat], approved : SUBSET Accounts]
      /\ reqs[i].nonce <= mac.nonces[reqs[i].account]
  BY DEF PaymentInv, FsaShape
<1>0. reqs[i].state = "signed" /\ UNCHANGED <<flow, pending>>
  BY DEF Execute, LedgerRefuses
<1>1. CASE LedgerRefuses(i)
  <2>1. UNCHANGED mac /\ reqs' = [reqs EXCEPT ![i].state = "void"]
    BY <1>1 DEF LedgerRefuses
  <2>2. GoneOn(i, "void")
    BY <1>f, <2>1, RequestGoesOn, Zenon
  <2>3. Consumed'
    BY <1>0, <2>1, <2>2 DEF PaymentInv, Consumed, GoneOn
  <2> QED
    BY <1>0, <1>t, <1>f, <2>1, <2>2, <2>3, SignedGoesOn
<1>2. CASE Execute(i) /\ reqs[i].nonce = mac.nonces[reqs[i].account]
  <2> DEFINE a == reqs[i].account
  <2>1. /\ reqs' = [reqs EXCEPT ![i].state = "executed"]
        /\ mac' = [nonces |-> [mac.nonces EXCEPT ![a] = @ + 1], approved |-> mac.approved \cup {a}]
    BY <1>2 DEF Execute
  <2>2. GoneOn(i, "executed")
    BY <1>f, <2>1, RequestGoesOn, Zenon
  <2>3. /\ mac' \in [nonces : [Accounts -> Nat], approved : SUBSET Accounts]
        /\ \A b \in Accounts : mac'.nonces[b] = IF b = a THEN mac.nonces[a] + 1 ELSE mac.nonces[b]
    BY <1>t, <1>f, <2>1
  <2>4. Consumed'
    <3> SUFFICES ASSUME NEW b \in Accounts, NEW n \in 0..(mac'.nonces[b] - 1)
                 PROVE  \E j \in DOMAIN reqs' : reqs'[j].account = b /\ reqs'[j].nonce = n /\ reqs'[j].state = "executed"
      BY DEF Consumed
    <3>1. CASE b = a /\ n = mac.nonces[a]
      BY <1>2, <2>2, <3>1 DEF GoneOn
    <3>2. CASE ~(b = a /\ n = mac.nonces[a])
      <4>1. n \in 0..(mac.nonces[b] - 1)
        BY <1>t, <2>3, <3>2
      <4>2. PICK j \in DOMAIN reqs : reqs[j].account = b /\ reqs[j].nonce = n /\ reqs[j].state = "executed"
        BY <4>1 DEF PaymentInv, Consumed
      <4> QED
        BY <1>0, <2>2, <4>2 DEF GoneOn
    <3> QED
      BY <3>1, <3>2
  <2>5. \A b \in Accounts : mac.nonces[b] <= mac'.nonces[b]
    BY <1>t, <2>3
  <2> QED
    BY <1>0, <2>2, <2>3, <2>4, <2>5, SignedGoesOn
<1>3. CASE Execute(i) /\ reqs[i].nonce # mac.nonces[reqs[i].account]
  <2>1. UNCHANGED mac /\ reqs' = [reqs EXCEPT ![i].state = "parked"]
    BY <1>3 DEF Execute
  <2>2. GoneOn(i, "parked")
    BY <1>f, <2>1, RequestGoesOn, Zenon
  <2>3. Consumed'
    BY <1>0, <2>1, <2>2 DEF PaymentInv, Consumed, GoneOn
  <2>4. reqs[i].nonce \in 0..(mac.nonces[reqs[i].account] - 1)
    BY <1>t, <1>f, <1>3
  <2>5. PICK k \in DOMAIN reqs : reqs[k].account = reqs[i].account /\ reqs[k].nonce = reqs[i].nonce /\ reqs[k].state = "executed"
    BY <1>t, <2>4 DEF PaymentInv, Consumed
  <2>6. k # i /\ Same(i, k) /\ reqs[k].state \in SignedOff
    BY <1>0, <2>5 DEF Same, SignedOff
  <2>7. reqs[i].left \/ reqs[k].left
    BY <1>0, <2>6 DEF PaymentInv, OneOfTwoLeft
  <2> QED
    BY <1>0, <1>t, <1>f, <2>1, <2>2, <2>3, <2>6, <2>7, SignedGoesOn
<1> QED
  BY <1>1, <1>2, <1>3

\* The page leaves the request of its flow, by a poll that gives up or a reload.
LEMMA LeaveKeeps ==
  ASSUME PaymentInv, flow.step = "sign", reqs' = [reqs EXCEPT ![flow.req].left = TRUE],
         UNCHANGED <<mac, pending>>, flow' = NoFlow \/ flow' = [flow EXCEPT !.step = "failed"]
  PROVE  PaymentInv'
<1>f. /\ FsaShape /\ flow.req \in DOMAIN reqs /\ flow.req \in 0..Len(reqs) /\ Len(reqs) \in Nat
      /\ flow \in [step : FlowSteps, req : Nat]
  BY DEF PaymentInv, FsaShape, FSA_STAGES
<1>1. /\ reqs' \in Seq(Requests) /\ Len(reqs') = Len(reqs) /\ DOMAIN reqs' = DOMAIN reqs
      /\ \A j \in DOMAIN reqs : /\ reqs'[j].account = reqs[j].account /\ reqs'[j].nonce = reqs[j].nonce
                                /\ reqs'[j].state = reqs[j].state
                                /\ j # flow.req => reqs'[j].left = reqs[j].left
      /\ reqs'[flow.req].left
  BY <1>f, RequestIsLeft
<1>2. /\ flow' \in [step : FlowSteps, req : Nat] /\ flow'.step \in {"idle", "failed"}
      /\ flow'.req \in 0..Len(reqs)
  BY <1>f DEF FlowSteps, NoFlow
<1>3. \A j \in DOMAIN reqs : ~reqs'[j].left => j # flow.req /\ ~reqs[j].left
  BY <1>1
<1>4. \A j \in DOMAIN reqs : reqs[j].left => reqs'[j].left
  BY <1>1
<1>5. \A j, k \in DOMAIN reqs : Same(j, k)' <=> Same(j, k)
  BY <1>1 DEF Same
<1>6. FsaShape'
  BY <1>f, <1>1, <1>2 DEF FsaShape, FSA_STAGES
<1>7. FlowIsNewest'
  <2>1. \A j \in DOMAIN reqs' : ~(reqs'[j].state = "open" /\ ~reqs'[j].left)
    BY <1>1, <1>3 DEF PaymentInv, FlowIsNewest
  <2> QED
    BY <1>2, <2>1 DEF FlowIsNewest, FSA_STAGES
<1>8. Consumed'
  BY <1>1 DEF PaymentInv, Consumed
<1>9. SeenRecorded'
  BY <1>1, <1>3 DEF PaymentInv, SeenRecorded
<1>10. Alone'
  BY <1>2 DEF Alone
<1>11. OneOfTwoLeft'
  BY <1>1, <1>3, <1>4, <1>5 DEF PaymentInv, OneOfTwoLeft
<1>12. ParkedForReason'
  <2> SUFFICES ASSUME NEW j \in DOMAIN reqs, reqs'[j].state = "parked"
               PROVE  \E k \in DOMAIN reqs : /\ k # j /\ Same(j, k)' /\ reqs'[k].state \in SignedOff
                                             /\ reqs'[j].left \/ reqs'[k].left
    BY <1>1 DEF ParkedForReason
  <2>1. PICK k \in DOMAIN reqs : /\ k # j /\ Same(j, k) /\ reqs[k].state \in SignedOff
                                 /\ reqs[j].left \/ reqs[k].left
    BY <1>1 DEF PaymentInv, ParkedForReason
  <2> QED
    BY <1>1, <1>4, <1>5, <2>1
<1> QED
  BY <1>6, <1>7, <1>8, <1>9, <1>10, <1>11, <1>12 DEF PaymentInv

\* Steps that leave the payments as they are.
LEMMA PaymentStays ==
  ASSUME PaymentInv, UNCHANGED fsaVars
  PROVE  PaymentInv'
BY DEF PaymentInv, fsaVars, FsaShape, FlowIsNewest, Consumed, SeenRecorded, Alone, OneOfTwoLeft,
       ParkedForReason, Same, Mine, Payer

\* The flow is over: the page reloads without one to sign, or takes its outcome.
LEMMA FlowIsOver ==
  ASSUME PaymentInv, flow.step # "sign", flow' = NoFlow, UNCHANGED <<mac, reqs, pending>>
  PROVE  PaymentInv'
<1>f. /\ pending \in [Accounts -> Int] /\ \A a \in Accounts : pending[a] <= mac.nonces[a]
      /\ Len(reqs) \in Nat
  BY DEF PaymentInv, FsaShape
<1>1. flow' \in [step : FlowSteps, req : Nat] /\ flow'.req \in 0..Len(reqs) /\ flow'.step = "idle"
  BY <1>f DEF FlowSteps, NoFlow
<1>2. \A i \in DOMAIN reqs : (reqs[i].state \in SignedOff /\ ~reqs[i].left)
         => \/ reqs[i].nonce < mac.nonces[reqs[i].account]
            \/ reqs[i].nonce <= pending[reqs[i].account]
  BY DEF PaymentInv, SeenRecorded
<1> QED
  BY <1>f, <1>1, <1>2, FlowMovesOn
\* The page before any payment.
LEMMA PaymentStarts ==
  ASSUME FsaInit
  PROVE  PaymentInv
<1> USE DEF FsaInit
<1>1. FsaShape
  <2>1. reqs \in Seq(Requests) /\ DOMAIN reqs = {} /\ Len(reqs) = 0
    OBVIOUS
  <2>2. mac \in [nonces : [Accounts -> Nat], approved : SUBSET Accounts] /\ pending \in [Accounts -> Int]
    BY DEF NoNonce
  <2>3. \A a \in Accounts : pending[a] <= mac.nonces[a]
    BY DEF NoNonce
  <2>4. flow \in [step : FlowSteps, req : Nat] /\ flow.req = 0 /\ flow.step = "idle"
    BY DEF NoFlow, FlowSteps
  <2> QED
    BY <2>1, <2>2, <2>3, <2>4 DEF FsaShape, FSA_STAGES
<1>2. \A i \in DOMAIN reqs : FALSE
  OBVIOUS
<1>3. flow.step = "idle" /\ \A a \in Accounts : mac.nonces[a] = 0
  BY DEF NoFlow
<1>4. Consumed
  BY <1>3 DEF Consumed
<1> QED
  BY <1>1, <1>2, <1>3, <1>4 DEF PaymentInv, FlowIsNewest, SeenRecorded, Alone, OneOfTwoLeft, ParkedForReason,
                                FSA_STAGES

\* Every step of the whole keeps what is known of the payments.
LEMMA PaymentKept ==
  ASSUME PaymentInv, FlowOfDeposit, Next,
         dep.step = "approve" => dep.user \in Users
  PROVE  PaymentInv'
<1>1. CASE UNCHANGED <<mac, reqs, flow, pending>>
  BY <1>1, PaymentStays DEF fsaVars
<1>2. CASE FsaAction
  <2>1. CASE OpenRequest
    BY <2>1, OpenKeeps
  <2>2. CASE SeeAnswer \/ SeeRejection \/ SeeExecuted \/ WaitTimeout
    BY <2>2, PageSees
  <2>3. CASE SignTimeout
    <3>1. /\ flow.step = "sign" /\ reqs' = [reqs EXCEPT ![flow.req].left = TRUE] /\ UNCHANGED <<mac, pending>>
          /\ flow' = [flow EXCEPT !.step = "failed"]
      BY <2>3 DEF SignTimeout, FlowFails
    <3> QED
      BY <3>1, LeaveKeeps, Zenon
  <2>4. ASSUME NEW i \in DOMAIN reqs, Execute(i) \/ LedgerRefuses(i) PROVE PaymentInv'
    BY <2>4, ExecuteKeeps
  <2>5. ASSUME NEW i \in DOMAIN reqs, Answer(i) PROVE PaymentInv'
    BY <2>5, AnswerKeeps
  <2> QED
    BY <1>2, <2>1, <2>2, <2>3, <2>4, <2>5, Zenon DEF FsaAction, FsaStep, FsaOther
<1>3. CASE OpAction
  <2>1. CASE AskApproval
    <3>1. dep.step = "approve" /\ dep.user # Evm /\ Build(dep.user) /\ UNCHANGED mac
      BY <2>1 DEF AskApproval
    <3>2. dep.user \in Accounts /\ flow.step = "idle"
      BY <3>1 DEF Users, FlowOfDeposit
    <3> QED
      BY <3>1, <3>2, BuildKeeps
  <2>2. CASE FlowEnds
    <3>1. flow' = NoFlow /\ UNCHANGED <<mac, reqs, pending>> /\ flow.step # "sign"
      BY <2>2 DEF FlowEnds
    <3> QED
      BY <3>1, FlowIsOver
  <2>3. CASE StartDeposit \/ EvmApproves \/ DepositConfirmed \/ DepositGivesUp \/ ReceiveSlip \/ WithdrawFails \/ StartRetry
    BY <1>1, <2>3 DEF StartDeposit, EvmApproves, DepositConfirmed, DepositGivesUp, ReceiveSlip, WithdrawFails,
                      StartRetry, fsaVars
  <2> QED
    BY <1>3, <2>1, <2>2, <2>3, Zenon DEF OpAction
<1>4. CASE Reload
  <2>1. CASE flow.step = "sign"
    <3>1. reqs' = [reqs EXCEPT ![flow.req].left = TRUE] /\ UNCHANGED <<mac, pending>> /\ flow' = NoFlow
      BY <1>4, <2>1 DEF Reload, FsaReload
    <3> QED
      BY <2>1, <3>1, LeaveKeeps, Zenon
  <2>2. CASE flow.step # "sign"
    <3>1. UNCHANGED <<mac, reqs, pending>> /\ flow' = NoFlow
      BY <1>4, <2>2 DEF Reload, FsaReload
    <3> QED
      BY <2>2, <3>1, FlowIsOver
  <2> QED
    BY <2>1, <2>2
<1>5. CASE SessionAction \/ FaucetAction \/ NewSlip \/ CallAction \/ TeeAction
  BY <1>1, <1>5, SessionFrame, FaucetFrame, NewSlipFrame, CallFrame, TeeFrame
<1>6. CASE TeeRestart
  BY <1>6, PaymentStays DEF TeeRestart
<1> QED
  BY <1>2, <1>3, <1>4, <1>5, <1>6, Kinds

-----------------------------------------------------------------------------
(* Operations, the calls they make, and where slips are kept.              *)

\* Who may own an operation or a call: MetaMask's user, and accounts that have
\* been connected.
Owner(u) == u = Evm \/ u \in past.connected

OpsShape ==
  /\ ops \in 0..MaxOps /\ faults \in 0..MaxFaults
  /\ CreditsShape
  /\ dep \in Operation /\ wd \in Operation /\ retry \in Operation
  /\ dep.step \in {"idle", "approve", "flow", "carry", "poll"}
  /\ wd.step \in {"idle", "confirm", "request", "carry"}
  /\ retry.step \in {"idle", "carry"}

\* Operations under way have owners, and numbers of their own; a deposit that polls
\* has its instruction, a withdrawal its request, in the name of its owner.
OpsOwned ==
  /\ dep.step # "idle" => Owner(dep.user) /\ dep.at \in 1..ops
  /\ wd.step # "idle" => Owner(wd.user) /\ wd.at \in 1..ops
  /\ retry.step # "idle" => Owner(retry.user) /\ retry.at \in 1..ops
  /\ dep.step # "idle" => /\ wd.step # "idle" => wd.at # dep.at
                          /\ retry.step # "idle" => retry.at # dep.at
  /\ dep.step = "poll" => dep.id \in DOMAIN credits
  /\ wd.step = "confirm" => wd.user = Evm
  /\ wd.step = "request" => wd.id \in DOMAIN slips /\ slips[wd.id].user = wd.user

\* What a call was given to the relay or MetaMask for.
CallShape == [what : {"deposit", "execute"}, user : Users, id : Nat, amount : Nat, at : Nat]
\* A call is of an operation of its kind, which may be over; one that executes is
\* given a slip that has reached the page, MetaMask's if it is MetaMask's.
CallsOwned ==
  \A c \in calls :
     /\ c \in CallShape /\ c.at \in 1..ops /\ Owner(c.user)
     /\ c.what = "execute" => /\ c.id \in got /\ (slips[c.id].user = Evm <=> c.user = Evm)
                              /\ dep.step # "idle" => dep.at # c.at
     /\ c.what = "deposit" => /\ wd.step # "idle" => wd.at # c.at
                              /\ retry.step # "idle" => retry.at # c.at

Vaults(paid) == [tokens : Int, used : SUBSET paid, missing : Nat]

\* The slips that the page has had are signed; only they are kept and executed.
SlipsHad ==
  /\ got \subseteq DOMAIN slips /\ \A i \in got : slips[i].stage = "signed"
  /\ vault \in Vaults(got)
  /\ saved \in [ref : Nat, disk : [Accounts -> Nat], cached : Nat]
  /\ saved.ref # NoSlip => saved.ref \in got /\ slips[saved.ref].user # Evm
  /\ \A a \in Accounts : saved.disk[a] # NoSlip => saved.disk[a] \in got /\ slips[saved.disk[a]].user # Evm
  /\ saved.cached # NoSlip => saved.cached \in got /\ slips[saved.cached].user = Evm

OpsInv == OpsShape /\ OpsOwned /\ CallsOwned /\ SlipsHad /\ FlowOfDeposit

\* An operation goes on, ends, or is one just begun.
GoesOn(op, op1) ==
  op1.step # "idle" =>
    /\ op1.user = Evm \/ op1.user \in past'.connected
    /\ op1.at \in 1..ops'
    /\ \/ op.step # "idle" /\ op1.at = op.at
       \/ op1.at > ops
\* A call is of the operation, under way, that has just made it.
MadeBy(c, op) == op.step # "idle" /\ c.at = op.at
NewCall(c) ==
  /\ c \in CallShape
  /\ c.user = Evm \/ c.user \in past'.connected
  /\ \/ c.what = "deposit" /\ MadeBy(c, dep')
     \/ /\ c.what = "execute" /\ (MadeBy(c, wd') \/ MadeBy(c, retry'))
        /\ c.id \in got' /\ (slips'[c.id].user = Evm <=> c.user = Evm)
\* What only grows.
OpsGrow ==
  /\ past.connected \subseteq past'.connected
  /\ ops' \in 0..MaxOps /\ faults' \in 0..MaxFaults /\ ops <= ops'
  /\ got \subseteq got' /\ DOMAIN credits \subseteq DOMAIN credits' /\ CreditsShape'
  /\ SlipsGrow

\* What a step must do to the operations and calls to keep what is known of them.
LEMMA OpsMove ==
  ASSUME OpsInv, OpsGrow,
         GoesOn(dep, dep'), GoesOn(wd, wd'), GoesOn(retry, retry'),
         dep'.step # "idle" /\ dep'.at > ops => wd' = wd /\ retry' = retry,
         dep' \in Operation, wd' \in Operation, retry' \in Operation,
         dep'.step = "poll" => dep'.id \in DOMAIN credits',
         wd'.step = "confirm" => wd'.user = Evm,
         wd'.step = "request" => wd'.id \in DOMAIN slips' /\ slips'[wd'.id].user = wd'.user,
         \A c \in calls' : c \in calls \/ NewCall(c)
  PROVE  OpsOwned' /\ CallsOwned'
<1>1. /\ ops \in Nat /\ ops' \in Nat /\ ops <= ops'
      /\ \A a \in 1..ops : a \in 1..ops'
  BY DEF OpsInv, OpsShape, OpsGrow
<1>2. /\ dep'.at \in Nat /\ wd'.at \in Nat /\ retry'.at \in Nat
      /\ dep.at \in Nat /\ wd.at \in Nat /\ retry.at \in Nat
  BY DEF OpsInv, OpsShape, Operation
<1>3. dep'.step # "idle" => /\ wd'.step # "idle" => wd'.at # dep'.at
                            /\ retry'.step # "idle" => retry'.at # dep'.at
  BY <1>1, <1>2 DEF OpsInv, OpsOwned, GoesOn
<1>4. OpsOwned'
  BY <1>3 DEF OpsOwned, GoesOn, Owner
<1>5. CallsOwned'
  <2> SUFFICES ASSUME NEW c \in calls'
               PROVE  /\ c \in CallShape /\ c.at \in 1..ops' /\ Owner(c.user)'
                      /\ c.what = "execute" => /\ c.id \in got' /\ (slips'[c.id].user = Evm <=> c.user = Evm)
                                               /\ dep'.step # "idle" => dep'.at # c.at
                      /\ c.what = "deposit" => /\ wd'.step # "idle" => wd'.at # c.at
                                               /\ retry'.step # "idle" => retry'.at # c.at
    BY DEF CallsOwned
  <2>1. CASE c \in calls
    <3>1. /\ c \in CallShape /\ c.at \in 1..ops /\ Owner(c.user)
          /\ c.what = "execute" => /\ c.id \in got /\ (slips[c.id].user = Evm <=> c.user = Evm)
                                   /\ dep.step # "idle" => dep.at # c.at
          /\ c.what = "deposit" => /\ wd.step # "idle" => wd.at # c.at
                                   /\ retry.step # "idle" => retry.at # c.at
      BY <2>1 DEF OpsInv, CallsOwned
    <3>2. c.at \in Nat /\ c.at <= ops
      BY <1>1, <3>1
    <3>3. Owner(c.user)' /\ c.at \in 1..ops'
      BY <1>1, <3>1 DEF Owner, OpsGrow
    <3>4. c.what = "execute" => c.id \in got' /\ (slips'[c.id].user = Evm <=> c.user = Evm)
      BY <3>1 DEF OpsGrow, SlipsGrow, OpsInv, SlipsHad
    <3>5. c.what = "execute" => (dep'.step # "idle" => dep'.at # c.at)
      BY <1>1, <1>2, <3>1, <3>2 DEF GoesOn
    <3>6. c.what = "deposit" => /\ wd'.step # "idle" => wd'.at # c.at
                                /\ retry'.step # "idle" => retry'.at # c.at
      BY <1>1, <1>2, <3>1, <3>2 DEF GoesOn
    <3> QED
      BY <3>1, <3>3, <3>4, <3>5, <3>6
  <2>2. CASE c \notin calls
    <3>1. NewCall(c)
      BY <2>2
    <3> QED
      BY <1>1, <1>3, <3>1 DEF NewCall, MadeBy, GoesOn, Owner
  <2> QED
    BY <2>1, <2>2
<1> QED
  BY <1>4, <1>5

\* Slips had stay had.
LEMMA HadStays ==
  ASSUME OpsInv, SlipsGrow, UNCHANGED <<got, saved>>, Missed
  PROVE  SlipsHad'
<1>1. vault \in Vaults(got)
  BY DEF OpsInv, SlipsHad
<1>2. vault' \in Vaults(got)
  BY <1>1 DEF Missed, MissesBy, Vaults
<1> QED
  BY <1>2 DEF OpsInv, SlipsHad, SlipsGrow

\* Steps of which the operations know nothing.
LEMMA OpsStay ==
  ASSUME OpsInv, OpsGrow, UNCHANGED <<dep, wd, retry, calls>>
  PROVE  OpsOwned' /\ CallsOwned'
<1>1. /\ dep \in Operation /\ wd \in Operation /\ retry \in Operation
      /\ ops \in Nat /\ ops' \in Nat /\ ops <= ops'
  BY DEF OpsInv, OpsShape, OpsGrow
<1>2. GoesOn(dep, dep') /\ GoesOn(wd, wd') /\ GoesOn(retry, retry')
  BY <1>1 DEF GoesOn, OpsInv, OpsOwned, Owner, OpsGrow
<1>3. ~(dep'.step # "idle" /\ dep'.at > ops)
  BY <1>1 DEF OpsInv, OpsOwned, Operation
<1>4. /\ dep'.step = "poll" => dep'.id \in DOMAIN credits'
      /\ wd'.step = "confirm" => wd'.user = Evm
      /\ wd'.step = "request" => wd'.id \in DOMAIN slips' /\ slips'[wd'.id].user = wd'.user
  BY DEF OpsInv, OpsOwned, OpsGrow, SlipsGrow
<1>5. dep' \in Operation /\ wd' \in Operation /\ retry' \in Operation /\ calls' = calls
  BY <1>1
<1> QED
  BY <1>2, <1>3, <1>4, <1>5, OpsMove

\* The bounds of the exploration hold of the counters, which never run backwards.
LEMMA BudgetKept ==
  ASSUME ops \in 0..MaxOps, faults \in 0..MaxFaults, Next
  PROVE  ops' \in 0..MaxOps /\ faults' \in 0..MaxFaults /\ ops <= ops'
<1>0. MaxOps \in Nat /\ MaxFaults \in Nat
  BY SessionAssumption
<1>1. UNCHANGED budget \/ Op \/ Fault
  <2>1. CASE SessionAction
    <3>1. CASE SessionStep
      <4>1. CASE Lookup \/ Resolve \/ ConnectFails
        BY <4>1 DEF Lookup, Resolve, ConnectFails
      <4>2. ASSUME NEW m, BindAnswer(m) \/ BindAdvance(m) \/ BindSet(m) PROVE UNCHANGED budget
        BY <4>2 DEF BindAnswer, BindAdvance, BindSet
      <4> QED
        BY <3>1, <4>1, <4>2 DEF SessionStep
    <3>2. CASE SessionUser
      BY <3>2 DEF SessionUser, DisconnectXaman, SelectXaman, SelectEvm
    <3>3. CASE SessionScan
      BY <3>3 DEF SessionScan, SignIn, SignBind
    <3> QED
      BY <2>1, <3>1, <3>2, <3>3 DEF SessionAction
  <2>2. CASE FsaAction
    <3>1. CASE OpenRequest \/ SeeAnswer \/ SeeRejection \/ SignTimeout \/ SeeExecuted \/ WaitTimeout
      BY <3>1 DEF OpenRequest, SeeAnswer, SeeRejection, SignTimeout, SeeExecuted, WaitTimeout
    <3>2. ASSUME NEW i, Execute(i) \/ Answer(i) \/ LedgerRefuses(i) PROVE UNCHANGED budget \/ Fault
      BY <3>2 DEF Execute, Answer, LedgerRefuses
    <3> QED
      BY <2>2, <3>1, <3>2, Zenon DEF FsaAction, FsaStep, FsaOther
  <2>3. CASE FaucetAction
    <3>1. ASSUME NEW outcome, Mint(outcome) PROVE UNCHANGED budget
      BY <3>1, Zenon DEF Mint
    <3>2. CASE StartFaucet
      BY <3>2, Zenon DEF StartFaucet
    <3> QED
      BY <2>3, <3>1, <3>2 DEF FaucetAction
  <2>4. CASE OpAction
    <3>1. CASE StartDeposit \/ AskApproval \/ FlowEnds \/ EvmApproves \/ DepositConfirmed \/ DepositGivesUp
      BY <3>1 DEF StartDeposit, AskApproval, FlowEnds, EvmApproves, DepositConfirmed, DepositGivesUp
    <3>2. CASE ReceiveSlip \/ WithdrawFails \/ StartRetry
      BY <3>2 DEF ReceiveSlip, WithdrawFails, StartRetry
    <3> QED
      BY <2>4, <3>1, <3>2 DEF OpAction
  <2>5. CASE NewSlip
    BY <2>5 DEF NewSlip, StartWithdraw, EvmConfirms
  <2>6. CASE CallAction
    <3>1. ASSUME NEW c, Carry(c) \/ AnswerLost(c) \/ NotCarried(c) PROVE UNCHANGED budget \/ Fault
      BY <3>1 DEF Carry, AnswerLost, NotCarried
    <3> QED
      BY <2>6, <3>1 DEF CallAction
  <2>7. CASE TeeAction
    <3>1. ASSUME NEW i, Credit(i) \/ Redelivered(i) \/ Authorize(i) \/ UseNonce(i) \/ Debit(i) \/ Sign(i)
          PROVE  UNCHANGED budget \/ Fault
      BY <3>1 DEF Credit, Redelivered, Authorize, UseNonce, Debit, Sign
    <3> QED
      BY <2>7, <3>1 DEF TeeAction
  <2>8. CASE TeeRestart \/ Reload
    BY <2>8 DEF TeeRestart, Reload
  <2> QED
    BY <2>1, <2>2, <2>3, <2>4, <2>5, <2>6, <2>7, <2>8, Kinds
<1> QED
  BY <1>0, <1>1 DEF budget, Op, Fault

\* No step forgets that an account has been connected.
LEMMA ConnectedGrows ==
  ASSUME SessionInv, Next
  PROVE  past.connected \subseteq past'.connected
<1>1. past \in [mixed : BOOLEAN, restarted : BOOLEAN, forgot : BOOLEAN, connected : SUBSET Accounts]
  BY DEF SessionInv, SessionShape
<1>2. CASE SessionAction
  BY <1>2, SessionAdds DEF SessionAction
<1>3. CASE TeeRestart \/ Reload
  BY <1>1, <1>3 DEF TeeRestart, SessionTeeRestart, Reload, SessionReload
<1>4. CASE UNCHANGED past
  BY <1>4
<1> QED
  BY <1>2, <1>3, <1>4, Kinds, FsaFrame, FaucetFrame, OpFrame, NewSlipFrame, CallFrame, TeeFrame

\* Deposits are credited once, and added.
LEMMA CreditsGrow ==
  ASSUME CreditsShape, CallsOwned, SessionInv, Next
  PROVE  CreditsShape' /\ DOMAIN credits \subseteq DOMAIN credits'
<1>1. CASE UNCHANGED credits
  BY <1>1 DEF CreditsShape
<1>2. CASE TeeAction
  <2>1. ASSUME NEW i \in DOMAIN credits, Credit(i) PROVE CreditsShape' /\ DOMAIN credits \subseteq DOMAIN credits'
    <3>1. PICK r : r = [credits[i] EXCEPT !.done = TRUE]
      OBVIOUS
    <3>c. credits[i] \in Credited
      BY DEF CreditsShape
    <3>2. r \in Credited
      BY <3>1, <3>c DEF Credited
    <3>3. credits' = [credits EXCEPT ![i] = r]
      BY <2>1, <3>1, Zenon DEF Credit
    <3> QED
      BY <3>2, <3>3 DEF CreditsShape
  <2>2. ASSUME NEW i, Redelivered(i) \/ Authorize(i) \/ UseNonce(i) \/ Debit(i) \/ Sign(i) PROVE UNCHANGED credits
    BY <2>2 DEF Redelivered, Authorize, UseNonce, Debit, Sign
  <2> QED
    BY <1>1, <1>2, <2>1, <2>2 DEF TeeAction
<1>3. CASE CallAction
  <2>1. PICK c \in calls : Effect(c) \/ UNCHANGED credits
    BY <1>3 DEF CallAction, Carry, AnswerLost, NotCarried
  <2>2. UNCHANGED credits \/ credits' = Append(credits, [user |-> c.user, amount |-> c.amount, done |-> FALSE])
    BY <2>1 DEF Effect
  <2>3. [user |-> c.user, amount |-> c.amount, done |-> FALSE] \in Credited
    BY DEF CallsOwned, CallShape, Credited
  <2>4. PICK r \in Credited : UNCHANGED credits \/ credits' = Append(credits, r)
    BY <2>2, <2>3
  <2>5. credits' = Append(credits, r) => CreditsShape' /\ DOMAIN credits \subseteq DOMAIN credits'
    BY DEF CreditsShape
  <2> QED
    BY <1>1, <2>4, <2>5
<1>4. CASE SessionAction \/ FsaAction \/ FaucetAction \/ OpAction \/ NewSlip
  BY <1>1, <1>4, SessionFrame, FsaFrame, FaucetFrame, OpFrame, NewSlipFrame
<1>5. CASE TeeRestart \/ Reload
  BY <1>1, <1>5 DEF TeeRestart, FundsTeeRestart, Reload, FundsReload, teeVars
<1> QED
  BY <1>2, <1>3, <1>4, <1>5, Kinds

\* So every step adds, and takes nothing away.
LEMMA Grows ==
  ASSUME OpsInv, SessionInv, SlipsInv, Next
  PROVE  OpsGrow
<1>1. SlipsGrow
  BY SlipsKept DEF OpsInv, OpsShape
<1>2. past.connected \subseteq past'.connected
  BY ConnectedGrows
<1>3. ops' \in 0..MaxOps /\ faults' \in 0..MaxFaults /\ ops <= ops'
  BY BudgetKept DEF OpsInv, OpsShape
<1>4. CreditsShape' /\ DOMAIN credits \subseteq DOMAIN credits'
  BY CreditsGrow DEF OpsInv, OpsShape
<1>5. got \subseteq got'
  <2>1. CASE OpAction
    BY <2>1 DEF OpAction, StartDeposit, AskApproval, FlowEnds, EvmApproves, DepositConfirmed, DepositGivesUp,
                ReceiveSlip, WithdrawFails, StartRetry
  <2>2. CASE UNCHANGED got
    BY <2>2
  <2>3. CASE TeeRestart \/ Reload
    BY <2>3 DEF TeeRestart, FundsTeeRestart, Reload, FundsReload
  <2> QED
    BY <2>1, <2>2, <2>3, Kinds, SessionFrame, FsaFrame, FaucetFrame, NewSlipFrame, CallFrame, TeeFrame
<1> QED
  BY <1>1, <1>2, <1>3, <1>4, <1>5 DEF OpsGrow

\* Steps that leave operations and calls alone.
LEMMA OpsQuiet ==
  ASSUME OpsInv, OpsGrow, UNCHANGED <<dep, wd, retry, calls>>, SlipsHad', flow'.step # "idle" => flow.step # "idle"
  PROVE  OpsInv'
<1>1. OpsOwned' /\ CallsOwned'
  BY OpsStay
<1>2. OpsShape'
  BY DEF OpsInv, OpsShape, OpsGrow
<1>3. FlowOfDeposit'
  BY DEF OpsInv, FlowOfDeposit
<1> QED
  BY <1>1, <1>2, <1>3 DEF OpsInv

\* What the user begins has a number of its own.
LEMMA Begun ==
  ASSUME OpsInv, SessionInv, Op, Identity # None,
         NEW step \in {"idle", "approve", "flow", "confirm", "request", "carry", "poll"}, NEW id \in Nat,
         NEW amount \in Nat, NEW b, b = Begin(step, id, amount)
  PROVE  /\ b \in Operation /\ b.step = step /\ b.user = Identity /\ b.id = id /\ b.at = ops + 1
         /\ b.at \in 1..ops' /\ b.at > ops
         /\ b.user = Evm \/ b.user \in past.connected
<1>1. ops \in Nat /\ ops' = ops + 1
  BY DEF OpsInv, OpsShape, Op
<1>2. Identity \in Users /\ (Identity = Evm \/ Identity \in past.connected)
  BY IdentityIs
<1>3. b = [step |-> step, user |-> Identity, id |-> id, amount |-> amount, at |-> ops + 1]
  BY DEF Begin
<1> QED
  BY <1>1, <1>2, <1>3 DEF Operation

\* An operation's step changes, or the operation is over.
LEMMA OpGoesOn ==
  ASSUME OpsInv, OpsGrow, NEW op \in {dep, wd, retry}, op.step # "idle",
         NEW step \in {"flow", "request", "carry", "poll"}, NEW op1, op1 = [op EXCEPT !.step = step]
  PROVE  /\ op1 \in Operation /\ op1.step = step /\ op1.user = op.user /\ op1.id = op.id /\ op1.at = op.at
         /\ op1.at \in 1..ops' /\ op1.at <= ops
         /\ op1.user = Evm \/ op1.user \in past.connected
         /\ GoesOn(op, op1)
<1>1. op \in Operation /\ Owner(op.user) /\ op.at \in 1..ops /\ ops \in Nat /\ ops' \in Nat /\ ops <= ops'
  BY DEF OpsInv, OpsShape, OpsOwned, OpsGrow
<1>2. op1 \in Operation /\ op1.step = step /\ op1.user = op.user /\ op1.id = op.id /\ op1.at = op.at
  BY <1>1 DEF Operation
<1> QED
  BY <1>1, <1>2 DEF GoesOn, Owner, OpsGrow

\* No operation is one that could be under way; an operation that does not change
\* goes on.
LEMMA OpStays ==
  ASSUME OpsInv, OpsGrow
  PROVE  /\ NoOp \in Operation /\ NoOp.step = "idle" /\ \A op : GoesOn(op, NoOp)
         /\ \A op \in {dep, wd, retry} : op \in Operation /\ GoesOn(op, op) /\ (op.step # "idle" => ~(op.at > ops))
<1>1. NoOp \in Operation /\ NoOp.step = "idle" /\ \A op : GoesOn(op, NoOp)
  BY DEF NoOp, Operation, GoesOn, NoSlip
<1>2. ASSUME NEW op \in {dep, wd, retry}
      PROVE  op \in Operation /\ GoesOn(op, op) /\ (op.step # "idle" => ~(op.at > ops))
  <2>1. op \in Operation /\ (op.step # "idle" => Owner(op.user) /\ op.at \in 1..ops)
        /\ ops \in Nat /\ ops' \in Nat /\ ops <= ops'
    BY DEF OpsInv, OpsShape, OpsOwned, OpsGrow
  <2> QED
    BY <2>1 DEF GoesOn, Owner, OpsGrow
<1> QED
  BY <1>1, <1>2

\* Deposits.
LEMMA DepositKept ==
  ASSUME OpsInv, OpsGrow, SessionInv,
         StartDeposit \/ AskApproval \/ FlowEnds \/ EvmApproves \/ DepositConfirmed \/ DepositGivesUp
  PROVE  OpsInv'
<1>0. UNCHANGED <<wd, retry, vault, saved, got, slips, past>>
  BY DEF StartDeposit, AskApproval, FlowEnds, EvmApproves, DepositConfirmed, DepositGivesUp, sessionVars, teeVars
<1>1. SlipsHad'
  BY <1>0, HadStays DEF OpsGrow, Missed
<1>2. /\ wd \in Operation /\ retry \in Operation /\ GoesOn(wd, wd) /\ GoesOn(retry, retry)
      /\ wd.step # "idle" => ~(wd.at > ops)
      /\ retry.step # "idle" => ~(retry.at > ops)
  BY OpStays
<1>3. /\ wd'.step = "confirm" => wd'.user = Evm
      /\ wd'.step = "request" => wd'.id \in DOMAIN slips' /\ slips'[wd'.id].user = wd'.user
  BY <1>0 DEF OpsInv, OpsOwned
<1>4. ASSUME dep' \in Operation, GoesOn(dep, dep'), dep'.step \in {"idle", "approve", "flow", "carry"},
             \A c \in calls' : c \in calls \/ NewCall(c), FlowOfDeposit'
      PROVE  OpsInv'
  <2>1. OpsOwned' /\ CallsOwned'
    BY <1>0, <1>2, <1>3, <1>4, OpsMove
  <2>2. OpsShape'
    BY <1>0, <1>4 DEF OpsInv, OpsShape, OpsGrow
  <2> QED
    BY <1>1, <1>4, <2>1, <2>2 DEF OpsInv
<1>5. CASE StartDeposit
  <2>1. PICK step \in {"carry", "approve"}, x \in Nat : dep' = Begin(step, NoSlip, x)
    BY <1>5, FundsAssumption DEF StartDeposit
  <2>2. Op /\ Identity # None /\ NoSlip \in Nat /\ dep.step = "idle" /\ UNCHANGED flow
    BY <1>5 DEF StartDeposit, CanDeposit, NoSlip, fsaVars
  <2>3. /\ dep' \in Operation /\ dep'.step = step /\ dep'.at \in 1..ops' /\ dep'.at > ops
        /\ dep'.user = Identity /\ dep'.id = NoSlip
        /\ dep'.user = Evm \/ dep'.user \in past.connected
    <3>1. PICK s \in {"idle", "approve", "flow", "confirm", "request", "carry", "poll"} : s = step
      OBVIOUS
    <3>2. PICK id \in Nat : id = NoSlip
      BY <2>2
    <3>3. PICK b : b = Begin(s, id, x)
      OBVIOUS
    <3>4. Op /\ Identity # None
      BY <2>2
    <3>5. /\ b \in Operation /\ b.step = s /\ b.user = Identity /\ b.id = id
          /\ b.at \in 1..ops' /\ b.at > ops
          /\ b.user = Evm \/ b.user \in past.connected
      BY <1>0, <3>3, <3>4, Begun
    <3>6. dep' = b
      BY <2>1, <3>1, <3>2, <3>3
    <3> QED
      BY <3>1, <3>2, <3>5, <3>6
  <2>4. GoesOn(dep, dep')
    BY <1>0, <2>3 DEF GoesOn
  <2>5. \A c \in calls' : c \in calls \/ NewCall(c)
    <3>1. calls' = calls \/ calls' = calls \cup {[what |-> "deposit", user |-> dep'.user, id |-> dep'.id, amount |-> dep'.amount, at |-> dep'.at]}
      BY <1>5 DEF StartDeposit, Call
    <3>2. NewCall([what |-> "deposit", user |-> dep'.user, id |-> dep'.id, amount |-> dep'.amount, at |-> dep'.at])
      <4>1. dep'.user \in Users /\ {dep'.at, dep'.id, dep'.amount} \subseteq Nat /\ dep'.step # "idle"
        BY <2>2, <2>3, IdentityIs DEF Operation
      <4> QED
        BY <1>0, <2>3, <4>1 DEF NewCall, MadeBy, CallShape
    <3> QED
      BY <3>1, <3>2
  <2>6. FlowOfDeposit'
    BY <2>2 DEF OpsInv, FlowOfDeposit
  <2> QED
    BY <1>4, <2>3, <2>4, <2>5, <2>6
<1>6. CASE AskApproval
  <2>1. dep.step = "approve" /\ dep' = [dep EXCEPT !.step = "flow"] /\ UNCHANGED calls
    BY <1>6 DEF AskApproval
  <2>2. dep' \in Operation /\ dep'.step = "flow" /\ GoesOn(dep, dep')
    BY <2>1, OpGoesOn
  <2>3. FlowOfDeposit'
    BY <2>2 DEF FlowOfDeposit
  <2> QED
    BY <1>4, <2>1, <2>2, <2>3
<1>7. CASE FlowEnds \/ EvmApproves
  <2>1. dep.step \in {"approve", "flow"} /\ ((UNCHANGED flow /\ dep.step = "approve") \/ flow'.step = "idle")
    BY <1>7 DEF FlowEnds, EvmApproves, NoFlow, fsaVars
  <2>2. FlowOfDeposit'
    BY <2>1 DEF OpsInv, FlowOfDeposit
  <2>3. \/ dep' = NoOp /\ UNCHANGED calls
        \/ /\ dep' = [dep EXCEPT !.step = "carry"]
           /\ calls' = calls \cup {[what |-> "deposit", user |-> dep.user, id |-> dep.id, amount |-> dep.amount, at |-> dep.at]}
    BY <1>7 DEF FlowEnds, EvmApproves, Call
  <2>4. CASE dep' = NoOp /\ UNCHANGED calls
    <3>1. dep' \in Operation /\ dep'.step = "idle" /\ GoesOn(dep, dep')
      BY <2>4, OpStays
    <3> QED
      BY <1>4, <2>2, <2>4, <3>1
  <2>5. CASE /\ dep' = [dep EXCEPT !.step = "carry"]
             /\ calls' = calls \cup {[what |-> "deposit", user |-> dep.user, id |-> dep.id, amount |-> dep.amount, at |-> dep.at]}
    <3>1. /\ dep' \in Operation /\ dep'.step = "carry" /\ GoesOn(dep, dep')
          /\ dep'.user = dep.user /\ dep'.id = dep.id /\ dep'.at = dep.at
          /\ dep'.user = Evm \/ dep'.user \in past.connected
      BY <2>1, <2>5, OpGoesOn
    <3>2. NewCall([what |-> "deposit", user |-> dep.user, id |-> dep.id, amount |-> dep.amount, at |-> dep.at])
      <4>1. dep.user \in Users /\ {dep.at, dep.id, dep.amount} \subseteq Nat
        BY <2>5, <3>1 DEF OpsInv, OpsShape, Operation, Users, SessionInv, SessionShape
      <4> QED
        BY <1>0, <3>1, <4>1 DEF NewCall, MadeBy, CallShape
    <3> QED
      BY <1>4, <2>2, <2>5, <3>1, <3>2
  <2> QED
    BY <2>3, <2>4, <2>5
<1>8. CASE DepositConfirmed \/ DepositGivesUp
  <2>1. dep' = NoOp /\ UNCHANGED calls /\ UNCHANGED flow /\ dep.step = "poll"
    BY <1>8 DEF DepositConfirmed, DepositGivesUp, fsaVars
  <2>2. dep' \in Operation /\ dep'.step = "idle" /\ GoesOn(dep, dep')
    BY <2>1, OpStays
  <2>3. FlowOfDeposit'
    BY <2>1 DEF OpsInv, FlowOfDeposit
  <2> QED
    BY <1>4, <2>1, <2>2, <2>3
<1> QED
  BY <1>5, <1>6, <1>7, <1>8

\* Withdrawals and retries.
LEMMA WithdrawalKept ==
  ASSUME OpsInv, OpsGrow, SessionInv, SlipsInv,
         StartWithdraw \/ EvmConfirms \/ ReceiveSlip \/ WithdrawFails \/ StartRetry
  PROVE  OpsInv'
<1>0. UNCHANGED <<dep, flow, vault, past>>
  BY DEF StartWithdraw, EvmConfirms, ReceiveSlip, WithdrawFails, StartRetry, fsaVars, sessionVars
<1>1. /\ dep \in Operation /\ GoesOn(dep, dep) /\ (dep.step # "idle" => ~(dep.at > ops))
      /\ wd \in Operation /\ GoesOn(wd, wd) /\ retry \in Operation /\ GoesOn(retry, retry)
      /\ NoOp \in Operation /\ NoOp.step = "idle" /\ GoesOn(wd, NoOp)
  BY OpStays
<1>2. FlowOfDeposit' /\ (dep'.step = "poll" => dep'.id \in DOMAIN credits')
  BY <1>0 DEF OpsInv, OpsOwned, OpsGrow, FlowOfDeposit
<1>3. ASSUME wd' \in Operation, GoesOn(wd, wd'), wd'.step \in {"idle", "confirm", "request", "carry"},
             retry' \in Operation, GoesOn(retry, retry'), retry'.step \in {"idle", "carry"},
             wd'.step = "confirm" => wd'.user = Evm,
             wd'.step = "request" => wd'.id \in DOMAIN slips' /\ slips'[wd'.id].user = wd'.user,
             \A c \in calls' : c \in calls \/ NewCall(c),
             SlipsHad'
      PROVE  OpsInv'
  <2>1. OpsOwned' /\ CallsOwned'
    BY <1>0, <1>1, <1>2, <1>3, OpsMove
  <2>2. OpsShape'
    BY <1>0, <1>3 DEF OpsInv, OpsShape, OpsGrow
  <2> QED
    BY <1>2, <1>3, <2>1, <2>2 DEF OpsInv
<1>s. slips \in Seq(Slip) /\ Len(slips) \in Nat /\ DOMAIN slips = 1..Len(slips)
  BY DEF SlipsInv, SlipsShape
<1>w. /\ wd.step = "confirm" => wd.user = Evm
      /\ wd.step = "request" => wd.id \in DOMAIN slips' /\ slips'[wd.id].user = wd.user
  BY DEF OpsInv, OpsOwned, OpsGrow, SlipsGrow
<1>4. CASE StartWithdraw
  <2>0. /\ Op /\ Identity # None /\ UNCHANGED <<calls, retry, got, saved>>
        /\ \E x \in Amounts :
             \/ Identity = Evm /\ wd' = Begin("confirm", NoSlip, x) /\ UNCHANGED slips
             \/ /\ Identity # Evm /\ wd' = Begin("request", Len(slips) + 1, x)
                /\ slips' = Requested(Identity, xaman.key, now + 1, x)
    BY <1>4 DEF StartWithdraw, CanWithdraw
  <2>x. PICK x \in Nat :
           \/ Identity = Evm /\ wd' = Begin("confirm", NoSlip, x) /\ UNCHANGED slips
           \/ /\ Identity # Evm /\ wd' = Begin("request", Len(slips) + 1, x)
              /\ slips' = Requested(Identity, xaman.key, now + 1, x)
    BY <2>0, FundsAssumption
  <2>1. PICK step \in {"confirm", "request"}, id \in Nat :
           /\ wd' = Begin(step, id, x)
           /\ step = "confirm" => Identity = Evm
           /\ step = "request" => id = Len(slips) + 1 /\ slips' = Requested(Identity, xaman.key, now + 1, x)
    BY <1>s, <2>x DEF NoSlip
  <2>2. /\ wd' \in Operation /\ wd'.step = step /\ wd'.user = Identity /\ wd'.id = id
        /\ wd'.at \in 1..ops' /\ wd'.at > ops
        /\ wd'.user = Evm \/ wd'.user \in past.connected
    BY <2>0, <2>1, Begun
  <2>3. GoesOn(wd, wd')
    BY <1>0, <2>2 DEF GoesOn
  <2>4. wd'.step = "request" => wd'.id \in DOMAIN slips' /\ slips'[wd'.id].user = wd'.user
    BY <1>s, <2>1, <2>2 DEF Requested
  <2>5. SlipsHad'
    BY <1>0, <2>0, HadStays DEF OpsGrow, Missed
  <2>6. wd'.step \in {"confirm", "request"} /\ (wd'.step = "confirm" => wd'.user = Evm)
    BY <2>1, <2>2
  <2>7. retry' \in Operation /\ GoesOn(retry, retry') /\ retry'.step \in {"idle", "carry"}
        /\ \A c \in calls' : c \in calls
    BY <1>1, <2>0 DEF OpsInv, OpsShape
  <2> QED
    BY <1>3, <2>2, <2>3, <2>4, <2>5, <2>6, <2>7
<1>5. CASE EvmConfirms
  <2>0. /\ wd.step = "confirm" /\ wd' = [wd EXCEPT !.step = "request", !.id = Len(slips) + 1]
        /\ slips' = Requested(Evm, NoKey, 0, wd.amount)
        /\ UNCHANGED <<calls, retry, got, saved>>
    BY <1>5 DEF EvmConfirms
  <2>1. /\ wd' \in Operation /\ wd'.step = "request" /\ wd'.user = wd.user /\ wd'.id = Len(slips) + 1 /\ wd'.at = wd.at
    <3>1. PICK n \in Nat : n = Len(slips) + 1
      BY <1>s
    <3>2. wd' = [wd EXCEPT !.step = "request", !.id = n] /\ wd \in Operation
      BY <1>1, <2>0, <3>1
    <3>3. /\ wd' \in Operation /\ wd'.step = "request" /\ wd'.user = wd.user /\ wd'.id = n /\ wd'.at = wd.at
      BY <3>2 DEF Operation
    <3> QED
      BY <3>1, <3>3
  <2>2. GoesOn(wd, wd')
    BY <1>1, <2>0, <2>1 DEF GoesOn
  <2>3. wd'.id \in DOMAIN slips' /\ slips'[wd'.id].user = wd'.user
    BY <1>s, <1>w, <2>0, <2>1 DEF Requested
  <2>5. SlipsHad'
    BY <1>0, <2>0, HadStays DEF OpsGrow, Missed
  <2>7. retry' \in Operation /\ GoesOn(retry, retry') /\ retry'.step \in {"idle", "carry"}
        /\ \A c \in calls' : c \in calls
    BY <1>1, <2>0 DEF OpsInv, OpsShape
  <2> QED
    BY <1>3, <2>1, <2>2, <2>3, <2>5, <2>7
<1>6. CASE ReceiveSlip
  <2>0. /\ wd.step = "request" /\ slips[wd.id].stage = "signed" /\ wd' = [wd EXCEPT !.step = "carry"]
        /\ calls' = calls \cup {[what |-> "execute", user |-> wd.user, id |-> wd.id, amount |-> wd.amount, at |-> wd.at]}
        /\ got' = got \cup {wd.id}
        /\ saved' = IF wd.user = Evm THEN saved ELSE [saved EXCEPT !.ref = wd.id, !.disk[wd.user] = wd.id]
        /\ UNCHANGED <<slips, retry>>
    BY <1>6 DEF ReceiveSlip, Call, teeVars
  <2>1. /\ wd' \in Operation /\ wd'.step = "carry" /\ wd'.user = wd.user /\ wd'.id = wd.id /\ wd'.at = wd.at
        /\ GoesOn(wd, wd') /\ (wd'.user = Evm \/ wd'.user \in past.connected)
    BY <2>0, OpGoesOn
  <2>2. wd.id \in DOMAIN slips /\ slips[wd.id].user = wd.user /\ wd.user \in Users /\ {wd.id, wd.at, wd.amount} \subseteq Nat
    BY <1>1, <1>s, <1>w, <2>0, <2>1 DEF Operation, Users, SessionInv, SessionShape
  <2>3. NewCall([what |-> "execute", user |-> wd.user, id |-> wd.id, amount |-> wd.amount, at |-> wd.at])
    BY <1>0, <2>0, <2>1, <2>2 DEF NewCall, MadeBy, CallShape
  <2>4. SlipsHad'
    <3>1. got' \subseteq DOMAIN slips /\ (\A i \in got' : slips[i].stage = "signed") /\ got \subseteq got' /\ wd.id \in got'
      BY <2>0, <2>2 DEF OpsInv, SlipsHad
    <3>2. vault' \in Vaults(got')
      BY <1>0, <3>1 DEF OpsInv, SlipsHad, Vaults
    <3>3. /\ saved \in [ref : Nat, disk : [Accounts -> Nat], cached : Nat]
          /\ saved.ref # NoSlip => saved.ref \in got /\ slips[saved.ref].user # Evm
          /\ \A a \in Accounts : saved.disk[a] # NoSlip => saved.disk[a] \in got /\ slips[saved.disk[a]].user # Evm
          /\ saved.cached # NoSlip => saved.cached \in got /\ slips[saved.cached].user = Evm
      BY DEF OpsInv, SlipsHad
    <3>4. CASE wd.user = Evm
      BY <2>0, <3>1, <3>2, <3>3, <3>4 DEF SlipsHad
    <3>5. CASE wd.user # Evm
      <4>1. wd.user \in Accounts
        BY <2>2, <3>5 DEF Users
      <4>2. /\ saved' \in [ref : Nat, disk : [Accounts -> Nat], cached : Nat]
            /\ saved'.ref = wd.id /\ saved'.cached = saved.cached
            /\ \A a \in Accounts : saved'.disk[a] = IF a = wd.user THEN wd.id ELSE saved.disk[a]
        BY <2>0, <2>2, <3>3, <3>5, <4>1
      <4> QED
        BY <2>0, <2>2, <3>1, <3>2, <3>3, <3>5, <4>2 DEF SlipsHad
    <3> QED
      BY <3>4, <3>5
  <2>7. retry' \in Operation /\ GoesOn(retry, retry') /\ retry'.step \in {"idle", "carry"}
    BY <1>1, <2>0 DEF OpsInv, OpsShape
  <2>8. \A c \in calls' : c \in calls \/ NewCall(c)
    BY <2>0, <2>3
  <2> QED
    BY <1>3, <2>1, <2>4, <2>7, <2>8
<1>7. CASE WithdrawFails
  <2>0. wd' = NoOp /\ UNCHANGED <<calls, retry, got, saved>>
    BY <1>7 DEF WithdrawFails
  <2>1. wd' \in Operation /\ wd'.step = "idle" /\ GoesOn(wd, wd')
    BY <1>1, <2>0
  <2>5. SlipsHad'
    BY <1>0, <2>0, HadStays DEF OpsGrow, Missed
  <2>7. retry' \in Operation /\ GoesOn(retry, retry') /\ retry'.step \in {"idle", "carry"}
        /\ \A c \in calls' : c \in calls
    BY <1>1, <2>0 DEF OpsInv, OpsShape
  <2> QED
    BY <1>3, <2>1, <2>5, <2>7
<1>8. CASE StartRetry
  <2>0. /\ Op /\ Identity # None /\ Retriable # NoSlip /\ retry' = Begin("carry", Retriable, 0)
        /\ calls' = calls \cup {[what |-> "execute", user |-> retry'.user, id |-> retry'.id, amount |-> retry'.amount, at |-> retry'.at]}
        /\ UNCHANGED <<wd, got, saved, slips>>
    BY <1>8 DEF StartRetry, CanRetry, Call, teeVars
  <2>1. Retriable \in Nat /\ Retriable \in got /\ (slips[Retriable].user = Evm <=> Identity = Evm)
    BY <2>0 DEF Retriable, OpsInv, SlipsHad
  <2>2. /\ retry' \in Operation /\ retry'.step = "carry" /\ retry'.user = Identity /\ retry'.id = Retriable
        /\ retry'.at \in 1..ops' /\ retry'.at > ops
        /\ retry'.user = Evm \/ retry'.user \in past.connected
    BY <2>0, <2>1, Begun
  <2>3. GoesOn(retry, retry')
    BY <1>0, <2>2 DEF GoesOn
  <2>4. NewCall([what |-> "execute", user |-> retry'.user, id |-> retry'.id, amount |-> retry'.amount, at |-> retry'.at])
    <3>1. retry'.user \in Users /\ retry'.at \in Nat /\ retry'.amount \in Nat
      BY <2>0, <2>2, IdentityIs DEF Operation
    <3> QED
      BY <1>0, <2>0, <2>1, <2>2, <3>1 DEF NewCall, MadeBy, CallShape
  <2>5. SlipsHad'
    BY <1>0, <2>0, HadStays DEF OpsGrow, Missed
  <2>6. wd' \in Operation /\ GoesOn(wd, wd') /\ wd'.step \in {"idle", "confirm", "request", "carry"}
        /\ (wd'.step = "confirm" => wd'.user = Evm)
        /\ (wd'.step = "request" => wd'.id \in DOMAIN slips' /\ slips'[wd'.id].user = wd'.user)
    BY <1>1, <1>w, <2>0 DEF OpsInv, OpsShape
  <2>7. \A c \in calls' : c \in calls \/ NewCall(c)
    BY <2>0, <2>4
  <2> QED
    BY <1>3, <2>2, <2>3, <2>5, <2>6, <2>7
<1> QED
  BY <1>4, <1>5, <1>6, <1>7, <1>8

\* A call that has been carried out, or not: the operation that made it is told.
LEMMA CallKept ==
  ASSUME OpsInv, OpsGrow, SessionInv, SlipsInv, CallAction
  PROVE  OpsInv'
<1>1. PICK c \in calls : Carry(c) \/ AnswerLost(c) \/ NotCarried(c)
  BY DEF CallAction
<1>2. UNCHANGED <<flow, slips, got, past>>
  BY CallFrame
<1>3. PICK outcome : /\ Tell(c, outcome)
                     /\ Effect(c) \/ UNCHANGED <<vault, credits>>
                     /\ outcome = "paid" => Effect(c)
                     /\ outcome \in {"paid", "failed", "lost"}
  BY <1>1, Zenon DEF Carry, AnswerLost, NotCarried
<1>4. /\ c \in CallShape /\ c.at \in 1..ops /\ Owner(c.user)
      /\ c.what = "execute" => /\ c.id \in got /\ (slips[c.id].user = Evm <=> c.user = Evm)
                               /\ dep.step # "idle" => dep.at # c.at
      /\ c.what = "deposit" => /\ wd.step # "idle" => wd.at # c.at
                               /\ retry.step # "idle" => retry.at # c.at
      /\ c.what \in {"deposit", "execute"} /\ c.user \in Users /\ c.id \in Nat
  BY DEF OpsInv, CallsOwned, CallShape
<1>5. /\ dep \in Operation /\ wd \in Operation /\ retry \in Operation
      /\ GoesOn(dep, dep) /\ GoesOn(wd, wd) /\ GoesOn(retry, retry)
      /\ NoOp \in Operation /\ NoOp.step = "idle" /\ \A op : GoesOn(op, NoOp)
      /\ dep.step # "idle" => ~(dep.at > ops)
  BY OpStays
<1> DEFINE waiting == {op \in {dep, wd, retry} : op.step = "carry" /\ op.at = c.at}
<1>6. /\ calls' = calls \ {c}
      /\ dep' = IF dep \notin waiting THEN dep
                ELSE IF outcome = "paid" THEN [dep EXCEPT !.step = "poll", !.id = Len(credits')] ELSE NoOp
      /\ wd' = IF wd \in waiting THEN NoOp ELSE wd
      /\ retry' = IF retry \in waiting THEN NoOp ELSE retry
      /\ saved' = IF {wd, retry} \cap waiting = {} THEN saved
                  ELSE AfterExecute(saved, c.user, c.id, outcome)
  BY <1>3, Zenon DEF Tell
<1>7. /\ dep \in waiting <=> dep.step = "carry" /\ dep.at = c.at
      /\ wd \in waiting <=> wd.step = "carry" /\ wd.at = c.at
      /\ retry \in waiting <=> retry.step = "carry" /\ retry.at = c.at
      /\ {wd, retry} \cap waiting = {} <=> wd \notin waiting /\ retry \notin waiting
  OBVIOUS
<1> HIDE DEF waiting
<1>8. /\ wd' \in Operation /\ GoesOn(wd, wd') /\ wd'.step \in {"idle", "confirm", "request", "carry"}
      /\ retry' \in Operation /\ GoesOn(retry, retry') /\ retry'.step \in {"idle", "carry"}
      /\ wd'.step = "confirm" => wd'.user = Evm
      /\ wd'.step = "request" => wd'.id \in DOMAIN slips' /\ slips'[wd'.id].user = wd'.user
  <2>1. wd' = NoOp \/ wd' = wd
    BY <1>6
  <2>2. retry' = NoOp \/ retry' = retry
    BY <1>6
  <2>3. /\ wd.step \in {"idle", "confirm", "request", "carry"} /\ retry.step \in {"idle", "carry"}
        /\ wd.step = "confirm" => wd.user = Evm
        /\ wd.step = "request" => wd.id \in DOMAIN slips' /\ slips'[wd.id].user = wd.user
    BY <1>2 DEF OpsInv, OpsShape, OpsOwned
  <2> QED
    BY <1>5, <2>1, <2>2, <2>3
<1>9. /\ dep' \in Operation /\ GoesOn(dep, dep') /\ dep'.step \in {"idle", "approve", "flow", "carry", "poll"}
      /\ dep'.step = "poll" => dep'.id \in DOMAIN credits'
      /\ dep'.step # "idle" => ~(dep'.at > ops)
      /\ dep.step = "flow" => dep' = dep
  <2>1. CASE dep \notin waiting
    BY <1>5, <1>6, <2>1 DEF OpsInv, OpsShape, OpsOwned, OpsGrow
  <2>2. CASE dep \in waiting /\ outcome # "paid"
    BY <1>5, <1>6, <1>7, <2>2
  <2>3. CASE dep \in waiting /\ outcome = "paid"
    <3>1. dep.step = "carry" /\ dep.at = c.at /\ c.what = "deposit"
      BY <1>4, <1>7, <2>3
    <3>2. credits' = Append(credits, [user |-> c.user, amount |-> c.amount, done |-> FALSE])
      BY <1>3, <2>3, <3>1 DEF Effect
    <3>3. PICK n \in Nat : n = Len(credits') /\ n \in DOMAIN credits'
      BY <3>2 DEF OpsInv, OpsShape, CreditsShape
    <3>4. dep' = [dep EXCEPT !.step = "poll", !.id = n] /\ dep \in Operation
      BY <1>5, <1>6, <2>3, <3>3
    <3>5. dep' \in Operation /\ dep'.step = "poll" /\ dep'.id = n /\ dep'.user = dep.user /\ dep'.at = dep.at
      BY <3>4 DEF Operation
    <3>6. GoesOn(dep, dep')
      BY <1>5, <3>1, <3>5 DEF GoesOn
    <3> QED
      BY <1>5, <3>1, <3>3, <3>5, <3>6
  <2> QED
    BY <2>1, <2>2, <2>3
<1>10. OpsOwned' /\ CallsOwned'
  <2>1. \A d \in calls' : d \in calls \/ NewCall(d)
    BY <1>6
  <2> QED
    BY <1>8, <1>9, <2>1, OpsMove
<1>11. OpsShape'
  BY <1>8, <1>9 DEF OpsShape, OpsGrow
<1>12. FlowOfDeposit'
  BY <1>2, <1>9 DEF OpsInv, FlowOfDeposit
<1>13. SlipsHad'
  <2>1. /\ got \subseteq DOMAIN slips /\ \A i \in got : slips[i].stage = "signed"
        /\ vault \in Vaults(got)
        /\ saved \in [ref : Nat, disk : [Accounts -> Nat], cached : Nat]
        /\ saved.ref # NoSlip => saved.ref \in got /\ slips[saved.ref].user # Evm
        /\ \A a \in Accounts : saved.disk[a] # NoSlip => saved.disk[a] \in got /\ slips[saved.disk[a]].user # Evm
        /\ saved.cached # NoSlip => saved.cached \in got /\ slips[saved.cached].user = Evm
    BY DEF OpsInv, SlipsHad
  <2>2. vault' \in Vaults(got)
    <3>1. CASE UNCHANGED vault
      BY <2>1, <3>1
    <3>2. CASE Effect(c) /\ c.what = "deposit"
      <4>1. c.amount \in Nat
        BY <1>4 DEF CallShape
      <4> QED
        BY <2>1, <3>2, <4>1 DEF Effect, Vaults
    <3>3. CASE Effect(c) /\ c.what = "execute"
      <4>1. PICK x \in Nat : x = Due(slips[c.id])
        BY <1>4, <2>1, <3>3, DueIs
      <4>2. vault' = vault \/ vault' = PayOut(vault, c.id, x)
        BY <3>3, <4>1 DEF Effect
      <4>3. c.id \in got /\ vault \in Vaults(got)
        BY <1>4, <2>1, <3>3
      <4>4. PICK t \in Int, U \in SUBSET got, m \in Nat : vault = [tokens |-> t, used |-> U, missing |-> m]
        BY <4>3 DEF Vaults
      <4>5. vault' = vault \/ vault' = [tokens |-> t - x, used |-> U \cup {c.id}, missing |-> m]
        BY <4>2, <4>4 DEF PayOut
      <4>6. U \cup {c.id} \in SUBSET got /\ t - x \in Int
        BY <4>3
      <4> QED
        BY <4>3, <4>5, <4>6 DEF Vaults
    <3> QED
      BY <1>3, <1>4, <3>1, <3>2, <3>3
  <2>3. CASE {wd, retry} \cap waiting = {}
    <3>1. saved' = saved
      BY <1>6, <2>3
    <3> QED
      BY <1>2, <2>1, <2>2, <3>1 DEF SlipsHad
  <2>4. CASE {wd, retry} \cap waiting # {}
    <3>1. c.what = "execute"
      BY <1>4, <1>7, <2>4
    <3>2. saved' = AfterExecute(saved, c.user, c.id, outcome)
      BY <1>6, <2>4
    <3>3. c.id \in got /\ (slips[c.id].user = Evm <=> c.user = Evm) /\ (c.user # Evm => c.user \in Accounts)
      BY <1>4, <3>1 DEF Users
    <3>4. /\ saved' \in [ref : Nat, disk : [Accounts -> Nat], cached : Nat]
          /\ saved'.ref \in {saved.ref, NoSlip}
          /\ \A a \in Accounts : saved'.disk[a] \in {saved.disk[a], NoSlip}
          /\ saved'.cached \in {saved.cached, NoSlip} \/ (saved'.cached = c.id /\ c.user = Evm)
      <4>1. CASE outcome = "paid" /\ c.user # Evm
        BY <2>1, <3>2, <3>3, <4>1 DEF AfterExecute, NoSlip
      <4>2. CASE outcome = "paid" /\ c.user = Evm
        BY <2>1, <3>2, <4>2 DEF AfterExecute, NoSlip
      <4>3. CASE outcome = "failed" /\ c.user = Evm
        BY <1>4, <2>1, <3>2, <4>3 DEF AfterExecute
      <4>4. CASE ~(outcome = "paid") /\ ~(outcome = "failed" /\ c.user = Evm)
        BY <2>1, <3>2, <4>4 DEF AfterExecute
      <4> QED
        BY <4>1, <4>2, <4>3, <4>4
    <3> QED
      BY <1>2, <2>1, <2>2, <3>3, <3>4 DEF SlipsHad
  <2> QED
    BY <2>3, <2>4
<1> QED
  BY <1>10, <1>11, <1>12, <1>13 DEF OpsInv

\* Another account, another slip in memory.
LEMMA SessionKeepsSlipsHad ==
  ASSUME OpsInv, OpsGrow, SessionInv, SessionAction
  PROVE  SlipsHad'
<1>1. UNCHANGED <<got, vault, slips>> /\ SlipFollowsAccount
  BY SessionFrame
<1>2. /\ got \subseteq DOMAIN slips /\ \A i \in got : slips[i].stage = "signed"
      /\ vault \in Vaults(got)
      /\ saved \in [ref : Nat, disk : [Accounts -> Nat], cached : Nat]
      /\ saved.ref # NoSlip => saved.ref \in got /\ slips[saved.ref].user # Evm
      /\ \A a \in Accounts : saved.disk[a] # NoSlip => saved.disk[a] \in got /\ slips[saved.disk[a]].user # Evm
      /\ saved.cached # NoSlip => saved.cached \in got /\ slips[saved.cached].user = Evm
  BY DEF OpsInv, SlipsHad
<1>3. CASE UNCHANGED saved
  BY <1>1, <1>2, <1>3 DEF SlipsHad
<1>4. CASE xaman'.account # xaman.account
  <2>1. xaman'.account # None => xaman'.account \in Accounts
    <3>1. past'.connected \subseteq Accounts
      <4>1. SessionInv'
        BY SessionKept DEF SessionMoves, SessionAction
      <4> QED
        BY <4>1 DEF SessionInv, SessionShape
    <3> QED
      BY <1>4, <3>1, SessionAdds DEF SessionAction
  <2>2. PICK n \in Nat : /\ saved' = [saved EXCEPT !.ref = n]
                         /\ n = NoSlip \/ \E a \in Accounts : n = saved.disk[a]
    BY <1>1, <1>2, <1>4, <2>1 DEF SlipFollowsAccount, NoSlip
  <2>3. /\ saved' \in [ref : Nat, disk : [Accounts -> Nat], cached : Nat]
        /\ saved'.ref = n /\ saved'.disk = saved.disk /\ saved'.cached = saved.cached
    BY <1>2, <2>2
  <2> QED
    BY <1>1, <1>2, <2>2, <2>3 DEF SlipsHad
<1> QED
  BY <1>1, <1>3, <1>4 DEF SlipFollowsAccount

\* A page that starts afresh.
LEMMA ReloadKeepsOps ==
  ASSUME OpsInv, OpsGrow, Reload
  PROVE  OpsInv'
<1>1. /\ dep' = NoOp /\ wd' = NoOp /\ retry' = NoOp /\ flow' = NoFlow
      /\ saved' = [saved EXCEPT !.ref = NoSlip, !.cached = NoSlip]
      /\ UNCHANGED <<slips, vault, got, calls>>
  BY DEF Reload, FundsReload, FsaReload, teeVars
<1>2. NoOp \in Operation /\ NoOp.step = "idle" /\ \A op : GoesOn(op, NoOp)
  BY OpStays
<1>3. OpsOwned' /\ CallsOwned'
  BY <1>1, <1>2, OpsMove
<1>4. OpsShape'
  BY <1>1, <1>2 DEF OpsShape, OpsGrow
<1>5. FlowOfDeposit'
  BY <1>1 DEF FlowOfDeposit, NoFlow
<1>6. SlipsHad'
  <2>1. /\ saved \in [ref : Nat, disk : [Accounts -> Nat], cached : Nat]
        /\ \A a \in Accounts : saved.disk[a] # NoSlip => saved.disk[a] \in got /\ slips[saved.disk[a]].user # Evm
    BY DEF OpsInv, SlipsHad
  <2>2. /\ saved' \in [ref : Nat, disk : [Accounts -> Nat], cached : Nat]
        /\ saved'.ref = NoSlip /\ saved'.cached = NoSlip /\ saved'.disk = saved.disk
    BY <1>1, <2>1 DEF NoSlip
  <2> QED
    BY <1>1, <2>1, <2>2 DEF OpsInv, SlipsHad
<1> QED
  BY <1>3, <1>4, <1>5, <1>6 DEF OpsInv

\* Every step of the whole keeps what is known of operations, calls and slips had.
LEMMA OpsKept ==
  ASSUME OpsInv, SessionInv, SlipsInv, Next
  PROVE  OpsInv'
<1>1. OpsGrow
  BY Grows
<1>2. CASE SessionAction
  <2>1. UNCHANGED <<dep, wd, retry, calls, flow>>
    BY <1>2, SessionFrame
  <2> QED
    BY <1>1, <1>2, <2>1, SessionKeepsSlipsHad, OpsQuiet
<1>3. CASE FsaAction
  <2>1. UNCHANGED <<dep, wd, retry, calls, got, vault, saved>>
    BY <1>3, FsaFrame
  <2>2. flow'.step # "idle" => flow.step # "idle"
    <3>1. CASE OpenRequest \/ SeeAnswer \/ SeeRejection \/ SignTimeout \/ SeeExecuted \/ WaitTimeout
      BY <3>1 DEF OpenRequest, SeeAnswer, SeeRejection, SignTimeout, SeeExecuted, WaitTimeout
    <3>2. ASSUME NEW i, Execute(i) \/ Answer(i) \/ LedgerRefuses(i) PROVE UNCHANGED flow
      BY <3>2 DEF Execute, Answer, LedgerRefuses
    <3> QED
      BY <1>3, <3>1, <3>2, Zenon DEF FsaAction, FsaStep, FsaOther
  <2>3. SlipsHad'
    BY <1>1, <2>1, HadStays DEF OpsGrow, Missed
  <2> QED
    BY <1>1, <2>1, <2>2, <2>3, OpsQuiet
<1>4. CASE FaucetAction \/ TeeAction
  <2>1. UNCHANGED <<dep, wd, retry, calls, flow, got, saved>> /\ Missed
    BY <1>4, FaucetFrame, TeeFrame, TeeVault DEF Missed, OpsInv, OpsShape
  <2>2. SlipsHad'
    BY <1>1, <2>1, HadStays DEF OpsGrow
  <2> QED
    BY <1>1, <2>1, <2>2, OpsQuiet
<1>5. CASE TeeRestart
  <2>1. UNCHANGED <<dep, wd, retry, calls, flow, got, saved>>
    BY <1>5 DEF TeeRestart, FundsTeeRestart, fsaVars, opVars
  <2>m. Missed
    BY <1>5, RestartMisses
  <2>2. SlipsHad'
    BY <1>1, <2>1, <2>m, HadStays DEF OpsGrow
  <2> QED
    BY <1>1, <2>1, <2>2, OpsQuiet
<1>6. CASE OpAction \/ NewSlip
  BY <1>1, <1>6, DepositKept, WithdrawalKept DEF OpAction, NewSlip
<1> QED
  BY <1>1, <1>2, <1>3, <1>4, <1>5, <1>6, Kinds, CallKept, ReloadKeepsOps

\* Nothing is under way at the start.
LEMMA OpsStart ==
  ASSUME Init
  PROVE  OpsInv
<1>0. MaxOps \in Nat /\ MaxFaults \in Nat /\ ops = 0 /\ faults = 0
  BY SessionAssumption DEF Init, SessionInit
<1> USE DEF Init, FundsInit
<1>1. CreditsShape /\ slips = <<>> /\ got = {} /\ calls = {}
  BY DEF CreditsShape
<1>2. NoOp \in Operation /\ NoOp.step = "idle" /\ dep = NoOp /\ wd = NoOp /\ retry = NoOp
  BY DEF NoOp, NoSlip, Operation
<1>3. SlipsHad
  <2>1. vault \in Vaults({})
    <3>1. Total(Balance) \in Nat
      BY FundsAssumption, UsersFinite, UnitsFinite
    <3> QED
      BY <3>1 DEF Vaults
  <2>2. saved \in [ref : Nat, disk : [Accounts -> Nat], cached : Nat] /\ saved.ref = NoSlip /\ saved.cached = NoSlip
        /\ \A a \in Accounts : saved.disk[a] = NoSlip
    BY DEF NoSlip
  <2> QED
    BY <1>1, <2>1, <2>2 DEF SlipsHad
<1>4. FlowOfDeposit
  BY DEF FsaInit, NoFlow, FlowOfDeposit
<1> QED
  BY <1>0, <1>1, <1>2, <1>3, <1>4 DEF OpsInv, OpsShape, OpsOwned, CallsOwned

\* The requests before anything is asked of the TEE.
LEMMA SlipsStart ==
  ASSUME Init
  PROVE  SlipsInv
<1>1. slips = <<>> /\ ledger \in Ledgers
  BY FundsAssumption DEF Init, FundsInit, Ledgers
<1>2. slips \in Seq(Slip) /\ DOMAIN slips = {}
  BY <1>1
<1> QED
  BY <1>1, <1>2 DEF SlipsInv, SlipsShape, NoncesTaken, DebitedOnce

\* Of the accounts that have been connected there are no fewer later.
LEMMA ConnectedCounted ==
  ASSUME SessionInv, SessionInv', past.connected \subseteq past'.connected, Cardinality(past'.connected) <= 1
  PROVE  /\ Cardinality(past.connected) <= 1
         /\ \A a, b \in past'.connected : a = b
<1>1. IsFiniteSet(past'.connected) /\ IsFiniteSet(past.connected)
  BY SessionAssumption, FS_Subset DEF SessionInv, SessionShape
<1>2. Cardinality(past.connected) <= Cardinality(past'.connected) /\ Cardinality(past.connected) \in Nat /\ Cardinality(past'.connected) \in Nat
  BY <1>1, FS_Subset, FS_CardinalityType
<1>3. ASSUME NEW a \in past'.connected, NEW b \in past'.connected, a # b
      PROVE  FALSE
  <2>1. IsFiniteSet({a, b}) /\ Cardinality({a, b}) = 2
    <3>1. IsFiniteSet({a}) /\ Cardinality({a}) = 1
      BY FS_Singleton
    <3>2. {a, b} = {a} \cup {b} /\ b \notin {a}
      BY <1>3
    <3>3. IsFiniteSet({a} \cup {b}) /\ Cardinality({a} \cup {b}) = 1 + 1
      BY <3>1, <3>2, FS_AddElement
    <3> QED
      BY <3>2, <3>3
  <2>2. Cardinality({a, b}) <= Cardinality(past'.connected)
    BY <1>1, FS_Subset
  <2> QED
    BY <1>2, <2>1, <2>2
<1> QED
  BY <1>2, <1>3

\* The contract forgets no id it has paid, and the page keeps its slips on disk
\* except as the two handlers do that store and forget them.
LEMMA SlipsOnDisk ==
  ASSUME OpsInv, SessionInv, SlipsInv, Next
  PROVE  /\ vault.used \subseteq vault'.used
         /\ ReceiveSlip \/ CallAction \/ (UNCHANGED got /\ saved'.disk = saved.disk)
<1>1. saved \in [ref : Nat, disk : [Accounts -> Nat], cached : Nat] /\ vault \in Vaults(got)
  BY DEF OpsInv, SlipsHad
<1>2. CASE SessionAction
  <2>1. UNCHANGED <<vault, got>> /\ SlipFollowsAccount
    BY <1>2, SessionFrame
  <2> QED
    BY <1>1, <2>1 DEF SlipFollowsAccount
<1>3. CASE OpAction
  <2>1. ReceiveSlip \/ UNCHANGED <<got, saved>>
    BY <1>3 DEF OpAction, StartDeposit, AskApproval, FlowEnds, EvmApproves, DepositConfirmed, DepositGivesUp,
                WithdrawFails, StartRetry
  <2> QED
    BY <1>3, <2>1, OpFrame
<1>4. CASE CallAction
  <2>1. PICK c \in calls : Effect(c) \/ UNCHANGED vault
    BY <1>4 DEF CallAction, Carry, AnswerLost, NotCarried
  <2>2. vault.used \subseteq vault'.used
    BY <1>1, <2>1 DEF Effect, PayOut, Vaults
  <2> QED
    BY <1>4, <2>2
<1>5. CASE FsaAction \/ FaucetAction \/ NewSlip \/ TeeAction \/ TeeRestart
  <2>1. UNCHANGED <<got, saved>> /\ Missed
    <3>1. CASE TeeRestart
      BY <3>1, RestartMisses DEF TeeRestart, FundsTeeRestart
    <3> QED
      BY <1>5, <3>1, FsaFrame, FaucetFrame, NewSlipFrame, TeeFrame, TeeVault DEF Missed, OpsInv, OpsShape
  <2>2. vault.used = vault'.used
    BY <1>1, <2>1 DEF Missed, MissesBy, Vaults
  <2> QED
    BY <2>1, <2>2
<1>6. CASE Reload
  BY <1>1, <1>6 DEF Reload, FundsReload
<1> QED
  BY <1>2, <1>3, <1>4, <1>5, <1>6, Kinds

\* A slip that has not been paid stays on disk.
LEMMA SlipKeptOn ==
  ASSUME SlipKept, OpsInv, SessionInv, SessionInv', SlipsInv, Next
  PROVE  SlipKept'
<1>1. OpsGrow
  BY Grows
<1>2. vault.used \subseteq vault'.used /\ (ReceiveSlip \/ CallAction \/ (UNCHANGED got /\ saved'.disk = saved.disk))
  BY SlipsOnDisk
<1>3. SUFFICES ASSUME NEW i \in got', NEW u, u = slips'[i].user, u # Evm, i \notin vault'.used,
                      \A j \in got' \ {i} : slips'[j].user # u, Cardinality(past'.connected) <= 1
               PROVE  saved'.disk[u] = i
  BY DEF SlipKept
<1>4. /\ Cardinality(past.connected) <= 1
      /\ \A a, b \in past'.connected : a = b
  BY <1>1, <1>3, ConnectedCounted DEF OpsGrow
<1>5. /\ got \subseteq got' /\ got \subseteq DOMAIN slips
      /\ \A j \in DOMAIN slips : slips'[j].user = slips[j].user
  BY <1>1 DEF OpsGrow, SlipsGrow, OpsInv, SlipsHad
<1>6. ASSUME i \in got PROVE saved.disk[u] = i
  <2>1. slips[i].user = u /\ \A j \in got \ {i} : slips[j].user # u
    BY <1>3, <1>5, <1>6
  <2> QED
    BY <1>2, <1>3, <1>4, <1>6, <2>1 DEF SlipKept
<1>7. saved \in [ref : Nat, disk : [Accounts -> Nat], cached : Nat]
  BY DEF OpsInv, SlipsHad
<1>8. CASE ReceiveSlip
  <2>1. /\ wd.step = "request" /\ got' = got \cup {wd.id} /\ UNCHANGED slips
        /\ saved' = IF wd.user = Evm THEN saved ELSE [saved EXCEPT !.ref = wd.id, !.disk[wd.user] = wd.id]
    BY <1>8 DEF ReceiveSlip, teeVars
  <2>2. wd.id \in DOMAIN slips /\ slips[wd.id].user = wd.user /\ (wd.user # Evm => wd.user \in Accounts)
    BY <2>1 DEF OpsInv, OpsOwned, Owner, SessionInv, SessionShape
  <2>3. CASE wd.user = u
    <3>1. wd.id = i
      BY <1>3, <2>1, <2>2, <2>3
    <3> QED
      BY <1>3, <1>7, <2>1, <2>2, <2>3, <3>1
  <2>4. CASE wd.user # u
    <3>1. i \in got
      BY <1>3, <2>1, <2>2, <2>4
    <3>2. saved'.disk[u] = saved.disk[u]
      BY <1>7, <2>1, <2>4
    <3> QED
      BY <1>6, <3>1, <3>2
  <2> QED
    BY <2>3, <2>4
<1>9. CASE CallAction
  <2>1. UNCHANGED <<got, slips>>
    BY <1>9, CallFrame
  <2>2. PICK c \in calls : Carry(c) \/ AnswerLost(c) \/ NotCarried(c)
    BY <1>9 DEF CallAction
  <2>3. /\ Owner(c.user) /\ c.user \in Users /\ c.what \in {"deposit", "execute"}
        /\ c.what = "execute" => c.id \in got /\ (slips[c.id].user = Evm <=> c.user = Evm)
        /\ c.what = "deposit" => /\ wd.step # "idle" => wd.at # c.at
                                 /\ retry.step # "idle" => retry.at # c.at
    BY DEF OpsInv, CallsOwned, CallShape
  <2>4. PICK outcome : /\ Tell(c, outcome)
                       /\ outcome = "paid" => Carry(c) /\ (c.what = "execute" => Payable(c.id))
                       /\ outcome \in {"paid", "failed", "lost"}
    BY <2>2, Zenon DEF Carry, AnswerLost, NotCarried
  <2>5. \/ saved' = saved
        \/ c.what = "execute" /\ saved' = AfterExecute(saved, c.user, c.id, outcome)
    <3>1. saved' = IF {wd, retry} \cap {op \in {dep, wd, retry} : op.step = "carry" /\ op.at = c.at} = {} THEN saved
                   ELSE AfterExecute(saved, c.user, c.id, outcome)
      BY <2>4, Zenon DEF Tell
    <3> QED
      BY <2>3, <3>1
  <2>6. CASE saved'.disk = saved.disk
    BY <1>3, <1>6, <2>1, <2>6
  <2>7. CASE saved'.disk # saved.disk
    <3>1. c.what = "execute" /\ saved' = AfterExecute(saved, c.user, c.id, outcome)
      BY <2>5, <2>7
    <3>2. outcome = "paid" /\ c.user # Evm
      BY <1>7, <2>4, <2>7, <3>1 DEF AfterExecute
    <3>3. c.id \in vault'.used
      <4>1. Carry(c)
        BY <2>4, <3>2
      <4>2. vault \in Vaults(got)
        BY DEF OpsInv, SlipsHad
      <4>3. Effect(c)
        BY <4>1 DEF Carry
      <4>4. c.id \in vault.used \/ Legible(slips[c.id])
        BY <2>4, <3>1, <3>2 DEF Payable
      <4> QED
        BY <3>1, <4>2, <4>3, <4>4 DEF Effect, PayOut, Vaults
    <3>4. slips[c.id].user \in past'.connected /\ u \in past'.connected
      <4>1. slips[c.id].user \in past.connected
        BY <2>3, <3>1, <3>2, <1>5 DEF SlipsInv, SlipsShape
      <4>2. u \in past.connected
        BY <1>3, <1>5, <2>1 DEF SlipsInv, SlipsShape
      <4> QED
        BY <1>1, <4>1, <4>2 DEF OpsGrow
    <3>5. c.id = i
      BY <1>3, <1>4, <2>1, <2>3, <3>1, <3>4
    <3> QED
      BY <1>3, <3>3, <3>5
  <2> QED
    BY <2>6, <2>7
<1> QED
  BY <1>2, <1>3, <1>6, <1>8, <1>9

-----------------------------------------------------------------------------
(* The vault.                                                              *)

\* What Owed adds up, entry by entry: deposits not credited, debits not paid.
Debited == {"debited", "signed", "lost"}
WaitingTable == [i \in DOMAIN credits |-> Waiting(i)]
UnpaidTable == [i \in DOMAIN slips |-> Unpaid(i)]

\* The tables are finite, and of numbers.
TablesFit ==
  /\ ledger \in [Users -> Nat] /\ IsFiniteSet(Users)
  /\ WaitingTable \in [DOMAIN credits -> Nat] /\ IsFiniteSet(DOMAIN credits)
  /\ UnpaidTable \in [DOMAIN slips -> Nat] /\ IsFiniteSet(DOMAIN slips)
  /\ Total(ledger) \in Nat /\ Total(WaitingTable) \in Nat /\ Total(UnpaidTable) \in Nat
  /\ vault \in Vaults(got) /\ vault.tokens \in Int /\ vault.missing \in Nat
  /\ Owed = Total(ledger) + Total(WaitingTable) + Total(UnpaidTable)

\* They are so in a state that is as it should be ...
LEMMA Tables == OpsInv /\ SlipsInv => TablesFit
<1> SUFFICES ASSUME OpsInv, SlipsInv PROVE TablesFit
  OBVIOUS
<1>1. credits \in Seq(Credited) /\ slips \in Seq(Slip) /\ ledger \in Ledgers
  BY DEF OpsInv, OpsShape, CreditsShape, SlipsInv, SlipsShape
<1>2. IsFiniteSet(DOMAIN credits) /\ IsFiniteSet(DOMAIN slips)
  <2>1. Len(credits) \in Nat /\ DOMAIN credits = 1..Len(credits) /\ Len(slips) \in Nat /\ DOMAIN slips = 1..Len(slips)
    BY <1>1
  <2> QED
    BY <2>1, FS_Interval
<1>3. ledger \in [Users -> Nat]
  BY <1>1, FundsAssumption DEF Ledgers
<1>4. WaitingTable \in [DOMAIN credits -> Nat]
  <2>1. ASSUME NEW i \in DOMAIN credits PROVE Waiting(i) \in Nat
    <3>1. credits[i] \in Credited
      BY <1>1
    <3> QED
      BY <3>1 DEF Waiting, Credited
  <2> QED
    BY <2>1 DEF WaitingTable
<1>5. UnpaidTable \in [DOMAIN slips -> Nat]
  <2>1. ASSUME NEW i \in DOMAIN slips PROVE Unpaid(i) \in Nat
    <3>1. Due(slips[i]) \in Nat
      BY DueIs
    <3> QED
      BY <3>1 DEF Unpaid
  <2> QED
    BY <2>1 DEF UnpaidTable
<1>6. Total(ledger) \in Nat /\ Total(WaitingTable) \in Nat /\ Total(UnpaidTable) \in Nat
  BY <1>2, <1>3, <1>4, <1>5, UsersFinite, UnitsFinite
<1>7. vault \in Vaults(got) /\ vault.tokens \in Int /\ vault.missing \in Nat
  BY DEF OpsInv, SlipsHad, Vaults
<1>8. Owed = Total(ledger) + Total(WaitingTable) + Total(UnpaidTable)
  BY Zenon DEF Owed, WaitingTable, UnpaidTable
<1> QED
  BY <1>2, <1>3, <1>4, <1>5, <1>6, <1>7, <1>8, UsersFinite DEF TablesFit

\* ... and in the next one.
LEMMA TablesNext == (OpsInv /\ SlipsInv)' => TablesFit'
BY Tables, PTL

\* One entry of a table changes.
LEMMA OneEntry ==
  ASSUME NEW S, IsFiniteSet(S), NEW f \in [S -> Nat], NEW g \in [S -> Nat], NEW u \in S, NEW d \in Int,
         \A v \in S : v # u => g[v] = f[v], g[u] = f[u] + d
  PROVE  Total(g) = Total(f) + d
<1>1. Total(f) \in Nat /\ Total(g) \in Nat
  BY UnitsFinite
<1>2. \A v \in S \ {u} : g[v] = f[v]
  OBVIOUS
<1>3. Total(g) + f[u] = Total(f) + g[u]
  BY <1>2, TotalUpdate
<1>4. PICK a \in Nat, b \in Nat, x \in Nat, y \in Nat : a = f[u] /\ b = g[u] /\ x = Total(f) /\ y = Total(g)
  BY <1>1
<1>5. b = a + d /\ y + a = x + b
  BY <1>3, <1>4
<1>6. y = x + d
  BY <1>5, SMT
<1> QED
  BY <1>4, <1>6

\* A balance changes.
LEMMA LedgerEntry ==
  ASSUME TablesFit, TablesFit', NEW u \in Users, NEW d \in Int,
         \A v \in Users : v # u => ledger'[v] = ledger[v], ledger'[u] = ledger[u] + d
  PROVE  Total(ledger') = Total(ledger) + d
<1>1. ledger \in [Users -> Nat] /\ ledger' \in [Users -> Nat] /\ IsFiniteSet(Users)
  BY DEF TablesFit
<1> QED
  BY <1>1, OneEntry

\* A table gets one entry more.
LEMMA OneMore ==
  ASSUME NEW S, IsFiniteSet(S), NEW f \in [S -> Nat], NEW n, n \notin S, NEW g \in [S \cup {n} -> Nat],
         \A v \in S : g[v] = f[v]
  PROVE  Total(g) = Total(f) + g[n]
<1>1. IsFiniteSet(S \cup {n})
  BY FS_AddElement
<1>2. Total(g) = Total([v \in (S \cup {n}) \ {n} |-> g[v]]) + g[n]
  BY <1>1, TotalRemove
<1>3. [v \in (S \cup {n}) \ {n} |-> g[v]] = f
  OBVIOUS
<1> QED
  BY <1>2, <1>3

\* A request goes to another stage, and nothing else of the requests changes.
LEMMA SlipToIs ==
  ASSUME SlipsInv, NEW i \in DOMAIN slips, NEW stage \in SlipStages, SlipTo(i, stage)
  PROVE  /\ DOMAIN slips' = DOMAIN slips
         /\ \A j \in DOMAIN slips : /\ Due(slips'[j]) = Due(slips[j])
                                    /\ slips'[j].stage = IF j = i THEN stage ELSE slips[j].stage
<1>1. slips \in Seq(Slip) /\ slips[i] \in Slip
  BY DEF SlipsInv, SlipsShape
<1>2. PICK s : s = [slips[i] EXCEPT !.stage = stage]
  OBVIOUS
<1>3. s.amount = slips[i].amount /\ s.stage = stage
  BY <1>1, <1>2 DEF Slip
<1>4. slips' = [slips EXCEPT ![i] = s]
  BY <1>2, Zenon DEF SlipTo
<1>5. /\ DOMAIN slips' = DOMAIN slips
      /\ \A j \in DOMAIN slips : /\ slips'[j].amount = slips[j].amount
                                 /\ slips'[j].stage = IF j = i THEN stage ELSE slips[j].stage
  BY <1>1, <1>3, <1>4
<1> QED
  BY <1>5 DEF Due

\* Requests are added and go on without being debited, paid or given their debit back.
LEMMA UnpaidStays ==
  ASSUME TablesFit, TablesFit', SlipsGrow, vault'.used = vault.used,
         \A i \in DOMAIN slips : slips'[i].stage \in Debited <=> slips[i].stage \in Debited
  PROVE  Total(UnpaidTable') = Total(UnpaidTable)
<1>1. ASSUME NEW i \in DOMAIN slips PROVE Unpaid(i)' = Unpaid(i)
  <2>1. slips'[i].amount = slips[i].amount
    BY DEF SlipsGrow
  <2>2. Due(slips'[i]) = Due(slips[i])
    BY <2>1 DEF Due
  <2> QED
    BY <2>2 DEF Unpaid, Debited
<1>2. DOMAIN slips \subseteq DOMAIN slips'
  BY DEF SlipsGrow
<1>3. ASSUME NEW i \in DOMAIN slips' \ DOMAIN slips PROVE Unpaid(i)' = 0
  <2>1. slips'[i].stage = "sent"
    BY DEF SlipsGrow
  <2> QED
    BY <2>1 DEF Unpaid
<1>4. UnpaidTable = [i \in DOMAIN slips |-> UnpaidTable'[i]]
  BY <1>1, <1>2 DEF UnpaidTable
<1>5. DOMAIN UnpaidTable' = DOMAIN slips' /\ \A i \in DOMAIN slips' \ DOMAIN slips : UnpaidTable'[i] = 0
  BY <1>3 DEF UnpaidTable
<1>6. Total([i \in DOMAIN slips |-> UnpaidTable'[i]]) = Total(UnpaidTable')
  BY <1>2, <1>5, TotalSupport
<1> QED
  BY <1>4, <1>6

\* A debit is made for a request, or taken back.
LEMMA UnpaidMoves ==
  ASSUME SlipsInv, TablesFit, TablesFit', vault'.used = vault.used,
         NEW i \in DOMAIN slips, i \notin vault.used, NEW stage \in SlipStages, SlipTo(i, stage), NEW d \in Int,
         \/ slips[i].stage \notin Debited /\ stage \in Debited /\ d = Due(slips[i])
         \/ slips[i].stage \in Debited /\ stage \notin Debited /\ d = -Due(slips[i])
  PROVE  Total(UnpaidTable') = Total(UnpaidTable) + d
<1>1. /\ DOMAIN slips' = DOMAIN slips
      /\ \A j \in DOMAIN slips : /\ Due(slips'[j]) = Due(slips[j])
                                 /\ slips'[j].stage = IF j = i THEN stage ELSE slips[j].stage
  BY SlipToIs
<1>2. \A j \in DOMAIN slips : j # i => Unpaid(j)' = Unpaid(j)
  BY <1>1 DEF Unpaid
<1>3. Due(slips[i]) \in Nat
  BY DueIs
<1>4. Unpaid(i)' = Unpaid(i) + d
  <2>1. Unpaid(i) = IF slips[i].stage \in Debited THEN Due(slips[i]) ELSE 0
    BY DEF Unpaid, Debited
  <2>2. Unpaid(i)' = IF stage \in Debited THEN Due(slips[i]) ELSE 0
    BY <1>1 DEF Unpaid, Debited
  <2> QED
    BY <1>3, <2>1, <2>2
<1>5. /\ \A j \in DOMAIN slips : j # i => UnpaidTable'[j] = UnpaidTable[j]
      /\ UnpaidTable'[i] = UnpaidTable[i] + d
  BY <1>1, <1>2, <1>4 DEF UnpaidTable
<1>6. UnpaidTable \in [DOMAIN slips -> Nat] /\ UnpaidTable' \in [DOMAIN slips -> Nat] /\ IsFiniteSet(DOMAIN slips)
  BY <1>1 DEF TablesFit
<1> QED
  BY <1>5, <1>6, OneEntry

\* Requests go on, and nothing changes of what is owed or missing.
LEMMA UnpaidLeavesOwed ==
  ASSUME TablesFit, TablesFit', Backed, SlipsGrow, UNCHANGED <<ledger, credits, vault>>,
         \A i \in DOMAIN slips : slips'[i].stage \in Debited <=> slips[i].stage \in Debited
  PROVE  Backed'
<1>1. Total(UnpaidTable') = Total(UnpaidTable)
  BY UnpaidStays
<1>2. Total(WaitingTable') = Total(WaitingTable) /\ Total(ledger') = Total(ledger)
  BY DEF WaitingTable, Waiting
<1>3. Owed' = Owed
  BY <1>1, <1>2 DEF TablesFit
<1> QED
  BY <1>3 DEF Backed

\* Nothing changes at all of what they are counted from.
LEMMA OwedAsBefore ==
  ASSUME Backed, UNCHANGED <<ledger, credits, slips, vault>>
  PROVE  Backed'
<1>1. Owed' = Owed
  BY DEF Owed, Waiting, Unpaid, Due
<1> QED
  BY <1>1 DEF Backed

\* A balance is debited for a request.
LEMMA DebitLeavesOwed ==
  ASSUME OpsInv, SlipsInv, TablesFit, TablesFit', Backed, NEW i \in DOMAIN slips, Debit(i), SlipTo(i, "debited"),
         ledger' = [ledger EXCEPT ![slips[i].user] = @ - Due(slips[i])]
  PROVE  Backed'
<1>1. slips[i].user \in Users /\ Due(slips[i]) \in Nat
  BY DueIs
<1>2. UNCHANGED <<credits, vault>> /\ slips[i].stage \in {"sent", "advanced"}
  BY DEF Debit
<1>3. i \notin vault.used
  BY <1>2 DEF OpsInv, SlipsHad, Vaults
<1>4. PICK d \in Int, e \in Int : d = Due(slips[i]) /\ e = -d
  BY <1>1
<1>5. Total(UnpaidTable') = Total(UnpaidTable) + d
  <2>1. "debited" \in SlipStages /\ "debited" \in Debited /\ slips[i].stage \notin Debited
    BY <1>2 DEF SlipStages, Debited
  <2> QED
    BY <1>2, <1>3, <1>4, <2>1, UnpaidMoves
<1>6. Total(ledger') = Total(ledger) + e
  <2>1. /\ ledger \in [Users -> Nat] /\ ledger' \in [Users -> Nat] /\ IsFiniteSet(Users)
    BY DEF TablesFit
  <2>2. PICK u \in Users : u = slips[i].user
    BY <1>1
  <2>3. ledger' = [ledger EXCEPT ![u] = @ + e]
    <3>1. ledger[u] - d = ledger[u] + e
      BY <1>4, <2>1
    <3> QED
      BY <1>4, <2>2, <3>1
  <2>4. /\ \A v \in Users : v # u => ledger'[v] = ledger[v]
        /\ ledger'[u] = ledger[u] + e
    BY <2>1, <2>3
  <2> QED
    BY <2>4, LedgerEntry
<1>7. Total(WaitingTable') = Total(WaitingTable)
  BY <1>2 DEF WaitingTable, Waiting
<1>8. Owed' = Owed
  BY <1>4, <1>5, <1>6, <1>7 DEF TablesFit
<1> QED
  BY <1>2, <1>8 DEF Backed

\* Manager.Deposit: the balances and what is missing grow by what should come in.
LEMMA DepositTotals ==
  ASSUME SlipsInv, TablesFit, TablesFit', NEW user \in Users, NEW x \in Nat, NEW should \in Nat, x <= should,
         Deposit(user, x, should)
  PROVE  \E m \in Nat : MissesBy(m) /\ Total(ledger') = Total(ledger) + (should - m)
<1>1. ledger \in Ledgers
  BY DEF SlipsInv, SlipsShape
<1>2. PICK m \in Nat : MissesBy(m) /\ ledger'[user] + m = ledger[user] + should
  BY <1>1, DepositIs
<1>3. \A v \in Users : v # user => ledger'[v] = ledger[v]
  BY <1>1, DepositIs
<1>4. ledger \in [Users -> Nat] /\ ledger' \in [Users -> Nat] /\ IsFiniteSet(Users)
  BY DEF TablesFit
<1>5. PICK d \in Int : d = should - m
  OBVIOUS
<1>6. ledger'[user] = ledger[user] + d
  BY <1>2, <1>4, <1>5
<1>7. Total(ledger') = Total(ledger) + d
  BY <1>3, <1>6, LedgerEntry
<1> QED
  BY <1>2, <1>5, <1>7

\* What a record of the vault is after that.
LEMMA MissedIs ==
  ASSUME TablesFit, NEW m \in Nat, MissesBy(m)
  PROVE  vault'.missing = vault.missing + m /\ vault'.tokens = vault.tokens /\ vault'.used = vault.used
BY DEF TablesFit, MissesBy, Vaults

\* A deposit is credited, as far as the ledger takes it.
LEMMA CreditLeavesOwed ==
  ASSUME SlipsInv, CreditsShape, TablesFit, TablesFit', Backed, NEW i \in DOMAIN credits, Credit(i)
  PROVE  Backed'
<1>1. /\ credits[i] \in Credited /\ Deposit(credits[i].user, Truncated(credits[i].amount), credits[i].amount)
      /\ credits[i].user \in Users /\ credits[i].amount \in Nat
      /\ Truncated(credits[i].amount) \in Nat /\ Truncated(credits[i].amount) <= credits[i].amount
  BY CreditIs
<1>2. PICK x \in Nat : x = credits[i].amount
  BY <1>1
<1>3. PICK m \in Nat : MissesBy(m) /\ Total(ledger') = Total(ledger) + (x - m)
  BY <1>1, <1>2, DepositTotals
<1>4. vault'.missing = vault.missing + m /\ vault'.tokens = vault.tokens /\ vault'.used = vault.used
  BY <1>3, MissedIs
<1>5. UNCHANGED slips /\ ~credits[i].done /\ credits' = [credits EXCEPT ![i].done = TRUE]
  BY DEF Credit
<1>6. Total(UnpaidTable') = Total(UnpaidTable)
  BY <1>4, <1>5 DEF UnpaidTable, Unpaid
<1>7. Total(WaitingTable') = Total(WaitingTable) + (-x)
  <2>1. PICK r : r = [credits[i] EXCEPT !.done = TRUE]
    OBVIOUS
  <2>2. r.done
    BY <1>1, <2>1 DEF Credited
  <2>3. credits' = [credits EXCEPT ![i] = r]
    BY <1>5, <2>1, Zenon
  <2>4. credits \in Seq(Credited)
    BY DEF CreditsShape
  <2>5. DOMAIN credits' = DOMAIN credits /\ credits'[i] = r /\ \A j \in DOMAIN credits : j # i => credits'[j] = credits[j]
    BY <2>3, <2>4
  <2>6. Waiting(i) = x /\ Waiting(i)' = 0 /\ \A j \in DOMAIN credits : j # i => Waiting(j)' = Waiting(j)
    BY <1>2, <1>5, <2>2, <2>5 DEF Waiting
  <2>7. /\ \A j \in DOMAIN credits : j # i => WaitingTable'[j] = WaitingTable[j]
        /\ WaitingTable'[i] = WaitingTable[i] + (-x)
    BY <2>5, <2>6 DEF WaitingTable
  <2>8. WaitingTable \in [DOMAIN credits -> Nat] /\ WaitingTable' \in [DOMAIN credits -> Nat] /\ IsFiniteSet(DOMAIN credits)
    BY <2>5 DEF TablesFit
  <2> QED
    BY <2>7, <2>8, OneEntry
<1>8. /\ Total(ledger) \in Nat /\ Total(WaitingTable) \in Nat /\ Total(UnpaidTable) \in Nat /\ vault.missing \in Nat
      /\ Owed = Total(ledger) + Total(WaitingTable) + Total(UnpaidTable)
      /\ Owed' = Total(ledger') + Total(WaitingTable') + Total(UnpaidTable')
  BY DEF TablesFit
<1>9. Owed' + vault'.missing = Owed + vault.missing
  BY <1>3, <1>4, <1>6, <1>7, <1>8
<1> QED
  BY <1>4, <1>9 DEF Backed

\* A debit is taken back, as far as the ledger takes it.
LEMMA RollbackLeavesOwed ==
  ASSUME OpsInv, SlipsInv, TablesFit, TablesFit', Backed, NEW i \in DOMAIN slips, slips[i].stage = "debited",
         UNCHANGED credits, SlipTo(i, "refused"), Deposit(slips[i].user, Due(slips[i]), Due(slips[i]))
  PROVE  Backed'
<1>1. slips[i].user \in Users /\ Due(slips[i]) \in Nat /\ Due(slips[i]) <= Due(slips[i])
  BY DueIs
<1>2. PICK x \in Nat : x = Due(slips[i])
  BY <1>1
<1>3. PICK m \in Nat : MissesBy(m) /\ Total(ledger') = Total(ledger) + (x - m)
  BY <1>1, <1>2, DepositTotals
<1>4. vault'.missing = vault.missing + m /\ vault'.tokens = vault.tokens /\ vault'.used = vault.used
  BY <1>3, MissedIs
<1>5. i \notin vault.used
  BY DEF OpsInv, SlipsHad, Vaults
<1>6. Total(UnpaidTable') = Total(UnpaidTable) + (-x)
  <2>1. "refused" \in SlipStages /\ "refused" \notin Debited /\ slips[i].stage \in Debited
    BY DEF SlipStages, Debited
  <2> QED
    BY <1>2, <1>4, <1>5, <2>1, UnpaidMoves
<1>7. Total(WaitingTable') = Total(WaitingTable)
  BY DEF WaitingTable, Waiting
<1>8. /\ Total(ledger) \in Nat /\ Total(WaitingTable) \in Nat /\ Total(UnpaidTable) \in Nat /\ vault.missing \in Nat
      /\ Owed = Total(ledger) + Total(WaitingTable) + Total(UnpaidTable)
      /\ Owed' = Total(ledger') + Total(WaitingTable') + Total(UnpaidTable')
  BY DEF TablesFit
<1>9. Owed' + vault'.missing = Owed + vault.missing
  BY <1>3, <1>4, <1>6, <1>7, <1>8
<1> QED
  BY <1>4, <1>9 DEF Backed

\* A call takes effect on chain: a deposit is owed from then on, a withdrawal no
\* longer; one that was paid before, or is for another amount, pays nothing.
LEMMA EffectIsOwed ==
  ASSUME OpsInv, SlipsInv, TablesFit, TablesFit', Backed, UNCHANGED <<ledger, slips>>, NEW c \in calls, Effect(c)
  PROVE  Backed'
<1>1. /\ c.what \in {"deposit", "execute"} /\ c.user \in Users /\ c.amount \in Nat
      /\ c.what = "execute" => c.id \in got
      /\ vault \in Vaults(got)
  BY DEF OpsInv, CallsOwned, CallShape, SlipsHad
<1>t. /\ Total(ledger) \in Nat /\ Total(WaitingTable) \in Nat /\ Total(UnpaidTable) \in Nat
      /\ vault.missing \in Nat /\ vault.tokens \in Int
      /\ Owed = Total(ledger) + Total(WaitingTable) + Total(UnpaidTable)
      /\ Owed' = Total(ledger') + Total(WaitingTable') + Total(UnpaidTable')
  BY DEF TablesFit
<1>2. CASE c.what = "deposit"
  <2>1. PICK x \in Nat : x = c.amount
    BY <1>1
  <2>2. PICK r : r = [user |-> c.user, amount |-> x, done |-> FALSE]
    OBVIOUS
  <2>3. r.amount = x /\ ~r.done
    BY <2>2
  <2>4. credits' = Append(credits, r) /\ vault' = [vault EXCEPT !.tokens = @ + x]
    BY <1>2, <2>1, <2>2 DEF Effect
  <2>5. vault'.used = vault.used /\ vault'.missing = vault.missing /\ vault'.tokens = vault.tokens + x
    BY <1>1, <2>4 DEF Vaults
  <2>6. PICK n \in Nat : n = Len(credits) + 1
    BY DEF OpsInv, OpsShape, CreditsShape
  <2>7. /\ DOMAIN credits' = DOMAIN credits \cup {n} /\ n \notin DOMAIN credits
        /\ credits'[n] = r /\ \A j \in DOMAIN credits : credits'[j] = credits[j]
    BY <2>4, <2>6 DEF OpsInv, OpsShape, CreditsShape
  <2>8. Total(WaitingTable') = Total(WaitingTable) + x
    <3>1. WaitingTable'[n] = x /\ \A j \in DOMAIN credits : WaitingTable'[j] = WaitingTable[j]
      BY <2>3, <2>7 DEF WaitingTable, Waiting
    <3>2. /\ WaitingTable \in [DOMAIN credits -> Nat] /\ WaitingTable' \in [DOMAIN credits \cup {n} -> Nat]
          /\ IsFiniteSet(DOMAIN credits)
      BY <2>7 DEF TablesFit
    <3>3. Total(WaitingTable') = Total(WaitingTable) + WaitingTable'[n]
      BY <2>7, <3>1, <3>2, OneMore
    <3> QED
      BY <3>1, <3>3
  <2>9. Total(UnpaidTable') = Total(UnpaidTable) /\ Total(ledger') = Total(ledger)
    BY <2>5 DEF UnpaidTable, Unpaid
  <2>10. Owed' = Owed + x
    BY <1>t, <2>8, <2>9
  <2>11. Owed \in Nat
    BY <1>t
  <2> QED
    BY <1>t, <2>5, <2>10, <2>11 DEF Backed
<1>3. CASE c.what = "execute" /\ UNCHANGED vault
  <2>1. UNCHANGED credits
    BY <1>3 DEF Effect
  <2> QED
    BY <1>3, <2>1, OwedAsBefore
<1>4. CASE c.what = "execute" /\ ~UNCHANGED vault
  <2>1. /\ UNCHANGED credits /\ c.id \notin vault.used
        /\ vault' = [vault EXCEPT !.tokens = @ - Due(slips[c.id]), !.used = @ \cup {c.id}]
    BY <1>4 DEF Effect, PayOut
  <2>2. c.id \in DOMAIN slips /\ slips[c.id].stage = "signed"
    BY <1>1, <1>4 DEF OpsInv, SlipsHad
  <2>3. PICK x \in Nat : x = Due(slips[c.id])
    BY <2>2, DueIs
  <2>4. vault'.used = vault.used \cup {c.id} /\ vault'.missing = vault.missing /\ vault'.tokens = vault.tokens - x
    BY <1>1, <2>1, <2>3 DEF Vaults
  <2>5. Total(UnpaidTable') = Total(UnpaidTable) + (-x)
    <3>1. Unpaid(c.id) = x /\ Unpaid(c.id)' = 0 /\ \A j \in DOMAIN slips : j # c.id => Unpaid(j)' = Unpaid(j)
      BY <2>1, <2>2, <2>3, <2>4 DEF Unpaid
    <3>2. /\ \A j \in DOMAIN slips : j # c.id => UnpaidTable'[j] = UnpaidTable[j]
          /\ UnpaidTable'[c.id] = UnpaidTable[c.id] + (-x)
      BY <2>2, <3>1 DEF UnpaidTable
    <3>3. UnpaidTable \in [DOMAIN slips -> Nat] /\ UnpaidTable' \in [DOMAIN slips -> Nat] /\ IsFiniteSet(DOMAIN slips)
      BY DEF TablesFit
    <3> QED
      BY <2>2, <3>2, <3>3, OneEntry
  <2>6. Total(WaitingTable') = Total(WaitingTable) /\ Total(ledger') = Total(ledger)
    BY <2>1 DEF WaitingTable, Waiting
  <2>7. Owed' = Owed - x /\ Owed \in Nat
    BY <1>t, <2>5, <2>6
  <2> QED
    BY <1>t, <2>4, <2>7 DEF Backed
<1> QED
  BY <1>1, <1>2, <1>3, <1>4

\* A restart: the balances stay, or are missing from then on.
LEMMA RestartLeavesOwed ==
  ASSUME SlipsInv, TablesFit, TablesFit', Backed, SlipsGrow, TeeRestart
  PROVE  Backed'
<1>1. /\ UNCHANGED credits
      /\ slips' = [i \in DOMAIN slips |->
           [slips[i] EXCEPT !.stage = CASE slips[i].stage \in {"authorized", "advanced"} -> "refused"
                                        [] slips[i].stage = "debited" -> "lost" [] OTHER -> slips[i].stage]]
  BY DEF TeeRestart, FundsTeeRestart
<1>2. ASSUME NEW i \in DOMAIN slips PROVE slips'[i].stage \in Debited <=> slips[i].stage \in Debited
  <2>1. slips[i] \in Slip
    BY DEF SlipsInv, SlipsShape
  <2>2. slips'[i] = [slips[i] EXCEPT !.stage = CASE slips[i].stage \in {"authorized", "advanced"} -> "refused"
                                                 [] slips[i].stage = "debited" -> "lost" [] OTHER -> slips[i].stage]
    BY <1>1
  <2>3. slips'[i].stage = CASE slips[i].stage \in {"authorized", "advanced"} -> "refused"
                            [] slips[i].stage = "debited" -> "lost" [] OTHER -> slips[i].stage
    BY <2>1, <2>2 DEF Slip
  <2> QED
    BY <2>3 DEF Debited
<1>3. CASE UNCHANGED <<ledger, vault>>
  BY <1>1, <1>2, <1>3, UnpaidLeavesOwed
<1>4. CASE ledger' = [u \in Users |-> 0] /\ MissesBy(Total(ledger))
  <2>1. PICK m \in Nat : m = Total(ledger)
    BY DEF TablesFit
  <2>2. vault'.missing = vault.missing + m /\ vault'.tokens = vault.tokens /\ vault'.used = vault.used
    BY <1>4, <2>1, MissedIs
  <2>3. Total(UnpaidTable') = Total(UnpaidTable)
    BY <1>2, <2>2, UnpaidStays
  <2>4. Total(WaitingTable') = Total(WaitingTable)
    BY <1>1 DEF WaitingTable, Waiting
  <2>5. Total(ledger') = 0
    <3>1. ledger' \in [Users -> Nat] /\ \A u \in Users : ledger'[u] = 0
      BY <1>4
    <3> QED
      BY <3>1, TotalZero
  <2>6. /\ Total(WaitingTable) \in Nat /\ Total(UnpaidTable) \in Nat /\ vault.missing \in Nat
        /\ Owed = m + Total(WaitingTable) + Total(UnpaidTable)
        /\ Owed' = Total(ledger') + Total(WaitingTable') + Total(UnpaidTable')
    BY <2>1 DEF TablesFit
  <2>7. Owed' + vault'.missing = Owed + vault.missing
    BY <2>2, <2>3, <2>4, <2>5, <2>6
  <2> QED
    BY <2>2, <2>7 DEF Backed
<1> QED
  BY <1>3, <1>4 DEF TeeRestart, FundsTeeRestart, MissesBy

\* Every step of the whole leaves the vault with what is owed.
LEMMA BackedOn ==
  ASSUME OpsInv, SlipsInv, SessionInv, OpsInv', SlipsInv', Backed, Next
  PROVE  Backed'
<1>g. SlipsGrow
  BY SlipsKept DEF OpsInv, OpsShape
<1>n. TablesFit /\ TablesFit' /\ CreditsShape
  BY Tables, TablesNext DEF OpsInv, OpsShape
<1>1. CASE UNCHANGED <<ledger, credits, slips, vault>>
  BY <1>1, OwedAsBefore
<1>2. CASE NewSlip
  <2>1. UNCHANGED <<ledger, credits, vault>>
    BY <1>2, NewSlipFrame
  <2>2. slips \in Seq(Slip)
    BY DEF SlipsInv, SlipsShape
  <2>3. slips' = slips \/ \E s : slips' = Append(slips, s)
    BY <1>2 DEF NewSlip, StartWithdraw, EvmConfirms, Requested
  <2>4. \A i \in DOMAIN slips : slips'[i] = slips[i]
    BY <2>2, <2>3
  <2> QED
    BY <1>g, <1>n, <2>1, <2>4, UnpaidLeavesOwed
<1>3. ASSUME NEW i \in DOMAIN credits, Credit(i) PROVE Backed'
  BY <1>3, <1>n, CreditLeavesOwed
<1>4. ASSUME NEW i \in DOMAIN slips, Redelivered(i) PROVE Backed'
  <2>1. slips \in Seq(Slip) /\ (\E s : slips' = Append(slips, s)) /\ UNCHANGED <<ledger, credits, vault>>
    BY <1>4 DEF SlipsInv, SlipsShape, Redelivered
  <2>2. \A j \in DOMAIN slips : slips'[j] = slips[j]
    BY <2>1
  <2> QED
    BY <1>g, <1>n, <2>1, <2>2, UnpaidLeavesOwed
<1>5. ASSUME NEW i \in DOMAIN slips, NEW stage \in SlipStages, SlipTo(i, stage), UNCHANGED <<ledger, credits, vault>>,
             stage \in Debited <=> slips[i].stage \in Debited
      PROVE  Backed'
  <2>1. \A j \in DOMAIN slips : slips'[j].stage \in Debited <=> slips[j].stage \in Debited
    BY <1>5, SlipToIs
  <2> QED
    BY <1>g, <1>n, <1>5, <2>1, UnpaidLeavesOwed
<1>6. ASSUME NEW i \in DOMAIN slips, Authorize(i) \/ UseNonce(i) PROVE Backed'
  <2>1. /\ slips[i].stage \in {"sent", "authorized"} /\ UNCHANGED <<ledger, credits, vault>>
        /\ \E stage \in {"authorized", "advanced", "refused"} : SlipTo(i, stage)
    BY <1>6 DEF Authorize, UseNonce
  <2> QED
    BY <1>5, <2>1 DEF SlipStages, Debited
<1>7. ASSUME NEW i \in DOMAIN slips, Debit(i) PROVE Backed'
  <2>1. /\ slips[i].stage \in {"sent", "advanced"} /\ UNCHANGED <<credits, vault>>
        /\ \/ SlipTo(i, "debited") /\ ledger' = [ledger EXCEPT ![slips[i].user] = @ - Due(slips[i])]
           \/ SlipTo(i, "refused") /\ UNCHANGED ledger
    BY <1>7 DEF Debit
  <2>2. CASE SlipTo(i, "refused") /\ UNCHANGED ledger
    BY <1>5, <2>1, <2>2 DEF SlipStages, Debited
  <2>3. CASE SlipTo(i, "debited") /\ ledger' = [ledger EXCEPT ![slips[i].user] = @ - Due(slips[i])]
    BY <1>n, <1>7, <2>3, DebitLeavesOwed
  <2> QED
    BY <2>1, <2>2, <2>3
<1>8. ASSUME NEW i \in DOMAIN slips, Sign(i) PROVE Backed'
  <2>1. /\ slips[i].stage = "debited" /\ UNCHANGED credits
        /\ \/ SlipTo(i, "signed") /\ UNCHANGED <<ledger, vault>>
           \/ SlipTo(i, "refused") /\ Deposit(slips[i].user, Due(slips[i]), Due(slips[i]))
    BY <1>8 DEF Sign
  <2>2. CASE SlipTo(i, "signed") /\ UNCHANGED <<ledger, vault>>
    BY <1>5, <2>1, <2>2 DEF SlipStages, Debited
  <2>3. CASE SlipTo(i, "refused") /\ Deposit(slips[i].user, Due(slips[i]), Due(slips[i]))
    BY <1>n, <2>1, <2>3, RollbackLeavesOwed
  <2> QED
    BY <2>1, <2>2, <2>3
<1>9. CASE CallAction
  <2>1. PICK c \in calls : Effect(c) \/ UNCHANGED <<vault, credits>>
    BY <1>9 DEF CallAction, Carry, AnswerLost, NotCarried
  <2>2. UNCHANGED <<ledger, slips>>
    BY <1>9, CallFrame
  <2> QED
    BY <1>1, <1>n, <2>1, <2>2, EffectIsOwed
<1>10. CASE TeeRestart
  BY <1>g, <1>n, <1>10, RestartLeavesOwed
<1>11. CASE SessionAction \/ FsaAction \/ FaucetAction \/ OpAction
  BY <1>1, <1>11, SessionFrame, FsaFrame, FaucetFrame, OpFrame
<1>12. CASE Reload
  BY <1>1, <1>12 DEF Reload, FundsReload, teeVars
<1> QED
  BY <1>2, <1>3, <1>4, <1>6, <1>7, <1>8, <1>9, <1>10, <1>11, <1>12, Kinds DEF TeeAction

\* At the start the vault holds the balances.
LEMMA BackedAtStart ==
  ASSUME Init
  PROVE  Backed
<1>1. credits = <<>> /\ slips = <<>> /\ ledger = Balance /\ vault.tokens = Total(Balance) /\ vault.missing = 0
  BY DEF Init, FundsInit
<1>2. TablesFit
  BY OpsStart, SlipsStart, Tables
<1>3. Total(WaitingTable) = 0 /\ Total(UnpaidTable) = 0
  <2>1. DOMAIN WaitingTable = {} /\ DOMAIN UnpaidTable = {}
    BY <1>1 DEF WaitingTable, UnpaidTable
  <2> QED
    BY <2>1, TotalEmpty
<1> QED
  BY <1>1, <1>2, <1>3 DEF TablesFit, Backed

-----------------------------------------------------------------------------
(* The faucet and its card.                                                *)

Steps(len) == [1..len -> StepStatus]

\* What the methods of the tray do to a job.
LEMMA AdvanceIs ==
  ASSUME NEW len \in Nat, NEW j \in Job(len), NEW j1, j1 = Advance(j)
  PROVE  /\ j1 \in Job(len) /\ j1.cursor = j.cursor + 1 /\ j1.error = j.error /\ j1.completed = j.completed
         /\ \A i \in 1..len : j1.steps[i] = CASE i < j.cursor + 1 -> IF j.steps[i] = "failed" THEN "failed" ELSE "done"
                                              [] i = j.cursor + 1 -> "active"
                                              [] i > j.cursor + 1 -> j.steps[i]
<1>1. j.steps \in Steps(len) /\ j.cursor \in Nat
  BY DEF Job, Steps
<1>2. PICK s : s = [i \in 1..len |-> CASE i < j.cursor + 1 -> IF j.steps[i] = "failed" THEN "failed" ELSE "done"
                                       [] i = j.cursor + 1 -> "active"
                                       [] i > j.cursor + 1 -> j.steps[i]]
  OBVIOUS
<1>3. \A i \in 1..len : s[i] = CASE i < j.cursor + 1 -> IF j.steps[i] = "failed" THEN "failed" ELSE "done"
                                 [] i = j.cursor + 1 -> "active"
                                 [] i > j.cursor + 1 -> j.steps[i]
  BY <1>2
<1>4. s \in Steps(len)
  BY <1>1, <1>2, <1>3 DEF Steps, StepStatus
<1>5. DOMAIN j.steps = 1..len
  BY <1>1 DEF Steps
<1>6. j1 = [j EXCEPT !.cursor = j.cursor + 1, !.steps = s]
  BY <1>2, <1>5 DEF Advance
<1>7. PICK n \in Nat : n = j.cursor + 1
  BY <1>1
<1>8. j1 = [j EXCEPT !.cursor = n, !.steps = s]
  BY <1>6, <1>7
<1>9. j1 \in Job(len) /\ j1.cursor = n /\ j1.error = j.error /\ j1.completed = j.completed /\ j1.steps = s
  BY <1>4, <1>8 DEF Job, Steps
<1> QED
  BY <1>3, <1>7, <1>9

\* A step fails, the job goes on.
LEMMA FailStepIs ==
  ASSUME NEW len \in Nat, NEW j \in Job(len), NEW j1, j1 = FailStep(j)
  PROVE  /\ j1 \in Job(len) /\ j1.cursor = j.cursor
         /\ \A i \in 1..len : j1.steps[i] = IF i = j.cursor THEN "failed" ELSE j.steps[i]
<1>1. j.steps \in Steps(len) /\ DOMAIN j.steps = 1..len
  BY DEF Job, Steps
<1>2. PICK s : s = [i \in 1..len |-> IF i = j.cursor THEN "failed" ELSE j.steps[i]]
  OBVIOUS
<1>3. s \in Steps(len) /\ \A i \in 1..len : s[i] = IF i = j.cursor THEN "failed" ELSE j.steps[i]
  BY <1>1, <1>2 DEF Steps, StepStatus
<1>4. j1 = [j EXCEPT !.steps = s]
  BY <1>1, <1>2 DEF FailStep
<1>5. j1 \in Job(len) /\ j1.cursor = j.cursor /\ j1.error = j.error /\ j1.completed = j.completed /\ j1.steps = s
  BY <1>3, <1>4 DEF Job, Steps
<1> QED
  BY <1>3, <1>5

\* The job completes.
LEMMA FinishIs ==
  ASSUME NEW len \in Nat, NEW j \in Job(len), NEW j1, j1 = Finish(j)
  PROVE  /\ j1 \in Job(len)
         /\ \A i \in 1..len : j1.steps[i] = IF j.steps[i] = "failed" THEN "failed" ELSE "done"
<1>1. j.steps \in Steps(len) /\ DOMAIN j.steps = 1..len
  BY DEF Job, Steps
<1>2. PICK s : s = [i \in 1..len |-> IF j.steps[i] = "failed" THEN "failed" ELSE "done"]
  OBVIOUS
<1>3. s \in Steps(len) /\ \A i \in 1..len : s[i] = IF j.steps[i] = "failed" THEN "failed" ELSE "done"
  BY <1>1, <1>2 DEF Steps, StepStatus
<1>4. j1 = [j EXCEPT !.completed = TRUE, !.steps = s]
  BY <1>1, <1>2 DEF Finish
<1>5. j1 \in Job(len) /\ j1.steps = s
  BY <1>3, <1>4 DEF Job, Steps
<1> QED
  BY <1>3, <1>5

\* The job fails as a whole.
LEMMA FailIs ==
  ASSUME NEW len \in Nat, NEW j \in Job(len), NEW j1, j1 = Fail(j)
  PROVE  /\ j1 \in Job(len)
         /\ \A i \in 1..len : /\ i < j.cursor => j1.steps[i] = j.steps[i]
                              /\ i = j.cursor => j1.steps[i] = "failed"
<1>1. j.steps \in Steps(len) /\ DOMAIN j.steps = 1..len /\ j.cursor \in Nat
  BY DEF Job, Steps
<1>2. PICK s : s = [i \in 1..len |-> CASE i < j.cursor -> j.steps[i]
                                       [] i = j.cursor -> "failed"
                                       [] i > j.cursor -> "cancelled"]
  OBVIOUS
<1>3. \A i \in 1..len : s[i] = CASE i < j.cursor -> j.steps[i]
                                 [] i = j.cursor -> "failed"
                                 [] i > j.cursor -> "cancelled"
  BY <1>2
<1>4. s \in Steps(len)
  BY <1>1, <1>2, <1>3 DEF Steps, StepStatus
<1>5. j1 = [j EXCEPT !.completed = TRUE, !.error = TRUE, !.steps = s]
  BY <1>1, <1>2 DEF Fail
<1>6. j1 \in Job(len) /\ j1.steps = s
  BY <1>4, <1>5 DEF Job, Steps
<1>7. \A i \in 1..len : /\ i < j.cursor => j1.steps[i] = j.steps[i]
                        /\ i = j.cursor => j1.steps[i] = "failed"
  BY <1>1, <1>3, <1>6
<1> QED
  BY <1>6, <1>7

\* A job that starts.
LEMMA NewJobIs ==
  ASSUME NEW len \in Nat, NEW id \in Nat, NEW j1, j1 = NewJob(id, len)
  PROVE  /\ j1 \in Job(len) /\ j1.cursor = 1
         /\ \A i \in 1..len : j1.steps[i] = IF i = 1 THEN "active" ELSE "pending"
<1>1. PICK s : s = [i \in 1..len |-> IF i = 1 THEN "active" ELSE "pending"]
  OBVIOUS
<1>2. s \in Steps(len) /\ \A i \in 1..len : s[i] = IF i = 1 THEN "active" ELSE "pending"
  BY <1>1 DEF Steps, StepStatus
<1>3. j1 = [id |-> id, steps |-> s, cursor |-> 1, error |-> FALSE, completed |-> FALSE]
  BY <1>1 DEF NewJob
<1> QED
  BY <1>2, <1>3 DEF Job, Steps
\* A card shows as failed just the mints in [failed]; while it runs, exactly the
\* step at the cursor is under way; complete, it leaves none open, and is failed as
\* a whole when every mint was.
CardFits(j, failed) ==
  /\ j \in Job(Tokens) /\ failed \subseteq 1..Tokens
  /\ \A k \in 1..Tokens : j.steps[k] = "failed" <=> k \in failed
  /\ ~j.completed => \A k \in 1..Tokens : /\ k < j.cursor => j.steps[k] \in {"done", "failed"}
                                          /\ k = j.cursor => j.steps[k] = "active"
                                          /\ k > j.cursor => j.steps[k] = "pending"
  /\ j.completed => \A k \in 1..Tokens : j.steps[k] \notin {"pending", "active"}
  /\ j.error <=> j.completed /\ failed = 1..Tokens

\* For a PersonalAccount what the card shows as done was minted.
DoneIsMinted(f) ==
  f.relay => \A k \in 1..Tokens : f.job.steps[k] = "done" => k \in f.minted

Faucet == [i : 0..Tokens, relay : BOOLEAN, minted : SUBSET (1..Tokens),
           failed : SUBSET (1..Tokens), job : Job(Tokens)]

FaucetFits ==
  /\ faucet \in Faucet
  /\ CardFits(faucet.job, faucet.failed)
  /\ DoneIsMinted(faucet)
  /\ faucet.i # 0 => faucet.job.cursor = faucet.i /\ ~faucet.job.completed


\* The card after the mint at its cursor and before the cursor moves.
Settled(j, i, failed) ==
  /\ j \in Job(Tokens) /\ j.cursor = i /\ failed \subseteq 1..Tokens
  /\ \A k \in 1..Tokens : j.steps[k] = "failed" <=> k \in failed
  /\ \A k \in 1..Tokens : /\ k < i => j.steps[k] \in {"done", "failed"}
                          /\ k = i => j.steps[k] \in {"active", "failed"}
                          /\ k > i => j.steps[k] = "pending"

\* A mint that fails marks its step, one that succeeds leaves the card as it is.
LEMMA MintSettles ==
  ASSUME NEW i \in 1..Tokens, NEW j, NEW failed, CardFits(j, failed), j.cursor = i, ~j.completed,
         NEW ok \in BOOLEAN, NEW j1, j1 = (IF ok THEN j ELSE FailStep(j)),
         NEW failed1, failed1 = (IF ok THEN failed ELSE failed \cup {i})
  PROVE  /\ Settled(j1, i, failed1)
         /\ \A k \in 1..Tokens : j1.steps[k] = "done" => j.steps[k] = "done"
         /\ ~j1.completed /\ ~j1.error
<1>0. ~j.error
  BY DEF CardFits
<1>1. CASE ok
  BY <1>0, <1>1 DEF CardFits, Settled
<1>2. CASE ~ok
  <2>1. j1 = FailStep(j) /\ failed1 = failed \cup {i} /\ j \in Job(Tokens) /\ Tokens \in Nat
    BY <1>2, FundsAssumption DEF CardFits
  <2>2. /\ j1 \in Job(Tokens) /\ j1.cursor = j.cursor
        /\ \A k \in 1..Tokens : j1.steps[k] = IF k = j.cursor THEN "failed" ELSE j.steps[k]
    BY <2>1, FailStepIs
  <2>3. ~j1.completed /\ ~j1.error
    BY <1>0, <2>1 DEF FailStep, Job
  <2>4. Settled(j1, i, failed1)
    BY <2>1, <2>2 DEF CardFits, Settled
  <2>5. \A k \in 1..Tokens : j1.steps[k] = "done" => j.steps[k] = "done"
    BY <2>2
  <2> QED
    BY <2>3, <2>4, <2>5
<1> QED
  BY <1>1, <1>2

\* The cursor moves on to the next mint.
LEMMA MintAdvances ==
  ASSUME NEW i \in 1..Tokens, i < Tokens, NEW j, NEW failed, Settled(j, i, failed), ~j.completed, ~j.error,
         NEW j1, j1 = Advance(j)
  PROVE  /\ CardFits(j1, failed) /\ j1.cursor = i + 1 /\ ~j1.completed
         /\ \A k \in 1..Tokens : j1.steps[k] = "done" => (k = i /\ k \notin failed) \/ j.steps[k] = "done"
<1>1. Tokens \in Nat /\ j \in Job(Tokens) /\ j.cursor = i
  BY FundsAssumption DEF Settled
<1>2. /\ j1 \in Job(Tokens) /\ j1.cursor = j.cursor + 1
      /\ \A k \in 1..Tokens : j1.steps[k] = CASE k < j.cursor + 1 -> IF j.steps[k] = "failed" THEN "failed" ELSE "done"
                                              [] k = j.cursor + 1 -> "active"
                                              [] k > j.cursor + 1 -> j.steps[k]
  BY <1>1, AdvanceIs
<1>3. j1.completed = j.completed /\ j1.error = j.error
  BY <1>1, AdvanceIs
<1>4. \A k \in 1..Tokens : /\ k <= i => j1.steps[k] = IF j.steps[k] = "failed" THEN "failed" ELSE "done"
                           /\ k = i + 1 => j1.steps[k] = "active"
                           /\ k > i + 1 => j1.steps[k] = j.steps[k]
  BY <1>1, <1>2
<1>5. \A k \in 1..Tokens : j1.steps[k] = "failed" <=> k \in failed
  <2> SUFFICES ASSUME NEW k \in 1..Tokens PROVE j1.steps[k] = "failed" <=> k \in failed
    OBVIOUS
  <2>1. CASE k <= i
    BY <1>4, <2>1 DEF Settled
  <2>2. CASE k = i + 1
    BY <1>4, <2>2 DEF Settled
  <2>3. CASE k > i + 1
    BY <1>4, <2>3 DEF Settled
  <2> QED
    BY <2>1, <2>2, <2>3
<1>6. \A k \in 1..Tokens : /\ k < j1.cursor => j1.steps[k] \in {"done", "failed"}
                           /\ k = j1.cursor => j1.steps[k] = "active"
                           /\ k > j1.cursor => j1.steps[k] = "pending"
  BY <1>1, <1>2, <1>4 DEF Settled
<1>7. ~j1.completed /\ ~j1.error
  BY <1>3
<1>8. CardFits(j1, failed)
  <2>1. failed \subseteq 1..Tokens
    BY DEF Settled
  <2> QED
    BY <1>2, <1>5, <1>6, <1>7, <2>1, Zenon DEF CardFits
<1>9. \A k \in 1..Tokens : j1.steps[k] = "done" => (k = i /\ k \notin failed) \/ j.steps[k] = "done"
  BY <1>4 DEF Settled
<1> QED
  BY <1>1, <1>2, <1>7, <1>8, <1>9

\* After the last mint the card closes: failed as a whole when every mint was.
LEMMA MintsEnd ==
  ASSUME NEW i, i = Tokens, NEW j, NEW failed, Settled(j, i, failed), ~j.error,
         NEW j1, j1 = (IF Cardinality(failed) = Tokens THEN Fail(j) ELSE Finish(j))
  PROVE  /\ CardFits(j1, failed)
         /\ \A k \in 1..Tokens : j1.steps[k] = "done" => (k = i /\ k \notin failed) \/ j.steps[k] = "done"
<1>1. Tokens \in Nat /\ j \in Job(Tokens) /\ j.cursor = i /\ i = Tokens /\ failed \subseteq 1..Tokens
  BY FundsAssumption DEF Settled
<1>2. failed = 1..Tokens <=> Cardinality(failed) = Tokens
  <2>1. IsFiniteSet(1..Tokens) /\ Cardinality(1..Tokens) = Tokens
    BY <1>1, FS_Interval
  <2>2. failed \in SUBSET (1..Tokens)
    BY <1>1
  <2>3. Cardinality(1..Tokens) = Cardinality(failed) => 1..Tokens = failed
    BY <2>1, <2>2, FS_Subset, Zenon
  <2> QED
    BY <2>1, <2>3
<1>3. CASE Cardinality(failed) = Tokens
  <2>1. j1 = Fail(j)
    BY <1>3
  <2>2. /\ j1 \in Job(Tokens)
        /\ \A k \in 1..Tokens : /\ k < j.cursor => j1.steps[k] = j.steps[k]
                                /\ k = j.cursor => j1.steps[k] = "failed"
    BY <1>1, <2>1, FailIs
  <2>3. j1.completed /\ j1.error
    BY <1>1, <2>1 DEF Fail, Job
  <2>4. failed = 1..Tokens
    BY <1>2, <1>3
  <2>5. \A k \in 1..Tokens : /\ k < Tokens => j1.steps[k] = j.steps[k]
                             /\ k = Tokens => j1.steps[k] = "failed"
    BY <1>1, <2>2
  <2>6. \A k \in 1..Tokens : j1.steps[k] = "failed"
    BY <1>1, <2>4, <2>5 DEF Settled
  <2>7. \A k \in 1..Tokens : (j1.steps[k] = "failed" <=> k \in failed) /\ j1.steps[k] \notin {"pending", "active"}
    BY <2>4, <2>6
  <2>8. CardFits(j1, failed)
    BY <1>1, <2>2, <2>3, <2>4, <2>7, Zenon DEF CardFits
  <2> QED
    BY <2>6, <2>8
<1>4. CASE Cardinality(failed) # Tokens
  <2>1. j1 = Finish(j)
    BY <1>4
  <2>2. /\ j1 \in Job(Tokens)
        /\ \A k \in 1..Tokens : j1.steps[k] = IF j.steps[k] = "failed" THEN "failed" ELSE "done"
    BY <1>1, <2>1, FinishIs, Zenon
  <2>3. j1.completed /\ j1.error = j.error
    BY <1>1, <2>1 DEF Finish, Job
  <2>4. j1.completed /\ ~j1.error
    BY <2>3
  <2>5. failed # 1..Tokens
    BY <1>2, <1>4
  <2>6. \A k \in 1..Tokens : (j1.steps[k] = "failed" <=> k \in failed) /\ j1.steps[k] \notin {"pending", "active"}
    BY <2>2 DEF Settled
  <2>7. CardFits(j1, failed)
    BY <1>1, <2>2, <2>4, <2>5, <2>6, Zenon DEF CardFits
  <2>8. \A k \in 1..Tokens : j1.steps[k] = "done" => (k = i /\ k \notin failed) \/ j.steps[k] = "done"
    BY <1>1, <2>2 DEF Settled
  <2> QED
    BY <2>7, <2>8
<1> QED
  BY <1>3, <1>4

\* A card just started fits, and so does the empty one that was finished.
LEMMA NewCardFits ==
  ASSUME NEW j, j = NewJob(1, Tokens)
  PROVE  /\ CardFits(j, {}) /\ j.cursor = 1 /\ ~j.completed
         /\ \A k \in 1..Tokens : j.steps[k] # "done"
<1>1. Tokens \in Nat \ {0} /\ Tokens \in Nat /\ 1 \in Nat /\ 1 \in 1..Tokens
  BY FundsAssumption
<1>2. /\ j \in Job(Tokens) /\ j.cursor = 1
      /\ \A i \in 1..Tokens : j.steps[i] = IF i = 1 THEN "active" ELSE "pending"
  BY <1>1, NewJobIs
<1>3. ~j.completed /\ ~j.error
  BY DEF NewJob
<1>4. \A k \in 1..Tokens : j.steps[k] \in {"active", "pending"}
  BY <1>2
<1>5. \A k \in 1..Tokens : /\ k < j.cursor => j.steps[k] \in {"done", "failed"}
                           /\ k = j.cursor => j.steps[k] = "active"
                           /\ k > j.cursor => j.steps[k] = "pending"
  BY <1>1, <1>2
<1>6. (\A k \in 1..Tokens : j.steps[k] = "failed" <=> k \in {}) /\ {} \subseteq 1..Tokens
  BY <1>4
<1>7. CardFits(j, {})
  BY <1>2, <1>3, <1>5, <1>6, Zenon DEF CardFits
<1> QED
  BY <1>2, <1>3, <1>4, <1>7

\* At the start the card is a finished one of which nothing failed.
LEMMA FaucetStarts ==
  ASSUME Init
  PROVE  FaucetFits
<1>1. Tokens \in Nat \ {0} /\ Tokens \in Nat /\ 1 \in 1..Tokens
  BY FundsAssumption
<1>2. PICK j0 : j0 = NewJob(1, Tokens)
  OBVIOUS
<1>3. PICK j : j = Finish(j0)
  OBVIOUS
<1>4. faucet = [i |-> 0, relay |-> FALSE, minted |-> {}, failed |-> {}, job |-> j]
  BY <1>2, <1>3, Zenon DEF Init, FundsInit
<1>5. j0 \in Job(Tokens) /\ (\A k \in 1..Tokens : j0.steps[k] \in {"active", "pending"})
  <2>1. CardFits(j0, {}) /\ 1 \in Nat
    BY <1>2, NewCardFits
  <2>2. \A i \in 1..Tokens : j0.steps[i] = IF i = 1 THEN "active" ELSE "pending"
    BY <1>1, <1>2, <2>1, NewJobIs
  <2> QED
    BY <2>1, <2>2 DEF CardFits
<1>6. j \in Job(Tokens) /\ \A k \in 1..Tokens : j.steps[k] = IF j0.steps[k] = "failed" THEN "failed" ELSE "done"
  BY <1>1, <1>3, <1>5, FinishIs
<1>7. \A k \in 1..Tokens : j.steps[k] = "done"
  BY <1>5, <1>6
<1>8. j.completed
  BY <1>3, <1>5 DEF Finish, Job
<1>9. ~j.error
  <2>1. ~j0.error
    BY <1>2 DEF NewJob
  <2>2. j.error = j0.error
    BY <1>3, <1>5 DEF Finish, Job
  <2> QED
    BY <2>1, <2>2
<1>10. CardFits(j, {})
  <2>1. (\A k \in 1..Tokens : j.steps[k] = "failed" <=> k \in {}) /\ {} \subseteq 1..Tokens
    BY <1>7
  <2>2. \A k \in 1..Tokens : j.steps[k] \notin {"pending", "active"}
    BY <1>7
  <2>3. {} # 1..Tokens
    BY <1>1
  <2> QED
    BY <1>6, <1>8, <1>9, <2>1, <2>2, <2>3, Zenon DEF CardFits
<1>11. faucet \in Faucet /\ faucet.i = 0
  BY <1>1, <1>4, <1>6 DEF Faucet
<1>12. faucet.job = j /\ faucet.failed = {}
  BY <1>4
<1>13. ~faucet.relay
  BY <1>4
<1> QED
  BY <1>10, <1>11, <1>12, <1>13 DEF FaucetFits, DoneIsMinted

\* What a step does to the faucet.
LEMMA FaucetKept ==
  ASSUME FaucetFits, Next
  PROVE  FaucetFits'
<1>1. CASE UNCHANGED faucet
  BY <1>1 DEF FaucetFits, Faucet, CardFits, DoneIsMinted
<1>2. CASE StartFaucet
  <2>1. PICK j : j = NewJob(1, Tokens)
    OBVIOUS
  <2>2. PICK r \in BOOLEAN : faucet' = [i |-> 1, relay |-> r, minted |-> {}, failed |-> {}, job |-> j]
    BY <1>2, <2>1 DEF StartFaucet
  <2>3. CardFits(j, {}) /\ j.cursor = 1 /\ ~j.completed
    BY <2>1, NewCardFits
  <2>4. \A k \in 1..Tokens : j.steps[k] # "done"
    BY <2>1, NewCardFits
  <2>5. faucet' \in Faucet
    BY <2>2, <2>3, FundsAssumption DEF Faucet, CardFits
  <2>6. faucet'.i = 1 /\ faucet'.job = j /\ faucet'.failed = {}
    BY <2>2
  <2>7. DoneIsMinted(faucet')
    BY <2>4, <2>6 DEF DoneIsMinted
  <2>8. CardFits(faucet'.job, faucet'.failed) /\ faucet'.job.cursor = faucet'.i /\ ~faucet'.job.completed
    BY <2>3, <2>6
  <2> QED
    BY <2>5, <2>7, <2>8 DEF FaucetFits, DoneIsMinted, CardFits
<1>3. ASSUME NEW outcome \in Outcomes, Mint(outcome)
      PROVE  FaucetFits'
  <2> DEFINE i == faucet.i
             able == IF faucet.relay THEN xaman.account # None ELSE evm
             succeeds == IF faucet.relay THEN XamanMints(outcome) ELSE EvmMints(outcome)
  <2>1. PICK ok \in BOOLEAN : ok <=> succeeds
    OBVIOUS
  <2>2. PICK failed1 : failed1 = IF ok THEN faucet.failed ELSE faucet.failed \cup {i}
    OBVIOUS
  <2>3. PICK j1 : j1 = IF ok THEN faucet.job ELSE FailStep(faucet.job)
    OBVIOUS
  <2>4. PICK j2 : j2 = IF i < Tokens THEN Advance(j1)
                       ELSE IF Cardinality(failed1) = Tokens THEN Fail(j1) ELSE Finish(j1)
    OBVIOUS
  <2>5. PICK minted1 : minted1 = IF able /\ outcome \in {"minted", "lost"} THEN faucet.minted \cup {i} ELSE faucet.minted
    OBVIOUS
  <2>6. PICK i1 : i1 = IF i < Tokens THEN i + 1 ELSE 0
    OBVIOUS
  <2>7. /\ i # 0
        /\ faucet' = [faucet EXCEPT !.failed = failed1, !.minted = minted1, !.i = i1, !.job = j2]
    BY <1>3, <2>1, <2>2, <2>3, <2>4, <2>5, <2>6 DEF Mint
  <2>8. /\ Tokens \in Nat /\ i \in 1..Tokens /\ faucet.job.cursor = i /\ ~faucet.job.completed
        /\ CardFits(faucet.job, faucet.failed)
    BY <2>7, FundsAssumption DEF FaucetFits, Faucet
  <2>9. PICK j : j = faucet.job
    OBVIOUS
  <2>10. /\ Settled(j1, i, failed1)
         /\ \A k \in 1..Tokens : j1.steps[k] = "done" => j.steps[k] = "done"
         /\ ~j1.completed /\ ~j1.error
    <3>1. CardFits(j, faucet.failed) /\ j.cursor = i /\ ~j.completed /\ i \in 1..Tokens
      BY <2>8, <2>9
    <3>2. j1 = IF ok THEN j ELSE FailStep(j)
      BY <2>3, <2>9
    <3> QED
      BY <2>2, <3>1, <3>2, MintSettles, Zenon
  <2>11. ~j1.completed /\ ~j1.error
    BY <2>10
  <2>12. /\ CardFits(j2, failed1)
         /\ \A k \in 1..Tokens : j2.steps[k] = "done" => (k = i /\ k \notin failed1) \/ j1.steps[k] = "done"
    <3>1. CASE i < Tokens
      <4>1. j2 = Advance(j1)
        BY <3>1, <2>4
      <4> QED
        BY <3>1, <4>1, <2>8, <2>10, <2>11, MintAdvances, Zenon
    <3>2. CASE ~(i < Tokens)
      <4>1. i = Tokens
        BY <3>2, <2>8
      <4>2. j2 = IF Cardinality(failed1) = Tokens THEN Fail(j1) ELSE Finish(j1)
        BY <3>2, <2>4
      <4>3. ~j1.error
        BY <2>11
      <4>4. Settled(j1, i, failed1)
        BY <2>10
      <4> HIDE DEF i
      <4> QED
        BY <4>1, <4>2, <4>3, <4>4, MintsEnd
    <3> QED
      BY <3>1, <3>2
  <2>13. i < Tokens => j2.cursor = i + 1 /\ ~j2.completed
    <3>1. SUFFICES ASSUME i < Tokens PROVE j2.cursor = i + 1 /\ ~j2.completed
      OBVIOUS
    <3>2. j2 = Advance(j1)
      BY <3>1, <2>4
    <3> QED
      BY <3>1, <3>2, <2>8, <2>10, <2>11, MintAdvances, Zenon
  <2> HIDE DEF i
  <2>14. faucet \in Faucet /\ i1 \in 0..Tokens /\ minted1 \in SUBSET (1..Tokens) /\ failed1 \in SUBSET (1..Tokens) /\ j2 \in Job(Tokens)
    BY <2>5, <2>6, <2>8, <2>12 DEF FaucetFits, Faucet, CardFits
  <2>15. /\ faucet' \in Faucet /\ faucet'.failed = failed1 /\ faucet'.minted = minted1 /\ faucet'.i = i1
         /\ faucet'.job = j2
    BY <2>7, <2>14 DEF Faucet
  <2>16. faucet'.relay = faucet.relay
    BY <2>7, <2>14 DEF Faucet
  <2>17. ASSUME faucet.relay, NEW k \in 1..Tokens, j2.steps[k] = "done"
         PROVE  k \in minted1
    <3>1. CASE j1.steps[k] = "done"
      <4>1. faucet.job.steps[k] = "done"
        BY <3>1, <2>9, <2>10
      <4>2. k \in faucet.minted
        BY <4>1, <2>17 DEF FaucetFits, DoneIsMinted
      <4> QED
        BY <4>2, <2>5
    <3>2. CASE k = i /\ k \notin failed1
      <4>1. ok
        BY <3>2, <2>2
      <4>2. xaman.account # None /\ outcome = "minted"
        BY <4>1, <2>1, <2>17 DEF XamanMints, RelayMints
      <4> QED
        BY <3>2, <4>2, <2>5, <2>17
    <3> QED
      BY <3>1, <3>2, <2>12, <2>17
  <2>18. DoneIsMinted(faucet')
    BY <2>15, <2>16, <2>17 DEF DoneIsMinted
  <2>19. faucet'.i # 0 => faucet'.job.cursor = faucet'.i /\ ~faucet'.job.completed
    BY <2>6, <2>13, <2>15
  <2>20. CardFits(faucet'.job, faucet'.failed)
    BY <2>12, <2>15
  <2> QED
    BY <2>15, <2>18, <2>19, <2>20 DEF FaucetFits, DoneIsMinted, CardFits
<1>4. CASE Reload
  <2>1. faucet' = [faucet EXCEPT !.i = 0]
    BY <1>4 DEF Reload, FundsReload
  <2>2. faucet \in Faucet /\ 0 \in 0..Tokens
    BY FundsAssumption DEF FaucetFits
  <2>3. faucet' \in Faucet /\ faucet'.i = 0 /\ faucet'.minted = faucet.minted
        /\ faucet'.failed = faucet.failed /\ faucet'.job = faucet.job
    BY <2>1, <2>2 DEF Faucet
  <2>4. faucet'.relay = faucet.relay
    BY <2>1, <2>2 DEF Faucet
  <2>5. DoneIsMinted(faucet) /\ CardFits(faucet.job, faucet.failed)
    BY DEF FaucetFits
  <2>6. DoneIsMinted(faucet')
    BY <2>3, <2>4, <2>5 DEF DoneIsMinted
  <2>7. CardFits(faucet'.job, faucet'.failed)
    BY <2>3, <2>5
  <2> QED
    BY <2>3, <2>6, <2>7 DEF FaucetFits, DoneIsMinted, CardFits
<1>5. CASE TeeRestart
  BY <1>1, <1>5 DEF TeeRestart, FundsTeeRestart
<1>6. CASE SessionAction
  BY <1>1, <1>6, SessionFrame
<1>7. CASE FsaAction
  BY <1>1, <1>7, FsaFrame
<1>8. CASE OpAction \/ NewSlip
  BY <1>1, <1>8, OpFrame, NewSlipFrame
<1>9. CASE CallAction \/ TeeAction
  BY <1>1, <1>9, CallFrame, TeeFrame
<1>10. CASE FaucetAction
  BY <1>2, <1>3, <1>10, Zenon DEF FaucetAction
<1> QED
  BY <1>4, <1>5, <1>6, <1>7, <1>8, <1>9, <1>10, Kinds, Zenon

\* What the invariant says of the card.
LEMMA CardTells ==
  ASSUME FaucetFits
  PROVE  FaucetCardTrue /\ JobWellFormed(faucet.job)
<1> DEFINE j == faucet.job
<1>1. /\ CardFits(j, faucet.failed) /\ Tokens \in Nat /\ faucet.failed \subseteq 1..Tokens
      /\ DOMAIN j.steps = 1..Tokens /\ \A k \in 1..Tokens : j.steps[k] \in StepStatus
  BY FundsAssumption DEF FaucetFits, CardFits, Job
<1>2. faucet.failed = 1..Tokens <=> Cardinality(faucet.failed) = Tokens
  <2>1. IsFiniteSet(1..Tokens) /\ Cardinality(1..Tokens) = Tokens
    BY <1>1, FS_Interval
  <2>2. faucet.failed \in SUBSET (1..Tokens)
    BY <1>1
  <2>3. Cardinality(1..Tokens) = Cardinality(faucet.failed) => 1..Tokens = faucet.failed
    BY <2>1, <2>2, FS_Subset, Zenon
  <2> QED
    BY <2>1, <2>3
<1>3. {i \in 1..Tokens : j.steps[i] = "failed"} = faucet.failed
  BY <1>1 DEF CardFits
<1>4. faucet.relay => {i \in 1..Tokens : j.steps[i] = "done"} \subseteq faucet.minted
  BY DEF FaucetFits, DoneIsMinted
<1>5. j.error <=> j.completed /\ faucet.failed = 1..Tokens
  BY <1>1 DEF CardFits
<1>6. CardState(j) = "failed" <=> j.error
  BY DEF CardState
<1>7. CardState(j) = "failed" <=> Cardinality(faucet.failed) = Tokens /\ j.completed
  BY <1>2, <1>5, <1>6
<1>8. CardState(j) = "partial" => faucet.failed # {}
  <2>1. SUFFICES ASSUME CardState(j) = "partial" PROVE faucet.failed # {}
    OBVIOUS
  <2>2. PICK i \in DOMAIN j.steps : j.steps[i] = "failed"
    BY <2>1 DEF CardState
  <2> QED
    BY <1>1, <1>3, <2>2
<1>9. FaucetCardTrue
  BY <1>3, <1>4, <1>7, <1>8, Zenon DEF FaucetCardTrue
<1>10. RunningInOrder(j)
  BY <1>1 DEF CardFits, RunningInOrder
<1>11. CompletedIsClosed(j)
  BY <1>1 DEF CardFits, CompletedIsClosed
<1> QED
  BY <1>9, <1>10, <1>11 DEF JobWellFormed

-----------------------------------------------------------------------------
(* The whole.                                                              *)

WalletInv ==
  SessionInv /\ SlipsInv /\ PaymentInv /\ OpsInv /\ SlipKept /\ Backed /\ FaucetFits

\* It holds at the start.
LEMMA WalletStarts ==
  ASSUME Init
  PROVE  WalletInv
<1>1. SessionInv
  BY SessionStarts DEF Init
<1>2. PaymentInv
  BY PaymentStarts DEF Init
<1>3. SlipsInv /\ OpsInv /\ Backed /\ FaucetFits
  BY SlipsStart, OpsStart, BackedAtStart, FaucetStarts
<1>4. SlipKept
  BY DEF SlipKept, Init, FundsInit
<1> QED
  BY <1>1, <1>2, <1>3, <1>4, Zenon DEF WalletInv

\* Every step keeps it.
LEMMA WalletGoesOn ==
  ASSUME WalletInv, Next
  PROVE  WalletInv'
<1>1. SessionInv /\ SlipsInv /\ PaymentInv /\ OpsInv /\ SlipKept /\ Backed /\ FaucetFits
  BY Zenon DEF WalletInv
<1>2. SessionInv'
  BY <1>1, SessionMoved, SessionKept
<1>3. SlipsInv'
  <2>1. CreditsShape /\ wd \in Operation
    BY <1>1 DEF OpsInv, OpsShape
  <2> QED
    BY <1>1, <2>1, SlipsKept
<1>4. OpsInv'
  BY <1>1, OpsKept
<1>5. PaymentInv'
  <2>1. FlowOfDeposit /\ (dep.step = "approve" => dep.user \in Users)
    BY <1>1 DEF OpsInv, OpsOwned, Owner, Users, SessionInv, SessionShape
  <2> QED
    BY <1>1, <2>1, PaymentKept
<1>6. SlipKept'
  BY <1>1, <1>2, SlipKeptOn
<1>7. Backed'
  BY <1>1, <1>3, <1>4, BackedOn
<1>8. FaucetFits'
  BY <1>1, FaucetKept
<1> QED
  BY <1>2, <1>3, <1>4, <1>5, <1>6, <1>7, <1>8, Zenon DEF WalletInv

\* And so does a step in which nothing happens.
LEMMA WalletStays ==
  ASSUME WalletInv, UNCHANGED vars
  PROVE  WalletInv'
<1>1. SessionInv /\ SlipsInv /\ PaymentInv /\ OpsInv /\ SlipKept /\ Backed /\ FaucetFits
  BY Zenon DEF WalletInv
<1>2. UNCHANGED <<ops, faults, now, xaman, evm, conn, keyStore, fsa, binds, past>>
  BY DEF vars, budget, sessionVars
<1>3. UNCHANGED <<mac, reqs, flow, pending>>
  BY DEF vars, fsaVars
<1>4. UNCHANGED <<ledger, vault, credits, slips, saved, got, calls, dep, wd, retry, faucet>>
  BY DEF vars, fundsVars, teeVars, opVars
<1>5. SessionInv'
  BY <1>1, <1>2, SessionKept DEF SessionMoves, sessionVars
<1>6. SlipsInv'
  BY <1>1, <1>2, <1>4 DEF SlipsInv, SlipsShape, NoncesTaken, DebitedOnce
<1>7. PaymentInv'
  BY <1>1, <1>3, PaymentStays DEF fsaVars
<1>8. OpsInv'
  <2>1. OpsShape'
    BY <1>1, <1>2, <1>4 DEF OpsInv, OpsShape, CreditsShape
  <2>2. OpsOwned' /\ CallsOwned' /\ FlowOfDeposit'
    BY <1>1, <1>2, <1>3, <1>4 DEF OpsInv, OpsOwned, CallsOwned, Owner, FlowOfDeposit
  <2>3. SlipsHad'
    BY <1>1, <1>4 DEF OpsInv, SlipsHad
  <2> QED
    BY <2>1, <2>2, <2>3 DEF OpsInv
<1>9. SlipKept'
  BY <1>1, <1>2, <1>4, Zenon DEF SlipKept
<1>10. Backed'
  BY <1>1, <1>4, OwedAsBefore
<1>11. FaucetFits'
  BY <1>1, <1>4 DEF FaucetFits, CardFits, DoneIsMinted
<1> QED
  BY <1>5, <1>6, <1>7, <1>8, <1>9, <1>10, <1>11, Zenon DEF WalletInv

\* So it always holds.
LEMMA WalletInvariance == Spec => []WalletInv
<1>1. Init => WalletInv
  BY WalletStarts
<1>2. WalletInv /\ [Next]_vars => WalletInv'
  BY WalletGoesOn, WalletStays
<1> QED
  BY <1>1, <1>2, PTL DEF Spec

\* What it says of the types.
LEMMA WalletTyped == WalletInv => TypeOK
<1> SUFFICES ASSUME WalletInv PROVE TypeOK
  OBVIOUS
<1>1. SessionInv /\ SlipsInv /\ PaymentInv /\ OpsInv /\ Backed /\ FaucetFits
  BY Zenon DEF WalletInv
<1>2. SessionTypeOK
  <2>1. ops \in 0..MaxOps /\ faults \in 0..MaxFaults
    BY <1>1 DEF OpsInv, OpsShape
  <2>2. /\ now \in Nat /\ evm \in BOOLEAN /\ xaman.account \in Accounts \cup {None} /\ xaman.key \in Keys \cup {NoKey}
        /\ conn.step \in {"idle", "signin", "lookup", "resolve", "bind", "answer"}
    BY <1>1 DEF SessionInv, SessionShape, MaybeKey, Conn, ConnSteps
  <2>3. \A a \in Accounts : {keyStore[a], fsa.bindings[a]} \subseteq Keys \cup {NoKey}
    BY <1>1 DEF SessionInv, SessionShape, MaybeKey
  <2>4. \A m \in binds : m.stage \in {"sent", "advanced", "refused", "bound"} /\ m.nonce <= now
    BY <1>1 DEF SessionInv, SessionShape, Clocked, Bind, BindStages
  <2> QED
    BY <2>1, <2>2, <2>3, <2>4 DEF SessionTypeOK
<1>3. FsaTypeOK
  <2>1. FsaShape
    BY <1>1 DEF PaymentInv
  <2>2. \A i \in DOMAIN reqs : reqs[i].state \in {"built", "open", "signed", "rejected", "executed", "parked", "void"}
    BY <2>1, FsaTypes DEF Requests
  <2> QED
    BY <2>1, <2>2, FsaTypes DEF FsaTypeOK, FsaShape
<1>4. FundsTypeOK
  <2>1. \A u \in Users : ledger[u] \in 0..(Word - 1)
    BY <1>1 DEF SlipsInv, SlipsShape, Ledgers
  <2>2. {vault.tokens, vault.missing} \subseteq Nat
    <3>1. TablesFit
      BY <1>1, Tables
    <3>2. vault.missing \in Nat /\ Owed \in Nat
      BY <3>1 DEF TablesFit
    <3>3. vault.tokens \in Nat
      BY <1>1, <3>2 DEF Backed
    <3> QED
      BY <3>2, <3>3
  <2>3. vault.used \subseteq DOMAIN slips /\ got \subseteq DOMAIN slips
    BY <1>1 DEF OpsInv, SlipsHad, Vaults
  <2>4. \A i \in DOMAIN slips :
          slips[i].stage \in {"sent", "authorized", "advanced", "debited", "signed", "refused", "lost"}
    <3>1. slips \in Seq(Slip)
      BY <1>1 DEF SlipsInv, SlipsShape
    <3>2. \A i \in DOMAIN slips : slips[i] \in Slip
      BY <3>1
    <3> QED
      BY <3>2 DEF Slip, SlipStages
  <2>5. {dep.step, wd.step, retry.step} \subseteq {"idle", "approve", "flow", "confirm", "request", "carry", "poll"}
    BY <1>1 DEF OpsInv, OpsShape
  <2>6. JobWellFormed(faucet.job)
    BY <1>1, CardTells
  <2> QED
    BY <2>1, <2>2, <2>3, <2>4, <2>5, <2>6, Zenon DEF FundsTypeOK
<1> QED
  BY <1>2, <1>3, <1>4, Zenon DEF TypeOK

\* Types: the session, the payments and the money keep theirs, and the card of the
\* faucet runs its steps in order.
THEOREM WalletTypeCorrect == Spec => []TypeOK
<1> QED
  BY WalletInvariance, WalletTyped, PTL

\* XamanContext and fsa_store.go: whoever is connected signs with the key that the
\* TEE has bound to the account, whatever older binds are still on their way.
THEOREM ConnectedKeyIsBound == Spec => []ConnectedIsBound
<1>1. WalletInv => ConnectedIsBound
  <2>1. ASSUME SessionInv, xaman.account # None, ~past.mixed, ~past.forgot
        PROVE  fsa.bindings[xaman.account] = xaman.key
    <3>1. OneKey /\ StillBound /\ SessionShape
      BY <2>1 DEF SessionInv
    <3>2. xaman.account \in Accounts
      BY <2>1, <3>1 DEF SessionShape
    <3> QED
      BY <2>1, <3>1, <3>2 DEF OneKey, StillBound
  <2> QED
    BY <2>1, Zenon DEF WalletInv, ConnectedIsBound
<1> QED
  BY <1>1, WalletInvariance, PTL

\* resolveSession and persistSession: the key that the TEE has bound to an account
\* can be had again at the next login.
THEOREM BoundKeyIsKept == Spec => []KeyKept
<1>1. WalletInv => KeyKept
  <2>1. ASSUME SessionInv, ~past.mixed, NEW a \in Accounts, fsa.bindings[a] # NoKey
        PROVE  \/ keyStore[a] = fsa.bindings[a]
               \/ a \in Deterministic /\ fsa.bindings[a] = Derived(a, 0)
    <3>1. fsa.bindings[a] = TheKey(a)
      BY <2>1 DEF SessionInv, OneKey
    <3> QED
      BY <3>1 DEF TheKey, Derived
  <2> QED
    BY <2>1, Zenon DEF WalletInv, KeyKept
<1> QED
  BY <1>1, WalletInvariance, PTL

\* runFsaFlow: two payments are signed for one nonce, and one is parked, only after
\* the page had left a request of that nonce.
THEOREM PaymentsGuarded == Spec => []PaymentGuarded
<1>1. WalletInv => PaymentGuarded
  BY GuardedInPairs DEF WalletInv, PaymentInv
<1> QED
  BY <1>1, WalletInvariance, PTL

\* CheckAndAdvanceNonce: a withdrawal signed once is debited once, however often it
\* is delivered, while the TEE keeps its nonces.
THEOREM NoDoubleDebit == Spec => []DebitedOnce
<1>1. WalletInv => DebitedOnce
  BY DEF WalletInv, SlipsInv
<1> QED
  BY <1>1, WalletInvariance, PTL

\* useXamanWithdraw: an unpaid slip of a PersonalAccount that reached the page is in
\* localStorage, so a reload does not lose it.
THEOREM SlipsSurvive == Spec => []SlipKept
<1>1. WalletInv => SlipKept
  BY DEF WalletInv
<1> QED
  BY <1>1, WalletInvariance, PTL

\* InstructionSender and the TEE: the vault holds what the exchange owes and, besides,
\* exactly what the TEE cut off, wrapped around or forgot, whatever was retried, lost
\* on the way back or restarted, and whatever amounts were moved.
THEOREM VaultBacked == Spec => []Backed
<1>1. WalletInv => Backed
  BY DEF WalletInv
<1> QED
  BY <1>1, WalletInvariance, PTL

\* handleFaucet: the card shows as failed just the mints that failed, and as done
\* only what was minted.
THEOREM CardIsTrue == Spec => []FaucetCardTrue
<1>1. WalletInv => FaucetCardTrue
  BY CardTells DEF WalletInv
<1> QED
  BY <1>1, WalletInvariance, PTL

=============================================================================
