--------------------------- MODULE BalanceProofs ---------------------------
(***************************************************************************)
(* Every operation of the balance manager keeps the ledger well typed and  *)
(* conserves value.                                                        *)
(***************************************************************************)
EXTENDS Balance, TableProofs

\* An amount that fits its width does not wrap.
LEMMA FitsWord ==
  ASSUME NEW x \in Nat, x < Word
  PROVE  x % Word = x
BY SupplyAssumption

\* What one user has of a token is bounded by the custody of that token, so
\* no addition in the manager wraps.
LEMMA EquityBound ==
  ASSUME balances \in Ledger, Conserved, supply \in [Tokens -> 0..MaxSupply],
         NEW u \in Users, NEW t \in Tokens
  PROVE  /\ EquityTable(balances, t) \in [Users -> Nat]
         /\ Equity(balances, u, t) \in Nat
         /\ Equity(balances, u, t) <= supply[t]
         /\ Equity(balances, u, t) < Word
<1>1. EquityTable(balances, t) \in [Users -> Nat]
  BY SupplyAssumption DEF EquityTable, Equity, Ledger, TokenBalance, Amount
<1>2. EquityTable(balances, t)[u] = Equity(balances, u, t)
  BY DEF EquityTable
<1>3. EquityTable(balances, t)[u] <= Total(EquityTable(balances, t))
  BY <1>1, UsersAssumption, EntryWithinTotal
<1>4. Total(EquityTable(balances, t)) = supply[t]
  BY DEF Conserved, InCustody
<1>5. Equity(balances, u, t) \in Nat
  BY <1>1, <1>2
<1> QED
  BY <1>1, <1>2, <1>3, <1>4, <1>5, SupplyAssumption

\* The invariant of the manager: well typed, and nothing made or lost.
BalanceInv == BalanceTypeOK /\ Conserved

\* The step common to all operations: only the entries of users u and w for
\* token t change, and what that does to their equities is known.
LEMMA ConservedByMove ==
  ASSUME BalanceInv, balances' \in Ledger,
         NEW t \in Tokens, NEW u \in Users, NEW w \in Users, NEW d \in Nat,
         \A v \in Users, s \in Tokens :
           ~(s = t /\ v \in {u, w}) => balances'[v][s] = balances[v][s],
         u # w => /\ Equity(balances', u, t) = Equity(balances, u, t) - d
                  /\ Equity(balances', w, t) = Equity(balances, w, t) + d,
         u = w => Equity(balances', u, t) = Equity(balances, u, t),
         supply' = supply
  PROVE  Conserved'
<1> SUFFICES ASSUME NEW s \in Tokens
             PROVE  InCustody(balances', s) = supply[s]
  BY DEF Conserved
<1> DEFINE f == EquityTable(balances, s)
           g == EquityTable(balances', s)
<1>1. f \in [Users -> Nat] /\ g \in [Users -> Nat]
  BY SupplyAssumption
     DEF BalanceInv, BalanceTypeOK, EquityTable, Equity, Ledger, TokenBalance, Amount
<1>2. Total(f) = supply[s]
  BY DEF BalanceInv, Conserved, InCustody
<1>3. CASE s = t /\ u # w
  <2>1. /\ g[u] = f[u] - d
        /\ g[w] = f[w] + d
        /\ \A v \in Users \ {u, w} : g[v] = f[v]
    BY <1>3 DEF EquityTable, Equity
  <2> HIDE DEF f, g
  <2>2. Total(g) = Total(f)
    BY <1>1, <1>3, <2>1, UsersAssumption, TotalMove
  <2> QED
    BY <1>2, <2>2 DEF InCustody, g
<1>4. CASE ~(s = t /\ u # w)
  <2>1. \A v \in Users : g[v] = f[v]
    BY <1>4 DEF EquityTable, Equity
  <2>2. g = f
    BY <1>1, <2>1
  <2> QED
    BY <1>2, <2>2 DEF InCustody
<1> QED
  BY <1>3, <1>4

\* A credit or debit of one user's equity that supply records.
LEMMA ConservedByCredit ==
  ASSUME BalanceInv, balances' \in Ledger,
         NEW t \in Tokens, NEW u \in Users, NEW d \in Int,
         \A v \in Users, s \in Tokens :
           ~(s = t /\ v = u) => balances'[v][s] = balances[v][s],
         Equity(balances', u, t) = Equity(balances, u, t) + d,
         \A s \in Tokens :
           supply'[s] = IF s = t THEN supply[s] + d ELSE supply[s]
  PROVE  Conserved'
<1> SUFFICES ASSUME NEW s \in Tokens
             PROVE  InCustody(balances', s) = supply'[s]
  BY DEF Conserved
<1> DEFINE f == EquityTable(balances, s)
           g == EquityTable(balances', s)
<1>1. f \in [Users -> Nat] /\ g \in [Users -> Nat]
  BY SupplyAssumption
     DEF BalanceInv, BalanceTypeOK, EquityTable, Equity, Ledger, TokenBalance, Amount
<1>2. Total(f) = supply[s] /\ supply[s] \in Int
  BY DEF BalanceInv, BalanceTypeOK, Conserved, InCustody
<1>3. CASE s = t
  <2>1. /\ g[u] = f[u] + d
        /\ \A v \in Users \ {u} : g[v] = f[v]
    BY <1>3 DEF EquityTable, Equity
  <2> HIDE DEF f, g
  <2>2. Total(g) + f[u] = Total(f) + g[u]
    BY <1>1, <2>1, UsersAssumption, TotalUpdate
  <2>3. Total(g) \in Nat /\ Total(f) \in Nat
    BY <1>1, UsersAssumption, UnitsFinite
  <2>4. Total(g) = supply[s] + d
    BY <1>1, <1>2, <2>1, <2>2, <2>3
  <2>5. supply'[s] = supply[s] + d
    BY <1>3
  <2> QED
    BY <2>4, <2>5 DEF InCustody, g
<1>4. CASE s # t
  <2>1. \A v \in Users : g[v] = f[v]
    BY <1>4 DEF EquityTable, Equity
  <2>2. g = f
    BY <1>1, <2>1
  <2>3. supply'[s] = supply[s]
    BY <1>4
  <2> QED
    BY <1>2, <2>2, <2>3 DEF InCustody
<1> QED
  BY <1>3, <1>4

-----------------------------------------------------------------------------

\* Manager.Deposit.
LEMMA DepositInv ==
  ASSUME BalanceInv, NEW u \in Users, NEW t \in Tokens, NEW a \in Nat,
         Deposit(u, t, a)
  PROVE  BalanceInv'
<1> USE DEF Ledger, TokenBalance
<1>1. /\ balances \in Ledger
      /\ supply \in [Tokens -> 0..MaxSupply]
  BY DEF BalanceInv, BalanceTypeOK
<1>2. /\ supply[t] \in Nat /\ supply[t] + a <= MaxSupply
      /\ supply' = [supply EXCEPT ![t] = @ + a]
  BY <1>1 DEF Deposit, CanDeposit
<1>3. /\ Available(u, t) \in Nat /\ Held(u, t) \in Nat
      /\ Available(u, t) + Held(u, t) <= supply[t]
  BY <1>1, EquityBound, SupplyAssumption
     DEF BalanceInv, Equity, Available, Held, Amount
<1>4. (Available(u, t) + a) % Word = Available(u, t) + a
  BY <1>2, <1>3, FitsWord, SupplyAssumption
<1>5. balances' = [balances EXCEPT ![u][t].available = Available(u, t) + a]
  BY <1>4 DEF Deposit
<1>6. Available(u, t) + a \in Amount
  BY <1>2, <1>3, SupplyAssumption DEF Amount
<1>7. balances' \in Ledger
  BY <1>1, <1>5, <1>6
<1>8. supply' \in [Tokens -> 0..MaxSupply]
  BY <1>1, <1>2, SupplyAssumption
<1>9. \A v \in Users, s \in Tokens :
        ~(s = t /\ v = u) => balances'[v][s] = balances[v][s]
  BY <1>1, <1>5
<1>10. Equity(balances', u, t) = Equity(balances, u, t) + a
  BY <1>1, <1>3, <1>5 DEF Equity, Available, Held
<1>11. \A s \in Tokens :
         supply'[s] = IF s = t THEN supply[s] + a ELSE supply[s]
  BY <1>1, <1>2
<1> HIDE DEF Ledger, TokenBalance
<1>12. Conserved'
  BY <1>7, <1>9, <1>10, <1>11, ConservedByCredit
<1> QED
  BY <1>7, <1>8, <1>12 DEF BalanceInv, BalanceTypeOK

\* Manager.Withdraw.
LEMMA WithdrawInv ==
  ASSUME BalanceInv, NEW u \in Users, NEW t \in Tokens, NEW a \in Nat,
         Withdraw(u, t, a)
  PROVE  BalanceInv'
<1> USE DEF Ledger, TokenBalance
<1>1. /\ balances \in Ledger
      /\ supply \in [Tokens -> 0..MaxSupply]
  BY DEF BalanceInv, BalanceTypeOK
<1>2. /\ a <= Available(u, t)
      /\ supply' = [supply EXCEPT ![t] = @ - a]
      /\ balances' = [balances EXCEPT ![u][t].available = Available(u, t) - a]
  BY DEF Withdraw, CanWithdraw
<1>3. /\ Available(u, t) \in Amount /\ Held(u, t) \in Amount
      /\ Available(u, t) + Held(u, t) <= supply[t]
  BY <1>1, EquityBound DEF BalanceInv, Equity, Available, Held
<1>4. Available(u, t) - a \in Amount
  BY <1>2, <1>3, SupplyAssumption DEF Amount
<1>5. balances' \in Ledger
  <2>1. balances' = [balances EXCEPT ![u][t].available = Available(u, t) - a]
    BY <1>2
  <2> QED
    BY <1>1, <1>4, <2>1
<1>6. supply[t] - a \in 0..MaxSupply
  BY <1>1, <1>2, <1>3, SupplyAssumption DEF Amount
<1>7. supply' \in [Tokens -> 0..MaxSupply]
  BY <1>1, <1>2, <1>6
<1>8. \A v \in Users, s \in Tokens :
        ~(s = t /\ v = u) => balances'[v][s] = balances[v][s]
  BY <1>1, <1>2
<1> DEFINE d == -a
<1>9. d \in Int /\ Equity(balances', u, t) = Equity(balances, u, t) + d
  BY <1>1, <1>2, <1>3 DEF Equity, Available, Held, Amount
<1>10. \A s \in Tokens :
         supply'[s] = IF s = t THEN supply[s] + d ELSE supply[s]
  BY <1>1, <1>2
<1> HIDE DEF Ledger, TokenBalance, d
<1>11. Conserved'
  BY <1>5, <1>8, <1>9, <1>10, ConservedByCredit
<1> QED
  BY <1>5, <1>7, <1>11 DEF BalanceInv, BalanceTypeOK

\* Manager.Hold.
LEMMA HoldInv ==
  ASSUME BalanceInv, NEW u \in Users, NEW t \in Tokens, NEW a \in Nat,
         Hold(u, t, a)
  PROVE  BalanceInv'
<1> USE DEF Ledger, TokenBalance
<1>1. /\ balances \in Ledger
      /\ supply \in [Tokens -> 0..MaxSupply]
      /\ supply' = supply
  BY DEF BalanceInv, BalanceTypeOK, Hold
<1>2. /\ Available(u, t) \in Nat /\ Held(u, t) \in Nat
      /\ Available(u, t) + Held(u, t) < Word
      /\ a <= Available(u, t)
  BY <1>1, EquityBound, SupplyAssumption
     DEF BalanceInv, Equity, Available, Held, Amount, Hold, CanHold
<1>3. (Held(u, t) + a) % Word = Held(u, t) + a
  BY <1>2, FitsWord, SupplyAssumption
<1>4. balances' = [balances EXCEPT ![u][t] =
                     [available |-> Available(u, t) - a,
                      held      |-> Held(u, t) + a]]
  BY <1>3 DEF Hold
<1>5. Available(u, t) - a \in Amount /\ Held(u, t) + a \in Amount
  BY <1>2, SupplyAssumption DEF Amount
<1>6. balances' \in Ledger
  BY <1>1, <1>4, <1>5
<1>7. \A v \in Users, s \in Tokens :
        ~(s = t /\ v \in {u, u}) => balances'[v][s] = balances[v][s]
  BY <1>1, <1>4
<1>8. Equity(balances', u, t) = Equity(balances, u, t)
  BY <1>1, <1>2, <1>4 DEF Equity, Available, Held
<1> HIDE DEF Ledger, TokenBalance
<1>9. Conserved'
  BY <1>1, <1>6, <1>7, <1>8, ConservedByMove
<1> QED
  BY <1>1, <1>6, <1>9 DEF BalanceInv, BalanceTypeOK

\* Manager.Release.
LEMMA ReleaseInv ==
  ASSUME BalanceInv, NEW u \in Users, NEW t \in Tokens, NEW a \in Nat,
         Release(u, t, a)
  PROVE  BalanceInv'
<1> USE DEF Ledger, TokenBalance
<1>1. /\ balances \in Ledger
      /\ supply \in [Tokens -> 0..MaxSupply]
      /\ supply' = supply
  BY DEF BalanceInv, BalanceTypeOK, Release
<1>2. /\ Available(u, t) \in Nat /\ Held(u, t) \in Nat
      /\ Available(u, t) + Held(u, t) < Word
      /\ a <= Held(u, t)
  BY <1>1, EquityBound, SupplyAssumption
     DEF BalanceInv, Equity, Available, Held, Amount, Release, CanRelease
<1>3. (Available(u, t) + a) % Word = Available(u, t) + a
  <2>1. Available(u, t) + a \in Nat /\ Available(u, t) + a < Word
    BY <1>2, SupplyAssumption
  <2> QED
    BY <2>1, FitsWord
<1>4. balances' = [balances EXCEPT ![u][t] =
                     [available |-> Available(u, t) + a,
                      held      |-> Held(u, t) - a]]
  BY <1>3 DEF Release
<1>5. Available(u, t) + a \in Amount /\ Held(u, t) - a \in Amount
  BY <1>2, SupplyAssumption DEF Amount
<1>6. balances' \in Ledger
  BY <1>1, <1>4, <1>5
<1>7. \A v \in Users, s \in Tokens :
        ~(s = t /\ v \in {u, u}) => balances'[v][s] = balances[v][s]
  BY <1>1, <1>4
<1>8. Equity(balances', u, t) = Equity(balances, u, t)
  BY <1>1, <1>2, <1>4 DEF Equity, Available, Held
<1> HIDE DEF Ledger, TokenBalance
<1>9. Conserved'
  BY <1>1, <1>6, <1>7, <1>8, ConservedByMove
<1> QED
  BY <1>1, <1>6, <1>9 DEF BalanceInv, BalanceTypeOK

\* Two users together have no more than the custody of the token.
LEMMA TwoEquitiesBound ==
  ASSUME BalanceInv, NEW u \in Users, NEW w \in Users, u # w, NEW t \in Tokens
  PROVE  Equity(balances, u, t) + Equity(balances, w, t) < Word
<1> DEFINE f == EquityTable(balances, t)
           g == [f EXCEPT ![u] = 0, ![w] = f[u] + f[w]]
<1>1. f \in [Users -> Nat]
  BY EquityBound DEF BalanceInv, BalanceTypeOK
<1>2. g \in [Users -> Nat]
  BY <1>1
<1>3. /\ g[u] = f[u] - f[u] /\ g[w] = f[w] + f[u]
      /\ \A v \in Users \ {u, w} : g[v] = f[v]
  BY <1>1
<1>4. f[u] = Equity(balances, u, t) /\ f[w] = Equity(balances, w, t)
  BY DEF EquityTable
<1>5. Total(f) = supply[t] /\ supply[t] \in 0..MaxSupply
  BY DEF BalanceInv, BalanceTypeOK, Conserved, InCustody
<1>6. f[u] \in Nat /\ f[w] \in Nat
  BY <1>1
<1> HIDE DEF f, g
<1>7. Total(g) = Total(f)
  BY <1>1, <1>2, <1>3, <1>6, UsersAssumption, TotalMove
<1>8. g[w] <= Total(g)
  BY <1>2, UsersAssumption, EntryWithinTotal
<1> QED
  BY <1>3, <1>4, <1>5, <1>6, <1>7, <1>8, SupplyAssumption

\* Manager.Transfer, to another user or to the same one.
LEMMA TransferInv ==
  ASSUME BalanceInv, NEW u \in Users, NEW w \in Users, NEW t \in Tokens,
         NEW a \in Nat, Transfer(u, w, t, a)
  PROVE  BalanceInv'
<1> USE DEF Ledger, TokenBalance
<1>1. /\ balances \in Ledger
      /\ supply \in [Tokens -> 0..MaxSupply]
      /\ supply' = supply
  BY DEF BalanceInv, BalanceTypeOK, Transfer
<1>2. /\ Available(u, t) \in Nat /\ Held(u, t) \in Nat
      /\ Available(w, t) \in Nat /\ Held(w, t) \in Nat
      /\ Available(u, t) + Held(u, t) < Word
      /\ a <= Held(u, t)
  BY <1>1, EquityBound, SupplyAssumption
     DEF BalanceInv, Equity, Available, Held, Amount, Transfer, CanTransfer
<1>3. Available(w, t) + a < Word
  <2>1. CASE u = w
    <3>1. Available(u, t) + a < Word
      BY <1>2, SupplyAssumption
    <3> QED
      BY <2>1, <3>1
  <2>2. CASE u # w
    <3>1. Equity(balances, u, t) + Equity(balances, w, t) < Word
      BY <2>2, TwoEquitiesBound
    <3> QED
      BY <1>2, <3>1, SupplyAssumption DEF Equity, Available, Held
  <2> QED
    BY <2>1, <2>2
<1>4. (Available(w, t) + a) % Word = Available(w, t) + a
  BY <1>2, <1>3, FitsWord, SupplyAssumption
<1>5. Available(w, t) + a \in Amount /\ Held(u, t) - a \in Amount
  BY <1>2, <1>3, SupplyAssumption DEF Amount
<1>6. CASE u # w
  <2>1. balances' = [balances EXCEPT ![u][t].held = Held(u, t) - a,
                                     ![w][t].available = Available(w, t) + a]
    BY <1>4 DEF Transfer
  <2>2. balances' \in Ledger
    <3>1. /\ balances'[u][t] = [available |-> Available(u, t),
                                held |-> Held(u, t) - a]
          /\ balances'[w][t] = [available |-> Available(w, t) + a,
                                held |-> Held(w, t)]
      <4>1. u \in Users /\ w \in Users /\ t \in Tokens /\ u # w
        BY <1>6
      <4>2. /\ balances[u][t] \in [available : Amount, held : Amount]
            /\ balances[w][t] \in [available : Amount, held : Amount]
            /\ balances \in [Users -> [Tokens -> [available : Amount, held : Amount]]]
        BY <1>1, <4>1 DEF Ledger, TokenBalance
      <4>3. /\ balances'[u][t] = [balances[u][t] EXCEPT !.held = Held(u, t) - a]
            /\ balances'[w][t] = [balances[w][t] EXCEPT !.available = Available(w, t) + a]
        BY <2>1, <4>1, <4>2
      <4> QED
        BY <4>2, <4>3 DEF Available, Held
    <3>2. /\ Available(u, t) \in Amount
          /\ Held(w, t) \in Amount
      BY <1>1 DEF Available, Held
    <3>3. \A v \in Users, s \in Tokens :
            ~(s = t /\ v \in {u, w}) => balances'[v][s] = balances[v][s]
      BY <1>1, <2>1
    <3>4. /\ balances'[u][t] \in TokenBalance
          /\ balances'[w][t] \in TokenBalance
      <4>1. balances'[u][t] \in TokenBalance
        BY <1>5, <3>1, <3>2
      <4>2. balances'[w][t] \in TokenBalance
        BY <1>5, <3>1, <3>2
      <4> QED
        BY <4>1, <4>2
    <3>5. \A v \in Users, s \in Tokens : balances'[v][s] \in TokenBalance
      <4>1. \A v \in Users, s \in Tokens : balances[v][s] \in TokenBalance
        BY <1>1
      <4> HIDE DEF TokenBalance, Ledger
      <4> QED
        BY <3>3, <3>4, <4>1
    <3>6. balances' = [v \in Users |-> [s \in Tokens |-> balances'[v][s]]]
      BY <1>1, <2>1
    <3> QED
      BY <3>5, <3>6
  <2>3. \A v \in Users, s \in Tokens :
          ~(s = t /\ v \in {u, w}) => balances'[v][s] = balances[v][s]
    BY <1>1, <2>1
  <2>4. /\ Equity(balances', u, t) = Equity(balances, u, t) - a
        /\ Equity(balances', w, t) = Equity(balances, w, t) + a
    BY <1>1, <1>2, <1>6, <2>1 DEF Equity, Available, Held
  <2> HIDE DEF Ledger, TokenBalance
  <2>5. Conserved'
    BY <1>1, <1>6, <2>2, <2>3, <2>4, ConservedByMove
  <2> QED
    BY <1>1, <2>2, <2>5 DEF BalanceInv, BalanceTypeOK
<1>7. CASE u = w
  <2>1. balances' = [balances EXCEPT ![u][t].held = Held(u, t) - a,
                                     ![u][t].available = Available(u, t) + a]
    BY <1>4, <1>7 DEF Transfer
  <2>2. balances' \in Ledger
    <3>1. \A v \in Users, s \in Tokens : balances'[v][s] \in TokenBalance
      BY <1>1, <1>5, <1>7, <2>1 DEF Available, Held
    <3>2. balances' = [v \in Users |-> [s \in Tokens |-> balances'[v][s]]]
      BY <1>1, <2>1
    <3> QED
      BY <3>1, <3>2
  <2>3. \A v \in Users, s \in Tokens :
          ~(s = t /\ v \in {u, w}) => balances'[v][s] = balances[v][s]
    BY <1>1, <2>1
  <2>4. Equity(balances', u, t) = Equity(balances, u, t)
    BY <1>1, <1>2, <2>1 DEF Equity, Available, Held
  <2> HIDE DEF Ledger, TokenBalance
  <2>5. Conserved'
    BY <1>1, <1>7, <2>2, <2>3, <2>4, ConservedByMove
  <2> QED
    BY <1>1, <2>2, <2>5 DEF BalanceInv, BalanceTypeOK
<1> QED
  BY <1>6, <1>7

\* The empty ledger.
LEMMA EmptyLedgerFacts ==
  /\ EmptyLedger \in Ledger
  /\ \A t \in Tokens : InCustody(EmptyLedger, t) = 0
<1>1. EmptyLedger \in Ledger
  BY SupplyAssumption DEF EmptyLedger, Nothing, Ledger, TokenBalance, Amount
<1>2. ASSUME NEW t \in Tokens
      PROVE  InCustody(EmptyLedger, t) = 0
  <2>1. \A u \in Users : EquityTable(EmptyLedger, t)[u] = 0
    BY DEF EquityTable, Equity, EmptyLedger, Nothing
  <2>2. EquityTable(EmptyLedger, t) \in [Users -> Nat]
    BY DEF EquityTable, Equity, EmptyLedger, Nothing
  <2> QED
    BY <2>1, <2>2, TotalZero DEF InCustody
<1> QED
  BY <1>1, <1>2

=============================================================================
