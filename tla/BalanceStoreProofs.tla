------------------------ MODULE BalanceStoreProofs ------------------------
(***************************************************************************)
(* The balance manager conserves value through any sequence of operations, *)
(* refusals, evictions, failed writes and restarts, with a snapshot or     *)
(* without, and its snapshot, when a path for it is configured, is as good *)
(* as memory whenever the last write succeeded.                            *)
(***************************************************************************)
EXTENDS BalanceStore, BalanceProofs

\* The snapshot was once the ledger, so its custody was within bounds.
DiskBounded ==
  \A t \in Tokens : InCustody(disk.balances, t) \in 0..MaxSupply

\* The inductive invariant.  Conservation alone is not inductive: a restart
\* installs the snapshot, so it needs what the snapshot is worth (DiskCurrent),
\* that loading it does not wrap (DiskBounded), and that a user the snapshot
\* does not list had nothing in it (AbsentHasNothing).
IInv ==
  /\ TypeOK
  /\ Conserved
  /\ AbsentHasNothing
  /\ DiskCurrent
  /\ DiskBounded

\* The type of a snapshot.
LEMMA SnapshotType ==
  ASSUME NEW k \in SUBSET Users, NEW b \in Ledger
  PROVE  [known |-> k, balances |-> b] \in [known : SUBSET Users, balances : Ledger]
OBVIOUS

\* The initial state.
LEMMA InitInv == Init => IInv
<1> SUFFICES ASSUME Init PROVE IInv
  OBVIOUS
<1>1. TypeOK
  <2>1. disk \in [known : SUBSET Users, balances : Ledger]
    BY EmptyLedgerFacts, SnapshotType DEF Init
  <2>2. supply \in [Tokens -> 0..MaxSupply]
    BY SupplyAssumption DEF Init
  <2> QED
    BY <2>1, <2>2, EmptyLedgerFacts DEF Init, TypeOK, BalanceTypeOK
<1>2. Conserved /\ DiskBounded
  BY EmptyLedgerFacts, SupplyAssumption DEF Init, Conserved, DiskBounded
<1>3. AbsentHasNothing /\ DiskCurrent
  BY DEF Init, AbsentHasNothing, DiskCurrent
<1> QED
  BY <1>1, <1>2, <1>3 DEF IInv

\* A mutation changes the entries of known users only, and keeps the ledger
\* well typed and conserved.
LEMMA MutationInv ==
  ASSUME IInv, NEW u \in Users, NEW t \in Tokens, NEW a \in 1..MaxSupply,
         Mutation(u, t, a)
  PROVE  /\ BalanceInv'
         /\ known' \in SUBSET Users
         /\ known \subseteq known'
         /\ \A v \in Users \ known' : balances'[v] = balances[v]
<1> USE DEF IInv, TypeOK
<1>1. BalanceInv /\ a \in Nat /\ balances \in Ledger /\ known \in SUBSET Users
  BY SupplyAssumption DEF BalanceInv, BalanceTypeOK
<1>2. CASE known' = known \cup {u} /\ Deposit(u, t, a)
  <2>1. BalanceInv'
    BY <1>1, <1>2, DepositInv
  <2>2. \A v \in Users \ known' : balances'[v] = balances[v]
    BY <1>1, <1>2 DEF Deposit, Ledger
  <2> QED
    BY <1>1, <1>2, <2>1, <2>2
<1>3. CASE known' = known \cup {u} /\ Withdraw(u, t, a)
  <2>1. BalanceInv'
    BY <1>1, <1>3, WithdrawInv
  <2>2. \A v \in Users \ known' : balances'[v] = balances[v]
    BY <1>1, <1>3 DEF Withdraw, Ledger
  <2> QED
    BY <1>1, <1>3, <2>1, <2>2
<1>4. CASE known' = known \cup {u} /\ Hold(u, t, a)
  <2>1. BalanceInv'
    BY <1>1, <1>4, HoldInv
  <2>2. \A v \in Users \ known' : balances'[v] = balances[v]
    BY <1>1, <1>4 DEF Hold, Ledger
  <2> QED
    BY <1>1, <1>4, <2>1, <2>2
<1>5. CASE known' = known \cup {u} /\ Release(u, t, a)
  <2>1. BalanceInv'
    BY <1>1, <1>5, ReleaseInv
  <2>2. \A v \in Users \ known' : balances'[v] = balances[v]
    BY <1>1, <1>5 DEF Release, Ledger
  <2> QED
    BY <1>1, <1>5, <2>1, <2>2
<1>6. CASE \E to \in Users :
             known' = known \cup {u, to} /\ Transfer(u, to, t, a)
  <2>1. PICK to \in Users :
               known' = known \cup {u, to} /\ Transfer(u, to, t, a)
    BY <1>6
  <2>2. BalanceInv'
    BY <1>1, <2>1, TransferInv
  <2>3. \A v \in Users \ known' : balances'[v] = balances[v]
    BY <1>1, <2>1 DEF Transfer, Ledger
  <2> QED
    BY <1>1, <2>1, <2>2, <2>3
<1> QED
  BY <1>2, <1>3, <1>4, <1>5, <1>6 DEF Mutation

\* Whatever the write of the snapshot does, it leaves the invariants of the
\* snapshot true if the ledger it writes satisfies its own.
LEMMA SaveInv ==
  ASSUME IInv, BalanceInv', known' \in SUBSET Users, Save,
         \A v \in Users \ known' : balances'[v] = EmptyLedger[v]
  PROVE  IInv'
<1>1. TypeOK'
  <2>1. balances' \in Ledger /\ supply' \in [Tokens -> 0..MaxSupply]
    BY DEF BalanceInv, BalanceTypeOK
  <2>2. disk' \in [known : SUBSET Users, balances : Ledger]
    BY <2>1, SnapshotType DEF Save, IInv, TypeOK
  <2>3. dirty' \in BOOLEAN /\ persistPath' \in BOOLEAN
    BY DEF Save, IInv, TypeOK
  <2> QED
    BY <2>1, <2>2, <2>3 DEF TypeOK, BalanceTypeOK
<1>2. Conserved'
  BY DEF BalanceInv
<1>3. DiskCurrent'
  <2>1. CASE persistPath /\ disk' = [known |-> known', balances |-> balances']
    BY <2>1 DEF DiskCurrent
  <2>2. CASE persistPath' = persistPath /\ dirty' = persistPath
    BY <2>2 DEF DiskCurrent
  <2> QED
    BY <2>1, <2>2 DEF Save
<1>4. DiskBounded'
  <2>1. CASE UNCHANGED disk
    BY <2>1 DEF IInv, DiskBounded
  <2>2. CASE disk' = [known |-> known', balances |-> balances']
    <3>1. \A t \in Tokens : InCustody(balances', t) = supply'[t]
      BY DEF BalanceInv, Conserved
    <3>2. \A t \in Tokens : supply'[t] \in 0..MaxSupply
      BY DEF BalanceInv, BalanceTypeOK
    <3> QED
      BY <2>2, <3>1, <3>2 DEF DiskBounded
  <2> QED
    BY <2>1, <2>2 DEF Save
<1>5. AbsentHasNothing'
  <2>1. \A u \in Users \ disk'.known : disk'.balances[u] = EmptyLedger[u]
    BY DEF IInv, AbsentHasNothing, Save
  <2> QED
    BY <2>1 DEF AbsentHasNothing, EmptyLedger, Nothing
<1> QED
  BY <1>1, <1>2, <1>3, <1>4, <1>5 DEF IInv

\* A change and its write to disk.
LEMMA MutateInv ==
  ASSUME IInv, NEW u \in Users, NEW t \in Tokens, NEW a \in 1..MaxSupply,
         Mutate(u, t, a)
  PROVE  IInv'
<1>1. /\ BalanceInv'
      /\ known' \in SUBSET Users
      /\ known \subseteq known'
      /\ \A v \in Users \ known' : balances'[v] = balances[v]
  BY MutationInv DEF Mutate
<1>2. \A v \in Users \ known' : balances'[v] = EmptyLedger[v]
  BY <1>1 DEF IInv, AbsentHasNothing
<1> QED
  BY <1>1, <1>2, SaveInv DEF Mutate

\* A change refused.
LEMMA RefuseInv ==
  ASSUME IInv, NEW u \in Users, NEW t \in Tokens, NEW a \in 1..MaxSupply,
         Refuse(u, t, a)
  PROVE  IInv'
<1>1. TypeOK'
  BY DEF IInv, TypeOK, BalanceTypeOK, Refuse
<1>2. Conserved' /\ DiskBounded' /\ DiskCurrent'
  BY DEF IInv, Conserved, DiskBounded, DiskCurrent, Refuse
<1>3. AbsentHasNothing'
  BY DEF IInv, AbsentHasNothing, EmptyLedger, Refuse
<1> QED
  BY <1>1, <1>2, <1>3 DEF IInv

\* An account that is dropped is empty.
LEMMA EvictEmptyInv ==
  ASSUME IInv, EvictEmpty
  PROVE  IInv'
<1> DEFINE removed == {u \in known : Empty(u)}
<1>1. /\ known' = known \ removed
      /\ balances' = [u \in Users |-> IF u \in removed THEN EmptyLedger[u]
                                                       ELSE balances[u]]
      /\ supply' = supply
      /\ Save
  BY DEF EvictEmpty
<1>2. balances \in Ledger /\ known \in SUBSET Users
  BY DEF IInv, TypeOK, BalanceTypeOK
<1>3. \A u \in removed : balances[u] = EmptyLedger[u]
  <2> SUFFICES ASSUME NEW u \in removed PROVE balances[u] = EmptyLedger[u]
    OBVIOUS
  <2>1. \A t \in Tokens : /\ balances[u][t] \in TokenBalance
                          /\ balances[u][t].available = 0
                          /\ balances[u][t].held = 0
    BY <1>2 DEF Empty, Available, Held, Ledger
  <2>2. \A t \in Tokens : balances[u][t] = Nothing
    BY <2>1 DEF TokenBalance, Nothing
  <2>3. balances[u] = [t \in Tokens |-> balances[u][t]]
    BY <1>2 DEF Ledger
  <2>4. EmptyLedger[u] = [t \in Tokens |-> Nothing]
    BY <1>2 DEF EmptyLedger
  <2> QED
    BY <2>2, <2>3, <2>4
<1>4. balances' = balances
  <2> HIDE DEF removed
  <2>1. balances = [u \in Users |-> balances[u]]
    BY <1>2 DEF Ledger
  <2>2. \A u \in Users : (IF u \in removed THEN EmptyLedger[u] ELSE balances[u])
                           = balances[u]
    BY <1>3
  <2> QED
    BY <1>1, <2>1, <2>2, Zenon
<1>5. BalanceInv'
  BY <1>1, <1>4 DEF IInv, TypeOK, BalanceInv, BalanceTypeOK, Conserved
<1>6. \A v \in Users \ known' : balances'[v] = EmptyLedger[v]
  BY <1>1, <1>3, <1>4 DEF IInv, AbsentHasNothing
<1>7. known' \in SUBSET Users
  BY <1>1, <1>2
<1> QED
  BY <1>1, <1>5, <1>6, <1>7, SaveInv

\* What a restart loads: every user has, available, all that the snapshot
\* gives it.
LEMMA ReloadLoads ==
  ASSUME IInv, Reload
  PROVE  /\ \A u \in Users, t \in Tokens :
              /\ Equity(disk.balances, u, t) \in Amount
              /\ balances'[u][t] = [available |-> Equity(disk.balances, u, t),
                                    held      |-> 0]
         /\ balances' = [u \in Users |-> [t \in Tokens |-> balances'[u][t]]]
<1>1. balances' = [u \in Users |-> [t \in Tokens |->
                     IF u \in disk.known THEN Migrated(disk.balances[u][t])
                                         ELSE Nothing]]
  BY DEF Reload
<1>2. disk.balances \in Ledger
  BY DEF IInv, TypeOK
<1>3. ASSUME NEW u \in Users, NEW t \in Tokens
      PROVE  /\ Equity(disk.balances, u, t) \in Nat
             /\ Equity(disk.balances, u, t) < Word
  <2> DEFINE f == EquityTable(disk.balances, t)
  <2>1. f \in [Users -> Nat]
    BY <1>2, SupplyAssumption DEF EquityTable, Equity, Ledger, TokenBalance, Amount
  <2>2. f[u] = Equity(disk.balances, u, t)
    BY DEF EquityTable
  <2>3. Total(f) \in 0..MaxSupply
    BY DEF IInv, DiskBounded, InCustody
  <2> HIDE DEF f
  <2>4. f[u] <= Total(f) /\ f[u] \in Nat
    BY <2>1, UsersAssumption, EntryWithinTotal
  <2> QED
    BY <2>2, <2>3, <2>4, SupplyAssumption
<1>4. ASSUME NEW u \in Users, NEW t \in Tokens
      PROVE  balances'[u][t] = [available |-> Equity(disk.balances, u, t),
                                held      |-> 0]
  <2>1. CASE u \in disk.known
    <3>1. balances'[u][t] = Migrated(disk.balances[u][t])
      BY <1>1, <2>1
    <3>2. Equity(disk.balances, u, t) % Word = Equity(disk.balances, u, t)
      BY <1>3, FitsWord
    <3> QED
      BY <3>1, <3>2 DEF Migrated, Equity
  <2>2. CASE u \notin disk.known
    <3>1. balances'[u][t] = Nothing
      BY <1>1, <2>2
    <3>2. disk.balances[u] = EmptyLedger[u]
      BY <2>2 DEF IInv, AbsentHasNothing
    <3>3. disk.balances[u][t] = Nothing
      BY <3>2 DEF EmptyLedger
    <3> QED
      BY <3>1, <3>3 DEF Equity, Nothing
  <2> QED
    BY <2>1, <2>2
<1>5. \A u \in Users, t \in Tokens : Equity(disk.balances, u, t) \in Amount
  BY <1>3, SupplyAssumption DEF Amount
<1>6. balances' = [u \in Users |-> [t \in Tokens |-> balances'[u][t]]]
  BY <1>1
<1> QED
  BY <1>4, <1>5, <1>6

\* A restart from what is on disk.
LEMMA ReloadInv ==
  ASSUME IInv, Reload
  PROVE  IInv'
<1>1. \A u \in Users, t \in Tokens :
        /\ Equity(disk.balances, u, t) \in Amount
        /\ balances'[u][t] = [available |-> Equity(disk.balances, u, t),
                              held      |-> 0]
  BY ReloadLoads
<1>2. balances' \in Ledger
  <2>1. \A u \in Users, t \in Tokens : balances'[u][t] \in TokenBalance
    <3>1. 0 \in Amount
      BY SupplyAssumption DEF Amount
    <3>2. \A x \in Amount : [available |-> x, held |-> 0] \in TokenBalance
      BY <3>1 DEF TokenBalance
    <3> QED
      BY <1>1, <3>2
  <2>2. balances' = [u \in Users |-> [t \in Tokens |-> balances'[u][t]]]
    BY ReloadLoads
  <2> QED
    BY <2>1, <2>2 DEF Ledger
<1>3. \A u \in Users, t \in Tokens :
        Equity(balances', u, t) = Equity(disk.balances, u, t)
  <2> SUFFICES ASSUME NEW u \in Users, NEW t \in Tokens
               PROVE  Equity(balances', u, t) = Equity(disk.balances, u, t)
    OBVIOUS
  <2> DEFINE x == Equity(disk.balances, u, t)
  <2>1. x \in Nat
    <3>1. x \in Amount
      BY <1>1
    <3> HIDE DEF x
    <3> QED
      BY <3>1, SupplyAssumption DEF Amount
  <2>2. balances'[u][t] = [available |-> x, held |-> 0]
    BY <1>1
  <2> HIDE DEF x
  <2>3. Equity(balances', u, t) = x
    BY <2>1, <2>2 DEF Equity
  <2> QED
    BY <2>3 DEF x
<1>4. \A t \in Tokens : InCustody(balances', t) = InCustody(disk.balances, t)
  <2> SUFFICES ASSUME NEW t \in Tokens
               PROVE  EquityTable(balances', t) = EquityTable(disk.balances, t)
    BY DEF InCustody
  <2> QED
    BY <1>3 DEF EquityTable
<1>5. \A t \in Tokens : persistPath /\ ~dirty => InCustody(disk.balances, t) = supply[t]
  <2> SUFFICES ASSUME NEW t \in Tokens, persistPath, ~dirty
               PROVE  InCustody(disk.balances, t) = supply[t]
    OBVIOUS
  <2>1. EquityTable(disk.balances, t) = EquityTable(balances, t)
    BY DEF IInv, DiskCurrent, EquityTable
  <2> QED
    BY <2>1 DEF IInv, Conserved, InCustody
<1>6. /\ supply' = [t \in Tokens |-> IF dirty THEN InCustody(balances', t)
                                              ELSE supply[t]]
      /\ disk' = disk /\ dirty' = dirty /\ known' = disk.known
      /\ persistPath /\ persistPath' = persistPath
  BY DEF Reload
<1>7. supply' \in [Tokens -> 0..MaxSupply]
  BY <1>4, <1>6 DEF IInv, DiskBounded, TypeOK, BalanceTypeOK
<1>8. TypeOK'
  BY <1>2, <1>6, <1>7 DEF IInv, TypeOK, BalanceTypeOK
<1>9. Conserved'
  BY <1>4, <1>5, <1>6 DEF Conserved
<1>10. DiskCurrent' /\ DiskBounded'
  BY <1>3, <1>6 DEF IInv, DiskCurrent, DiskBounded
<1>11. AbsentHasNothing'
  <2>1. \A u \in Users \ disk.known :
          balances'[u] = [t \in Tokens |-> Nothing]
    BY DEF Reload
  <2>2. \A u \in Users : EmptyLedger[u] = [t \in Tokens |-> Nothing]
    BY DEF EmptyLedger
  <2>3. EmptyLedger' = EmptyLedger
    BY DEF EmptyLedger, Nothing
  <2> QED
    BY <1>6, <2>1, <2>2, <2>3 DEF IInv, AbsentHasNothing
<1> QED
  BY <1>8, <1>9, <1>10, <1>11 DEF IInv

\* A restart with nothing: the ledger is empty and the snapshot, if there is
\* one, is not of it.
LEMMA StartEmptyInv ==
  ASSUME IInv, StartEmpty
  PROVE  IInv'
<1>1. /\ known' = {} /\ balances' = EmptyLedger /\ disk' = disk
      /\ supply' = [t \in Tokens |-> 0]
      /\ persistPath' = persistPath /\ dirty' = persistPath
  BY DEF StartEmpty
<1>2. TypeOK'
  <2>1. supply' \in [Tokens -> 0..MaxSupply]
    BY <1>1, SupplyAssumption
  <2> QED
    BY <1>1, <2>1, EmptyLedgerFacts DEF IInv, TypeOK, BalanceTypeOK
<1>3. Conserved'
  BY <1>1, EmptyLedgerFacts DEF Conserved
<1>4. DiskCurrent' /\ DiskBounded'
  BY <1>1 DEF IInv, DiskCurrent, DiskBounded
<1>5. AbsentHasNothing'
  <2>1. EmptyLedger' = EmptyLedger
    BY DEF EmptyLedger, Nothing
  <2> QED
    BY <1>1, <2>1 DEF IInv, AbsentHasNothing
<1> QED
  BY <1>2, <1>3, <1>4, <1>5 DEF IInv

\* Every step keeps the invariant.
LEMMA NextInv == IInv /\ [Next]_storeVars => IInv'
<1> SUFFICES ASSUME IInv, [Next]_storeVars PROVE IInv'
  OBVIOUS
<1>1. CASE \E u \in Users, t \in Tokens, a \in 1..MaxSupply : Mutate(u, t, a)
  BY <1>1, MutateInv
<1>2. CASE \E u \in Users, t \in Tokens, a \in 1..MaxSupply : Refuse(u, t, a)
  BY <1>2, RefuseInv
<1>3. CASE EvictEmpty
  BY <1>3, EvictEmptyInv
<1>4. CASE Reload
  BY <1>4, ReloadInv
<1>5. CASE StartEmpty
  BY <1>5, StartEmptyInv
<1>6. CASE UNCHANGED storeVars
  BY <1>6 DEF storeVars, IInv, TypeOK, BalanceTypeOK, Conserved,
              AbsentHasNothing, EmptyLedger, DiskCurrent, DiskBounded
<1> QED
  BY <1>1, <1>2, <1>3, <1>4, <1>5, <1>6 DEF Next

\* The inductive invariant holds in every reachable state.
LEMMA Invariance == Spec => []IInv
<1>1. Init => IInv
  BY InitInv
<1>2. IInv /\ [Next]_storeVars => IInv'
  BY NextInv
<1> QED
  BY <1>1, <1>2, PTL DEF Spec

-----------------------------------------------------------------------------

\* The manager and its snapshot are always well typed: in particular no
\* amount wraps, for any number of users and any supply below the word size.
THEOREM TypeCorrect == Spec => []TypeOK
<1>1. IInv => TypeOK
  BY DEF IInv
<1> QED
  BY <1>1, Invariance, PTL

\* Value conservation: what all users have of a token is what was credited
\* less what was debited (since the last restart that did not load a current
\* snapshot).
THEOREM Conservation == Spec => []Conserved
<1>1. IInv => Conserved
  BY DEF IInv
<1> QED
  BY <1>1, Invariance, PTL

\* Reading a missing entry as zero is right, and eviction never drops money.
THEOREM AbsenceIsZero == Spec => []AbsentHasNothing
<1>1. IInv => AbsentHasNothing
  BY DEF IInv
<1> QED
  BY <1>1, Invariance, PTL

\* The snapshot, where one is configured, is worth what memory is worth while
\* writes succeed.
THEOREM SnapshotIsCurrent == Spec => []DiskCurrent
<1>1. IInv => DiskCurrent
  BY DEF IInv
<1> QED
  BY <1>1, Invariance, PTL

\* A restart that loads its snapshot, after a last write that succeeded, costs
\* no user anything and unlocks everything.
THEOREM RestartIsLossless == Spec => RestartKeepsEquity
<1> DEFINE Keeps == Reload /\ ~dirty =>
                      \A u \in Users, t \in Tokens :
                        /\ balances'[u][t].held = 0
                        /\ balances'[u][t].available = Equity(balances, u, t)
<1>1. IInv => Keeps
  <2> SUFFICES ASSUME IInv, Reload, ~dirty, NEW u \in Users, NEW t \in Tokens
               PROVE  /\ balances'[u][t].held = 0
                      /\ balances'[u][t].available = Equity(balances, u, t)
    OBVIOUS
  <2>1. balances'[u][t] = [available |-> Equity(disk.balances, u, t), held |-> 0]
    BY ReloadLoads
  <2>2. Equity(disk.balances, u, t) = Equity(balances, u, t)
    BY DEF IInv, DiskCurrent, Reload
  <2> QED
    BY <2>1, <2>2
<1>2. Spec => [][Keeps]_storeVars
  BY <1>1, Invariance, PTL
<1> QED
  BY <1>2 DEF RestartKeepsEquity

=============================================================================
