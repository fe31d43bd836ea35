------------------------------ MODULE Balance ------------------------------
(***************************************************************************)
(* The balance manager: what each user has of each token, split in the     *)
(* part that is free (available) and the part locked by open orders        *)
(* (held).                                                                 *)
(*                                                                         *)
(* Every method of the manager takes the manager's mutex for its whole     *)
(* body, so each is one action.  A method that returns an error changes no *)
(* amount: its refusals are the negation of its guard.  A missing map      *)
(* entry reads as zero, so the map is a total function here; which users   *)
(* have an entry is the business of module BalanceStore.                   *)
(*                                                                         *)
(* Amounts are uint64: additions wrap at Word = 2^64.                      *)
(***************************************************************************)
EXTENDS UnitSum, Integers

CONSTANTS
  Users,      (* Addresses that may have a balance.                        *)
  Tokens,     (* Token contracts.                                          *)
  Word,       (* The number of values of an amount.                        *)
  MaxSupply   (* Units of one token that can be in custody.                *)

ASSUME UsersAssumption == IsFiniteSet(Users)

\* What is in custody of a token fits the width of an amount: the bound the
\* on-chain supply of the token must respect for the ledger to be exact.
ASSUME SupplyAssumption ==
  /\ Word \in Nat \ {0}
  /\ MaxSupply \in Nat
  /\ MaxSupply < Word

VARIABLES
  balances,   (* User -> token -> available and held amounts.              *)
  supply      (* History: units of each token credited less debited.       *)

balanceVars == <<balances, supply>>

Amount == 0..(Word - 1)
TokenBalance == [available : Amount, held : Amount]
Ledger == [Users -> [Tokens -> TokenBalance]]

Nothing == [available |-> 0, held |-> 0]
EmptyLedger == [u \in Users |-> [t \in Tokens |-> Nothing]]

Available(u, t) == balances[u][t].available
Held(u, t) == balances[u][t].held

\* All a user has of a token in ledger b, and all that exists of it in b.
Equity(b, u, t) == b[u][t].available + b[u][t].held
EquityTable(b, t) == [u \in Users |-> Equity(b, u, t)]
InCustody(b, t) == Total(EquityTable(b, t))

-----------------------------------------------------------------------------

CanDeposit(t, a) == a > 0 /\ supply[t] + a <= MaxSupply

Deposit(u, t, a) ==
  /\ CanDeposit(t, a)
  /\ balances' = [balances EXCEPT ![u][t].available = (Available(u, t) + a) % Word]
  /\ supply' = [supply EXCEPT ![t] = @ + a]

CanWithdraw(u, t, a) == a > 0 /\ Available(u, t) >= a

Withdraw(u, t, a) ==
  /\ CanWithdraw(u, t, a)
  /\ balances' = [balances EXCEPT ![u][t].available = Available(u, t) - a]
  /\ supply' = [supply EXCEPT ![t] = @ - a]

CanHold(u, t, a) == a > 0 /\ Available(u, t) >= a

Hold(u, t, a) ==
  /\ CanHold(u, t, a)
  /\ balances' = [balances EXCEPT ![u][t] =
                    [available |-> Available(u, t) - a,
                     held      |-> (Held(u, t) + a) % Word]]
  /\ UNCHANGED supply

\* Mutant of CanRelease: the balance is not looked at.
CanReleaseUnchecked(u, t, a) == a > 0

CanRelease(u, t, a) == a > 0 /\ Held(u, t) >= a

Release(u, t, a) ==
  /\ CanRelease(u, t, a)
  /\ balances' = [balances EXCEPT ![u][t] =
                    [available |-> (Available(u, t) + a) % Word,
                     held      |-> Held(u, t) - a]]
  /\ UNCHANGED supply

\* Mutant of CanTransfer: the sender's held amount is not looked at.
CanTransferUnchecked(from, t, a) == a > 0

CanTransfer(from, t, a) == a > 0 /\ Held(from, t) >= a

\* Mutant of Transfer: the receiver's whole entry is written from a copy read
\* before the sender was debited, so a transfer to oneself debits nothing.
TransferFromCopy(from, to, t, a) ==
  /\ CanTransfer(from, t, a)
  /\ balances' = [balances EXCEPT
                    ![from][t].held = Held(from, t) - a,
                    ![to][t] = [available |-> (Available(to, t) + a) % Word,
                                held      |-> Held(to, t)]]
  /\ UNCHANGED supply

\* from and to may be the same user: then both parts of one entry change.
Transfer(from, to, t, a) ==
  /\ CanTransfer(from, t, a)
  /\ balances' = [balances EXCEPT
                    ![from][t].held = Held(from, t) - a,
                    ![to][t].available = (Available(to, t) + a) % Word]
  /\ UNCHANGED supply

\* A call whose error the caller drops: it takes effect or nothing happens.
TryRelease(u, t, a) ==
  \/ Release(u, t, a)
  \/ ~CanRelease(u, t, a) /\ UNCHANGED balanceVars

TryTransfer(from, to, t, a) ==
  \/ Transfer(from, to, t, a)
  \/ ~CanTransfer(from, t, a) /\ UNCHANGED balanceVars

\* Mutant of Migrated: what was held is not given back.
MigratedWithoutHeld(b) == [available |-> b.available, held |-> 0]

\* load() of one entry: after a restart there are no orders, so nothing is held.
Migrated(b) == [available |-> (b.available + b.held) % Word, held |-> 0]

-----------------------------------------------------------------------------

BalanceTypeOK ==
  /\ balances \in Ledger
  /\ supply \in [Tokens -> 0..MaxSupply]

\* Value conservation, Manager.Deposit ... Transfer: what all users have of a
\* token, free or held, is what was credited less what was debited; no
\* sequence of holds, releases and transfers, refused ones and transfers to
\* oneself included, makes or loses a unit.
Conserved == \A t \in Tokens : InCustody(balances, t) = supply[t]

=============================================================================
