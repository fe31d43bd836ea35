---------------------------- MODULE BalanceStore ----------------------------
(***************************************************************************)
(* The balance manager with its snapshot on disk.                          *)
(*                                                                         *)
(* The snapshot is optional: without a path, which is the default, nothing *)
(* is written or loaded and a restart begins with an empty ledger.  With   *)
(* one, a successful mutation ends by writing the whole ledger to a        *)
(* temporary file that is renamed over the snapshot, still under the       *)
(* mutex: the snapshot is replaced whole or not at all.  The error of that *)
(* write is dropped, and the mutation stays in memory and is reported as   *)
(* done.  A restart loads the snapshot into an empty manager and turns     *)
(* every held amount back into an available one, for the orders are gone;  *)
(* it writes nothing back.  When the load fails the manager runs on empty, *)
(* with the path still set.                                                *)
(***************************************************************************)
EXTENDS Balance

VARIABLES
  known,        (* Users with an entry in the map.                         *)
  persistPath,  (* Is there a path to write the snapshot to?               *)
  disk,         (* The snapshot: the map entries of the users it lists.    *)
  dirty         (* History: the snapshot is not of this ledger, for its    *)
                (* last write, or the load at the last start, failed.      *)

storeVars == <<balances, supply, known, persistPath, disk, dirty>>

Init ==
  /\ balances = EmptyLedger
  /\ supply = [t \in Tokens |-> 0]
  /\ known = {}
  /\ persistPath \in BOOLEAN
  /\ disk = [known |-> {}, balances |-> EmptyLedger]
  /\ dirty = FALSE

\* Mutant of Save: the snapshot is taken before the mutation.
SaveBefore ==
  /\ UNCHANGED persistPath
  /\ \/ /\ persistPath
        /\ disk' = [known |-> known, balances |-> balances]
        /\ dirty' = FALSE
     \/ /\ UNCHANGED disk
        /\ dirty' = persistPath

\* save(): the snapshot now on disk is the ledger just reached, or the old one
\* when there is no path or the write fails.
Save ==
  /\ UNCHANGED persistPath
  /\ \/ /\ persistPath
        /\ disk' = [known |-> known', balances |-> balances']
        /\ dirty' = FALSE
     \/ /\ UNCHANGED disk
        /\ dirty' = persistPath

Mutation(u, t, a) ==
  \/ known' = known \cup {u} /\ Deposit(u, t, a)
  \/ known' = known \cup {u} /\ Withdraw(u, t, a)
  \/ known' = known \cup {u} /\ Hold(u, t, a)
  \/ known' = known \cup {u} /\ Release(u, t, a)
  \/ \E to \in Users : known' = known \cup {u, to} /\ Transfer(u, to, t, a)

Mutate(u, t, a) == Mutation(u, t, a) /\ Save

\* A refused call still goes through getOrCreate: the user has an entry of
\* zeros from then on, in memory only.
Refuse(u, t, a) ==
  /\ a > 0
  /\ ~CanWithdraw(u, t, a) \/ ~CanRelease(u, t, a)
  /\ known' = known \cup {u}
  /\ UNCHANGED <<balances, supply, persistPath, disk, dirty>>

\* Mutant of Empty: what is held is not looked at.
EmptyOfAvailable(u) == \A t \in Tokens : Available(u, t) = 0

Empty(u) ==
  \A t \in Tokens : Available(u, t) = 0 /\ Held(u, t) = 0

\* EvictEmpty: the map entries of users with nothing are deleted; the
\* snapshot is written only if some were.
EvictEmpty ==
  LET removed == {u \in known : Empty(u)}
  IN  /\ removed # {}
      /\ known' = known \ removed
      /\ balances' = [u \in Users |-> IF u \in removed THEN EmptyLedger[u]
                                                       ELSE balances[u]]
      /\ UNCHANGED supply
      /\ Save

\* The process dies and comes back with its snapshot: SetPersistPath loads it.
\* When it was behind, credits and debits are forgotten and the history of them
\* starts over from the ledger that was loaded.
Reload ==
  /\ persistPath
  /\ known' = disk.known
  /\ balances' = [u \in Users |-> [t \in Tokens |->
                    IF u \in disk.known THEN Migrated(disk.balances[u][t])
                                        ELSE Nothing]]
  /\ supply' = [t \in Tokens |-> IF dirty THEN InCustody(balances', t)
                                          ELSE supply[t]]
  /\ UNCHANGED <<persistPath, disk, dirty>>

\* It comes back with nothing: there is no path, or the snapshot cannot be read
\* or decoded, which is only logged.
StartEmpty ==
  /\ known' = {}
  /\ balances' = EmptyLedger
  /\ supply' = [t \in Tokens |-> 0]
  /\ dirty' = persistPath
  /\ UNCHANGED <<persistPath, disk>>

Next ==
  \/ \E u \in Users, t \in Tokens, a \in 1..MaxSupply : Mutate(u, t, a)
  \/ \E u \in Users, t \in Tokens, a \in 1..MaxSupply : Refuse(u, t, a)
  \/ EvictEmpty
  \/ Reload
  \/ StartEmpty

Spec == Init /\ [][Next]_storeVars

-----------------------------------------------------------------------------

TypeOK ==
  /\ BalanceTypeOK
  /\ known \in SUBSET Users
  /\ persistPath \in BOOLEAN
  /\ disk \in [known : SUBSET Users, balances : Ledger]
  /\ dirty \in BOOLEAN

\* Manager.EvictEmpty and Get: a user without a map entry, in memory or in
\* the snapshot, has nothing, so that a missing entry may be read as zero and
\* dropping entries never drops money.
AbsentHasNothing ==
  /\ \A u \in Users \ known : balances[u] = EmptyLedger[u]
  /\ \A u \in Users \ disk.known : disk.balances[u] = EmptyLedger[u]

\* Manager.save under the mutex: with a path configured, once the last write
\* succeeded, the snapshot gives every user what memory gives it, the split in
\* held aside.
DiskCurrent ==
  persistPath /\ ~dirty =>
    \A u \in Users, t \in Tokens :
      Equity(disk.balances, u, t) = Equity(balances, u, t)

\* Manager.load: with a path configured, a restart that reads its snapshot back
\* after a last write that succeeded leaves every user with all it had, and
\* nothing of it locked.  Without a path, which is the default, a restart leaves
\* nobody anything (StartEmpty).
RestartKeepsEquity ==
  [][Reload /\ ~dirty =>
       \A u \in Users, t \in Tokens :
         /\ balances'[u][t].held = 0
         /\ balances'[u][t].available = Equity(balances, u, t)]_storeVars

\* What the comment on Manager says: with a path configured every successful
\* mutation is on disk, so a restart reloads the live state.
RestartReloadsLiveState ==
  [][Reload => \A u \in Users, t \in Tokens :
                 Equity(balances', u, t) = Equity(balances, u, t)]_storeVars

=============================================================================
