-------------------------------- MODULE Wallet --------------------------------
(***************************************************************************)
(* The wallet side of the app put together: the session of Session, the    *)
(* XRP payments of FsaFlow and the money of Funds, with a reload of the    *)
(* page and a restart of the TEE at any moment.                            *)
(***************************************************************************)
EXTENDS Funds

vars == <<budget, sessionVars, fsaVars, fundsVars>>

Init == SessionInit /\ FsaInit /\ FundsInit

\* useXamanWithdraw's effect on [pa]: another account, another slip in memory.
SlipFollowsAccount ==
  saved' = IF xaman'.account = xaman.account THEN saved
           ELSE [saved EXCEPT !.ref = IF xaman'.account = None THEN NoSlip ELSE saved.disk[xaman'.account]]

FundsApart == UNCHANGED <<teeVars, opVars, vault, got, calls, faucet>>

TeeRestart == Fault /\ SessionTeeRestart /\ FundsTeeRestart /\ UNCHANGED fsaVars
Reload == Fault /\ SessionReload /\ FsaReload /\ FundsReload

\* What the page, the servers, the chains and whoever is asked to confirm do.
System ==
  \/ SessionStep /\ SlipFollowsAccount /\ UNCHANGED fsaVars /\ FundsApart
  \/ FsaStep /\ UNCHANGED <<sessionVars, fundsVars>>
  \/ FundsStep

Next ==
  \/ System
  \/ (SessionUser \/ SessionScan) /\ SlipFollowsAccount /\ UNCHANGED fsaVars /\ FundsApart
  \/ FsaOther /\ UNCHANGED <<sessionVars, fundsVars>>
  \/ FundsUser \/ FundsOther
  \/ TeeRestart \/ Reload

Spec == Init /\ [][Next]_vars /\ WF_vars(System)

TypeOK == SessionTypeOK /\ FsaTypeOK /\ FundsTypeOK

Idle == conn.step = "idle" /\ flow.step = "idle" /\ {dep.step, wd.step, retry.step} = {"idle"} /\ faucet.i = 0

\* Nothing the user starts runs for ever: connecting, a payment, a deposit, a
\* withdrawal, a retry and the faucet all end, also when the TEE restarted in the
\* middle of a request and will never answer it.
OpsEnd == []<>Idle
=============================================================================
