-------------------------------- MODULE MCWallet --------------------------------
(* Two PersonalAccounts, one of a wallet that signs reproducibly and one of a  *)
(* wallet that does not, and MetaMask.  A word of three numbers: 5 is cut to   *)
(* 2, which a Number does not hold, and 2 and 1 wrap around to 0.              *)
EXTENDS Wallet, TLC
MCAccounts == {"a1", "a2"}
MCDeterministic == {"a1"}
MCEvm == "evm"
MCBalance == "a1" :> 1 @@ "a2" :> 0 @@ "evm" :> 2
MCAmounts == {1, 5}
MCExact == {0, 1}
=============================================================================
