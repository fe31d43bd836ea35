------------------------------ MODULE MCTrading ------------------------------
(* One trader with two accounts, one of them without funds, two pairs, a     *)
(* form of one price and one quantity; orders, cancels, wallet changes and   *)
(* mounts bounded by the cfg.                                                *)
EXTENDS Trading, TLC
CONSTANTS u1, u2, bob
MCUsers == {u1, u2}
MCPairs == {"P", "Q"}
MCSides == {"buy"}
MCTypes == {"limit", "market"}
MCPrices == {1}
MCQuantities == {1}
MCFunds == u1 :> 1 @@ u2 :> 0
=============================================================================
