---------------------------- MODULE MCOrderBook ----------------------------
(***************************************************************************)
(* OrderBook on a small instance: two price levels a side, one of them     *)
(* over the cap, and enough orders for one to sweep several others.        *)
(***************************************************************************)
EXTENDS OrderBook, TLC

OwnerSymmetry == Permutations(Owners)

=============================================================================
