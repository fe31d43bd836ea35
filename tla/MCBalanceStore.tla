--------------------------- MODULE MCBalanceStore ---------------------------
(***************************************************************************)
(* BalanceStore on a small instance.  Users are interchangeable.           *)
(***************************************************************************)
EXTENDS BalanceStore, TLC

UserSymmetry == Permutations(Users)

=============================================================================
