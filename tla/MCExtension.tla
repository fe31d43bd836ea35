---------------------------- MODULE MCExtension ----------------------------
(***************************************************************************)
(* Extension on small instances: two traders who start with funds in both  *)
(* tokens and two requests under way.                                      *)
(***************************************************************************)
EXTENDS Extension

CONSTANT InitialFunds   \* What each trader has of each token at first.

MCFunds == [u \in Users |-> [t \in Tokens |-> InitialFunds]]

\* Traders and handlers are interchangeable.
Symmetry == {p @@ q : p \in Permutations(Users), q \in Permutations(Handlers)}

=============================================================================
