------------------------------ MODULE UnitSum ------------------------------
(***************************************************************************)
(* The total of a finite table of amounts, by counting its units.          *)
(*                                                                         *)
(* Amounts in the program are natural numbers of indivisible token units.  *)
(* A table f gives each holder an amount; its total is the number of       *)
(* pairs <<holder, i>> with 1 <= i <= f[holder].  Written this way, rather *)
(* than by recursion, what a change of one entry does to the total follows *)
(* from facts about the cardinality of finite sets.                        *)
(***************************************************************************)
EXTENDS Naturals, FiniteSets

\* The units of one holder of the table f.
UnitsOf(f, u) == {u} \X (1..f[u])

\* The units of the whole table.
Units(f) == UNION {UnitsOf(f, u) : u \in DOMAIN f}

\* The total of the table.
Total(f) == Cardinality(Units(f))

=============================================================================
