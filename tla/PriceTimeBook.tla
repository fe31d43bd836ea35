--------------------------- MODULE PriceTimeBook ---------------------------
(***************************************************************************)
(* The order book of one pair as its callers see it: every call is atomic  *)
(* and its effect is the one module PriceTime defines.  This is the        *)
(* abstract specification that module OrderBook implements.                *)
(***************************************************************************)
EXTENDS PriceTime

CONSTANTS
  Incoming,   (* The orders that may be placed.                            *)
  Owners,     (* Who may try to cancel.                                    *)
  MaxLevels   (* Price levels kept on a side.                              *)

VARIABLES
  book,       (* Side -> resting orders in priority order.                 *)
  outcome     (* What the last call returned.                              *)

Init ==
  /\ book = [s \in Sides |-> <<>>]
  /\ outcome = [call |-> "none"]

Place(order) ==
  LET queue == book[Opposite(order.side)]
      fills == Fills(order, queue)
  IN  /\ \A e \in Resting(book) : e.id # order.id
      /\ book' = AfterPlace(order, book)
      /\ outcome' = IF order.type = "market" /\ fills = <<>>
                    THEN [call |-> "place", error |-> "NoLiquidity"]
                    ELSE [call |-> "place", fills |-> fills,
                          remaining |-> Unfilled(order, queue)]

Cancel(e, owner) ==
  /\ e.owner = owner
  /\ book' = Without(e.id, book)
  /\ outcome' = [call |-> "cancel", order |-> e]

\* The code takes the order out before it compares the owners, and puts it
\* back as if it had just arrived.
CancelByOther(e, owner) ==
  LET side == CHOOSE s \in Sides : e \in {book[s][i] : i \in DOMAIN book[s]}
  IN  /\ e.owner # owner
      /\ book' = [Without(e.id, book) EXCEPT ![side] = Rest(side, @, e)]
      /\ outcome' = [call |-> "cancel", error |-> "NotOwner"]

CancelUnknown ==
  /\ UNCHANGED book
  /\ outcome' = [call |-> "cancel", error |-> "OrderNotFound"]

Evict ==
  /\ book' = AfterEvict(book, MaxLevels)
  /\ outcome' = [call |-> "evict",
                 orders |-> [s \in Sides |-> Evicted(s, book[s], MaxLevels)]]

Next ==
  \/ \E order \in Incoming : Place(order)
  \/ \E e \in Resting(book), owner \in Owners :
       Cancel(e, owner) \/ CancelByOther(e, owner)
  \/ CancelUnknown
  \/ Evict

Spec == Init /\ [][Next]_<<book, outcome>>

=============================================================================
