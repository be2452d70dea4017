----------------------------- MODULE MCCheckout -----------------------------
(* One order of two lines.                                                 *)
EXTENDS Checkout, TLC

CONSTANTS o1, p1, p2

MCOrders == {o1}
MCProducts == {p1, p2}
MCItems == o1 :> (p1 :> 1 @@ p2 :> 2)

\* Enough for the order once; a second time its line of p2 would be short.
MCStocksForOne == {p1 :> 2 @@ p2 :> 3}

\* Enough for the order, or for its line of p1 only.
MCStocksShort == {p1 :> 2 @@ p2 :> 3, p1 :> 2 @@ p2 :> 1}

=============================================================================
