-------------------------- MODULE MCStockConsumer --------------------------
(* Two orders over two products: either can be served alone; whichever      *)
(* comes second finds its line of p1 served and its line of p2 short.       *)
EXTENDS StockConsumer, TLC

CONSTANTS o1, o2, p1, p2

MCOrders == {o1, o2}
MCProducts == {p1, p2}
MCItems == (o1 :> (p1 :> 1 @@ p2 :> 2)) @@ (o2 :> (p1 :> 1 @@ p2 :> 1))
MCInitialStocks == {p1 :> 3 @@ p2 :> 2}

=============================================================================
