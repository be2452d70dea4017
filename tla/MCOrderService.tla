--------------------------- MODULE MCOrderService ---------------------------
(* One checkout; two handlers of its StockUpdateFailed events.             *)
EXTENDS OrderService

CONSTANT o1

MCOrders == {o1}

=============================================================================
