---------------------------- MODULE MCCartService ----------------------------
(* Two calls at a time on the cart of a user, and one order with a duplicate.         *)
EXTENDS CartService

CONSTANTS r1, r2, p1, o1

MCRequests == {r1, r2}
MCProducts == {p1}
MCOrders == {o1}

=============================================================================
