-------------------------- MODULE MCOutboxRelayer --------------------------
(* Three rows, one of them refused by the broker for ever, batches of two. *)
EXTENDS OutboxRelayer

CONSTANTS e1, e2, e3

MCEvents == {e1, e2, e3}
MCPoison == {e3}

=============================================================================
