--------------------------- MODULE MCProductSearch ---------------------------
(* One product: its cache from the beginning, or its events from a history  *)
(* that waits in the outbox.                                                *)
EXTENDS ProductSearch

CONSTANTS p1, c1, c2

MCProducts == {p1}
MCCallers == {c1, c2}

Start(writes, calls, copies_) ==
    [history |-> [p \in {p1} |-> writes], calls |-> calls, copies |-> copies_]

MCStarts ==
    { Start(<<>>, 4, 0),
      Start(<<>>, 2, 2),
      Start(<<"create", "update">>, 1, 2),
      Start(<<"create", "delete", "delete">>, 0, 3) }

=============================================================================
