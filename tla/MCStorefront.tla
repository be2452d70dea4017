---------------------------- MODULE MCStorefront ----------------------------
(* Customers from the start, or a recorded order and a failing broker.       *)
EXTENDS Storefront

CONSTANTS u1, u2, e1, e2, o1, c1, c2, a1

MCClients == {c1, c2}
MCAddressOf == [c \in MCClients |-> a1]
MCOrders == {o1}

NoUsers == [i \in {u1, u2} |-> NoUser]
OneUser(pw) == [NoUsers EXCEPT ![u1] = [email |-> e1, password |-> pw]]

Start(table, ordered, first, second, at, linkFaults, faults) ==
    [users |-> table, requests |-> [c \in MCClients |-> IF c = c1 THEN first ELSE second],
     now |-> at, linkFaults |-> linkFaults, faults |-> faults,
     buyers |-> [o \in MCOrders |->
                   IF ordered THEN [user |-> u1, email |-> e1] ELSE NoBuyer]]

\* Two clients at once, without and with a user; one client and a user, with time for the token to
\* expire or with a fault of order-service's connection; an order whose event is
\* still to be published, with faults of either connection.
MCStarts ==
    { Start(NoUsers, FALSE, 1, 1, 2, 0, 0),
      Start(OneUser("p"), FALSE, 1, 1, 2, 0, 0),
      Start(OneUser("p"), FALSE, 3, 0, 1, 0, 0),
      Start(OneUser("p"), FALSE, 2, 0, 0, 0, 0),
      Start(OneUser("p"), FALSE, 2, 0, 2, 1, 0),
      Start(OneUser("p"), TRUE, 0, 0, 2, 2, 0),
      Start(OneUser("p"), TRUE, 0, 0, 2, 0, 3) }

=============================================================================
