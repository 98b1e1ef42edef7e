------------------------- MODULE MCSyncherObservers -------------------------
(* A small instance of SyncherObservers: two hyperties of one domain and one  *)
(* of another, whose user is a legacy one; three requests, sent by one        *)
(* hyperty, by two or by all three.                                           *)
EXTENDS SyncherObservers

CONSTANTS a1, a2, b, q1, q2, q3

MCHyperties    == {a1, a2, b}
MCDomains      == {"A", "B"}
MCDomainOf     == [h \in MCHyperties |-> IF h = b THEN "B" ELSE "A"]
MCInterworking == {b}
MCRequests     == {q1, q2, q3}

Sent(h1, h2, h3) ==
    [q \in MCRequests |-> IF q = q1 THEN h1 ELSE IF q = q2 THEN h2 ELSE h3]

MCSenders == {Sent(a1, a2, b), Sent(a1, a1, b), Sent(a1, a1, a2)}
=============================================================================
