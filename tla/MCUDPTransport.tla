--------------------------- MODULE MCUDPTransport ---------------------------
(* UDPTransport on small instances. *)
EXTENDS UDPTransport, TLC

CONSTANTS q1, q2, q3

(* One query announces a larger size than the others. *)
Sizes == [q \in Query |-> IF q = q1 THEN 2 ELSE 1]
AllLarge == [q \in Query |-> 2]

Sym == Permutations(Query) \cup Permutations(Conn)
=============================================================================
