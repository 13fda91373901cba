--------------------------- MODULE MCProviderNodes --------------------------
(* ProviderNodes on small instances. *)
EXTENDS ProviderNodes

CONSTANTS a, b, c

Plain(t, r) == [tag |-> t, rev |-> r, detour |-> None]
Over(t, d) == [tag |-> t, rev |-> 1, detour |-> d]
Content(o, e) == [k \in Kind |-> IF k = "outbound" THEN o ELSE e]

(* Nodes that appear, change, move, go, come as the other kind or dial     *)
(* through a node that is listed before or after them.                     *)
NodeLists ==
    {Content(o, e) : o \in {<<>>, <<Plain(a, 1)>>, <<Plain(b, 1), Plain(a, 2)>>, <<Over(c, b), Plain(b, 1)>>,
                            <<Plain(b, 1), Over(c, b)>>},
                     e \in {<<>>, <<Plain(b, 1)>>}}
=============================================================================
