--------------------------- MODULE MCExpiringMap ----------------------------
(* ExpiringMap on small instances. *)
EXTENDS ExpiringMap
=============================================================================
