-------------------------- MODULE ConnPoolPromise ---------------------------
(***************************************************************************)
(* A single-mode ConnPool implements SharedConn.                           *)
(***************************************************************************)
EXTENDS ConnPoolInv

(* Where a connection is. *)
PlaceOf(c) ==
    CASE link[c] # "open" -> link[c]
      [] OwnedByDial(c) -> "dialed"
      [] Tracked(c) -> "shared"
      [] OTHER -> "dropped"

(* The connections whose context is done: those that removeConn cancelled  *)
(* and those below a cancelled state.  EndedWithDial is a faulty form, a   *)
(* context derived from the one the connection was dialed with.            *)
EndedWithDial ==
    {c \in Conn : \E d \in Dial : dialBy[d] \in ctxDone /\ shared[dialGen[d]] = c}
EndedConns ==
    ctxDoneOf \cup {c \in Conn : \E g \in Gen : phase[g] = "cancelled" /\ shared[g] = c}

Promise == INSTANCE SharedConn WITH
    place <- [c \in Conn |-> PlaceOf(c)],
    announced <- {c \in Conn : creations[c] > 0},
    ended <- EndedConns

(* A single-mode pool keeps the promise of SharedConn that the UDP and     *)
(* QUIC transports rely on, under every interleaving of dials, Reset,      *)
(* Close, Invalidate and cancelled queries.                                *)
KeepsPromise == Promise!Spec
=============================================================================
