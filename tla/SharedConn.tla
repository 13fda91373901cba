----------------------------- MODULE SharedConn -----------------------------
(***************************************************************************)
(* What the connection pool of dns/transport/conn_pool.go promises to the  *)
(* transports that share one connection (UDP, QUIC): there is at most one  *)
(* connection to hand out, it is open, whoever gets it first is told that  *)
(* it is new, and its context ends once it was dropped.                    *)
(***************************************************************************)
CONSTANT Conn

VARIABLES
    place,      \* where a connection is in its life
    announced,  \* those returned by AcquireShared with created = true
    ended       \* those whose context is done

Places == {"new", "dialed", "shared", "dropped", "closed"}

Init ==
    /\ place = [c \in Conn |-> "new"]
    /\ announced = {}
    /\ ended = {}

Move(c, from, to) == place[c] = from /\ place' = [place EXCEPT ![c] = to]

Dialed(c) == Move(c, "new", "dialed") /\ UNCHANGED <<announced, ended>>
Refused(c) == Move(c, "dialed", "closed") /\ UNCHANGED <<announced, ended>>

Installed(c) ==
    /\ Move(c, "dialed", "shared")
    /\ \A x \in Conn : place[x] # "shared"
    /\ UNCHANGED <<announced, ended>>

HandedOut(c) ==
    /\ place[c] = "shared"
    /\ announced' = announced \cup {c}
    /\ UNCHANGED <<place, ended>>

(* By Invalidate, which cancels the context at once, or by Reset and       *)
(* Close, which cancel it afterwards.                                      *)
Invalidated(c) ==
    /\ Move(c, "shared", "dropped")
    /\ ended' = ended \cup {c}
    /\ UNCHANGED announced
Replaced(c) == Move(c, "shared", "dropped") /\ UNCHANGED <<announced, ended>>

Ended(c) ==
    /\ place[c] \in {"dropped", "closed"}
    /\ ended' = ended \cup {c}
    /\ UNCHANGED <<place, announced>>

Closed(c) == Move(c, "dropped", "closed") /\ UNCHANGED <<announced, ended>>

Next ==
    \E c \in Conn :
        \/ Dialed(c) \/ Refused(c) \/ Installed(c) \/ HandedOut(c)
        \/ Invalidated(c) \/ Replaced(c) \/ Ended(c) \/ Closed(c)

Spec == Init /\ [][Next]_<<place, announced, ended>>
=============================================================================
