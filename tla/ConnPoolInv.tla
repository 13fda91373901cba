---------------------------- MODULE ConnPoolInv ----------------------------
(***************************************************************************)
(* The inductive invariant of ConnPool, in named parts.  ConnPoolProofs    *)
(* proves that it is inductive and that it implies the safety properties.  *)
(***************************************************************************)
EXTENDS ConnPool

Holding == {"closeDead", "closeNew", "using", "closing"}
Waiting == {"wait", "collect", "recheck", "dial"}
SlotHolders == {q \in Query : pc[q] \in {"dial", "closeNew"}}

(* p.state is the one live generation, and none once the pool is closed;   *)
(* generations that are not yet in use are empty and only a cancelled one  *)
(* has been swept.                                                         *)
StateInv ==
    /\ closed => state = 0
    /\ ~closed => state \in Gen
    /\ \A g \in Gen : phase[g] = "live" <=> ~closed /\ g = state
    /\ \A g \in Gen : ~closed /\ g > state => phase[g] = "unborn"
    /\ \A g \in Gen : phase[g] = "unborn" => all[g] = {} /\ shared[g] = None
    /\ \A g \in Gen : phase[g] # "cancelled" => swept[g] = {}

(* What the local variables of a query hold at each of its labels. *)
QueryInv ==
    \A q \in Query :
        /\ pc[q] \in Holding <=> conn[q] # None
        /\ pc[q] \in Waiting <=> dial[q] # None
        /\ pc[q] \in Waiting \cup {"slot"} =>
              gen[q] \in Gen /\ phase[gen[q]] # "unborn"
        /\ pc[q] \in Waiting => dialGen[dial[q]] = gen[q]
        /\ pc[q] = "dial" =>
              dialBy[dial[q]] = q /\ stage[dial[q]] # "done"

(* What a dial holds at each of its stages. *)
DialInv ==
    \A d \in Dial :
        /\ stage[d] # "free" =>
              dialGen[d] \in Gen /\ dialBy[d] \in Query /\ phase[dialGen[d]] # "unborn"
        /\ stage[d] \in {"free", "dialing", "done"} => dialConn[d] = None
        /\ stage[d] = "dialing" => dialErr[d] = "none"
        /\ stage[d] \in {"dialed", "install"} => (dialErr[d] = "none" <=> dialConn[d] # None)
        /\ \A q \in Query : dial[q] = d => stage[d] # "free"

(* Slots of the semaphore are held by the queries that dial. *)
SlotInv == slots = Cardinality(SlotHolders)

(* A dial of ordered mode is that of a query that waits for it. *)
FlightInv ==
    Mode = "ordered" =>
        /\ MaxInflight > 0 => slots <= MaxInflight
        /\ \A d \in Dial : InProgress(d) =>
              dialBy[d] \in Query /\ pc[dialBy[d]] = "dial" /\ dial[dialBy[d]] = d

(* The two modes do not use each other's state. *)
ModeInv ==
    /\ Mode = "single" => \A g \in Gen : idle[g] = <<>>
    /\ Mode = "single" => \A q \in Query : pc[q] \notin {"slot", "dial", "closeNew"}
    /\ Mode = "ordered" =>
          /\ \A g \in Gen : shared[g] = None /\ connecting[g] = None /\ g \notin claimed
          /\ \A q \in Query : pc[q] \notin {"wait", "collect", "recheck"}
          /\ \A d \in Dial : stage[d] # "finish"

(* A connection has one place: a dial, the map of one generation, or the   *)
(* hands of queries after it left the map for good.                        *)
PlaceInv ==
    /\ \A d \in Dial : dialConn[d] # None => link[dialConn[d]] = "open"
    /\ \A d, e \in Dial : dialConn[d] # None /\ dialConn[d] = dialConn[e] => d = e
    /\ \A d \in Dial : \A g \in Gen : dialConn[d] \notin all[g]
    /\ \A d \in Dial : \A q \in Query : dialConn[d] # None => conn[q] # dialConn[d]
    /\ \A g, h \in Gen : g # h => all[g] \cap all[h] = {}
    /\ \A g \in Gen : \A c \in all[g] : link[c] # "new"
    /\ \A q \in Query : conn[q] # None => link[conn[q]] # "new"
    /\ \A q \in Query : pc[q] \in {"closeDead", "closeNew", "closing"} =>
          ~Tracked(conn[q])

(* Idle connections are tracked and listed once, and nobody holds one. *)
Distinct(s) == \A i, j \in 1..Len(s) : s[i] = s[j] => i = j

IdleInv ==
    Mode = "ordered" =>
        /\ \A g \in Gen : Distinct(idle[g])
        /\ \A g \in Gen : \A c \in Conn : InSeq(idle[g], c) => c \in all[g]
        /\ \A q \in Query : \A g \in Gen : conn[q] # None => ~InSeq(idle[g], conn[q])
        /\ \A q, r \in Query : conn[q] # None /\ conn[q] = conn[r] => q = r

(* The shared connection and the dial of a generation. *)
SharedInv ==
    Mode = "single" =>
        /\ \A g \in Gen : all[g] \subseteq {shared[g]}
        /\ \A g \in Gen : shared[g] # None => shared[g] \in all[g]
        /\ \A g \in Gen : shared[g] # None => connecting[g] = None
        /\ \A d \in Dial : InProgress(d) => connecting[dialGen[d]] = d
        /\ \A g \in Gen : connecting[g] # None =>
              InProgress(connecting[g]) /\ dialGen[connecting[g]] = g
        /\ \A q \in Query : pc[q] = "using" =>
              \/ conn[q] \in ctxDoneOf
              \/ \E g \in Gen : shared[g] = conn[q]

(* Who was told that a connection was created. *)
CreatedInv ==
    /\ \A c \in Conn : creations[c] <= 1
    /\ \A c \in Conn : link[c] = "new" => creations[c] = 0
    /\ \A d \in Dial : dialConn[d] # None => creations[dialConn[d]] = 0
    /\ \A g \in Gen : shared[g] = None => g \notin claimed
    /\ \A g \in Gen : shared[g] # None =>
          (creations[shared[g]] = 1 <=> g \in claimed)
    /\ Mode = "ordered" => \A g \in Gen : \A c \in Conn :
          InSeq(idle[g], c) => creations[c] = 1
    /\ \A q \in Query : pc[q] = "using" => creations[conn[q]] = 1

(* The causes of errors that are still to be returned. *)
ErrorInv ==
    /\ \A q \in Query : pc[q] = "closeNew" =>
          gen[q] \in Gen /\ phase[gen[q]] \in {"swapped", "cancelled"}
    /\ \A d \in Dial :
        /\ dialErr[d] = "ctx" => dialBy[d] \in ctxDone
        /\ dialErr[d] = "closed" => dialGen[d] \in Gen /\ phase[dialGen[d]] \in {"swapped", "cancelled"}

IndInv ==
    /\ TypeOK
    /\ StateInv
    /\ QueryInv
    /\ DialInv
    /\ SlotInv
    /\ FlightInv
    /\ ModeInv
    /\ PlaceInv
    /\ IdleInv
    /\ SharedInv
    /\ CreatedInv
    /\ ErrorInv
    /\ NoLeak
    /\ TrackedIsOpen
=============================================================================
