----------------------------- MODULE MCConnPool -----------------------------
(* Instances of ConnPool for TLC. *)
EXTENDS ConnPoolPromise, TLC

Symmetry == Permutations(Query) \cup Permutations(Conn) \cup Permutations(Dial)

(* What a behaviour can still depend on: not the result of a query, the    *)
(* context of one that has returned, a dial that nobody waits for, the     *)
(* history of a connection that is closed and that nobody refers to, or    *)
(* whether one is alive that the pool will not look at again.              *)
Waited(d) == stage[d] # "done" \/ \E q \in Query : dial[q] = d
Watched(q) ==
    \/ pc[q] \notin {"using", "closing", "end"}
    \/ \E d \in Dial : dialBy[d] = q /\ stage[d] \in {"dialing", "dialed"}
Referred(c) ==
    \/ link[c] # "closed"
    \/ \E q \in Query : conn[q] = c
    \/ \E g \in Gen : c \in all[g]
Checked(c) == Tracked(c) \/ OwnedByDial(c)
View ==
    <<poolVars, slots, pc, gen, dial, conn, {q \in ctxDone : Watched(q)},
      {<<d, stage[d], dialGen[d], dialBy[d], dialConn[d], dialErr[d]>> : d \in {x \in Dial : Waited(x)}},
      {<<c, link[c], c \in dead /\ Checked(c), c \in ctxDoneOf, creations[c]>> :
          c \in {x \in Conn : Referred(x)}}>>
=============================================================================
