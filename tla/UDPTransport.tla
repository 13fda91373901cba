---------------------------- MODULE UDPTransport ----------------------------
(***************************************************************************)
(* The UDP transport of DNS, dns/transport/udp.go, over the connection     *)
(* pool as SharedConn describes it.                                        *)
(*                                                                         *)
(* A query registers a callback under a free message id, writes its        *)
(* question and waits for its callback, for the end of the connection or   *)
(* for the end of its own context.  Each connection has a receive loop,    *)
(* started by the query that is told of its creation, whose buffer has the *)
(* size t.udpSize had when the read began.  Answers may be lost,           *)
(* duplicated, late and out of order; an answer is as large as its query   *)
(* announced.                                                              *)
(***************************************************************************)
EXTENDS Integers, FiniteSets

CONSTANTS
    Query,      \* calls of Exchange
    Conn,       \* connections
    IdSpace,    \* number of message ids: 2^16 in the code
    Size,       \* the EDNS0 size each query announces
    FirstSize,  \* initial t.udpSize
    None        \* nil

ASSUME IdAssumption == IdSpace \in Nat \ {0}

VARIABLES
    place, announced, ended,    \* the pool, see SharedConn
    udpSize,    \* t.udpSize
    queryId,    \* t.queryId
    callbacks,  \* t.callbacks: the query registered under each id
    pc, conn, id,   \* where a query is, its connection and message id
    spent,      \* steps t.queryId took since the query got its id
    resp,       \* callback.response: the query that the answer is for
    loop,       \* where the receive loop of a connection is
    buffer,     \* the size of the buffer it reads into
    wire        \* answers on their way: pairs of connection and query

poolVars == <<place, announced, ended>>
idVars == <<queryId, callbacks, id, spent>>
loopVars == <<loop, buffer>>
vars == <<poolVars, idVars, loopVars, udpSize, pc, conn, resp, wire>>

Pool == INSTANCE SharedConn

Id == 0..(IdSpace - 1)
Registered == {"write", "await", "unregister"}

TypeOK ==
    /\ place \in [Conn -> Pool!Places] /\ announced \subseteq Conn /\ ended \subseteq Conn
    /\ udpSize \in Nat
    /\ queryId \in Id
    /\ callbacks \in [Id -> Query \cup {None}]
    /\ pc \in [Query -> {"new", "reset", "acquire", "register", "tcp", "end"} \cup Registered]
    /\ conn \in [Query -> Conn \cup {None}]
    /\ id \in [Query -> Id]
    /\ spent \in [Query -> 0..IdSpace]
    /\ resp \in [Query -> Query \cup {None}]
    /\ loop \in [Conn -> {"none", "start", "reading", "done"}]
    /\ buffer \in [Conn -> Nat]
    /\ wire \subseteq Conn \X Query

Init ==
    /\ Pool!Init
    /\ udpSize = FirstSize
    /\ queryId = 0
    /\ callbacks = [i \in Id |-> None]
    /\ pc = [q \in Query |-> "new"]
    /\ conn = [q \in Query |-> None]
    /\ id = [q \in Query |-> 0]
    /\ spent = [q \in Query |-> 0]
    /\ resp = [q \in Query |-> None]
    /\ loop = [c \in Conn |-> "none"]
    /\ buffer = [c \in Conn |-> 0]
    /\ wire = {}

Goto(q, l) == pc' = [pc EXCEPT ![q] = l]

(* Release(conn, true) closes what the pool no longer tracks; Invalidate   *)
(* drops what it does.                                                     *)
Release(c) == IF place[c] = "dropped" THEN Pool!Closed(c) ELSE UNCHANGED poolVars
Invalidate(c) == IF place[c] = "shared" THEN Pool!Invalidated(c) ELSE UNCHANGED poolVars

-----------------------------------------------------------------------------
(* Exchange *)

(* The size is raised by CompareAndSwap, then the pool is reset so that    *)
(* nobody goes on reading into a buffer of the old size.                   *)
AfterGrowth == "acquire"
GrowthLabel == "reset"

CheckSize(q) ==
    /\ pc[q] = "new"
    /\ \/ Size[q] <= udpSize /\ Goto(q, "acquire") /\ UNCHANGED udpSize
       \/ Size[q] > udpSize /\ Goto(q, GrowthLabel) /\ udpSize' = Size[q]
    /\ UNCHANGED <<poolVars, idVars, loopVars, conn, resp, wire>>

ResetPool(q) ==
    /\ pc[q] = "reset"
    /\ \/ \E c \in Conn : Pool!Replaced(c)
       \/ (\A c \in Conn : place[c] # "shared") /\ UNCHANGED poolVars
    /\ Goto(q, "acquire")
    /\ UNCHANGED <<idVars, loopVars, udpSize, conn, resp, wire>>

(* if created { go t.recvLoop(conn) } *)
StartLoop(c) == IF c \notin announced THEN [loop EXCEPT ![c] = "start"] ELSE loop

Acquire(q) ==
    /\ pc[q] = "acquire"
    /\ \E c \in Conn :
        /\ Pool!HandedOut(c)
        /\ conn' = [conn EXCEPT ![q] = c]
        /\ loop' = StartLoop(c)
    /\ Goto(q, "register")
    /\ UNCHANGED <<idVars, udpSize, buffer, resp, wire>>

AcquireFails(q) ==
    /\ pc[q] = "acquire"
    /\ Goto(q, "end")
    /\ UNCHANGED <<poolVars, idVars, loopVars, udpSize, conn, resp, wire>>

(* nextAvailableQueryId: how many steps t.queryId takes to a free id. *)
Unwrapped(n) == queryId + n
After(n) == (queryId + n) % IdSpace
Used == {i \in Id : callbacks[i] # None}
FromCurrent == {n \in 0..(IdSpace - 1) : After(n) \notin Used /\ \A m \in 0..(n - 1) : After(m) \in Used}
FreeSteps == {n \in 1..IdSpace : After(n) \notin Used /\ \A m \in 1..(n - 1) : After(m) \in Used}

Register(q) ==
    /\ pc[q] = "register"
    /\ \E n \in FreeSteps :
        /\ queryId' = After(n)
        /\ id' = [id EXCEPT ![q] = After(n)]
        /\ callbacks' = [callbacks EXCEPT ![After(n)] = q]
        /\ spent' = [r \in Query |->
                        IF r = q THEN 0 ELSE IF spent[r] + n < IdSpace THEN spent[r] + n ELSE IdSpace]
    /\ Goto(q, "write")
    /\ UNCHANGED <<poolVars, loopVars, udpSize, conn, resp, wire>>

NoFreeId(q) ==
    /\ pc[q] = "register"
    /\ FreeSteps = {}
    /\ Release(conn[q])
    /\ Goto(q, "end")
    /\ UNCHANGED <<idVars, loopVars, udpSize, conn, resp, wire>>

(* A question that cannot be packed is given up. *)
PackFails(q) ==
    /\ pc[q] = "write"
    /\ Goto(q, "unregister")
    /\ UNCHANGED <<poolVars, idVars, loopVars, udpSize, conn, resp, wire>>

Write(q) ==
    /\ pc[q] = "write"
    /\ place[conn[q]] # "closed"
    /\ wire' = wire \cup {<<conn[q], q>>}
    /\ Goto(q, "await")
    /\ UNCHANGED <<poolVars, idVars, loopVars, udpSize, conn, resp>>

WriteFails(q) ==
    /\ pc[q] = "write"
    /\ Invalidate(conn[q])
    /\ Goto(q, "unregister")
    /\ UNCHANGED <<idVars, loopVars, udpSize, conn, resp, wire>>

(* The three cases of the select. *)
Answered(q) ==
    /\ pc[q] = "await" /\ resp[q] # None
    /\ Release(conn[q])
    /\ Goto(q, "unregister")
    /\ UNCHANGED <<idVars, loopVars, udpSize, conn, resp, wire>>

SeesNothing(q) == FALSE
SeesEnd(q) == conn[q] \in ended
ConnEnded(q) ==
    /\ pc[q] = "await" /\ SeesEnd(q)
    /\ Goto(q, "unregister")
    /\ UNCHANGED <<poolVars, idVars, loopVars, udpSize, conn, resp, wire>>

TimedOut(q) ==
    /\ pc[q] = "await"
    /\ Release(conn[q])
    /\ Goto(q, "unregister")
    /\ UNCHANGED <<idVars, loopVars, udpSize, conn, resp, wire>>

(* The deferred delete; a truncated answer is asked for again over TCP. *)
ForgottenDelete(q) == callbacks
Deleted(q) == [callbacks EXCEPT ![id[q]] = None]

Unregister(q) ==
    /\ pc[q] = "unregister"
    /\ callbacks' = Deleted(q)
    /\ Goto(q, "end") \/ (resp[q] # None /\ Goto(q, "tcp"))
    /\ UNCHANGED <<poolVars, loopVars, queryId, id, spent, udpSize, conn, resp, wire>>

ExchangeTCP(q) ==
    /\ pc[q] = "tcp"
    /\ Goto(q, "end")
    /\ UNCHANGED <<poolVars, idVars, loopVars, udpSize, conn, resp, wire>>

-----------------------------------------------------------------------------
(* recvLoop *)

LoopStarts(c) ==
    /\ loop[c] = "start"
    /\ loop' = [loop EXCEPT ![c] = "reading"]
    /\ buffer' = [buffer EXCEPT ![c] = udpSize]
    /\ UNCHANGED <<poolVars, idVars, udpSize, pc, conn, resp, wire>>

(* The answer to q is read.  One that does not fit into the buffer is      *)
(* malformed and skipped; otherwise the callback under its id, if there is *)
(* one, keeps the first answer.  The network may have duplicated it.       *)
(* Assumed of the environment: when a query has ended, neither the wire    *)
(* nor the loop holds its answer back until t.queryId has gone round all   *)
(* ids since the query got its own.                                        *)
LoopReads(c, q) ==
    /\ loop[c] = "reading" /\ place[c] # "closed"
    /\ <<c, q>> \in wire
    /\ pc[q] \in Registered \/ spent[q] < IdSpace
    /\ LET r == callbacks[id[q]]
       IN  resp' = IF Size[q] <= buffer[c] /\ r # None /\ resp[r] = None
                   THEN [resp EXCEPT ![r] = q] ELSE resp
    /\ loop' = [loop EXCEPT ![c] = "start"]
    /\ wire' \in {wire, wire \ {<<c, q>>}}
    /\ UNCHANGED <<poolVars, idVars, udpSize, pc, conn, buffer>>

(* The read fails, because the connection was closed or for reasons of its *)
(* own, and the connection is invalidated.                                 *)
OnLoopError(c) == Invalidate(c)

LoopFails(c) ==
    /\ loop[c] = "reading"
    /\ OnLoopError(c)
    /\ loop' = [loop EXCEPT ![c] = "done"]
    /\ UNCHANGED <<idVars, udpSize, pc, conn, resp, buffer, wire>>

-----------------------------------------------------------------------------
(* What the pool does on its own: dials, external resets, closing.         *)
PoolEnds(c) == Pool!Replaced(c) \/ Pool!Ended(c) \/ Pool!Closed(c)
PoolStep(c) ==
    /\ Pool!Dialed(c) \/ Pool!Installed(c) \/ Pool!Refused(c) \/ PoolEnds(c)
    /\ UNCHANGED <<idVars, loopVars, udpSize, pc, conn, resp, wire>>

PoolEnding(c) == Pool!Ended(c) /\ UNCHANGED <<idVars, loopVars, udpSize, pc, conn, resp, wire>>

Exchange(q) ==
    \/ CheckSize(q) \/ ResetPool(q) \/ Acquire(q) \/ AcquireFails(q) \/ Register(q) \/ NoFreeId(q)
    \/ PackFails(q) \/ Write(q) \/ WriteFails(q)
    \/ Answered(q) \/ ConnEnded(q) \/ Unregister(q) \/ ExchangeTCP(q)

RecvLoop(c) == LoopStarts(c) \/ (\E q \in Query : LoopReads(c, q)) \/ LoopFails(c)

Next ==
    \/ \E q \in Query : Exchange(q) \/ TimedOut(q)
    \/ \E c \in Conn : RecvLoop(c) \/ PoolStep(c)

Spec == Init /\ [][Next]_vars

(* Goroutines are scheduled, the pool cancels what it dropped.  Nothing    *)
(* says that an answer comes or that a context has a deadline.             *)
LiveSpec ==
    /\ Spec
    /\ \A q \in Query : WF_vars(Exchange(q))
    /\ \A c \in Conn : WF_vars(PoolEnding(c))

-----------------------------------------------------------------------------
(* A query never gets the answer to another one, as long as answers are    *)
(* not later than LoopReads assumes: recvLoop goes by the message id alone, *)
(* so all depends on nextAvailableQueryId giving out an id again only      *)
(* after all others, and never while its query is registered.              *)
AnswersOwn == \A q \in Query : resp[q] \in {None, q}

(* The ids in use and the queries in flight are in bijection: no query     *)
(* loses its callback to another one and none is left behind.              *)
CallbacksMatch ==
    /\ \A q \in Query : pc[q] \in Registered => callbacks[id[q]] = q
    /\ \A i \in Id : callbacks[i] # None => pc[callbacks[i]] \in Registered /\ id[callbacks[i]] = i

(* A query that waits on the shared connection can be answered: its        *)
(* receive loop runs, with a buffer that takes the answer, unless somebody *)
(* who raised the size is about to reset the pool.                         *)
CanBeAnswered ==
    \A q \in Query : pc[q] = "await" /\ place[conn[q]] = "shared" =>
        /\ loop[conn[q]] \notin {"none", "done"}
        /\ loop[conn[q]] = "reading" =>
              buffer[conn[q]] >= Size[q] \/ \E r \in Query : pc[r] = "reset"

(* A query whose connection the pool gave up does not sit out its own      *)
(* deadline.                                                               *)
LearnsOfLoss ==
    \A q \in Query :
        (pc[q] = "await" /\ place[conn[q]] \in {"dropped", "closed"}) ~> (pc[q] # "await")
=============================================================================
