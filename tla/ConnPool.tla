------------------------------ MODULE ConnPool ------------------------------
(***************************************************************************)
(* The connection pool of the DNS transports, dns/transport/conn_pool.go.  *)
(*                                                                         *)
(* A pool works in one of two modes.  In "single" mode (UDP and QUIC) all  *)
(* queries share one connection, dialed in a goroutine of its own for the  *)
(* first query that needs it.  In "ordered" mode (TCP and TLS) a query     *)
(* takes an idle connection or dials one on its own goroutine, with at     *)
(* most MaxInflight dials in progress.                                     *)
(*                                                                         *)
(* Reset replaces the pool's state by a new one and then, outside the      *)
(* lock, cancels the old state and closes its connections; Close does the  *)
(* same without a replacement.  Generation i is the i-th state the pool    *)
(* has had.                                                                *)
(*                                                                         *)
(* A step is a critical section of p.access or the code between two of     *)
(* them.  A query is one call of Acquire with its context, followed by the *)
(* Release or Invalidate of what it got.                                   *)
(*                                                                         *)
(* An operator that stands just before a one-line definition and has the   *)
(* same parameters (NeverCancels before CancelsShared) is a faulty form of *)
(* it, used to see that a property depends on it.                          *)
(***************************************************************************)
EXTENDS Integers, Sequences, FiniteSets

CONSTANTS
    Query,        \* calls of Acquire and AcquireShared
    Conn,         \* connections that dials may return
    Dial,         \* dials in progress; reused when nobody refers to one
    MaxGen,       \* bound on the number of states the pool goes through
    Mode,         \* options.Mode
    MaxInflight,  \* options.MaxInflight, 0 for no semaphore
    None          \* nil

ASSUME ModeAssumption == Mode \in {"single", "ordered"}
ASSUME BoundAssumption == MaxGen \in Nat \ {0} /\ MaxInflight \in Nat
ASSUME NoneAssumption == None \notin Query \cup Conn \cup Dial
ASSUME FiniteAssumption == IsFiniteSet(Query)

VARIABLES
    \* connPoolState objects, by generation
    state,       \* the generation of p.state, 0 for nil
    phase,       \* unused, p.state, replaced, or replaced and its context cancelled
    all, idle, shared, connecting,
    claimed,     \* the generations whose sharedClaimed is true
    swept,       \* what closeState has closed
    \* connections
    link,        \* not yet dialed, open or closed
    dead,        \* those whose IsAlive returns false
    ctxDoneOf,   \* those whose sharedCancel was called
    creations,   \* how many Acquires returned the connection as created
    \* dials: connPoolConnect objects, and the dials of ordered mode
    stage, dialGen, dialBy, dialConn, dialErr,
    slots,       \* the weight taken from p.sem
    \* queries: the context and the local variables of the caller
    pc, ctxDone, gen, dial, conn, result

poolVars == <<state, phase, all, idle, shared, connecting, claimed, swept>>
linkVars == <<link, dead, ctxDoneOf, creations>>
dialVars == <<stage, dialGen, dialBy, dialConn, dialErr>>
queryVars == <<pc, ctxDone, gen, dial, conn, result>>
vars == <<poolVars, linkVars, dialVars, slots, queryVars>>

Gen == 1..MaxGen
Errors == {"dial", "ctx", "closed"}
Labels == {"new", "acquire", "wait", "collect", "recheck", "closeDead", "slot", "dial", "closeNew",
           "using", "closing", "end"}

PoolTypeOK ==
    /\ state \in 0..MaxGen
    /\ phase \in [Gen -> {"unborn", "live", "swapped", "cancelled"}]
    /\ all \in [Gen -> SUBSET Conn]
    /\ idle \in [Gen -> Seq(Conn)]
    /\ shared \in [Gen -> Conn \cup {None}]
    /\ connecting \in [Gen -> Dial \cup {None}]
    /\ claimed \in SUBSET Gen
    /\ swept \in [Gen -> SUBSET Conn]

LinkTypeOK ==
    /\ link \in [Conn -> {"new", "open", "closed"}]
    /\ dead \in SUBSET Conn
    /\ ctxDoneOf \in SUBSET Conn
    /\ creations \in [Conn -> Nat]

DialTypeOK ==
    /\ stage \in [Dial -> {"free", "dialing", "dialed", "install", "finish", "done"}]
    /\ dialGen \in [Dial -> 0..MaxGen]
    /\ dialBy \in [Dial -> Query \cup {None}]
    /\ dialConn \in [Dial -> Conn \cup {None}]
    /\ dialErr \in [Dial -> Errors \cup {"none"}]

QueryTypeOK ==
    /\ pc \in [Query -> Labels]
    /\ ctxDone \in SUBSET Query
    /\ gen \in [Query -> 0..MaxGen]
    /\ dial \in [Query -> Dial \cup {None}]
    /\ conn \in [Query -> Conn \cup {None}]
    /\ result \in [Query -> Errors \cup {"none", "ok"}]

TypeOK == PoolTypeOK /\ LinkTypeOK /\ DialTypeOK /\ slots \in Nat /\ QueryTypeOK

Init ==
    /\ state = 1
    /\ phase = [g \in Gen |-> IF g = 1 THEN "live" ELSE "unborn"]
    /\ all = [g \in Gen |-> {}]
    /\ idle = [g \in Gen |-> <<>>]
    /\ shared = [g \in Gen |-> None]
    /\ connecting = [g \in Gen |-> None]
    /\ claimed = {}
    /\ swept = [g \in Gen |-> {}]
    /\ link = [c \in Conn |-> "new"]
    /\ dead = {}
    /\ ctxDoneOf = {}
    /\ creations = [c \in Conn |-> 0]
    /\ stage = [d \in Dial |-> "free"]
    /\ dialGen = [d \in Dial |-> 0]
    /\ dialBy = [d \in Dial |-> None]
    /\ dialConn = [d \in Dial |-> None]
    /\ dialErr = [d \in Dial |-> "none"]
    /\ slots = 0
    /\ pc = [q \in Query |-> "new"]
    /\ ctxDone = {}
    /\ gen = [q \in Query |-> 0]
    /\ dial = [q \in Query |-> None]
    /\ conn = [q \in Query |-> None]
    /\ result = [q \in Query |-> "none"]

-----------------------------------------------------------------------------
closed == state = 0   \* p.closed: Close sets it and clears p.state at once
InSeq(s, c) == \E i \in 1..Len(s) : s[i] = c
Without(s, c) ==
    LET i == CHOOSE j \in 1..Len(s) : s[j] = c
    IN  IF InSeq(s, c) THEN SubSeq(s, 1, i - 1) \o SubSeq(s, i + 1, Len(s)) ELSE s
ReplacedUnseen(g) == closed
Replaced(g) == closed \/ state # g

CloseLink(c) == link' = [link EXCEPT ![c] = "closed"] /\ UNCHANGED <<dead, ctxDoneOf, creations>>

NeverCancels(g, c) == FALSE
CancelsShared(g, c) == shared[g] = c

(* removeConn, from the current state. *)
RemoveConn(c) ==
    /\ all' = [all EXCEPT ![state] = @ \ {c}]
    /\ idle' = [idle EXCEPT ![state] = Without(@, c)]
    /\ shared' = [shared EXCEPT ![state] = IF @ = c THEN None ELSE @]
    /\ claimed' = IF shared[state] = c THEN claimed \ {state} ELSE claimed
    /\ ctxDoneOf' = IF CancelsShared(state, c) THEN ctxDoneOf \cup {c} ELSE ctxDoneOf
    /\ UNCHANGED <<state, phase, connecting, swept, link, dead, creations>>

(* The query moves on, goes round the loop, returns an error, or returns c. *)
Locals(q, label, g, d, c) ==
    /\ pc' = [pc EXCEPT ![q] = label]
    /\ gen' = [gen EXCEPT ![q] = g]
    /\ dial' = [dial EXCEPT ![q] = d]
    /\ conn' = [conn EXCEPT ![q] = c]
    /\ UNCHANGED ctxDone
Goto(q, label) == Locals(q, label, gen[q], dial[q], conn[q]) /\ UNCHANGED result
Hold(q, label, c) == Locals(q, label, gen[q], None, c) /\ UNCHANGED result
Retry(q) == Locals(q, "acquire", 0, None, None) /\ UNCHANGED result
Fail(q, err) == Locals(q, "end", 0, None, None) /\ result' = [result EXCEPT ![q] = err]
Return(q, c) == Locals(q, "using", 0, None, c) /\ result' = [result EXCEPT ![q] = "ok"]

(* A query starts a dial for generation g, with its own context; a dial's  *)
(* progress.                                                               *)
BeginDial(q, g, d) ==
    /\ stage[d] \in {"free", "done"}
    /\ \A r \in Query : dial[r] # d
    /\ stage' = [stage EXCEPT ![d] = "dialing"]
    /\ dialGen' = [dialGen EXCEPT ![d] = g]
    /\ dialBy' = [dialBy EXCEPT ![d] = q]
    /\ dialErr' = [dialErr EXCEPT ![d] = "none"]
    /\ UNCHANGED dialConn
Advance(d, st, c, err) ==
    /\ stage' = [stage EXCEPT ![d] = st]
    /\ dialConn' = [dialConn EXCEPT ![d] = c]
    /\ dialErr' = [dialErr EXCEPT ![d] = err]
    /\ UNCHANGED <<dialGen, dialBy>>

-----------------------------------------------------------------------------
(* The environment: callers, their contexts, and peers.                    *)

Call(q) ==
    /\ pc[q] = "new"
    /\ Goto(q, "acquire")
    /\ UNCHANGED <<poolVars, linkVars, dialVars, slots>>

(* A context matters while its query acquires or a dial uses it. *)
CtxDone(q) ==
    /\ q \notin ctxDone
    /\ \/ pc[q] \notin {"new", "using", "closing", "end"}
       \/ \E d \in Dial : dialBy[d] = q /\ stage[d] \in {"dialing", "dialed"}
    /\ ctxDone' = ctxDone \cup {q}
    /\ UNCHANGED <<poolVars, linkVars, dialVars, slots, pc, gen, dial, conn, result>>

ConnDies(c) ==
    /\ link[c] = "open"
    /\ c \notin dead
    /\ dead' = dead \cup {c}
    /\ UNCHANGED <<poolVars, link, ctxDoneOf, creations, dialVars, slots, queryVars>>

-----------------------------------------------------------------------------
(* Single mode: acquireShared, collectShared, connectSingle.               *)

AcquireClosed(q) ==
    /\ pc[q] = "acquire"
    /\ closed
    /\ Fail(q, "closed")
    /\ UNCHANGED <<poolVars, linkVars, dialVars, slots>>

CreatedAlways(g) == 1
Created(g) == IF g \in claimed THEN 0 ELSE 1

(* The shared connection: a live one goes to the query, and the first to   *)
(* take it is told that it was created; a dead one is removed, and closed  *)
(* outside the lock.                                                       *)
TakeAlive(q) ==
    /\ shared[state] \in Conn \ dead
    /\ Return(q, shared[state])
    /\ claimed' = claimed \cup {state}
    /\ creations' = [creations EXCEPT ![shared[state]] = @ + Created(state)]
    /\ UNCHANGED <<state, phase, all, idle, shared, connecting, swept, link, dead, ctxDoneOf,
                   dialVars, slots>>

TakeDead(q) ==
    /\ shared[state] \in dead
    /\ RemoveConn(shared[state])
    /\ Hold(q, "closeDead", shared[state])
    /\ UNCHANGED <<dialVars, slots>>

AcquireShared(q) ==
    /\ Mode = "single"
    /\ pc[q] = "acquire"
    /\ ~closed
    /\ TakeAlive(q) \/ TakeDead(q)

StartDialAlways(g) == TRUE
StartDial(g) == connecting[g] = None

StartConnect(q, d) ==
    /\ Mode = "single"
    /\ pc[q] = "acquire"
    /\ ~closed
    /\ shared[state] = None
    /\ StartDial(state)
    /\ BeginDial(q, state, d)
    /\ connecting' = [connecting EXCEPT ![state] = d]
    /\ Locals(q, "wait", state, d, None)
    /\ UNCHANGED <<state, phase, all, idle, shared, claimed, swept, linkVars, slots, result>>

JoinConnect(q) ==
    /\ Mode = "single"
    /\ pc[q] = "acquire"
    /\ ~closed
    /\ shared[state] = None
    /\ ~StartDial(state)
    /\ Locals(q, "wait", state, connecting[state], None)
    /\ UNCHANGED <<poolVars, linkVars, dialVars, slots, result>>

(* The three cases of the select; after the last the pool may be closed. *)
WaitDone(q) ==
    /\ pc[q] = "wait"
    /\ stage[dial[q]] = "done"
    /\ Goto(q, "collect")
    /\ UNCHANGED <<poolVars, linkVars, dialVars, slots>>

WaitCtx(q) ==
    /\ pc[q] = "wait"
    /\ q \in ctxDone
    /\ Fail(q, "ctx")
    /\ UNCHANGED <<poolVars, linkVars, dialVars, slots>>

WaitCancelled(q) ==
    /\ pc[q] = "wait"
    /\ phase[gen[q]] = "cancelled"
    /\ Goto(q, "recheck")
    /\ UNCHANGED <<poolVars, linkVars, dialVars, slots>>

Recheck(q) ==
    /\ pc[q] = "recheck"
    /\ \/ closed /\ Fail(q, "closed")
       \/ ~closed /\ Retry(q)
    /\ UNCHANGED <<poolVars, linkVars, dialVars, slots>>

AnyWaiter(q) == TRUE
Starter(q) == dialBy[dial[q]] = q

(* The error of a dial is returned to the query that started it; everyone  *)
(* else goes round the loop.                                               *)
CollectError(q) ==
    /\ pc[q] = "collect"
    /\ dialErr[dial[q]] # "none"
    /\ \/ Starter(q) /\ Fail(q, dialErr[dial[q]])
       \/ ~Starter(q) /\ Retry(q)
    /\ UNCHANGED <<poolVars, linkVars, dialVars, slots>>

CollectShared(q) ==
    /\ pc[q] = "collect"
    /\ dialErr[dial[q]] = "none"
    /\ ~Replaced(gen[q])
    /\ TakeAlive(q) \/ TakeDead(q)

CollectNone(q) ==
    /\ pc[q] = "collect"
    /\ dialErr[dial[q]] = "none"
    /\ \/ Replaced(gen[q]) /\ Fail(q, "closed")
       \/ ~Replaced(gen[q]) /\ shared[state] = None /\ Retry(q)
    /\ UNCHANGED <<poolVars, linkVars, dialVars, slots>>

DialKept(d) == connecting
DialOver(d) == [connecting EXCEPT ![dialGen[d]] = None]

(* The dialed connection is installed unless the dial failed or the pool   *)
(* was reset or closed meanwhile; connecting is cleared in every case.     *)
InstallNone(d) ==
    /\ Mode = "single"
    /\ stage[d] = "install"
    /\ connecting' = DialOver(d)
    /\ \/ /\ dialErr[d] # "none"
          /\ Advance(d, "finish", dialConn[d], dialErr[d])
       \/ /\ dialErr[d] = "none"
          /\ Replaced(dialGen[d])
          /\ Advance(d, "finish", dialConn[d], "closed")
    /\ UNCHANGED <<state, phase, all, idle, shared, claimed, swept, linkVars, slots, queryVars>>

InstallShared(d) ==
    /\ Mode = "single"
    /\ stage[d] = "install"
    /\ dialErr[d] = "none"
    /\ ~Replaced(dialGen[d])
    /\ connecting' = DialOver(d)
    /\ shared' = [shared EXCEPT ![dialGen[d]] = dialConn[d]]
    /\ all' = [all EXCEPT ![dialGen[d]] = @ \cup {dialConn[d]}]
    /\ Advance(d, "finish", None, "none")
    /\ UNCHANGED <<state, phase, idle, claimed, swept, linkVars, slots, queryVars>>

LeaveOpen(c) == UNCHANGED linkVars
CloseIfAny(c) ==
    \/ c = None /\ UNCHANGED linkVars
    \/ c # None /\ CloseLink(c)

(* A refused connection is closed, then the waiting queries are woken. *)
FinishConnect(d) ==
    /\ stage[d] = "finish"
    /\ CloseIfAny(dialConn[d])
    /\ Advance(d, "done", None, dialErr[d])
    /\ UNCHANGED <<poolVars, slots, queryVars>>

-----------------------------------------------------------------------------
(* The dial of both modes.  Its context ends with the context of the query *)
(* that started it or with that of the state; either overrules the result. *)

DialOk(d, c) ==
    /\ stage[d] = "dialing"
    /\ link[c] = "new"
    /\ link' = [link EXCEPT ![c] = "open"]
    /\ Advance(d, "dialed", c, "none")
    /\ UNCHANGED <<poolVars, dead, ctxDoneOf, creations, slots, queryVars>>

DialFail(d) ==
    /\ stage[d] = "dialing"
    /\ Advance(d, "dialed", None, "dial")
    /\ UNCHANGED <<poolVars, linkVars, slots, queryVars>>

DialCtx(d, err) ==
    \/ err = "ctx" /\ dialBy[d] \in ctxDone
    \/ err = "closed" /\ phase[dialGen[d]] = "cancelled"

(* A dial whose context is done. *)
DialAbort(d) == DialFail(d) /\ \E err \in Errors : DialCtx(d, err)

CheckOk(d) ==
    /\ stage[d] = "dialed"
    /\ \A err \in Errors : ~DialCtx(d, err)
    /\ Advance(d, "install", dialConn[d], dialErr[d])
    /\ UNCHANGED <<poolVars, linkVars, slots, queryVars>>

OverruledInVain(d, err) == Advance(d, "install", dialConn[d], dialErr[d])
Overruled(d, err) == Advance(d, "install", None, err)

CheckOverruled(d, err) ==
    /\ stage[d] = "dialed"
    /\ DialCtx(d, err)
    /\ Overruled(d, err)
    /\ CloseIfAny(dialConn[d])
    /\ UNCHANGED <<poolVars, slots, queryVars>>

-----------------------------------------------------------------------------
(* Ordered mode: acquireOrdered, acquireSlot, dialAndInstall.              *)

IdleKept(s) == s
IdleRest(s) == Tail(s)

AcquireIdle(q) ==
    /\ Mode = "ordered"
    /\ pc[q] = "acquire"
    /\ ~closed
    /\ idle[state] # <<>>
    /\ idle' = [idle EXCEPT ![state] = IdleRest(@)]
    /\ \/ /\ Head(idle[state]) \notin dead
          /\ Return(q, Head(idle[state]))
          /\ UNCHANGED all
       \/ /\ Head(idle[state]) \in dead
          /\ Hold(q, "closeDead", Head(idle[state]))
          /\ all' = [all EXCEPT ![state] = @ \ {Head(idle[state])}]
    /\ UNCHANGED <<state, phase, shared, connecting, claimed, swept, linkVars, dialVars, slots>>

AcquireNone(q) ==
    /\ Mode = "ordered"
    /\ pc[q] = "acquire"
    /\ ~closed
    /\ idle[state] = <<>>
    /\ Locals(q, "slot", state, None, None)
    /\ UNCHANGED <<poolVars, linkVars, dialVars, slots, result>>

HasSlotBeyond(n) == n <= MaxInflight
HasSlot(n) == n < MaxInflight

TakeSlot(q, d) ==
    /\ pc[q] = "slot"
    /\ MaxInflight > 0 => HasSlot(slots)
    /\ slots' = slots + 1
    /\ BeginDial(q, gen[q], d)
    /\ Locals(q, "dial", gen[q], d, None)
    /\ UNCHANGED <<poolVars, linkVars, result>>

SlotCancelled(q) ==
    /\ pc[q] = "slot"
    /\ MaxInflight > 0
    /\ \/ q \in ctxDone /\ Fail(q, "ctx")
       \/ q \notin ctxDone /\ phase[gen[q]] = "cancelled" /\ Fail(q, "closed")
    /\ UNCHANGED <<poolVars, linkVars, dialVars, slots>>

(* The query leaves dialAndInstall and gives its slot back, unless it has  *)
(* to close a connection that the pool no longer has a place for.          *)
DialFailed(q) ==
    /\ pc[q] = "dial"
    /\ stage[dial[q]] = "install"
    /\ dialErr[dial[q]] # "none"
    /\ Fail(q, dialErr[dial[q]])
    /\ slots' = slots - 1
    /\ Advance(dial[q], "done", None, dialErr[dial[q]])
    /\ UNCHANGED <<poolVars, linkVars>>

InstallRefused(q) ==
    /\ pc[q] = "dial"
    /\ stage[dial[q]] = "install"
    /\ dialErr[dial[q]] = "none"
    /\ Replaced(gen[q])
    /\ Hold(q, "closeNew", dialConn[dial[q]])
    /\ Advance(dial[q], "done", None, "none")
    /\ UNCHANGED <<poolVars, linkVars, slots>>

InstallOrdered(q) ==
    /\ pc[q] = "dial"
    /\ stage[dial[q]] = "install"
    /\ dialErr[dial[q]] = "none"
    /\ ~Replaced(gen[q])
    /\ all' = [all EXCEPT ![gen[q]] = @ \cup {dialConn[dial[q]]}]
    /\ creations' = [creations EXCEPT ![dialConn[dial[q]]] = @ + 1]
    /\ Return(q, dialConn[dial[q]])
    /\ slots' = slots - 1
    /\ Advance(dial[q], "done", None, "none")
    /\ UNCHANGED <<state, phase, idle, shared, connecting, claimed, swept, link, dead, ctxDoneOf>>

-----------------------------------------------------------------------------
(* Release and Invalidate by the query that holds the connection, and the  *)
(* Close of a connection after p.access is unlocked.                       *)

Tracked(c) == ~closed /\ c \in all[state]

ReleaseReuse(q) ==
    /\ pc[q] = "using"
    /\ Tracked(conn[q])
    /\ conn[q] \notin dead
    /\ idle' = IF Mode = "ordered" /\ ~InSeq(idle[state], conn[q])
               THEN [idle EXCEPT ![state] = Append(@, conn[q])] ELSE idle
    /\ Hold(q, "end", None)
    /\ UNCHANGED <<state, phase, all, shared, connecting, claimed, swept, linkVars, dialVars, slots>>

(* Release without reuse or of a dead connection, and Invalidate. *)
DropTracked(q) ==
    /\ pc[q] = "using"
    /\ Tracked(conn[q])
    /\ RemoveConn(conn[q])
    /\ Goto(q, "closing")
    /\ UNCHANGED <<dialVars, slots>>

(* Release closes an untracked connection; Invalidate does so only once    *)
(* the pool is closed.                                                     *)
DropUntracked(q) ==
    /\ pc[q] = "using"
    /\ ~Tracked(conn[q])
    /\ \/ Goto(q, "closing")
       \/ ~closed /\ Hold(q, "end", None)
    /\ UNCHANGED <<poolVars, linkVars, dialVars, slots>>

(* Close outside the lock, then the loop of acquireShared or               *)
(* acquireOrdered, the end of dialAndInstall, or the end of Release.       *)
CloseDead(q) ==
    /\ pc[q] = "closeDead"
    /\ CloseLink(conn[q])
    /\ Retry(q)
    /\ UNCHANGED <<poolVars, dialVars, slots>>

SlotsLess(q) == slots - 1

CloseNew(q) ==
    /\ pc[q] = "closeNew"
    /\ CloseLink(conn[q])
    /\ Fail(q, "closed")
    /\ slots' = SlotsLess(q)
    /\ UNCHANGED <<poolVars, dialVars>>

CloseDropped(q) ==
    /\ pc[q] = "closing"
    /\ CloseLink(conn[q])
    /\ Hold(q, "end", None)
    /\ UNCHANGED <<poolVars, dialVars, slots>>

-----------------------------------------------------------------------------
(* Reset, Close and their common tail closeState.                          *)

Reset ==
    /\ ~closed
    /\ state < MaxGen
    /\ state' = state + 1
    /\ phase' = [phase EXCEPT ![state] = "swapped", ![state + 1] = "live"]
    /\ UNCHANGED <<all, idle, shared, connecting, claimed, swept, linkVars, dialVars, slots, queryVars>>

Close ==
    /\ ~closed
    /\ state' = 0
    /\ phase' = [phase EXCEPT ![state] = "swapped"]
    /\ UNCHANGED <<all, idle, shared, connecting, claimed, swept, linkVars, dialVars, slots, queryVars>>

CancelState(g) ==
    /\ phase[g] = "swapped"
    /\ phase' = [phase EXCEPT ![g] = "cancelled"]
    /\ UNCHANGED <<state, all, idle, shared, connecting, claimed, swept, linkVars, dialVars, slots,
                   queryVars>>

SweepConn(g, c) ==
    /\ phase[g] = "cancelled"
    /\ c \in all[g] \ swept[g]
    /\ CloseLink(c)
    /\ swept' = [swept EXCEPT ![g] = @ \cup {c}]
    /\ UNCHANGED <<state, phase, all, idle, shared, connecting, claimed, dialVars, slots, queryVars>>

-----------------------------------------------------------------------------
AcquireSingle(q) ==
    \/ AcquireShared(q) \/ JoinConnect(q) \/ \E d \in Dial : StartConnect(q, d)
    \/ WaitDone(q) \/ WaitCtx(q) \/ WaitCancelled(q) \/ Recheck(q)
    \/ CollectError(q) \/ CollectShared(q) \/ CollectNone(q)

AcquireOrdered(q) ==
    \/ AcquireIdle(q) \/ AcquireNone(q)
    \/ SlotCancelled(q) \/ \E d \in Dial : TakeSlot(q, d)
    \/ DialFailed(q) \/ InstallRefused(q) \/ InstallOrdered(q) \/ CloseNew(q)

Acquire(q) == AcquireClosed(q) \/ AcquireSingle(q) \/ AcquireOrdered(q) \/ CloseDead(q)

Release(q) == ReleaseReuse(q) \/ DropTracked(q) \/ DropUntracked(q)

DialReturns(d) == DialFail(d) \/ \E c \in Conn : DialOk(d, c)

Connect(d) ==
    \/ CheckOk(d) \/ \E err \in Errors : CheckOverruled(d, err)
    \/ InstallNone(d) \/ InstallShared(d) \/ FinishConnect(d)

CloseState(g) == CancelState(g) \/ \E c \in Conn : SweepConn(g, c)

Next ==
    \/ \E q \in Query : Call(q) \/ CtxDone(q) \/ Acquire(q) \/ Release(q) \/ CloseDropped(q)
    \/ \E c \in Conn : ConnDies(c)
    \/ \E d \in Dial : DialReturns(d) \/ Connect(d)
    \/ Reset
    \/ Close
    \/ \E g \in Gen : CloseState(g)

Spec == Init /\ [][Next]_vars

(* The goroutines run; every query's context has a deadline (dns/client.go *)
(* gives each exchange a timeout) and a dial returns once its context is   *)
(* done.  Nothing says that a dial succeeds, that a connection dies or     *)
(* that the pool is reset.                                                 *)
Fairness ==
    /\ \A q \in Query : WF_vars(Acquire(q)) /\ WF_vars(CloseDropped(q)) /\ WF_vars(CtxDone(q))
    /\ \A d \in Dial : WF_vars(Connect(d)) /\ WF_vars(DialAbort(d))
    /\ \A g \in Gen : WF_vars(CloseState(g))

FairSpec == Spec /\ Fairness

-----------------------------------------------------------------------------
(* Who will close connection c, now that it is open: the current state     *)
(* tracks it, or a replaced state whose sweep has not come to it, or a     *)
(* dial that has not handed it over, or a query about to close it.         *)
OwnedBySweep(c) ==
    \E g \in Gen : phase[g] \in {"swapped", "cancelled"} /\ c \in all[g] \ swept[g]
OwnedByDial(c) == \E d \in Dial : dialConn[d] = c
OwnedByQuery(c) ==
    \E q \in Query : conn[q] = c /\ pc[q] \in {"closeDead", "closeNew", "closing"}

Owned(c) == Tracked(c) \/ OwnedBySweep(c) \/ OwnedByDial(c) \/ OwnedByQuery(c)

(* No connection is leaked: however Reset, Close, cancellation and the     *)
(* death of connections interleave with dials, an open connection is       *)
(* tracked by p.state or somebody is left who closes it.                   *)
NoLeak == \A c \in Conn : link[c] = "open" => Owned(c)

(* The pool hands out no closed connection: what p.state tracks is open.   *)
TrackedIsOpen == \A c \in Conn : Tracked(c) => link[c] = "open"

(* One query, and only one, is told that a connection was created and so   *)
(* starts its receive loop, and nobody holds a connection whose creation   *)
(* nobody was told of.                                                     *)
CreatedOnce ==
    /\ \A c \in Conn : creations[c] <= 1
    /\ \A q \in Query : pc[q] = "using" => creations[conn[q]] = 1

(* A generation of a single-mode pool never has two dials in progress, nor *)
(* a dial beside a shared connection, and tracks at most one connection.   *)
InProgress(d) == stage[d] \in {"dialing", "dialed", "install"}

OneDialPerState ==
    Mode = "single" =>
        /\ \A d \in Dial : InProgress(d) =>
              /\ connecting[dialGen[d]] = d
              /\ shared[dialGen[d]] = None
        /\ \A g \in Gen : all[g] \subseteq {shared[g]}

(* A connection of an ordered-mode pool belongs to one query at a time: it *)
(* is neither handed to a second query nor idle while a query has it.      *)
ExclusiveUse ==
    Mode = "ordered" =>
        \A q \in Query : conn[q] # None =>
            /\ \A r \in Query : conn[r] = conn[q] => r = q
            /\ \A g \in Gen : ~InSeq(idle[g], conn[q])

(* "MaxInflight caps concurrent in-progress dials", also when dials fail   *)
(* or the pool is reset under them; and no slot is lost: when nobody dials *)
(* all of them are free again.                                             *)
InflightCapped ==
    Mode = "ordered" =>
        /\ MaxInflight > 0 => Cardinality({d \in Dial : InProgress(d)}) <= MaxInflight
        /\ slots = Cardinality({q \in Query : pc[q] \in {"dial", "closeNew"}})

OwnError(q, err) ==
    /\ err = "ctx" => q \in ctxDone
    /\ err = "dial" => dialBy[dial[q]] = q
    /\ err = "closed" => closed \/ state # gen[q]
OwnErrors == \A q \in Query : result'[q] # result[q] => OwnError(q, result'[q])

(* Cancelling one query, or the failure of a dial it started, fails that   *)
(* query only: those that joined the dial go round the loop.               *)
(* net.ErrClosed is returned only after Close or after a Reset of the      *)
(* state the query worked on.                                              *)
ErrorsAreOwn == [][OwnErrors]_vars

(* A query that holds a shared connection learns that it was closed: the   *)
(* connection's context is done, or the closeState that will cancel it has *)
(* begun.                                                                  *)
HolderNotified ==
    Mode = "single" =>
        \A q \in Query : pc[q] = "using" /\ link[conn[q]] = "closed" =>
            \/ conn[q] \in ctxDoneOf
            \/ \E g \in Gen : phase[g] # "live" /\ conn[q] = shared[g]

FrozenAll == \A g \in Gen : phase[g] \in {"swapped", "cancelled"} => all'[g] = all[g]

(* closeState walks state.all without the lock: nobody changes that map    *)
(* once the state has been replaced.                                       *)
ReplacedStateFrozen == [][FrozenAll]_vars

(* Every Acquire returns. *)
AcquireReturns == \A q \in Query : pc[q] = "acquire" ~> pc[q] \in {"using", "end"}

(* Once the pool is closed, every connection it dialed ends closed, the    *)
(* ones whose dial was still in progress included.                         *)
CloseClosesAll == closed ~> [](\A c \in Conn : link[c] # "open")
=============================================================================
