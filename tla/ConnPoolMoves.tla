--------------------------- MODULE ConnPoolMoves ----------------------------
(***************************************************************************)
(* The steps of ConnPool by the update they make, what each leaves alone,  *)
(* and that they keep the types.                                           *)
(***************************************************************************)
EXTENDS ConnPoolInv, TLAPS

USE ModeAssumption, BoundAssumption, NoneAssumption, ZenonT(40), SMTT(60)
USE DEF poolVars, linkVars, dialVars, queryVars, closed, Locals, Gen, Errors

(***************************************************************************)
(* The actions of ConnPool that choose between updates, one branch each.   *)
(***************************************************************************)
QuietFail(q, err) ==
    /\ pc[q] \in {"acquire", "wait", "recheck", "collect", "slot"}
    /\ OwnError(q, err)
    /\ Fail(q, err)
    /\ UNCHANGED <<poolVars, linkVars, dialVars, slots>>
QuietRetry(q) ==
    /\ pc[q] \in {"recheck", "collect"}
    /\ Retry(q)
    /\ UNCHANGED <<poolVars, linkVars, dialVars, slots>>
SharedAlive(q) == Mode = "single" /\ pc[q] \in {"acquire", "collect"} /\ ~closed /\ TakeAlive(q)
SharedDead(q) == Mode = "single" /\ pc[q] \in {"acquire", "collect"} /\ ~closed /\ TakeDead(q)
IdleAlive(q) ==
    /\ Mode = "ordered" /\ pc[q] = "acquire" /\ ~closed /\ idle[state] # <<>>
    /\ idle' = [idle EXCEPT ![state] = IdleRest(@)]
    /\ Return(q, Head(idle[state]))
    /\ UNCHANGED <<state, phase, all, shared, connecting, claimed, swept, linkVars, dialVars, slots>>
IdleDead(q) ==
    /\ Mode = "ordered" /\ pc[q] = "acquire" /\ ~closed /\ idle[state] # <<>>
    /\ idle' = [idle EXCEPT ![state] = IdleRest(@)]
    /\ Hold(q, "closeDead", Head(idle[state]))
    /\ all' = [all EXCEPT ![state] = @ \ {Head(idle[state])}]
    /\ UNCHANGED <<state, phase, shared, connecting, claimed, swept, linkVars, dialVars, slots>>
DropToClose(q) ==
    /\ pc[q] = "using" /\ ~Tracked(conn[q]) /\ Goto(q, "closing")
    /\ UNCHANGED <<poolVars, linkVars, dialVars, slots>>
DropToEnd(q) ==
    /\ pc[q] = "using" /\ ~Tracked(conn[q]) /\ ~closed /\ Hold(q, "end", None)
    /\ UNCHANGED <<poolVars, linkVars, dialVars, slots>>
OverruledClose(d, err) ==
    /\ stage[d] = "dialed" /\ DialCtx(d, err) /\ Overruled(d, err)
    /\ dialConn[d] # None /\ CloseLink(dialConn[d])
    /\ UNCHANGED <<poolVars, slots, queryVars>>
OverruledNone(d, err) ==
    /\ stage[d] = "dialed" /\ DialCtx(d, err) /\ Overruled(d, err)
    /\ dialConn[d] = None
    /\ UNCHANGED <<poolVars, linkVars, slots, queryVars>>
InstallFailed(d) ==
    /\ Mode = "single" /\ stage[d] = "install" /\ dialErr[d] # "none"
    /\ connecting' = DialOver(d)
    /\ Advance(d, "finish", dialConn[d], dialErr[d])
    /\ UNCHANGED <<state, phase, all, idle, shared, claimed, swept, linkVars, slots, queryVars>>
InstallReplaced(d) ==
    /\ Mode = "single" /\ stage[d] = "install" /\ dialErr[d] = "none" /\ Replaced(dialGen[d])
    /\ connecting' = DialOver(d)
    /\ Advance(d, "finish", dialConn[d], "closed")
    /\ UNCHANGED <<state, phase, all, idle, shared, claimed, swept, linkVars, slots, queryVars>>
FinishClose(d) ==
    /\ stage[d] = "finish" /\ dialConn[d] # None /\ CloseLink(dialConn[d])
    /\ Advance(d, "done", None, dialErr[d])
    /\ UNCHANGED <<poolVars, slots, queryVars>>
FinishNone(d) ==
    /\ stage[d] = "finish" /\ dialConn[d] = None
    /\ Advance(d, "done", None, dialErr[d])
    /\ UNCHANGED <<poolVars, linkVars, slots, queryVars>>

(***************************************************************************)
(* The branches in groups, by the variables that they leave alone.         *)
(***************************************************************************)
LocalMove ==
    \/ \E q \in Query : Call(q) \/ CtxDone(q) \/ QuietRetry(q) \/ JoinConnect(q) \/ WaitDone(q) \/ WaitCancelled(q) \/ AcquireNone(q) \/ DropToClose(q) \/ DropToEnd(q)
    \/ \E q \in Query : \E err \in Errors : QuietFail(q, err)
CloseMove ==
    \/ \E q \in Query : CloseNew(q) \/ CloseDead(q) \/ CloseDropped(q)
DialMove ==
    \/ \E q \in Query : \E d \in Dial : TakeSlot(q, d)
    \/ \E q \in Query : DialFailed(q) \/ InstallRefused(q)
PoolMove ==
    \/ \E q \in Query : SharedAlive(q) \/ SharedDead(q) \/ IdleAlive(q) \/ IdleDead(q) \/ ReleaseReuse(q) \/ DropTracked(q)
StartMove ==
    \/ \E q \in Query : \E d \in Dial : StartConnect(q, d)
InstallMove ==
    \/ \E q \in Query : InstallOrdered(q)
AttemptMove ==
    \/ \E c \in Conn : ConnDies(c)
    \/ \E d \in Dial : \E c \in Conn : DialOk(d, c)
    \/ \E d \in Dial : DialFail(d) \/ CheckOk(d) \/ FinishClose(d) \/ FinishNone(d)
    \/ \E d \in Dial : \E err \in Errors : OverruledClose(d, err) \/ OverruledNone(d, err)
ConnectMove ==
    \/ \E d \in Dial : InstallFailed(d) \/ InstallReplaced(d) \/ InstallShared(d)
StateMove ==
    \/ Reset \/ Close
    \/ \E g \in Gen : CancelState(g)
    \/ \E g \in Gen : \E c \in Conn : SweepConn(g, c)

(* Every step of the specification is one of these. *)
Step ==
    \/ LocalMove \/ CloseMove \/ DialMove \/ PoolMove \/ StartMove
    \/ InstallMove \/ AttemptMove \/ ConnectMove \/ StateMove
    \/ UNCHANGED vars

(* What a step of LocalMove leaves alone. *)
LEMMA LocalMoveFrame ==
    LocalMove => UNCHANGED <<poolVars, linkVars, dialVars, slots>>
BY SMTT(60) DEF LocalMove, Call, Goto, CtxDone, QuietFail, Fail, QuietRetry, Retry, JoinConnect, StartDial,
       WaitDone, WaitCancelled, AcquireNone, DropToClose, Tracked, DropToEnd, Hold

(* What a step of CloseMove leaves alone. *)
LEMMA CloseMoveFrame ==
    CloseMove => UNCHANGED <<poolVars, ctxDoneOf, creations, dialVars>>
BY DEF CloseMove, CloseNew, CloseLink, Fail, SlotsLess, CloseDead, Retry, CloseDropped, Hold

(* What a step of DialMove leaves alone. *)
LEMMA DialMoveFrame ==
    DialMove => UNCHANGED <<poolVars, linkVars>>
BY DEF DialMove, TakeSlot, BeginDial, DialFailed, Fail, Advance, InstallRefused, Replaced, Hold

(* What a step of PoolMove leaves alone. *)
LEMMA PoolMoveFrame ==
    PoolMove => UNCHANGED <<state, phase, swept, link, dead, dialVars, slots>>
BY SMTT(60) DEF PoolMove, SharedAlive, TakeAlive, Return, Created, SharedDead, TakeDead, RemoveConn,
       CancelsShared, Hold, IdleAlive, IdleRest, IdleDead, ReleaseReuse, Tracked, DropTracked, Goto

(* What a step of StartMove leaves alone. *)
LEMMA StartMoveFrame ==
    StartMove => UNCHANGED <<linkVars, state, phase, swept, slots>>
BY DEF StartMove, StartConnect, StartDial, BeginDial

(* What a step of InstallMove leaves alone. *)
LEMMA InstallMoveFrame ==
    InstallMove => UNCHANGED <<state, phase, swept, link, dead>>
BY DEF InstallMove, InstallOrdered, Replaced, Return, Advance

(* What a step of AttemptMove leaves alone. *)
LEMMA AttemptMoveFrame ==
    AttemptMove => UNCHANGED <<poolVars, ctxDoneOf, creations, slots, queryVars>>
BY SMTT(60) DEF AttemptMove, ConnDies, DialOk, Advance, DialFail, CheckOk, OverruledClose, Overruled,
       DialCtx, CloseLink, OverruledNone, FinishClose, FinishNone

(* What a step of ConnectMove leaves alone. *)
LEMMA ConnectMoveFrame ==
    ConnectMove => UNCHANGED <<linkVars, state, phase, swept, slots, queryVars>>
BY DEF ConnectMove, InstallFailed, DialOver, Advance, InstallReplaced, Replaced, InstallShared

(* What a step of StateMove leaves alone. *)
LEMMA StateMoveFrame ==
    StateMove => UNCHANGED <<all, idle, shared, connecting, claimed, ctxDoneOf, creations, dialVars, slots, queryVars>>
BY DEF StateMove, Reset, Close, CancelState, SweepConn, CloseLink

(* The branches cover the next-state relation. *)
LEMMA StepCases ==
    TypeOK /\ StateInv /\ QueryInv /\ ModeInv /\ ErrorInv /\ [Next]_vars => Step
<1> SUFFICES ASSUME TypeOK, StateInv, QueryInv, ModeInv, ErrorInv, [Next]_vars PROVE Step
    OBVIOUS
<1>1. ASSUME NEW q \in Query, AcquireClosed(q) PROVE QuietFail(q, "closed")
      BY <1>1 DEF AcquireClosed, QuietFail, OwnError
<1>2. ASSUME NEW q \in Query, AcquireShared(q) \/ CollectShared(q) PROVE SharedAlive(q) \/ SharedDead(q)
      BY <1>2 DEF AcquireShared, CollectShared, SharedAlive, SharedDead, Replaced, ModeInv
<1>3. ASSUME NEW q \in Query, WaitCtx(q) PROVE QuietFail(q, "ctx")
      BY <1>3 DEF WaitCtx, QuietFail, OwnError
<1>4. ASSUME NEW q \in Query, Recheck(q) PROVE QuietFail(q, "closed") \/ QuietRetry(q)
      BY <1>4 DEF Recheck, QuietFail, QuietRetry, OwnError
<1>5. ASSUME NEW q \in Query, CollectError(q)
      PROVE  (\E err \in Errors : QuietFail(q, err)) \/ QuietRetry(q)
  <2>1. dialErr[dial[q]] \in Errors
        BY SMTT(60), <1>5 DEF CollectError, QueryInv, Waiting, TypeOK, DialTypeOK, QueryTypeOK
  <2>2. dial[q] \in Dial /\ gen[q] = dialGen[dial[q]] /\ gen[q] \in Gen
        BY SMTT(60), <1>5 DEF CollectError, QueryInv, Waiting, TypeOK, QueryTypeOK
  <2>3. Starter(q) => OwnError(q, dialErr[dial[q]])
        BY <2>2 DEF Starter, OwnError, ErrorInv, StateInv
  <2>4. QED BY <1>5, <2>1, <2>3 DEF CollectError, QuietFail, QuietRetry
<1>6. ASSUME NEW q \in Query, CollectNone(q) PROVE QuietFail(q, "closed") \/ QuietRetry(q)
      BY <1>6 DEF CollectNone, QuietFail, QuietRetry, OwnError, Replaced
<1>7. ASSUME NEW q \in Query, AcquireIdle(q) PROVE IdleAlive(q) \/ IdleDead(q)
      BY <1>7 DEF AcquireIdle, IdleAlive, IdleDead
<1>8. ASSUME NEW q \in Query, SlotCancelled(q) PROVE QuietFail(q, "ctx") \/ QuietFail(q, "closed")
      BY <1>8 DEF SlotCancelled, QuietFail, OwnError, QueryInv, StateInv
<1>9. ASSUME NEW q \in Query, DropUntracked(q) PROVE DropToClose(q) \/ DropToEnd(q)
      BY <1>9 DEF DropUntracked, DropToClose, DropToEnd
<1>10. ASSUME NEW d \in Dial, NEW err \in Errors, CheckOverruled(d, err)
       PROVE  OverruledClose(d, err) \/ OverruledNone(d, err)
      BY <1>10 DEF CheckOverruled, CloseIfAny, OverruledClose, OverruledNone
<1>11. ASSUME NEW d \in Dial, InstallNone(d) PROVE InstallFailed(d) \/ InstallReplaced(d)
      BY <1>11 DEF InstallNone, InstallFailed, InstallReplaced
<1>12. ASSUME NEW d \in Dial, FinishConnect(d) PROVE FinishClose(d) \/ FinishNone(d)
      BY <1>12 DEF FinishConnect, CloseIfAny, FinishClose, FinishNone
<1>13. ASSUME NEW q \in Query, Acquire(q) PROVE Step
      BY <1>13, <1>1, <1>2, <1>3, <1>4, <1>5, <1>6, <1>7, <1>8
      DEF Acquire, AcquireSingle, AcquireOrdered, Step, LocalMove, CloseMove, DialMove, PoolMove,
          StartMove, InstallMove
<1>14. ASSUME NEW q \in Query, Call(q) \/ CtxDone(q) \/ Release(q) \/ CloseDropped(q) PROVE Step
      BY <1>14, <1>9 DEF Release, Step, LocalMove, CloseMove, PoolMove
<1>15. ASSUME NEW d \in Dial, DialReturns(d) \/ Connect(d) PROVE Step
      BY <1>15, <1>10, <1>11, <1>12 DEF DialReturns, Connect, Step, AttemptMove, ConnectMove
<1>16. QED
      BY <1>13, <1>14, <1>15 DEF Next, CloseState, Step, AttemptMove, StateMove

(* What is left of idle is a sequence of connections. *)
LEMMA WithoutType == \A s \in Seq(Conn), c \in Conn : Without(s, c) \in Seq(Conn)
<1> SUFFICES ASSUME NEW s \in Seq(Conn), NEW c \in Conn PROVE Without(s, c) \in Seq(Conn)
    OBVIOUS
<1>1. CASE ~InSeq(s, c)
      BY <1>1 DEF Without
<1>2. CASE InSeq(s, c)
  <2> DEFINE i == CHOOSE j \in 1..Len(s) : s[j] = c
  <2>1. i \in 1..Len(s)
        BY <1>2 DEF InSeq
  <2> HIDE DEF i
  <2>2. SubSeq(s, 1, i - 1) \in Seq(Conn) /\ SubSeq(s, i + 1, Len(s)) \in Seq(Conn)
        BY SMTT(60), <2>1
  <2>3. SubSeq(s, 1, i - 1) \o SubSeq(s, i + 1, Len(s)) \in Seq(Conn)
        BY SMTT(60), <2>2
  <2>4. QED BY <1>2, <2>3 DEF Without, i
<1>3. QED BY <1>1, <1>2

(* Nothing is removed from an empty sequence. *)
LEMMA WithoutEmpty == \A c \in Conn : Without(<<>>, c) = <<>>
BY SMTT(60) DEF Without, InSeq

(* A connection that is not in the sequence is not removed from it. *)
LEMMA WithoutAbsent == \A s, c : ~InSeq(s, c) => Without(s, c) = s
BY DEF Without

(* Taking the first connection off a sequence without repetitions. *)
LEMMA TailFacts ==
    ASSUME NEW s \in Seq(Conn), s # <<>>
    PROVE  /\ Head(s) \in Conn
           /\ InSeq(s, Head(s))
           /\ Tail(s) \in Seq(Conn)
           /\ \A c \in Conn : InSeq(Tail(s), c) => InSeq(s, c)
           /\ Distinct(s) => Distinct(Tail(s)) /\ ~InSeq(Tail(s), Head(s))
<1>1. /\ Len(s) \in Nat \ {0} /\ Head(s) = s[1] /\ s[1] \in Conn
      /\ Tail(s) \in Seq(Conn) /\ Len(Tail(s)) = Len(s) - 1
      /\ \A i \in 1..Len(Tail(s)) : Tail(s)[i] = s[i + 1]
      BY SMTT(60)
<1>2. \A i \in 1..Len(Tail(s)) : i + 1 \in 1..Len(s) /\ i + 1 # 1
      BY SMTT(60), <1>1
<1>3. InSeq(s, Head(s))
      BY SMTT(60), <1>1 DEF InSeq
<1>4. \A c \in Conn : InSeq(Tail(s), c) => InSeq(s, c)
      BY <1>1, <1>2 DEF InSeq
<1>5. Distinct(s) => Distinct(Tail(s)) /\ ~InSeq(Tail(s), Head(s))
      BY SMTT(60), <1>1, <1>2 DEF InSeq, Distinct
<1>6. QED BY <1>1, <1>3, <1>4, <1>5

(* Adding a connection at the end. *)
LEMMA AppendFacts ==
    ASSUME NEW s \in Seq(Conn), NEW c \in Conn
    PROVE  /\ Append(s, c) \in Seq(Conn)
           /\ \A x \in Conn : InSeq(Append(s, c), x) => InSeq(s, x) \/ x = c
           /\ Distinct(s) /\ ~InSeq(s, c) => Distinct(Append(s, c))
<1>1. /\ Append(s, c) \in Seq(Conn) /\ Len(Append(s, c)) = Len(s) + 1 /\ Len(s) \in Nat
      /\ \A i \in 1..Len(s) : Append(s, c)[i] = s[i]
      /\ Append(s, c)[Len(s) + 1] = c
      BY SMTT(60)
<1>2. \A i \in 1..Len(Append(s, c)) : i \in 1..Len(s) \/ i = Len(s) + 1
      BY SMTT(60), <1>1
<1>3. \A x \in Conn : InSeq(Append(s, c), x) => InSeq(s, x) \/ x = c
      BY <1>1, <1>2 DEF InSeq
<1>4. Distinct(s) /\ ~InSeq(s, c) => Distinct(Append(s, c))
      BY <1>1, <1>2 DEF InSeq, Distinct
<1>5. QED BY <1>1, <1>3, <1>4

(* How a step moves the slots of the semaphore. *)
SlotsMove ==
    \/ SlotHolders' = SlotHolders /\ slots' = slots
    \/ \E q \in Query \ SlotHolders : SlotHolders' = SlotHolders \cup {q} /\ slots' = slots + 1
    \/ \E q \in SlotHolders : SlotHolders' = SlotHolders \ {q} /\ slots' = slots - 1

(* What a move that leaves the pool alone may do to the hands of a query. *)
HandsKept ==
    \A r \in Query :
        /\ conn'[r] \in {conn[r], None}
        /\ pc'[r] = "using" => pc[r] = "using" /\ conn'[r] = conn[r]
        /\ pc'[r] \in {"closeDead", "closeNew", "closing"} =>
              /\ conn'[r] = conn[r]
              /\ pc'[r] = pc[r] \/ (pc[r] = "using" /\ ~Tracked(conn[r]))
        /\ pc[r] \in {"closeDead", "closeNew", "closing"} => pc'[r] = pc[r] /\ conn'[r] = conn[r]

(* The initial state has the types. *)
LEMMA InitType == Init => TypeOK
BY SMTT(60) DEF Init, TypeOK, PoolTypeOK, LinkTypeOK, DialTypeOK, QueryTypeOK, Labels

(* Every step keeps the types of the states. *)
LEMMA PoolTypeStep ==
    TypeOK /\ StateInv /\ QueryInv /\ DialInv /\ ModeInv /\ ErrorInv /\ [Next]_vars => PoolTypeOK'
<1> SUFFICES ASSUME TypeOK, StateInv, QueryInv, DialInv, ModeInv, ErrorInv, [Next]_vars PROVE PoolTypeOK'
    OBVIOUS
<1> USE DEF TypeOK, PoolTypeOK
<1>1. CASE LocalMove
      BY <1>1, LocalMoveFrame
<1>2. CASE CloseMove
      BY <1>2, CloseMoveFrame
<1>3. CASE DialMove
      BY <1>3, DialMoveFrame
<1>4. CASE PoolMove
  <2>1. ASSUME NEW q \in Query, SharedAlive(q) PROVE PoolTypeOK'
        BY <2>1 DEF SharedAlive, TakeAlive, Return, Created, StateInv
  <2>2. ASSUME NEW q \in Query, SharedDead(q) PROVE PoolTypeOK'
    <3>1. state \in Gen /\ shared[state] \in Conn
          BY <2>2 DEF SharedDead, TakeDead, StateInv, LinkTypeOK
    <3>2. Without(idle[state], shared[state]) \in Seq(Conn)
          BY <3>1, WithoutType
    <3>3. QED BY <2>2, <3>1, <3>2 DEF SharedDead, TakeDead, RemoveConn
  <2>3. ASSUME NEW q \in Query, IdleAlive(q) PROVE PoolTypeOK'
    <3>1. state \in Gen /\ idle[state] \in Seq(Conn) /\ idle[state] # <<>>
          BY <2>3 DEF IdleAlive, StateInv
    <3>2. Tail(idle[state]) \in Seq(Conn)
          BY <3>1, TailFacts
    <3>3. QED BY <2>3, <3>2 DEF IdleAlive, IdleRest
  <2>4. ASSUME NEW q \in Query, IdleDead(q) PROVE PoolTypeOK'
    <3>1. state \in Gen /\ idle[state] \in Seq(Conn) /\ idle[state] # <<>>
          BY <2>4 DEF IdleDead, StateInv
    <3>2. Tail(idle[state]) \in Seq(Conn)
          BY <3>1, TailFacts
    <3>3. QED BY <2>4, <3>2 DEF IdleDead, IdleRest
  <2>5. ASSUME NEW q \in Query, ReleaseReuse(q) PROVE PoolTypeOK'
    <3>1. state \in Gen /\ idle[state] \in Seq(Conn) /\ conn[q] \in Conn
          BY <2>5 DEF ReleaseReuse, Tracked, StateInv
    <3>2. Append(idle[state], conn[q]) \in Seq(Conn)
          BY <3>1, AppendFacts
    <3>3. QED BY <2>5, <3>2 DEF ReleaseReuse
  <2>6. ASSUME NEW q \in Query, DropTracked(q) PROVE PoolTypeOK'
    <3>1. state \in Gen /\ conn[q] \in Conn
          BY SMTT(60), <2>6 DEF DropTracked, Tracked, StateInv, QueryInv, Holding, QueryTypeOK
    <3>2. Without(idle[state], conn[q]) \in Seq(Conn)
          BY <3>1, WithoutType
    <3>3. QED BY <2>6, <3>1, <3>2 DEF DropTracked, RemoveConn
  <2> HIDE DEF TypeOK, PoolTypeOK
  <2>7. QED BY <1>4, <2>1, <2>2, <2>3, <2>4, <2>5, <2>6 DEF PoolMove
<1>5. CASE StartMove
  <2>1. ASSUME NEW q \in Query, NEW d \in Dial, StartConnect(q, d) PROVE PoolTypeOK'
        BY <2>1 DEF StartConnect, StartDial, BeginDial, StateInv
  <2> HIDE DEF TypeOK, PoolTypeOK
  <2>2. QED BY <1>5, <2>1 DEF StartMove
<1>6. CASE InstallMove
  <2>1. ASSUME NEW q \in Query, InstallOrdered(q) PROVE PoolTypeOK'
        BY SMTT(60), <2>1 DEF InstallOrdered, Replaced, Return, Advance, QueryInv, DialInv, Waiting,
                    DialTypeOK, QueryTypeOK
  <2> HIDE DEF TypeOK, PoolTypeOK
  <2>2. QED BY <1>6, <2>1 DEF InstallMove
<1>7. CASE AttemptMove
      BY <1>7, AttemptMoveFrame
<1>8. CASE ConnectMove
  <2>1. ASSUME NEW d \in Dial, InstallFailed(d) PROVE PoolTypeOK'
        BY <2>1 DEF InstallFailed, DialOver, Advance, DialInv
  <2>2. ASSUME NEW d \in Dial, InstallReplaced(d) PROVE PoolTypeOK'
        BY <2>2 DEF InstallReplaced, Replaced, DialOver, Advance, DialInv
  <2>3. ASSUME NEW d \in Dial, InstallShared(d) PROVE PoolTypeOK'
    <3>1. dialConn[d] \in Conn
          BY <2>3 DEF InstallShared, DialInv, DialTypeOK
    <3>2. QED BY <2>3, <3>1 DEF InstallShared, DialOver
  <2> HIDE DEF TypeOK, PoolTypeOK
  <2>4. QED BY <1>8, <2>1, <2>2, <2>3 DEF ConnectMove
<1>9. CASE StateMove
  <2>1. CASE Reset
    <3>1. state' \in 0..MaxGen
          BY SMTT(60), <2>1 DEF Reset
    <3>2. phase' \in [Gen -> {"unborn", "live", "swapped", "cancelled"}]
          BY <2>1 DEF Reset
    <3>3. QED BY <2>1, <3>1, <3>2 DEF Reset
  <2>2. CASE Close
    <3>1. state' \in 0..MaxGen
          BY SMTT(60), <2>2 DEF Close
    <3>2. phase' \in [Gen -> {"unborn", "live", "swapped", "cancelled"}]
          BY <2>2 DEF Close
    <3>3. QED BY <2>2, <3>1, <3>2 DEF Close
  <2>3. ASSUME NEW g \in Gen, CancelState(g) PROVE PoolTypeOK'
        BY <2>3 DEF CancelState
  <2>4. ASSUME NEW g \in Gen, NEW c \in Conn, SweepConn(g, c) PROVE PoolTypeOK'
        BY <2>4 DEF SweepConn, CloseLink
  <2> HIDE DEF TypeOK, PoolTypeOK
  <2>5. QED BY <1>9, <2>1, <2>2, <2>3, <2>4 DEF StateMove
<1>10. CASE UNCHANGED vars
      BY <1>10 DEF vars
<1> HIDE DEF TypeOK, PoolTypeOK
<1>11. QED BY StepCases, <1>1, <1>2, <1>3, <1>4, <1>5, <1>6, <1>7, <1>8, <1>9, <1>10 DEF Step

(* Every step keeps the types of the connections. *)
LEMMA LinkTypeStep ==
    TypeOK /\ StateInv /\ QueryInv /\ DialInv /\ ModeInv /\ ErrorInv /\ [Next]_vars => LinkTypeOK'
<1> SUFFICES ASSUME TypeOK, StateInv, QueryInv, DialInv, ModeInv, ErrorInv, [Next]_vars PROVE LinkTypeOK'
    OBVIOUS
<1> USE DEF TypeOK, LinkTypeOK
<1>1. CASE LocalMove
      BY <1>1, LocalMoveFrame
<1>2. CASE CloseMove
  <2>1. ASSUME NEW q \in Query, CloseNew(q) PROVE LinkTypeOK'
        BY <2>1 DEF CloseNew, CloseLink, Fail, SlotsLess
  <2>2. ASSUME NEW q \in Query, CloseDead(q) PROVE LinkTypeOK'
        BY <2>2 DEF CloseDead, CloseLink, Retry
  <2>3. ASSUME NEW q \in Query, CloseDropped(q) PROVE LinkTypeOK'
        BY <2>3 DEF CloseDropped, CloseLink, Hold
  <2> HIDE DEF TypeOK, LinkTypeOK
  <2>4. QED BY <1>2, <2>1, <2>2, <2>3 DEF CloseMove
<1>3. CASE DialMove
      BY <1>3, DialMoveFrame
<1>4. CASE PoolMove
  <2>1. ASSUME NEW q \in Query, SharedAlive(q) PROVE LinkTypeOK'
        BY SMTT(60), <2>1 DEF SharedAlive, TakeAlive, Return, Created
  <2>2. ASSUME NEW q \in Query, SharedDead(q) PROVE LinkTypeOK'
        BY <2>2 DEF SharedDead, TakeDead, RemoveConn, CancelsShared, Hold
  <2>3. ASSUME NEW q \in Query, IdleAlive(q) PROVE LinkTypeOK'
        BY <2>3 DEF IdleAlive, IdleRest, Return
  <2>4. ASSUME NEW q \in Query, IdleDead(q) PROVE LinkTypeOK'
        BY <2>4 DEF IdleDead, IdleRest, Hold
  <2>5. ASSUME NEW q \in Query, ReleaseReuse(q) PROVE LinkTypeOK'
        BY <2>5 DEF ReleaseReuse, Tracked, Hold
  <2>6. ASSUME NEW q \in Query, DropTracked(q) PROVE LinkTypeOK'
        BY SMTT(60), <2>6 DEF DropTracked, Tracked, RemoveConn, CancelsShared, Goto, QueryInv, Holding,
                    QueryTypeOK
  <2> HIDE DEF TypeOK, LinkTypeOK
  <2>7. QED BY <1>4, <2>1, <2>2, <2>3, <2>4, <2>5, <2>6 DEF PoolMove
<1>5. CASE StartMove
      BY <1>5, StartMoveFrame
<1>6. CASE InstallMove
  <2>1. ASSUME NEW q \in Query, InstallOrdered(q) PROVE LinkTypeOK'
        BY SMTT(60), <2>1 DEF InstallOrdered, Replaced, Return, Advance, QueryInv, DialInv, Waiting,
                    DialTypeOK, QueryTypeOK
  <2> HIDE DEF TypeOK, LinkTypeOK
  <2>2. QED BY <1>6, <2>1 DEF InstallMove
<1>7. CASE AttemptMove
  <2>1. ASSUME NEW c \in Conn, ConnDies(c) PROVE LinkTypeOK'
        BY <2>1 DEF ConnDies
  <2>2. ASSUME NEW d \in Dial, NEW c \in Conn, DialOk(d, c) PROVE LinkTypeOK'
        BY <2>2 DEF DialOk, Advance
  <2>3. ASSUME NEW d \in Dial, DialFail(d) PROVE LinkTypeOK'
        BY <2>3 DEF DialFail, Advance
  <2>4. ASSUME NEW d \in Dial, CheckOk(d) PROVE LinkTypeOK'
        BY <2>4 DEF CheckOk, Advance
  <2>5. ASSUME NEW d \in Dial, NEW err \in Errors, OverruledClose(d, err) PROVE LinkTypeOK'
        BY <2>5 DEF OverruledClose, Overruled, DialCtx, CloseLink, Advance
  <2>6. ASSUME NEW d \in Dial, NEW err \in Errors, OverruledNone(d, err) PROVE LinkTypeOK'
        BY <2>6 DEF OverruledNone, Overruled, DialCtx, Advance
  <2>7. ASSUME NEW d \in Dial, FinishClose(d) PROVE LinkTypeOK'
        BY <2>7 DEF FinishClose, CloseLink, Advance
  <2>8. ASSUME NEW d \in Dial, FinishNone(d) PROVE LinkTypeOK'
        BY <2>8 DEF FinishNone, Advance
  <2> HIDE DEF TypeOK, LinkTypeOK
  <2>9. QED BY <1>7, <2>1, <2>2, <2>3, <2>4, <2>5, <2>6, <2>7, <2>8 DEF AttemptMove
<1>8. CASE ConnectMove
      BY <1>8, ConnectMoveFrame
<1>9. CASE StateMove
  <2>1. CASE Reset
        BY <2>1 DEF Reset
  <2>2. CASE Close
        BY <2>2 DEF Close
  <2>3. ASSUME NEW g \in Gen, CancelState(g) PROVE LinkTypeOK'
        BY <2>3 DEF CancelState
  <2>4. ASSUME NEW g \in Gen, NEW c \in Conn, SweepConn(g, c) PROVE LinkTypeOK'
        BY <2>4 DEF SweepConn, CloseLink
  <2> HIDE DEF TypeOK, LinkTypeOK
  <2>5. QED BY <1>9, <2>1, <2>2, <2>3, <2>4 DEF StateMove
<1>10. CASE UNCHANGED vars
      BY <1>10 DEF vars
<1> HIDE DEF TypeOK, LinkTypeOK
<1>11. QED BY StepCases, <1>1, <1>2, <1>3, <1>4, <1>5, <1>6, <1>7, <1>8, <1>9, <1>10 DEF Step

(* Every step keeps the types of the dials. *)
LEMMA DialTypeStep ==
    TypeOK /\ StateInv /\ QueryInv /\ DialInv /\ ModeInv /\ ErrorInv /\ [Next]_vars => DialTypeOK'
<1> SUFFICES ASSUME TypeOK, StateInv, QueryInv, DialInv, ModeInv, ErrorInv, [Next]_vars PROVE DialTypeOK'
    OBVIOUS
<1> USE DEF TypeOK, DialTypeOK
<1>1. CASE LocalMove
      BY <1>1, LocalMoveFrame
<1>2. CASE CloseMove
      BY <1>2, CloseMoveFrame
<1>3. CASE DialMove
  <2>1. ASSUME NEW q \in Query, NEW d \in Dial, TakeSlot(q, d) PROVE DialTypeOK'
        BY <2>1 DEF TakeSlot, BeginDial, QueryTypeOK
  <2>2. ASSUME NEW q \in Query, DialFailed(q) PROVE DialTypeOK'
        BY <2>2 DEF DialFailed, Fail, Advance
  <2>3. ASSUME NEW q \in Query, InstallRefused(q) PROVE DialTypeOK'
        BY <2>3 DEF InstallRefused, Replaced, Hold, Advance
  <2> HIDE DEF TypeOK, DialTypeOK
  <2>4. QED BY <1>3, <2>1, <2>2, <2>3 DEF DialMove
<1>4. CASE PoolMove
      BY <1>4, PoolMoveFrame
<1>5. CASE StartMove
  <2>1. ASSUME NEW q \in Query, NEW d \in Dial, StartConnect(q, d) PROVE DialTypeOK'
        BY <2>1 DEF StartConnect, StartDial, BeginDial, PoolTypeOK
  <2> HIDE DEF TypeOK, DialTypeOK
  <2>2. QED BY <1>5, <2>1 DEF StartMove
<1>6. CASE InstallMove
  <2>1. ASSUME NEW q \in Query, InstallOrdered(q) PROVE DialTypeOK'
        BY <2>1 DEF InstallOrdered, Replaced, Return, Advance
  <2> HIDE DEF TypeOK, DialTypeOK
  <2>2. QED BY <1>6, <2>1 DEF InstallMove
<1>7. CASE AttemptMove
  <2>1. ASSUME NEW c \in Conn, ConnDies(c) PROVE DialTypeOK'
        BY <2>1 DEF ConnDies
  <2>2. ASSUME NEW d \in Dial, NEW c \in Conn, DialOk(d, c) PROVE DialTypeOK'
        BY <2>2 DEF DialOk, Advance
  <2>3. ASSUME NEW d \in Dial, DialFail(d) PROVE DialTypeOK'
        BY <2>3 DEF DialFail, Advance
  <2>4. ASSUME NEW d \in Dial, CheckOk(d) PROVE DialTypeOK'
        BY <2>4 DEF CheckOk, Advance
  <2>5. ASSUME NEW d \in Dial, NEW err \in Errors, OverruledClose(d, err) PROVE DialTypeOK'
        BY <2>5 DEF OverruledClose, Overruled, DialCtx, CloseLink, Advance
  <2>6. ASSUME NEW d \in Dial, NEW err \in Errors, OverruledNone(d, err) PROVE DialTypeOK'
        BY <2>6 DEF OverruledNone, Overruled, DialCtx, Advance
  <2>7. ASSUME NEW d \in Dial, FinishClose(d) PROVE DialTypeOK'
        BY <2>7 DEF FinishClose, CloseLink, Advance
  <2>8. ASSUME NEW d \in Dial, FinishNone(d) PROVE DialTypeOK'
        BY <2>8 DEF FinishNone, Advance
  <2> HIDE DEF TypeOK, DialTypeOK
  <2>9. QED BY <1>7, <2>1, <2>2, <2>3, <2>4, <2>5, <2>6, <2>7, <2>8 DEF AttemptMove
<1>8. CASE ConnectMove
  <2>1. ASSUME NEW d \in Dial, InstallFailed(d) PROVE DialTypeOK'
        BY <2>1 DEF InstallFailed, DialOver, Advance
  <2>2. ASSUME NEW d \in Dial, InstallReplaced(d) PROVE DialTypeOK'
        BY <2>2 DEF InstallReplaced, Replaced, DialOver, Advance
  <2>3. ASSUME NEW d \in Dial, InstallShared(d) PROVE DialTypeOK'
        BY <2>3 DEF InstallShared, Replaced, DialOver, Advance
  <2> HIDE DEF TypeOK, DialTypeOK
  <2>4. QED BY <1>8, <2>1, <2>2, <2>3 DEF ConnectMove
<1>9. CASE StateMove
      BY <1>9, StateMoveFrame
<1>10. CASE UNCHANGED vars
      BY <1>10 DEF vars
<1> HIDE DEF TypeOK, DialTypeOK
<1>11. QED BY StepCases, <1>1, <1>2, <1>3, <1>4, <1>5, <1>6, <1>7, <1>8, <1>9, <1>10 DEF Step

(* Every step keeps the types of the queries. *)
LEMMA QueryTypeStep ==
    TypeOK /\ StateInv /\ QueryInv /\ DialInv /\ ModeInv /\ ErrorInv /\ [Next]_vars => QueryTypeOK'
<1> SUFFICES ASSUME TypeOK, StateInv, QueryInv, DialInv, ModeInv, ErrorInv, [Next]_vars PROVE QueryTypeOK'
    OBVIOUS
<1> USE DEF TypeOK, QueryTypeOK, Labels
<1>1. CASE LocalMove
  <2>1. ASSUME NEW q \in Query, Call(q) PROVE QueryTypeOK'
        BY <2>1 DEF Call, Goto
  <2>2. ASSUME NEW q \in Query, CtxDone(q) PROVE QueryTypeOK'
        BY <2>2 DEF CtxDone
  <2>3. ASSUME NEW q \in Query, NEW err \in Errors, QuietFail(q, err) PROVE QueryTypeOK'
        BY SMTT(60), <2>3 DEF QuietFail, Fail
  <2>4. ASSUME NEW q \in Query, QuietRetry(q) PROVE QueryTypeOK'
        BY SMTT(60), <2>4 DEF QuietRetry, Retry
  <2>5. ASSUME NEW q \in Query, JoinConnect(q) PROVE QueryTypeOK'
        BY <2>5 DEF JoinConnect, StartDial, StateInv, PoolTypeOK
  <2>6. ASSUME NEW q \in Query, WaitDone(q) PROVE QueryTypeOK'
        BY <2>6 DEF WaitDone, Goto
  <2>7. ASSUME NEW q \in Query, WaitCancelled(q) PROVE QueryTypeOK'
        BY <2>7 DEF WaitCancelled, Goto
  <2>8. ASSUME NEW q \in Query, AcquireNone(q) PROVE QueryTypeOK'
    <3>1. /\ state \in 0..MaxGen
          /\ Locals(q, "slot", state, None, None)
          /\ UNCHANGED result
          BY <2>8 DEF AcquireNone, PoolTypeOK
    <3>2. QED BY <3>1
  <2>9. ASSUME NEW q \in Query, DropToClose(q) PROVE QueryTypeOK'
        BY <2>9 DEF DropToClose, Tracked, Goto
  <2>10. ASSUME NEW q \in Query, DropToEnd(q) PROVE QueryTypeOK'
        BY <2>10 DEF DropToEnd, Tracked, Hold
  <2> HIDE DEF TypeOK, QueryTypeOK, Labels
  <2>11. QED BY <1>1, <2>1, <2>2, <2>3, <2>4, <2>5, <2>6, <2>7, <2>8, <2>9, <2>10 DEF LocalMove
<1>2. CASE CloseMove
  <2>1. ASSUME NEW q \in Query, CloseNew(q) PROVE QueryTypeOK'
        BY SMTT(60), <2>1 DEF CloseNew, CloseLink, Fail, SlotsLess
  <2>2. ASSUME NEW q \in Query, CloseDead(q) PROVE QueryTypeOK'
        BY SMTT(60), <2>2 DEF CloseDead, CloseLink, Retry
  <2>3. ASSUME NEW q \in Query, CloseDropped(q) PROVE QueryTypeOK'
        BY <2>3 DEF CloseDropped, CloseLink, Hold
  <2> HIDE DEF TypeOK, QueryTypeOK, Labels
  <2>4. QED BY <1>2, <2>1, <2>2, <2>3 DEF CloseMove
<1>3. CASE DialMove
  <2>1. ASSUME NEW q \in Query, NEW d \in Dial, TakeSlot(q, d) PROVE QueryTypeOK'
        BY <2>1 DEF TakeSlot, BeginDial
  <2>2. ASSUME NEW q \in Query, DialFailed(q) PROVE QueryTypeOK'
    <3>1. dial[q] \in Dial
          BY SMTT(60), <2>2 DEF DialFailed, QueryInv, Waiting
    <3>2. dialErr[dial[q]] \in Errors
          BY <2>2, <3>1 DEF DialFailed, DialTypeOK
    <3>3. QED BY SMTT(60), <2>2, <3>2 DEF DialFailed, Fail
  <2>3. ASSUME NEW q \in Query, InstallRefused(q) PROVE QueryTypeOK'
        BY SMTT(60), <2>3 DEF InstallRefused, Replaced, Hold, Advance, QueryInv, DialTypeOK, Waiting
  <2> HIDE DEF TypeOK, QueryTypeOK, Labels
  <2>4. QED BY <1>3, <2>1, <2>2, <2>3 DEF DialMove
<1>4. CASE PoolMove
  <2>1. ASSUME NEW q \in Query, SharedAlive(q) PROVE QueryTypeOK'
        BY SMTT(60), <2>1 DEF SharedAlive, TakeAlive, Return, Created, PoolTypeOK
  <2>2. ASSUME NEW q \in Query, SharedDead(q) PROVE QueryTypeOK'
        BY <2>2 DEF SharedDead, TakeDead, RemoveConn, CancelsShared, Hold, LinkTypeOK
  <2>3. ASSUME NEW q \in Query, IdleAlive(q) PROVE QueryTypeOK'
    <3>1. state \in Gen /\ idle[state] \in Seq(Conn) /\ idle[state] # <<>>
          BY <2>3 DEF IdleAlive, StateInv, PoolTypeOK
    <3>2. Head(idle[state]) \in Conn
          BY <3>1, TailFacts
    <3>3. QED BY SMTT(60), <2>3, <3>2 DEF IdleAlive, Return
  <2>4. ASSUME NEW q \in Query, IdleDead(q) PROVE QueryTypeOK'
    <3>1. state \in Gen /\ idle[state] \in Seq(Conn) /\ idle[state] # <<>>
          BY <2>4 DEF IdleDead, StateInv, PoolTypeOK
    <3>2. Head(idle[state]) \in Conn
          BY <3>1, TailFacts
    <3>3. QED BY <2>4, <3>2 DEF IdleDead, Hold
  <2>5. ASSUME NEW q \in Query, ReleaseReuse(q) PROVE QueryTypeOK'
        BY <2>5 DEF ReleaseReuse, Tracked, Hold
  <2>6. ASSUME NEW q \in Query, DropTracked(q) PROVE QueryTypeOK'
        BY <2>6 DEF DropTracked, Tracked, RemoveConn, CancelsShared, Goto
  <2> HIDE DEF TypeOK, QueryTypeOK, Labels
  <2>7. QED BY <1>4, <2>1, <2>2, <2>3, <2>4, <2>5, <2>6 DEF PoolMove
<1>5. CASE StartMove
  <2>1. ASSUME NEW q \in Query, NEW d \in Dial, StartConnect(q, d) PROVE QueryTypeOK'
        BY <2>1 DEF StartConnect, StartDial, BeginDial, PoolTypeOK
  <2> HIDE DEF TypeOK, QueryTypeOK, Labels
  <2>2. QED BY <1>5, <2>1 DEF StartMove
<1>6. CASE InstallMove
  <2>1. ASSUME NEW q \in Query, InstallOrdered(q) PROVE QueryTypeOK'
        BY SMTT(60), <2>1 DEF InstallOrdered, Replaced, Return, Advance, QueryInv, DialTypeOK, Waiting
  <2> HIDE DEF TypeOK, QueryTypeOK, Labels
  <2>2. QED BY <1>6, <2>1 DEF InstallMove
<1>7. CASE AttemptMove
      BY <1>7, AttemptMoveFrame
<1>8. CASE ConnectMove
      BY <1>8, ConnectMoveFrame
<1>9. CASE StateMove
      BY <1>9, StateMoveFrame
<1>10. CASE UNCHANGED vars
      BY <1>10 DEF vars
<1> HIDE DEF TypeOK, QueryTypeOK, Labels
<1>11. QED BY StepCases, <1>1, <1>2, <1>3, <1>4, <1>5, <1>6, <1>7, <1>8, <1>9, <1>10 DEF Step

(* A local move only empties the hands of a query or prepares to close what they hold. *)
LEMMA LocalHands ==
    TypeOK /\ QueryInv /\ LocalMove => HandsKept
<1> SUFFICES ASSUME TypeOK, QueryInv, LocalMove PROVE HandsKept
    OBVIOUS
<1> USE DEF TypeOK, QueryTypeOK, QueryInv, Holding, HandsKept, Tracked
<1>1. CASE LocalMove
  <2>1. ASSUME NEW q \in Query, Call(q) PROVE HandsKept
        BY SMTT(60), <2>1 DEF Call, Goto
  <2>2. ASSUME NEW q \in Query, CtxDone(q) PROVE HandsKept
        BY <2>2 DEF CtxDone
  <2>3. ASSUME NEW q \in Query, NEW err \in Errors, QuietFail(q, err) PROVE HandsKept
        BY SMTT(60), <2>3 DEF QuietFail, Fail
  <2>4. ASSUME NEW q \in Query, QuietRetry(q) PROVE HandsKept
        BY SMTT(60), <2>4 DEF QuietRetry, Retry
  <2>5. ASSUME NEW q \in Query, JoinConnect(q) PROVE HandsKept
        BY SMTT(60), <2>5 DEF JoinConnect, StartDial
  <2>6. ASSUME NEW q \in Query, WaitDone(q) PROVE HandsKept
        BY SMTT(60), <2>6 DEF WaitDone, Goto
  <2>7. ASSUME NEW q \in Query, WaitCancelled(q) PROVE HandsKept
        BY SMTT(60), <2>7 DEF WaitCancelled, Goto
  <2>8. ASSUME NEW q \in Query, AcquireNone(q) PROVE HandsKept
    <3>1. /\ Mode = "ordered" /\ pc[q] = "acquire" /\ state # 0
          /\ Locals(q, "slot", state, None, None)
          /\ UNCHANGED <<poolVars, linkVars, dialVars, slots, result>>
          BY <2>8 DEF AcquireNone
    <3>2. QED BY SMTT(60), <3>1
  <2>9. ASSUME NEW q \in Query, DropToClose(q) PROVE HandsKept
        BY SMTT(60), <2>9 DEF DropToClose, Tracked, Goto
  <2>10. ASSUME NEW q \in Query, DropToEnd(q) PROVE HandsKept
        BY SMTT(60), <2>10 DEF DropToEnd, Tracked, Hold
  <2> HIDE DEF TypeOK, QueryTypeOK, QueryInv, Holding, HandsKept, Tracked
  <2>11. QED BY <1>1, <2>1, <2>2, <2>3, <2>4, <2>5, <2>6, <2>7, <2>8, <2>9, <2>10 DEF LocalMove
<1>2. QED BY <1>1

(* A dial of ordered mode belongs to a query that waits for it, within the cap. *)
LEMMA FlightStep ==
    TypeOK /\ StateInv /\ QueryInv /\ DialInv /\ ModeInv /\ ErrorInv /\ FlightInv /\ [Next]_vars => FlightInv'
<1> SUFFICES ASSUME TypeOK, StateInv, QueryInv, DialInv, ModeInv, ErrorInv, FlightInv, [Next]_vars PROVE FlightInv'
    OBVIOUS
<1> USE DEF TypeOK, DialTypeOK, QueryTypeOK, FlightInv, InProgress
<1>1. CASE LocalMove
  <2>1. ASSUME NEW q \in Query, Call(q) PROVE FlightInv'
        BY <2>1 DEF Call, Goto
  <2>2. ASSUME NEW q \in Query, CtxDone(q) PROVE FlightInv'
        BY <2>2 DEF CtxDone
  <2>3. ASSUME NEW q \in Query, NEW err \in Errors, QuietFail(q, err) PROVE FlightInv'
        BY <2>3 DEF QuietFail, Fail
  <2>4. ASSUME NEW q \in Query, QuietRetry(q) PROVE FlightInv'
        BY <2>4 DEF QuietRetry, Retry
  <2>5. ASSUME NEW q \in Query, JoinConnect(q) PROVE FlightInv'
        BY <2>5 DEF JoinConnect, StartDial
  <2>6. ASSUME NEW q \in Query, WaitDone(q) PROVE FlightInv'
        BY <2>6 DEF WaitDone, Goto
  <2>7. ASSUME NEW q \in Query, WaitCancelled(q) PROVE FlightInv'
        BY <2>7 DEF WaitCancelled, Goto
  <2>8. ASSUME NEW q \in Query, AcquireNone(q) PROVE FlightInv'
    <3>1. /\ Mode = "ordered" /\ pc[q] = "acquire" /\ state # 0
          /\ Locals(q, "slot", state, None, None)
          /\ UNCHANGED <<poolVars, linkVars, dialVars, slots, result>>
          BY <2>8 DEF AcquireNone
    <3>2. QED BY <3>1
  <2>9. ASSUME NEW q \in Query, DropToClose(q) PROVE FlightInv'
        BY <2>9 DEF DropToClose, Tracked, Goto
  <2>10. ASSUME NEW q \in Query, DropToEnd(q) PROVE FlightInv'
        BY <2>10 DEF DropToEnd, Tracked, Hold
  <2> HIDE DEF TypeOK, DialTypeOK, QueryTypeOK, FlightInv, InProgress
  <2>11. QED BY <1>1, <2>1, <2>2, <2>3, <2>4, <2>5, <2>6, <2>7, <2>8, <2>9, <2>10 DEF LocalMove
<1>2. CASE CloseMove
  <2>1. ASSUME NEW q \in Query, CloseNew(q) PROVE FlightInv'
        BY SMTT(60), <2>1 DEF CloseNew, CloseLink, Fail, SlotsLess
  <2>2. ASSUME NEW q \in Query, CloseDead(q) PROVE FlightInv'
        BY <2>2 DEF CloseDead, CloseLink, Retry
  <2>3. ASSUME NEW q \in Query, CloseDropped(q) PROVE FlightInv'
        BY <2>3 DEF CloseDropped, CloseLink, Hold
  <2> HIDE DEF TypeOK, DialTypeOK, QueryTypeOK, FlightInv, InProgress
  <2>4. QED BY <1>2, <2>1, <2>2, <2>3 DEF CloseMove
<1>3. CASE DialMove
  <2>1. ASSUME NEW q \in Query, NEW d \in Dial, TakeSlot(q, d) PROVE FlightInv'
        BY SMTT(60), <2>1 DEF TakeSlot, BeginDial, HasSlot
  <2>2. ASSUME NEW q \in Query, DialFailed(q) PROVE FlightInv'
        BY SMTT(60), <2>2 DEF DialFailed, Fail, Advance, QueryInv, Waiting
  <2>3. ASSUME NEW q \in Query, InstallRefused(q) PROVE FlightInv'
        BY SMTT(60), <2>3 DEF InstallRefused, Replaced, Hold, Advance, QueryInv, Waiting
  <2> HIDE DEF TypeOK, DialTypeOK, QueryTypeOK, FlightInv, InProgress
  <2>4. QED BY <1>3, <2>1, <2>2, <2>3 DEF DialMove
<1>4. CASE PoolMove
  <2>1. ASSUME NEW q \in Query, SharedAlive(q) PROVE FlightInv'
        BY <2>1 DEF SharedAlive, TakeAlive, Return, Created, ModeInv
  <2>2. ASSUME NEW q \in Query, SharedDead(q) PROVE FlightInv'
        BY <2>2 DEF SharedDead, TakeDead, RemoveConn, CancelsShared, Hold, ModeInv
  <2>3. ASSUME NEW q \in Query, IdleAlive(q) PROVE FlightInv'
        BY <2>3 DEF IdleAlive, IdleRest, Return
  <2>4. ASSUME NEW q \in Query, IdleDead(q) PROVE FlightInv'
        BY <2>4 DEF IdleDead, IdleRest, Hold
  <2>5. ASSUME NEW q \in Query, ReleaseReuse(q) PROVE FlightInv'
        BY <2>5 DEF ReleaseReuse, Tracked, Hold
  <2>6. ASSUME NEW q \in Query, DropTracked(q) PROVE FlightInv'
        BY <2>6 DEF DropTracked, Tracked, RemoveConn, CancelsShared, Goto
  <2> HIDE DEF TypeOK, DialTypeOK, QueryTypeOK, FlightInv, InProgress
  <2>7. QED BY <1>4, <2>1, <2>2, <2>3, <2>4, <2>5, <2>6 DEF PoolMove
<1>5. CASE StartMove
  <2>1. ASSUME NEW q \in Query, NEW d \in Dial, StartConnect(q, d) PROVE FlightInv'
        BY <2>1 DEF StartConnect, StartDial, BeginDial
  <2> HIDE DEF TypeOK, DialTypeOK, QueryTypeOK, FlightInv, InProgress
  <2>2. QED BY <1>5, <2>1 DEF StartMove
<1>6. CASE InstallMove
  <2>1. ASSUME NEW q \in Query, InstallOrdered(q) PROVE FlightInv'
        BY SMTT(60), <2>1 DEF InstallOrdered, Replaced, Return, Advance, QueryInv, Waiting
  <2> HIDE DEF TypeOK, DialTypeOK, QueryTypeOK, FlightInv, InProgress
  <2>2. QED BY <1>6, <2>1 DEF InstallMove
<1>7. CASE AttemptMove
  <2>1. ASSUME NEW c \in Conn, ConnDies(c) PROVE FlightInv'
        BY <2>1 DEF ConnDies
  <2>2. ASSUME NEW d \in Dial, NEW c \in Conn, DialOk(d, c) PROVE FlightInv'
        BY SMTT(60), <2>2 DEF DialOk, Advance
  <2>3. ASSUME NEW d \in Dial, DialFail(d) PROVE FlightInv'
        BY SMTT(60), <2>3 DEF DialFail, Advance
  <2>4. ASSUME NEW d \in Dial, CheckOk(d) PROVE FlightInv'
        BY SMTT(60), <2>4 DEF CheckOk, Advance
  <2>5. ASSUME NEW d \in Dial, NEW err \in Errors, OverruledClose(d, err) PROVE FlightInv'
        BY SMTT(60), <2>5 DEF OverruledClose, Overruled, DialCtx, CloseLink, Advance
  <2>6. ASSUME NEW d \in Dial, NEW err \in Errors, OverruledNone(d, err) PROVE FlightInv'
        BY SMTT(60), <2>6 DEF OverruledNone, Overruled, DialCtx, Advance
  <2>7. ASSUME NEW d \in Dial, FinishClose(d) PROVE FlightInv'
        BY SMTT(60), <2>7 DEF FinishClose, CloseLink, Advance
  <2>8. ASSUME NEW d \in Dial, FinishNone(d) PROVE FlightInv'
        BY SMTT(60), <2>8 DEF FinishNone, Advance
  <2> HIDE DEF TypeOK, DialTypeOK, QueryTypeOK, FlightInv, InProgress
  <2>9. QED BY <1>7, <2>1, <2>2, <2>3, <2>4, <2>5, <2>6, <2>7, <2>8 DEF AttemptMove
<1>8. CASE ConnectMove
  <2>1. ASSUME NEW d \in Dial, InstallFailed(d) PROVE FlightInv'
        BY <2>1 DEF InstallFailed, DialOver, Advance
  <2>2. ASSUME NEW d \in Dial, InstallReplaced(d) PROVE FlightInv'
        BY <2>2 DEF InstallReplaced, Replaced, DialOver, Advance
  <2>3. ASSUME NEW d \in Dial, InstallShared(d) PROVE FlightInv'
        BY <2>3 DEF InstallShared, Replaced, DialOver, Advance
  <2> HIDE DEF TypeOK, DialTypeOK, QueryTypeOK, FlightInv, InProgress
  <2>4. QED BY <1>8, <2>1, <2>2, <2>3 DEF ConnectMove
<1>9. CASE StateMove
      BY SMTT(60), <1>9, StateMoveFrame
<1>10. CASE UNCHANGED vars
      BY <1>10 DEF vars
<1> HIDE DEF TypeOK, DialTypeOK, QueryTypeOK, FlightInv, InProgress
<1>11. QED BY StepCases, <1>1, <1>2, <1>3, <1>4, <1>5, <1>6, <1>7, <1>8, <1>9, <1>10 DEF Step

(* No step changes the map of a replaced generation. *)
LEMMA FrozenStep ==
    TypeOK /\ StateInv /\ QueryInv /\ ModeInv /\ ErrorInv /\ [Next]_vars => FrozenAll
<1> SUFFICES ASSUME TypeOK, StateInv, QueryInv, ModeInv, ErrorInv, [Next]_vars PROVE FrozenAll
    OBVIOUS
<1> USE DEF TypeOK, PoolTypeOK, FrozenAll
<1>1. CASE LocalMove
      BY <1>1, LocalMoveFrame
<1>2. CASE CloseMove
      BY <1>2, CloseMoveFrame
<1>3. CASE DialMove
      BY <1>3, DialMoveFrame
<1>4. CASE PoolMove
  <2>1. ASSUME NEW q \in Query, SharedAlive(q) PROVE FrozenAll
        BY <2>1 DEF SharedAlive, TakeAlive, Return, Created
  <2>2. ASSUME NEW q \in Query, SharedDead(q) PROVE FrozenAll
        BY <2>2 DEF SharedDead, TakeDead, RemoveConn, CancelsShared, Hold, StateInv
  <2>3. ASSUME NEW q \in Query, IdleAlive(q) PROVE FrozenAll
        BY <2>3 DEF IdleAlive, IdleRest, Return
  <2>4. ASSUME NEW q \in Query, IdleDead(q) PROVE FrozenAll
        BY <2>4 DEF IdleDead, IdleRest, Hold, StateInv
  <2>5. ASSUME NEW q \in Query, ReleaseReuse(q) PROVE FrozenAll
        BY <2>5 DEF ReleaseReuse, Tracked, Hold
  <2>6. ASSUME NEW q \in Query, DropTracked(q) PROVE FrozenAll
        BY <2>6 DEF DropTracked, Tracked, RemoveConn, CancelsShared, Goto, StateInv
  <2> HIDE DEF TypeOK, PoolTypeOK, FrozenAll
  <2>7. QED BY <1>4, <2>1, <2>2, <2>3, <2>4, <2>5, <2>6 DEF PoolMove
<1>5. CASE StartMove
  <2>1. ASSUME NEW q \in Query, NEW d \in Dial, StartConnect(q, d) PROVE FrozenAll
        BY <2>1 DEF StartConnect, StartDial, BeginDial
  <2> HIDE DEF TypeOK, PoolTypeOK, FrozenAll
  <2>2. QED BY <1>5, <2>1 DEF StartMove
<1>6. CASE InstallMove
  <2>1. ASSUME NEW q \in Query, InstallOrdered(q) PROVE FrozenAll
        BY <2>1 DEF InstallOrdered, Replaced, Return, Advance, StateInv
  <2> HIDE DEF TypeOK, PoolTypeOK, FrozenAll
  <2>2. QED BY <1>6, <2>1 DEF InstallMove
<1>7. CASE AttemptMove
      BY <1>7, AttemptMoveFrame
<1>8. CASE ConnectMove
  <2>1. ASSUME NEW d \in Dial, InstallFailed(d) PROVE FrozenAll
        BY <2>1 DEF InstallFailed, DialOver, Advance
  <2>2. ASSUME NEW d \in Dial, InstallReplaced(d) PROVE FrozenAll
        BY <2>2 DEF InstallReplaced, Replaced, DialOver, Advance
  <2>3. ASSUME NEW d \in Dial, InstallShared(d) PROVE FrozenAll
        BY <2>3 DEF InstallShared, Replaced, DialOver, Advance, StateInv
  <2> HIDE DEF TypeOK, PoolTypeOK, FrozenAll
  <2>4. QED BY <1>8, <2>1, <2>2, <2>3 DEF ConnectMove
<1>9. CASE StateMove
  <2>1. CASE Reset
        BY <2>1 DEF Reset
  <2>2. CASE Close
        BY <2>2 DEF Close
  <2>3. ASSUME NEW g \in Gen, CancelState(g) PROVE FrozenAll
        BY <2>3 DEF CancelState
  <2>4. ASSUME NEW g \in Gen, NEW c \in Conn, SweepConn(g, c) PROVE FrozenAll
        BY <2>4 DEF SweepConn, CloseLink
  <2> HIDE DEF TypeOK, PoolTypeOK, FrozenAll
  <2>5. QED BY <1>9, <2>1, <2>2, <2>3, <2>4 DEF StateMove
<1>10. CASE UNCHANGED vars
      BY <1>10 DEF vars
<1> HIDE DEF TypeOK, PoolTypeOK, FrozenAll
<1>11. QED BY StepCases, <1>1, <1>2, <1>3, <1>4, <1>5, <1>6, <1>7, <1>8, <1>9, <1>10 DEF Step

(* No step gives a query an error that is not its own. *)
LEMMA OwnStep ==
    TypeOK /\ StateInv /\ QueryInv /\ ModeInv /\ ErrorInv /\ [Next]_vars => OwnErrors
<1> SUFFICES ASSUME TypeOK, StateInv, QueryInv, ModeInv, ErrorInv, [Next]_vars PROVE OwnErrors
    OBVIOUS
<1> USE DEF TypeOK, QueryTypeOK, OwnErrors, OwnError
<1>1. CASE LocalMove
  <2>1. ASSUME NEW q \in Query, Call(q) PROVE OwnErrors
        BY <2>1 DEF Call, Goto
  <2>2. ASSUME NEW q \in Query, CtxDone(q) PROVE OwnErrors
        BY <2>2 DEF CtxDone
  <2>3. ASSUME NEW q \in Query, NEW err \in Errors, QuietFail(q, err) PROVE OwnErrors
        BY <2>3 DEF QuietFail, Fail
  <2>4. ASSUME NEW q \in Query, QuietRetry(q) PROVE OwnErrors
        BY <2>4 DEF QuietRetry, Retry
  <2>5. ASSUME NEW q \in Query, JoinConnect(q) PROVE OwnErrors
        BY <2>5 DEF JoinConnect, StartDial
  <2>6. ASSUME NEW q \in Query, WaitDone(q) PROVE OwnErrors
        BY <2>6 DEF WaitDone, Goto
  <2>7. ASSUME NEW q \in Query, WaitCancelled(q) PROVE OwnErrors
        BY <2>7 DEF WaitCancelled, Goto
  <2>8. ASSUME NEW q \in Query, AcquireNone(q) PROVE OwnErrors
        BY <2>8 DEF AcquireNone
  <2>9. ASSUME NEW q \in Query, DropToClose(q) PROVE OwnErrors
        BY <2>9 DEF DropToClose, Tracked, Goto
  <2>10. ASSUME NEW q \in Query, DropToEnd(q) PROVE OwnErrors
        BY <2>10 DEF DropToEnd, Tracked, Hold
  <2> HIDE DEF TypeOK, QueryTypeOK, OwnErrors, OwnError
  <2>11. QED BY <1>1, <2>1, <2>2, <2>3, <2>4, <2>5, <2>6, <2>7, <2>8, <2>9, <2>10 DEF LocalMove
<1>2. CASE CloseMove
  <2>1. ASSUME NEW q \in Query, CloseNew(q) PROVE OwnErrors
        BY SMTT(60), <2>1 DEF CloseNew, CloseLink, Fail, SlotsLess, ErrorInv, StateInv
  <2>2. ASSUME NEW q \in Query, CloseDead(q) PROVE OwnErrors
        BY <2>2 DEF CloseDead, CloseLink, Retry
  <2>3. ASSUME NEW q \in Query, CloseDropped(q) PROVE OwnErrors
        BY <2>3 DEF CloseDropped, CloseLink, Hold
  <2> HIDE DEF TypeOK, QueryTypeOK, OwnErrors, OwnError
  <2>4. QED BY <1>2, <2>1, <2>2, <2>3 DEF CloseMove
<1>3. CASE DialMove
  <2>1. ASSUME NEW q \in Query, NEW d \in Dial, TakeSlot(q, d) PROVE OwnErrors
        BY <2>1 DEF TakeSlot, BeginDial
  <2>2. ASSUME NEW q \in Query, DialFailed(q) PROVE OwnErrors
        BY SMTT(60), <2>2 DEF DialFailed, Fail, Advance, QueryInv, Waiting, ErrorInv, StateInv
  <2>3. ASSUME NEW q \in Query, InstallRefused(q) PROVE OwnErrors
        BY <2>3 DEF InstallRefused, Replaced, Hold, Advance
  <2> HIDE DEF TypeOK, QueryTypeOK, OwnErrors, OwnError
  <2>4. QED BY <1>3, <2>1, <2>2, <2>3 DEF DialMove
<1>4. CASE PoolMove
  <2>1. ASSUME NEW q \in Query, SharedAlive(q) PROVE OwnErrors
        BY <2>1 DEF SharedAlive, TakeAlive, Return, Created
  <2>2. ASSUME NEW q \in Query, SharedDead(q) PROVE OwnErrors
        BY <2>2 DEF SharedDead, TakeDead, RemoveConn, CancelsShared, Hold
  <2>3. ASSUME NEW q \in Query, IdleAlive(q) PROVE OwnErrors
        BY <2>3 DEF IdleAlive, IdleRest, Return
  <2>4. ASSUME NEW q \in Query, IdleDead(q) PROVE OwnErrors
        BY <2>4 DEF IdleDead, IdleRest, Hold
  <2>5. ASSUME NEW q \in Query, ReleaseReuse(q) PROVE OwnErrors
        BY <2>5 DEF ReleaseReuse, Tracked, Hold
  <2>6. ASSUME NEW q \in Query, DropTracked(q) PROVE OwnErrors
        BY <2>6 DEF DropTracked, Tracked, RemoveConn, CancelsShared, Goto
  <2> HIDE DEF TypeOK, QueryTypeOK, OwnErrors, OwnError
  <2>7. QED BY <1>4, <2>1, <2>2, <2>3, <2>4, <2>5, <2>6 DEF PoolMove
<1>5. CASE StartMove
  <2>1. ASSUME NEW q \in Query, NEW d \in Dial, StartConnect(q, d) PROVE OwnErrors
        BY <2>1 DEF StartConnect, StartDial, BeginDial
  <2> HIDE DEF TypeOK, QueryTypeOK, OwnErrors, OwnError
  <2>2. QED BY <1>5, <2>1 DEF StartMove
<1>6. CASE InstallMove
  <2>1. ASSUME NEW q \in Query, InstallOrdered(q) PROVE OwnErrors
        BY <2>1 DEF InstallOrdered, Replaced, Return, Advance
  <2> HIDE DEF TypeOK, QueryTypeOK, OwnErrors, OwnError
  <2>2. QED BY <1>6, <2>1 DEF InstallMove
<1>7. CASE AttemptMove
      BY <1>7, AttemptMoveFrame
<1>8. CASE ConnectMove
      BY <1>8, ConnectMoveFrame
<1>9. CASE StateMove
      BY <1>9, StateMoveFrame
<1>10. CASE UNCHANGED vars
      BY <1>10 DEF vars
<1> HIDE DEF TypeOK, QueryTypeOK, OwnErrors, OwnError
<1>11. QED BY StepCases, <1>1, <1>2, <1>3, <1>4, <1>5, <1>6, <1>7, <1>8, <1>9, <1>10 DEF Step
=============================================================================
