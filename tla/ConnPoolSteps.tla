--------------------------- MODULE ConnPoolSteps ----------------------------
(***************************************************************************)
(* Every step of ConnPool preserves the parts of the inductive invariant   *)
(* that speak of states, queries, dials and slots.                         *)
(***************************************************************************)
EXTENDS ConnPoolMoves

USE ModeAssumption, BoundAssumption, NoneAssumption, ZenonT(40), SMTT(60)
USE DEF poolVars, linkVars, dialVars, queryVars, closed, Locals, Gen, Errors

(* p.state stays the one live generation. *)
LEMMA StateStep ==
    TypeOK /\ StateInv /\ QueryInv /\ DialInv /\ ModeInv /\ ErrorInv /\ SharedInv /\ [Next]_vars => StateInv'
<1> SUFFICES ASSUME TypeOK, StateInv, QueryInv, DialInv, ModeInv, ErrorInv, SharedInv, [Next]_vars PROVE StateInv'
    OBVIOUS
<1> USE DEF TypeOK, PoolTypeOK, StateInv
<1>1. CASE LocalMove
      BY <1>1, LocalMoveFrame
<1>2. CASE CloseMove
      BY <1>2, CloseMoveFrame
<1>3. CASE DialMove
      BY <1>3, DialMoveFrame
<1>4. CASE PoolMove
  <2>1. ASSUME NEW q \in Query, SharedAlive(q) PROVE StateInv'
        BY <2>1 DEF SharedAlive, TakeAlive, Return, Created
  <2>2. ASSUME NEW q \in Query, SharedDead(q) PROVE StateInv'
        BY <2>2 DEF SharedDead, TakeDead, RemoveConn, CancelsShared, Hold
  <2>3. ASSUME NEW q \in Query, IdleAlive(q) PROVE StateInv'
        BY <2>3 DEF IdleAlive, IdleRest, Return
  <2>4. ASSUME NEW q \in Query, IdleDead(q) PROVE StateInv'
        BY <2>4 DEF IdleDead, IdleRest, Hold
  <2>5. ASSUME NEW q \in Query, ReleaseReuse(q) PROVE StateInv'
        BY <2>5 DEF ReleaseReuse, Tracked, Hold
  <2>6. ASSUME NEW q \in Query, DropTracked(q) PROVE StateInv'
        BY <2>6 DEF DropTracked, Tracked, RemoveConn, CancelsShared, Goto
  <2> HIDE DEF TypeOK, PoolTypeOK, StateInv
  <2>7. QED BY <1>4, <2>1, <2>2, <2>3, <2>4, <2>5, <2>6 DEF PoolMove
<1>5. CASE StartMove
  <2>1. ASSUME NEW q \in Query, NEW d \in Dial, StartConnect(q, d) PROVE StateInv'
        BY <2>1 DEF StartConnect, StartDial, BeginDial
  <2> HIDE DEF TypeOK, PoolTypeOK, StateInv
  <2>2. QED BY <1>5, <2>1 DEF StartMove
<1>6. CASE InstallMove
  <2>1. ASSUME NEW q \in Query, InstallOrdered(q) PROVE StateInv'
        BY <2>1 DEF InstallOrdered, Replaced, Return, Advance
  <2> HIDE DEF TypeOK, PoolTypeOK, StateInv
  <2>2. QED BY <1>6, <2>1 DEF InstallMove
<1>7. CASE AttemptMove
      BY <1>7, AttemptMoveFrame
<1>8. CASE ConnectMove
  <2>1. ASSUME NEW d \in Dial, InstallFailed(d) PROVE StateInv'
        BY <2>1 DEF InstallFailed, DialOver, Advance
  <2>2. ASSUME NEW d \in Dial, InstallReplaced(d) PROVE StateInv'
        BY <2>2 DEF InstallReplaced, Replaced, DialOver, Advance
  <2>3. ASSUME NEW d \in Dial, InstallShared(d) PROVE StateInv'
        BY <2>3 DEF InstallShared, Replaced, DialOver, Advance
  <2> HIDE DEF TypeOK, PoolTypeOK, StateInv
  <2>4. QED BY <1>8, <2>1, <2>2, <2>3 DEF ConnectMove
<1>9. CASE StateMove
  <2>1. CASE Reset
        BY SMTT(60), <2>1 DEF Reset
  <2>2. CASE Close
        BY <2>2 DEF Close
  <2>3. ASSUME NEW g \in Gen, CancelState(g) PROVE StateInv'
        BY <2>3 DEF CancelState
  <2>4. ASSUME NEW g \in Gen, NEW c \in Conn, SweepConn(g, c) PROVE StateInv'
        BY <2>4 DEF SweepConn, CloseLink
  <2> HIDE DEF TypeOK, PoolTypeOK, StateInv
  <2>5. QED BY <1>9, <2>1, <2>2, <2>3, <2>4 DEF StateMove
<1>10. CASE UNCHANGED vars
      BY <1>10 DEF vars
<1> HIDE DEF TypeOK, PoolTypeOK, StateInv
<1>11. QED BY StepCases, <1>1, <1>2, <1>3, <1>4, <1>5, <1>6, <1>7, <1>8, <1>9, <1>10 DEF Step

(* The locals of a query stay in agreement with its label. *)
LEMMA QueryStep ==
    TypeOK /\ StateInv /\ QueryInv /\ DialInv /\ ModeInv /\ ErrorInv /\ SharedInv /\ [Next]_vars => QueryInv'
<1> SUFFICES ASSUME TypeOK, StateInv, QueryInv, DialInv, ModeInv, ErrorInv, SharedInv, [Next]_vars PROVE QueryInv'
    OBVIOUS
<1> USE DEF TypeOK, PoolTypeOK, DialTypeOK, QueryTypeOK, QueryInv, Holding, Waiting
<1>1. CASE LocalMove
  <2>1. ASSUME NEW q \in Query, Call(q) PROVE QueryInv'
        BY SMTT(60), <2>1 DEF Call, Goto
  <2>2. ASSUME NEW q \in Query, CtxDone(q) PROVE QueryInv'
        BY <2>2 DEF CtxDone
  <2>3. ASSUME NEW q \in Query, NEW err \in Errors, QuietFail(q, err) PROVE QueryInv'
        BY SMTT(60), <2>3 DEF QuietFail, Fail
  <2>4. ASSUME NEW q \in Query, QuietRetry(q) PROVE QueryInv'
        BY SMTT(60), <2>4 DEF QuietRetry, Retry
  <2>5. ASSUME NEW q \in Query, JoinConnect(q) PROVE QueryInv'
        BY SMTT(60), <2>5 DEF JoinConnect, StartDial, SharedInv, InProgress, StateInv
  <2>6. ASSUME NEW q \in Query, WaitDone(q) PROVE QueryInv'
        BY SMTT(60), <2>6 DEF WaitDone, Goto
  <2>7. ASSUME NEW q \in Query, WaitCancelled(q) PROVE QueryInv'
        BY SMTT(60), <2>7 DEF WaitCancelled, Goto
  <2>8. ASSUME NEW q \in Query, AcquireNone(q) PROVE QueryInv'
    <3>1. /\ Mode = "ordered" /\ pc[q] = "acquire" /\ state # 0
          /\ Locals(q, "slot", state, None, None)
          /\ UNCHANGED <<poolVars, linkVars, dialVars, slots, result>>
          BY <2>8 DEF AcquireNone
    <3>2. QED BY SMTT(60), <3>1 DEF StateInv
  <2>9. ASSUME NEW q \in Query, DropToClose(q) PROVE QueryInv'
        BY SMTT(60), <2>9 DEF DropToClose, Tracked, Goto
  <2>10. ASSUME NEW q \in Query, DropToEnd(q) PROVE QueryInv'
        BY SMTT(60), <2>10 DEF DropToEnd, Tracked, Hold
  <2> HIDE DEF TypeOK, PoolTypeOK, DialTypeOK, QueryTypeOK, QueryInv, Holding, Waiting
  <2>11. QED BY <1>1, <2>1, <2>2, <2>3, <2>4, <2>5, <2>6, <2>7, <2>8, <2>9, <2>10 DEF LocalMove
<1>2. CASE CloseMove
  <2>1. ASSUME NEW q \in Query, CloseNew(q) PROVE QueryInv'
        BY SMTT(60), <2>1 DEF CloseNew, CloseLink, Fail, SlotsLess
  <2>2. ASSUME NEW q \in Query, CloseDead(q) PROVE QueryInv'
        BY SMTT(60), <2>2 DEF CloseDead, CloseLink, Retry
  <2>3. ASSUME NEW q \in Query, CloseDropped(q) PROVE QueryInv'
        BY SMTT(60), <2>3 DEF CloseDropped, CloseLink, Hold
  <2> HIDE DEF TypeOK, PoolTypeOK, DialTypeOK, QueryTypeOK, QueryInv, Holding, Waiting
  <2>4. QED BY <1>2, <2>1, <2>2, <2>3 DEF CloseMove
<1>3. CASE DialMove
  <2>1. ASSUME NEW q \in Query, NEW d \in Dial, TakeSlot(q, d) PROVE QueryInv'
        BY SMTT(60), <2>1 DEF TakeSlot, BeginDial
  <2>2. ASSUME NEW q \in Query, DialFailed(q) PROVE QueryInv'
        BY SMTT(60), <2>2 DEF DialFailed, Fail, Advance
  <2>3. ASSUME NEW q \in Query, InstallRefused(q) PROVE QueryInv'
        BY SMTT(60), <2>3 DEF InstallRefused, Replaced, Hold, Advance, DialInv
  <2> HIDE DEF TypeOK, PoolTypeOK, DialTypeOK, QueryTypeOK, QueryInv, Holding, Waiting
  <2>4. QED BY <1>3, <2>1, <2>2, <2>3 DEF DialMove
<1>4. CASE PoolMove
  <2>1. ASSUME NEW q \in Query, SharedAlive(q) PROVE QueryInv'
        BY SMTT(60), <2>1 DEF SharedAlive, TakeAlive, Return, Created
  <2>2. ASSUME NEW q \in Query, SharedDead(q) PROVE QueryInv'
        BY SMTT(60), <2>2 DEF SharedDead, TakeDead, RemoveConn, CancelsShared, Hold, LinkTypeOK
  <2>3. ASSUME NEW q \in Query, IdleAlive(q) PROVE QueryInv'
        BY SMTT(60), <2>3 DEF IdleAlive, IdleRest, Return
  <2>4. ASSUME NEW q \in Query, IdleDead(q) PROVE QueryInv'
        BY SMTT(60), <2>4 DEF IdleDead, IdleRest, Hold
  <2>5. ASSUME NEW q \in Query, ReleaseReuse(q) PROVE QueryInv'
        BY SMTT(60), <2>5 DEF ReleaseReuse, Tracked, Hold
  <2>6. ASSUME NEW q \in Query, DropTracked(q) PROVE QueryInv'
        BY SMTT(60), <2>6 DEF DropTracked, Tracked, RemoveConn, CancelsShared, Goto
  <2> HIDE DEF TypeOK, PoolTypeOK, DialTypeOK, QueryTypeOK, QueryInv, Holding, Waiting
  <2>7. QED BY <1>4, <2>1, <2>2, <2>3, <2>4, <2>5, <2>6 DEF PoolMove
<1>5. CASE StartMove
  <2>1. ASSUME NEW q \in Query, NEW d \in Dial, StartConnect(q, d) PROVE QueryInv'
        BY SMTT(60), <2>1 DEF StartConnect, StartDial, BeginDial, StateInv
  <2> HIDE DEF TypeOK, PoolTypeOK, DialTypeOK, QueryTypeOK, QueryInv, Holding, Waiting
  <2>2. QED BY <1>5, <2>1 DEF StartMove
<1>6. CASE InstallMove
  <2>1. ASSUME NEW q \in Query, InstallOrdered(q) PROVE QueryInv'
        BY SMTT(60), <2>1 DEF InstallOrdered, Replaced, Return, Advance, DialInv
  <2> HIDE DEF TypeOK, PoolTypeOK, DialTypeOK, QueryTypeOK, QueryInv, Holding, Waiting
  <2>2. QED BY <1>6, <2>1 DEF InstallMove
<1>7. CASE AttemptMove
  <2>1. ASSUME NEW c \in Conn, ConnDies(c) PROVE QueryInv'
        BY <2>1 DEF ConnDies
  <2>2. ASSUME NEW d \in Dial, NEW c \in Conn, DialOk(d, c) PROVE QueryInv'
        BY SMTT(60), <2>2 DEF DialOk, Advance
  <2>3. ASSUME NEW d \in Dial, DialFail(d) PROVE QueryInv'
        BY SMTT(60), <2>3 DEF DialFail, Advance
  <2>4. ASSUME NEW d \in Dial, CheckOk(d) PROVE QueryInv'
        BY SMTT(60), <2>4 DEF CheckOk, Advance
  <2>5. ASSUME NEW d \in Dial, NEW err \in Errors, OverruledClose(d, err) PROVE QueryInv'
        BY SMTT(60), <2>5 DEF OverruledClose, Overruled, DialCtx, CloseLink, Advance
  <2>6. ASSUME NEW d \in Dial, NEW err \in Errors, OverruledNone(d, err) PROVE QueryInv'
        BY SMTT(60), <2>6 DEF OverruledNone, Overruled, DialCtx, Advance
  <2>7. ASSUME NEW d \in Dial, FinishClose(d) PROVE QueryInv'
        BY <2>7 DEF FinishClose, CloseLink, Advance, ModeInv
  <2>8. ASSUME NEW d \in Dial, FinishNone(d) PROVE QueryInv'
        BY <2>8 DEF FinishNone, Advance, ModeInv
  <2> HIDE DEF TypeOK, PoolTypeOK, DialTypeOK, QueryTypeOK, QueryInv, Holding, Waiting
  <2>9. QED BY <1>7, <2>1, <2>2, <2>3, <2>4, <2>5, <2>6, <2>7, <2>8 DEF AttemptMove
<1>8. CASE ConnectMove
  <2>1. ASSUME NEW d \in Dial, InstallFailed(d) PROVE QueryInv'
        BY SMTT(60), <2>1 DEF InstallFailed, DialOver, Advance
  <2>2. ASSUME NEW d \in Dial, InstallReplaced(d) PROVE QueryInv'
        BY SMTT(60), <2>2 DEF InstallReplaced, Replaced, DialOver, Advance
  <2>3. ASSUME NEW d \in Dial, InstallShared(d) PROVE QueryInv'
        BY SMTT(60), <2>3 DEF InstallShared, Replaced, DialOver, Advance
  <2> HIDE DEF TypeOK, PoolTypeOK, DialTypeOK, QueryTypeOK, QueryInv, Holding, Waiting
  <2>4. QED BY <1>8, <2>1, <2>2, <2>3 DEF ConnectMove
<1>9. CASE StateMove
  <2>1. CASE Reset
        BY SMTT(60), <2>1 DEF Reset
  <2>2. CASE Close
        BY SMTT(60), <2>2 DEF Close
  <2>3. ASSUME NEW g \in Gen, CancelState(g) PROVE QueryInv'
        BY SMTT(60), <2>3 DEF CancelState
  <2>4. ASSUME NEW g \in Gen, NEW c \in Conn, SweepConn(g, c) PROVE QueryInv'
        BY <2>4 DEF SweepConn, CloseLink
  <2> HIDE DEF TypeOK, PoolTypeOK, DialTypeOK, QueryTypeOK, QueryInv, Holding, Waiting
  <2>5. QED BY <1>9, <2>1, <2>2, <2>3, <2>4 DEF StateMove
<1>10. CASE UNCHANGED vars
      BY <1>10 DEF vars
<1> HIDE DEF TypeOK, PoolTypeOK, DialTypeOK, QueryTypeOK, QueryInv, Holding, Waiting
<1>11. QED BY StepCases, <1>1, <1>2, <1>3, <1>4, <1>5, <1>6, <1>7, <1>8, <1>9, <1>10 DEF Step

(* What a dial holds stays in agreement with its stage. *)
LEMMA DialStep ==
    TypeOK /\ StateInv /\ QueryInv /\ DialInv /\ ModeInv /\ ErrorInv /\ SharedInv /\ [Next]_vars => DialInv'
<1> SUFFICES ASSUME TypeOK, StateInv, QueryInv, DialInv, ModeInv, ErrorInv, SharedInv, [Next]_vars PROVE DialInv'
    OBVIOUS
<1> USE DEF TypeOK, PoolTypeOK, DialTypeOK, QueryTypeOK, DialInv
<1>1. CASE LocalMove
  <2>1. ASSUME NEW q \in Query, Call(q) PROVE DialInv'
        BY SMTT(60), <2>1 DEF Call, Goto
  <2>2. ASSUME NEW q \in Query, CtxDone(q) PROVE DialInv'
        BY <2>2 DEF CtxDone
  <2>3. ASSUME NEW q \in Query, NEW err \in Errors, QuietFail(q, err) PROVE DialInv'
        BY SMTT(60), <2>3 DEF QuietFail, Fail
  <2>4. ASSUME NEW q \in Query, QuietRetry(q) PROVE DialInv'
        BY SMTT(60), <2>4 DEF QuietRetry, Retry
  <2>5. ASSUME NEW q \in Query, JoinConnect(q) PROVE DialInv'
        BY SMTT(60), <2>5 DEF JoinConnect, StartDial, SharedInv, InProgress, StateInv
  <2>6. ASSUME NEW q \in Query, WaitDone(q) PROVE DialInv'
        BY SMTT(60), <2>6 DEF WaitDone, Goto
  <2>7. ASSUME NEW q \in Query, WaitCancelled(q) PROVE DialInv'
        BY SMTT(60), <2>7 DEF WaitCancelled, Goto
  <2>8. ASSUME NEW q \in Query, AcquireNone(q) PROVE DialInv'
    <3>1. /\ Mode = "ordered" /\ pc[q] = "acquire" /\ state # 0
          /\ Locals(q, "slot", state, None, None)
          /\ UNCHANGED <<poolVars, linkVars, dialVars, slots, result>>
          BY <2>8 DEF AcquireNone
    <3>2. QED BY SMTT(60), <3>1
  <2>9. ASSUME NEW q \in Query, DropToClose(q) PROVE DialInv'
        BY SMTT(60), <2>9 DEF DropToClose, Tracked, Goto
  <2>10. ASSUME NEW q \in Query, DropToEnd(q) PROVE DialInv'
        BY SMTT(60), <2>10 DEF DropToEnd, Tracked, Hold
  <2> HIDE DEF TypeOK, PoolTypeOK, DialTypeOK, QueryTypeOK, DialInv
  <2>11. QED BY <1>1, <2>1, <2>2, <2>3, <2>4, <2>5, <2>6, <2>7, <2>8, <2>9, <2>10 DEF LocalMove
<1>2. CASE CloseMove
  <2>1. ASSUME NEW q \in Query, CloseNew(q) PROVE DialInv'
        BY SMTT(60), <2>1 DEF CloseNew, CloseLink, Fail, SlotsLess
  <2>2. ASSUME NEW q \in Query, CloseDead(q) PROVE DialInv'
        BY SMTT(60), <2>2 DEF CloseDead, CloseLink, Retry
  <2>3. ASSUME NEW q \in Query, CloseDropped(q) PROVE DialInv'
        BY SMTT(60), <2>3 DEF CloseDropped, CloseLink, Hold
  <2> HIDE DEF TypeOK, PoolTypeOK, DialTypeOK, QueryTypeOK, DialInv
  <2>4. QED BY <1>2, <2>1, <2>2, <2>3 DEF CloseMove
<1>3. CASE DialMove
  <2>1. ASSUME NEW q \in Query, NEW d \in Dial, TakeSlot(q, d) PROVE DialInv'
        BY SMTT(60), <2>1 DEF TakeSlot, BeginDial, QueryInv, Waiting
  <2>2. ASSUME NEW q \in Query, DialFailed(q) PROVE DialInv'
        BY SMTT(60), <2>2 DEF DialFailed, Fail, Advance
  <2>3. ASSUME NEW q \in Query, InstallRefused(q) PROVE DialInv'
        BY SMTT(60), <2>3 DEF InstallRefused, Replaced, Hold, Advance
  <2> HIDE DEF TypeOK, PoolTypeOK, DialTypeOK, QueryTypeOK, DialInv
  <2>4. QED BY <1>3, <2>1, <2>2, <2>3 DEF DialMove
<1>4. CASE PoolMove
  <2>1. ASSUME NEW q \in Query, SharedAlive(q) PROVE DialInv'
        BY SMTT(60), <2>1 DEF SharedAlive, TakeAlive, Return, Created
  <2>2. ASSUME NEW q \in Query, SharedDead(q) PROVE DialInv'
        BY SMTT(60), <2>2 DEF SharedDead, TakeDead, RemoveConn, CancelsShared, Hold
  <2>3. ASSUME NEW q \in Query, IdleAlive(q) PROVE DialInv'
        BY SMTT(60), <2>3 DEF IdleAlive, IdleRest, Return
  <2>4. ASSUME NEW q \in Query, IdleDead(q) PROVE DialInv'
        BY SMTT(60), <2>4 DEF IdleDead, IdleRest, Hold
  <2>5. ASSUME NEW q \in Query, ReleaseReuse(q) PROVE DialInv'
        BY SMTT(60), <2>5 DEF ReleaseReuse, Tracked, Hold
  <2>6. ASSUME NEW q \in Query, DropTracked(q) PROVE DialInv'
        BY SMTT(60), <2>6 DEF DropTracked, Tracked, RemoveConn, CancelsShared, Goto
  <2> HIDE DEF TypeOK, PoolTypeOK, DialTypeOK, QueryTypeOK, DialInv
  <2>7. QED BY <1>4, <2>1, <2>2, <2>3, <2>4, <2>5, <2>6 DEF PoolMove
<1>5. CASE StartMove
  <2>1. ASSUME NEW q \in Query, NEW d \in Dial, StartConnect(q, d) PROVE DialInv'
        BY SMTT(60), <2>1 DEF StartConnect, StartDial, BeginDial, StateInv
  <2> HIDE DEF TypeOK, PoolTypeOK, DialTypeOK, QueryTypeOK, DialInv
  <2>2. QED BY <1>5, <2>1 DEF StartMove
<1>6. CASE InstallMove
  <2>1. ASSUME NEW q \in Query, InstallOrdered(q) PROVE DialInv'
        BY SMTT(60), <2>1 DEF InstallOrdered, Replaced, Return, Advance
  <2> HIDE DEF TypeOK, PoolTypeOK, DialTypeOK, QueryTypeOK, DialInv
  <2>2. QED BY <1>6, <2>1 DEF InstallMove
<1>7. CASE AttemptMove
  <2>1. ASSUME NEW c \in Conn, ConnDies(c) PROVE DialInv'
        BY <2>1 DEF ConnDies
  <2>2. ASSUME NEW d \in Dial, NEW c \in Conn, DialOk(d, c) PROVE DialInv'
        BY SMTT(60), <2>2 DEF DialOk, Advance
  <2>3. ASSUME NEW d \in Dial, DialFail(d) PROVE DialInv'
        BY SMTT(60), <2>3 DEF DialFail, Advance
  <2>4. ASSUME NEW d \in Dial, CheckOk(d) PROVE DialInv'
        BY SMTT(60), <2>4 DEF CheckOk, Advance
  <2>5. ASSUME NEW d \in Dial, NEW err \in Errors, OverruledClose(d, err) PROVE DialInv'
        BY SMTT(60), <2>5 DEF OverruledClose, Overruled, DialCtx, CloseLink, Advance
  <2>6. ASSUME NEW d \in Dial, NEW err \in Errors, OverruledNone(d, err) PROVE DialInv'
        BY SMTT(60), <2>6 DEF OverruledNone, Overruled, DialCtx, Advance
  <2>7. ASSUME NEW d \in Dial, FinishClose(d) PROVE DialInv'
        BY SMTT(60), <2>7 DEF FinishClose, CloseLink, Advance
  <2>8. ASSUME NEW d \in Dial, FinishNone(d) PROVE DialInv'
        BY SMTT(60), <2>8 DEF FinishNone, Advance
  <2> HIDE DEF TypeOK, PoolTypeOK, DialTypeOK, QueryTypeOK, DialInv
  <2>9. QED BY <1>7, <2>1, <2>2, <2>3, <2>4, <2>5, <2>6, <2>7, <2>8 DEF AttemptMove
<1>8. CASE ConnectMove
  <2>1. ASSUME NEW d \in Dial, InstallFailed(d) PROVE DialInv'
        BY SMTT(60), <2>1 DEF InstallFailed, DialOver, Advance
  <2>2. ASSUME NEW d \in Dial, InstallReplaced(d) PROVE DialInv'
        BY <2>2 DEF InstallReplaced, Replaced, DialOver, Advance
  <2>3. ASSUME NEW d \in Dial, InstallShared(d) PROVE DialInv'
        BY SMTT(60), <2>3 DEF InstallShared, Replaced, DialOver, Advance
  <2> HIDE DEF TypeOK, PoolTypeOK, DialTypeOK, QueryTypeOK, DialInv
  <2>4. QED BY <1>8, <2>1, <2>2, <2>3 DEF ConnectMove
<1>9. CASE StateMove
  <2>1. CASE Reset
        BY SMTT(60), <2>1 DEF Reset
  <2>2. CASE Close
        BY SMTT(60), <2>2 DEF Close
  <2>3. ASSUME NEW g \in Gen, CancelState(g) PROVE DialInv'
        BY SMTT(60), <2>3 DEF CancelState
  <2>4. ASSUME NEW g \in Gen, NEW c \in Conn, SweepConn(g, c) PROVE DialInv'
        BY <2>4 DEF SweepConn, CloseLink
  <2> HIDE DEF TypeOK, PoolTypeOK, DialTypeOK, QueryTypeOK, DialInv
  <2>5. QED BY <1>9, <2>1, <2>2, <2>3, <2>4 DEF StateMove
<1>10. CASE UNCHANGED vars
      BY <1>10 DEF vars
<1> HIDE DEF TypeOK, PoolTypeOK, DialTypeOK, QueryTypeOK, DialInv
<1>11. QED BY StepCases, <1>1, <1>2, <1>3, <1>4, <1>5, <1>6, <1>7, <1>8, <1>9, <1>10 DEF Step

(* The modes stay apart. *)
LEMMA ModeStep ==
    TypeOK /\ StateInv /\ QueryInv /\ DialInv /\ ModeInv /\ ErrorInv /\ SharedInv /\ [Next]_vars => ModeInv'
<1> SUFFICES ASSUME TypeOK, StateInv, QueryInv, DialInv, ModeInv, ErrorInv, SharedInv, [Next]_vars PROVE ModeInv'
    OBVIOUS
<1> USE DEF TypeOK, PoolTypeOK, DialTypeOK, QueryTypeOK, ModeInv
<1>1. CASE LocalMove
  <2>1. ASSUME NEW q \in Query, Call(q) PROVE ModeInv'
        BY <2>1 DEF Call, Goto
  <2>2. ASSUME NEW q \in Query, CtxDone(q) PROVE ModeInv'
        BY <2>2 DEF CtxDone
  <2>3. ASSUME NEW q \in Query, NEW err \in Errors, QuietFail(q, err) PROVE ModeInv'
        BY <2>3 DEF QuietFail, Fail
  <2>4. ASSUME NEW q \in Query, QuietRetry(q) PROVE ModeInv'
        BY <2>4 DEF QuietRetry, Retry
  <2>5. ASSUME NEW q \in Query, JoinConnect(q) PROVE ModeInv'
        BY <2>5 DEF JoinConnect, StartDial
  <2>6. ASSUME NEW q \in Query, WaitDone(q) PROVE ModeInv'
        BY <2>6 DEF WaitDone, Goto
  <2>7. ASSUME NEW q \in Query, WaitCancelled(q) PROVE ModeInv'
        BY <2>7 DEF WaitCancelled, Goto
  <2>8. ASSUME NEW q \in Query, AcquireNone(q) PROVE ModeInv'
        BY <2>8 DEF AcquireNone
  <2>9. ASSUME NEW q \in Query, DropToClose(q) PROVE ModeInv'
        BY <2>9 DEF DropToClose, Tracked, Goto
  <2>10. ASSUME NEW q \in Query, DropToEnd(q) PROVE ModeInv'
        BY <2>10 DEF DropToEnd, Tracked, Hold
  <2> HIDE DEF TypeOK, PoolTypeOK, DialTypeOK, QueryTypeOK, ModeInv
  <2>11. QED BY <1>1, <2>1, <2>2, <2>3, <2>4, <2>5, <2>6, <2>7, <2>8, <2>9, <2>10 DEF LocalMove
<1>2. CASE CloseMove
  <2>1. ASSUME NEW q \in Query, CloseNew(q) PROVE ModeInv'
        BY <2>1 DEF CloseNew, CloseLink, Fail, SlotsLess
  <2>2. ASSUME NEW q \in Query, CloseDead(q) PROVE ModeInv'
        BY <2>2 DEF CloseDead, CloseLink, Retry
  <2>3. ASSUME NEW q \in Query, CloseDropped(q) PROVE ModeInv'
        BY <2>3 DEF CloseDropped, CloseLink, Hold
  <2> HIDE DEF TypeOK, PoolTypeOK, DialTypeOK, QueryTypeOK, ModeInv
  <2>4. QED BY <1>2, <2>1, <2>2, <2>3 DEF CloseMove
<1>3. CASE DialMove
  <2>1. ASSUME NEW q \in Query, NEW d \in Dial, TakeSlot(q, d) PROVE ModeInv'
        BY <2>1 DEF TakeSlot, BeginDial
  <2>2. ASSUME NEW q \in Query, DialFailed(q) PROVE ModeInv'
        BY SMTT(60), <2>2 DEF DialFailed, Fail, Advance
  <2>3. ASSUME NEW q \in Query, InstallRefused(q) PROVE ModeInv'
        BY SMTT(60), <2>3 DEF InstallRefused, Replaced, Hold, Advance
  <2> HIDE DEF TypeOK, PoolTypeOK, DialTypeOK, QueryTypeOK, ModeInv
  <2>4. QED BY <1>3, <2>1, <2>2, <2>3 DEF DialMove
<1>4. CASE PoolMove
  <2>1. ASSUME NEW q \in Query, SharedAlive(q) PROVE ModeInv'
        BY <2>1 DEF SharedAlive, TakeAlive, Return, Created
  <2>2. ASSUME NEW q \in Query, SharedDead(q) PROVE ModeInv'
        BY <2>2, WithoutEmpty DEF SharedDead, TakeDead, RemoveConn, CancelsShared, Hold, LinkTypeOK
  <2>3. ASSUME NEW q \in Query, IdleAlive(q) PROVE ModeInv'
        BY <2>3 DEF IdleAlive, IdleRest, Return
  <2>4. ASSUME NEW q \in Query, IdleDead(q) PROVE ModeInv'
        BY <2>4 DEF IdleDead, IdleRest, Hold
  <2>5. ASSUME NEW q \in Query, ReleaseReuse(q) PROVE ModeInv'
        BY <2>5 DEF ReleaseReuse, Tracked, Hold
  <2>6. ASSUME NEW q \in Query, DropTracked(q) PROVE ModeInv'
    <3>1. conn[q] \in Conn
          BY SMTT(60), <2>6 DEF DropTracked, QueryInv, Holding
    <3>2. Mode = "single" => Without(idle[state], conn[q]) = <<>>
          BY <2>6, <3>1, WithoutEmpty DEF DropTracked, Tracked, StateInv
    <3>3. QED BY ZenonT(60), <2>6, <3>1, <3>2 DEF DropTracked, Tracked, RemoveConn, CancelsShared, Goto
  <2> HIDE DEF TypeOK, PoolTypeOK, DialTypeOK, QueryTypeOK, ModeInv
  <2>7. QED BY <1>4, <2>1, <2>2, <2>3, <2>4, <2>5, <2>6 DEF PoolMove
<1>5. CASE StartMove
  <2>1. ASSUME NEW q \in Query, NEW d \in Dial, StartConnect(q, d) PROVE ModeInv'
        BY <2>1 DEF StartConnect, StartDial, BeginDial
  <2> HIDE DEF TypeOK, PoolTypeOK, DialTypeOK, QueryTypeOK, ModeInv
  <2>2. QED BY <1>5, <2>1 DEF StartMove
<1>6. CASE InstallMove
  <2>1. ASSUME NEW q \in Query, InstallOrdered(q) PROVE ModeInv'
        BY SMTT(60), <2>1 DEF InstallOrdered, Replaced, Return, Advance
  <2> HIDE DEF TypeOK, PoolTypeOK, DialTypeOK, QueryTypeOK, ModeInv
  <2>2. QED BY <1>6, <2>1 DEF InstallMove
<1>7. CASE AttemptMove
  <2>1. ASSUME NEW c \in Conn, ConnDies(c) PROVE ModeInv'
        BY <2>1 DEF ConnDies
  <2>2. ASSUME NEW d \in Dial, NEW c \in Conn, DialOk(d, c) PROVE ModeInv'
        BY <2>2 DEF DialOk, Advance
  <2>3. ASSUME NEW d \in Dial, DialFail(d) PROVE ModeInv'
        BY <2>3 DEF DialFail, Advance
  <2>4. ASSUME NEW d \in Dial, CheckOk(d) PROVE ModeInv'
        BY <2>4 DEF CheckOk, Advance
  <2>5. ASSUME NEW d \in Dial, NEW err \in Errors, OverruledClose(d, err) PROVE ModeInv'
        BY <2>5 DEF OverruledClose, Overruled, DialCtx, CloseLink, Advance
  <2>6. ASSUME NEW d \in Dial, NEW err \in Errors, OverruledNone(d, err) PROVE ModeInv'
        BY <2>6 DEF OverruledNone, Overruled, DialCtx, Advance
  <2>7. ASSUME NEW d \in Dial, FinishClose(d) PROVE ModeInv'
        BY <2>7 DEF FinishClose, CloseLink, Advance
  <2>8. ASSUME NEW d \in Dial, FinishNone(d) PROVE ModeInv'
        BY <2>8 DEF FinishNone, Advance
  <2> HIDE DEF TypeOK, PoolTypeOK, DialTypeOK, QueryTypeOK, ModeInv
  <2>9. QED BY <1>7, <2>1, <2>2, <2>3, <2>4, <2>5, <2>6, <2>7, <2>8 DEF AttemptMove
<1>8. CASE ConnectMove
  <2>1. ASSUME NEW d \in Dial, InstallFailed(d) PROVE ModeInv'
        BY <2>1 DEF InstallFailed, DialOver, Advance
  <2>2. ASSUME NEW d \in Dial, InstallReplaced(d) PROVE ModeInv'
        BY <2>2 DEF InstallReplaced, Replaced, DialOver, Advance
  <2>3. ASSUME NEW d \in Dial, InstallShared(d) PROVE ModeInv'
        BY <2>3 DEF InstallShared, Replaced, DialOver, Advance
  <2> HIDE DEF TypeOK, PoolTypeOK, DialTypeOK, QueryTypeOK, ModeInv
  <2>4. QED BY <1>8, <2>1, <2>2, <2>3 DEF ConnectMove
<1>9. CASE StateMove
      BY <1>9, StateMoveFrame
<1>10. CASE UNCHANGED vars
      BY <1>10 DEF vars
<1> HIDE DEF TypeOK, PoolTypeOK, DialTypeOK, QueryTypeOK, ModeInv
<1>11. QED BY StepCases, <1>1, <1>2, <1>3, <1>4, <1>5, <1>6, <1>7, <1>8, <1>9, <1>10 DEF Step

(* Slots are taken and given back with the labels. *)
LEMMA SlotStep ==
    TypeOK /\ StateInv /\ QueryInv /\ ModeInv /\ ErrorInv /\ [Next]_vars => SlotsMove
<1> SUFFICES ASSUME TypeOK, StateInv, QueryInv, ModeInv, ErrorInv, [Next]_vars PROVE SlotsMove
    OBVIOUS
<1> USE DEF TypeOK, QueryTypeOK, SlotsMove
<1>1. CASE LocalMove
  <2>1. ASSUME NEW q \in Query, Call(q) PROVE SlotsMove
    <3>1. SlotHolders' = SlotHolders /\ slots' = slots
          BY <2>1 DEF Call, Goto, SlotHolders
    <3>2. QED BY <3>1
  <2>2. ASSUME NEW q \in Query, CtxDone(q) PROVE SlotsMove
    <3>1. SlotHolders' = SlotHolders /\ slots' = slots
          BY <2>2 DEF CtxDone, SlotHolders
    <3>2. QED BY <3>1
  <2>3. ASSUME NEW q \in Query, NEW err \in Errors, QuietFail(q, err) PROVE SlotsMove
    <3>1. SlotHolders' = SlotHolders /\ slots' = slots
          BY <2>3 DEF QuietFail, Fail, SlotHolders
    <3>2. QED BY <3>1
  <2>4. ASSUME NEW q \in Query, QuietRetry(q) PROVE SlotsMove
    <3>1. SlotHolders' = SlotHolders /\ slots' = slots
          BY <2>4 DEF QuietRetry, Retry, SlotHolders
    <3>2. QED BY <3>1
  <2>5. ASSUME NEW q \in Query, JoinConnect(q) PROVE SlotsMove
    <3>1. SlotHolders' = SlotHolders /\ slots' = slots
          BY <2>5 DEF JoinConnect, StartDial, SlotHolders
    <3>2. QED BY <3>1
  <2>6. ASSUME NEW q \in Query, WaitDone(q) PROVE SlotsMove
    <3>1. SlotHolders' = SlotHolders /\ slots' = slots
          BY <2>6 DEF WaitDone, Goto, SlotHolders
    <3>2. QED BY <3>1
  <2>7. ASSUME NEW q \in Query, WaitCancelled(q) PROVE SlotsMove
    <3>1. SlotHolders' = SlotHolders /\ slots' = slots
          BY <2>7 DEF WaitCancelled, Goto, SlotHolders
    <3>2. QED BY <3>1
  <2>8. ASSUME NEW q \in Query, AcquireNone(q) PROVE SlotsMove
    <3>1. SlotHolders' = SlotHolders /\ slots' = slots
          BY <2>8 DEF AcquireNone, SlotHolders
    <3>2. QED BY <3>1
  <2>9. ASSUME NEW q \in Query, DropToClose(q) PROVE SlotsMove
    <3>1. SlotHolders' = SlotHolders /\ slots' = slots
          BY <2>9 DEF DropToClose, Tracked, Goto, SlotHolders
    <3>2. QED BY <3>1
  <2>10. ASSUME NEW q \in Query, DropToEnd(q) PROVE SlotsMove
    <3>1. SlotHolders' = SlotHolders /\ slots' = slots
          BY <2>10 DEF DropToEnd, Tracked, Hold, SlotHolders
    <3>2. QED BY <3>1
  <2> HIDE DEF TypeOK, QueryTypeOK, SlotsMove
  <2>11. QED BY <1>1, <2>1, <2>2, <2>3, <2>4, <2>5, <2>6, <2>7, <2>8, <2>9, <2>10 DEF LocalMove
<1>2. CASE CloseMove
  <2>1. ASSUME NEW q \in Query, CloseNew(q) PROVE SlotsMove
    <3>1. q \in SlotHolders /\ SlotHolders' = SlotHolders \ {q} /\ slots' = slots - 1
          BY <2>1 DEF CloseNew, Fail, SlotsLess, SlotHolders
    <3>2. QED BY <3>1
  <2>2. ASSUME NEW q \in Query, CloseDead(q) PROVE SlotsMove
    <3>1. SlotHolders' = SlotHolders /\ slots' = slots
          BY <2>2 DEF CloseDead, CloseLink, Retry, SlotHolders
    <3>2. QED BY <3>1
  <2>3. ASSUME NEW q \in Query, CloseDropped(q) PROVE SlotsMove
    <3>1. SlotHolders' = SlotHolders /\ slots' = slots
          BY <2>3 DEF CloseDropped, CloseLink, Hold, SlotHolders
    <3>2. QED BY <3>1
  <2> HIDE DEF TypeOK, QueryTypeOK, SlotsMove
  <2>4. QED BY <1>2, <2>1, <2>2, <2>3 DEF CloseMove
<1>3. CASE DialMove
  <2>1. ASSUME NEW q \in Query, NEW d \in Dial, TakeSlot(q, d) PROVE SlotsMove
    <3>1. q \notin SlotHolders /\ SlotHolders' = SlotHolders \cup {q} /\ slots' = slots + 1
          BY SMTT(60), <2>1 DEF TakeSlot, SlotHolders
    <3>2. QED BY <3>1
  <2>2. ASSUME NEW q \in Query, DialFailed(q) PROVE SlotsMove
    <3>1. q \in SlotHolders /\ SlotHolders' = SlotHolders \ {q} /\ slots' = slots - 1
          BY <2>2 DEF DialFailed, Fail, SlotHolders
    <3>2. QED BY <3>1
  <2>3. ASSUME NEW q \in Query, InstallRefused(q) PROVE SlotsMove
    <3>1. SlotHolders' = SlotHolders /\ slots' = slots
          BY <2>3 DEF InstallRefused, Replaced, Hold, Advance, SlotHolders
    <3>2. QED BY <3>1
  <2> HIDE DEF TypeOK, QueryTypeOK, SlotsMove
  <2>4. QED BY <1>3, <2>1, <2>2, <2>3 DEF DialMove
<1>4. CASE PoolMove
  <2>1. ASSUME NEW q \in Query, SharedAlive(q) PROVE SlotsMove
    <3>1. SlotHolders' = SlotHolders /\ slots' = slots
          BY <2>1 DEF SharedAlive, TakeAlive, Return, Created, SlotHolders
    <3>2. QED BY <3>1
  <2>2. ASSUME NEW q \in Query, SharedDead(q) PROVE SlotsMove
    <3>1. SlotHolders' = SlotHolders /\ slots' = slots
          BY <2>2 DEF SharedDead, TakeDead, RemoveConn, CancelsShared, Hold, SlotHolders
    <3>2. QED BY <3>1
  <2>3. ASSUME NEW q \in Query, IdleAlive(q) PROVE SlotsMove
    <3>1. SlotHolders' = SlotHolders /\ slots' = slots
          BY <2>3 DEF IdleAlive, IdleRest, Return, SlotHolders
    <3>2. QED BY <3>1
  <2>4. ASSUME NEW q \in Query, IdleDead(q) PROVE SlotsMove
    <3>1. SlotHolders' = SlotHolders /\ slots' = slots
          BY <2>4 DEF IdleDead, IdleRest, Hold, SlotHolders
    <3>2. QED BY <3>1
  <2>5. ASSUME NEW q \in Query, ReleaseReuse(q) PROVE SlotsMove
    <3>1. SlotHolders' = SlotHolders /\ slots' = slots
          BY <2>5 DEF ReleaseReuse, Tracked, Hold, SlotHolders
    <3>2. QED BY <3>1
  <2>6. ASSUME NEW q \in Query, DropTracked(q) PROVE SlotsMove
    <3>1. SlotHolders' = SlotHolders /\ slots' = slots
          BY <2>6 DEF DropTracked, Tracked, RemoveConn, CancelsShared, Goto, SlotHolders
    <3>2. QED BY <3>1
  <2> HIDE DEF TypeOK, QueryTypeOK, SlotsMove
  <2>7. QED BY <1>4, <2>1, <2>2, <2>3, <2>4, <2>5, <2>6 DEF PoolMove
<1>5. CASE StartMove
  <2>1. ASSUME NEW q \in Query, NEW d \in Dial, StartConnect(q, d) PROVE SlotsMove
    <3>1. SlotHolders' = SlotHolders /\ slots' = slots
          BY <2>1 DEF StartConnect, StartDial, BeginDial, SlotHolders
    <3>2. QED BY <3>1
  <2> HIDE DEF TypeOK, QueryTypeOK, SlotsMove
  <2>2. QED BY <1>5, <2>1 DEF StartMove
<1>6. CASE InstallMove
  <2>1. ASSUME NEW q \in Query, InstallOrdered(q) PROVE SlotsMove
    <3>1. q \in SlotHolders /\ SlotHolders' = SlotHolders \ {q} /\ slots' = slots - 1
          BY <2>1 DEF InstallOrdered, Return, SlotHolders
    <3>2. QED BY <3>1
  <2> HIDE DEF TypeOK, QueryTypeOK, SlotsMove
  <2>2. QED BY <1>6, <2>1 DEF InstallMove
<1>7. CASE AttemptMove
      BY <1>7, AttemptMoveFrame DEF SlotHolders
<1>8. CASE ConnectMove
      BY <1>8, ConnectMoveFrame DEF SlotHolders
<1>9. CASE StateMove
      BY <1>9, StateMoveFrame DEF SlotHolders
<1>10. CASE UNCHANGED vars
      BY <1>10 DEF vars, SlotHolders
<1> HIDE DEF TypeOK, QueryTypeOK, SlotsMove
<1>11. QED BY StepCases, <1>1, <1>2, <1>3, <1>4, <1>5, <1>6, <1>7, <1>8, <1>9, <1>10 DEF Step
=============================================================================
