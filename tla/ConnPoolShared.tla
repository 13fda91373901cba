--------------------------- MODULE ConnPoolShared ---------------------------
(***************************************************************************)
(* Every step of ConnPool preserves the parts of the inductive invariant   *)
(* about the shared connection of a generation and about the reason for    *)
(* which a query fails.                                                    *)
(***************************************************************************)
EXTENDS ConnPoolMoves

USE ModeAssumption, BoundAssumption, NoneAssumption, ZenonT(40), SMTT(60)
USE DEF poolVars, linkVars, dialVars, queryVars, closed, Locals, Gen, Errors

(* A generation has one connection or one dial. *)
LEMMA SharedStep ==
    TypeOK /\ StateInv /\ QueryInv /\ DialInv /\ ModeInv /\ ErrorInv /\ SharedInv /\ PlaceInv /\ [Next]_vars => SharedInv'
<1> SUFFICES ASSUME TypeOK, StateInv, QueryInv, DialInv, ModeInv, ErrorInv, SharedInv, PlaceInv, [Next]_vars PROVE SharedInv'
    OBVIOUS
<1> USE DEF SharedInv, InProgress
<1>1. CASE LocalMove
  <2>1. UNCHANGED <<poolVars, linkVars, dialVars, slots>> /\ HandsKept
        BY <1>1, LocalMoveFrame, LocalHands DEF TypeOK, PoolTypeOK, LinkTypeOK, DialTypeOK, QueryTypeOK
  <2>2. QED BY SMTT(60), <2>1 DEF HandsKept
<1>2. CASE CloseMove
  <2>1. ASSUME NEW q \in Query, CloseNew(q) PROVE SharedInv'
        BY SMTT(60), <2>1 DEF CloseNew, CloseLink, Fail, SlotsLess, TypeOK, PoolTypeOK, LinkTypeOK, DialTypeOK, QueryTypeOK
  <2>2. ASSUME NEW q \in Query, CloseDead(q) PROVE SharedInv'
        BY SMTT(60), <2>2 DEF CloseDead, CloseLink, Retry, TypeOK, PoolTypeOK, LinkTypeOK, DialTypeOK, QueryTypeOK
  <2>3. ASSUME NEW q \in Query, CloseDropped(q) PROVE SharedInv'
        BY SMTT(60), <2>3 DEF CloseDropped, CloseLink, Hold, TypeOK, PoolTypeOK, LinkTypeOK, DialTypeOK, QueryTypeOK
  <2> HIDE DEF SharedInv, InProgress
  <2>4. QED BY <1>2, <2>1, <2>2, <2>3 DEF CloseMove
<1>3. CASE DialMove
  <2>1. ASSUME NEW q \in Query, NEW d \in Dial, TakeSlot(q, d) PROVE SharedInv'
        BY <2>1 DEF TakeSlot, BeginDial, ModeInv, TypeOK, PoolTypeOK, LinkTypeOK, DialTypeOK, QueryTypeOK
  <2>2. ASSUME NEW q \in Query, DialFailed(q) PROVE SharedInv'
        BY <2>2 DEF DialFailed, Fail, Advance, ModeInv, TypeOK, PoolTypeOK, LinkTypeOK, DialTypeOK, QueryTypeOK
  <2>3. ASSUME NEW q \in Query, InstallRefused(q) PROVE SharedInv'
        BY <2>3 DEF InstallRefused, Replaced, Hold, Advance, ModeInv, TypeOK, PoolTypeOK, LinkTypeOK, DialTypeOK, QueryTypeOK
  <2> HIDE DEF SharedInv, InProgress
  <2>4. QED BY <1>3, <2>1, <2>2, <2>3 DEF DialMove
<1>4. CASE PoolMove
  <2>1. ASSUME NEW q \in Query, SharedAlive(q) PROVE SharedInv'
        BY SMTT(60), <2>1 DEF SharedAlive, TakeAlive, Return, Created, StateInv, TypeOK, PoolTypeOK, LinkTypeOK, DialTypeOK, QueryTypeOK
  <2>2. ASSUME NEW q \in Query, SharedDead(q) PROVE SharedInv'
        BY SMTT(60), <2>2 DEF SharedDead, TakeDead, RemoveConn, CancelsShared, Hold, StateInv, QueryInv, Holding, TypeOK, PoolTypeOK, LinkTypeOK, DialTypeOK, QueryTypeOK
  <2>3. ASSUME NEW q \in Query, IdleAlive(q) PROVE SharedInv'
        BY <2>3 DEF IdleAlive, IdleRest, Return, TypeOK, PoolTypeOK, LinkTypeOK, DialTypeOK, QueryTypeOK
  <2>4. ASSUME NEW q \in Query, IdleDead(q) PROVE SharedInv'
        BY <2>4 DEF IdleDead, IdleRest, Hold, TypeOK, PoolTypeOK, LinkTypeOK, DialTypeOK, QueryTypeOK
  <2>5. ASSUME NEW q \in Query, ReleaseReuse(q) PROVE SharedInv'
        BY SMTT(60), <2>5 DEF ReleaseReuse, Tracked, Hold, TypeOK, PoolTypeOK, LinkTypeOK, DialTypeOK, QueryTypeOK
  <2>6. ASSUME NEW q \in Query, DropTracked(q) PROVE SharedInv'
        BY SMTT(60), <2>6 DEF DropTracked, Tracked, RemoveConn, CancelsShared, Goto, StateInv, Tracked, QueryInv, Holding, TypeOK, PoolTypeOK, LinkTypeOK, DialTypeOK, QueryTypeOK
  <2> HIDE DEF SharedInv, InProgress
  <2>7. QED BY <1>4, <2>1, <2>2, <2>3, <2>4, <2>5, <2>6 DEF PoolMove
<1>5. CASE StartMove
  <2>1. ASSUME NEW q \in Query, NEW d \in Dial, StartConnect(q, d) PROVE SharedInv'
        BY SMTT(60), <2>1 DEF StartConnect, StartDial, BeginDial, StateInv, TypeOK, PoolTypeOK, DialTypeOK, QueryTypeOK
  <2> HIDE DEF SharedInv, InProgress
  <2>2. QED BY <1>5, <2>1 DEF StartMove
<1>6. CASE InstallMove
  <2>1. ASSUME NEW q \in Query, InstallOrdered(q) PROVE SharedInv'
        BY <2>1 DEF InstallOrdered, Replaced, Return, Advance, ModeInv, TypeOK, PoolTypeOK, LinkTypeOK, DialTypeOK, QueryTypeOK
  <2> HIDE DEF SharedInv, InProgress
  <2>2. QED BY <1>6, <2>1 DEF InstallMove
<1>7. CASE AttemptMove
  <2>1. ASSUME NEW c \in Conn, ConnDies(c) PROVE SharedInv'
        BY SMTT(60), <2>1 DEF ConnDies, TypeOK, PoolTypeOK, LinkTypeOK, DialTypeOK, QueryTypeOK
  <2>2. ASSUME NEW d \in Dial, NEW c \in Conn, DialOk(d, c) PROVE SharedInv'
        BY SMTT(60), <2>2 DEF DialOk, Advance, TypeOK, PoolTypeOK, LinkTypeOK, DialTypeOK, QueryTypeOK
  <2>3. ASSUME NEW d \in Dial, DialFail(d) PROVE SharedInv'
        BY SMTT(60), <2>3 DEF DialFail, Advance, TypeOK, PoolTypeOK, LinkTypeOK, DialTypeOK, QueryTypeOK
  <2>4. ASSUME NEW d \in Dial, CheckOk(d) PROVE SharedInv'
        BY SMTT(60), <2>4 DEF CheckOk, Advance, TypeOK, PoolTypeOK, LinkTypeOK, DialTypeOK, QueryTypeOK
  <2>5. ASSUME NEW d \in Dial, NEW err \in Errors, OverruledClose(d, err) PROVE SharedInv'
        BY SMTT(60), <2>5 DEF OverruledClose, Overruled, DialCtx, CloseLink, Advance, TypeOK, PoolTypeOK, LinkTypeOK, DialTypeOK, QueryTypeOK
  <2>6. ASSUME NEW d \in Dial, NEW err \in Errors, OverruledNone(d, err) PROVE SharedInv'
        BY SMTT(60), <2>6 DEF OverruledNone, Overruled, DialCtx, Advance, TypeOK, PoolTypeOK, LinkTypeOK, DialTypeOK, QueryTypeOK
  <2>7. ASSUME NEW d \in Dial, FinishClose(d) PROVE SharedInv'
        BY SMTT(60), <2>7 DEF FinishClose, CloseLink, Advance, TypeOK, PoolTypeOK, LinkTypeOK, DialTypeOK, QueryTypeOK
  <2>8. ASSUME NEW d \in Dial, FinishNone(d) PROVE SharedInv'
        BY SMTT(60), <2>8 DEF FinishNone, Advance, TypeOK, PoolTypeOK, LinkTypeOK, DialTypeOK, QueryTypeOK
  <2> HIDE DEF SharedInv, InProgress
  <2>9. QED BY <1>7, <2>1, <2>2, <2>3, <2>4, <2>5, <2>6, <2>7, <2>8 DEF AttemptMove
<1>8. CASE ConnectMove
  <2>1. ASSUME NEW d \in Dial, InstallFailed(d) PROVE SharedInv'
        BY SMTT(60), <2>1 DEF InstallFailed, DialOver, Advance, DialInv, TypeOK, PoolTypeOK, LinkTypeOK, DialTypeOK, QueryTypeOK
  <2>2. ASSUME NEW d \in Dial, InstallReplaced(d) PROVE SharedInv'
        BY SMTT(60), <2>2 DEF InstallReplaced, Replaced, DialOver, Advance, DialInv, TypeOK, PoolTypeOK, LinkTypeOK, DialTypeOK, QueryTypeOK
  <2>3. ASSUME NEW d \in Dial, InstallShared(d) PROVE SharedInv'
    <3>1. /\ dialGen[d] \in Gen /\ dialConn[d] \in Conn /\ connecting[dialGen[d]] = d
          /\ shared[dialGen[d]] = None /\ all[dialGen[d]] \subseteq {None}
          BY SMTT(60), <2>3 DEF InstallShared, DialInv, TypeOK, PoolTypeOK, LinkTypeOK, DialTypeOK, QueryTypeOK
    <3>2. \A q \in Query : pc'[q] = "using" =>
             conn'[q] \in ctxDoneOf' \/ \E g \in Gen : shared'[g] = conn'[q]
      <4> SUFFICES ASSUME NEW q \in Query, pc[q] = "using", conn[q] \notin ctxDoneOf
                   PROVE  \E g \in Gen : shared'[g] = conn[q]
          BY SMTT(60), <2>3 DEF InstallShared, TypeOK, PoolTypeOK, LinkTypeOK, DialTypeOK, QueryTypeOK
      <4>1. PICK g \in Gen : shared[g] = conn[q]
            BY <2>3 DEF InstallShared, TypeOK, PoolTypeOK, LinkTypeOK, DialTypeOK, QueryTypeOK
      <4>2. conn[q] # None
            BY DEF QueryInv, Holding, TypeOK, PoolTypeOK, LinkTypeOK, DialTypeOK, QueryTypeOK
      <4>3. shared'[g] = conn[q]
            BY SMTT(60), <2>3, <3>1, <4>1, <4>2 DEF InstallShared
      <4>4. QED BY <4>3 DEF TypeOK, PoolTypeOK, LinkTypeOK, DialTypeOK, QueryTypeOK
    <3>3. \A e \in Dial : InProgress(e)' => connecting'[dialGen'[e]] = e
          BY SMTT(60), <2>3, <3>1 DEF InstallShared, DialOver, Advance, TypeOK, DialTypeOK, QueryTypeOK
    <3>4. \A g \in Gen : connecting'[g] # None =>
             /\ stage'[connecting'[g]] \in {"dialing", "dialed", "install"}
             /\ dialGen'[connecting'[g]] = g
          BY SMTT(60), <2>3, <3>1 DEF InstallShared, DialOver, Advance, TypeOK, PoolTypeOK
    <3>5. \A g \in Gen : /\ all'[g] \subseteq {shared'[g]}
                         /\ shared'[g] # None => shared'[g] \in all'[g] /\ connecting'[g] = None
      <4>1. all[dialGen[d]] = {}
            BY SMTT(60), <3>1 DEF TypeOK, PoolTypeOK
      <4>2. QED BY SMTT(60), <2>3, <3>1, <4>1 DEF InstallShared, DialOver, TypeOK, PoolTypeOK, QueryTypeOK
    <3>6. QED BY <3>2, <3>3, <3>4, <3>5 DEF TypeOK, PoolTypeOK, LinkTypeOK, DialTypeOK, QueryTypeOK
  <2> HIDE DEF SharedInv, InProgress
  <2>4. QED BY <1>8, <2>1, <2>2, <2>3 DEF ConnectMove
<1>9. CASE StateMove
      BY SMTT(60), <1>9, StateMoveFrame DEF TypeOK, PoolTypeOK, LinkTypeOK, DialTypeOK, QueryTypeOK
<1>10. CASE UNCHANGED vars
      BY <1>10 DEF vars, TypeOK, PoolTypeOK, LinkTypeOK, DialTypeOK, QueryTypeOK
<1> HIDE DEF SharedInv, InProgress
<1>11. QED BY StepCases, <1>1, <1>2, <1>3, <1>4, <1>5, <1>6, <1>7, <1>8, <1>9, <1>10 DEF Step

(* Errors of dials keep their cause. *)
LEMMA ErrorStep ==
    TypeOK /\ StateInv /\ QueryInv /\ DialInv /\ ModeInv /\ ErrorInv /\ SharedInv /\ [Next]_vars => ErrorInv'
<1> SUFFICES ASSUME TypeOK, StateInv, QueryInv, DialInv, ModeInv, ErrorInv, SharedInv, [Next]_vars PROVE ErrorInv'
    OBVIOUS
<1> USE DEF ErrorInv
<1>1. CASE LocalMove
  <2>1. ASSUME NEW q \in Query, Call(q) PROVE ErrorInv'
        BY <2>1 DEF Call, Goto, TypeOK, PoolTypeOK, DialTypeOK, QueryTypeOK
  <2>2. ASSUME NEW q \in Query, CtxDone(q) PROVE ErrorInv'
        BY <2>2 DEF CtxDone, TypeOK, PoolTypeOK, DialTypeOK, QueryTypeOK
  <2>3. ASSUME NEW q \in Query, NEW err \in Errors, QuietFail(q, err) PROVE ErrorInv'
        BY <2>3 DEF QuietFail, Fail, TypeOK, PoolTypeOK, DialTypeOK, QueryTypeOK
  <2>4. ASSUME NEW q \in Query, QuietRetry(q) PROVE ErrorInv'
        BY SMTT(60), <2>4 DEF QuietRetry, Retry, TypeOK, PoolTypeOK, DialTypeOK, QueryTypeOK
  <2>5. ASSUME NEW q \in Query, JoinConnect(q) PROVE ErrorInv'
        BY SMTT(60), <2>5 DEF JoinConnect, StartDial, TypeOK, PoolTypeOK, DialTypeOK, QueryTypeOK
  <2>6. ASSUME NEW q \in Query, WaitDone(q) PROVE ErrorInv'
        BY SMTT(60), <2>6 DEF WaitDone, Goto, TypeOK, PoolTypeOK, DialTypeOK, QueryTypeOK
  <2>7. ASSUME NEW q \in Query, WaitCancelled(q) PROVE ErrorInv'
        BY <2>7 DEF WaitCancelled, Goto, TypeOK, PoolTypeOK, DialTypeOK, QueryTypeOK
  <2>8. ASSUME NEW q \in Query, AcquireNone(q) PROVE ErrorInv'
        BY SMTT(60), <2>8 DEF AcquireNone, TypeOK, PoolTypeOK, DialTypeOK, QueryTypeOK
  <2>9. ASSUME NEW q \in Query, DropToClose(q) PROVE ErrorInv'
        BY SMTT(60), <2>9 DEF DropToClose, Tracked, Goto, TypeOK, PoolTypeOK, DialTypeOK, QueryTypeOK
  <2>10. ASSUME NEW q \in Query, DropToEnd(q) PROVE ErrorInv'
        BY <2>10 DEF DropToEnd, Tracked, Hold, TypeOK, PoolTypeOK, DialTypeOK, QueryTypeOK
  <2> HIDE DEF ErrorInv
  <2>11. QED BY <1>1, <2>1, <2>2, <2>3, <2>4, <2>5, <2>6, <2>7, <2>8, <2>9, <2>10 DEF LocalMove
<1>2. CASE CloseMove
  <2>1. ASSUME NEW q \in Query, CloseNew(q) PROVE ErrorInv'
        BY <2>1 DEF CloseNew, CloseLink, Fail, SlotsLess, TypeOK, PoolTypeOK, DialTypeOK, QueryTypeOK
  <2>2. ASSUME NEW q \in Query, CloseDead(q) PROVE ErrorInv'
        BY <2>2 DEF CloseDead, CloseLink, Retry, TypeOK, PoolTypeOK, DialTypeOK, QueryTypeOK
  <2>3. ASSUME NEW q \in Query, CloseDropped(q) PROVE ErrorInv'
        BY <2>3 DEF CloseDropped, CloseLink, Hold, TypeOK, PoolTypeOK, DialTypeOK, QueryTypeOK
  <2> HIDE DEF ErrorInv
  <2>4. QED BY <1>2, <2>1, <2>2, <2>3 DEF CloseMove
<1>3. CASE DialMove
  <2>1. ASSUME NEW q \in Query, NEW d \in Dial, TakeSlot(q, d) PROVE ErrorInv'
        BY SMTT(60), <2>1 DEF TakeSlot, BeginDial, TypeOK, PoolTypeOK, DialTypeOK, QueryTypeOK
  <2>2. ASSUME NEW q \in Query, DialFailed(q) PROVE ErrorInv'
        BY SMTT(60), <2>2 DEF DialFailed, Fail, Advance, QueryInv, Waiting, TypeOK, PoolTypeOK, DialTypeOK, QueryTypeOK
  <2>3. ASSUME NEW q \in Query, InstallRefused(q) PROVE ErrorInv'
        BY SMTT(60), <2>3 DEF InstallRefused, Replaced, Hold, Advance, StateInv, QueryInv, Waiting, TypeOK, PoolTypeOK, DialTypeOK, QueryTypeOK
  <2> HIDE DEF ErrorInv
  <2>4. QED BY <1>3, <2>1, <2>2, <2>3 DEF DialMove
<1>4. CASE PoolMove
  <2>1. ASSUME NEW q \in Query, SharedAlive(q) PROVE ErrorInv'
        BY <2>1 DEF SharedAlive, TakeAlive, Return, Created, TypeOK, PoolTypeOK, DialTypeOK, QueryTypeOK
  <2>2. ASSUME NEW q \in Query, SharedDead(q) PROVE ErrorInv'
        BY <2>2 DEF SharedDead, TakeDead, RemoveConn, CancelsShared, Hold, TypeOK, PoolTypeOK, DialTypeOK, QueryTypeOK
  <2>3. ASSUME NEW q \in Query, IdleAlive(q) PROVE ErrorInv'
        BY <2>3 DEF IdleAlive, IdleRest, Return, TypeOK, PoolTypeOK, DialTypeOK, QueryTypeOK
  <2>4. ASSUME NEW q \in Query, IdleDead(q) PROVE ErrorInv'
        BY <2>4 DEF IdleDead, IdleRest, Hold, TypeOK, PoolTypeOK, DialTypeOK, QueryTypeOK
  <2>5. ASSUME NEW q \in Query, ReleaseReuse(q) PROVE ErrorInv'
        BY <2>5 DEF ReleaseReuse, Tracked, Hold, TypeOK, PoolTypeOK, DialTypeOK, QueryTypeOK
  <2>6. ASSUME NEW q \in Query, DropTracked(q) PROVE ErrorInv'
        BY <2>6 DEF DropTracked, Tracked, RemoveConn, CancelsShared, Goto, TypeOK, PoolTypeOK, DialTypeOK, QueryTypeOK
  <2> HIDE DEF ErrorInv
  <2>7. QED BY <1>4, <2>1, <2>2, <2>3, <2>4, <2>5, <2>6 DEF PoolMove
<1>5. CASE StartMove
  <2>1. ASSUME NEW q \in Query, NEW d \in Dial, StartConnect(q, d) PROVE ErrorInv'
        BY SMTT(60), <2>1 DEF StartConnect, StartDial, BeginDial, TypeOK, PoolTypeOK, DialTypeOK, QueryTypeOK
  <2> HIDE DEF ErrorInv
  <2>2. QED BY <1>5, <2>1 DEF StartMove
<1>6. CASE InstallMove
  <2>1. ASSUME NEW q \in Query, InstallOrdered(q) PROVE ErrorInv'
        BY SMTT(60), <2>1 DEF InstallOrdered, Replaced, Return, Advance, QueryInv, Waiting, TypeOK, PoolTypeOK, DialTypeOK, QueryTypeOK
  <2> HIDE DEF ErrorInv
  <2>2. QED BY <1>6, <2>1 DEF InstallMove
<1>7. CASE AttemptMove
  <2>1. ASSUME NEW c \in Conn, ConnDies(c) PROVE ErrorInv'
        BY <2>1 DEF ConnDies, TypeOK, PoolTypeOK, DialTypeOK, QueryTypeOK
  <2>2. ASSUME NEW d \in Dial, NEW c \in Conn, DialOk(d, c) PROVE ErrorInv'
        BY <2>2 DEF DialOk, Advance, TypeOK, PoolTypeOK, DialTypeOK, QueryTypeOK
  <2>3. ASSUME NEW d \in Dial, DialFail(d) PROVE ErrorInv'
        BY <2>3 DEF DialFail, Advance, TypeOK, PoolTypeOK, DialTypeOK, QueryTypeOK
  <2>4. ASSUME NEW d \in Dial, CheckOk(d) PROVE ErrorInv'
        BY <2>4 DEF CheckOk, Advance, TypeOK, PoolTypeOK, DialTypeOK, QueryTypeOK
  <2>5. ASSUME NEW d \in Dial, NEW err \in Errors, OverruledClose(d, err) PROVE ErrorInv'
        BY <2>5 DEF OverruledClose, Overruled, DialCtx, CloseLink, Advance, DialInv, TypeOK, PoolTypeOK, DialTypeOK, QueryTypeOK
  <2>6. ASSUME NEW d \in Dial, NEW err \in Errors, OverruledNone(d, err) PROVE ErrorInv'
        BY SMTT(60), <2>6 DEF OverruledNone, Overruled, DialCtx, Advance, DialInv, TypeOK, PoolTypeOK, DialTypeOK, QueryTypeOK
  <2>7. ASSUME NEW d \in Dial, FinishClose(d) PROVE ErrorInv'
        BY <2>7 DEF FinishClose, CloseLink, Advance, TypeOK, PoolTypeOK, DialTypeOK, QueryTypeOK
  <2>8. ASSUME NEW d \in Dial, FinishNone(d) PROVE ErrorInv'
        BY <2>8 DEF FinishNone, Advance, TypeOK, PoolTypeOK, DialTypeOK, QueryTypeOK
  <2> HIDE DEF ErrorInv
  <2>9. QED BY <1>7, <2>1, <2>2, <2>3, <2>4, <2>5, <2>6, <2>7, <2>8 DEF AttemptMove
<1>8. CASE ConnectMove
  <2>1. ASSUME NEW d \in Dial, InstallFailed(d) PROVE ErrorInv'
        BY <2>1 DEF InstallFailed, DialOver, Advance, TypeOK, PoolTypeOK, DialTypeOK, QueryTypeOK
  <2>2. ASSUME NEW d \in Dial, InstallReplaced(d) PROVE ErrorInv'
        BY SMTT(60), <2>2 DEF InstallReplaced, Replaced, DialOver, Advance, StateInv, DialInv, TypeOK, PoolTypeOK, DialTypeOK, QueryTypeOK
  <2>3. ASSUME NEW d \in Dial, InstallShared(d) PROVE ErrorInv'
        BY <2>3 DEF InstallShared, Replaced, DialOver, Advance, TypeOK, PoolTypeOK, DialTypeOK, QueryTypeOK
  <2> HIDE DEF ErrorInv
  <2>4. QED BY <1>8, <2>1, <2>2, <2>3 DEF ConnectMove
<1>9. CASE StateMove
  <2>1. CASE Reset
    <3>1. \A g \in Gen : phase[g] \in {"swapped", "cancelled"} => phase'[g] = phase[g]
          BY SMTT(60), <2>1 DEF Reset, StateInv, TypeOK, PoolTypeOK, DialTypeOK, QueryTypeOK
    <3>2. UNCHANGED <<dialVars, queryVars>>
          BY <2>1 DEF Reset, TypeOK, PoolTypeOK, DialTypeOK, QueryTypeOK
    <3>3. QED BY <3>1, <3>2 DEF TypeOK, PoolTypeOK, DialTypeOK, QueryTypeOK
  <2>2. CASE Close
        BY SMTT(60), <2>2 DEF Close, StateInv, TypeOK, PoolTypeOK, DialTypeOK, QueryTypeOK
  <2>3. ASSUME NEW g \in Gen, CancelState(g) PROVE ErrorInv'
        BY SMTT(60), <2>3 DEF CancelState, TypeOK, PoolTypeOK, DialTypeOK, QueryTypeOK
  <2>4. ASSUME NEW g \in Gen, NEW c \in Conn, SweepConn(g, c) PROVE ErrorInv'
        BY <2>4 DEF SweepConn, CloseLink, TypeOK, PoolTypeOK, DialTypeOK, QueryTypeOK
  <2> HIDE DEF ErrorInv
  <2>5. QED BY <1>9, <2>1, <2>2, <2>3, <2>4 DEF StateMove
<1>10. CASE UNCHANGED vars
      BY <1>10 DEF vars, TypeOK, PoolTypeOK, DialTypeOK, QueryTypeOK
<1> HIDE DEF ErrorInv
<1>11. QED BY StepCases, <1>1, <1>2, <1>3, <1>4, <1>5, <1>6, <1>7, <1>8, <1>9, <1>10 DEF Step
=============================================================================
