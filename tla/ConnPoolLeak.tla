---------------------------- MODULE ConnPoolLeak ----------------------------
(***************************************************************************)
(* Every step of ConnPool tells one query of a connection's creation,      *)
(* leaves open what the pool tracks and loses no open connection.          *)
(***************************************************************************)
EXTENDS ConnPoolMoves

USE ModeAssumption, BoundAssumption, NoneAssumption, ZenonT(40), SMTT(60)
USE DEF poolVars, linkVars, dialVars, queryVars, closed, Locals, Gen, Errors

(* One query is told of a connection's creation. *)
LEMMA CreatedStep ==
    TypeOK /\ StateInv /\ QueryInv /\ DialInv /\ ModeInv /\ ErrorInv /\ SharedInv /\ PlaceInv /\ IdleInv /\ CreatedInv /\ [Next]_vars => CreatedInv'
<1> SUFFICES ASSUME TypeOK, StateInv, QueryInv, DialInv, ModeInv, ErrorInv, SharedInv, PlaceInv, IdleInv, CreatedInv, [Next]_vars PROVE CreatedInv'
    OBVIOUS
<1> USE DEF CreatedInv
<1>1. CASE LocalMove
  <2>1. UNCHANGED <<poolVars, linkVars, dialVars, slots>> /\ HandsKept
        BY <1>1, LocalMoveFrame, LocalHands DEF TypeOK, PoolTypeOK, LinkTypeOK, DialTypeOK, QueryTypeOK
  <2>2. QED BY ZenonT(60), <2>1 DEF HandsKept
<1>2. CASE CloseMove
  <2>1. ASSUME NEW q \in Query, CloseNew(q) PROVE CreatedInv'
        BY SMTT(60), <2>1 DEF CloseNew, CloseLink, Fail, SlotsLess, TypeOK, PoolTypeOK, LinkTypeOK, DialTypeOK, QueryTypeOK
  <2>2. ASSUME NEW q \in Query, CloseDead(q) PROVE CreatedInv'
        BY SMTT(60), <2>2 DEF CloseDead, CloseLink, Retry, TypeOK, PoolTypeOK, LinkTypeOK, DialTypeOK, QueryTypeOK
  <2>3. ASSUME NEW q \in Query, CloseDropped(q) PROVE CreatedInv'
        BY SMTT(60), <2>3 DEF CloseDropped, CloseLink, Hold, TypeOK, PoolTypeOK, LinkTypeOK, DialTypeOK, QueryTypeOK
  <2> HIDE DEF CreatedInv
  <2>4. QED BY <1>2, <2>1, <2>2, <2>3 DEF CloseMove
<1>3. CASE DialMove
  <2>1. ASSUME NEW q \in Query, NEW d \in Dial, TakeSlot(q, d) PROVE CreatedInv'
        BY SMTT(60), <2>1 DEF TakeSlot, BeginDial, TypeOK, PoolTypeOK, LinkTypeOK, DialTypeOK, QueryTypeOK
  <2>2. ASSUME NEW q \in Query, DialFailed(q) PROVE CreatedInv'
        BY SMTT(60), <2>2 DEF DialFailed, Fail, Advance, TypeOK, PoolTypeOK, LinkTypeOK, DialTypeOK, QueryTypeOK
  <2>3. ASSUME NEW q \in Query, InstallRefused(q) PROVE CreatedInv'
        BY SMTT(60), <2>3 DEF InstallRefused, Replaced, Hold, Advance, TypeOK, PoolTypeOK, LinkTypeOK, DialTypeOK, QueryTypeOK
  <2> HIDE DEF CreatedInv
  <2>4. QED BY <1>3, <2>1, <2>2, <2>3 DEF DialMove
<1>4. CASE PoolMove
  <2>1. ASSUME NEW q \in Query, SharedAlive(q) PROVE CreatedInv'
        BY SMTT(60), <2>1 DEF SharedAlive, TakeAlive, Return, Created, StateInv, PlaceInv, SharedInv, InProgress, TypeOK, PoolTypeOK, LinkTypeOK, DialTypeOK, QueryTypeOK
  <2>2. ASSUME NEW q \in Query, SharedDead(q) PROVE CreatedInv'
        BY SMTT(60), <2>2 DEF SharedDead, TakeDead, RemoveConn, Hold, TypeOK, PoolTypeOK
  <2>3. ASSUME NEW q \in Query, IdleAlive(q) PROVE CreatedInv'
    <3>1. state \in Gen /\ idle[state] \in Seq(Conn) /\ idle[state] # <<>>
          BY SMTT(60), <2>3 DEF IdleAlive, StateInv, TypeOK, PoolTypeOK, LinkTypeOK, DialTypeOK, QueryTypeOK
    <3>2. /\ Head(idle[state]) \in Conn /\ InSeq(idle[state], Head(idle[state]))
          /\ Tail(idle[state]) \in Seq(Conn)
          /\ \A c \in Conn : InSeq(Tail(idle[state]), c) => InSeq(idle[state], c)
          /\ Distinct(idle[state]) =>
                Distinct(Tail(idle[state])) /\ ~InSeq(Tail(idle[state]), Head(idle[state]))
          BY <3>1, TailFacts DEF TypeOK, PoolTypeOK, LinkTypeOK, DialTypeOK, QueryTypeOK
    <3>3. QED BY SMTT(60), <2>3, <3>1, <3>2 DEF IdleAlive, IdleRest, Return, TypeOK, PoolTypeOK, LinkTypeOK, DialTypeOK, QueryTypeOK
  <2>4. ASSUME NEW q \in Query, IdleDead(q) PROVE CreatedInv'
    <3>1. state \in Gen /\ idle[state] \in Seq(Conn) /\ idle[state] # <<>>
          BY SMTT(60), <2>4 DEF IdleDead, StateInv, TypeOK, PoolTypeOK, LinkTypeOK, DialTypeOK, QueryTypeOK
    <3>2. /\ Head(idle[state]) \in Conn /\ InSeq(idle[state], Head(idle[state]))
          /\ Tail(idle[state]) \in Seq(Conn)
          /\ \A c \in Conn : InSeq(Tail(idle[state]), c) => InSeq(idle[state], c)
          /\ Distinct(idle[state]) =>
                Distinct(Tail(idle[state])) /\ ~InSeq(Tail(idle[state]), Head(idle[state]))
          BY <3>1, TailFacts DEF TypeOK, PoolTypeOK, LinkTypeOK, DialTypeOK, QueryTypeOK
    <3>3. QED BY SMTT(60), <2>4, <3>1, <3>2 DEF IdleDead, IdleRest, Hold, LinkTypeOK, QueryTypeOK
  <2>5. ASSUME NEW q \in Query, ReleaseReuse(q) PROVE CreatedInv'
    <3>1. state \in Gen /\ idle[state] \in Seq(Conn) /\ conn[q] \in Conn /\ creations[conn[q]] = 1
          BY SMTT(60), <2>5 DEF ReleaseReuse, Tracked, StateInv, QueryInv, TypeOK, PoolTypeOK, DialTypeOK, QueryTypeOK
    <3>2. /\ Append(idle[state], conn[q]) \in Seq(Conn)
          /\ \A x \in Conn : InSeq(Append(idle[state], conn[q]), x) => InSeq(idle[state], x) \/ x = conn[q]
          BY <3>1, AppendFacts DEF TypeOK, PoolTypeOK, LinkTypeOK, DialTypeOK, QueryTypeOK
    <3>3. /\ UNCHANGED <<shared, claimed, link, creations, dialConn>>
          /\ \A r \in Query : pc'[r] = "using" => pc[r] = "using" /\ conn'[r] = conn[r]
          BY SMTT(60), <2>5 DEF ReleaseReuse, Hold, TypeOK, QueryTypeOK
    <3>4. Mode = "ordered" => \A g \in Gen : \A c \in Conn : InSeq(idle'[g], c) => creations[c] = 1
          BY SMTT(60), <2>5, <3>1, <3>2 DEF ReleaseReuse, TypeOK, PoolTypeOK
    <3>5. QED BY <3>3, <3>4
  <2>6. ASSUME NEW q \in Query, DropTracked(q) PROVE CreatedInv'
    <3>1. state \in Gen /\ conn[q] \in Conn
          BY SMTT(60), <2>6 DEF DropTracked, Tracked, StateInv, QueryInv, Holding, TypeOK, DialTypeOK, QueryTypeOK
    <3>2. Mode = "ordered" => Without(idle[state], conn[q]) = idle[state]
          BY SMTT(60), <3>1, WithoutAbsent DEF IdleInv, LinkTypeOK, DialTypeOK, QueryTypeOK
    <3>3. QED BY SMTT(60), <2>6, <3>1, <3>2 DEF DropTracked, RemoveConn, Goto, TypeOK, PoolTypeOK
  <2> HIDE DEF CreatedInv
  <2>7. QED BY <1>4, <2>1, <2>2, <2>3, <2>4, <2>5, <2>6 DEF PoolMove
<1>5. CASE StartMove
  <2>1. ASSUME NEW q \in Query, NEW d \in Dial, StartConnect(q, d) PROVE CreatedInv'
        BY <2>1 DEF StartConnect, StartDial, BeginDial, TypeOK, PoolTypeOK, LinkTypeOK, DialTypeOK, QueryTypeOK
  <2> HIDE DEF CreatedInv
  <2>2. QED BY <1>5, <2>1 DEF StartMove
<1>6. CASE InstallMove
  <2>1. ASSUME NEW q \in Query, InstallOrdered(q) PROVE CreatedInv'
    <3>1. /\ dial[q] \in Dial /\ dialConn[dial[q]] \in Conn /\ creations[dialConn[dial[q]]] = 0
          /\ Mode = "ordered"
          BY SMTT(60), <2>1 DEF InstallOrdered, QueryInv, DialInv, ModeInv, Waiting, TypeOK, PoolTypeOK, LinkTypeOK, DialTypeOK, QueryTypeOK
    <3>2. \A r \in Query : r # q => conn[r] # dialConn[dial[q]]
          BY SMTT(60), <3>1 DEF PlaceInv, TypeOK, PoolTypeOK, LinkTypeOK, DialTypeOK, QueryTypeOK
    <3>3. \A e \in Dial : e # dial[q] => dialConn[e] # dialConn[dial[q]]
          BY SMTT(60), <3>1 DEF PlaceInv, TypeOK, PoolTypeOK, LinkTypeOK, DialTypeOK, QueryTypeOK
    <3>4. link[dialConn[dial[q]]] # "new" /\ \A g \in Gen : shared[g] = None
          BY ZenonT(60), <3>1 DEF PlaceInv, ModeInv, TypeOK, PoolTypeOK, LinkTypeOK, DialTypeOK, QueryTypeOK
    <3>5. QED BY SMTT(60), <2>1, <3>1, <3>2, <3>3, <3>4 DEF InstallOrdered, Return, Advance, TypeOK, LinkTypeOK, DialTypeOK, QueryTypeOK
  <2> HIDE DEF CreatedInv
  <2>2. QED BY <1>6, <2>1 DEF InstallMove
<1>7. CASE AttemptMove
  <2>1. ASSUME NEW c \in Conn, ConnDies(c) PROVE CreatedInv'
        BY <2>1 DEF ConnDies, TypeOK, PoolTypeOK, LinkTypeOK, DialTypeOK, QueryTypeOK
  <2>2. ASSUME NEW d \in Dial, NEW c \in Conn, DialOk(d, c) PROVE CreatedInv'
        BY SMTT(60), <2>2 DEF DialOk, Advance, PlaceInv, TypeOK, PoolTypeOK, LinkTypeOK, DialTypeOK, QueryTypeOK
  <2>3. ASSUME NEW d \in Dial, DialFail(d) PROVE CreatedInv'
        BY SMTT(60), <2>3 DEF DialFail, Advance, TypeOK, PoolTypeOK, LinkTypeOK, DialTypeOK, QueryTypeOK
  <2>4. ASSUME NEW d \in Dial, CheckOk(d) PROVE CreatedInv'
        BY SMTT(60), <2>4 DEF CheckOk, Advance, TypeOK, PoolTypeOK, LinkTypeOK, DialTypeOK, QueryTypeOK
  <2>5. ASSUME NEW d \in Dial, NEW err \in Errors, OverruledClose(d, err) PROVE CreatedInv'
        BY SMTT(60), <2>5 DEF OverruledClose, Overruled, DialCtx, CloseLink, Advance, TypeOK, PoolTypeOK, LinkTypeOK, DialTypeOK, QueryTypeOK
  <2>6. ASSUME NEW d \in Dial, NEW err \in Errors, OverruledNone(d, err) PROVE CreatedInv'
        BY SMTT(60), <2>6 DEF OverruledNone, Overruled, DialCtx, Advance, TypeOK, PoolTypeOK, LinkTypeOK, DialTypeOK, QueryTypeOK
  <2>7. ASSUME NEW d \in Dial, FinishClose(d) PROVE CreatedInv'
        BY SMTT(60), <2>7 DEF FinishClose, CloseLink, Advance, TypeOK, PoolTypeOK, LinkTypeOK, DialTypeOK, QueryTypeOK
  <2>8. ASSUME NEW d \in Dial, FinishNone(d) PROVE CreatedInv'
        BY SMTT(60), <2>8 DEF FinishNone, Advance, TypeOK, PoolTypeOK, LinkTypeOK, DialTypeOK, QueryTypeOK
  <2> HIDE DEF CreatedInv
  <2>9. QED BY <1>7, <2>1, <2>2, <2>3, <2>4, <2>5, <2>6, <2>7, <2>8 DEF AttemptMove
<1>8. CASE ConnectMove
  <2>1. ASSUME NEW d \in Dial, InstallFailed(d) PROVE CreatedInv'
        BY SMTT(60), <2>1 DEF InstallFailed, DialOver, Advance, TypeOK, PoolTypeOK, LinkTypeOK, DialTypeOK, QueryTypeOK
  <2>2. ASSUME NEW d \in Dial, InstallReplaced(d) PROVE CreatedInv'
        BY <2>2 DEF InstallReplaced, Replaced, DialOver, Advance, TypeOK, PoolTypeOK, LinkTypeOK, DialTypeOK, QueryTypeOK
  <2>3. ASSUME NEW d \in Dial, InstallShared(d) PROVE CreatedInv'
    <3>1. /\ Mode = "single" /\ dialGen[d] \in Gen /\ dialConn[d] \in Conn
          /\ creations[dialConn[d]] = 0 /\ link[dialConn[d]] # "new"
          BY SMTT(60), <2>3 DEF InstallShared, DialInv, PlaceInv, TypeOK, DialTypeOK
    <3>2. shared[dialGen[d]] = None /\ dialGen[d] \notin claimed
          BY SMTT(60), <2>3, <3>1 DEF InstallShared, SharedInv, InProgress, LinkTypeOK
    <3>3. /\ shared' = [shared EXCEPT ![dialGen[d]] = dialConn[d]]
          /\ dialConn' = [dialConn EXCEPT ![d] = None]
          /\ UNCHANGED <<creations, link, claimed, idle, pc, conn>>
          BY <2>3 DEF InstallShared, Advance, TypeOK, PoolTypeOK, LinkTypeOK, DialTypeOK, QueryTypeOK
    <3>4. \A g \in Gen : shared'[g] = IF g = dialGen[d] THEN dialConn[d] ELSE shared[g]
          BY <3>1, <3>3 DEF TypeOK, PoolTypeOK, LinkTypeOK, DialTypeOK, QueryTypeOK
    <3>5. \A e \in Dial : dialConn'[e] = IF e = d THEN None ELSE dialConn[e]
          BY <3>3 DEF TypeOK, PoolTypeOK, LinkTypeOK, DialTypeOK, QueryTypeOK
    <3>6. \A g \in Gen : shared'[g] = None => g \notin claimed
          BY SMTT(60), <3>1, <3>4 DEF DialTypeOK, QueryTypeOK
    <3>7. \A g \in Gen : shared'[g] # None => (creations[shared'[g]] = 1 <=> g \in claimed)
      <4>1. creations[dialConn[d]] # 1
            BY SMTT(60), <3>1 DEF TypeOK, PoolTypeOK, LinkTypeOK, DialTypeOK, QueryTypeOK
      <4>2. \A g \in Gen : shared[g] # None => (creations[shared[g]] = 1 <=> g \in claimed)
            BY DEF TypeOK, PoolTypeOK, LinkTypeOK, DialTypeOK, QueryTypeOK
      <4> HIDE DEF CreatedInv
      <4>3. QED BY <3>2, <3>4, <4>1, <4>2
    <3>8. \A e \in Dial : dialConn'[e] # None => creations[dialConn'[e]] = 0
          BY <3>5 DEF TypeOK, PoolTypeOK, LinkTypeOK, DialTypeOK, QueryTypeOK
    <3>9. QED BY <3>1, <3>3, <3>6, <3>7, <3>8 DEF TypeOK, PoolTypeOK, LinkTypeOK, DialTypeOK, QueryTypeOK
  <2> HIDE DEF CreatedInv
  <2>4. QED BY <1>8, <2>1, <2>2, <2>3 DEF ConnectMove
<1>9. CASE StateMove
  <2>1. CASE Reset
        BY <2>1 DEF Reset, TypeOK, PoolTypeOK, LinkTypeOK, DialTypeOK, QueryTypeOK
  <2>2. CASE Close
        BY <2>2 DEF Close, TypeOK, PoolTypeOK, LinkTypeOK, DialTypeOK, QueryTypeOK
  <2>3. ASSUME NEW g \in Gen, CancelState(g) PROVE CreatedInv'
        BY <2>3 DEF CancelState, TypeOK, PoolTypeOK, LinkTypeOK, DialTypeOK, QueryTypeOK
  <2>4. ASSUME NEW g \in Gen, NEW c \in Conn, SweepConn(g, c) PROVE CreatedInv'
        BY SMTT(60), <2>4 DEF SweepConn, CloseLink, QueryTypeOK
  <2> HIDE DEF CreatedInv
  <2>5. QED BY <1>9, <2>1, <2>2, <2>3, <2>4 DEF StateMove
<1>10. CASE UNCHANGED vars
      BY <1>10 DEF vars, TypeOK, PoolTypeOK, LinkTypeOK, DialTypeOK, QueryTypeOK
<1> HIDE DEF CreatedInv
<1>11. QED BY StepCases, <1>1, <1>2, <1>3, <1>4, <1>5, <1>6, <1>7, <1>8, <1>9, <1>10 DEF Step

(* What the pool tracks stays open. *)
LEMMA OpenStep ==
    TypeOK /\ StateInv /\ QueryInv /\ DialInv /\ ModeInv /\ ErrorInv /\ SharedInv /\ PlaceInv /\ TrackedIsOpen /\ [Next]_vars => TrackedIsOpen'
<1> SUFFICES ASSUME TypeOK, StateInv, QueryInv, DialInv, ModeInv, ErrorInv, SharedInv, PlaceInv, TrackedIsOpen, [Next]_vars PROVE TrackedIsOpen'
    OBVIOUS
<1> USE DEF TrackedIsOpen, Tracked
<1>1. CASE LocalMove
      BY <1>1, LocalMoveFrame DEF TypeOK, PoolTypeOK, LinkTypeOK, DialTypeOK, QueryTypeOK
<1>2. CASE CloseMove
  <2>1. ASSUME NEW q \in Query, CloseNew(q) PROVE TrackedIsOpen'
        BY SMTT(60), <2>1 DEF CloseNew, CloseLink, Fail, SlotsLess, PlaceInv, TypeOK, PoolTypeOK, LinkTypeOK, DialTypeOK, QueryTypeOK
  <2>2. ASSUME NEW q \in Query, CloseDead(q) PROVE TrackedIsOpen'
        BY SMTT(60), <2>2 DEF CloseDead, CloseLink, Retry, PlaceInv, TypeOK, PoolTypeOK, LinkTypeOK, DialTypeOK, QueryTypeOK
  <2>3. ASSUME NEW q \in Query, CloseDropped(q) PROVE TrackedIsOpen'
        BY SMTT(60), <2>3 DEF CloseDropped, CloseLink, Hold, PlaceInv, TypeOK, PoolTypeOK, LinkTypeOK, DialTypeOK, QueryTypeOK
  <2> HIDE DEF TrackedIsOpen, Tracked
  <2>4. QED BY <1>2, <2>1, <2>2, <2>3 DEF CloseMove
<1>3. CASE DialMove
      BY <1>3, DialMoveFrame DEF TypeOK, PoolTypeOK, LinkTypeOK, DialTypeOK, QueryTypeOK
<1>4. CASE PoolMove
  <2>1. ASSUME NEW q \in Query, SharedAlive(q) PROVE TrackedIsOpen'
        BY <2>1 DEF SharedAlive, TakeAlive, Return, Created, TypeOK, PoolTypeOK, LinkTypeOK, DialTypeOK, QueryTypeOK
  <2>2. ASSUME NEW q \in Query, SharedDead(q) PROVE TrackedIsOpen'
        BY SMTT(60), <2>2 DEF SharedDead, TakeDead, RemoveConn, CancelsShared, Hold, TypeOK, PoolTypeOK, LinkTypeOK, DialTypeOK, QueryTypeOK
  <2>3. ASSUME NEW q \in Query, IdleAlive(q) PROVE TrackedIsOpen'
        BY <2>3 DEF IdleAlive, IdleRest, Return, TypeOK, PoolTypeOK, LinkTypeOK, DialTypeOK, QueryTypeOK
  <2>4. ASSUME NEW q \in Query, IdleDead(q) PROVE TrackedIsOpen'
        BY SMTT(60), <2>4 DEF IdleDead, IdleRest, Hold, TypeOK, PoolTypeOK, LinkTypeOK, DialTypeOK, QueryTypeOK
  <2>5. ASSUME NEW q \in Query, ReleaseReuse(q) PROVE TrackedIsOpen'
        BY <2>5 DEF ReleaseReuse, Tracked, Hold, TypeOK, PoolTypeOK, LinkTypeOK, DialTypeOK, QueryTypeOK
  <2>6. ASSUME NEW q \in Query, DropTracked(q) PROVE TrackedIsOpen'
        BY SMTT(60), <2>6 DEF DropTracked, Tracked, RemoveConn, CancelsShared, Goto, TypeOK, PoolTypeOK, LinkTypeOK, DialTypeOK, QueryTypeOK
  <2> HIDE DEF TrackedIsOpen, Tracked
  <2>7. QED BY <1>4, <2>1, <2>2, <2>3, <2>4, <2>5, <2>6 DEF PoolMove
<1>5. CASE StartMove
  <2>1. ASSUME NEW q \in Query, NEW d \in Dial, StartConnect(q, d) PROVE TrackedIsOpen'
        BY <2>1 DEF StartConnect, StartDial, BeginDial, TypeOK, PoolTypeOK, LinkTypeOK, DialTypeOK, QueryTypeOK
  <2> HIDE DEF TrackedIsOpen, Tracked
  <2>2. QED BY <1>5, <2>1 DEF StartMove
<1>6. CASE InstallMove
  <2>1. ASSUME NEW q \in Query, InstallOrdered(q) PROVE TrackedIsOpen'
    <3>1. dial[q] \in Dial /\ dialConn[dial[q]] \in Conn /\ link[dialConn[dial[q]]] = "open"
          BY SMTT(60), <2>1 DEF InstallOrdered, PlaceInv, DialInv, QueryInv, Waiting, TypeOK, DialTypeOK, QueryTypeOK
    <3>2. UNCHANGED <<state, link>> /\ all' = [all EXCEPT ![gen[q]] = @ \cup {dialConn[dial[q]]}]
          BY <2>1 DEF InstallOrdered, TypeOK, PoolTypeOK, LinkTypeOK, DialTypeOK, QueryTypeOK
    <3>3. \A x \in Conn : x \in all'[state] => x \in all[state] \/ x = dialConn[dial[q]]
          BY SMTT(60), <3>2 DEF TypeOK, PoolTypeOK, LinkTypeOK, DialTypeOK, QueryTypeOK
    <3>4. QED BY <3>1, <3>2, <3>3 DEF TypeOK, PoolTypeOK, LinkTypeOK, DialTypeOK, QueryTypeOK
  <2> HIDE DEF TrackedIsOpen, Tracked
  <2>2. QED BY <1>6, <2>1 DEF InstallMove
<1>7. CASE AttemptMove
  <2>1. ASSUME NEW c \in Conn, ConnDies(c) PROVE TrackedIsOpen'
        BY <2>1 DEF ConnDies, TypeOK, PoolTypeOK, LinkTypeOK, DialTypeOK, QueryTypeOK
  <2>2. ASSUME NEW d \in Dial, NEW c \in Conn, DialOk(d, c) PROVE TrackedIsOpen'
        BY <2>2 DEF DialOk, Advance, TypeOK, PoolTypeOK, LinkTypeOK, DialTypeOK, QueryTypeOK
  <2>3. ASSUME NEW d \in Dial, DialFail(d) PROVE TrackedIsOpen'
        BY <2>3 DEF DialFail, Advance, TypeOK, PoolTypeOK, LinkTypeOK, DialTypeOK, QueryTypeOK
  <2>4. ASSUME NEW d \in Dial, CheckOk(d) PROVE TrackedIsOpen'
        BY <2>4 DEF CheckOk, Advance, TypeOK, PoolTypeOK, LinkTypeOK, DialTypeOK, QueryTypeOK
  <2>5. ASSUME NEW d \in Dial, NEW err \in Errors, OverruledClose(d, err) PROVE TrackedIsOpen'
        BY SMTT(60), <2>5 DEF OverruledClose, Overruled, CloseLink, PlaceInv, TypeOK, PoolTypeOK
  <2>6. ASSUME NEW d \in Dial, NEW err \in Errors, OverruledNone(d, err) PROVE TrackedIsOpen'
        BY <2>6 DEF OverruledNone, Overruled, DialCtx, Advance, TypeOK, PoolTypeOK, LinkTypeOK, DialTypeOK, QueryTypeOK
  <2>7. ASSUME NEW d \in Dial, FinishClose(d) PROVE TrackedIsOpen'
        BY SMTT(60), <2>7 DEF FinishClose, CloseLink, Advance, PlaceInv, TypeOK, PoolTypeOK, LinkTypeOK, DialTypeOK, QueryTypeOK
  <2>8. ASSUME NEW d \in Dial, FinishNone(d) PROVE TrackedIsOpen'
        BY <2>8 DEF FinishNone, Advance, TypeOK, PoolTypeOK, LinkTypeOK, DialTypeOK, QueryTypeOK
  <2> HIDE DEF TrackedIsOpen, Tracked
  <2>9. QED BY <1>7, <2>1, <2>2, <2>3, <2>4, <2>5, <2>6, <2>7, <2>8 DEF AttemptMove
<1>8. CASE ConnectMove
  <2>1. ASSUME NEW d \in Dial, InstallFailed(d) PROVE TrackedIsOpen'
        BY <2>1 DEF InstallFailed, DialOver, Advance, TypeOK, PoolTypeOK, LinkTypeOK, DialTypeOK, QueryTypeOK
  <2>2. ASSUME NEW d \in Dial, InstallReplaced(d) PROVE TrackedIsOpen'
        BY <2>2 DEF InstallReplaced, Replaced, DialOver, Advance, TypeOK, PoolTypeOK, LinkTypeOK, DialTypeOK, QueryTypeOK
  <2>3. ASSUME NEW d \in Dial, InstallShared(d) PROVE TrackedIsOpen'
        BY SMTT(60), <2>3 DEF InstallShared, Replaced, DialOver, Advance, PlaceInv, DialInv, TypeOK, PoolTypeOK, LinkTypeOK, DialTypeOK, QueryTypeOK
  <2> HIDE DEF TrackedIsOpen, Tracked
  <2>4. QED BY <1>8, <2>1, <2>2, <2>3 DEF ConnectMove
<1>9. CASE StateMove
  <2>1. CASE Reset
        BY SMTT(60), <2>1 DEF Reset, StateInv, TypeOK, PoolTypeOK, LinkTypeOK, DialTypeOK, QueryTypeOK
  <2>2. CASE Close
        BY <2>2 DEF Close, TypeOK, PoolTypeOK, LinkTypeOK, DialTypeOK, QueryTypeOK
  <2>3. ASSUME NEW g \in Gen, CancelState(g) PROVE TrackedIsOpen'
        BY <2>3 DEF CancelState, TypeOK, PoolTypeOK, LinkTypeOK, DialTypeOK, QueryTypeOK
  <2>4. ASSUME NEW g \in Gen, NEW c \in Conn, SweepConn(g, c) PROVE TrackedIsOpen'
    <3>1. ~closed => g # state /\ state \in Gen
          BY <2>4 DEF SweepConn, StateInv, TypeOK, PoolTypeOK, LinkTypeOK, DialTypeOK, QueryTypeOK
    <3>2. ~closed => c \notin all[state]
          BY <2>4, <3>1 DEF SweepConn, PlaceInv, TypeOK, PoolTypeOK, LinkTypeOK, DialTypeOK, QueryTypeOK
    <3>3. QED BY <2>4, <3>2 DEF SweepConn, CloseLink, TypeOK, PoolTypeOK, LinkTypeOK, DialTypeOK, QueryTypeOK
  <2> HIDE DEF TrackedIsOpen, Tracked
  <2>5. QED BY <1>9, <2>1, <2>2, <2>3, <2>4 DEF StateMove
<1>10. CASE UNCHANGED vars
      BY <1>10 DEF vars, TypeOK, PoolTypeOK, LinkTypeOK, DialTypeOK, QueryTypeOK
<1> HIDE DEF TrackedIsOpen, Tracked
<1>11. QED BY StepCases, <1>1, <1>2, <1>3, <1>4, <1>5, <1>6, <1>7, <1>8, <1>9, <1>10 DEF Step

(* An open connection keeps an owner. *)
LEMMA LeakStep ==
    TypeOK /\ StateInv /\ QueryInv /\ DialInv /\ ModeInv /\ ErrorInv /\ SharedInv /\ PlaceInv /\ NoLeak /\ [Next]_vars => NoLeak'
<1> SUFFICES ASSUME TypeOK, StateInv, QueryInv, DialInv, ModeInv, ErrorInv, SharedInv, PlaceInv, NoLeak, [Next]_vars PROVE NoLeak'
    OBVIOUS
<1>1. CASE LocalMove
  <2>1. UNCHANGED <<poolVars, linkVars, dialVars, slots>> /\ HandsKept
        BY <1>1, LocalMoveFrame, LocalHands DEF TypeOK
  <2>2. QED BY SMTT(60), <2>1 DEF HandsKept, NoLeak, Owned, Tracked, OwnedBySweep, OwnedByDial, OwnedByQuery, TypeOK
<1>2. CASE CloseMove
  <2>1. ASSUME NEW q \in Query, CloseNew(q) PROVE NoLeak'
    <3> SUFFICES ASSUME NEW x \in Conn, link'[x] = "open" PROVE Owned(x)'
        BY DEF NoLeak, TypeOK
    <3>1. ASSUME Tracked(x) \/ OwnedBySweep(x) PROVE Tracked(x)' \/ OwnedBySweep(x)'
          BY <2>1, <3>1 DEF Tracked, OwnedBySweep, CloseNew, CloseLink, Fail, SlotsLess, PoolTypeOK, LinkTypeOK, TypeOK
    <3>2. ASSUME OwnedByDial(x) PROVE OwnedByDial(x)'
          BY <2>1, <3>2 DEF OwnedByDial, CloseNew, CloseLink, Fail, SlotsLess, DialTypeOK, LinkTypeOK, TypeOK
    <3>3. ASSUME OwnedByQuery(x) PROVE OwnedByQuery(x)'
          BY <2>1, <3>3 DEF OwnedByQuery, CloseNew, CloseLink, Fail, SlotsLess, QueryTypeOK, LinkTypeOK, TypeOK
    <3>4. link[x] = "open"
          BY <2>1 DEF CloseNew, CloseLink, Fail, SlotsLess, LinkTypeOK, TypeOK
    <3>5. QED BY <3>1, <3>2, <3>3, <3>4 DEF NoLeak, Owned, TypeOK
  <2>2. ASSUME NEW q \in Query, CloseDead(q) PROVE NoLeak'
    <3> SUFFICES ASSUME NEW x \in Conn, link'[x] = "open" PROVE Owned(x)'
        BY DEF NoLeak, TypeOK
    <3>1. ASSUME Tracked(x) \/ OwnedBySweep(x) PROVE Tracked(x)' \/ OwnedBySweep(x)'
          BY <2>2, <3>1 DEF Tracked, OwnedBySweep, CloseDead, CloseLink, Retry, PoolTypeOK, LinkTypeOK, TypeOK
    <3>2. ASSUME OwnedByDial(x) PROVE OwnedByDial(x)'
          BY <2>2, <3>2 DEF OwnedByDial, CloseDead, CloseLink, Retry, DialTypeOK, LinkTypeOK, TypeOK
    <3>3. ASSUME OwnedByQuery(x) PROVE OwnedByQuery(x)'
          BY <2>2, <3>3 DEF OwnedByQuery, CloseDead, CloseLink, Retry, QueryTypeOK, LinkTypeOK, TypeOK
    <3>4. link[x] = "open"
          BY <2>2 DEF CloseDead, CloseLink, Retry, LinkTypeOK, TypeOK
    <3>5. QED BY <3>1, <3>2, <3>3, <3>4 DEF NoLeak, Owned, TypeOK
  <2>3. ASSUME NEW q \in Query, CloseDropped(q) PROVE NoLeak'
    <3> SUFFICES ASSUME NEW x \in Conn, link'[x] = "open" PROVE Owned(x)'
        BY DEF NoLeak, TypeOK
    <3>1. ASSUME Tracked(x) \/ OwnedBySweep(x) PROVE Tracked(x)' \/ OwnedBySweep(x)'
          BY <2>3, <3>1 DEF Tracked, OwnedBySweep, CloseDropped, CloseLink, Hold, PoolTypeOK, LinkTypeOK, TypeOK
    <3>2. ASSUME OwnedByDial(x) PROVE OwnedByDial(x)'
          BY <2>3, <3>2 DEF OwnedByDial, CloseDropped, CloseLink, Hold, DialTypeOK, LinkTypeOK, TypeOK
    <3>3. ASSUME OwnedByQuery(x) PROVE OwnedByQuery(x)'
          BY <2>3, <3>3 DEF OwnedByQuery, CloseDropped, CloseLink, Hold, QueryTypeOK, LinkTypeOK, TypeOK
    <3>4. link[x] = "open"
          BY <2>3 DEF CloseDropped, CloseLink, Hold, LinkTypeOK, TypeOK
    <3>5. QED BY <3>1, <3>2, <3>3, <3>4 DEF NoLeak, Owned, TypeOK
  <2>4. QED BY <1>2, <2>1, <2>2, <2>3 DEF CloseMove
<1>3. CASE DialMove
  <2>1. ASSUME NEW q \in Query, NEW d \in Dial, TakeSlot(q, d) PROVE NoLeak'
        BY ZenonT(60), <2>1 DEF TakeSlot, BeginDial, PoolTypeOK, LinkTypeOK, DialTypeOK, QueryTypeOK, NoLeak, Owned, Tracked, OwnedBySweep, OwnedByDial, OwnedByQuery, TypeOK
  <2>2. ASSUME NEW q \in Query, DialFailed(q) PROVE NoLeak'
    <3> SUFFICES ASSUME NEW x \in Conn, link'[x] = "open" PROVE Owned(x)'
        BY DEF NoLeak, TypeOK
    <3>1. ASSUME Tracked(x) \/ OwnedBySweep(x) PROVE Tracked(x)' \/ OwnedBySweep(x)'
          BY <2>2, <3>1 DEF Tracked, OwnedBySweep, DialFailed, Fail, Advance, DialInv, QueryInv, Waiting, PoolTypeOK, DialTypeOK, QueryTypeOK, TypeOK
    <3>2. ASSUME OwnedByDial(x) PROVE OwnedByDial(x)'
          BY SMTT(60), <2>2, <3>2 DEF OwnedByDial, DialFailed, Fail, Advance, DialInv, QueryInv, Waiting, DialTypeOK, DialTypeOK, QueryTypeOK, TypeOK
    <3>3. ASSUME OwnedByQuery(x) PROVE OwnedByQuery(x)'
          BY SMTT(60), <2>2, <3>3 DEF OwnedByQuery, DialFailed, Fail, Advance, DialInv, QueryInv, Waiting, QueryTypeOK, DialTypeOK, QueryTypeOK, TypeOK
    <3>4. link[x] = "open"
          BY <2>2 DEF DialFailed, Fail, Advance, DialInv, QueryInv, Waiting, LinkTypeOK, TypeOK
    <3>5. QED BY <3>1, <3>2, <3>3, <3>4 DEF NoLeak, Owned, TypeOK
  <2>3. ASSUME NEW q \in Query, InstallRefused(q) PROVE NoLeak'
    <3> SUFFICES ASSUME NEW x \in Conn, link'[x] = "open" PROVE Owned(x)'
        BY DEF NoLeak, TypeOK
    <3>1. ASSUME Tracked(x) \/ OwnedBySweep(x) PROVE Tracked(x)' \/ OwnedBySweep(x)'
          BY <2>3, <3>1 DEF Tracked, OwnedBySweep, InstallRefused, Replaced, Hold, Advance, QueryInv, Waiting, PoolTypeOK, DialTypeOK, QueryTypeOK, TypeOK
    <3>2. ASSUME OwnedByDial(x) PROVE OwnedByDial(x)' \/ OwnedByQuery(x)'
          BY SMTT(60), <2>3, <3>2 DEF OwnedByDial, OwnedByQuery, InstallRefused, Replaced, Hold, Advance, QueryInv, Waiting, DialTypeOK, QueryTypeOK, DialTypeOK, QueryTypeOK, TypeOK
    <3>3. ASSUME OwnedByQuery(x) PROVE OwnedByQuery(x)'
          BY SMTT(60), <2>3, <3>3 DEF OwnedByQuery, InstallRefused, Replaced, Hold, Advance, QueryInv, Waiting, QueryTypeOK, DialTypeOK, QueryTypeOK, TypeOK
    <3>4. link[x] = "open"
          BY <2>3 DEF InstallRefused, Replaced, Hold, Advance, QueryInv, Waiting, LinkTypeOK, TypeOK
    <3>5. QED BY <3>1, <3>2, <3>3, <3>4 DEF NoLeak, Owned, TypeOK
  <2>4. QED BY <1>3, <2>1, <2>2, <2>3 DEF DialMove
<1>4. CASE PoolMove
  <2>1. ASSUME NEW q \in Query, SharedAlive(q) PROVE NoLeak'
    <3> SUFFICES ASSUME NEW x \in Conn, link'[x] = "open" PROVE Owned(x)'
        BY DEF NoLeak, TypeOK
    <3>1. ASSUME Tracked(x) PROVE Tracked(x)'
          BY <2>1, <3>1 DEF Tracked, SharedAlive, TakeAlive, Return, Created, PoolTypeOK, TypeOK
    <3>2. ASSUME OwnedBySweep(x) PROVE OwnedBySweep(x)'
          BY <2>1, <3>2 DEF OwnedBySweep, SharedAlive, TakeAlive, Return, Created, PoolTypeOK, TypeOK
    <3>3. ASSUME OwnedByDial(x) PROVE OwnedByDial(x)'
          BY <2>1, <3>3 DEF OwnedByDial, SharedAlive, TakeAlive, Return, Created, DialTypeOK, TypeOK
    <3>4. ASSUME OwnedByQuery(x) PROVE OwnedByQuery(x)'
          BY <2>1, <3>4 DEF OwnedByQuery, SharedAlive, TakeAlive, Return, Created, QueryTypeOK, TypeOK
    <3>5. link[x] = "open"
          BY <2>1 DEF SharedAlive, TakeAlive, Return, Created, LinkTypeOK, TypeOK
    <3>6. QED BY <3>1, <3>2, <3>3, <3>4, <3>5 DEF NoLeak, Owned, TypeOK
  <2>2. ASSUME NEW q \in Query, SharedDead(q) PROVE NoLeak'
    <3> SUFFICES ASSUME NEW x \in Conn, link'[x] = "open" PROVE Owned(x)'
        BY DEF NoLeak, TypeOK
    <3>1. ASSUME Tracked(x) PROVE Tracked(x)' \/ OwnedByQuery(x)'
          BY <2>2, <3>1 DEF Tracked, OwnedByQuery, SharedDead, TakeDead, RemoveConn, CancelsShared, Hold, StateInv, PoolTypeOK, QueryTypeOK, TypeOK
    <3>2. ASSUME OwnedBySweep(x) PROVE OwnedBySweep(x)'
          BY <2>2, <3>2 DEF OwnedBySweep, SharedDead, TakeDead, RemoveConn, CancelsShared, Hold, StateInv, PoolTypeOK, TypeOK
    <3>3. ASSUME OwnedByDial(x) PROVE OwnedByDial(x)'
          BY <2>2, <3>3 DEF OwnedByDial, SharedDead, TakeDead, RemoveConn, CancelsShared, Hold, StateInv, DialTypeOK, TypeOK
    <3>4. ASSUME OwnedByQuery(x) PROVE OwnedByQuery(x)'
          BY <2>2, <3>4 DEF OwnedByQuery, SharedDead, TakeDead, RemoveConn, CancelsShared, Hold, StateInv, QueryTypeOK, TypeOK
    <3>5. link[x] = "open"
          BY <2>2 DEF SharedDead, TakeDead, RemoveConn, CancelsShared, Hold, StateInv, LinkTypeOK, TypeOK
    <3>6. QED BY <3>1, <3>2, <3>3, <3>4, <3>5 DEF NoLeak, Owned, TypeOK
  <2>3. ASSUME NEW q \in Query, IdleAlive(q) PROVE NoLeak'
        BY ZenonT(60), <2>3 DEF IdleAlive, IdleRest, Return, PoolTypeOK, LinkTypeOK, DialTypeOK, QueryTypeOK, NoLeak, Owned, Tracked, OwnedBySweep, OwnedByDial, OwnedByQuery, TypeOK
  <2>4. ASSUME NEW q \in Query, IdleDead(q) PROVE NoLeak'
    <3> SUFFICES ASSUME NEW x \in Conn, link'[x] = "open" PROVE Owned(x)'
        BY DEF NoLeak, TypeOK
    <3>1. ASSUME Tracked(x) PROVE Tracked(x)' \/ OwnedByQuery(x)'
          BY <2>4, <3>1 DEF Tracked, OwnedByQuery, IdleDead, IdleRest, Hold, StateInv, PoolTypeOK, QueryTypeOK, TypeOK
    <3>2. ASSUME OwnedBySweep(x) PROVE OwnedBySweep(x)'
          BY <2>4, <3>2 DEF OwnedBySweep, IdleDead, IdleRest, Hold, StateInv, PoolTypeOK, TypeOK
    <3>3. ASSUME OwnedByDial(x) PROVE OwnedByDial(x)'
          BY <2>4, <3>3 DEF OwnedByDial, IdleDead, IdleRest, Hold, StateInv, DialTypeOK, TypeOK
    <3>4. ASSUME OwnedByQuery(x) PROVE OwnedByQuery(x)'
          BY <2>4, <3>4 DEF OwnedByQuery, IdleDead, IdleRest, Hold, StateInv, QueryTypeOK, TypeOK
    <3>5. link[x] = "open"
          BY <2>4 DEF IdleDead, IdleRest, Hold, StateInv, LinkTypeOK, TypeOK
    <3>6. QED BY <3>1, <3>2, <3>3, <3>4, <3>5 DEF NoLeak, Owned, TypeOK
  <2>5. ASSUME NEW q \in Query, ReleaseReuse(q) PROVE NoLeak'
        BY ZenonT(60), <2>5 DEF ReleaseReuse, Tracked, Hold, PoolTypeOK, LinkTypeOK, DialTypeOK, QueryTypeOK, NoLeak, Owned, Tracked, OwnedBySweep, OwnedByDial, OwnedByQuery, TypeOK
  <2>6. ASSUME NEW q \in Query, DropTracked(q) PROVE NoLeak'
    <3> SUFFICES ASSUME NEW x \in Conn, link'[x] = "open" PROVE Owned(x)'
        BY DEF NoLeak, TypeOK
    <3>1. ASSUME Tracked(x) PROVE Tracked(x)' \/ OwnedByQuery(x)'
          BY SMTT(60), <2>6, <3>1 DEF Tracked, OwnedByQuery, DropTracked, RemoveConn, CancelsShared, Goto, QueryTypeOK, TypeOK
    <3>2. ASSUME OwnedBySweep(x) PROVE OwnedBySweep(x)'
          BY <2>6, <3>2 DEF OwnedBySweep, DropTracked, Tracked, RemoveConn, CancelsShared, Goto, StateInv, PoolTypeOK, TypeOK
    <3>3. ASSUME OwnedByDial(x) PROVE OwnedByDial(x)'
          BY <2>6, <3>3 DEF OwnedByDial, DropTracked, Tracked, RemoveConn, CancelsShared, Goto, StateInv, DialTypeOK, TypeOK
    <3>4. ASSUME OwnedByQuery(x) PROVE OwnedByQuery(x)'
          BY <2>6, <3>4 DEF OwnedByQuery, DropTracked, Tracked, RemoveConn, CancelsShared, Goto, StateInv, QueryTypeOK, TypeOK
    <3>5. link[x] = "open"
          BY <2>6 DEF DropTracked, Tracked, RemoveConn, CancelsShared, Goto, StateInv, LinkTypeOK, TypeOK
    <3>6. QED BY <3>1, <3>2, <3>3, <3>4, <3>5 DEF NoLeak, Owned, TypeOK
  <2>7. QED BY <1>4, <2>1, <2>2, <2>3, <2>4, <2>5, <2>6 DEF PoolMove
<1>5. CASE StartMove
  <2>1. ASSUME NEW q \in Query, NEW d \in Dial, StartConnect(q, d) PROVE NoLeak'
    <3> SUFFICES ASSUME NEW x \in Conn, link'[x] = "open" PROVE Owned(x)'
        BY DEF NoLeak, TypeOK
    <3>1. ASSUME Tracked(x) PROVE Tracked(x)'
          BY <2>1, <3>1 DEF Tracked, StartConnect, StartDial, BeginDial, PoolTypeOK, TypeOK
    <3>2. ASSUME OwnedBySweep(x) PROVE OwnedBySweep(x)'
          BY <2>1, <3>2 DEF OwnedBySweep, StartConnect, StartDial, BeginDial, PoolTypeOK, TypeOK
    <3>3. ASSUME OwnedByDial(x) PROVE OwnedByDial(x)'
          BY <2>1, <3>3 DEF OwnedByDial, StartConnect, StartDial, BeginDial, DialTypeOK, TypeOK
    <3>4. ASSUME OwnedByQuery(x) PROVE OwnedByQuery(x)'
          BY <2>1, <3>4 DEF OwnedByQuery, StartConnect, StartDial, BeginDial, QueryTypeOK, TypeOK
    <3>5. link[x] = "open"
          BY <2>1 DEF StartConnect, StartDial, BeginDial, LinkTypeOK, TypeOK
    <3>6. QED BY <3>1, <3>2, <3>3, <3>4, <3>5 DEF NoLeak, Owned, TypeOK
  <2>2. QED BY <1>5, <2>1 DEF StartMove
<1>6. CASE InstallMove
  <2>1. ASSUME NEW q \in Query, InstallOrdered(q) PROVE NoLeak'
    <3> SUFFICES ASSUME NEW x \in Conn, link'[x] = "open" PROVE Owned(x)'
        BY DEF NoLeak, TypeOK
    <3>1. ASSUME Tracked(x) PROVE Tracked(x)'
      <4>1. state' = state /\ all[state] \subseteq all'[state]
            BY <2>1, <3>1 DEF Tracked, InstallOrdered, TypeOK, PoolTypeOK
      <4>2. QED BY <3>1, <4>1 DEF Tracked
    <3>2. ASSUME OwnedBySweep(x) PROVE OwnedBySweep(x)'
      <4>1. PICK g \in Gen : phase[g] \in {"swapped", "cancelled"} /\ x \in all[g] \ swept[g]
            BY <3>2 DEF OwnedBySweep
      <4>2. phase' = phase /\ swept' = swept /\ x \in all'[g]
            BY <2>1, <4>1 DEF InstallOrdered, TypeOK, PoolTypeOK
      <4>3. QED BY <4>1, <4>2 DEF OwnedBySweep
    <3>3. ASSUME OwnedByDial(x) PROVE OwnedByDial(x)' \/ Tracked(x)'
      <4>1. PICK d \in Dial : dialConn[d] = x
            BY <3>3 DEF OwnedByDial
      <4>2. CASE d = dial[q]
        <5>1. gen[q] = state /\ state' = state /\ state # 0
              BY <2>1 DEF InstallOrdered, Replaced
        <5>2. x \in all'[state]
              BY <2>1, <4>1, <4>2, <5>1 DEF InstallOrdered, TypeOK, PoolTypeOK
        <5>3. QED BY <5>1, <5>2 DEF Tracked
      <4>3. CASE d # dial[q]
        <5>1. dialConn'[d] = x
              BY <2>1, <4>1, <4>3 DEF InstallOrdered, Advance, TypeOK, DialTypeOK
        <5>2. QED BY <5>1 DEF OwnedByDial
      <4>4. QED BY <4>2, <4>3
    <3>4. ASSUME OwnedByQuery(x) PROVE OwnedByQuery(x)'
      <4>1. \A r \in Query : r # q => pc'[r] = pc[r] /\ conn'[r] = conn[r]
            BY <2>1 DEF InstallOrdered, Return, TypeOK, QueryTypeOK
      <4>2. pc[q] = "dial"
            BY <2>1 DEF InstallOrdered
      <4>3. QED BY <3>4, <4>1, <4>2 DEF OwnedByQuery
    <3>5. link[x] = "open"
          BY <2>1 DEF InstallOrdered, Replaced, Return, Advance, QueryInv, Waiting, LinkTypeOK, TypeOK
    <3>6. QED BY <3>1, <3>2, <3>3, <3>4, <3>5 DEF NoLeak, Owned, TypeOK
  <2>2. QED BY <1>6, <2>1 DEF InstallMove
<1>7. CASE AttemptMove
  <2>1. ASSUME NEW c \in Conn, ConnDies(c) PROVE NoLeak'
        BY <2>1 DEF ConnDies, PoolTypeOK, LinkTypeOK, DialTypeOK, QueryTypeOK, NoLeak, Owned, Tracked, OwnedBySweep, OwnedByDial, OwnedByQuery, TypeOK
  <2>2. ASSUME NEW d \in Dial, NEW c \in Conn, DialOk(d, c) PROVE NoLeak'
    <3> SUFFICES ASSUME NEW x \in Conn, link'[x] = "open" PROVE Owned(x)'
        BY DEF NoLeak, TypeOK
    <3>1. ASSUME Tracked(x) \/ OwnedBySweep(x) \/ OwnedByQuery(x) PROVE Tracked(x)' \/ OwnedBySweep(x)' \/ OwnedByQuery(x)'
          BY <2>2, <3>1 DEF Tracked, OwnedBySweep, OwnedByQuery, DialOk, Advance, DialInv, PoolTypeOK, QueryTypeOK, TypeOK
    <3>2. ASSUME OwnedByDial(x) PROVE OwnedByDial(x)'
          BY <2>2, <3>2 DEF OwnedByDial, DialOk, Advance, DialInv, DialTypeOK, TypeOK
    <3>3. link[x] = "open" \/ OwnedByDial(x)'
          BY <2>2 DEF OwnedByDial, DialOk, Advance, DialInv, LinkTypeOK, DialTypeOK, TypeOK
    <3>4. QED BY <3>1, <3>2, <3>3 DEF NoLeak, Owned, TypeOK
  <2>3. ASSUME NEW d \in Dial, DialFail(d) PROVE NoLeak'
    <3> SUFFICES ASSUME NEW x \in Conn, link'[x] = "open" PROVE Owned(x)'
        BY DEF NoLeak, TypeOK
    <3>1. ASSUME Tracked(x) \/ OwnedBySweep(x) \/ OwnedByQuery(x) PROVE Tracked(x)' \/ OwnedBySweep(x)' \/ OwnedByQuery(x)'
          BY <2>3, <3>1 DEF Tracked, OwnedBySweep, OwnedByQuery, DialFail, Advance, DialInv, PoolTypeOK, QueryTypeOK, TypeOK
    <3>2. ASSUME OwnedByDial(x) PROVE OwnedByDial(x)'
          BY <2>3, <3>2 DEF OwnedByDial, DialFail, Advance, DialInv, DialTypeOK, TypeOK
    <3>3. link[x] = "open"
          BY <2>3 DEF DialFail, Advance, DialInv, LinkTypeOK, TypeOK
    <3>4. QED BY <3>1, <3>2, <3>3 DEF NoLeak, Owned, TypeOK
  <2>4. ASSUME NEW d \in Dial, CheckOk(d) PROVE NoLeak'
        BY ZenonT(60), <2>4 DEF CheckOk, Advance, PoolTypeOK, LinkTypeOK, DialTypeOK, QueryTypeOK, NoLeak, Owned, Tracked, OwnedBySweep, OwnedByDial, OwnedByQuery, TypeOK
  <2>5. ASSUME NEW d \in Dial, NEW err \in Errors, OverruledClose(d, err) PROVE NoLeak'
    <3> SUFFICES ASSUME NEW x \in Conn, link'[x] = "open" PROVE Owned(x)'
        BY DEF NoLeak, TypeOK
    <3>1. ASSUME Tracked(x) \/ OwnedBySweep(x) \/ OwnedByQuery(x) PROVE Tracked(x)' \/ OwnedBySweep(x)' \/ OwnedByQuery(x)'
          BY <2>5, <3>1 DEF Tracked, OwnedBySweep, OwnedByQuery, OverruledClose, Overruled, DialCtx, CloseLink, Advance, PoolTypeOK, QueryTypeOK, LinkTypeOK, TypeOK
    <3>2. ASSUME OwnedByDial(x) PROVE OwnedByDial(x)'
          BY <2>5, <3>2 DEF OwnedByDial, OverruledClose, Overruled, DialCtx, CloseLink, Advance, DialTypeOK, LinkTypeOK, TypeOK
    <3>3. link[x] = "open"
          BY <2>5 DEF OverruledClose, Overruled, DialCtx, CloseLink, Advance, LinkTypeOK, TypeOK
    <3>4. QED BY <3>1, <3>2, <3>3 DEF NoLeak, Owned, TypeOK
  <2>6. ASSUME NEW d \in Dial, NEW err \in Errors, OverruledNone(d, err) PROVE NoLeak'
    <3> SUFFICES ASSUME NEW x \in Conn, link'[x] = "open" PROVE Owned(x)'
        BY DEF NoLeak, TypeOK
    <3>1. ASSUME Tracked(x) \/ OwnedBySweep(x) \/ OwnedByQuery(x) PROVE Tracked(x)' \/ OwnedBySweep(x)' \/ OwnedByQuery(x)'
          BY <2>6, <3>1 DEF Tracked, OwnedBySweep, OwnedByQuery, OverruledNone, Overruled, DialCtx, Advance, PoolTypeOK, QueryTypeOK, TypeOK
    <3>2. ASSUME OwnedByDial(x) PROVE OwnedByDial(x)'
          BY <2>6, <3>2 DEF OwnedByDial, OverruledNone, Overruled, DialCtx, Advance, DialTypeOK, TypeOK
    <3>3. link[x] = "open"
          BY <2>6 DEF OverruledNone, Overruled, DialCtx, Advance, LinkTypeOK, TypeOK
    <3>4. QED BY <3>1, <3>2, <3>3 DEF NoLeak, Owned, TypeOK
  <2>7. ASSUME NEW d \in Dial, FinishClose(d) PROVE NoLeak'
    <3> SUFFICES ASSUME NEW x \in Conn, link'[x] = "open" PROVE Owned(x)'
        BY DEF NoLeak, TypeOK
    <3>1. ASSUME Tracked(x) \/ OwnedBySweep(x) \/ OwnedByQuery(x) PROVE Tracked(x)' \/ OwnedBySweep(x)' \/ OwnedByQuery(x)'
          BY <2>7, <3>1 DEF Tracked, OwnedBySweep, OwnedByQuery, FinishClose, CloseLink, Advance, PoolTypeOK, QueryTypeOK, LinkTypeOK, TypeOK
    <3>2. ASSUME OwnedByDial(x) PROVE OwnedByDial(x)'
          BY <2>7, <3>2 DEF OwnedByDial, FinishClose, CloseLink, Advance, DialTypeOK, LinkTypeOK, TypeOK
    <3>3. link[x] = "open"
          BY <2>7 DEF FinishClose, CloseLink, Advance, LinkTypeOK, TypeOK
    <3>4. QED BY <3>1, <3>2, <3>3 DEF NoLeak, Owned, TypeOK
  <2>8. ASSUME NEW d \in Dial, FinishNone(d) PROVE NoLeak'
        BY <2>8 DEF FinishNone, Advance, PoolTypeOK, LinkTypeOK, DialTypeOK, QueryTypeOK, NoLeak, Owned, Tracked, OwnedBySweep, OwnedByDial, OwnedByQuery, TypeOK
  <2>9. QED BY <1>7, <2>1, <2>2, <2>3, <2>4, <2>5, <2>6, <2>7, <2>8 DEF AttemptMove
<1>8. CASE ConnectMove
  <2>1. ASSUME NEW d \in Dial, InstallFailed(d) PROVE NoLeak'
        BY ZenonT(60), <2>1 DEF InstallFailed, DialOver, Advance, PoolTypeOK, LinkTypeOK, DialTypeOK, QueryTypeOK, NoLeak, Owned, Tracked, OwnedBySweep, OwnedByDial, OwnedByQuery, TypeOK
  <2>2. ASSUME NEW d \in Dial, InstallReplaced(d) PROVE NoLeak'
    <3> SUFFICES ASSUME NEW x \in Conn, link'[x] = "open" PROVE Owned(x)'
        BY DEF NoLeak, TypeOK
    <3>1. ASSUME Tracked(x) PROVE Tracked(x)'
          BY <2>2, <3>1 DEF Tracked, InstallReplaced, Replaced, DialOver, Advance, PoolTypeOK, TypeOK
    <3>2. ASSUME OwnedBySweep(x) PROVE OwnedBySweep(x)'
          BY <2>2, <3>2 DEF OwnedBySweep, InstallReplaced, Replaced, DialOver, Advance, PoolTypeOK, TypeOK
    <3>3. ASSUME OwnedByDial(x) PROVE OwnedByDial(x)'
          BY <2>2, <3>3 DEF OwnedByDial, InstallReplaced, Replaced, DialOver, Advance, DialTypeOK, TypeOK
    <3>4. ASSUME OwnedByQuery(x) PROVE OwnedByQuery(x)'
          BY <2>2, <3>4 DEF OwnedByQuery, InstallReplaced, Replaced, DialOver, Advance, QueryTypeOK, TypeOK
    <3>5. link[x] = "open"
          BY <2>2 DEF InstallReplaced, Replaced, DialOver, Advance, LinkTypeOK, TypeOK
    <3>6. QED BY <3>1, <3>2, <3>3, <3>4, <3>5 DEF NoLeak, Owned, TypeOK
  <2>3. ASSUME NEW d \in Dial, InstallShared(d) PROVE NoLeak'
    <3> SUFFICES ASSUME NEW x \in Conn, link'[x] = "open" PROVE Owned(x)'
        BY DEF NoLeak, TypeOK
    <3>1. ASSUME Tracked(x) PROVE Tracked(x)'
          BY <2>3, <3>1 DEF Tracked, InstallShared, Replaced, DialOver, Advance, DialInv, PoolTypeOK, DialTypeOK, TypeOK
    <3>2. ASSUME OwnedBySweep(x) PROVE OwnedBySweep(x)'
          BY <2>3, <3>2 DEF OwnedBySweep, InstallShared, Replaced, DialOver, Advance, DialInv, PoolTypeOK, DialTypeOK, TypeOK
    <3>3. ASSUME OwnedByDial(x) PROVE OwnedByDial(x)' \/ Tracked(x)'
          BY <2>3, <3>3 DEF OwnedByDial, Tracked, InstallShared, Replaced, DialOver, Advance, DialInv, DialTypeOK, PoolTypeOK, DialTypeOK, TypeOK
    <3>4. ASSUME OwnedByQuery(x) PROVE OwnedByQuery(x)'
          BY <2>3, <3>4 DEF OwnedByQuery, InstallShared, Replaced, DialOver, Advance, DialInv, QueryTypeOK, DialTypeOK, TypeOK
    <3>5. link[x] = "open"
          BY <2>3 DEF InstallShared, Replaced, DialOver, Advance, DialInv, LinkTypeOK, TypeOK
    <3>6. QED BY <3>1, <3>2, <3>3, <3>4, <3>5 DEF NoLeak, Owned, TypeOK
  <2>4. QED BY <1>8, <2>1, <2>2, <2>3 DEF ConnectMove
<1>9. CASE StateMove
  <2>1. CASE Reset
    <3>1. /\ state \in Gen /\ phase'[state] = "swapped" /\ swept[state] = {}
          /\ \A g \in Gen : phase[g] \in {"swapped", "cancelled"} => phase'[g] = phase[g]
          /\ UNCHANGED <<all, swept, linkVars, dialVars, queryVars>>
      <4>1. state \in Gen /\ state + 1 \in Gen /\ swept[state] = {}
        <5>1. state \in Gen /\ state + 1 \in Gen
              BY SMTT(60), <2>1 DEF Reset, StateInv, PoolTypeOK, TypeOK
        <5>2. phase[state] = "live"
              BY <2>1, <5>1 DEF Reset, StateInv, PoolTypeOK, TypeOK
        <5>3. QED BY <5>1, <5>2 DEF StateInv, PoolTypeOK, TypeOK
      <4>2. phase[state + 1] = "unborn"
            BY SMTT(60), <2>1, <4>1 DEF Reset, StateInv, PoolTypeOK, TypeOK
      <4>3. phase'[state] = "swapped"
            BY SMTT(60), <2>1, <4>1 DEF Reset, PoolTypeOK, TypeOK
      <4>4. \A g \in Gen : phase[g] \in {"swapped", "cancelled"} => phase'[g] = phase[g]
        <5>1. phase[state] = "live"
              BY <2>1, <4>1 DEF Reset, StateInv, PoolTypeOK, TypeOK
        <5>2. \A g \in Gen : g # state /\ g # state + 1 => phase'[g] = phase[g]
              BY <2>1, <4>1 DEF Reset, PoolTypeOK, TypeOK
        <5>3. QED BY <4>2, <5>1, <5>2 DEF TypeOK
      <4>5. QED BY <2>1, <4>1, <4>3, <4>4 DEF Reset, PoolTypeOK, TypeOK
    <3> SUFFICES ASSUME NEW x \in Conn, link[x] = "open" PROVE Owned(x)'
        BY <3>1 DEF NoLeak, TypeOK
    <3>2. ASSUME Tracked(x) PROVE OwnedBySweep(x)'
          BY <3>1, <3>2 DEF Tracked, OwnedBySweep, TypeOK
    <3>3. ASSUME OwnedBySweep(x) PROVE OwnedBySweep(x)'
          BY <3>1, <3>3 DEF OwnedBySweep, TypeOK
    <3>4. OwnedByDial(x) => OwnedByDial(x)'
          BY <3>1 DEF OwnedByDial, TypeOK
    <3>5. OwnedByQuery(x) => OwnedByQuery(x)'
          BY <3>1 DEF OwnedByQuery, TypeOK
    <3>6. QED BY <3>2, <3>3, <3>4, <3>5 DEF NoLeak, Owned, TypeOK
  <2>2. CASE Close
    <3> SUFFICES ASSUME NEW x \in Conn, link'[x] = "open" PROVE Owned(x)'
        BY DEF NoLeak, TypeOK
    <3>1. ASSUME Tracked(x) PROVE OwnedBySweep(x)'
          BY <2>2, <3>1 DEF Tracked, OwnedBySweep, Close, StateInv, PoolTypeOK, TypeOK
    <3>2. ASSUME OwnedBySweep(x) PROVE OwnedBySweep(x)'
          BY <2>2, <3>2 DEF OwnedBySweep, Close, StateInv, PoolTypeOK, TypeOK
    <3>3. ASSUME OwnedByDial(x) \/ OwnedByQuery(x) PROVE OwnedByDial(x)' \/ OwnedByQuery(x)'
          BY <2>2, <3>3 DEF OwnedByDial, OwnedByQuery, Close, StateInv, DialTypeOK, QueryTypeOK, TypeOK
    <3>4. link[x] = "open"
          BY <2>2 DEF Close, StateInv, LinkTypeOK, TypeOK
    <3>5. QED BY <3>1, <3>2, <3>3, <3>4 DEF NoLeak, Owned, TypeOK
  <2>3. ASSUME NEW g \in Gen, CancelState(g) PROVE NoLeak'
    <3> SUFFICES ASSUME NEW x \in Conn, link'[x] = "open" PROVE Owned(x)'
        BY DEF NoLeak, TypeOK
    <3>1. ASSUME Tracked(x) PROVE Tracked(x)'
          BY <2>3, <3>1 DEF Tracked, CancelState, StateInv, PoolTypeOK, TypeOK
    <3>2. ASSUME OwnedBySweep(x) PROVE OwnedBySweep(x)'
          BY <2>3, <3>2 DEF OwnedBySweep, CancelState, StateInv, PoolTypeOK, TypeOK
    <3>3. ASSUME OwnedByDial(x) \/ OwnedByQuery(x) PROVE OwnedByDial(x)' \/ OwnedByQuery(x)'
          BY <2>3, <3>3 DEF OwnedByDial, OwnedByQuery, CancelState, StateInv, DialTypeOK, QueryTypeOK, TypeOK
    <3>4. link[x] = "open"
          BY <2>3 DEF CancelState, StateInv, LinkTypeOK, TypeOK
    <3>5. QED BY <3>1, <3>2, <3>3, <3>4 DEF NoLeak, Owned, TypeOK
  <2>4. ASSUME NEW g \in Gen, NEW c \in Conn, SweepConn(g, c) PROVE NoLeak'
    <3> SUFFICES ASSUME NEW x \in Conn, link'[x] = "open" PROVE Owned(x)'
        BY DEF NoLeak, TypeOK
    <3>1. ASSUME Tracked(x) PROVE Tracked(x)'
          BY <2>4, <3>1 DEF Tracked, SweepConn, CloseLink, PoolTypeOK, LinkTypeOK, TypeOK
    <3>2. ASSUME OwnedBySweep(x) PROVE OwnedBySweep(x)'
          BY <2>4, <3>2 DEF OwnedBySweep, SweepConn, CloseLink, PoolTypeOK, LinkTypeOK, TypeOK
    <3>3. ASSUME OwnedByDial(x) \/ OwnedByQuery(x) PROVE OwnedByDial(x)' \/ OwnedByQuery(x)'
          BY <2>4, <3>3 DEF OwnedByDial, OwnedByQuery, SweepConn, CloseLink, DialTypeOK, QueryTypeOK, LinkTypeOK, TypeOK
    <3>4. link[x] = "open"
          BY <2>4 DEF SweepConn, CloseLink, LinkTypeOK, TypeOK
    <3>5. QED BY <3>1, <3>2, <3>3, <3>4 DEF NoLeak, Owned, TypeOK
  <2>5. QED BY <1>9, <2>1, <2>2, <2>3, <2>4 DEF StateMove
<1>10. CASE UNCHANGED vars
      BY <1>10 DEF vars, NoLeak, Owned, Tracked, OwnedBySweep, OwnedByDial, OwnedByQuery, TypeOK
<1>11. QED BY StepCases, <1>1, <1>2, <1>3, <1>4, <1>5, <1>6, <1>7, <1>8, <1>9, <1>10 DEF Step
=============================================================================
