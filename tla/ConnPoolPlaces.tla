--------------------------- MODULE ConnPoolPlaces ---------------------------
(***************************************************************************)
(* Every step of ConnPool preserves the parts of the inductive invariant   *)
(* that say where a connection is.                                         *)
(***************************************************************************)
EXTENDS ConnPoolMoves

USE ModeAssumption, BoundAssumption, NoneAssumption, ZenonT(40), SMTT(60)
USE DEF poolVars, linkVars, dialVars, queryVars, closed, Locals, Gen, Errors

(***************************************************************************)
(* The updates that actions share, dial by dial and connection by          *)
(* connection.                                                             *)
(***************************************************************************)

(* The progress of a dial changes no other dial. *)
LEMMA AdvanceAt ==
    ASSUME TypeOK, NEW d, NEW st, NEW c, NEW err, Advance(d, st, c, err)
    PROVE  /\ dialGen' = dialGen /\ dialBy' = dialBy
           /\ \A e \in Dial :
                 /\ e = d => stage'[e] = st /\ dialConn'[e] = c /\ dialErr'[e] = err
                 /\ e # d => stage'[e] = stage[e] /\ dialConn'[e] = dialConn[e] /\ dialErr'[e] = dialErr[e]
BY DEF Advance, TypeOK, DialTypeOK

(* Close of one connection leaves the others as they are. *)
LEMMA CloseAt ==
    ASSUME TypeOK, NEW c, CloseLink(c)
    PROVE  /\ dead' = dead /\ ctxDoneOf' = ctxDoneOf /\ creations' = creations
           /\ \A x \in Conn : (x = c => link'[x] = "closed") /\ (x # c => link'[x] = link[x])
BY DEF CloseLink, TypeOK, LinkTypeOK

(* The steps after which no dial holds a connection that it did not hold. *)
DialsKept == \A d \in Dial : dialConn'[d] \in {dialConn[d], None}

LEMMA DialsOnlyLose ==
    ASSUME TypeOK,
           \/ DialMove \/ ConnectMove \/ InstallMove
           \/ \E d \in Dial : DialFail(d) \/ CheckOk(d) \/ FinishClose(d) \/ FinishNone(d)
           \/ \E d \in Dial : \E err \in Errors : OverruledClose(d, err) \/ OverruledNone(d, err)
    PROVE  DialsKept
<1>1. \/ dialConn' = dialConn
      \/ \E d, st, err, c : c \in {dialConn[d], None} /\ Advance(d, st, c, err)
      BY DEF DialMove, TakeSlot, BeginDial, DialFailed, InstallRefused, ConnectMove, InstallFailed, InstallReplaced,
         InstallShared, InstallMove, InstallOrdered, DialFail, CheckOk, FinishClose, FinishNone, OverruledClose,
         OverruledNone, Overruled
<1>2. ASSUME NEW d, NEW st, NEW err, NEW c, c \in {dialConn[d], None}, Advance(d, st, c, err)
      PROVE  DialsKept
  <2>1. \A e \in Dial : (e = d => dialConn'[e] = c) /\ (e # d => dialConn'[e] = dialConn[e])
        BY SMTT(60), <1>2, AdvanceAt
  <2>2. QED BY <1>2, <2>1 DEF DialsKept
<1>3. CASE dialConn' = dialConn
      BY <1>3 DEF DialsKept
<1>4. CASE \E d, st, err, c : c \in {dialConn[d], None} /\ Advance(d, st, c, err)
  <2>1. PICK d, st, err, c : c \in {dialConn[d], None} /\ Advance(d, st, c, err)
        BY <1>4
  <2>2. QED BY SMTT(60), <1>2, <2>1
<1>5. QED BY <1>1, <1>3, <1>4

(* No step makes a connection new again. *)
NewKept == \A c \in Conn : link'[c] = "new" => link[c] = "new"

LEMMA NoneRenewed ==
    ASSUME TypeOK, CloseMove \/ AttemptMove \/ StateMove
    PROVE  NewKept
<1>1. link' = link \/ (\E c : CloseLink(c)) \/ (\E c \in Conn : link' = [link EXCEPT ![c] = "open"])
      BY DEF CloseMove, CloseNew, CloseDead, CloseDropped, AttemptMove, ConnDies, DialOk, DialFail, CheckOk,
         FinishClose, FinishNone, OverruledClose, OverruledNone, StateMove, Reset, Close, CancelState, SweepConn
<1>2. ASSUME NEW c, CloseLink(c) PROVE NewKept
  <2>1. \A x \in Conn : (x = c => link'[x] = "closed") /\ (x # c => link'[x] = link[x])
        BY <1>2, CloseAt
  <2>2. QED BY <2>1 DEF NewKept
<1>3. CASE \E c \in Conn : link' = [link EXCEPT ![c] = "open"]
      BY <1>3 DEF NewKept, TypeOK, LinkTypeOK
<1>4. QED BY <1>1, <1>2, <1>3 DEF NewKept

(* A step keeps connections in place if it tracks none, hands out none,    *)
(* closes none that a dial holds and makes none new.                       *)
PlacesKept ==
    /\ all' = all
    /\ \A q \in Query : conn'[q] \in {conn[q], None}
    /\ \A q \in Query : pc'[q] \in {"closeDead", "closeNew", "closing"} => ~Tracked(conn[q])'
    /\ DialsKept
    /\ NewKept
    /\ \A d \in Dial : dialConn'[d] # None => link'[dialConn'[d]] = "open"

LEMMA KeptPlaces ==
    ASSUME TypeOK, PlaceInv, PlacesKept
    PROVE  PlaceInv'
<1>1. /\ \A d \in Dial : dialConn[d] \in Conn \cup {None}
      /\ \A q \in Query : conn[q] \in Conn \cup {None}
      /\ \A g \in Gen : all[g] \subseteq Conn
      BY DEF TypeOK, PoolTypeOK, DialTypeOK, QueryTypeOK
<1>2. \A d, e \in Dial : dialConn'[d] # None /\ dialConn'[d] = dialConn'[e] => d = e
      BY DEF PlaceInv, PlacesKept, DialsKept
<1>3. \A d \in Dial : \A g \in Gen : dialConn'[d] \notin all'[g]
      BY <1>1 DEF PlaceInv, PlacesKept, DialsKept
<1>4. \A d \in Dial : \A q \in Query : dialConn'[d] # None => conn'[q] # dialConn'[d]
      BY DEF PlaceInv, PlacesKept, DialsKept
<1>5. /\ \A g, h \in Gen : g # h => all'[g] \cap all'[h] = {}
      /\ \A g \in Gen : \A c \in all'[g] : link'[c] # "new"
      BY <1>1 DEF PlaceInv, PlacesKept, NewKept
<1>6. \A q \in Query : conn'[q] # None => link'[conn'[q]] # "new"
      BY SMTT(60), <1>1 DEF PlaceInv, PlacesKept, NewKept
<1>7. QED BY <1>2, <1>3, <1>4, <1>5, <1>6 DEF PlaceInv, PlacesKept

(* A step of one query leaves the others where they are. *)
OthersKept(q) == \A r \in Query : r # q => pc'[r] = pc[r] /\ conn'[r] = conn[r]

(* A query that ends up with empty hands disturbs no place. *)
LEMMA EmptiedPlaces ==
    ASSUME TypeOK, PlaceInv, NEW q \in Query, OthersKept(q), conn'[q] = None,
           pc'[q] \notin {"closeDead", "closeNew", "closing"},
           UNCHANGED <<state, all, link>>, DialsKept
    PROVE  PlaceInv'
<1>1. \A r \in Query : pc'[r] \in {"closeDead", "closeNew", "closing"} => ~Tracked(conn[r])'
      BY DEF OthersKept, PlaceInv, Tracked
<1>2. \A r \in Query : conn'[r] \in {conn[r], None}
      BY DEF OthersKept
<1>3. \A d \in Dial : dialConn'[d] # None => link'[dialConn'[d]] = "open"
      BY DEF DialsKept, PlaceInv
<1>4. PlacesKept
      BY <1>1, <1>2, <1>3 DEF PlacesKept, NewKept
<1>5. QED BY <1>4, KeptPlaces

(* A query takes a tracked connection: to use it, or out of the map. *)
LEMMA TakenPlaces ==
    ASSUME TypeOK, PlaceInv, NEW q \in Query, OthersKept(q), state \in Gen,
           conn'[q] \in all[state], UNCHANGED <<state, link, dialConn>>,
           \/ all' = all /\ pc'[q] = "using"
           \/ all' = [all EXCEPT ![state] = @ \ {conn'[q]}]
    PROVE  PlaceInv'
<1>1. /\ \A g \in Gen : all'[g] \subseteq all[g]
      /\ pc'[q] # "using" => conn'[q] \notin all'[state]
  <2>1. CASE all' = all /\ pc'[q] = "using"
        BY <2>1
  <2>2. CASE all' = [all EXCEPT ![state] = @ \ {conn'[q]}]
    <3>1. \A g \in Gen : all'[g] = IF g = state THEN all[g] \ {conn'[q]} ELSE all[g]
          BY <2>2 DEF TypeOK, PoolTypeOK
    <3>2. QED BY <3>1
  <2>3. QED BY <2>1, <2>2
<1>2. \A d \in Dial : \A g \in Gen : dialConn'[d] \notin all'[g]
      BY <1>1 DEF PlaceInv
<1>3. \A d \in Dial : \A r \in Query : dialConn'[d] # None => conn'[r] # dialConn'[d]
      BY SMTT(60) DEF PlaceInv, OthersKept
<1>4. /\ \A g, h \in Gen : g # h => all'[g] \cap all'[h] = {}
      /\ \A g \in Gen : \A c \in all'[g] : link'[c] # "new"
      BY <1>1 DEF PlaceInv
<1>5. \A r \in Query : conn'[r] # None => link'[conn'[r]] # "new"
      BY DEF PlaceInv, OthersKept
<1>6. \A r \in Query : pc'[r] \in {"closeDead", "closeNew", "closing"} => ~Tracked(conn[r])'
      BY <1>1 DEF PlaceInv, OthersKept, Tracked
<1>7. QED BY <1>2, <1>3, <1>4, <1>5, <1>6 DEF PlaceInv

(* The connection of dial d leaves it for the map of generation g. *)
Moved(d, g) ==
    /\ \A e \in Dial : (e = d => dialConn'[e] = None) /\ (e # d => dialConn'[e] = dialConn[e])
    /\ \A h \in Gen : \A c : c \in all'[h] <=> c \in all[h] \/ (h = g /\ c = dialConn[d])

(* A dial's connection moves to the map of a generation, and at most to    *)
(* the hands of a query that uses it.                                      *)
LEMMA InstalledPlaces ==
    ASSUME TypeOK, PlaceInv, NEW d \in Dial, NEW g \in Gen, dialConn[d] \in Conn,
           Moved(d, g), UNCHANGED <<state, link>>,
           \A r \in Query : \/ conn'[r] = dialConn[d] /\ pc'[r] = "using"
                            \/ conn'[r] = conn[r] /\ pc'[r] = pc[r]
    PROVE  PlaceInv'
<1>1. \A e \in Dial : (e = d => dialConn'[e] = None) /\ (e # d => dialConn'[e] = dialConn[e])
      BY DEF Moved
<1>2. \A h \in Gen : \A c : c \in all'[h] <=> c \in all[h] \/ (h = g /\ c = dialConn[d])
      BY DEF Moved
<1>3. /\ \A e \in Dial : dialConn'[e] # None => link'[dialConn'[e]] = "open"
      /\ \A e, f \in Dial : dialConn'[e] # None /\ dialConn'[e] = dialConn'[f] => e = f
      BY SMTT(60), <1>1 DEF PlaceInv
<1>4. \A e \in Dial : \A h \in Gen : dialConn'[e] \notin all'[h]
  <2> SUFFICES ASSUME NEW e \in Dial, NEW h \in Gen PROVE dialConn'[e] \notin all'[h]
      OBVIOUS
  <2>1. CASE dialConn'[e] = None
    <3>1. None \notin all[h] /\ dialConn[d] # None
          BY DEF TypeOK, PoolTypeOK
    <3>2. QED BY <1>2, <2>1, <3>1
  <2>2. CASE dialConn'[e] # None
    <3>1. e # d /\ dialConn'[e] = dialConn[e]
          BY <1>1, <2>2
    <3>2. dialConn[e] # dialConn[d] /\ dialConn[e] \notin all[h]
          BY <2>2, <3>1 DEF PlaceInv
    <3>3. QED BY <1>2, <3>1, <3>2
  <2>3. QED BY <2>1, <2>2
<1>5. \A e \in Dial : \A r \in Query : dialConn'[e] # None => conn'[r] # dialConn'[e]
      BY SMTT(60), <1>1 DEF PlaceInv
<1>6. \A h, k \in Gen : h # k => all'[h] \cap all'[k] = {}
  <2> SUFFICES ASSUME NEW h \in Gen, NEW k \in Gen, h # k, NEW c, c \in all'[h], c \in all'[k]
               PROVE  FALSE
      OBVIOUS
  <2>1. all[h] \cap all[k] = {} /\ dialConn[d] \notin all[h] /\ dialConn[d] \notin all[k]
        BY DEF PlaceInv
  <2>2. QED BY <1>2, <2>1
<1>7. /\ \A h \in Gen : \A c \in all'[h] : link'[c] # "new"
      /\ \A r \in Query : conn'[r] # None => link'[conn'[r]] # "new"
  <2>1. link[dialConn[d]] = "open" /\ dialConn[d] # None
        BY DEF PlaceInv
  <2>2. QED BY <1>2, <2>1 DEF PlaceInv
<1>8. \A r \in Query : pc'[r] \in {"closeDead", "closeNew", "closing"} => ~Tracked(conn[r])'
  <2> SUFFICES ASSUME NEW r \in Query, pc'[r] \in {"closeDead", "closeNew", "closing"}, Tracked(conn[r])'
               PROVE  FALSE
      OBVIOUS
  <2>1. conn'[r] = conn[r] /\ conn[r] # dialConn[d] /\ ~Tracked(conn[r])
        BY DEF PlaceInv
  <2>2. state \in Gen
        BY SMTT(60) DEF Tracked, TypeOK, PoolTypeOK
  <2>3. QED BY <1>2, <2>1, <2>2 DEF Tracked
<1>9. QED BY <1>3, <1>4, <1>5, <1>6, <1>7, <1>8 DEF PlaceInv

(* Idle connections stay apart from those in use. *)
LEMMA IdleStep ==
    TypeOK /\ StateInv /\ QueryInv /\ DialInv /\ ModeInv /\ ErrorInv /\ SharedInv /\ PlaceInv /\ IdleInv /\ [Next]_vars => IdleInv'
<1> SUFFICES ASSUME TypeOK, StateInv, QueryInv, DialInv, ModeInv, ErrorInv, SharedInv, PlaceInv, IdleInv, [Next]_vars PROVE IdleInv'
    OBVIOUS
<1> USE DEF IdleInv
<1>1. CASE LocalMove
  <2>1. UNCHANGED <<poolVars, linkVars, dialVars, slots>> /\ HandsKept
        BY <1>1, LocalMoveFrame, LocalHands DEF TypeOK, PoolTypeOK, QueryTypeOK
  <2>2. QED BY <2>1 DEF HandsKept
<1>2. CASE CloseMove
  <2>1. ASSUME NEW q \in Query, CloseNew(q) PROVE IdleInv'
        BY SMTT(60), <2>1 DEF CloseNew, CloseLink, Fail, SlotsLess, TypeOK, PoolTypeOK, QueryTypeOK
  <2>2. ASSUME NEW q \in Query, CloseDead(q) PROVE IdleInv'
        BY SMTT(60), <2>2 DEF CloseDead, CloseLink, Retry, TypeOK, PoolTypeOK, QueryTypeOK
  <2>3. ASSUME NEW q \in Query, CloseDropped(q) PROVE IdleInv'
        BY SMTT(60), <2>3 DEF CloseDropped, CloseLink, Hold, TypeOK, PoolTypeOK, QueryTypeOK
  <2> HIDE DEF IdleInv
  <2>4. QED BY <1>2, <2>1, <2>2, <2>3 DEF CloseMove
<1>3. CASE DialMove
  <2>1. ASSUME NEW q \in Query, NEW d \in Dial, TakeSlot(q, d) PROVE IdleInv'
        BY <2>1 DEF TakeSlot, BeginDial, TypeOK, PoolTypeOK, QueryTypeOK
  <2>2. ASSUME NEW q \in Query, DialFailed(q) PROVE IdleInv'
    <3>1. UNCHANGED <<idle, all>> /\ OthersKept(q) /\ conn'[q] = None
          BY <2>2 DEF DialFailed, Fail, OthersKept, TypeOK, QueryTypeOK
    <3>2. QED BY <3>1 DEF OthersKept
  <2>3. ASSUME NEW q \in Query, InstallRefused(q) PROVE IdleInv'
    <3>1. dial[q] \in Dial /\ dialConn[dial[q]] \in Conn
          BY SMTT(60), <2>3 DEF InstallRefused, QueryInv, Waiting, DialInv, TypeOK, DialTypeOK, QueryTypeOK
    <3>2. /\ \A r \in Query : conn[r] # dialConn[dial[q]]
          /\ \A g \in Gen : dialConn[dial[q]] \notin all[g]
          BY <3>1 DEF PlaceInv
    <3>3. idle' = idle /\ OthersKept(q) /\ conn'[q] = dialConn[dial[q]]
          BY <2>3 DEF InstallRefused, Hold, OthersKept, TypeOK, QueryTypeOK
    <3>4. \A g \in Gen : all[g] \subseteq all'[g]
          BY <2>3 DEF InstallRefused
    <3>5. QED BY <3>1, <3>2, <3>3, <3>4 DEF OthersKept
  <2> HIDE DEF IdleInv
  <2>4. QED BY <1>3, <2>1, <2>2, <2>3 DEF DialMove
<1>4. CASE PoolMove
  <2>1. ASSUME NEW q \in Query, SharedAlive(q) PROVE IdleInv'
        BY <2>1 DEF SharedAlive, TakeAlive, Return, Created, ModeInv, TypeOK, PoolTypeOK, QueryTypeOK
  <2>2. ASSUME NEW q \in Query, SharedDead(q) PROVE IdleInv'
        BY <2>2 DEF SharedDead, TakeDead, RemoveConn, CancelsShared, Hold, ModeInv, TypeOK, PoolTypeOK, QueryTypeOK
  <2>3. ASSUME NEW q \in Query, IdleAlive(q) PROVE IdleInv'
    <3>1. state \in Gen /\ idle[state] \in Seq(Conn) /\ idle[state] # <<>>
      <4>1. state \in Gen /\ idle[state] # <<>>
            BY <2>3 DEF IdleAlive, StateInv
      <4>2. QED BY <4>1 DEF TypeOK, PoolTypeOK
    <3>2. /\ Head(idle[state]) \in Conn /\ InSeq(idle[state], Head(idle[state]))
          /\ Tail(idle[state]) \in Seq(Conn)
          /\ \A c \in Conn : InSeq(Tail(idle[state]), c) => InSeq(idle[state], c)
          /\ Distinct(idle[state]) =>
                Distinct(Tail(idle[state])) /\ ~InSeq(Tail(idle[state]), Head(idle[state]))
          BY <3>1, TailFacts
    <3>3. /\ Head(idle[state]) \in all[state] /\ Mode = "ordered"
          /\ \A r \in Query : conn[r] # Head(idle[state])
      <4>1. Mode = "ordered" /\ Head(idle[state]) # None
            BY <2>3, <3>2 DEF IdleAlive
      <4>2. QED BY <3>1, <3>2, <4>1
    <3>4. \A g \in Gen : g # state => ~InSeq(idle[g], Head(idle[state]))
          BY SMTT(60), <3>1, <3>3 DEF PlaceInv, TypeOK, PoolTypeOK, QueryTypeOK
    <3>5. /\ all' = all /\ OthersKept(q) /\ conn'[q] = Head(idle[state])
          /\ \A g \in Gen : idle'[g] = IF g = state THEN Tail(idle[state]) ELSE idle[g]
          BY <2>3 DEF IdleAlive, IdleRest, Return, OthersKept, TypeOK, PoolTypeOK, QueryTypeOK
    <3>6. \A r \in Query : conn[r] \in Conn \cup {None}
          BY DEF TypeOK, QueryTypeOK
    <3>7. QED BY SMTT(60), <3>1, <3>2, <3>3, <3>4, <3>5, <3>6 DEF OthersKept
  <2>4. ASSUME NEW q \in Query, IdleDead(q) PROVE IdleInv'
    <3>1. state \in Gen /\ idle[state] \in Seq(Conn) /\ idle[state] # <<>>
      <4>1. state \in Gen /\ idle[state] # <<>>
            BY <2>4 DEF IdleDead, StateInv
      <4>2. QED BY <4>1 DEF TypeOK, PoolTypeOK
    <3>2. /\ Head(idle[state]) \in Conn /\ InSeq(idle[state], Head(idle[state]))
          /\ Tail(idle[state]) \in Seq(Conn)
          /\ \A c \in Conn : InSeq(Tail(idle[state]), c) => InSeq(idle[state], c)
          /\ Distinct(idle[state]) =>
                Distinct(Tail(idle[state])) /\ ~InSeq(Tail(idle[state]), Head(idle[state]))
          BY <3>1, TailFacts
    <3>3. /\ Head(idle[state]) \in all[state] /\ Mode = "ordered"
          /\ \A r \in Query : conn[r] # Head(idle[state])
      <4>1. Mode = "ordered" /\ Head(idle[state]) # None
            BY <2>4, <3>2 DEF IdleDead
      <4>2. QED BY <3>1, <3>2, <4>1
    <3>4. \A g \in Gen : g # state => ~InSeq(idle[g], Head(idle[state]))
          BY SMTT(60), <3>1, <3>3 DEF PlaceInv, TypeOK, PoolTypeOK
    <3>5. /\ \A g \in Gen : all'[g] = IF g = state THEN all[g] \ {Head(idle[state])} ELSE all[g]
          /\ OthersKept(q) /\ conn'[q] = Head(idle[state])
          /\ \A g \in Gen : idle'[g] = IF g = state THEN Tail(idle[state]) ELSE idle[g]
          BY <2>4 DEF IdleDead, IdleRest, Hold, OthersKept, TypeOK, PoolTypeOK, QueryTypeOK
    <3>6. \A r \in Query : conn[r] \in Conn \cup {None}
          BY DEF TypeOK, QueryTypeOK
    <3>7. \A g \in Gen : Distinct(idle'[g])
          BY <3>1, <3>2, <3>3, <3>5
    <3>8. \A g \in Gen : \A c \in Conn : InSeq(idle'[g], c) => c \in all'[g]
          BY <3>1, <3>2, <3>3, <3>5
    <3>9. \A r \in Query : \A g \in Gen : conn'[r] # None => ~InSeq(idle'[g], conn'[r])
          BY <3>1, <3>2, <3>3, <3>4, <3>5, <3>6 DEF OthersKept
    <3>10. \A r, u \in Query : conn'[r] # None /\ conn'[r] = conn'[u] => r = u
          BY <3>3, <3>5 DEF OthersKept
    <3>11. QED BY <3>7, <3>8, <3>9, <3>10
  <2>5. ASSUME NEW q \in Query, ReleaseReuse(q) PROVE IdleInv'
    <3>1. state \in Gen /\ idle[state] \in Seq(Conn) /\ conn[q] \in Conn /\ conn[q] \in all[state]
      <4>1. state \in Gen /\ conn[q] \in all[state]
            BY <2>5 DEF ReleaseReuse, Tracked, StateInv
      <4>2. QED BY <4>1 DEF TypeOK, PoolTypeOK
    <3>2. /\ Append(idle[state], conn[q]) \in Seq(Conn)
          /\ \A x \in Conn : InSeq(Append(idle[state], conn[q]), x) => InSeq(idle[state], x) \/ x = conn[q]
          /\ Distinct(idle[state]) /\ ~InSeq(idle[state], conn[q]) =>
                Distinct(Append(idle[state], conn[q]))
          BY <3>1, AppendFacts
    <3>3. QED BY SMTT(60), <2>5, <3>1, <3>2 DEF ReleaseReuse, Hold, TypeOK, PoolTypeOK, QueryTypeOK
  <2>6. ASSUME NEW q \in Query, DropTracked(q) PROVE IdleInv'
    <3>1. state \in Gen /\ conn[q] \in Conn
          BY SMTT(60), <2>6 DEF DropTracked, Tracked, StateInv, QueryInv, Holding, TypeOK, PoolTypeOK, QueryTypeOK
    <3>2. Mode = "ordered" => Without(idle[state], conn[q]) = idle[state]
          BY SMTT(60), <3>1, WithoutAbsent DEF TypeOK, PoolTypeOK
    <3>3. /\ \A g \in Gen : idle'[g] = IF g = state THEN Without(idle[g], conn[q]) ELSE idle[g]
          /\ \A g \in Gen : all'[g] = IF g = state THEN all[g] \ {conn[q]} ELSE all[g]
          /\ \A r \in Query : conn'[r] = conn[r]
          BY <2>6 DEF DropTracked, RemoveConn, Goto, TypeOK, PoolTypeOK, QueryTypeOK
    <3>4. Mode = "ordered" => ~InSeq(idle[state], conn[q])
          BY <3>1
    <3>5. QED BY <3>1, <3>2, <3>3, <3>4
  <2> HIDE DEF IdleInv
  <2>7. QED BY <1>4, <2>1, <2>2, <2>3, <2>4, <2>5, <2>6 DEF PoolMove
<1>5. CASE StartMove
  <2>1. ASSUME NEW q \in Query, NEW d \in Dial, StartConnect(q, d) PROVE IdleInv'
        BY <2>1 DEF StartConnect, StartDial, BeginDial, TypeOK, PoolTypeOK, QueryTypeOK
  <2> HIDE DEF IdleInv
  <2>2. QED BY <1>5, <2>1 DEF StartMove
<1>6. CASE InstallMove
  <2>1. ASSUME NEW q \in Query, InstallOrdered(q) PROVE IdleInv'
    <3>1. dial[q] \in Dial /\ dialConn[dial[q]] \in Conn
          BY SMTT(60), <2>1 DEF InstallOrdered, QueryInv, Waiting, DialInv, TypeOK, DialTypeOK, QueryTypeOK
    <3>2. /\ \A r \in Query : conn[r] # dialConn[dial[q]]
          /\ \A g \in Gen : dialConn[dial[q]] \notin all[g]
          BY <3>1 DEF PlaceInv
    <3>3. idle' = idle /\ OthersKept(q) /\ conn'[q] = dialConn[dial[q]]
          BY <2>1 DEF InstallOrdered, Return, OthersKept, TypeOK, QueryTypeOK
    <3>4. \A g \in Gen : all[g] \subseteq all'[g]
          BY <2>1 DEF InstallOrdered, TypeOK, PoolTypeOK
    <3>5. QED BY <3>1, <3>2, <3>3, <3>4 DEF OthersKept
  <2> HIDE DEF IdleInv
  <2>2. QED BY <1>6, <2>1 DEF InstallMove
<1>7. CASE AttemptMove
      BY <1>7, AttemptMoveFrame DEF TypeOK, PoolTypeOK, QueryTypeOK
<1>8. CASE ConnectMove
  <2>1. ASSUME NEW d \in Dial, InstallFailed(d) PROVE IdleInv'
        BY <2>1 DEF InstallFailed, DialOver, Advance, TypeOK, PoolTypeOK, DialTypeOK, QueryTypeOK
  <2>2. ASSUME NEW d \in Dial, InstallReplaced(d) PROVE IdleInv'
        BY <2>2 DEF InstallReplaced, Replaced, DialOver, Advance, TypeOK, PoolTypeOK, DialTypeOK, QueryTypeOK
  <2>3. ASSUME NEW d \in Dial, InstallShared(d) PROVE IdleInv'
        BY <2>3 DEF InstallShared, Replaced, DialOver, Advance, ModeInv, TypeOK, PoolTypeOK, DialTypeOK, QueryTypeOK
  <2> HIDE DEF IdleInv
  <2>4. QED BY <1>8, <2>1, <2>2, <2>3 DEF ConnectMove
<1>9. CASE StateMove
      BY <1>9, StateMoveFrame DEF TypeOK, PoolTypeOK, QueryTypeOK
<1>10. CASE UNCHANGED vars
      BY <1>10 DEF vars, TypeOK, PoolTypeOK, QueryTypeOK
<1> HIDE DEF IdleInv
<1>11. QED BY StepCases, <1>1, <1>2, <1>3, <1>4, <1>5, <1>6, <1>7, <1>8, <1>9, <1>10 DEF Step

(* A connection keeps to one place. *)
LEMMA PlaceStep ==
    TypeOK /\ StateInv /\ QueryInv /\ DialInv /\ ModeInv /\ ErrorInv /\ SharedInv /\ PlaceInv /\ IdleInv /\ [Next]_vars => PlaceInv'
<1> SUFFICES ASSUME TypeOK, StateInv, QueryInv, DialInv, ModeInv, ErrorInv, SharedInv, PlaceInv, IdleInv, [Next]_vars PROVE PlaceInv'
    OBVIOUS
<1> USE DEF PlaceInv, Tracked
<1>1. CASE LocalMove
  <2>1. UNCHANGED <<poolVars, linkVars, dialVars, slots>> /\ HandsKept
        BY <1>1, LocalMoveFrame, LocalHands DEF TypeOK, PoolTypeOK, LinkTypeOK, DialTypeOK, QueryTypeOK
  <2>2. QED BY SMTT(60), <2>1 DEF HandsKept
<1>2. CASE CloseMove
  <2> HIDE DEF PlaceInv, Tracked
  <2>1. UNCHANGED <<poolVars, dialVars>> /\ NewKept
        BY <1>2, CloseMoveFrame, NoneRenewed
  <2>2. PICK q \in Query : /\ pc[q] \in {"closeNew", "closeDead", "closing"}
                           /\ CloseLink(conn[q])
                           /\ \E label \in {"end", "acquire"} : \E g, d : Locals(q, label, g, d, None)
        BY <1>2 DEF CloseMove, CloseNew, CloseDead, CloseDropped, Fail, Retry, Hold
  <2>3. /\ pc'[q] \in {"end", "acquire"} /\ conn'[q] = None
        /\ \A r \in Query : r # q => pc'[r] = pc[r] /\ conn'[r] = conn[r]
        BY <2>2 DEF TypeOK, QueryTypeOK
  <2>4. \A x \in Conn : x # conn[q] => link'[x] = link[x]
        BY <2>2 DEF CloseLink, TypeOK, LinkTypeOK
  <2>5. \A d \in Dial : dialConn[d] \in Conn \cup {None}
        BY DEF TypeOK, DialTypeOK
  <2>6. \A d \in Dial : dialConn'[d] # None => link'[dialConn'[d]] = "open"
        BY <2>1, <2>4, <2>5 DEF PlaceInv
  <2>7. \A r \in Query : pc'[r] \in {"closeDead", "closeNew", "closing"} => ~Tracked(conn[r])'
        BY <2>1, <2>3 DEF PlaceInv, Tracked
  <2>8. PlacesKept
        BY <2>1, <2>3, <2>6, <2>7 DEF PlacesKept, DialsKept
  <2>9. QED BY <2>8, KeptPlaces
<1>3. CASE DialMove
  <2> HIDE DEF PlaceInv, Tracked
  <2>1. ASSUME NEW q \in Query, NEW d \in Dial, TakeSlot(q, d) PROVE PlaceInv'
    <3>1. /\ OthersKept(q) /\ conn'[q] = None /\ pc'[q] \notin {"closeDead", "closeNew", "closing"}
          /\ UNCHANGED <<state, all, link>>
          BY <2>1 DEF TakeSlot, OthersKept, TypeOK, QueryTypeOK
    <3>2. DialsKept
          BY <1>3, DialsOnlyLose
    <3>3. QED BY <3>1, <3>2, EmptiedPlaces
  <2>2. ASSUME NEW q \in Query, DialFailed(q) PROVE PlaceInv'
    <3>1. /\ OthersKept(q) /\ conn'[q] = None /\ pc'[q] \notin {"closeDead", "closeNew", "closing"}
          /\ UNCHANGED <<state, all, link>>
          BY <2>2 DEF DialFailed, Fail, OthersKept, TypeOK, QueryTypeOK
    <3>2. DialsKept
          BY <1>3, DialsOnlyLose
    <3>3. QED BY <3>1, <3>2, EmptiedPlaces
  <2>3. ASSUME NEW q \in Query, InstallRefused(q) PROVE PlaceInv'
    <3>1. /\ dial[q] \in Dial /\ dialConn[dial[q]] \in Conn
          /\ UNCHANGED <<state, all, link>>
          BY SMTT(60), <2>3 DEF InstallRefused, QueryInv, Waiting, DialInv, TypeOK, DialTypeOK, QueryTypeOK
    <3>2. OthersKept(q) /\ conn'[q] = dialConn[dial[q]]
          BY <2>3 DEF InstallRefused, Hold, OthersKept, TypeOK, QueryTypeOK
    <3>3. \A d \in Dial : (d = dial[q] => dialConn'[d] = None) /\ (d # dial[q] => dialConn'[d] = dialConn[d])
          BY <2>3 DEF InstallRefused, Advance, TypeOK, DialTypeOK
    <3>4. \A g \in Gen : all[g] \subseteq Conn
          BY DEF TypeOK, PoolTypeOK
    <3>5. /\ \A d \in Dial : dialConn'[d] # None => link'[dialConn'[d]] = "open"
          /\ \A d, e \in Dial : dialConn'[d] # None /\ dialConn'[d] = dialConn'[e] => d = e
          BY <3>1, <3>3 DEF PlaceInv
    <3>6. \A d \in Dial : \A g \in Gen : dialConn'[d] \notin all'[g]
          BY SMTT(60), <3>1, <3>3, <3>4 DEF PlaceInv
    <3>7. \A d \in Dial : \A r \in Query : dialConn'[d] # None => conn'[r] # dialConn'[d]
          BY SMTT(60), <3>1, <3>2, <3>3 DEF PlaceInv, OthersKept
    <3>8. \A r \in Query : conn'[r] # None => link'[conn'[r]] # "new"
          BY <3>1, <3>2 DEF PlaceInv, OthersKept
    <3>9. state = 0 \/ state \in Gen
          BY DEF StateInv
    <3>10. \A r \in Query : pc'[r] \in {"closeDead", "closeNew", "closing"} => ~Tracked(conn[r])'
          BY SMTT(60), <3>1, <3>2, <3>9 DEF PlaceInv, OthersKept, Tracked
    <3>11. QED BY <3>1, <3>5, <3>6, <3>7, <3>8, <3>10 DEF PlaceInv
  <2>4. QED BY <1>3, <2>1, <2>2, <2>3 DEF DialMove
<1>4. CASE PoolMove
  <2> HIDE DEF PlaceInv, Tracked
  <2>1. ASSUME NEW q \in Query, SharedAlive(q) PROVE PlaceInv'
    <3>1. state \in Gen /\ shared[state] \in all[state]
          BY SMTT(60), <2>1 DEF SharedAlive, TakeAlive, StateInv, SharedInv
    <3>2. /\ OthersKept(q) /\ conn'[q] = shared[state] /\ UNCHANGED <<state, link, dialConn>>
          /\ all' = all /\ pc'[q] = "using"
          BY <2>1 DEF SharedAlive, TakeAlive, Return, OthersKept, TypeOK, QueryTypeOK
    <3>3. QED BY <3>1, <3>2, TakenPlaces
  <2>2. ASSUME NEW q \in Query, SharedDead(q) PROVE PlaceInv'
    <3>1. state \in Gen /\ shared[state] \in all[state]
          BY SMTT(60), <2>2 DEF SharedDead, TakeDead, StateInv, SharedInv, TypeOK, LinkTypeOK
    <3>2. /\ OthersKept(q) /\ conn'[q] = shared[state] /\ UNCHANGED <<state, link, dialConn>>
          /\ all' = [all EXCEPT ![state] = @ \ {shared[state]}]
          BY <2>2 DEF SharedDead, TakeDead, RemoveConn, Hold, OthersKept, TypeOK, QueryTypeOK
    <3>3. QED BY <3>1, <3>2, TakenPlaces
  <2>3. ASSUME NEW q \in Query, IdleAlive(q) PROVE PlaceInv'
    <3>1. state \in Gen /\ idle[state] \in Seq(Conn) /\ idle[state] # <<>>
      <4>1. state \in Gen /\ idle[state] # <<>>
            BY <2>3 DEF IdleAlive, StateInv
      <4>2. QED BY <4>1 DEF TypeOK, PoolTypeOK
    <3>2. Head(idle[state]) \in Conn /\ InSeq(idle[state], Head(idle[state]))
          BY <3>1, TailFacts
    <3>3. Head(idle[state]) \in all[state]
          BY <2>3, <3>1, <3>2 DEF IdleAlive, IdleInv
    <3>4. /\ OthersKept(q) /\ conn'[q] = Head(idle[state]) /\ UNCHANGED <<state, link, dialConn>>
          /\ all' = all /\ pc'[q] = "using"
          BY <2>3 DEF IdleAlive, Return, OthersKept, TypeOK, QueryTypeOK
    <3>5. QED BY <3>1, <3>3, <3>4, TakenPlaces
  <2>4. ASSUME NEW q \in Query, IdleDead(q) PROVE PlaceInv'
    <3>1. state \in Gen /\ idle[state] \in Seq(Conn) /\ idle[state] # <<>>
      <4>1. state \in Gen /\ idle[state] # <<>>
            BY <2>4 DEF IdleDead, StateInv
      <4>2. QED BY <4>1 DEF TypeOK, PoolTypeOK
    <3>2. Head(idle[state]) \in Conn /\ InSeq(idle[state], Head(idle[state]))
          BY <3>1, TailFacts
    <3>3. Head(idle[state]) \in all[state]
          BY <2>4, <3>1, <3>2 DEF IdleDead, IdleInv
    <3>4. /\ OthersKept(q) /\ conn'[q] = Head(idle[state]) /\ UNCHANGED <<state, link, dialConn>>
          /\ all' = [all EXCEPT ![state] = @ \ {Head(idle[state])}]
          BY <2>4 DEF IdleDead, Hold, OthersKept, TypeOK, QueryTypeOK
    <3>5. QED BY <3>1, <3>3, <3>4, TakenPlaces
  <2>5. ASSUME NEW q \in Query, ReleaseReuse(q) PROVE PlaceInv'
    <3>1. /\ OthersKept(q) /\ conn'[q] = None /\ pc'[q] \notin {"closeDead", "closeNew", "closing"}
          /\ UNCHANGED <<state, all, link>>
          BY <2>5 DEF ReleaseReuse, Hold, OthersKept, TypeOK, QueryTypeOK
    <3>2. DialsKept
          BY <2>5 DEF ReleaseReuse, DialsKept
    <3>3. QED BY <3>1, <3>2, EmptiedPlaces
  <2>6. ASSUME NEW q \in Query, DropTracked(q) PROVE PlaceInv'
    <3>1. state \in Gen /\ conn[q] \in all[state]
          BY <2>6 DEF DropTracked, Tracked, StateInv
    <3>2. /\ OthersKept(q) /\ conn'[q] = conn[q] /\ UNCHANGED <<state, link, dialConn>>
          /\ all' = [all EXCEPT ![state] = @ \ {conn[q]}]
          BY <2>6 DEF DropTracked, RemoveConn, Goto, OthersKept, TypeOK, QueryTypeOK
    <3>3. QED BY <3>1, <3>2, TakenPlaces
  <2>7. QED BY <1>4, <2>1, <2>2, <2>3, <2>4, <2>5, <2>6 DEF PoolMove
<1>5. CASE StartMove
  <2> HIDE DEF PlaceInv, Tracked
  <2>1. ASSUME NEW q \in Query, NEW d \in Dial, StartConnect(q, d) PROVE PlaceInv'
    <3>1. /\ OthersKept(q) /\ conn'[q] = None /\ pc'[q] \notin {"closeDead", "closeNew", "closing"}
          /\ UNCHANGED <<state, all, link>>
          BY <2>1 DEF StartConnect, OthersKept, TypeOK, QueryTypeOK
    <3>2. DialsKept
          BY <2>1 DEF StartConnect, BeginDial, DialsKept
    <3>3. QED BY <3>1, <3>2, EmptiedPlaces
  <2>2. QED BY <1>5, <2>1 DEF StartMove
<1>6. CASE InstallMove
  <2> HIDE DEF PlaceInv, Tracked
  <2>1. ASSUME NEW q \in Query, InstallOrdered(q) PROVE PlaceInv'
    <3>1. dial[q] \in Dial /\ dialConn[dial[q]] \in Conn
          BY SMTT(60), <2>1 DEF InstallOrdered, QueryInv, Waiting, DialInv, TypeOK, DialTypeOK, QueryTypeOK
    <3>2. gen[q] \in Gen
          BY <2>1 DEF InstallOrdered, QueryInv, Waiting
    <3>3. Moved(dial[q], gen[q]) /\ UNCHANGED <<state, link>>
          BY <2>1, <3>1, <3>2 DEF InstallOrdered, Advance, Moved, TypeOK, PoolTypeOK, DialTypeOK
    <3>4. \A r \in Query : \/ conn'[r] = dialConn[dial[q]] /\ pc'[r] = "using"
                           \/ conn'[r] = conn[r] /\ pc'[r] = pc[r]
          BY <2>1 DEF InstallOrdered, Return, TypeOK, QueryTypeOK
    <3>5. QED BY <3>1, <3>2, <3>3, <3>4, InstalledPlaces
  <2>2. QED BY <1>6, <2>1 DEF InstallMove
<1>7. CASE AttemptMove
  <2> HIDE DEF PlaceInv, Tracked
  <2>1. UNCHANGED <<poolVars, slots, queryVars>> /\ NewKept
        BY <1>7, AttemptMoveFrame, NoneRenewed
  <2>2. ASSUME DialsKept, \A d \in Dial : dialConn'[d] # None => link'[dialConn'[d]] = "open"
        PROVE  PlaceInv'
    <3>1. PlacesKept
          BY <2>1, <2>2 DEF PlacesKept, PlaceInv, Tracked, TypeOK, QueryTypeOK
    <3>2. QED BY <3>1, KeptPlaces
  <2>3. ASSUME NEW d \in Dial, DialFail(d) \/ CheckOk(d) \/ FinishNone(d) PROVE PlaceInv'
    <3>1. DialsKept /\ link' = link
          BY <2>3, DialsOnlyLose DEF DialFail, CheckOk, FinishNone
    <3>2. QED BY <2>2, <3>1 DEF DialsKept, PlaceInv
  <2>4. ASSUME NEW d \in Dial, NEW err \in Errors, OverruledNone(d, err) PROVE PlaceInv'
    <3>1. DialsKept /\ link' = link
          BY <2>4, DialsOnlyLose DEF OverruledNone
    <3>2. QED BY <2>2, <3>1 DEF DialsKept, PlaceInv
  <2>5. ASSUME NEW d \in Dial, NEW st, NEW err, DialsKept, CloseLink(dialConn[d]), Advance(d, st, None, err)
        PROVE  PlaceInv'
    <3>1. dialConn'[d] = None
          BY SMTT(60), <2>5, AdvanceAt
    <3>2. \A x \in Conn : x # dialConn[d] => link'[x] = link[x]
          BY <2>5 DEF CloseLink, TypeOK, LinkTypeOK
    <3>3. \A e \in Dial : dialConn[e] \in Conn \cup {None}
          BY DEF TypeOK, DialTypeOK
    <3>4. QED BY <2>2, <2>5, <3>1, <3>2, <3>3 DEF DialsKept, PlaceInv
  <2>6. ASSUME NEW d \in Dial, NEW err \in Errors, OverruledClose(d, err) PROVE PlaceInv'
    <3>1. DialsKept
          BY <2>6, DialsOnlyLose
    <3>2. QED BY <2>5, <2>6, <3>1 DEF OverruledClose, Overruled
  <2>7. ASSUME NEW d \in Dial, FinishClose(d) PROVE PlaceInv'
    <3>1. DialsKept
          BY <2>7, DialsOnlyLose
    <3>2. QED BY <2>5, <2>7, <3>1 DEF FinishClose
  <2>8. ASSUME NEW c \in Conn, ConnDies(c) PROVE PlaceInv'
    <3>1. UNCHANGED <<dialConn, link>>
          BY <2>8 DEF ConnDies
    <3>2. QED BY <2>2, <3>1 DEF DialsKept, PlaceInv
  <2>9. ASSUME NEW d \in Dial, NEW c \in Conn, DialOk(d, c) PROVE PlaceInv'
    <3>1. /\ link[c] = "new"
          /\ \A x \in Conn : (x = c => link'[x] = "open") /\ (x # c => link'[x] = link[x])
          /\ \A e \in Dial : (e = d => dialConn'[e] = c) /\ (e # d => dialConn'[e] = dialConn[e])
          BY <2>9 DEF DialOk, Advance, TypeOK, LinkTypeOK, DialTypeOK
    <3>2. /\ \A e \in Dial : dialConn[e] \in Conn \cup {None}
          /\ \A q \in Query : conn[q] \in Conn \cup {None}
          /\ \A g \in Gen : all[g] \subseteq Conn
          BY DEF TypeOK, PoolTypeOK, DialTypeOK, QueryTypeOK
    <3>3. QED BY SMTT(60), <2>1, <3>1, <3>2 DEF PlaceInv, Tracked
  <2>10. QED BY <1>7, <2>3, <2>4, <2>6, <2>7, <2>8, <2>9 DEF AttemptMove
<1>8. CASE ConnectMove
  <2> HIDE DEF PlaceInv, Tracked
  <2>1. ASSUME NEW d \in Dial, InstallFailed(d) \/ InstallReplaced(d) PROVE PlaceInv'
    <3>1. DialsKept
          BY <1>8, DialsOnlyLose
    <3>2. UNCHANGED <<state, all, link, conn, pc>>
          BY <2>1 DEF InstallFailed, InstallReplaced
    <3>3. PlacesKept
          BY <3>1, <3>2 DEF PlacesKept, DialsKept, NewKept, PlaceInv, Tracked
    <3>4. QED BY <3>3, KeptPlaces
  <2>2. ASSUME NEW d \in Dial, InstallShared(d) PROVE PlaceInv'
    <3>1. dialGen[d] \in Gen /\ dialConn[d] \in Conn
          BY <2>2 DEF InstallShared, DialInv, TypeOK, DialTypeOK
    <3>2. Moved(d, dialGen[d]) /\ UNCHANGED <<link, conn, pc, state>>
          BY <2>2, <3>1 DEF InstallShared, Advance, Moved, TypeOK, PoolTypeOK, DialTypeOK
    <3>3. QED BY <3>1, <3>2, InstalledPlaces
  <2>3. QED BY <1>8, <2>1, <2>2 DEF ConnectMove
<1>9. CASE StateMove
  <2> HIDE DEF PlaceInv, Tracked
  <2>1. UNCHANGED <<all, dialVars, slots, queryVars>> /\ NewKept
        BY <1>9, NoneRenewed, StateMoveFrame DEF StateMove, Reset, Close, CancelState, SweepConn
  <2>2. ASSUME \A r \in Query : pc'[r] \in {"closeDead", "closeNew", "closing"} => ~Tracked(conn[r])',
               \A d \in Dial : dialConn'[d] # None => link'[dialConn'[d]] = "open"
        PROVE  PlaceInv'
    <3>1. PlacesKept
          BY <2>1, <2>2 DEF PlacesKept, DialsKept
    <3>2. QED BY <3>1, KeptPlaces
  <2>3. ASSUME link' = link, state' = 0 \/ state' = state \/ (state' \in Gen /\ all[state'] = {})
        PROVE  PlaceInv'
        BY <2>1, <2>2, <2>3 DEF PlaceInv, Tracked
  <2>4. CASE Reset
    <3>1. link' = link /\ state' = state + 1 /\ state \in Gen /\ state + 1 \in Gen /\ ~closed
          BY SMTT(60), <2>4 DEF Reset, StateInv
    <3>2. all[state + 1] = {}
          BY SMTT(60), <3>1 DEF StateInv
    <3>3. QED BY <2>3, <3>1, <3>2
  <2>5. CASE Close
        BY <2>3, <2>5 DEF Close
  <2>6. ASSUME NEW g \in Gen, CancelState(g) PROVE PlaceInv'
        BY <2>3, <2>6 DEF CancelState
  <2>7. ASSUME NEW g \in Gen, NEW c \in Conn, SweepConn(g, c) PROVE PlaceInv'
    <3>1. c \in all[g] /\ state' = state /\ phase' = phase /\ \A x \in Conn : x # c => link'[x] = link[x]
          BY <2>7 DEF SweepConn, CloseLink, TypeOK, LinkTypeOK
    <3>2. \A d \in Dial : dialConn[d] \in Conn \cup {None}
          BY DEF TypeOK, DialTypeOK
    <3>3. \A d \in Dial : dialConn'[d] # None => link'[dialConn'[d]] = "open"
          BY <2>1, <3>1, <3>2 DEF PlaceInv
    <3>4. QED BY <2>1, <2>2, <3>1, <3>3 DEF PlaceInv, Tracked
  <2>8. QED BY <1>9, <2>4, <2>5, <2>6, <2>7 DEF StateMove
<1>10. CASE UNCHANGED vars
      BY <1>10 DEF vars
<1> HIDE DEF PlaceInv, Tracked
<1>11. QED BY StepCases, <1>1, <1>2, <1>3, <1>4, <1>5, <1>6, <1>7, <1>8, <1>9, <1>10 DEF Step
=============================================================================
