--------------------------- MODULE ConnPoolProofs ---------------------------
(***************************************************************************)
(* Theorems about ConnPool, for every set of queries, connections and      *)
(* dials, every bound on the generations, every cap on concurrent dials    *)
(* and both modes.                                                         *)
(***************************************************************************)
EXTENDS ConnPoolSteps, ConnPoolPlaces, ConnPoolShared, ConnPoolLeak, FiniteSetTheorems

USE ModeAssumption, BoundAssumption, NoneAssumption, ZenonT(40), SMTT(60)
USE DEF poolVars, linkVars, dialVars, queryVars, closed, Locals, Gen, Errors


(* Finitely many queries hold a slot. *)
LEMMA SlotHoldersFinite == IsFiniteSet(SlotHolders)
BY FiniteAssumption, FS_Subset DEF SlotHolders

(* Every step keeps the weight equal to the number of slots held. *)
LEMMA SlotInvStep ==
    TypeOK /\ StateInv /\ QueryInv /\ ModeInv /\ ErrorInv /\ SlotInv /\ [Next]_vars => SlotInv'
<1> SUFFICES ASSUME SlotInv, SlotsMove PROVE SlotInv'
    BY SlotStep
<1>1. CASE SlotHolders' = SlotHolders /\ slots' = slots
      BY <1>1 DEF SlotInv
<1>2. ASSUME NEW q \in Query \ SlotHolders,
             SlotHolders' = SlotHolders \cup {q}, slots' = slots + 1
      PROVE  SlotInv'
      BY <1>2, SlotHoldersFinite, FS_AddElement DEF SlotInv
<1>3. ASSUME NEW q \in SlotHolders, SlotHolders' = SlotHolders \ {q}, slots' = slots - 1
      PROVE  SlotInv'
  <2>1. Cardinality(SlotHolders \ {q}) = Cardinality(SlotHolders) - 1
        BY SlotHoldersFinite, FS_RemoveElement
  <2>2. QED BY <1>3, <2>1 DEF SlotInv
<1>4. QED BY <1>1, <1>2, <1>3 DEF SlotsMove


(* The initial state satisfies the invariant. *)
LEMMA IndInit == Init => IndInv
<1> SUFFICES ASSUME Init PROVE IndInv
    OBVIOUS
<1>1. TypeOK
      BY InitType
<1>2. SlotInv
  <2>1. SlotHolders = {}
        BY DEF Init, SlotHolders
  <2>2. QED BY <2>1, FS_EmptySet DEF Init, SlotInv
<1>3. StateInv /\ QueryInv /\ DialInv /\ FlightInv /\ ModeInv /\ ErrorInv
      BY DEF Init, StateInv, QueryInv, DialInv, FlightInv, ModeInv, ErrorInv, Holding, Waiting,
             InProgress
<1>4. PlaceInv /\ IdleInv
      BY DEF Init, PlaceInv, IdleInv, Tracked, Distinct, InSeq
<1>5. SharedInv /\ CreatedInv
      BY DEF Init, SharedInv, CreatedInv, InProgress, InSeq
<1>6. NoLeak /\ TrackedIsOpen
      BY DEF Init, NoLeak, TrackedIsOpen, Tracked
<1>7. QED BY <1>1, <1>2, <1>3, <1>4, <1>5, <1>6 DEF IndInv

(* Every step keeps the types; the weight is the size of a finite set. *)
LEMMA TypeStep == IndInv /\ [Next]_vars => TypeOK'
<1> SUFFICES ASSUME IndInv, [Next]_vars PROVE TypeOK'
    OBVIOUS
<1>1. SlotInv'
      BY SlotInvStep DEF IndInv
<1>2. IsFiniteSet(SlotHolders')
      BY FiniteAssumption, FS_Subset DEF SlotHolders
<1>3. slots' \in Nat
      BY <1>1, <1>2, FS_CardinalityType DEF SlotInv
<1>4. QED BY <1>3, PoolTypeStep, LinkTypeStep, DialTypeStep, QueryTypeStep DEF IndInv, TypeOK

(* Every step preserves the invariant. *)
LEMMA IndStep == IndInv /\ [Next]_vars => IndInv'
BY TypeStep, StateStep, QueryStep, DialStep, ModeStep, SlotInvStep, IdleStep, PlaceStep, SharedStep,
   CreatedStep, ErrorStep, OpenStep, LeakStep, FlightStep
DEF IndInv

(* The inductive invariant holds in every reachable state. *)
THEOREM Invariance == Spec => []IndInv
BY IndInit, IndStep, PTL DEF Spec

(* The variables of the pool keep their types; in particular the weight    *)
(* taken from the semaphore never becomes negative.                        *)
THEOREM TypeCorrect == Spec => []TypeOK
<1>1. IndInv => TypeOK
      BY DEF IndInv
<1>2. QED BY <1>1, Invariance, PTL

(* No interleaving of Reset, Close, cancellations and dials leaks an open  *)
(* connection.                                                             *)
THEOREM NeverLeaks == Spec => []NoLeak
<1>1. IndInv => NoLeak
      BY DEF IndInv
<1>2. QED BY <1>1, Invariance, PTL

(* The pool hands out no connection that it has closed. *)
THEOREM HandsOutOpen == Spec => []TrackedIsOpen
<1>1. IndInv => TrackedIsOpen
      BY DEF IndInv
<1>2. QED BY <1>1, Invariance, PTL

(* Exactly one query is told that a connection was created. *)
THEOREM CreatesOnce == Spec => []CreatedOnce
<1>1. IndInv => CreatedOnce
      BY DEF IndInv, CreatedInv, CreatedOnce
<1>2. QED BY <1>1, Invariance, PTL

(* A generation of a single-mode pool has one dial or one connection. *)
THEOREM DialsOnce == Spec => []OneDialPerState
<1>1. IndInv => OneDialPerState
      BY DEF IndInv, SharedInv, DialInv, OneDialPerState, InProgress
<1>2. QED BY <1>1, Invariance, PTL

(* A connection of an ordered-mode pool is used by one query at a time. *)
THEOREM UsesExclusively == Spec => []ExclusiveUse
<1>1. IndInv => ExclusiveUse
      BY DEF IndInv, IdleInv, ExclusiveUse
<1>2. QED BY <1>1, Invariance, PTL

(* A holder of a shared connection is told of its end. *)
THEOREM NotifiesHolders == Spec => []HolderNotified
<1>1. IndInv => HolderNotified
  <2> SUFFICES ASSUME IndInv, Mode = "single", NEW q \in Query, pc[q] = "using",
                      link[conn[q]] = "closed", conn[q] \notin ctxDoneOf
               PROVE  \E g \in Gen : phase[g] # "live" /\ conn[q] = shared[g]
      BY DEF HolderNotified
  <2>1. PICK g \in Gen : shared[g] = conn[q]
        BY DEF IndInv, SharedInv
  <2>2. conn[q] \in Conn /\ conn[q] \in all[g]
        BY <2>1 DEF IndInv, SharedInv, QueryInv, Holding, TypeOK, QueryTypeOK
  <2>3. phase[g] # "live"
        BY <2>1, <2>2 DEF IndInv, StateInv, TrackedIsOpen, Tracked
  <2>4. QED BY <2>1, <2>3
<1>2. QED BY <1>1, Invariance, PTL

(* closeState may walk the map of a replaced state without the lock. *)
THEOREM FreezesReplaced == Spec => ReplacedStateFrozen
<1>1. IndInv /\ [Next]_vars => [FrozenAll]_vars
      BY FrozenStep DEF IndInv
<1>2. QED BY <1>1, Invariance, PTL DEF Spec, ReplacedStateFrozen

(* A query fails for a reason of its own: its context, its dial, or the    *)
(* end of the state it worked on.                                          *)
THEOREM FailsForOwnReason == Spec => ErrorsAreOwn
<1>1. IndInv /\ [Next]_vars => [OwnErrors]_vars
      BY OwnStep DEF IndInv
<1>2. QED BY <1>1, Invariance, PTL DEF Spec, ErrorsAreOwn

(* The cap on concurrent dials holds and no slot of the semaphore is lost. *)
THEOREM CapsInflight == Spec => []InflightCapped
<1>1. IndInv => InflightCapped
  <2> SUFFICES ASSUME IndInv, Mode = "ordered" PROVE InflightCapped
      BY DEF InflightCapped
  <2> DEFINE D == {d \in Dial : InProgress(d)}
             f == [d \in D |-> dialBy[d]]
  <2>2. f \in [D -> SlotHolders] /\ \A d, e \in D : f[d] = f[e] => d = e
        BY DEF IndInv, FlightInv, SlotHolders
  <2>3. f \in Injection(D, SlotHolders)
        BY <2>2 DEF Injection, IsInjective
  <2>4. Cardinality(D) <= Cardinality(SlotHolders)
        BY SlotHoldersFinite, <2>3, FS_Injection
  <2>5. MaxInflight > 0 => Cardinality(D) <= MaxInflight
    <3>1. IsFiniteSet(D)
          BY SlotHoldersFinite, <2>3, FS_Injection
    <3>2. Cardinality(D) \in Nat
          BY <3>1, FS_CardinalityType
    <3> HIDE DEF D
    <3>3. QED BY <2>4, <3>2 DEF IndInv, FlightInv, SlotInv, TypeOK
  <2>6. QED BY <2>5 DEF InflightCapped, IndInv, SlotInv, SlotHolders
<1>2. QED BY <1>1, Invariance, PTL
=============================================================================
