------------------------- MODULE ExpiringMapProofs --------------------------
(***************************************************************************)
(* run() never sleeps through its work, and the map keeps the lifetimes,   *)
(* for every set of keys and callers and every lifetime.                   *)
(***************************************************************************)
EXTENDS ExpiringMap, TLAPS

USE LifetimeAssumption, StaleAssumption
USE DEF mapVars, runVars, callVars

IndInv == TypeOK /\ NoLostWakeup

(* The initial state of New satisfies the invariant.                       *)
LEMMA InitInv == Init => IndInv
  BY DEF Init, IndInv, TypeOK, NoLostWakeup

(* A caller's step in Store, StoreIf, Load, LoadAndRefresh or Close.       *)
LEMMA CallStep ==
  ASSUME IndInv, NEW c \in Client, ReadClock(c) \/ Close(c) \/ Proceed(c)
  PROVE  IndInv'
<1> USE DEF IndInv, TypeOK, NoLostWakeup, Goto
<1>1. CASE ReadClock(c)
      BY <1>1 DEF ReadClock
<1>2. CASE Close(c)
      BY <1>2 DEF Close
<1>3. ASSUME NEW k \in Key, StoreAccepted(c, k) PROVE IndInv'
  <2>1. TypeOK'
        BY <1>3 DEF StoreAccepted, ExpiresAt, WakeLabel
  <2>2. (runner = "idle" => entries = {} \/ wake = 1 \/ \E x \in Client : pc[x] = "notify")'
    <3>1. CASE Kept(k, c) = {}
          BY <1>3, <3>1 DEF StoreAccepted, WakeLabel
    <3>2. CASE Kept(k, c) # {}
      <4>1. entries # {}
            BY <3>2 DEF Kept
      <4>2. QED BY <1>3, <4>1 DEF StoreAccepted
    <3>3. QED BY <3>1, <3>2
  <2>3. (runner = "timer" => \A x \in entries : timer <= left[x] + MaxStale)'
        BY <1>3 DEF StoreAccepted, ExpiresAt
  <2>4. (runner \in {"idle", "timer"} /\ status = "closed" =>
           wake = 1 \/ \E x \in Client : pc[x] = "notifyClose")'
        BY <1>3 DEF StoreAccepted
  <2>5. QED BY <2>1, <2>2, <2>3, <2>4
<1>4. ASSUME NEW k \in Key, LookedUp(c, k) PROVE IndInv'
      BY <1>4 DEF LookedUp, Kept
<1>5. ASSUME NEW k \in Key, Refreshed(c, k) PROVE IndInv'
      BY <1>5 DEF Refreshed, ExpiresAt
<1>6. CASE FoundClosed(c)
      BY <1>6 DEF FoundClosed
<1>7. CASE Notify(c)
      BY <1>7 DEF Notify, Token
<1>8. CASE CloseDone(c)
      BY <1>8 DEF CloseDone
<1>9. QED BY <1>1, <1>2, <1>3, <1>4, <1>5, <1>6, <1>7, <1>8 DEF Proceed

(* A tick of the clock or a step of run().                                 *)
LEMMA RunStep ==
  ASSUME IndInv, Tick \/ Run
  PROVE  IndInv'
<1> USE DEF IndInv, TypeOK, NoLostWakeup
<1>1. CASE Tick
      BY <1>1 DEF Tick, Older
<1>2. CASE RunClosed
      BY <1>2 DEF RunClosed
<1>3. CASE RunCheck
      BY <1>3 DEF RunCheck, Unexpired, Wait
<1>4. CASE TimerFires
      BY <1>4 DEF TimerFires
<1>5. CASE RunWoken
      BY <1>5 DEF RunWoken
<1>6. QED BY <1>1, <1>2, <1>3, <1>4, <1>5 DEF Run

(* Every step of the callers, of run() and of the clock keeps it.          *)
LEMMA NextInv == IndInv /\ [Next]_vars => IndInv'
<1>1. IndInv /\ UNCHANGED vars => IndInv'
      BY DEF IndInv, TypeOK, NoLostWakeup, vars
<1>2. QED BY <1>1, CallStep, RunStep DEF Next

(* The sleep of run() is safe: the invariant is inductive as it stands,    *)
(* because a store always leaves Lifetime - MaxStale ticks and a timer is  *)
(* never set further away than Lifetime.                                   *)
THEOREM NeverOversleeps == Spec => []NoLostWakeup
<1>1. IndInv => NoLostWakeup
      BY DEF IndInv
<1>2. QED BY InitInv, NextInv, <1>1, PTL DEF Spec

(* The variables keep their types: remaining times stay between -MaxStale  *)
(* and Lifetime and the channel holds at most one token.                   *)
THEOREM TypeCorrect == Spec => []TypeOK
<1>1. IndInv => TypeOK
      BY DEF IndInv
<1>2. QED BY InitInv, NextInv, <1>1, PTL DEF Spec

Life == [k \in entries |-> left[k]]

(* A caller's step is a step of LifetimeMap: what a lookup drops is over.  *)
LEMMA CallRefines ==
  ASSUME TypeOK, NEW c \in Client, ReadClock(c) \/ Close(c) \/ Proceed(c)
  PROVE  Abs!Next \/ UNCHANGED <<Life, status>>
<1> USE DEF Life
<1>1. CASE ReadClock(c) \/ FoundClosed(c) \/ Notify(c) \/ CloseDone(c)
      BY <1>1 DEF ReadClock, FoundClosed, Notify, CloseDone
<1>2. CASE Close(c)
  <2>1. Abs!Close
        BY <1>2 DEF Close, Abs!Close
  <2>2. QED BY <2>1 DEF Abs!Next
<1>3. PICK t \in Abs!Fresh : t = ExpiresAt(c)
      BY DEF TypeOK, ExpiresAt, Abs!Fresh
<1>4. ASSUME NEW k \in Key, StoreAccepted(c, k) PROVE Abs!Next
  <2>1. Abs!Put(k, t)
        BY <1>3, <1>4 DEF StoreAccepted, Abs!Put, TypeOK
  <2>2. QED BY <1>3, <2>1 DEF Abs!Next
<1>5. ASSUME NEW k \in Key, LookedUp(c, k) PROVE Abs!Next \/ UNCHANGED <<Life, status>>
  <2>1. CASE k \in entries /\ Expired(k, c)
    <3>1. left[k] <= 0
          BY <2>1 DEF Expired, TypeOK
    <3>2. entries' = entries \ {k} /\ UNCHANGED <<left, status>>
          BY <1>5, <2>1 DEF LookedUp, Kept
    <3>3. Abs!Evict({k})
          BY <2>1, <3>1, <3>2 DEF Abs!Evict
    <3>4. {k} \in SUBSET DOMAIN Life
          BY <2>1
    <3>5. QED BY <3>3, <3>4 DEF Abs!Next
  <2>2. CASE ~(k \in entries /\ Expired(k, c))
    <3>1. entries' = entries
          BY <1>5, <2>2 DEF LookedUp, Kept
    <3>2. QED BY <1>5, <3>1 DEF LookedUp
  <2>3. QED BY <2>1, <2>2
<1>6. ASSUME NEW k \in Key, Refreshed(c, k) PROVE Abs!Next
  <2>1. k \in entries
        BY <1>6 DEF Refreshed, Kept
  <2>2. Abs!Put(k, t)
        BY <1>3, <1>6, <2>1 DEF Refreshed, Abs!Put, TypeOK
  <2>3. QED BY <1>3, <2>2 DEF Abs!Next
<1>7. QED BY <1>1, <1>2, <1>4, <1>5, <1>6 DEF Proceed

(* So is a step of run(): removeExpired drops what is over.                *)
LEMMA RunRefines ==
  ASSUME TypeOK, Tick \/ Run
  PROVE  Abs!Next \/ UNCHANGED <<Life, status>>
<1> USE DEF Life
<1>1. CASE Tick
  <2>1. Abs!Tick
        BY <1>1 DEF Tick, Abs!Tick, Older, Abs!Older, TypeOK
  <2>2. QED BY <2>1 DEF Abs!Next
<1>2. CASE RunClosed \/ TimerFires \/ RunWoken
      BY <1>2 DEF RunClosed, TimerFires, RunWoken
<1>3. CASE RunCheck
  <2> PICK S : S = {k \in entries : left[k] <= 0}
        OBVIOUS
  <2>1. entries' = entries \ S /\ UNCHANGED <<left, status>>
        BY <1>3 DEF RunCheck, Unexpired, Wait, TypeOK
  <2>2. Abs!Evict(S)
        BY <2>1 DEF Abs!Evict
  <2>3. S \in SUBSET DOMAIN Life
        OBVIOUS
  <2>4. QED BY <2>2, <2>3 DEF Abs!Next
<1>4. QED BY <1>1, <1>2, <1>3 DEF Run

(* The map with its sleeping goroutine, stale clocks and lazy lookups      *)
(* implements LifetimeMap.                                                 *)
THEOREM Implements == Spec => KeepsLifetimes
<1>1. Init => Abs!Init
      BY DEF Init, Abs!Init
<1>2. TypeOK /\ [Next]_vars => [Abs!Next]_<<Life, status>>
  <2>1. UNCHANGED vars => UNCHANGED <<Life, status>>
        BY DEF vars, Life
  <2>2. QED BY <2>1, CallRefines, RunRefines DEF Next
<1>3. QED BY <1>1, <1>2, TypeCorrect, PTL DEF Spec, Abs!Spec, KeepsLifetimes, Life
=============================================================================
