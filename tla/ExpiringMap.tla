---------------------------- MODULE ExpiringMap -----------------------------
(***************************************************************************)
(* common/expiringmap: a map whose entries live for a fixed time, cleared  *)
(* by one goroutine that sleeps on a timer or on a channel of capacity 1.  *)
(*                                                                         *)
(* Times are kept relative to the present: left[k] is item.expiresAt minus *)
(* time.Now(), age[c] how long ago caller c read the clock.  An operation  *)
(* reads the clock before it takes m.access, so its reading may be stale   *)
(* when its turn comes, by at most MaxStale ticks.  The heap is its set of *)
(* entries, whose minimum is queue[0]; values are left out, and the allow  *)
(* callback of StoreIf may accept or refuse.                               *)
(***************************************************************************)
EXTENDS Integers

CONSTANTS
    Key,        \* keys
    Client,     \* goroutines that use the map
    Lifetime,   \* lifetime of an entry, in ticks
    MaxStale    \* ticks between a caller's clock reading and its turn

ASSUME LifetimeAssumption == Lifetime \in Nat \ {0}
ASSUME StaleAssumption == MaxStale \in Nat

VARIABLES
    entries,    \* the keys that are in the map
    left,       \* ticks until an entry expires, -MaxStale and below are one
    status,     \* "open" or "closed"
    wake,       \* tokens in m.wake
    runner,     \* where run() is: "check", "idle" (on wake), "timer", "done"
    timer,      \* ticks until the timer of run() fires
    pc,         \* where a caller is
    age         \* ticks since a caller read the clock

mapVars == <<entries, left, status>>
runVars == <<runner, timer>>
callVars == <<pc, age>>
vars == <<entries, left, status, wake, runner, timer, pc, age>>

TypeOK ==
    /\ entries \subseteq Key
    /\ left \in [Key -> -MaxStale..Lifetime]
    /\ status \in {"open", "closed"}
    /\ wake \in 0..1
    /\ runner \in {"check", "idle", "timer", "done"}
    /\ timer \in 0..Lifetime
    /\ pc \in [Client -> {"out", "ready", "notify", "notifyClose", "closing"}]
    /\ age \in [Client -> 0..MaxStale]

Init ==
    /\ entries = {}
    /\ left = [k \in Key |-> 0]
    /\ status = "open"
    /\ wake = 0
    /\ runner = "check"
    /\ timer = 0
    /\ pc = [c \in Client |-> "out"]
    /\ age = [c \in Client |-> 0]

Older(t, low) == IF t > low THEN t - 1 ELSE t

(* The clock advances; a caller that read it waits MaxStale ticks at most. *)
Tick ==
    /\ \A c \in Client : pc[c] = "ready" => age[c] < MaxStale
    /\ left' = [k \in Key |-> IF k \in entries THEN Older(left[k], -MaxStale) ELSE left[k]]
    /\ timer' = Older(timer, 0)
    /\ age' = [c \in Client |-> IF pc[c] = "ready" THEN age[c] + 1 ELSE age[c]]
    /\ UNCHANGED <<entries, status, wake, runner, pc>>

Goto(c, l) ==
    /\ pc' = [pc EXCEPT ![c] = l]
    /\ age' = [age EXCEPT ![c] = 0]

-----------------------------------------------------------------------------
(* Store, StoreIf, Load and LoadAndRefresh. *)

ReadClock(c) ==
    /\ pc[c] = "out"
    /\ Goto(c, "ready")
    /\ UNCHANGED <<mapVars, wake, runVars>>

(* !item.expiresAt.After(now), for the caller's now. *)
Expired(k, c) == left[k] <= -age[c]

(* What is left of the entries after the look at k. *)
Kept(k, c) == {x \in entries : x = k => ~Expired(x, c)}

(* wake := len(m.queue) == 0 *)
NeverWake(kept) == "out"
WakeLabel(kept) == IF kept = {} THEN "notify" ELSE "out"

ExpiresAt(c) == Lifetime - age[c]

StoreAccepted(c, k) ==
    /\ pc[c] = "ready" /\ status = "open"
    /\ entries' = entries \cup {k}
    /\ left' = [left EXCEPT ![k] = ExpiresAt(c)]
    /\ Goto(c, WakeLabel(Kept(k, c)))
    /\ UNCHANGED <<status, wake, runVars>>

(* StoreIf refused by allow; Load; LoadAndRefresh of an absent key. *)
LookedUp(c, k) ==
    /\ pc[c] = "ready" /\ status = "open"
    /\ entries' = Kept(k, c)
    /\ Goto(c, "out")
    /\ UNCHANGED <<left, status, wake, runVars>>

Refreshed(c, k) ==
    /\ pc[c] = "ready" /\ status = "open"
    /\ k \in Kept(k, c)
    /\ left' = [left EXCEPT ![k] = ExpiresAt(c)]
    /\ Goto(c, "out")
    /\ UNCHANGED <<entries, status, wake, runVars>>

FoundClosed(c) ==
    /\ pc[c] = "ready" /\ status = "closed"
    /\ Goto(c, "out")
    /\ UNCHANGED <<mapVars, wake, runVars>>

-----------------------------------------------------------------------------
(* Close, and the notification after Store or Close. *)

Close(c) ==
    /\ pc[c] = "out"
    /\ status' = "closed"
    /\ entries' = {}
    /\ Goto(c, "notifyClose")
    /\ UNCHANGED <<left, wake, runVars>>

(* A send that is dropped when the channel is full. *)
Token == 1

Notify(c) ==
    /\ pc[c] \in {"notify", "notifyClose"}
    /\ wake' = Token
    /\ Goto(c, IF pc[c] = "notify" THEN "out" ELSE "closing")
    /\ UNCHANGED <<mapVars, runVars>>

CloseDone(c) ==
    /\ pc[c] = "closing" /\ runner = "done"
    /\ Goto(c, "out")
    /\ UNCHANGED <<mapVars, wake, runVars>>

-----------------------------------------------------------------------------
(* run *)

RunsOn == runner = "check" /\ status = "closed" /\ UNCHANGED vars
RunClosed ==
    /\ runner = "check" /\ status = "closed"
    /\ runner' = "done"
    /\ UNCHANGED <<mapVars, wake, timer, callVars>>

NothingRemoved == entries
UnexpiredLong == {k \in entries : left[k] > 1}
Unexpired == {k \in entries : left[k] > 0}

(* time.Until, or 0 *)
Wait(k) == IF left[k] < 0 THEN 0 ELSE left[k]

(* removeExpired, then sleep until the first entry expires. *)
RunCheck ==
    /\ runner = "check" /\ status = "open"
    /\ entries' = Unexpired
    /\ IF Unexpired = {}
       THEN runner' = "idle" /\ UNCHANGED timer
       ELSE /\ runner' = "timer"
            /\ timer' \in {Wait(k) : k \in Unexpired}
            /\ \A k \in Unexpired : timer' <= Wait(k)
    /\ UNCHANGED <<left, status, wake, callVars>>

TimerFires ==
    /\ runner = "timer" /\ timer = 0
    /\ runner' = "check"
    /\ UNCHANGED <<mapVars, wake, timer, callVars>>

RunWoken ==
    /\ runner \in {"idle", "timer"} /\ wake = 1
    /\ wake' = 0
    /\ runner' = "check"
    /\ timer' = 0
    /\ UNCHANGED <<mapVars, callVars>>

-----------------------------------------------------------------------------
Proceed(c) ==
    \/ \E k \in Key : StoreAccepted(c, k) \/ LookedUp(c, k) \/ Refreshed(c, k)
    \/ FoundClosed(c)
    \/ Notify(c)
    \/ CloseDone(c)

Run == RunClosed \/ RunCheck \/ TimerFires \/ RunWoken

Next ==
    \/ Tick
    \/ \E c \in Client : ReadClock(c) \/ Close(c) \/ Proceed(c)
    \/ Run

Spec == Init /\ [][Next]_vars

(* The clock goes on, sync.Mutex starves nobody, and run() is scheduled.   *)
LiveSpec == Spec /\ WF_vars(Tick) /\ WF_vars(Run) /\ \A c \in Client : WF_vars(Proceed(c))

-----------------------------------------------------------------------------
(* run() never sleeps through something it has to do: on the channel only  *)
(* while the map is empty or a wake-up is on its way; on the timer at most *)
(* MaxStale ticks beyond the first expiry, though a store with a stale     *)
(* clock may put an entry before the one the timer was set for; and a      *)
(* Close always has a wake-up on its way.                                  *)
NoLostWakeup ==
    /\ runner = "idle" => entries = {} \/ wake = 1 \/ \E c \in Client : pc[c] = "notify"
    /\ runner = "timer" => \A k \in entries : timer <= left[k] + MaxStale
    /\ runner \in {"idle", "timer"} /\ status = "closed" =>
          wake = 1 \/ \E c \in Client : pc[c] = "notifyClose"

(* Every step of the map is one that LifetimeMap allows: entries go when   *)
(* their lifetime is over or at Close, and nothing enters a closed map.    *)
Abs == INSTANCE LifetimeMap WITH life <- [k \in entries |-> left[k]]

KeepsLifetimes == Abs!Spec

(* An expired entry is removed though nobody looks it up.                  *)
ExpiredRemoved ==
    \A k \in Key : (k \in entries /\ left[k] <= 0) ~> (k \notin entries \/ left[k] > 0)

(* Close waits for run() to end, and it does.                              *)
CloseReturns == \A c \in Client : (pc[c] = "closing") ~> (pc[c] = "out")
=============================================================================
