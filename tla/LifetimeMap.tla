---------------------------- MODULE LifetimeMap -----------------------------
(***************************************************************************)
(* What common/expiringmap promises: a key stays for its lifetime, counted *)
(* from the moment the caller read the clock, and is dropped only when the *)
(* lifetime is over or the map is closed.  Who drops it, and when, is not  *)
(* said here.                                                              *)
(***************************************************************************)
EXTENDS Integers

CONSTANTS
    Key,        \* keys
    Lifetime,   \* lifetime of an entry, in ticks
    MaxStale    \* ticks between a caller's clock reading and its turn

VARIABLES
    life,       \* ticks until the end of each key that is in the map
    status      \* "open" or "closed"

Fresh == {Lifetime - a : a \in 0..MaxStale}

(* What ended MaxStale ticks ago has ended for every caller. *)
Older(t) == IF t > -MaxStale THEN t - 1 ELSE t

Init == life = [k \in {} |-> 0] /\ status = "open"

Tick ==
    /\ life' = [k \in DOMAIN life |-> Older(life[k])]
    /\ UNCHANGED status

(* A store, or the refresh of a key that is there. *)
Put(k, t) ==
    /\ status = "open"
    /\ life' = [x \in DOMAIN life \cup {k} |-> IF x = k THEN t ELSE life[x]]
    /\ UNCHANGED status

Evict(S) ==
    /\ \A k \in S : life[k] <= 0
    /\ life' = [k \in DOMAIN life \ S |-> life[k]]
    /\ UNCHANGED status

Close ==
    /\ status' = "closed"
    /\ life' = [k \in {} |-> 0]

Next ==
    \/ Tick
    \/ \E k \in Key, t \in Fresh : Put(k, t)
    \/ \E S \in SUBSET DOMAIN life : Evict(S)
    \/ Close

Spec == Init /\ [][Next]_<<life, status>>
=============================================================================
