------------------------------- MODULE FakeIP -------------------------------
(***************************************************************************)
(* The fake addresses of DNS: dns/transport/fakeip/store.go over its       *)
(* storage in the cache file, experimental/cachefile/fakeip.go.            *)
(*                                                                         *)
(* Every domain gets an address of the configured range, one family at a   *)
(* time; when the range is used up, the oldest address is reused.  The     *)
(* mapping is written at once, the position in the range only some seconds *)
(* later or when the program is closed.  The program may crash, and it may *)
(* be started again with other ranges.                                     *)
(***************************************************************************)
EXTENDS Integers

CONSTANTS
    Domain,
    Caller,     \* concurrent calls of Create
    Setups,     \* the setups: [configs, faults]
    MaxAddr,    \* largest address
    MaxAge,     \* bound of age
    NoRange, None

Family == {4, 6}
Addresses == 0
AllBuckets == {Addresses} \cup Family
Address == Family \X (0..MaxAddr)

VARIABLES
    setup,      \* of this behaviour
    phase,      \* of the program
    cfg,        \* s.inet4Range, s.inet6Range
    current,    \* s.inet4Current, s.inet6Current
    lock,       \* holder of s.addressAccess
    pc, job, got,   \* where a caller is, the domain and family it asks for, the address it took
    found,      \* the metadata that Start read
    pending,    \* c.saveMetadata
    timer,      \* c.saveMetadataTimer, and the metadata its function is writing
    buckets,    \* the buckets of the database: Addresses and one for each family
    domainOf,   \* bucketFakeIP
    addressOf,  \* bucketFakeIPDomain4, bucketFakeIPDomain6
    meta,       \* keyMetadata
    answer,     \* the last address that Create returned
    age         \* how many addresses of its family were taken since this one was

callerVars == <<lock, pc, job, got, answer>>
dbVars == <<buckets, domainOf, addressOf, meta>>
memVars == <<cfg, current, pending, timer>>
vars == <<setup, phase, callerVars, dbVars, memVars, found, age>>

(* What inet4_range and inet6_range may be set to: for each family NoRange *)
(* or [addr, last].                                                        *)
Configs == setup.configs

(* What may happen: "crash", "moved": a start with other ranges, "late":   *)
(* Create runs on after Close, "slow": so does the timer.                  *)
faults == setup.faults

Position == [cfg : Configs, current : [Family -> 0..MaxAddr]]
Metadata == Position \cup {None}
Jobs == Domain \X Family

TypeOK ==
    /\ setup \in Setups
    /\ phase \in {"down", "starting", "up", "closed"}
    /\ cfg \in Configs
    /\ current \in [Family -> 0..MaxAddr]
    /\ lock \in Caller \cup {None}
    /\ pc \in [Caller -> {"idle", "lock", "store", "save"}]
    /\ \A p \in Caller : lock = p <=> pc[p] \in {"store", "save"}
    /\ job \in [Caller -> Jobs \cup {None}] /\ got \in [Caller -> 0..MaxAddr]
    /\ found \in Metadata /\ pending \in Metadata /\ meta \in Metadata
    /\ timer \in [armed : BOOLEAN, writes : Metadata]
    /\ buckets \subseteq AllBuckets
    /\ domainOf \in [Address -> Domain \cup {None}]
    /\ addressOf \in [Jobs -> Address \cup {None}]
    /\ answer \in Address \cup {None}
    /\ age \in [Address -> 0..MaxAge]

EmptyDomains == [a \in Address |-> None]
EmptyAddresses == [j \in Jobs |-> None]
AllIdle == [p \in Caller |-> "idle"]
Stopped == [armed |-> FALSE, writes |-> None]

Init ==
    /\ setup \in Setups
    /\ phase = "down" /\ cfg \in Configs
    /\ current = [f \in Family |-> 0]
    /\ lock = None /\ pc = AllIdle /\ job = [p \in Caller |-> None] /\ got = [p \in Caller |-> 0]
    /\ found = None /\ pending = None /\ timer = Stopped
    /\ buckets = {} /\ domainOf = EmptyDomains /\ addressOf = EmptyAddresses /\ meta = None
    /\ answer = None /\ age = [a \in Address |-> 0]

-----------------------------------------------------------------------------
(* The cache file.  Each of these is one transaction. *)

FakeIPSaveMetadata(m) ==
    /\ meta' = m
    /\ buckets' = buckets \cup {Addresses}
    /\ UNCHANGED <<domainOf, addressOf>>

ForgetOld(addresses, old, f) == IF old = None THEN addresses ELSE [addresses EXCEPT ![<<old, f>>] = None]

FakeIPStore(d, f, a) ==
    /\ domainOf' = [domainOf EXCEPT ![<<f, a>>] = d]
    /\ addressOf' = [ForgetOld(addressOf, domainOf[<<f, a>>], f) EXCEPT ![<<d, f>>] = <<f, a>>]
    /\ buckets' = buckets \cup {Addresses, f}
    /\ UNCHANGED meta

(* DeleteBucket fails for a bucket that is not there, and a transaction    *)
(* that fails is rolled back as a whole.                                   *)
FakeIPReset ==
    \/ /\ buckets = AllBuckets
       /\ buckets' = {} /\ domainOf' = EmptyDomains /\ addressOf' = EmptyAddresses /\ meta' = None
    \/ buckets # AllBuckets /\ UNCHANGED dbVars

-----------------------------------------------------------------------------
(* Start: the metadata is read and deleted, then restored if it is for the *)
(* same ranges.                                                            *)
LoadMetadata(c) ==
    /\ phase = "down" /\ phase' = "starting"
    /\ c = cfg \/ "moved" \in faults
    /\ cfg' = c
    /\ found' = meta /\ meta' = None
    /\ UNCHANGED <<setup, callerVars, buckets, domainOf, addressOf, current, pending, timer, age>>

First(f) == IF cfg[f] = NoRange THEN 0 ELSE cfg[f].addr + 1

AlwaysFirst(m) == [f \in Family |-> First(f)]
Restored(m) == m.current

Start ==
    /\ phase = "starting" /\ phase' = "up"
    /\ IF found # None /\ found.cfg = cfg
       THEN current' = Restored(found) /\ UNCHANGED dbVars
       ELSE current' = [f \in Family |-> First(f)] /\ FakeIPReset
    /\ found' = None
    /\ UNCHANGED <<setup, callerVars, cfg, pending, timer, age>>

Close ==
    /\ phase = "up" /\ lock = None /\ phase' = "closed"
    /\ "late" \in faults \/ pc = AllIdle
    /\ "slow" \in faults \/ timer.writes = None
    /\ FakeIPSaveMetadata([cfg |-> cfg, current |-> current])
    /\ UNCHANGED <<setup, callerVars, memVars, found, age>>

(* The process ends: only the database is left. *)
Ends ==
    /\ phase' = "down"
    /\ lock' = None /\ pc' = AllIdle /\ answer' = None
    /\ found' = None /\ pending' = None /\ timer' = Stopped
    /\ job' = [p \in Caller |-> None] /\ got' = [p \in Caller |-> 0]
    /\ UNCHANGED <<setup, dbVars, cfg, current, age>>

CacheFileClose == phase = "closed" /\ Ends

Crash == "crash" \in faults /\ phase # "down" /\ Ends

-----------------------------------------------------------------------------
(* Create *)

Serves == phase = "up" \/ (phase = "closed" /\ "late" \in faults)

(* What the storage has for a domain is returned at once. *)
Create(p, j) ==
    /\ Serves /\ pc[p] = "idle" /\ cfg[j[2]] # NoRange
    /\ \/ addressOf[j] # None /\ answer' = addressOf[j] /\ UNCHANGED <<pc, job>>
       \/ /\ addressOf[j] = None /\ UNCHANGED answer
          /\ pc' = [pc EXCEPT ![p] = "lock"] /\ job' = [job EXCEPT ![p] = j]
    /\ UNCHANGED <<setup, phase, dbVars, memVars, lock, got, found, age>>

NoDoubleCheck(p) == TRUE
StillMissing(p) == addressOf[job[p]] = None

NoWrap(f) == current[f] + 1
NextAddress(f) ==
    LET next == current[f] + 1
    IN  IF next = cfg[f].last \/ next \notin cfg[f].addr..cfg[f].last THEN cfg[f].addr + 2 ELSE next

Return(p) ==
    /\ pc' = [pc EXCEPT ![p] = "idle"]
    /\ job' = [job EXCEPT ![p] = None] /\ got' = [got EXCEPT ![p] = 0]

Locked(p) == Serves /\ pc[p] = "lock" /\ lock = None

DoubleCheck(p) ==
    /\ Locked(p) /\ ~StillMissing(p)
    /\ answer' = addressOf[job[p]]
    /\ Return(p)
    /\ UNCHANGED <<setup, phase, dbVars, memVars, lock, found, age>>

Older(a) ==
    [x \in Address |-> IF x = a THEN 0 ELSE IF x[1] = a[1] /\ age[x] < MaxAge THEN age[x] + 1 ELSE age[x]]

TakeAddress(p) ==
    /\ Locked(p) /\ StillMissing(p)
    /\ LET f == job[p][2]
       IN  /\ current' = [current EXCEPT ![f] = NextAddress(f)]
           /\ got' = [got EXCEPT ![p] = NextAddress(f)]
           /\ age' = Older(<<f, NextAddress(f)>>)
    /\ lock' = p
    /\ pc' = [pc EXCEPT ![p] = "store"]
    /\ UNCHANGED <<setup, phase, dbVars, cfg, pending, timer, job, found, answer>>

(* A failing write is only logged. *)
StoreAddress(p) ==
    /\ Serves /\ pc[p] = "store" /\ pc' = [pc EXCEPT ![p] = "save"]
    /\ FakeIPStore(job[p][1], job[p][2], got[p])
    /\ UNCHANGED <<setup, phase, memVars, lock, job, got, found, answer, age>>

(* The deferred s.addressAccess.Unlock(). *)
Unlocked == None

FakeIPSaveMetadataAsync(p) ==
    /\ Serves /\ pc[p] = "save" /\ Return(p)
    /\ pending' = [cfg |-> cfg, current |-> current]
    /\ timer' = [timer EXCEPT !.armed = TRUE]
    /\ lock' = Unlocked
    /\ answer' = <<job[p][2], got[p]>>
    /\ UNCHANGED <<setup, phase, dbVars, cfg, current, found, age>>

(* The timer's function reads c.saveMetadata, then writes it. *)
TimerFires ==
    /\ phase \in {"up", "closed"} /\ timer.armed
    /\ timer.writes = None
    /\ timer' = [armed |-> FALSE, writes |-> pending]
    /\ UNCHANGED <<setup, phase, callerVars, dbVars, cfg, current, pending, found, age>>

TimerWrites ==
    /\ phase \in {"up", "closed"} /\ timer.writes # None
    /\ FakeIPSaveMetadata(timer.writes)
    /\ timer' = [timer EXCEPT !.writes = None]
    /\ UNCHANGED <<setup, phase, callerVars, cfg, current, pending, found, age>>

(* flushFakeip of the Clash API does not take the lock. *)
Flush ==
    /\ phase = "up"
    /\ FakeIPReset
    /\ UNCHANGED <<setup, phase, callerVars, memVars, found, age>>

Next ==
    \/ \E c \in Configs : LoadMetadata(c)
    \/ Start \/ Close \/ CacheFileClose \/ Crash \/ TimerFires \/ TimerWrites \/ Flush
    \/ \E p \in Caller :
        \/ \E j \in Jobs : Create(p, j)
        \/ DoubleCheck(p) \/ TakeAddress(p) \/ StoreAddress(p) \/ FakeIPSaveMetadataAsync(p)

Spec == Init /\ [][Next]_vars

-----------------------------------------------------------------------------
(* The two directions of the mapping agree in the database, whatever the   *)
(* callers, Flush and crashes do: no two domains have the same address,    *)
(* and a connection to an address that Create returned finds the domain it *)
(* was returned for.                                                       *)
Bijection ==
    /\ \A j \in Jobs : addressOf[j] # None => addressOf[j][1] = j[2] /\ domainOf[addressOf[j]] = j[1]
    /\ \A a \in Address : domainOf[a] # None => addressOf[<<domainOf[a], a[1]>>] = a

(* What Create returns is in the range configured for its family. *)
AnswersInRange ==
    answer # None => /\ cfg[answer[1]] # NoRange
                     /\ answer[2] \in cfg[answer[1]].addr..cfg[answer[1]].last

(* An address is taken from a domain only after all other addresses of its *)
(* family's range were taken, whatever the other family does, also across  *)
(* restarts of a program that is closed in order and keeps its ranges:     *)
(* clients may still remember it.                                          *)
Usable(f) == cfg[f].last - cfg[f].addr - 2
FullCycle ==
    [][\A p \in Caller : LET a == <<job[p][2], got'[p]>>
                         IN  faults = {} /\ pc[p] = "lock" /\ pc'[p] = "store" /\ a \in Address /\ domainOf[a] # None
                                => age[a] >= Usable(a[1]) - 1]_vars
=============================================================================
