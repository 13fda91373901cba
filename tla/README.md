# sing-box: verification of the core

TLA+ models of the concurrent and persistent parts of the program, the TLC instances
that check them on small sizes, and TLAPS proofs that hold for every size.

| part of the program | modules | runs | proofs |
|---|---|---|---|
| DNS connection pool, `dns/transport/conn_pool.go` | `ConnPool`, `ConnPoolInv`, `ConnPoolPromise`, `SharedConn` | `pool_single`, `pool_ordered`, `pool_single_live`, `pool_ordered_live` | `ConnPoolProofs` and the five modules it extends |
| DNS over UDP, `dns/transport/udp.go` | `UDPTransport` over `SharedConn` | `udp_ids`, `udp_live` | |
| DNS client and router, `dns/client.go`, `dns/router.go` | `DNSClient` | `dns_client` | |
| rejected DNS responses, `experimental/cachefile/rdrc.go` | `RejectedCache`, used by `DNSClient` | `dns_client` | |
| fake addresses, `dns/transport/fakeip/store.go`, `experimental/cachefile/fakeip.go` | `FakeIP` | `fakeip` | |
| expiring map, `common/expiringmap` | `ExpiringMap`, `LifetimeMap` | `expiring_map` | `ExpiringMapProofs` |
| remote provider, `provider/remote/remote.go` | `ProviderRemote` | `provider_remote` | |
| provider adapter, outbound and endpoint managers, order of `Box.Close` | `ProviderNodes` | `provider_nodes`, `provider_endpoint_close` | |

How they interact: a query comes to the router, which goes through its rules and asks the
client; the client answers from its cache, or lets one query per transport ask; a UDP
transport sends it over the shared connection of its pool. A response that a rule rejects
is remembered in the cache file, which also holds the fake addresses and what the remote
provider downloaded. The nodes of a provider are registered with the managers.

The modules are composed where the code's components call each other closely.
`UDPTransport` is written over `SharedConn`, the promise of the pool, and `pool_single`
checks that the pool keeps it (`KeepsPromise`). `DNSClient` extends `RejectedCache`, so
that the actions of the store interleave with those of the queries. `ExpiringMap`
implements `LifetimeMap`.

`MC*` modules give the constants their values. An operator that stands just before a
definition with the same parameters (`NeverCancels` before `CancelsShared`) is a faulty
form of it: with it in the place of the definition the property it belongs to is violated.
`PROJECT.json` lists these pairs and the lines each definition models.

## The connection pool

A pool works in single mode (UDP, QUIC: all queries share one connection, dialed by a
goroutine of its own for the first of them) or in ordered mode (TCP, TLS: a query takes
an idle connection or dials on its own goroutine, within a semaphore). A step is a
critical section of `p.access` or the code between two of them.

| state of `ConnPool` | state of the code |
|---|---|
| `state`, `phase`, `all`, `idle`, `shared`, `connecting`, `claimed` | the `connPoolState` objects, by generation: Reset makes the next |
| `swept` | how far `closeState` is, which runs outside the lock |
| `link`, `dead`, `ctxDoneOf`, `creations` | connections; `IsAlive`, `sharedCancel`, how often `created` was returned |
| `stage`, `dialGen`, `dialBy`, `dialConn`, `dialErr` | `connPoolConnect` objects and the dials of ordered mode |
| `slots` | the weight taken from `p.sem` |
| `pc`, `ctxDone`, `gen`, `dial`, `conn`, `result` | the calls of `Acquire`, their contexts and local variables |

Contexts end, connections die, dials fail or outlive their context, and Reset and Close
come at any moment.

* `pool_single`, `pool_ordered`: safety with two queries, two dials, a Reset, a Close, and
  two or three connections. That is enough for a query that joins another's dial, a dial
  that is overtaken by a Reset, and a connection of the old generation beside one of the new.
* `pool_single_live`, `pool_ordered_live`: every acquisition returns, and after Close every
  connection ends closed. These runs have one connection, after which dials only fail, and
  one dial at a time. In ordered mode that is what the semaphore allows anyway. In single mode it
  leaves out a dial of the new generation beside one of the old, which only the safety run has.
* `View` in `pool_single` leaves out what no later step and no checked formula reads: the
  result of a query, contexts of queries that have returned, dials nobody waits for, the
  past of closed connections nobody refers to, and whether a connection is alive that the
  pool will not look at again. `ErrorsAreOwn` compares `result` across one step, which
  TLC evaluates on the step itself. Queries, connections and dials are interchangeable;
  the liveness runs use neither view nor symmetry.

Fairness: goroutines run, contexts end (`dns/client.go` gives every exchange a timeout), a
dial returns once its context is done, `closeState` is carried out. Nothing says that a
dial succeeds. The runs may stop once all queries are over, so deadlock is not checked.

`SharedConn` is what single mode promises: at most one connection to hand out, which is
open; the first to get it is told that it is new; the context of a connection ends only
once it was dropped. `ConnPoolPromise` maps the pool to it.

## The UDP transport

`UDPTransport` has the queries of `exchange`, the callbacks by message id, the receive
loop of each connection and the growth of `udpSize`. Answers are lost, duplicated, delayed
and reordered, within an assumption about the network: once a query has ended, its answer
is not delivered any more if `t.queryId` has gone round all ids since the query got its
own (`spent` in `LoopReads`). `AnswersOwn` rests on it. `recvLoop` finds the callback by the
message id alone and compares neither the question nor the connection, so an answer that
is later than that is given to whoever has its id by then. What the property shows is that
ids are given out in turn, which is what keeps late answers away from other queries.

* `udp_ids`: three queries for two ids. Under the assumption nobody gets another query's
  answer, and the ids in use and the queries in flight match. With fewer ids than queries every id is reused and
  the search for a free one also fails.
* `udp_live`: one query announces a larger EDNS0 size while another waits. Who waits on the
  shared connection has a receive loop with a buffer that takes the answer; who waits on a
  connection that was given up returns without a deadline of its own. Fairness: the
  goroutine of a query runs and the pool cancels what it dropped.

## The DNS client

`DNSClient` has the queries for one question, each a call of `Router.Exchange` or
`Router.Lookup`, going through the rules whose transports are `Rules`; the answers of
`Checked` transports may be rejected, and the next rule is tried. `cache` has the entry
of the question as none, fresh, stale (in its lazy time) or expired; `lock` is
`cacheLock` or `transportCacheLock`; `updating` holds the marks of refreshes. The
goroutine that refreshes a stale answer is the same query going on with `update` set.
A name error is cached like an answer, and `Lookup` turns it into an error, after which the
router goes on to the next rule; the model does not keep which entries are name errors, so
each read may find one. Removing an expired key is a step after finding it expired, as in `loadResponse`; deleting the
channel and closing it are two steps, as in the deferred function of `Exchange`.

`RejectedCache` is the store of rejections: the map of pending keys, the queue, the batch
that `flushRDRCSave` works on, the transaction, which may fail, and the expiry of entries.

`dns_client` checks four setups with two queries and two rules: the rejection cache; a lazy
cache over transports that fail; the same with a cache for each transport; and a lazy cache over
transports whose answers come and can be stored. `WaitersReturn` and `PendingWritten` assume only that goroutines
run and that a transport answers or times out (`c.timeout`). `StaleRefreshed` also needs
such transports, the shared cache and queries that stop coming; see below. An entry is fresh for at
least a second, so it does not age while a query is in its deferred functions. The queue
and the batch have room for one key, and there is one checked transport: a key that is already
pending is refused, but the model has no other keys that could fill the queue.

## Fake addresses

`FakeIP` has the callers of `Create` with `addressAccess`, the three buckets of the
database, the position in the ranges and its delayed save (`pending`, `timer`), restarts
and Flush. `fakeip` has three domains and so few addresses that they are reused at once, in
two setups: two usable addresses of each family without faults; and two of one family and
one of the other with crashes, a family that is switched on or off between starts, calls of
`Create` that run on after Close and a timer that does. The two directions of the mapping
agree in both; without faults an address is reused only after all the others of its family
(`FullCycle`), over restarts too. `age` counts what was taken from the same family only, up
to `MaxAge`, which is the one other address that a family has.

## The expiring map

Times in `ExpiringMap` are relative to the present (`left`, `timer`, `age`), so that the
state space is finite without a bound on the clock. A caller reads the clock before it takes
`m.access` and may be late by `MaxStale` ticks. `expiring_map` has two keys, two callers,
lifetime 3 and staleness 2. Fairness: the clock goes on, `run` is scheduled and
`sync.Mutex` starves nobody.

## The remote provider

`ProviderRemote` has the file, the entry in the cache file and the memory of the process as
separate variables, and each write is a step of its own, with the file truncated before it
is written. The process dies between any two (twice, `MaxCrash`). A write of the file fails
before the file is opened, which leaves the old one, or after it was truncated. A list comes
with an ETag or without one, and without one `s.lastEtag` stays.

`provider_remote` covers a provider with a file and a cache file, with either and with none;
one of three lists does not parse. Nine setups say which writes may fail, whether the
subscription information changes, and whether lists have an ETag always, never or at times.
`HashSaved` needs writes that succeed and information that stays the same (`remote.go:249`
below). `RestoredTagFits` is stated for the setups of `KeepsTags`, which leaves out ETags that
come at times, and failing writes where there are both a file and the cache file
(`remote.go:274` and `301` below). `Converges` is stated for all: a list that parses and that
the server goes on publishing is in use in the end, or, in the setups outside `KeepsTags`, the
provider has its ETag with another list. Fairness: the process is restarted, the ticker goes
on, and a request or write that is repeated for ever succeeds in the end (strong fairness,
because each attempt may fail).

## Providers and managers

`ProviderNodes` has the lists and maps of both managers, the nodes of one provider and the
steps of `UpdateOutbounds` and `UpdateEndpoints`: first the nodes that are no longer
listed are removed, then each option is kept, created or fails to be created. It fails in
the registry, when the node is started, or when the node it replaces is closed; the provider
then removes the old node (`Skip`). `Box.Close` closes the endpoint manager, the provider and
the outbound manager in that order. In `provider_nodes` any of ten contents may arrive at any
time until four nodes were made, and `Box.Close` comes while there is no endpoint. Four nodes
allow for two lists of two that share none; the run also passes with five, but takes a
quarter of an hour.

`abandoned` records the nodes that an error in a manager leaves in no list and does not
close. `NothingLost` says that nothing else loses a running node. The other properties hold
whatever fails.

Deadlock is checked where the system can always go on: the DNS client, fake addresses, the
expiring map and the remote provider. Elsewhere the queries or nodes are used up, or the
program was closed.

`provider_endpoint_close` is a finding. With an endpoint, `Box.Close` ends in
`panic("invalid endpoint index")` (`adapter/endpoint/manager.go:109`):
the endpoint manager was closed first, which empties `m.endpoints` but not
`m.endpointByTag`, and `Adapter.Close` then removes its endpoints one by one.

## What is proved

`ConnPoolProofs` proves for any sets of queries (finite), connections and dials, any number
of generations, either mode and any `MaxInflight` that `Spec` implies `NoLeak`,
`TrackedIsOpen`, `CreatedOnce`, `OneDialPerState`, `ExclusiveUse`, `HolderNotified`,
`InflightCapped`, type correctness, and the action properties `ReplacedStateFrozen` and
`ErrorsAreOwn`. The assumptions are those of `ConnPool`: the mode is one of the two,
bounds are natural numbers, `None` is not a query, connection or dial.

None of the properties is inductive by itself: that a connection stays owned depends on
where dials and queries may have put it. `IndInv` in `ConnPoolInv` is the strengthening, in
parts that each say one thing:

* `StateInv`: one live generation; unused generations are empty;
* `QueryInv`, `DialInv`: what the local variables hold at each label and stage;
* `SlotInv`, `FlightInv`: who holds the slots of the semaphore, who waits for a dial;
* `ModeInv`: the modes do not use each other's state;
* `PlaceInv`, `IdleInv`: a connection is in one place, with a dial, in the map of one
  generation, or with queries after it left the map;
* `SharedInv`, `CreatedInv`: the shared connection, its dial, and who was told of it;
* `ErrorInv`: the cause of an error that is still to be returned exists.

`ConnPoolMoves` sorts the actions by the variables they change and states what each group
leaves alone (the `...Frame` lemmas and `StepCases`), so that each part is shown to be preserved
by looking only at the groups that can disturb it; it also has the lemmas about sequences
and types. `ConnPoolSteps`, `ConnPoolPlaces`, `ConnPoolShared` and `ConnPoolLeak` preserve
the parts, one lemma for each with one step for each action. `ConnPoolProofs` puts them
together (`IndInit`, `IndStep`, `Invariance`).

`ExpiringMapProofs` proves `NoLostWakeup`, type correctness and that the map implements
`LifetimeMap` for any keys, callers, lifetime and staleness.

The proofs cover both modes of the pool; TLC checks each of these properties in one mode. Type
correctness of the pool and the map is proved and not checked by a run.

## What is only model-checked

Liveness, which is outside the prover's reach: `AcquireReturns`, `CloseClosesAll`,
`ExpiredRemoved`, `CloseReturns`, `LearnsOfLoss`, `Converges`, `WaitersReturn`,
`StaleRefreshed`, `PendingWritten`. The refinement `KeepsPromise`, and all of the UDP
transport, the DNS client, fake addresses and providers.

## Where the code falls short of a property one might expect

These were met while modelling. Nothing in the repository promises otherwise, so the
properties are stated without them.

* `dns/client.go:369`: a refresh that finds a mark gives up. One that was rejected by a rule removes its
  mark before it takes it for the next rule. Two that overlap can stop each other as long as
  queries keep coming, which is why `StaleRefreshed` is about the time after the last query.
  With a cache for each transport, a refresh can also give up on the first rule because of
  another's mark although the stale entry is that of the second.
* `dns/client.go:678`: `lookupToExchange` drops the stale flag, so a Lookup that waited and
  was given a stale answer starts no refresh.
* `dns/client.go:739`: an answer stored between finding an entry expired and
  removing its key is dropped.
* `dns/client.go:782`: for a fresh entry of a lazy cache `originTTL - nowTTL` is negative and the
  time to live that is served exceeds the original one.
* `provider/remote/remote.go:249`: the 304 branch saves the hash before it writes the
  file. If the subscription information changed, the file has another hash than the saved
  one and is not restored.
* `provider/remote/remote.go:301` and `317`: when the file cannot be written after a 200, the
  ETag and the nodes in memory are new and the saved entry is old. The next 304 writes the
  file, the one after it saves the new hash beside the old ETag. After a restart the provider
  sends that ETag, and if the server has returned to the old list its 304 keeps the newer
  nodes. The same happens when the save fails after the file was written.
* `provider/remote/remote.go:274`: a list without an ETag leaves the last ETag in place, in memory and
  (`310`) in the cache file, beside the new nodes. If the server returns to the list that
  had the ETag, its 304 keeps the newer nodes for good.
* `provider/remote/remote.go:276`: the ETag is kept in memory although the list did not
  parse; until the server publishes another list it answers 304.
* `adapter/outbound/manager.go:241`: `Remove` takes an outbound out of its maps before it finds
  that another depends on it, and leaves it open.
* `adapter/outbound/manager.go:275` and `284`, `adapter/endpoint/manager.go:133` and `140`: a node
  that fails to start in a later stage, or whose predecessor fails to close, is neither kept
  nor closed.
* `adapter/outbound/manager.go:269`: `Create` reads `m.started` without the lock; an update
  that races `Box.Close` leaves a running outbound. `Box.Close` comes between updates here.
* `experimental/cachefile/fakeip.go:192`: a reset is rolled back when one of the buckets is missing, so after a
  change of the range old addresses outside of it are still answered. The configurations
  of `fakeip` agree on the range of a family where both have one.
* `dns/transport/fakeip/store.go:126`: a range of one or two addresses has none to hand out,
  and the first address handed out lies outside of it. The model's ranges are larger.
* `experimental/cachefile/fakeip.go:66`: after a crash, a late call of `Create` or a slow timer the position that
  is restored is old, and `FullCycle` fails.

## What is not modelled

* Contents: DNS messages, times to live, subscription formats, addresses beyond their position in a
  range. Queries that bypass the cache, `disable_expire` and the eviction of the LRU cache.
* The query loopback check of `dns/client.go:412`, predefined answers and CNAME chains of
  the router, the reverse mapping.
* Failing writes of fake addresses (the error is only logged), the in-memory storage
  of fake addresses.
* Health checks, the callbacks of groups and the renaming of duplicate tags in the provider
  adapter; the staged start of the managers.
* The TCP pipeline pool, the other DNS transports, groups, inbounds and services: see
  `PROJECT.json`, which names every part with the reason. Proxy protocols, stream
  transports, TLS, sniffing and platform bindings are adapters to libraries and byte
  formats, by far the larger share of the source, without shared state to check.
