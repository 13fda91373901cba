----------------------------- MODULE DNSClient ------------------------------
(***************************************************************************)
(* dns/client.go with the loop of dns/router.go around it, for queries     *)
(* that ask one question and may use the cache.  A query tries the         *)
(* transports of the rules it matches in turn, until one whose answer is   *)
(* accepted; the last one is not checked.                                  *)
(*                                                                         *)
(* The first query for a transport asks it and the others wait for the     *)
(* cache to be filled.  With a lazy cache an answer is served for a while  *)
(* after it expired; whoever got one refreshes it in a goroutine of its    *)
(* own, which is the same query here, going on after it has returned.      *)
(***************************************************************************)
EXTENDS RejectedCache

CONSTANTS
    Query,      \* calls of Router.Exchange and Router.Lookup that run at once
    Transport,
    Rules,      \* the transports of the rules that match, in order
    Checked,    \* those whose rule has a responseChecker
    Setups,     \* sets of: independentCache, useLazyCache, rdrc; reliable: transports answer
    None

ASSUME RuleAssumption ==
    /\ Rules \in Seq(Transport)
    /\ Rules # <<>>
    /\ Rules[Len(Rules)] \notin Checked
ASSUME KeyAssumption == Key = Checked
ASSUME NoneAssumption == None \notin Transport \cup Query

VARIABLES
    setup,      \* what is switched on, chosen from Setups
    cache,      \* the entry of the question, for each transport or for all (None)
    lock,       \* transportCacheLock, cacheLock: the query that made the channel
    updating,   \* transportCacheUpdating, cacheUpdating
    due,        \* a stale answer was returned as such and nothing stored since
    \* queries
    pc,
    lookup,     \* called through Lookup
    update,     \* UpdateDnsCacheFromContext
    rule,       \* the index of the rule in use
    cond,       \* whose channel the query waits for, or is to close if its own
    out         \* what Exchange is about to return

clientVars == <<setup, cache, lock, updating, due>>
queryVars == <<pc, lookup, update, rule, cond, out>>
vars == <<clientVars, queryVars, rdrcVars>>

Slots == Transport \cup {None}
On(option) == option \in setup
Labels == {"idle", "peek", "peekEvict", "enter", "wait", "load", "evict", "ask", "view", "delete",
           "asking", "leave", "close"}
Outcomes == {"answer", "stale", "error", "rejected", "nothing"}

TypeOK ==
    /\ RDRCTypeOK
    /\ setup \in Setups
    /\ cache \in [Slots -> {"none", "fresh", "stale", "expired"}]
    /\ lock \in [Transport -> Query \cup {None}]
    /\ updating \in SUBSET Slots
    /\ due \in BOOLEAN
    /\ pc \in [Query -> Labels]
    /\ lookup \in [Query -> BOOLEAN]
    /\ update \in [Query -> BOOLEAN]
    /\ rule \in [Query -> 1..Len(Rules)]
    /\ cond \in [Query -> Query \cup {None}]
    /\ out \in [Query -> Outcomes]

Init ==
    /\ setup \in Setups
    /\ RDRCInit
    /\ cache = [s \in Slots |-> "none"]
    /\ lock = [t \in Transport |-> None]
    /\ updating = {}
    /\ due = FALSE
    /\ pc = [q \in Query |-> "idle"]
    /\ lookup = [q \in Query |-> FALSE]
    /\ update = [q \in Query |-> FALSE]
    /\ rule = [q \in Query |-> 1]
    /\ cond = [q \in Query |-> None]
    /\ out = [q \in Query |-> "nothing"]

-----------------------------------------------------------------------------
At(q) == Rules[rule[q]]
Slot(q) == IF On("independent") THEN At(q) ELSE None
Goto(q, label) == pc' = [pc EXCEPT ![q] = label]
First(isLookup, isUpdate) == IF isLookup /\ ~isUpdate THEN "peek" ELSE "enter"

(* exchangeLoop goes on after a rejection, the loop of Lookup after any    *)
(* error, as long as the answer of the rule is checked.                    *)
NextRule(q, o) == At(q) \in Checked /\ (o = "rejected" \/ (o = "error" /\ lookup[q]))

OnlyStale == (\E s \in Slots : cache[s] = "stale") /\ \A s \in Slots : cache[s] # "fresh"

(* The router has got o from the client. *)
Decide(q, o) ==
    /\ out' = [out EXCEPT ![q] = "nothing"]
    /\ due' = (due \/ (o = "stale" /\ OnlyStale))
    /\ IF o = "stale"
       THEN /\ Goto(q, First(lookup[q], TRUE))
            /\ update' = [update EXCEPT ![q] = TRUE]
            /\ rule' = [rule EXCEPT ![q] = 1]
            /\ UNCHANGED lookup
       ELSE IF NextRule(q, o)
       THEN /\ Goto(q, First(lookup[q], update[q]))
            /\ rule' = [rule EXCEPT ![q] = @ + 1]
            /\ UNCHANGED <<update, lookup>>
       ELSE /\ Goto(q, "idle")
            /\ rule' = [rule EXCEPT ![q] = 1]
            /\ update' = [update EXCEPT ![q] = FALSE]
            /\ lookup' = [lookup EXCEPT ![q] = FALSE]

(* Exchange is about to return o, and runs its deferred function. *)
Return(q, o) ==
    /\ Goto(q, "leave")
    /\ out' = [out EXCEPT ![q] = o]
    /\ UNCHANGED <<lookup, update, rule>>

Move(q, label) == Goto(q, label) /\ UNCHANGED <<lookup, update, rule, out>>

(* What a query gets from a response: lookupToExchange and questionCache   *)
(* turn an error code into an error, Exchange returns the response as it   *)
(* is.  A name error is cached like an answer; which of the two an entry   *)
(* is the model does not keep, so that a reader may find either.           *)
Results(q) == IF lookup[q] THEN {"answer", "error"} ELSE {"answer"}

-----------------------------------------------------------------------------
Start(q) ==
    /\ pc[q] = "idle"
    /\ \E l \in BOOLEAN :
          /\ lookup' = [lookup EXCEPT ![q] = l]
          /\ Goto(q, First(l, FALSE))
    /\ UNCHANGED <<clientVars, update, rule, cond, out, rdrcVars>>

(* questionCache, before lookupToExchange calls Exchange.  An error code   *)
(* is returned as if it were not stale.                                    *)
Peek(q) ==
    /\ pc[q] = "peek"
    /\ \/ /\ cache[Slot(q)] = "none" /\ Move(q, "enter") /\ UNCHANGED due
       \/ /\ cache[Slot(q)] = "expired" /\ Move(q, "peekEvict") /\ UNCHANGED due
       \/ /\ cache[Slot(q)] = "fresh" /\ Decide(q, "answer")
       \/ /\ cache[Slot(q)] = "stale" /\ Decide(q, "stale")
       \/ /\ cache[Slot(q)] \in {"fresh", "stale"} /\ Decide(q, "error")
    /\ UNCHANGED <<setup, cache, lock, updating, cond, rdrcVars>>

(* loadResponse removes the key that it found expired, whatever is stored  *)
(* under it by now.                                                        *)
Evict(q) ==
    /\ pc[q] \in {"peekEvict", "evict"}
    /\ cache' = [cache EXCEPT ![Slot(q)] = "none"]
    /\ Move(q, IF pc[q] = "evict" THEN "ask" ELSE "enter")
    /\ UNCHANGED <<setup, lock, updating, due, cond, rdrcVars>>

NeverMarked(s) == FALSE
Marked(s) == s \in updating
RefreshReads == "load"
RefreshGoesTo == "ask"

(* A refresh gives up if another one is at it, and does not read the cache. *)
EnterUpdate(q) ==
    /\ pc[q] = "enter"
    /\ update[q]
    /\ \/ /\ Marked(Slot(q))
          /\ Decide(q, "nothing")
          /\ UNCHANGED updating
       \/ /\ ~Marked(Slot(q))
          /\ updating' = updating \cup {Slot(q)}
          /\ Move(q, RefreshGoesTo)
          /\ UNCHANGED due
    /\ UNCHANGED <<setup, cache, lock, cond, rdrcVars>>

(* LoadOrStore of the channel under the key of the transport. *)
Enter(q) ==
    /\ pc[q] = "enter"
    /\ ~update[q]
    /\ \/ /\ lock[At(q)] = None
          /\ lock' = [lock EXCEPT ![At(q)] = q]
          /\ cond' = [cond EXCEPT ![q] = q]
          /\ Move(q, "load")
       \/ /\ lock[At(q)] # None
          /\ cond' = [cond EXCEPT ![q] = lock[At(q)]]
          /\ Move(q, "wait")
          /\ UNCHANGED lock
    /\ UNCHANGED <<setup, cache, updating, due, rdrcVars>>

WaitDone(q) ==
    /\ pc[q] = "wait"
    /\ cond[q] = None
    /\ Move(q, "load")
    /\ UNCHANGED <<clientVars, cond, rdrcVars>>

WaitCtx(q) ==
    /\ pc[q] = "wait"
    /\ cond' = [cond EXCEPT ![q] = None]
    /\ Return(q, "error")
    /\ UNCHANGED <<clientVars, rdrcVars>>

(* lookupToExchange ignores that the answer of Exchange is stale. *)
Load(q) ==
    /\ pc[q] = "load"
    /\ \/ cache[Slot(q)] = "none" /\ Move(q, "ask")
       \/ cache[Slot(q)] = "expired" /\ Move(q, "evict")
       \/ cache[Slot(q)] = "fresh" /\ \E o \in Results(q) : Return(q, o)
       \/ cache[Slot(q)] = "stale" /\ lookup[q] /\ \E o \in Results(q) : Return(q, o)
       \/ cache[Slot(q)] = "stale" /\ ~lookup[q] /\ Return(q, "stale")
    /\ UNCHANGED <<clientVars, cond, rdrcVars>>

(* LoadRDRC: the map, the database, and the removal of an expired entry. *)
Ask(q) ==
    /\ pc[q] = "ask"
    /\ \/ At(q) \in saveRDRC /\ Return(q, "rejected")
       \/ At(q) \in Checked \ saveRDRC /\ On("rdrc") /\ Move(q, "view")
       \/ (At(q) \in Checked => ~On("rdrc")) /\ Move(q, "asking")
    /\ UNCHANGED <<clientVars, cond, rdrcVars>>

(* A rejection that is not there, or cannot be read, is no rejection. *)
View(q) ==
    /\ pc[q] = "view"
    /\ \/ file[At(q)] = "valid" /\ Return(q, "rejected")
       \/ file[At(q)] = "expired" /\ Move(q, "delete")
       \/ Move(q, "asking")
    /\ UNCHANGED <<clientVars, cond, rdrcVars>>

Delete(q) ==
    /\ pc[q] = "delete"
    /\ DeleteExpired(At(q))
    /\ Move(q, "asking")
    /\ UNCHANGED <<clientVars, cond>>

(* transport.Exchange fails, at the latest after c.timeout. *)
Fails(q) ==
    /\ pc[q] = "asking"
    /\ ~On("reliable")
    /\ Return(q, "error")
    /\ UNCHANGED <<clientVars, cond, rdrcVars>>

(* The checker rejects the answer; one with an error code other than the   *)
(* name error is always rejected and not saved.                            *)
Rejects(q) ==
    /\ pc[q] = "asking"
    /\ At(q) \in Checked
    /\ (On("rdrc") /\ SaveRDRCAsync(At(q))) \/ UNCHANGED rdrcVars
    /\ Return(q, "rejected")
    /\ UNCHANGED <<clientVars, cond>>

(* The response is stored unless it has no time to live or an error code   *)
(* other than the name error.                                              *)
Accepts(q) ==
    /\ pc[q] = "asking"
    /\ \/ /\ cache' = [cache EXCEPT ![Slot(q)] = "fresh"]
          /\ due' = FALSE
       \/ ~On("reliable") /\ UNCHANGED <<cache, due>>
    /\ \E o \in Results(q) : Return(q, o)
    /\ UNCHANGED <<setup, lock, updating, cond, rdrcVars>>

Leads(q) == cond[q] = q
NotClosed(q) == [cond EXCEPT ![q] = None]
ClosedBy(q) == [r \in Query |-> IF cond[r] = q THEN None ELSE cond[r]]

(* The deferred functions: the leader deletes its channel and closes it,   *)
(* a refresh removes its mark.                                             *)
Leave(q) ==
    /\ pc[q] = "leave"
    /\ \/ /\ Leads(q)
          /\ lock' = [lock EXCEPT ![At(q)] = None]
          /\ Goto(q, "close")
          /\ UNCHANGED <<updating, due, lookup, update, rule, out>>
       \/ /\ ~Leads(q)
          /\ updating' = IF update[q] THEN updating \ {Slot(q)} ELSE updating
          /\ Decide(q, out[q])
          /\ UNCHANGED lock
    /\ UNCHANGED <<setup, cache, cond, rdrcVars>>

Close(q) ==
    /\ pc[q] = "close"
    /\ cond' = ClosedBy(q)
    /\ Decide(q, out[q])
    /\ UNCHANGED <<setup, cache, lock, updating, rdrcVars>>

(* An entry gets old.  It is fresh for at least a second, longer than the  *)
(* deferred functions of the query that stored it.                         *)
Age(s) ==
    /\ \/ /\ cache[s] = "fresh"
          /\ \A q \in Query : pc[q] \notin {"leave", "close"}
          /\ cache' = [cache EXCEPT ![s] = IF On("lazy") THEN "stale" ELSE "expired"]
       \/ /\ cache[s] = "stale"
          /\ cache' = [cache EXCEPT ![s] = "expired"]
    /\ UNCHANGED <<setup, lock, updating, due, queryVars, rdrcVars>>

ClearCache ==
    /\ cache' = [s \in Slots |-> "none"]
    /\ UNCHANGED <<setup, lock, updating, due, queryVars, rdrcVars>>

Store == (FlushLoop \/ \E k \in Key : EntryExpires(k)) /\ UNCHANGED <<clientVars, queryVars>>

Step(q) ==
    \/ Peek(q) \/ Evict(q) \/ EnterUpdate(q) \/ Enter(q) \/ WaitDone(q) \/ Load(q)
    \/ Ask(q) \/ View(q) \/ Delete(q) \/ Fails(q) \/ Rejects(q) \/ Accepts(q)
    \/ Leave(q) \/ Close(q)

Next ==
    \/ \E q \in Query : Start(q) \/ WaitCtx(q) \/ Step(q)
    \/ \E s \in Slots : Age(s)
    \/ ClearCache
    \/ Store

(* A goroutine that can go on does so, and a transport answers or times    *)
(* out.  Nothing is assumed of the contexts of callers.                    *)
Fairness ==
    /\ \A q \in Query : WF_vars(Step(q))
    /\ WF_vars(FlushLoop /\ UNCHANGED <<clientVars, queryVars>>)

Spec == Init /\ [][Next]_vars /\ Fairness

-----------------------------------------------------------------------------
(* However many queries got a stale answer, one refresh of an entry runs   *)
(* at a time.                                                              *)
OneRefresh ==
    \A p, q \in Query :
        p # q /\ update[p] /\ update[q] /\ pc[p] # "enter" /\ pc[q] # "enter" => Slot(p) # Slot(q)

(* A query that waits for another one's answer goes on without help from   *)
(* its own context, whichever way the other one leaves Exchange.           *)
WaitersReturn == \A q \in Query : pc[q] = "wait" ~> pc[q] # "wait"

(* A stale answer that Exchange or questionCache reports as such is        *)
(* replaced, if transports answer, without any further query.  While       *)
(* queries keep coming their refreshes can stop each other: one that was   *)
(* rejected gives up the mark before it takes it again for the next rule.  *)
(* With a cache for each transport, a refresh gives up on the first rule   *)
(* although the entry of the second is the stale one.                      *)
StaleRefreshed ==
    <>[][\A q \in Query : ~Start(q)]_vars =>
        ((On("reliable") /\ ~On("independent") /\ due /\ OnlyStale) ~> ~(due /\ OnlyStale))

(* A rejection in the map has no expiry, and does not stay there.          *)
PendingWritten == \A k \in Key : k \in saveRDRC ~> k \notin saveRDRC
=============================================================================
