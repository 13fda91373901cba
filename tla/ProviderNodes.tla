---------------------------- MODULE ProviderNodes ---------------------------
(***************************************************************************)
(* The nodes of a provider: UpdateOutbounds, UpdateEndpoints and Close of  *)
(* adapter/provider/adapter.go over the managers they register the nodes   *)
(* with, adapter/outbound/manager.go and adapter/endpoint/manager.go, and  *)
(* the order in which Box.Close shuts the three down.                      *)
(*                                                                         *)
(* An option is a tag, a revision (what reflect.DeepEqual tells apart) and *)
(* the tag of the node it dials through, if any.  The default outbound is  *)
(* never a node that an update can touch and is left out.                  *)
(***************************************************************************)
EXTENDS Naturals, Sequences, Functions

CONSTANTS
    Tag,        \* tags of nodes
    Lists,      \* the contents a provider may get: a sequence of options per kind
    MaxNode,    \* how many nodes are made
    Closing,    \* Box.Close is called between updates: "never", "plain" (there is no endpoint) or "always"
    None        \* nil

Kind == {"outbound", "endpoint"}
Node == 1..MaxNode
Opt == [tag : Tag, rev : Nat, detour : Tag \cup {None}]

ASSUME NodesAssumption ==
    /\ MaxNode \in Nat
    /\ \A l \in Lists : DOMAIN l = Kind /\ \A k \in Kind : l[k] \in Seq(Opt)

VARIABLES
    started,    \* m.started of either manager
    list,       \* m.outbounds and m.endpoints
    byTag,      \* m.outboundByTag and m.endpointByTag
    dependBy,   \* m.dependByTag of the outbound manager
    opt,        \* the option each node was made from
    life,       \* of each node: "none", "made", "running" (Start was called) or "closed" (Close was called)
    abandoned,  \* the nodes that an error in a manager left in no list without closing them
    own,        \* a.outbounds and a.endpoints
    last,       \* the options of the provider: lastOutOpts and lastEPOpts
    update,     \* the update in progress
    box,        \* how far Box.Close is
    leaving,    \* the nodes that Adapter.Close has yet to remove
    panicked    \* an index was not found

mgrVars == <<started, list, byTag, dependBy, life, abandoned, panicked>>
vars == <<mgrVars, opt, own, last, update, box, leaving>>

Idle == [pc |-> "idle", kind |-> "outbound", lists |-> [k \in Kind |-> <<>>],
         active |-> {}, useless |-> <<>>, rest |-> <<>>, new |-> None, made |-> <<>>]

TypeOK ==
    /\ started \in [Kind -> BOOLEAN]
    /\ list \in [Kind -> Seq(Node)]
    /\ byTag \in [Kind -> [Tag -> Node \cup {None}]]
    /\ dependBy \in [Tag -> Seq(Tag)]
    /\ opt \in [Node -> Opt \cup {None}]
    /\ life \in [Node -> {"none", "made", "running", "closed"}]
    /\ abandoned \subseteq Node
    /\ own \in [Kind -> Seq(Node)] /\ leaving \in [Kind -> Seq(Node)]
    /\ DOMAIN update = DOMAIN Idle
    /\ box \in {"running", "endpoint", "provider", "removing", "closed"}
    /\ \A k \in Kind : started[k] /\ ~panicked =>
          {byTag[k][t] : t \in Tag} \ {None} = Range(list[k])

Init ==
    /\ started = [k \in Kind |-> TRUE]
    /\ list = [k \in Kind |-> <<>>]
    /\ byTag = [k \in Kind |-> [t \in Tag |-> None]]
    /\ dependBy = [t \in Tag |-> <<>>]
    /\ opt = [n \in Node |-> None]
    /\ life = [n \in Node |-> "none"]
    /\ abandoned = {}
    /\ own = [k \in Kind |-> <<>>]
    /\ last = [k \in Kind |-> <<>>]
    /\ update = Idle
    /\ box = "running"
    /\ leaving = [k \in Kind |-> <<>>]
    /\ panicked = FALSE

-----------------------------------------------------------------------------
(* The managers.  Only outbounds have dependencies. *)

Panic == panicked' = TRUE /\ UNCHANGED <<started, list, byTag, dependBy, life, abandoned>>

(* transport.Dependencies(): the detour. *)
Depend(n, t) ==
    LET d == opt[n].detour
    IN  IF d = None THEN dependBy ELSE [dependBy EXCEPT ![d] = Append(@, t)]
Undepend(n, t) ==
    LET d == opt[n].detour
    IN  IF d = None THEN dependBy
        ELSE [dependBy EXCEPT ![d] = IF Len(@) = 1 THEN <<>> ELSE SelectSeq(@, LAMBDA x : x # t)]

(* A node that others depend on is not closed, but it has left the maps. *)
Removable(k, t) == k = "endpoint" \/ dependBy[t] = <<>>

KeepsOpen(k, n) == life
Closed(k, n) == IF started[k] THEN [life EXCEPT ![n] = "closed"] ELSE life

RemoveKeepsTag(k, t) ==
    LET n == byTag[k][t]
    IN  IF n = None THEN UNCHANGED mgrVars
        ELSE IF n \notin Range(list[k]) THEN Panic
        ELSE /\ list' = [list EXCEPT ![k] = SelectSeq(@, LAMBDA x : x # n)]
             /\ life' = Closed(k, n)
             /\ UNCHANGED <<started, byTag, dependBy, abandoned, panicked>>
Remove(k, t) ==
    LET n == byTag[k][t]
    IN  IF n = None THEN UNCHANGED mgrVars
        ELSE IF n \notin Range(list[k]) THEN Panic
        ELSE /\ byTag' = [byTag EXCEPT ![k][t] = None]
             /\ list' = [list EXCEPT ![k] = SelectSeq(@, LAMBDA x : x # n)]
             /\ dependBy' = IF k = "outbound" /\ Removable(k, t) THEN Undepend(n, t) ELSE dependBy
             /\ life' = IF Removable(k, t) THEN Closed(k, n) ELSE life
             /\ abandoned' = IF Removable(k, t) THEN abandoned ELSE abandoned \cup {n}
             /\ UNCHANGED <<started, panicked>>

(* Create starts an outbound, if it sees m.started, before it locks, and   *)
(* an endpoint after that.                                                 *)
StartOf(k, n) == [life EXCEPT ![n] = IF started[k] THEN "running" ELSE "made"]

(* The node takes the place of the one with its tag, which is closed. *)
Insert(k, t, n) ==
    LET old == byTag[k][t]
        live == IF k = "endpoint" THEN StartOf(k, n) ELSE life
    IN  IF old # None /\ old \notin Range(list[k]) THEN Panic
        ELSE /\ list' = [list EXCEPT ![k] = Append(SelectSeq(@, LAMBDA x : x # old), n)]
             /\ byTag' = [byTag EXCEPT ![k][t] = n]
             /\ dependBy' = IF k = "outbound" THEN Depend(n, t) ELSE dependBy
             /\ life' = IF old # None /\ started[k] THEN [live EXCEPT ![old] = "closed"] ELSE live
             /\ UNCHANGED <<started, abandoned, panicked>>

(* Or Create returns an error, because the node does not start or the old  *)
(* one does not close, and forgets the node as far as it was started.      *)
Forget(n) ==
    /\ abandoned' = abandoned \cup {n}
    /\ UNCHANGED <<started, list, byTag, dependBy, panicked>>

StartError(k, n) == started[k] /\ life' = StartOf(k, n) /\ Forget(n)

CloseError(k, t, n) ==
    /\ started[k] /\ byTag[k][t] # None
    /\ life' = [life EXCEPT ![n] = "running", ![byTag[k][t]] = "closed"]
    /\ Forget(n)

(* The list is emptied, the map is not. *)
CloseManagers(kinds) ==
    /\ started' = [k \in Kind |-> started[k] /\ k \notin kinds]
    /\ list' = [k \in Kind |-> IF k \in kinds THEN <<>> ELSE list[k]]
    /\ life' = [n \in Node |-> IF \E k \in kinds : n \in Range(list[k]) THEN "closed" ELSE life[n]]
    /\ UNCHANGED <<byTag, dependBy, abandoned, panicked>>

-----------------------------------------------------------------------------
(* UpdateOutbounds, then UpdateEndpoints *)

Begun(k, lists) ==
    LET tags == {lists[k][i].tag : i \in DOMAIN lists[k]}
    IN  [Idle EXCEPT !.pc = "remove", !.kind = k, !.lists = lists, !.rest = lists[k],
                     !.active = {opt[n].tag : n \in Range(own[k])},
                     !.useless = SelectSeq(own[k], LAMBDA n : opt[n].tag \notin tags)]

Update(lists) ==
    /\ ~panicked /\ update.pc = "idle" /\ box = "running"
    /\ update' = Begun("outbound", lists)
    /\ UNCHANGED <<mgrVars, opt, own, last, box, leaving>>

(* removeUseless *)
RemoveUseless ==
    /\ ~panicked /\ update.pc = "remove" /\ update.useless # <<>>
    /\ Remove(update.kind, opt[Head(update.useless)].tag)
    /\ update' = [update EXCEPT !.useless = Tail(@)]
    /\ UNCHANGED <<opt, own, last, box, leaving>>

(* An option that did not change keeps its node.  The outbound manager     *)
(* looks among the endpoints too.                                          *)
Option == Head(update.rest)
Found ==
    LET n == byTag[update.kind][Option.tag]
    IN  IF n = None THEN byTag["endpoint"][Option.tag] ELSE n
SameTag == Found # None /\ Option.tag \in update.active
Same ==
    /\ Found # None
    /\ Option.tag \in update.active
    /\ Option \in Range(last[update.kind])
AtOption == ~panicked /\ update.pc = "remove" /\ update.useless = <<>> /\ update.rest # <<>>

Keep ==
    /\ AtOption /\ Same
    /\ update' = [update EXCEPT !.rest = Tail(@), !.made = Append(@, Found)]
    /\ UNCHANGED <<mgrVars, opt, own, last, box, leaving>>

Create ==
    /\ AtOption /\ ~Same
    /\ \E n \in Node :
        /\ life[n] = "none" /\ \A x \in Node : x < n => life[x] # "none"
        /\ opt' = [opt EXCEPT ![n] = Option]
        /\ life' = IF update.kind = "outbound" THEN StartOf("outbound", n) ELSE [life EXCEPT ![n] = "made"]
        /\ update' = [update EXCEPT !.pc = "insert", !.new = n]
    /\ UNCHANGED <<started, list, byTag, dependBy, abandoned, panicked, own, last, box, leaving>>

(* The registry refuses the option. *)
CreateFails ==
    /\ AtOption /\ ~Same
    /\ update' = [update EXCEPT !.pc = "skip"]
    /\ UNCHANGED <<mgrVars, opt, own, last, box, leaving>>

InsertFails ==
    /\ ~panicked /\ update.pc = "insert"
    /\ StartError(update.kind, update.new) \/ CloseError(update.kind, Option.tag, update.new)
    /\ update' = [update EXCEPT !.pc = "skip", !.new = None]
    /\ UNCHANGED <<opt, own, last, box, leaving>>

(* After an error of Create the old node goes. *)
Skip ==
    /\ ~panicked /\ update.pc = "skip"
    /\ IF Option.tag \in update.active THEN Remove(update.kind, Option.tag) ELSE UNCHANGED mgrVars
    /\ update' = [update EXCEPT !.pc = "remove", !.rest = Tail(@)]
    /\ UNCHANGED <<opt, own, last, box, leaving>>

Inserted ==
    /\ ~panicked /\ update.pc = "insert"
    /\ Insert(update.kind, Option.tag, update.new)
    /\ update' = [update EXCEPT !.pc = "remove", !.rest = Tail(@), !.made = Append(@, update.new), !.new = None]
    /\ UNCHANGED <<opt, own, last, box, leaving>>

(* The lists of the provider are replaced. *)
Adopt ==
    /\ ~panicked /\ update.pc = "remove" /\ update.useless = <<>> /\ update.rest = <<>>
    /\ own' = [own EXCEPT ![update.kind] = update.made]
    /\ last' = [last EXCEPT ![update.kind] = update.lists[update.kind]]
    /\ update' = IF update.kind = "outbound" THEN Begun("endpoint", update.lists) ELSE Idle
    /\ UNCHANGED <<mgrVars, opt, box, leaving>>

-----------------------------------------------------------------------------
(* Box.Close: the endpoint manager, the provider, the outbound manager. *)

ClosedFirst == Kind
ClosedBefore == {"endpoint"}

CloseEndpoints ==
    /\ ~panicked /\ box = "running" /\ update.pc = "idle"
    /\ Closing = "always" \/ (Closing = "plain" /\ own["endpoint"] = <<>>)
    /\ CloseManagers(ClosedBefore)
    /\ box' = "endpoint"
    /\ UNCHANGED <<opt, own, last, update, leaving>>

(* Adapter.Close: the lists are taken, then their nodes are removed. *)
CloseProvider ==
    /\ ~panicked /\ box = "endpoint"
    /\ leaving' = own
    /\ own' = [k \in Kind |-> <<>>]
    /\ box' = "removing"
    /\ UNCHANGED <<mgrVars, opt, last, update>>

RemoveOwn(k) ==
    /\ ~panicked /\ box = "removing" /\ leaving[k] # <<>>
    /\ k = "endpoint" => leaving["outbound"] = <<>>
    /\ Remove(k, opt[Head(leaving[k])].tag)
    /\ leaving' = [leaving EXCEPT ![k] = Tail(@)]
    /\ UNCHANGED <<opt, own, last, update, box>>

CloseOutbounds ==
    /\ ~panicked /\ box = "removing" /\ \A k \in Kind : leaving[k] = <<>>
    /\ CloseManagers({"outbound"})
    /\ box' = "closed"
    /\ UNCHANGED <<opt, own, last, update, leaving>>

-----------------------------------------------------------------------------
Next ==
    \/ \E l \in Lists : Update(l)
    \/ RemoveUseless \/ Keep \/ Create \/ CreateFails \/ Inserted \/ InsertFails \/ Skip \/ Adopt
    \/ CloseEndpoints \/ CloseProvider \/ (\E k \in Kind : RemoveOwn(k)) \/ CloseOutbounds

Spec == Init /\ [][Next]_vars

-----------------------------------------------------------------------------
(* The index of a registered node is always found: panic("invalid inbound  *)
(* index") and panic("invalid endpoint index") are not reached.            *)
NoPanic == ~panicked

(* Whatever the updates, no node runs that nothing can close any more: a   *)
(* running node is in the list of a manager that is open or about to be    *)
(* put there.  Three errors are the only ways to lose one: Create returns  *)
(* that the node did not start or that its predecessor did not close, or   *)
(* Remove that others depend on the node it has just taken from the lists. *)
NothingLost ==
    \A n \in Node : life[n] = "running" =>
        \/ n = update.new \/ n \in abandoned
        \/ \E k \in Kind : started[k] /\ n \in Range(list[k])

(* Between updates the provider offers exactly the nodes that the managers *)
(* have under its tags: none that was closed, none of an older revision.   *)
OffersCurrent ==
    update.pc = "idle" /\ box = "running" =>
        \A k \in Kind :
            /\ Range(own[k]) = Range(list[k])
            /\ \A n \in Range(own[k]) :
                  /\ life[n] = "running" /\ byTag[k][opt[n].tag] = n
                  /\ opt[n] \in Range(last[k])
=============================================================================
