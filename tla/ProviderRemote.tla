--------------------------- MODULE ProviderRemote ---------------------------
(***************************************************************************)
(* The remote provider, provider/remote/remote.go: it downloads a list of  *)
(* nodes with a conditional request and keeps it, over restarts, in a file *)
(* (HasPath), in the cache file (HasCache) or in both, the cache file then *)
(* holding the hash that validates the file.  Which of them, what may fail *)
(* and what the server sends with the list is the setup of a behaviour.    *)
(*                                                                         *)
(* A version of the list is named by its ETag.  What is stored is a text:  *)
(* the line with the subscription information, when there is one, and the  *)
(* nodes.  MD5 is taken to be injective, so the hash of a text is the      *)
(* text.                                                                   *)
(***************************************************************************)
EXTENDS Naturals, FiniteSets

CONSTANTS
    Version,    \* the lists the server may publish
    Good,       \* those that the parser accepts
    Setups,     \* the setups: [path, cache, fails, infos, tags]
    Caller,     \* who calls fetch: "loop", which also starts, and others
    MaxCrash,   \* how often the process dies
    Torn,       \* a file that was truncated and not written to its end
    None        \* nil, "" or the zero value

ASSUME ProviderAssumption ==
    /\ Good \subseteq Version /\ Good # {}
    /\ \A s \in Setups : s.path \in BOOLEAN /\ s.cache \in BOOLEAN
                         /\ s.fails \subseteq {"write", "save"}
                         /\ s.infos # {} /\ s.tags \in SUBSET BOOLEAN \ {{}}
    /\ MaxCrash \in Nat /\ "loop" \in Caller

VARIABLES
    setup,
    server,     \* the version the server publishes
    file,       \* the file at s.path
    saved,      \* the subscription in the cache file
    state,      \* of the process: "down", "starting" or "up"
    nodes,      \* s.lastOutOpts and s.lastEPOpts
    etag,       \* s.lastEtag
    hash,       \* s.hash
    fresh,      \* s.lastUpdated is not zero
    updating,   \* s.updating
    pc,         \* where each call of fetch is
    sent, info, \* the ETag it sent and the information it received
    crashes     \* how often the process died

diskVars == <<file, saved>>
memVars == <<nodes, etag, hash, fresh>>
callVars == <<updating, pc, sent, info>>
vars == <<setup, server, diskVars, state, memVars, callVars, crashes>>

HasPath == setup.path       \* s.path # ""
HasCache == setup.cache     \* s.cacheFile # nil
MayFail == setup.fails      \* which of the calls "write" and "save" may fail
Info == setup.infos         \* values of the header subscription-userinfo, None if absent
Tagged == setup.tags        \* whether a list comes with the header Etag

Text == [info : Info, nodes : Version]
Sub == [hash : Text \cup {None}, content : Text \cup {None}, etag : Version \cup {None}]
Steps == {"idle", "request", "resave", "rewrite", "write", "tear", "retear", "save"}

TypeOK ==
    /\ setup \in Setups
    /\ server \in Version
    /\ file \in Text \cup {None, Torn}
    /\ saved \in Sub \cup {None}
    /\ state \in {"down", "starting", "up"}
    /\ nodes \in Version \cup {None}
    /\ etag \in Version \cup {None}
    /\ hash \in Text \cup {None}
    /\ fresh \in BOOLEAN /\ updating \in BOOLEAN
    /\ pc \in [Caller -> Steps]
    /\ Cardinality({c \in Caller : pc[c] # "idle"}) = IF updating THEN 1 ELSE 0
    /\ sent \in [Caller -> Version \cup {None}]
    /\ info \in [Caller -> Info]
    /\ crashes \in 0..MaxCrash

SomeInfo == CHOOSE i \in Info : TRUE

Init ==
    /\ setup \in Setups
    /\ server \in Version
    /\ file = None /\ saved = None
    /\ state = "down"
    /\ nodes = None /\ etag = None /\ hash = None /\ fresh = FALSE
    /\ updating = FALSE
    /\ pc = [c \in Caller |-> "idle"]
    /\ sent = [c \in Caller |-> None]
    /\ info = [c \in Caller |-> SomeInfo]
    /\ crashes = 0

(* The server publishes whatever it likes, an earlier version included. *)
Publish(v) ==
    /\ v # server /\ server' = v
    /\ UNCHANGED <<setup, diskVars, state, memVars, callVars, crashes>>

-----------------------------------------------------------------------------
(* StartContext and loadCacheFile *)

LoadSubscription == IF HasCache THEN saved ELSE None

(* The text that loadCacheFile accepts, None if there is none: a file must *)
(* have the saved hash, and a torn one does not parse.                     *)
ValidFile ==
    IF file \in {None, Torn} \/ (LoadSubscription # None /\ LoadSubscription.hash # file)
    THEN None ELSE file

Restorable ==
    IF HasPath THEN ValidFile
    ELSE IF LoadSubscription = None THEN None ELSE LoadSubscription.content

LoadFromContent(text) == nodes' = IF text = None THEN None ELSE text.nodes

(* With nothing to restore, StartContext goes on to fetch. *)
Boot ==
    /\ state = "down"
    /\ LET sub == LoadSubscription
           text == Restorable
       IN  /\ hash' = IF sub = None THEN None ELSE sub.hash
           /\ LoadFromContent(text)
           /\ etag' = IF text = None \/ sub = None THEN None ELSE sub.etag
           /\ fresh' = (text # None)
           /\ state' = IF text = None THEN "starting" ELSE "up"
    /\ UNCHANGED <<setup, server, diskVars, callVars, crashes>>

(* The process ends and only the disk is left. *)
Lost ==
    /\ state' = "down"
    /\ nodes' = None /\ etag' = None /\ hash' = None /\ fresh' = FALSE
    /\ updating' = FALSE
    /\ pc' = [c \in Caller |-> "idle"]
    /\ sent' = [c \in Caller |-> None]
    /\ info' = [c \in Caller |-> SomeInfo]

Crash ==
    /\ state # "down" /\ crashes < MaxCrash
    /\ crashes' = crashes + 1
    /\ Lost
    /\ UNCHANGED <<setup, server, diskVars>>

-----------------------------------------------------------------------------
(* fetch, called by StartContext, loopUpdate and Update *)

Goto(c, l) == pc' = [pc EXCEPT ![c] = l]

(* A call is turned away while s.updating is set. *)
NeverBusy == TRUE
NotBusy == ~updating

Fetch(c) ==
    /\ pc[c] = "idle" /\ NotBusy
    /\ state = "up" \/ (state = "starting" /\ c = "loop")
    /\ updating' = TRUE
    /\ sent' = [sent EXCEPT ![c] = etag]
    /\ Goto(c, "request")
    /\ UNCHANGED <<setup, server, diskVars, state, memVars, info, crashes>>

NoTicker == state = "starting" /\ Fetch("loop")
LoopUpdate == Fetch("loop")
Update(c) == c # "loop" /\ Fetch(c)

(* The deferred s.updating.Store(false), once fetch returns. *)
Done(c) ==
    /\ updating' = FALSE
    /\ pc' = [pc EXCEPT ![c] = "idle"]
    /\ sent' = [sent EXCEPT ![c] = None]
    /\ info' = [info EXCEPT ![c] = SomeInfo]

(* It returns without an error, or with one, which also ends StartContext. *)
Succeeds(c) == state' = "up" /\ Done(c)
Fails(c, tag) ==
    IF state = "starting"
    THEN Lost
    ELSE Done(c) /\ etag' = tag /\ UNCHANGED <<state, nodes, hash, fresh>>

(* No reply, an unexpected status, or a body that breaks off. *)
RequestFails(c) ==
    /\ pc[c] = "request"
    /\ Fails(c, etag)
    /\ UNCHANGED <<setup, server, diskVars, crashes>>

(* 200.  An ETag is remembered before the content is parsed; without one   *)
(* the last one stays.                                                     *)
OK(c) == pc[c] = "request" /\ sent[c] # server

LastEtag(tagged) == IF tagged THEN server ELSE etag

Unparsed(c, tagged) ==
    /\ OK(c) /\ server \notin Good
    /\ Fails(c, LastEtag(tagged))
    /\ UNCHANGED <<setup, server, diskVars, crashes>>

UpdateProviderFromContent(v) == v \in Good /\ nodes' = v

Parsed(c, tagged, i) ==
    /\ OK(c)
    /\ UpdateProviderFromContent(server)
    /\ etag' = LastEtag(tagged) /\ fresh' = TRUE
    /\ IF HasPath \/ HasCache
       THEN /\ Goto(c, IF HasPath THEN "write" ELSE "save")
            /\ info' = [info EXCEPT ![c] = i]
            /\ UNCHANGED <<state, updating, sent>>
       ELSE Succeeds(c)
    /\ UNCHANGED <<setup, server, diskVars, hash, crashes>>

(* 304: the nodes stay; what the cache file has is saved again, then the   *)
(* file is written.                                                        *)
NotModified(c, i) ==
    /\ pc[c] = "request" /\ sent[c] = server
    /\ fresh' = TRUE
    /\ IF HasPath \/ HasCache
       THEN /\ Goto(c, IF HasCache THEN "resave" ELSE "rewrite")
            /\ info' = [info EXCEPT ![c] = i]
            /\ UNCHANGED <<state, updating, sent>>
       ELSE Succeeds(c)
    /\ UNCHANGED <<setup, server, diskVars, nodes, etag, hash, crashes>>

(* The saved subscription with s.hash, or with the new information in      *)
(* place of the old one.                                                   *)
WithTag(c) == [saved EXCEPT !.hash = hash, !.etag = etag]
Resaved(c) ==
    IF HasPath THEN [saved EXCEPT !.hash = hash]
    ELSE IF info[c] # None /\ saved.content # None /\ saved.content.info # None
         THEN [saved EXCEPT !.content.info = info[c]]
         ELSE saved

Resave(c) ==
    /\ pc[c] = "resave"
    /\ \/ saved' = IF saved = None THEN None ELSE Resaved(c)
       \/ "save" \in MayFail /\ UNCHANGED saved
    /\ IF HasPath THEN Goto(c, "rewrite") /\ UNCHANGED <<state, updating, sent, info>> ELSE Succeeds(c)
    /\ UNCHANGED <<setup, server, file, memVars, crashes>>

(* saveCacheFile: the file is truncated and written; then s.hash is set.   *)
(* It fails before the file is opened, or between the two.                 *)
Truncate(c) ==
    /\ pc[c] \in {"write", "rewrite"}
    /\ file' = Torn
    /\ Goto(c, IF pc[c] = "write" THEN "tear" ELSE "retear")
    /\ UNCHANGED <<setup, server, saved, state, memVars, updating, sent, info, crashes>>

WriteFails(c) ==
    /\ pc[c] \in {"write", "rewrite", "tear", "retear"} /\ "write" \in MayFail
    /\ Fails(c, etag)
    /\ UNCHANGED <<setup, server, diskVars, crashes>>

NewText(c) == [info |-> info[c], nodes |-> nodes]

Written(c) ==
    /\ pc[c] \in {"tear", "retear"}
    /\ file' = NewText(c) /\ hash' = NewText(c)
    /\ IF pc[c] = "tear" /\ HasCache
       THEN Goto(c, "save") /\ UNCHANGED <<state, updating, sent, info>>
       ELSE Succeeds(c)
    /\ UNCHANGED <<setup, server, saved, nodes, etag, fresh, crashes>>

(* SaveSubscription, whose error is only logged. *)
OnlyTag(c) ==
    IF saved = None THEN [hash |-> hash, content |-> None, etag |-> etag] ELSE [saved EXCEPT !.etag = etag]
NewSub(c) ==
    [hash |-> IF HasPath THEN hash ELSE None,
     content |-> IF HasPath THEN None ELSE NewText(c),
     etag |-> etag]

SaveSubscription(c) ==
    /\ pc[c] = "save"
    /\ \/ saved' = NewSub(c)
       \/ "save" \in MayFail /\ UNCHANGED saved
    /\ Succeeds(c)
    /\ UNCHANGED <<setup, server, file, memVars, crashes>>

-----------------------------------------------------------------------------
Replies(c) ==
    \/ \E tagged \in Tagged : Unparsed(c, tagged) \/ \E i \in Info : Parsed(c, tagged, i)
    \/ \E i \in Info : NotModified(c, i)
Stores(c) == Resave(c) \/ Truncate(c) \/ WriteFails(c) \/ Written(c) \/ SaveSubscription(c)

Next ==
    \/ \E v \in Version : Publish(v)
    \/ Boot \/ Crash \/ LoopUpdate
    \/ \E c \in Caller : Update(c) \/ RequestFails(c) \/ Replies(c) \/ Stores(c)

Spec == Init /\ [][Next]_vars

(* The process is restarted, its ticker goes on, its goroutines run and a  *)
(* request or a write that is repeated for ever succeeds in the end.       *)
LiveSpec ==
    /\ Spec
    /\ WF_vars(Boot) /\ WF_vars(LoopUpdate)
    /\ \A c \in Caller : /\ SF_vars(Replies(c)) /\ WF_vars(Stores(c))
                         /\ SF_vars(Truncate(c)) /\ SF_vars(Written(c))

-----------------------------------------------------------------------------
(* Between two calls of fetch the hash in the cache file is that of the    *)
(* file as the process last wrote or read it, so that the next start       *)
(* restores it.  Only if no write fails and the information never changes: *)
(* a 304 saves the hash before it writes the file, which is then another   *)
(* file if the information changed or the last write had failed.           *)
HashSaved ==
    HasPath /\ HasCache /\ MayFail = {} /\ Cardinality(Info) = 1
        /\ state = "up" /\ ~updating /\ saved # None => saved.hash = hash

(* The setups in which the code keeps an ETag only beside the list it      *)
(* belongs to.  It does not where a list may come without an ETag although *)
(* another had one, since the old tag is then saved with the new list, nor *)
(* where writes to a file and the cache file may fail: a 304 then saves    *)
(* the hash of the new file beside the old ETag.                           *)
KeepsTags == Tagged # BOOLEAN /\ (HasPath /\ HasCache => MayFail = {})

(* Whatever the process dies in the middle of: an ETag that the next start *)
(* would send belongs to the nodes it would restore.  Otherwise a 304      *)
(* would leave it with the wrong nodes for good.                           *)
RestoredTagFits ==
    KeepsTags /\ HasCache /\ saved # None /\ Restorable # None =>
        saved.etag \in {Restorable.nodes, None}

(* However often the process dies and requests and writes fail, a list     *)
(* that the server goes on publishing and that parses is in use in the     *)
(* end.  The one way to miss it, in the other setups, is to have kept its  *)
(* ETag with another list.                                                 *)
Converges ==
    \A v \in Good : <>[](server = v) => <>[](nodes = v \/ (~KeepsTags /\ etag = v))
=============================================================================
