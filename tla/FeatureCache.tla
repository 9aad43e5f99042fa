----------------------------- MODULE FeatureCache -----------------------------
(***************************************************************************)
(* The feature service with the cache the gateway evaluates from.  The     *)
(* workers of pkg/feature/cacher consume the domain events of features:    *)
(* for an event they list the features of its environment and put the list *)
(* into the cache, once per feature and chunk.  A gateway that finds no    *)
(* entry lists the features and puts the list itself.                      *)
(*                                                                         *)
(* Abstracted: the events of one request are one message, as they name one *)
(* feature; a listing is read at one point, which it is up to 500          *)
(* features.  Messages that carry no event of a feature are acked without  *)
(* any effect and left out, as is the second delivery of one that was      *)
(* acked: it only lists once more.                                         *)
(***************************************************************************)
EXTENDS FeatureService

CONSTANTS
    Cachers,      \* workers of the feature cacher
    Gateways,     \* gateway instances
    CacherFlushSize,
    MaxCacheFailures   \* bound: failures of the cache, of a refresh, of a process

ASSUME CacheAssumption ==
    /\ CacherFlushSize \in Nat \ {0}
    /\ MaxCacheFailures \in Nat

VARIABLES
    cache,        \* the listing in the cache: a set of one, or of none
    messages,     \* events on their way to a cacher
    chunk,        \* per cacher: the messages it has collected
    handling,     \* the cachers that handle their chunk
    handled,      \* per cacher: the features handled in this chunk
    listed,       \* per cacher: the listing it has read, and for which message
    filling,      \* per gateway: the listing it has read
    reverted,     \* a listing was put over an entry that was newer
    cacheFailures

cacherVars == <<chunk, handling, handled, listed>>
cacheVars == <<cache, messages, cacherVars, filling, reverted, cacheFailures>>
allVars == <<vars, cacheVars>>

\* What ListFeatures returns for the environment.
Listing == [f \in Listed |-> Loaded(table[f])]

CacheInit ==
    /\ Init
    /\ cache = {}
    /\ messages = {}
    /\ chunk = [w \in Cachers |-> {}]
    /\ handling = {}
    /\ handled = [w \in Cachers |-> {}]
    /\ listed = [w \in Cachers |-> {}]
    /\ filling = [g \in Gateways |-> {}]
    /\ reverted = FALSE
    /\ cacheFailures = 0

\* A step of the service: the events it publishes are sent to the cachers.
ServeFeatures ==
    /\ Next
    /\ messages' = messages \cup
            {[request |-> r, feature |-> req[r].feature] : r \in published' \ published}
    /\ UNCHANGED <<cache, cacherVars, filling, reverted, cacheFailures>>

\* FeaturesCache.Put: the entry has no version to compare.
PutEntry(list) ==
    /\ cache' = {list}
    /\ reverted' = (reverted \/ (cache = {Listing} /\ list # Listing))

CacheFails ==
    /\ cacheFailures < MaxCacheFailures
    /\ cacheFailures' = cacheFailures + 1

-----------------------------------------------------------------------------
(* Feature cacher: batch *)

Receive(w, m) ==
    /\ w \notin handling
    /\ m \in messages
    /\ Cardinality(chunk[w]) < CacherFlushSize
    /\ messages' = messages \ {m}
    /\ chunk' = [chunk EXCEPT ![w] = @ \cup {m}]
    /\ UNCHANGED <<vars, cache, handling, handled, listed, filling, reverted,
                   cacheFailures>>

\* Fault: what was handled is remembered from chunk to chunk.
FlushRemembering(w) ==
    /\ w \notin handling
    /\ chunk[w] # {}
    /\ handling' = handling \cup {w}
    /\ UNCHANGED <<vars, cache, messages, chunk, handled, listed, filling,
                   reverted, cacheFailures>>

\* Fault: the timer is not set again after the first chunk.
FlushWhenFull(w) ==
    /\ w \notin handling
    /\ Cardinality(chunk[w]) = CacherFlushSize
    /\ handling' = handling \cup {w}
    /\ handled' = [handled EXCEPT ![w] = {}]
    /\ UNCHANGED <<vars, cache, messages, chunk, listed, filling, reverted,
                   cacheFailures>>

\* The chunk is full or the timer fires: handleChunk begins.
Flush(w) ==
    /\ w \notin handling
    /\ chunk[w] # {}
    /\ handling' = handling \cup {w}
    /\ handled' = [handled EXCEPT ![w] = {}]
    /\ UNCHANGED <<vars, cache, messages, chunk, listed, filling, reverted,
                   cacheFailures>>

-----------------------------------------------------------------------------
(* Feature cacher: handleChunk *)

\* The cacher is done with message m, and with the chunk when it was the last.
Leave(w, m) ==
    /\ chunk' = [chunk EXCEPT ![w] = @ \ {m}]
    /\ handling' = IF chunk[w] = {m} THEN handling \ {w} ELSE handling

\* Its feature was handled in this chunk: acked.
Coalesce(w, m) ==
    /\ w \in handling
    /\ listed[w] = {}
    /\ m \in chunk[w]
    /\ m.feature \in handled[w]
    /\ Leave(w, m)
    /\ UNCHANGED <<vars, cache, messages, handled, listed, filling, reverted,
                   cacheFailures>>

\* refresh: the features are listed ...
ListForEvent(w, m) ==
    /\ w \in handling
    /\ listed[w] = {}
    /\ m \in chunk[w]
    /\ m.feature \notin handled[w]
    /\ listed' = [listed EXCEPT ![w] = {[message |-> m, list |-> Listing]}]
    /\ UNCHANGED <<vars, cache, messages, chunk, handling, handled, filling,
                   reverted, cacheFailures>>

\* ... and put into the cache; the message is acked.
PutListing(w) ==
    \E l \in listed[w] :
        /\ PutEntry(l.list)
        /\ Leave(w, l.message)
        /\ handled' = [handled EXCEPT ![w] = @ \cup {l.message.feature}]
        /\ listed' = [listed EXCEPT ![w] = {}]
        /\ UNCHANGED <<vars, messages, filling, cacheFailures>>

\* Listing or putting fails: nacked, and delivered again.
FailToRefresh(w, m) ==
    /\ w \in handling
    /\ m \in chunk[w]
    /\ IF listed[w] = {}
       THEN m.feature \notin handled[w]
       ELSE \A l \in listed[w] : l.message = m
    /\ CacheFails
    /\ Leave(w, m)
    /\ messages' = messages \cup {m}
    /\ listed' = [listed EXCEPT ![w] = {}]
    /\ UNCHANGED <<vars, cache, handled, filling, reverted>>

\* The process stops: what it has not acked is delivered again.
Crash(w) ==
    /\ chunk[w] # {}
    /\ CacheFails
    /\ messages' = messages \cup chunk[w]
    /\ chunk' = [chunk EXCEPT ![w] = {}]
    /\ handling' = handling \ {w}
    /\ listed' = [listed EXCEPT ![w] = {}]
    /\ UNCHANGED <<vars, cache, handled, filling, reverted>>

-----------------------------------------------------------------------------
(* Gateway: getFeatures *)

\* There is no entry, or it cannot be read: the features are listed ...
ListForRequest(g) ==
    /\ \/ cache = {} /\ UNCHANGED cacheFailures
       \/ cache # {} /\ CacheFails
    /\ filling[g] = {}
    /\ filling' = [filling EXCEPT ![g] = {Listing}]
    /\ UNCHANGED <<vars, cache, messages, cacherVars, reverted>>

\* ... and put into the cache, whatever is there by then.
FillCache(g) ==
    \E list \in filling[g] :
        /\ PutEntry(list)
        /\ filling' = [filling EXCEPT ![g] = {}]
        /\ UNCHANGED <<vars, messages, cacherVars, cacheFailures>>

\* Putting fails, which is only logged, or the gateway stops.
FailToFill(g) ==
    /\ filling[g] # {}
    /\ CacheFails
    /\ filling' = [filling EXCEPT ![g] = {}]
    /\ UNCHANGED <<vars, cache, messages, cacherVars, reverted>>

-----------------------------------------------------------------------------

HandleChunk(w) ==
    \/ \E m \in chunk[w] : Coalesce(w, m) \/ ListForEvent(w, m) \/ FailToRefresh(w, m)
    \/ PutListing(w)

CacheNext ==
    \/ ServeFeatures
    \/ \E w \in Cachers :
        \/ \E m \in messages : Receive(w, m)
        \/ Flush(w)
        \/ HandleChunk(w)
        \/ Crash(w)
    \/ \E g \in Gateways : ListForRequest(g) \/ FillCache(g) \/ FailToFill(g)

CacheSpec == CacheInit /\ [][CacheNext]_allVars

\* A committed request gets to the end of its handler, the timers of the
\* cachers fire and their calls return, and an event reaches a cacher.
CacheFairness ==
    /\ \A r \in Requests : WF_allVars(ServeFeatures /\ req[r].phase = "committed" /\ req'[r].phase # "committed")
    /\ \A w \in Cachers : WF_allVars(Flush(w)) /\ WF_allVars(HandleChunk(w))
    /\ SF_allVars(\E w \in Cachers, m \in messages : Receive(w, m))

FairCacheSpec == CacheSpec /\ CacheFairness

-----------------------------------------------------------------------------
(* Properties *)

UpToDate == cache \subseteq {Listing}

\* All committed requests have published, and all their events are acked.
Settled ==
    /\ \A r \in Requests : req[r].phase \notin {"committed", "unpublished"}
    /\ messages = {}
    /\ \A w \in Cachers : chunk[w] = {}

\* Once every event is acked the entry lists the features as they are, though
\* events of one feature share a refresh, refreshes fail and cachers crash:
\* unless an event was not published, or an entry was overwritten by an older
\* listing (two cachers, or a cacher and a gateway, put in the wrong order).
NoStaleEntry == Settled /\ ~reverted => UpToDate

\* With the same exceptions the gateway evaluates with the current features in
\* the end.
CacheConverges ==
    [](~reverted /\ \A r \in Requests : req[r].phase # "unpublished") => <>[]UpToDate

=============================================================================
