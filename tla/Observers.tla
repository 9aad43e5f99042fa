-------------------------------- MODULE Observers --------------------------------
(***************************************************************************)
(* The feature service together with those that follow what happens to     *)
(* features: the consumers of domain events, with the subscriptions they   *)
(* serve, and the recorder of uses.                                        *)
(***************************************************************************)
EXTENDS FeatureUsage, DomainEvents

CONSTANTS
    Casts,     \* who acts, how often, and on which subscriptions
    MaxTime    \* bound of the clock

\* The subscriptions that are stored at first have keys of the two tables.
ASSUME CastsAssumption == \A c \in Casts : DOMAIN c.subscriptions \subseteq Keys

VARIABLES
    cast,
    failures

observerVars == <<vars, usageVars, eventVars, cast, failures>>

ObserversInit ==
    /\ Init
    /\ UsageInit
    /\ EventsInit
    /\ cast \in Casts
    /\ subscriptions = cast.subscriptions
    /\ failures = 0

Made(progress) == Cardinality({r \in DOMAIN progress : progress[r].phase # "new"})

Serve ==
    /\ Next
    /\ Made(req') <= cast.requests
    /\ PublishFeatureEvents
    /\ UNCHANGED <<usageVars, failures>>

Subscribe ==
    /\ \E s \in SubscriptionRequests : RequestSubscription(s, cast.named)
    /\ Made(sreq') <= cast.subscriptionRequests
    /\ UNCHANGED <<vars, usageVars, failures>>

Consume ==
    /\ \/ "audit" \in cast.consumers /\ PersistEvents
       \/ "informer" \in cast.consumers /\ Inform
    /\ UNCHANGED <<vars, usageVars, failures>>

UseFeatures ==
    /\ cast.uses > 0
    /\ RecordUsage
    /\ Cardinality(undelivered' \cup recorded') <= cast.uses
    /\ now' <= MaxTime
    /\ UNCHANGED <<vars, eventVars, failures>>

Misbehave ==
    /\ failures < cast.failures
    /\ failures' = failures + 1
    /\ \/ /\ "audit" \in cast.consumers /\ PersisterFaults
          /\ UNCHANGED usageVars
       \/ /\ "informer" \in cast.consumers /\ InformerFaults
          /\ UNCHANGED usageVars
       \/ RecorderFaults /\ UNCHANGED eventVars
    /\ UNCHANGED vars

ObserversNext ==
    /\ Serve \/ Subscribe \/ Consume \/ UseFeatures \/ Misbehave
    /\ UNCHANGED cast

ObserversSpec == ObserversInit /\ [][ObserversNext]_observerVars

=============================================================================
