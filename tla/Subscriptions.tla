----------------------------- MODULE Subscriptions -----------------------------
(***************************************************************************)
(* The subscriptions of pkg/notification: which Slack webhooks want to     *)
(* hear of what.  There is a table of them per environment and one of the  *)
(* administrators; the API, the commands and the storage of the two are    *)
(* copies of each other.  A request works on one row in a transaction that *)
(* reads a snapshot, writes the whole row back and publishes its events    *)
(* after the commit.                                                       *)
(*                                                                         *)
(* Abstracted: one environment; the id of a subscription, a hash of its    *)
(* webhook, is the webhook; a list of source types is a set (the ones      *)
(* requests name do not repeat); names and times are left out.             *)
(***************************************************************************)
EXTENDS FiniteSets, Functions

CONSTANTS
    Recipients,            \* webhooks
    SourceTypes,           \* what a subscription can be about
    SubscriptionRequests   \* the requests, each made once

VARIABLES
    subscriptions,         \* the two tables: key -> row
    sreq                   \* what each request has done so far

subscriptionVars == <<subscriptions, sreq>>

Keys == [table : {"environment", "admin"}, recipient : Recipients]
Subscriptions == [disabled : BOOLEAN, types : SUBSET SourceTypes]

\* ListEnabledSubscriptions and ListEnabledAdminSubscriptions.
ListEnabled(table, type) ==
    {k \in DOMAIN subscriptions :
        /\ k.table = table
        /\ ~subscriptions[k].disabled
        /\ type \in subscriptions[k].types}

\* The request reads the row with key k, as it is in its snapshot.
Reads(s, k) ==
    /\ sreq[s].phase = "new"
    /\ k \in DOMAIN subscriptions

\* What the request will write over the row, or that it will delete it.
WillDo(s, progress) ==
    /\ sreq' = [sreq EXCEPT ![s] = progress]
    /\ UNCHANGED subscriptions

WillWrite(s, k, row) == WillDo(s, [phase |-> "read", key |-> k, row |-> row])

\* What is stored, and the request is over but for its events.
Stores(s, k, rows) ==
    /\ subscriptions' = rows
    /\ sreq' = [sreq EXCEPT ![s] = [phase |-> "committed", key |-> k]]

-----------------------------------------------------------------------------
(* The API *)

\* The key of the table refuses a second subscription of a webhook.
CreateSubscription(s, k, types) ==
    /\ sreq[s].phase = "new"
    /\ types # {}
    /\ k \notin DOMAIN subscriptions
    /\ Stores(s, k, [l \in DOMAIN subscriptions \cup {k} |->
                        IF l = k THEN [disabled |-> FALSE, types |-> types]
                        ELSE subscriptions[l]])

EnableSubscription(s, k) ==
    /\ Reads(s, k)
    /\ subscriptions[k].disabled
    /\ WillWrite(s, k, [subscriptions[k] EXCEPT !.disabled = FALSE])

DisableSubscription(s, k) ==
    /\ Reads(s, k)
    /\ ~subscriptions[k].disabled
    /\ WillWrite(s, k, [subscriptions[k] EXCEPT !.disabled = TRUE])

\* AddSourceTypes skips what it knows.  DeleteSourceTypes finds each type, and
\* wants more than one before it deletes: deleting all of several leaves none.
\* With neither the request renames.
UpdateSubscription(s, k, add, delete) ==
    LET types == subscriptions[k].types \cup add
    IN  /\ Reads(s, k)
        /\ delete # {} => Cardinality(types) > 1 /\ delete \subseteq types
        /\ WillWrite(s, k, [subscriptions[k] EXCEPT !.types = types \ delete])

DeleteSubscription(s, k) ==
    /\ Reads(s, k)
    /\ WillDo(s, [phase |-> "deleting", key |-> k])

\* The UPDATE finds the row, whoever wrote it since, and is committed.
CommitUpdate(s) ==
    /\ sreq[s].phase = "read"
    /\ LET k == sreq[s].key
       IN  /\ k \in DOMAIN subscriptions
           /\ Stores(s, k, [subscriptions EXCEPT ![k] = sreq[s].row])

CommitDelete(s) ==
    /\ sreq[s].phase = "deleting"
    /\ LET k == sreq[s].key
       IN  /\ k \in DOMAIN subscriptions
           /\ Stores(s, k, Restrict(subscriptions, DOMAIN subscriptions \ {k}))

\* The row is gone, the UPDATE changes nothing in it (within the second of
\* its last one), or the transaction fails: rolled back.
RollBack(s) ==
    /\ sreq[s].phase \in {"read", "deleting"}
    /\ WillDo(s, [phase |-> "failed"])

PublishEvents(s) ==
    /\ sreq[s].phase = "committed"
    /\ WillDo(s, [sreq[s] EXCEPT !.phase = "succeeded"])

\* Publishing fails, answered with Internal, or the server crashes: none of
\* the events is out, or some are.
LoseEvents(s) ==
    /\ sreq[s].phase = "committed"
    /\ \E phase \in {"unpublished", "partly"} :
        WillDo(s, [sreq[s] EXCEPT !.phase = phase])

\* A step of a request; the types it names are among those in named.
SubscriptionRequest(s, named) ==
    \/ \E k \in Keys :
        \/ \E types \in SUBSET named : CreateSubscription(s, k, types)
        \/ EnableSubscription(s, k)
        \/ DisableSubscription(s, k)
        \/ \E add, delete \in SUBSET named : UpdateSubscription(s, k, add, delete)
        \/ DeleteSubscription(s, k)
    \/ CommitUpdate(s)
    \/ CommitDelete(s)
    \/ RollBack(s)
    \/ PublishEvents(s)
    \/ LoseEvents(s)

=============================================================================
