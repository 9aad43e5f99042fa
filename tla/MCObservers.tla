------------------------------- MODULE MCObservers -------------------------------
EXTENDS Observers, TLC

Wants(whose, recipient, types) ==
    [table |-> whose, recipient |-> recipient] :> [disabled |-> FALSE, types |-> types]

None == [k \in {} |-> k]

Cast(requests, subscribers, types, consumers, uses, faults, rows) ==
    [requests |-> requests, subscriptionRequests |-> subscribers,
     named |-> types, consumers |-> consumers, uses |-> uses, failures |-> faults,
     subscriptions |-> rows]

Stored ==
    Wants("environment", "w1", {"feature", "subscription"})
        @@ Wants("environment", "w2", {"feature"})
        @@ Wants("admin", "w1", {"feature", "adminSubscription"})

\* Three requests of features alone; events of features, of subscriptions and
\* of both that are written to the audit logs; subscriptions that change while
\* an event is posted; and uses that are recorded while a version changes.
MCCasts ==
    {Cast(3, 0, {}, {}, 0, 0, None),
     Cast(2, 0, {}, {"audit"}, 0, 2, None),
     Cast(1, 1, {"feature"}, {"audit"}, 0, 1, None),
     Cast(0, 2, {"feature"}, {"audit"}, 0, 2, None),
     Cast(1, 1, {"feature"}, {"informer"}, 0, 1, Stored),
     Cast(0, 2, {"feature"}, {"informer"}, 0, 1, Stored),
     Cast(1, 0, {}, {}, 2, 1, None)}

\* The features, the requests and the workers are interchangeable.
Symmetry ==
    Permutations(Features) \cup Permutations(Requests)
        \cup Permutations(SubscriptionRequests) \cup Permutations(Recorders)

=============================================================================
