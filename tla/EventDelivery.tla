----------------------------- MODULE EventDelivery -----------------------------
(***************************************************************************)
(* What the event persister promises: the clients' events wait, are        *)
(* stored, and stop waiting only once they are stored, unless they are of  *)
(* a kind that can never be stored.                                        *)
(***************************************************************************)
CONSTANTS
    Events,     \* ids of events
    Storable    \* those of them that are well formed and of a known type

VARIABLES
    waiting,    \* events that will be delivered again
    stored      \* events that reached the store

vars == <<waiting, stored>>

Init ==
    /\ waiting = Events
    /\ stored = {}

\* One write stores some of the events that wait, or some again.
Store(es) ==
    /\ es \subseteq waiting \cap Storable
    /\ stored' = stored \cup es
    /\ UNCHANGED waiting

Settle(es) ==
    /\ es \subseteq stored \cup (Events \ Storable)
    /\ waiting' = waiting \ es
    /\ UNCHANGED stored

Next == \E es \in SUBSET Events : Store(es) \/ Settle(es)

Spec == Init /\ [][Next]_vars

\* In the end nothing waits, hence everything storable is stored.
Delivered == <>[](waiting = {})

=============================================================================
