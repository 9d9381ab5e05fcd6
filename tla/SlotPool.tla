------------------------------- MODULE SlotPool -------------------------------
(***************************************************************************)
(* What the users of a provider's lanes are promised: never more than      *)
(* Limit of them hold one, a request waits until it is granted or          *)
(* rejected, and a lane is given back by its holder only. The rate limiter *)
(* (RateLimiter) and the orchestrator's agents (Orchestrator) implement    *)
(* it. It says nothing of the order of the grants: an acquire that finds a *)
(* free lane takes it whoever waits.                                       *)
(***************************************************************************)
EXTENDS FiniteSets, Naturals

CONSTANTS Client, Limit

VARIABLES holders, waiting

Init ==
    /\ holders = {}
    /\ waiting = {}

\* A step that is none of the pool's business.
Elsewhere == UNCHANGED <<holders, waiting>>

\* New requests arrive; those that find a free lane take it at once.
Join(J) ==
    /\ J # {}
    /\ holders \subseteq holders'
    /\ holders' \subseteq holders \cup J
    /\ waiting' = waiting \cup (J \ holders')
    /\ holders' # holders => Cardinality(holders') <= Limit

Grant(G) ==
    /\ G # {}
    /\ holders' = holders \cup G
    /\ waiting' = waiting \ G
    /\ Cardinality(holders') <= Limit

Reject(c) ==
    /\ waiting' = waiting \ {c}
    /\ UNCHANGED holders

\* A lane comes back; it, and any other that is free, may be granted at once.
Release(c, G) ==
    /\ holders' = (holders \ {c}) \cup G
    /\ waiting' = waiting \ G
    /\ Cardinality(holders') <= Limit

\* The program restarts.
Reset ==
    /\ holders' = {}
    /\ waiting' = {}

Next ==
    \/ Elsewhere
    \/ \E J \in SUBSET (Client \ (holders \cup waiting)) : Join(J)
    \/ \E G \in SUBSET waiting : Grant(G)
    \/ \E c \in waiting : Reject(c)
    \/ \E c \in holders, G \in SUBSET waiting : Release(c, G)
    \/ Reset

Spec == Init /\ [][Next]_<<holders, waiting>>
===============================================================================
