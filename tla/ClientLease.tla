---------------------------- MODULE ClientLease ----------------------------
(***************************************************************************)
(* What the Server object promises the clients of the daemon: a sender that *)
(* created a Client object leases it until it shuts it down or leaves the   *)
(* bus, the object lives at least as long as somebody leases it, and the    *)
(* daemon stops only when no lease is left.                                 *)
(***************************************************************************)
CONSTANTS Senders, ObjectPaths

VARIABLES
    held,     \* the objects each sender leases
    live,     \* the objects that exist
    stopped   \* the daemon has stopped

leaseVars == <<held, live, stopped>>

Leased == UNION {held[s] : s \in Senders}

LeaseInit ==
    /\ held = [s \in Senders |-> {}]
    /\ live = {}
    /\ stopped = FALSE

Acquire(s, p) ==
    /\ ~stopped
    /\ held' = [held EXCEPT ![s] = @ \cup {p}]
    /\ live' = live \cup {p}
    /\ UNCHANGED stopped

\* A sender gives up some of its leases; of the objects it gave up, those
\* that nobody leases any more may disappear at once.
Release(s, given) ==
    /\ ~stopped
    /\ held' = [held EXCEPT ![s] = @ \ given]
    /\ live' \in SUBSET live
    /\ live \ live' \subseteq given
    /\ Leased' \subseteq live'
    /\ UNCHANGED stopped

\* An object nobody leases disappears later, when its connection is dropped.
Reclaim(p) ==
    /\ ~stopped
    /\ p \in live \ Leased
    /\ live' = live \ {p}
    /\ UNCHANGED <<held, stopped>>

Stop ==
    /\ ~stopped
    /\ Leased = {}
    /\ stopped' = TRUE
    /\ UNCHANGED <<held, live>>

LeaseNext ==
    \/ \E s \in Senders, p \in ObjectPaths : Acquire(s, p)
    \/ \E s \in Senders, given \in SUBSET ObjectPaths : Release(s, given)
    \/ \E p \in ObjectPaths : Reclaim(p)
    \/ Stop

LeaseSpec == LeaseInit /\ [][LeaseNext]_leaseVars
=============================================================================
