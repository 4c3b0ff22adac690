---------------------------- MODULE AccountSlots ----------------------------
(***************************************************************************)
(* What concurrent_limit promises, with Redis, clocks, processes and       *)
(* messages left out: an account has Capacity slots, `holders` occupy      *)
(* them, and the requests in service are among the holders.                *)
(*                                                                         *)
(* AccountReservation implements this, with the members of the ZSET as     *)
(* holders and the unexpired leases of all processes as those in service.  *)
(***************************************************************************)
EXTENDS Naturals, FiniteSets

CONSTANTS Ids, Capacity

VARIABLES holders, serving

Init == holders = {} /\ serving = {}

\* A slot is granted if one is free once slots that nobody is served on are
\* reclaimed; a request in service is never evicted.  The grant may be one
\* that its request does not learn of.
Grant(r) ==
    \E kept \in SUBSET holders :
        /\ serving \subseteq kept
        /\ Cardinality(kept) < Capacity
        /\ holders' = kept \cup {r}
        /\ serving' \in {serving, serving \cup {r}}

\* A request whose lease had run out goes on with the slot it still holds.
Resume(r) ==
    /\ r \in holders
    /\ serving' = serving \cup {r}
    /\ UNCHANGED holders

\* Requests end, leases run out, slots are given back or reclaimed; whoever is
\* still served keeps its slot.
Drop ==
    /\ holders' \in SUBSET holders
    /\ serving' \in SUBSET (serving \cap holders')

Next == Drop \/ \E r \in Ids : Grant(r) \/ Resume(r)

Spec == Init /\ [][Next]_<<holders, serving>>

=============================================================================
