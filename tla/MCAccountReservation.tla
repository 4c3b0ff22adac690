------------------------ MODULE MCAccountReservation ------------------------
(***************************************************************************)
(* Instances of AccountReservation for TLC.                                *)
(***************************************************************************)
EXTENDS AccountReservation, TLC

CONSTANTS r1, r2, r3, p1, p2

\* r1 and r2 are requests of one process, r3 one of another.
MCOwner == [r \in Rids |-> IF r = r3 THEN p2 ELSE p1]

\* All requests belong to one process.
MCOneOwner == [r \in Rids |-> p1]

\* A short window and a calendar one; the day is three short windows long.
MCWinLen == [m \in Metrics |-> IF m \in DayMetrics THEN 3 ELSE 1]

\* A day of five short windows, so that the grace of a short one ends within it.
MCLongDay == [m \in Metrics |-> IF m \in DayMetrics THEN 5 ELSE 1]

\* One request per window.
MCOneEach == [m \in Metrics |-> 1]

\* An account whose quotas are not reached.
MCLooseLimit == [m \in Metrics |-> 99]

\* The requests of one process are interchangeable.
MCSymmetry == Permutations({r1, r2})
=============================================================================
