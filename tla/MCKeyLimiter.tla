---------------------------- MODULE MCKeyLimiter ----------------------------
(***************************************************************************)
(* Instances of KeyLimiter: a request window of fixed length and a token   *)
(* window that ends at midnight.                                           *)
(***************************************************************************)
EXTENDS KeyLimiter

CONSTANTS r1, r2, p1, p2

MCRequestFields == <<"rpm">>
MCTokenFields == <<"tpd">>
MCLimit == [f \in {"rpm", "tpd"} |-> IF f = "rpm" THEN 2 ELSE 1]
MCWindow == [f \in {"rpm", "tpd"} |-> IF f = "rpm" THEN 1 ELSE 2]
MCCalendar == {"tpd"}

=============================================================================
