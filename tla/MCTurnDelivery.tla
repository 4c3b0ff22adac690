--------------------------- MODULE MCTurnDelivery ---------------------------
(***************************************************************************)
(* An instance of TurnDelivery with two API processes for TLC.             *)
(***************************************************************************)
EXTENDS TurnDelivery, FiniteSets

CONSTANTS s1, s2, create, recover, p1, p2

TwoProcesses == [a \in Actors |-> IF a = s2 THEN p2 ELSE p1]
Pairs == {crew \in SUBSET Actors : Cardinality(crew) = 2}
SendersAndCreator == {{s1, s2, create}}
=============================================================================
