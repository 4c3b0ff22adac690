------------------------------ MODULE MCRequest ------------------------------
(***************************************************************************)
(* The way of a request through the gateway, in its two halves: the        *)
(* attempts of one request, for which the choice of an account is a free   *)
(* one, and the requests of a process that choose and reserve accounts.    *)
(* The halves are checked side by side: a behaviour is one of one of them, *)
(* named by `part'.                                                        *)
(***************************************************************************)
EXTENDS ChatAttempts

CONSTANTS
    g1, g2, a1, a2, m1, m2,
    Requests, Models, Lists, Limit, MaxResends, MaxBreaks

VARIABLES
    part,
    kind, lists, at, node, remaining, attempts, choice, testing, unsure, isTest, lastRoute,
    inFlight, slots, strays, counted, recorded, unanswered, pending, sentWith, resends, breaks

Selection == INSTANCE CandidateSelection WITH pc <- at, cand <- choice

ASSUME ListsAssumption == Selection!SelectionAssumption

selectionVars == <<kind, lists, at, node, remaining, attempts, choice, testing, unsure, isTest,
                   lastRoute, inFlight, slots, strays, counted, recorded, unanswered, pending,
                   sentWith, resends, breaks>>
partVars == <<part, vars, selectionVars>>

Request(s, b, k) == [stream |-> s, buffered |-> b, kind |-> k]

\* Streams, with and without interception, plain answers, tests and probes.
AllModes == {Request(TRUE, FALSE, "normal"), Request(TRUE, TRUE, "normal"),
             Request(FALSE, FALSE, "normal"), Request(TRUE, FALSE, "test"),
             Request(FALSE, FALSE, "probe")}

C(a, m) == [account |-> a, model |-> m]

\* A scheme with two accounts and two models and a backup scheme; one model of one
\* account.
TwoLists == {<<{C(a1, m1), C(a1, m2), C(a2, m1)}, {C(a1, m1), C(a2, m2)}>>,
             <<{C(a1, m1)}>>}

-----------------------------------------------------------------------------

\* Two requests differ in nothing but their kind and their lists: of two initial
\* states that are equal but for their names one is enough.
InOrder ==
    \A r, s \in Requests :
        r < s => /\ kind[s] = "normal" => kind[r] = "normal"
                 /\ kind[r] = kind[s] => Len(lists[r]) >= Len(lists[s])

\* The half that a behaviour is not about stays in some initial state.
MCInit ==
    /\ part \in {"chat", "selection"}
    /\ Init /\ Selection!Init
    /\ part # "chat" => mode = CHOOSE m \in Modes : TRUE
    /\ part # "chat" => backup = [g \in Groups |-> NoGroup]
    /\ part # "selection" => kind = [r \in Requests |-> "normal"]
    /\ part # "selection" => lists = [r \in Requests |-> CHOOSE l \in Lists : TRUE]
    /\ InOrder

InChat == part = "chat" /\ UNCHANGED <<part, selectionVars>>
InSelection == part = "selection" /\ UNCHANGED <<part, vars>>

MCNext == (InChat /\ Next) \/ (InSelection /\ Selection!Next)

\* The fairness of both halves.
MCSpec ==
    /\ MCInit /\ [][MCNext]_partVars
    /\ WF_partVars(InChat /\ Progress)
    /\ \A r \in Requests : WF_partVars(InSelection /\ Selection!Step(r))

-----------------------------------------------------------------------------
(* The properties of the second half; the module says what they are about. *)

\* Selection is exact and bounded (SelectionExact of CandidateSelection).
SelectionExact == Selection!SelectionExact

\* Requests that share an account object (SharedAccount of CandidateSelection).
SharedAccount == Selection!SharedAccount

\* The request ends, also when the catalogue has a cycle of backups, and every
\* selection ends (Termination of both modules).
Terminates ==
    /\ part = "chat" => Termination
    /\ part = "selection" => Selection!Termination
=============================================================================
