------------------------- MODULE CandidateSelection -------------------------
(***************************************************************************)
(* How the requests of one process find and reserve a candidate            *)
(* (src/server/rate_limiter.py, ModelClientPool): the candidate lists of a *)
(* request (the schemes of a model, the entries of a dedicated route, the  *)
(* members of a group) are worked off one after the other, a strategy      *)
(* picks from the list, and the pick is reserved through the AccountClient *)
(* object that all requests share.                                         *)
(*                                                                         *)
(* A step ends where a request waits: for the channel's message check and  *)
(* the reserve script (one wait here; AccountReservation has the script    *)
(* itself), for record_message, and for the upstream.  A script that is    *)
(* not answered may take a slot all the same, until it is cleaned up.  The *)
(* account lock is never held across a wait.                               *)
(***************************************************************************)
EXTENDS Integers, Sequences, FiniteSets

CONSTANTS
    Requests,    \* requests of the process
    Accounts,    \* accounts, with a concurrency limit
    Models,      \* models a group may route to
    Lists,       \* what a request may have to choose from: sequences of candidate sets
    Limit,       \* concurrent_limit
    MaxResends,  \* bound: inner retries of a request
    MaxBreaks    \* bound: cancellations and failures of record_message

Candidate == [account : Accounts, model : Models]

\* What the constants stand for.
SelectionAssumption ==
    /\ IsFiniteSet(Requests)
    /\ Lists \subseteq Seq(SUBSET Candidate)
    /\ \A l \in Lists : \A i \in DOMAIN l : IsFiniteSet(l[i])
    /\ Limit \in Nat \ {0} /\ MaxResends \in Nat /\ MaxBreaks \in Nat

VARIABLES
    kind,       \* "normal" or "test"; a probe reserves like a test
    lists,      \* the candidate lists of a request
    pc,         \* where it is
    node,       \* number of the list it works on
    remaining,  \* remaining
    attempts,   \* selection_attempts
    cand,       \* the candidate it reserves or uses
    testing,    \* is_test of acquire_account
    unsure,     \* reserve_uncertain of the routing scope
    isTest,     \* account_client._is_test
    lastRoute,  \* account_client.last_route_info
    inFlight,   \* account_client._in_flight
    slots,      \* the account's ZSET in Redis: what requests hold
    strays,     \* the rest of it: slots no request knows it has
    counted,    \* requests on the request and token ledgers in Redis
    recorded,   \* requests on the channel's message ledger
    unanswered, \* reserve scripts of a request that were not answered
    pending,    \* account for which such a script may still be carried out
    sentWith,   \* candidates whose parameters a request was sent with
    resends, breaks   \* bookkeeping of the bounds

account_client == <<isTest, lastRoute, inFlight>>
ledgers == <<slots, strays, counted, recorded>>
loop == <<node, remaining, attempts>>
history == <<unanswered, pending, sentWith, resends, breaks>>
vars == <<kind, lists, pc, loop, cand, testing, unsure, account_client, ledgers, history>>

Nothing == [account |-> "none"]
IsTesting(r) == kind[r] = "test"

-----------------------------------------------------------------------------
(* The loop over the candidate lists *)

\* A list is taken up; without another one the request has no account.
Collect(r) ==
    /\ pc[r] = "collect"
    /\ node' = [node EXCEPT ![r] = @ + 1]
    /\ IF node[r] = Len(lists[r])
       THEN pc' = [pc EXCEPT ![r] = "none"] /\ UNCHANGED <<remaining, attempts>>
       ELSE /\ remaining' = [remaining EXCEPT ![r] = lists[r][node[r] + 1]]
            /\ attempts' = [attempts EXCEPT ![r] = 0]
            /\ pc' = [pc EXCEPT ![r] = "select"]
    /\ UNCHANGED <<kind, lists, cand, testing, unsure, account_client, ledgers, history>>

\* max_selection_attempts
MaxAttempts(r) == Cardinality(lists[r][node[r]])

\* The loop ends: nothing is left, the attempts or the time are used up, or the
\* strategy wants none of the candidates.  Time and strategy do not stop a test.
GiveUp(r) ==
    /\ pc[r] = "select"
    /\ \/ remaining[r] = {} \/ attempts[r] >= MaxAttempts(r)
       \/ ~IsTesting(r)
    /\ pc' = [pc EXCEPT ![r] = "collect"]
    /\ UNCHANGED <<kind, lists, loop, cand, testing, unsure, account_client, ledgers,
                   history>>

\* The strategy picks c; _try_reserve marks the account and asks for a slot.
Pick(r, c) ==
    /\ pc[r] = "select"
    /\ c \in remaining[r] /\ attempts[r] < MaxAttempts(r)
    /\ attempts' = [attempts EXCEPT ![r] = @ + 1]
    /\ cand' = [cand EXCEPT ![r] = c]
    /\ isTest' = [isTest EXCEPT ![c.account] = IsTesting(r)]
    /\ testing' = [testing EXCEPT ![r] = IsTesting(r)]
    /\ pc' = [pc EXCEPT ![r] = "reserve"]
    /\ UNCHANGED <<kind, lists, node, remaining, unsure, lastRoute, inFlight, ledgers,
                   history>>

\* What is left after c was refused: a freeze of the account for the model takes
\* out that pair, any other reason the account.
Without(R, c, reason) ==
    {d \in R : d.account # c.account \/ (reason = "accountModel" /\ d.model # c.model)}

\* After a script that was not answered no other one is sent.
Asks(r) == ~unsure[r]

\* Members of the ZSET.
Taken(a) == Cardinality(slots[a]) + Cardinality(strays[a])

\* Why a reservation may be refused: for an account's freeze of the model, for
\* anything else that is checked before the script ("account"), or for want of a
\* slot.  A test is only refused a slot.
Refusable(r, reason) ==
    \/ reason \in {"account", "accountModel"} /\ ~testing[r]
    \/ reason = "concurrent" /\ Asks(r) /\ Taken(cand[r].account) >= Limit

\* reserve_with_decision returns no lease.
Refuse(r, reason) ==
    /\ pc[r] = "reserve"
    /\ Refusable(r, reason)
    /\ isTest' = [isTest EXCEPT ![cand[r].account] = FALSE]
    /\ remaining' = [remaining EXCEPT ![r] = Without(@, cand[r], reason)]
    /\ pc' = [pc EXCEPT ![r] = "select"]
    /\ UNCHANGED <<kind, lists, node, attempts, cand, testing, unsure, lastRoute, inFlight,
                   ledgers, history>>

\* The request no longer waits for the script, if one was sent.
Unanswered(r) ==
    /\ unanswered' = [unanswered EXCEPT ![r] = IF Asks(r) THEN @ + 1 ELSE @]
    /\ pending' = [pending EXCEPT ![r] = IF Asks(r) THEN cand[r].account ELSE @]

\* The script misses its deadline, or is not sent at all.
Uncertain(r) ==
    /\ pc[r] = "reserve"
    /\ unsure' = [unsure EXCEPT ![r] = TRUE]
    /\ Unanswered(r)
    /\ isTest' = [isTest EXCEPT ![cand[r].account] = FALSE]
    /\ remaining' = [remaining EXCEPT ![r] = Without(@, cand[r], "account")]
    /\ pc' = [pc EXCEPT ![r] = "select"]
    /\ UNCHANGED <<kind, lists, node, attempts, cand, testing, lastRoute, inFlight, ledgers,
                   sentWith, resends, breaks>>

\* A script that nobody waits for is carried out.
Land(r) ==
    /\ pending[r] # "none" /\ Taken(pending[r]) < Limit
    /\ strays' = [strays EXCEPT ![pending[r]] = @ \cup {r}]
    /\ counted' = IF IsTesting(r) THEN counted ELSE counted \cup {r}
    /\ pending' = [pending EXCEPT ![r] = "none"]
    /\ UNCHANGED <<kind, lists, pc, loop, cand, testing, unsure, account_client, slots, recorded,
                   unanswered, sentWith, resends, breaks>>

\* The scheduled cleanup, the reaper or the expiry takes back what it did.
CleanUp(r, a) ==
    /\ r \in strays[a]
    /\ strays' = [strays EXCEPT ![a] = @ \ {r}]
    /\ counted' = counted \ {r}
    /\ UNCHANGED <<kind, lists, pc, loop, cand, testing, unsure, account_client, slots, recorded,
                   history>>

-----------------------------------------------------------------------------
(* A reservation that succeeds *)

\* The candidate is the request's own: the mark goes, and the request is sent
\* with the route information the account was given.
Use(r) ==
    /\ isTest' = [isTest EXCEPT ![cand[r].account] = FALSE]
    /\ lastRoute' = [lastRoute EXCEPT ![cand[r].account] = cand[r]]
    /\ sentWith' = [sentWith EXCEPT ![r] = @ \cup {cand[r]}]
    /\ pc' = [pc EXCEPT ![r] = "hold"]

\* Mutant: the mark of the account at the time of the script decides.
OnLedgerByMark(r) == ~isTest[cand[r].account]

\* acquire_account writes no ledgers for a test.
OnLedger(r) == ~testing[r]

\* The script grants a slot.  Whether the message is recorded depends on the mark
\* of the account at this moment.
Granted(r) ==
    /\ pc[r] = "reserve"
    /\ Asks(r)
    /\ Taken(cand[r].account) < Limit
    /\ slots' = [slots EXCEPT ![cand[r].account] = @ \cup {r}]
    /\ counted' = IF OnLedger(r) THEN counted \cup {r} ELSE counted
    /\ inFlight' = [inFlight EXCEPT ![cand[r].account] = @ + 1]
    /\ IF isTest[cand[r].account]
       THEN Use(r)
       ELSE pc' = [pc EXCEPT ![r] = "record"] /\ UNCHANGED <<isTest, lastRoute, sentWith>>
    /\ UNCHANGED <<kind, lists, loop, cand, testing, unsure, strays, recorded, unanswered,
                   pending, resends, breaks>>

\* record_message
Record(r) ==
    /\ pc[r] = "record"
    /\ recorded' = recorded \cup {r}
    /\ Use(r)
    /\ UNCHANGED <<kind, lists, loop, cand, testing, unsure, inFlight, slots, strays,
                   counted, unanswered, pending, resends, breaks>>

\* Mutant: the slot is left to expire.
DetachLocally(r) ==
    /\ inFlight' = [inFlight EXCEPT ![cand[r].account] = @ - 1]
    /\ UNCHANGED slots

\* detach_account_lease_locked and release_account_lease
Detach(r) ==
    /\ inFlight' = [inFlight EXCEPT ![cand[r].account] = @ - 1]
    /\ slots' = [slots EXCEPT ![cand[r].account] = @ \ {r}]

\* The channel's check or its record_message raises, or the request is cancelled
\* there, a script under way or not; a lease is given back.
Break(r, end) ==
    /\ breaks < MaxBreaks /\ breaks' = breaks + 1
    /\ pc[r] \in {"reserve", "record"}
    /\ IF pc[r] = "record" THEN Detach(r) ELSE UNCHANGED <<inFlight, slots>>
    /\ IF pc[r] = "reserve" /\ end = "cancelled" THEN Unanswered(r)
       ELSE UNCHANGED <<unanswered, pending>>
    /\ isTest' = [isTest EXCEPT ![cand[r].account] = FALSE]
    /\ pc' = [pc EXCEPT ![r] = end]
    /\ UNCHANGED <<kind, lists, loop, cand, testing, unsure, lastRoute, strays, counted, recorded,
                   sentWith, resends>>

-----------------------------------------------------------------------------
(* The candidate in use *)

\* An inner retry takes the route information from the account again.
Resend(r) ==
    /\ pc[r] = "hold"
    /\ resends[r] < MaxResends /\ resends' = [resends EXCEPT ![r] = @ + 1]
    /\ sentWith' = [sentWith EXCEPT ![r] = @ \cup {lastRoute[cand[r].account]}]
    /\ UNCHANGED <<kind, lists, pc, loop, cand, testing, unsure, account_client, ledgers,
                   unanswered, pending, breaks>>

\* The request has been answered and gives the slot back.
Finish(r) ==
    /\ pc[r] = "hold"
    /\ Detach(r)
    /\ pc' = [pc EXCEPT ![r] = "done"]
    /\ UNCHANGED <<kind, lists, loop, cand, testing, unsure, isTest, lastRoute, strays, counted,
                   recorded, history>>

Init ==
    /\ kind \in [Requests -> {"normal", "test"}]
    /\ lists \in [Requests -> Lists]
    /\ pc = [r \in Requests |-> "collect"] /\ node = [r \in Requests |-> 0]
    /\ remaining = [r \in Requests |-> {}] /\ attempts = [r \in Requests |-> 0]
    /\ cand = [r \in Requests |-> Nothing]
    /\ testing = [r \in Requests |-> FALSE] /\ unsure = [r \in Requests |-> FALSE]
    /\ isTest = [a \in Accounts |-> FALSE] /\ lastRoute = [a \in Accounts |-> Nothing]
    /\ inFlight = [a \in Accounts |-> 0]
    /\ slots = [a \in Accounts |-> {}] /\ strays = [a \in Accounts |-> {}]
    /\ counted = {} /\ recorded = {}
    /\ unanswered = [r \in Requests |-> 0] /\ pending = [r \in Requests |-> "none"]
    /\ sentWith = [r \in Requests |-> {}]
    /\ resends = [r \in Requests |-> 0] /\ breaks = 0

Step(r) ==
    \/ Collect(r) \/ GiveUp(r)
    \/ \E c \in remaining[r] : Pick(r, c)
    \/ \E reason \in {"account", "accountModel", "concurrent"} : Refuse(r, reason)
    \/ Uncertain(r) \/ Granted(r) \/ Record(r)
    \/ Finish(r)

Next ==
    \E r \in Requests :
        \/ Step(r)
        \/ \E end \in {"failed", "cancelled"} : Break(r, end)
        \/ Resend(r) \/ Land(r)
        \/ \E a \in Accounts : CleanUp(r, a)

Spec == Init /\ [][Next]_vars

\* Every wait has a time limit, the answer of the upstream too.
FairSpec == Spec /\ \A r \in Requests : WF_vars(Step(r))

-----------------------------------------------------------------------------
(* Properties *)

TypeOK ==
    /\ kind \in [Requests -> {"normal", "test"}]
    /\ lists \in [Requests -> Lists]
    /\ pc \in [Requests -> {"collect", "select", "reserve", "record", "hold", "done",
                            "none", "failed", "cancelled"}]
    /\ node \in [Requests -> Nat] /\ attempts \in [Requests -> Nat]
    /\ remaining \in [Requests -> SUBSET Candidate]
    /\ cand \in [Requests -> Candidate \cup {Nothing}]
    /\ testing \in [Requests -> BOOLEAN] /\ unsure \in [Requests -> BOOLEAN]
    /\ isTest \in [Accounts -> BOOLEAN]
    /\ lastRoute \in [Accounts -> Candidate \cup {Nothing}]
    /\ inFlight \in [Accounts -> Nat]
    /\ slots \in [Accounts -> SUBSET Requests] /\ strays \in [Accounts -> SUBSET Requests]
    /\ counted \subseteq Requests /\ recorded \subseteq Requests
    /\ unanswered \in [Requests -> Nat] /\ pending \in [Requests -> Accounts \cup {"none"}]
    /\ sentWith \in [Requests -> SUBSET (Candidate \cup {Nothing})]
    /\ resends \in [Requests -> 0..MaxResends] /\ breaks \in 0..MaxBreaks

\* Requests that have a lease of the account.
Holders(a) == {r \in Requests : pc[r] \in {"record", "hold"} /\ cand[r].account = a}

\* However selections fail, break off or are refused, an account has a slot held
\* for exactly the requests that are on it, and counts that many in flight.
SlotsOfHolders ==
    \A a \in Accounts : slots[a] = Holders(a) /\ inFlight[a] = Cardinality(Holders(a))

\* The ledgers of the account count real traffic and never a test, although both
\* go through the same account object at the same time.
CountedAsKind ==
    /\ \A r \in counted : kind[r] = "normal"
    /\ \A r \in Requests : pc[r] = "hold" /\ kind[r] = "normal" => r \in counted

\* Every refusal shortens the list: the cap on the attempts is never what ends it.
ListShrinks ==
    \A r \in Requests : pc[r] = "select" /\ remaining[r] # {} => attempts[r] < MaxAttempts(r)

\* A selection leaves at most one reserve script unanswered, over all its lists,
\* so that it has at most one slot that it does not know of, on one account, and
\* then no other.
OneUncertain ==
    /\ \A r \in Requests : unanswered[r] <= 1
    /\ \A a \in Accounts : \A r \in strays[a] :
          \A b \in Accounts : r \notin slots[b] /\ (r \in strays[b] => b = a)

\* Selection under contention is exact and bounded (_select_and_reserve_candidates):
\* the slots that requests hold are those of the requests on an account, every
\* refusal brings a selection nearer to its end, and what scripts take that were
\* not answered, or whose request was cancelled, is at most one slot per request.
SelectionExact == TypeOK /\ SlotsOfHolders /\ ListShrinks /\ OneUncertain

\* The message ledger of the channel has the requests that are real traffic,
\* unless a test was choosing while another request was: the mark of an account
\* is cleared by whoever returns first, and read again after an await.
RecordedAsKind ==
    \A r \in Requests : pc[r] = "hold" =>
        \/ r \in recorded <=> kind[r] = "normal"
        \/ \E q \in Requests \ {r} : cand[q] # Nothing /\ "test" \in {kind[q], kind[r]}

\* A request that is sent again to its candidate is sent with the same
\* parameters, unless another request has used the account for another model
\* since: the parameters are kept on the account.
OwnRoute ==
    \A r \in Requests : \A c \in sentWith[r] \ {cand[r]} :
        \E q \in Requests \ {r} : pc[q] \in {"hold", "done"} /\ cand[q] = c

\* Requests that share an account object do not take each other's marks and
\* parameters for their own (AccountClient._is_test and last_route_info), but for
\* the two cases that the parts name.
SharedAccount == CountedAsKind /\ RecordedAsKind /\ OwnRoute

\* Every selection comes to an end and every slot is given back.
Ends == {"done", "none", "failed", "cancelled"}
Termination == <>(\A r \in Requests : pc[r] \in Ends)

=============================================================================
