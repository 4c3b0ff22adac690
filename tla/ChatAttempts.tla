---------------------------- MODULE ChatAttempts ----------------------------
(***************************************************************************)
(* One client request on its way through the gateway (src/main.py):        *)
(* _run_group_fallback_pipeline walks the model group and its backups,     *)
(* _chat_with_retry_for_model tries up to Attempts candidates of a group   *)
(* and sends up to InnerLimit requests to each of them, holding a          *)
(* reservation of the candidate's account and one row of the request log   *)
(* per candidate.                                                          *)
(*                                                                         *)
(* Both functions are asynchronous generators.  A step ends where they     *)
(* wait or yield output, and there the request can be cancelled or the     *)
(* generator closed; the check of the API key works in memory, and whoever *)
(* consumes them takes route information without a pause.  The reservation *)
(* handle is abstracted to what it has done to the ledger and the slot;    *)
(* AccountReservation models it with the failures of Redis, and what       *)
(* becomes of a slot that is not released.  A provider that streams gives  *)
(* at least one chunk or fails.                                            *)
(***************************************************************************)
EXTENDS Integers, Sequences, FiniteSets

CONSTANTS
    Groups,      \* model groups
    Main,        \* the group the client asks for
    NoGroup,     \* no backup group
    Accounts,    \* accounts, the same for every group
    Attempts,    \* retry.max_retries + 1
    Inner,       \* the provider's retry_count + 1
    Modes,       \* the requests: [stream, buffered, kind]
    KeyStates,   \* what a check of the API key may find: "ok", "bad"
    MaxCancels,  \* bound: cancellations
    MaxUpdates   \* bound: changes of the catalogue

ASSUME ChatAssumption ==
    /\ Main \in Groups /\ NoGroup \notin Groups /\ IsFiniteSet(Groups)
    /\ Attempts \in Nat \ {0} /\ Inner \in Nat \ {0}
    /\ \A m \in Modes : m.stream \in BOOLEAN /\ m.buffered \in BOOLEAN
                        /\ m.kind \in {"normal", "test", "probe"}
    /\ KeyStates \subseteq {"ok", "bad"}
    /\ MaxCancels \in Nat /\ MaxUpdates \in Nat

\* How an attempt fails: a request that no account can serve ("client"), 429 and
\* 5xx ("busy"), other HTTP errors ("refused"), network and timeout
\* ("transient"), an incomplete stream ("incomplete"), an empty answer
\* ("empty"), any other exception ("bug").
Failures == {"client", "busy", "refused", "transient", "incomplete", "empty", "bug"}

\* Candidates of the request, numbered in the order they were selected.
Candidates == 1..(Attempts * Cardinality(Groups))

VARIABLES
    mode,      \* the request: stream, output interception on, test or probe
    backup,    \* catalogue: backup_group of every group
    group,     \* current_model of the pipeline
    visited,   \* visited
    pc,        \* where the request is
    next,      \* where it goes after the finally clause
    outer,     \* outer_index
    inner,     \* inner_index
    limit,     \* inner_limit, of the last candidate
    reuse,     \* reuse_candidate
    tried,     \* tried_accounts
    cand,      \* number of the last candidate
    account,   \* its account
    handle,    \* candidate_reservation: "none", "open", "settled"
    sent,      \* downstream_started
    logged,    \* attempt_logged
    slot,      \* concurrency slot of every candidate: "free", "held"
    ledger,    \* usage of every candidate: "none", "open", "kept", "undone"
    cut,       \* candidates whose clean-up a cancellation broke off
    started,   \* candidates with a started row in the request log
    finals,    \* status of the finalised rows of every candidate
    penalised, \* candidates whose failure was put on the account
    answered,  \* candidates whose output reached the client
    calls,     \* requests sent upstream
    cancels, updates  \* bookkeeping of the bounds

reservations == <<handle, slot, ledger, cut>>
logs == <<logged, started, finals>>
loop == <<outer, inner, limit, reuse, tried, cand, account>>
catalogue == <<backup, group, visited, updates>>
history == <<penalised, answered, calls>>
vars == <<mode, catalogue, pc, next, loop, reservations, sent, logs, history, cancels>>

\* Tests and probes try one candidate, once.
Single == mode.kind # "normal"
TotalAttempts == IF Single THEN 1 ELSE Attempts
InnerLimit == IF Single THEN 1 ELSE Inner

Go(place) == pc' = place /\ UNCHANGED next

\* Mutant: reuse_candidate is still set, and the finally clause keeps the
\* reservation of a candidate that is given up.
ThenFinallyUnlessRetry(place) ==
    IF place = "recheck" THEN Go(place) ELSE pc' = "finally" /\ next' = place

ThenFinally(place) == pc' = "finally" /\ next' = place

\* _finalize_channel_attempt_log does nothing without a candidate.
Finalize(status) ==
    finals' = IF handle = "none" THEN finals
              ELSE [finals EXCEPT ![cand] = Append(@, status)]

-----------------------------------------------------------------------------
(* _run_group_fallback_pipeline *)

\* The next group is taken up, unless it was before.
Resolve ==
    /\ pc = "resolve"
    /\ IF group \in visited
       THEN Go("noAccount") /\ UNCHANGED <<visited, loop>>
       ELSE /\ visited' = visited \cup {group}
            /\ outer' = 0 /\ inner' = 0 /\ limit' = 1
            /\ reuse' = FALSE /\ tried' = {}
            /\ Go("recheck")
            /\ UNCHANGED <<cand, account>>
    /\ UNCHANGED <<mode, backup, group, updates, reservations, sent, logs, history,
                   cancels>>

\* Mutant: the backup is taken without a look at the groups that were tried.
FallbackAnyway ==
    /\ pc = "fallback"
    /\ IF backup[group] = NoGroup
       THEN Go("noAccount") /\ UNCHANGED <<group, visited>>
       ELSE group' = backup[group] /\ visited' = {} /\ Go("resolve")
    /\ UNCHANGED <<mode, backup, updates, loop, reservations, sent, logs, history,
                   cancels>>

\* No account was available: one step along the chain of the newest catalogue.
Fallback ==
    /\ pc = "fallback"
    /\ IF backup[group] \in visited \cup {NoGroup}
       THEN Go("noAccount") /\ UNCHANGED group
       ELSE group' = backup[group] /\ Go("resolve")
    /\ UNCHANGED <<mode, backup, visited, updates, loop, reservations, sent, logs,
                   history, cancels>>

\* The catalogue is replaced by another one.
UpdateCatalogue ==
    /\ updates < MaxUpdates /\ updates' = updates + 1
    /\ \E b \in [Groups -> Groups \cup {NoGroup}] : b # backup /\ backup' = b
    /\ UNCHANGED <<mode, group, visited, pc, next, loop, reservations, sent, logs,
                   history, cancels>>

-----------------------------------------------------------------------------
(* The body of the loop *)

\* The request goes upstream; a candidate's first one writes the started row.
Send ==
    /\ calls' = calls + 1 /\ sent' = FALSE
    /\ started' = started \cup {cand}
    /\ Go("call")

\* _recheck_api_key_state, outside of the try statement.  A candidate that is
\* used again is called at once; there may be none, when it was a selection that
\* failed and the candidate before it had requests left.
Recheck(key) ==
    /\ pc = "recheck"
    /\ key = "bad" => mode.kind = "normal"
    /\ logged' = FALSE
    /\ CASE key = "bad" -> /\ Go("keyError")
                           /\ UNCHANGED <<reuse, sent, calls, started>>
         [] key = "ok" /\ reuse /\ handle # "none" -> reuse' = FALSE /\ Send
         [] key = "ok" /\ reuse /\ handle = "none" ->
                /\ reuse' = FALSE /\ Go("orphan") /\ UNCHANGED <<sent, calls, started>>
         [] OTHER -> Go("select") /\ UNCHANGED <<reuse, sent, calls, started>>
    /\ UNCHANGED <<mode, catalogue, outer, inner, limit, tried, cand, account,
                   reservations, finals, penalised, answered, cancels>>

\* acquire_client_with_provider reserves an account that was not tried.
Select(a) ==
    /\ pc = "select"
    /\ a \notin tried
    /\ cand' = cand + 1 /\ account' = a /\ inner' = 0 /\ limit' = InnerLimit
    /\ handle' = "open"
    /\ slot' = [slot EXCEPT ![cand + 1] = "held"]
    /\ ledger' = [ledger EXCEPT ![cand + 1] = "open"]
    /\ Go("prepare")
    /\ UNCHANGED <<mode, catalogue, outer, reuse, tried, cut, sent, logs, history,
                   cancels>>

\* NoAvailableAccountError; the finally clause finds no reservation.
SelectNothing ==
    /\ pc = "select"
    /\ Go("fallback")
    /\ UNCHANGED <<mode, catalogue, loop, reservations, sent, logs, history,
                   cancels>>

\* The identities of the model and its default parameters are known.
Prepare ==
    /\ pc = "prepare"
    /\ Send
    /\ UNCHANGED <<mode, catalogue, loop, reservations, logged, finals, penalised,
                   answered, cancels>>

\* A chunk goes to the client as it arrives, unless output is intercepted.
Chunk ==
    /\ pc = "call" /\ mode.stream /\ ~mode.buffered /\ ~sent
    /\ sent' = TRUE /\ answered' = answered \cup {cand}
    /\ UNCHANGED <<mode, catalogue, pc, next, loop, reservations, logs, penalised, calls,
                   cancels>>

\* The upstream is done; what was held back goes out.
Flush ==
    /\ pc = "call" /\ mode.stream /\ mode.buffered /\ ~sent
    /\ sent' = TRUE /\ answered' = answered \cup {cand}
    /\ Go("flush")
    /\ UNCHANGED <<mode, catalogue, loop, reservations, logs, penalised, calls,
                   cancels>>

\* The answer is complete.
Complete ==
    /\ \/ pc = "call" /\ (mode.stream => sent)
       \/ pc = "flush"
    /\ logged' = TRUE /\ Finalize("ok")
    /\ Go("commit")
    /\ UNCHANGED <<mode, catalogue, loop, reservations, sent, started, history, cancels>>

\* CandidateReservation._settle
Settle ==
    /\ handle' = "settled"
    /\ ledger' = [ledger EXCEPT ![cand] = "kept"]
    /\ UNCHANGED <<slot, cut>>

\* candidate_reservation.commit, and the return; an answer that is not a stream
\* goes to the client only now.
Commit ==
    /\ pc = "commit"
    /\ Settle /\ ThenFinally("ok")
    /\ answered' = answered \cup {cand}
    /\ UNCHANGED <<mode, catalogue, loop, sent, logs, penalised, calls, cancels>>

-----------------------------------------------------------------------------
(* Failures *)

\* Mutant: an attempt that has begun to answer is retried like any other.
RetryableAlways(kind) == kind \in {"busy", "refused", "transient", "incomplete", "empty"}

\* classify_failure, after its tests for output and for a client error.
Retryable(kind) == ~sent /\ RetryableAlways(kind)

\* _should_inner_retry and classify_inner_retry
InnerRetry(kind) == ~sent /\ kind \in {"busy", "transient"} /\ inner < limit - 1

\* _handle_attempt_failure excludes and freezes a candidate's account once no
\* further request to it follows, and never in a test.  The statistics of the
\* channel, which count every failed request, are left out.
Penalise(kind) ==
    IF mode.kind = "test" \/ handle = "none" \/ InnerRetry(kind)
    THEN UNCHANGED <<tried, penalised>>
    ELSE /\ tried' = IF kind = "empty" /\ ~sent /\ outer < TotalAttempts - 1
                     THEN tried ELSE tried \cup {account}
         /\ penalised' = IF kind = "empty" THEN penalised ELSE penalised \cup {cand}

Same == UNCHANGED <<outer, inner, reuse>>

\* The except clause, up to its first await or yield.  Without a candidate there
\* is nothing to reuse, and an attribute of None is asked for.
Fail(kind) ==
    LET retry == Retryable(kind) /\ outer < TotalAttempts - 1
    IN  /\ \/ pc = "call"
           \/ pc = "prepare" /\ kind = "bug"
           \/ pc = "select" /\ kind \in {"refused", "transient", "bug"}
           \/ pc = "orphan" /\ kind = "bug"
        /\ kind = "incomplete" => mode.stream
        /\ kind = "empty" => ~mode.stream
        /\ logged' = TRUE
        /\ Penalise(kind)
        /\ \/ /\ sent
              /\ Go("keepError") /\ Same /\ UNCHANGED finals
           \/ /\ ~sent /\ kind = "client"
              /\ ThenFinally("clientError") /\ Same /\ Finalize("error")
           \/ /\ InnerRetry(kind)
              /\ Go("recheck") /\ inner' = inner + 1 /\ reuse' = TRUE
              /\ UNCHANGED <<outer, finals>>
           \/ /\ ~InnerRetry(kind) /\ retry
              /\ ThenFinally("recheck") /\ outer' = outer + 1 /\ Finalize("error")
              /\ UNCHANGED <<inner, reuse>>
           \/ /\ ~sent /\ kind # "client" /\ ~InnerRetry(kind) /\ ~retry
              /\ ThenFinally("exhausted") /\ Same /\ Finalize("error")
        /\ UNCHANGED <<mode, catalogue, limit, cand, account, reservations, sent, started,
                       answered, calls, cancels>>

\* STREAM_ERROR_AND_STOP: the usage is settled, then the row is finalised.
KeepError ==
    /\ pc = "keepError"
    /\ Settle /\ Finalize("error") /\ ThenFinally("streamError")
    /\ UNCHANGED <<mode, catalogue, loop, sent, logged, started, history,
                   cancels>>

-----------------------------------------------------------------------------
(* Cancellation and the finally clause *)

\* The row of a cancelled attempt, unless it is final already.
Cancelled ==
    IF logged THEN UNCHANGED <<logged, finals>>
    ELSE Finalize("cancelled") /\ logged' = TRUE

\* Output of the candidate has reached the client.
Served == sent /\ handle # "none"

\* The request is cancelled or the generator closed where it waits: in the try
\* statement, or in one of its except clauses, whose settlement is then broken
\* off.
Cancel ==
    /\ cancels < MaxCancels /\ cancels' = cancels + 1
    /\ \/ /\ pc \in {"select", "prepare", "call", "flush", "commit"}
          /\ Cancelled
          /\ IF Served THEN Go("keepCancel") ELSE ThenFinally("cancelled")
          /\ UNCHANGED cut
       \/ /\ pc \in {"keepError", "keepCancel"}
          /\ ThenFinally("cancelled") /\ UNCHANGED <<logged, finals>>
          /\ cut' = cut \cup {cand}
    /\ UNCHANGED <<mode, catalogue, loop, handle, slot, ledger, sent, started, history>>

\* A client that has received output and goes away pays for it.
KeepCancel ==
    /\ pc = "keepCancel"
    /\ Settle /\ ThenFinally("cancelled")
    /\ UNCHANGED <<mode, catalogue, loop, sent, logs, history, cancels>>

\* Mutant: usage that was settled is taken back.
FinallyRollback ==
    /\ pc = "finally"
    /\ pc' = next /\ UNCHANGED next
    /\ handle' = "none"
    /\ slot' = IF handle = "none" THEN slot ELSE [slot EXCEPT ![cand] = "free"]
    /\ ledger' = IF handle = "none" THEN ledger ELSE [ledger EXCEPT ![cand] = "undone"]
    /\ UNCHANGED <<mode, catalogue, loop, cut, sent, logs, history, cancels>>

\* The finally clause of a candidate that is not used again: release if the
\* usage was settled, rollback otherwise.
Finally ==
    /\ pc = "finally"
    /\ pc' = next /\ UNCHANGED next
    /\ handle' = "none"
    /\ slot' = IF handle = "none" THEN slot ELSE [slot EXCEPT ![cand] = "free"]
    /\ ledger' = IF handle = "open" THEN [ledger EXCEPT ![cand] = "undone"] ELSE ledger
    /\ UNCHANGED <<mode, catalogue, loop, cut, sent, logs, history, cancels>>

\* The request is cancelled while the finally clause waits for Redis.  rollback
\* catches Exception only, so a cancellation leaves it before the concurrency is
\* released, and nobody calls it again; the command it waited for may have been
\* carried out or not.
CutFinally ==
    /\ pc = "finally" /\ handle # "none"
    /\ cancels < MaxCancels /\ cancels' = cancels + 1
    /\ Go("cancelled")
    /\ handle' = "none"
    /\ ledger' \in {ledger, IF handle = "open" THEN [ledger EXCEPT ![cand] = "undone"] ELSE ledger}
    /\ slot' \in {slot, [slot EXCEPT ![cand] = "free"]}
    /\ slot' # slot => ledger'[cand] # "open"
    /\ cut' = cut \cup {cand}
    /\ UNCHANGED <<mode, catalogue, loop, sent, logs, history>>

Ends == {"ok", "clientError", "streamError", "keyError", "exhausted", "noAccount",
         "cancelled"}
Done == pc \in Ends

Init ==
    /\ mode \in Modes
    /\ backup \in [Groups -> Groups \cup {NoGroup}]
    /\ group = Main /\ visited = {} /\ updates = 0
    /\ pc = "resolve" /\ next = "none"
    /\ outer = 0 /\ inner = 0 /\ limit = 1 /\ reuse = FALSE /\ tried = {}
    /\ cand = 0 /\ account = "none"
    /\ handle = "none" /\ sent = FALSE /\ logged = FALSE
    /\ slot = [n \in Candidates |-> "free"] /\ ledger = [n \in Candidates |-> "none"]
    /\ cut = {}
    /\ started = {} /\ finals = [n \in Candidates |-> <<>>]
    /\ penalised = {} /\ answered = {} /\ calls = 0
    /\ cancels = 0

Progress ==
    \/ Resolve \/ Fallback
    \/ \E key \in KeyStates : Recheck(key)
    \/ \E a \in Accounts : Select(a)
    \/ SelectNothing \/ Prepare \/ Chunk \/ Flush \/ Complete \/ Commit
    \/ \E kind \in Failures : Fail(kind)
    \/ KeepError \/ KeepCancel \/ Finally

Next == Progress \/ Cancel \/ CutFinally \/ UpdateCatalogue

Spec == Init /\ [][Next]_vars

\* Selection and the upstream answer or time out, and the event loop goes on.
FairSpec == Spec /\ WF_vars(Progress)

-----------------------------------------------------------------------------
(* Properties *)

TypeOK ==
    /\ mode \in Modes
    /\ backup \in [Groups -> Groups \cup {NoGroup}]
    /\ group \in Groups /\ visited \subseteq Groups /\ updates \in 0..MaxUpdates
    /\ pc \in Ends \cup {"resolve", "fallback", "recheck", "select", "prepare", "call",
                         "flush", "commit", "keepError", "keepCancel", "orphan", "finally"}
    /\ outer \in 0..(Attempts - 1) /\ inner \in 0..(Inner - 1) /\ limit \in 1..Inner
    /\ reuse \in BOOLEAN
    /\ tried \subseteq Accounts
    /\ cand \in 0..(Attempts * Cardinality(Groups)) /\ account \in Accounts \cup {"none"}
    /\ handle \in {"none", "open", "settled"} /\ sent \in BOOLEAN /\ logged \in BOOLEAN
    /\ slot \in [Candidates -> {"free", "held"}]
    /\ ledger \in [Candidates -> {"none", "open", "kept", "undone"}]
    /\ cut \subseteq Candidates /\ started \subseteq Candidates
    /\ finals \in [Candidates -> Seq({"ok", "error", "cancelled"})]
    /\ penalised \subseteq Candidates /\ answered \subseteq Candidates
    /\ calls \in Nat /\ cancels \in 0..MaxCancels

\* Nothing is sent upstream again once output of an earlier request has reached
\* the client: no inner retry, no other candidate, no backup group.
NoReplay == [][calls' # calls => answered = {}]_vars

\* A request holds one account's slot at a time, and holds it whenever it waits
\* for that account's answer, over all inner retries.
OneSlot ==
    /\ \A n \in Candidates : slot[n] = "held" => n = cand
    /\ pc \in {"call", "flush", "commit"} => slot[cand] = "held"

\* Usage stays on the ledger only for a candidate whose output went out.
NotChargedUnserved == \A n \in Candidates : ledger[n] = "kept" => n \in answered

\* A row of the request log is finalised at most once, and "ok" only for a
\* complete answer; the rows of earlier candidates are final.
FinalOnce ==
    /\ \A n \in Candidates : Len(finals[n]) <= 1
    /\ \A n \in started : n < cand => Len(finals[n]) = 1

\* A failure is put on an account only when the candidate did fail: an inner
\* retry that succeeds leaves the account as it was.
PenalisedFailed == \A n \in penalised : finals[n] # <<"ok">>

\* However failures, fallbacks and changes of the catalogue come together, the
\* requests sent upstream stay within the configured numbers.
CallBudget == calls <= TotalAttempts * InnerLimit * Cardinality(Groups)

\* At every moment the candidates of a request are kept apart: one slot, at most
\* one final entry in each log row, and a ledger, a penalty and a number of
\* upstream requests that are those of the candidates that earned them
\* (CandidateReservation and the flags of _chat_with_retry_for_model).
CandidatesApart ==
    /\ TypeOK /\ OneSlot /\ FinalOnce
    /\ NotChargedUnserved /\ PenalisedFailed /\ CallBudget

\* When the request is over, no slot is held, with two exceptions: a candidate
\* whose key was found revoked or exhausted between two requests to it (that check
\* is outside of the try statement, and its finally clause is skipped), and one
\* that a cancellation caught while its finally clause waited for Redis.
SlotsFreed ==
    Done => \A n \in Candidates : slot[n] = "held" => n = cand /\ (pc = "keyError" \/ n \in cut)

\* The ledger then has the candidates that served the client, and only those,
\* cancelled or not; a candidate whose settlement was itself cancelled may have
\* served and not be charged.
LedgerTells ==
    Done => \A n \in Candidates : /\ ledger[n] = "kept" => n \in answered
                                 /\ n \in answered \ cut => ledger[n] = "kept"

\* Every row of the request log that was started is then final, except for the
\* row of a candidate whose key failed between two requests, and of one cancelled
\* while it settled what a broken stream had cost.
LogsClosed ==
    Done /\ pc # "keyError" => \A n \in started : finals[n] # <<>> \/ n \in cut

\* What a request leaves behind when it ends: its slot returned, the ledger of
\* those who served, final log rows.  It may leave more only when its key fails
\* between two requests to a candidate, or when it is cancelled a second time, or
\* late: where keep_served_usage or the finally clause of
\* _chat_with_retry_for_model waits (request_reservations.py promises the release
\* for every outcome, and does not keep it there).
CleanEnd == SlotsFreed /\ LedgerTells /\ LogsClosed

\* The request ends, also when the catalogue has a cycle of backups.
Termination == <>Done

=============================================================================
