-------------------------- MODULE RequestLogWriter --------------------------
(***************************************************************************)
(* The request-log writer of one gateway process                           *)
(* (server/request_log_writer.py) and the table request_logs it writes to  *)
(* (server/db.py).                                                         *)
(*                                                                         *)
(* Request handlers enqueue, per attempt, a started and later a finalized  *)
(* event; enqueueing never waits.  One worker folds the events into a      *)
(* state per attempt, inserts the rows of the started ones, updates the    *)
(* rows of the finalized ones and calls on_finalized, which charges the    *)
(* API key for cancelled attempts that had output.  Under pressure         *)
(* attempts are dropped.                                                   *)
(*                                                                         *)
(* A step of the worker ends where the code awaits: the insert, the        *)
(* update, each callback and the pause between two flushes.                *)
(***************************************************************************)
EXTENDS Integers, Sequences, FiniteSets, SequencesExt, Subsequences

CONSTANTS
    Attempts,     \* attempt keys
    MaxEvents,    \* max_events, the hard cap
    Level2,       \* level2_events, from which failed attempts are dropped
    DropBatch,    \* pressure_batch_size
    FlushSize,    \* flush_size
    MaxErrors     \* bound: database errors

ASSUME BoundsAssumption ==
    /\ MaxEvents \in Nat \ {0} /\ Level2 \in 1 .. MaxEvents
    /\ DropBatch \in Nat \ {0} /\ FlushSize \in Nat \ {0} /\ MaxErrors \in Nat

\* How an attempt ends: served, failed after some output, failed without.
Outcomes == {"ok", "cut", "failed"}

VARIABLES
    events,     \* _events
    order,      \* the keys of _states, oldest first
    state,      \* AttemptWriteState of a key in `order`
    pc,         \* what the worker awaits
    batch,      \* the rows handed to the database, then the keys it returned
    accepting,  \* _accepting
    stopping,   \* _stopping
    row,        \* status of the attempt's row in request_logs
    charged,    \* how often the API key was charged for the attempt
    outcome,    \* the handler's view of an attempt, "none" until it starts
    errors,     \* bookkeeping: database errors so far
    shed,       \* bookkeeping: attempts that lost an event or their state
    closed      \* bookkeeping: attempts whose update was acknowledged

buffer == <<events, order, state>>
vars == <<buffer, pc, batch, accepting, stopping, row, charged, outcome, errors,
          shed, closed>>

-----------------------------------------------------------------------------
(* The buffer *)

Blank == [started |-> FALSE, final |-> "none", inserted |-> FALSE, due |-> TRUE]

Pending(k) == k \in ToSet(order)

\* _state_failed
Failed(k) == state[k].final \in Outcomes \ {"ok"}

Least(m, n) == IF m < n THEN m ELSE n

\* _drop_oldest_failed_attempts: the keys it drops when the buffer counts n.
DroppedFailed(n) ==
    LET failed == Only(order, {k \in Attempts : Failed(k)})
    IN  IF n < Level2 THEN {} ELSE ToSet(SubSeq(failed, 1, Least(DropBatch, Len(failed))))

\* _drop_oldest_attempts: how many it drops when the buffer counts n.
DropCount(n) ==
    LET target == IF Level2 > MaxEvents - DropBatch THEN Level2 ELSE MaxEvents - DropBatch
    IN  IF n < MaxEvents \/ n <= target THEN 0 ELSE Least(DropBatch, n - target)

\* _enqueue of an accepted event: append and _apply_pressure.  At the hard cap
\* the oldest states go first, then the oldest events.
Enqueue(e) ==
    LET evs == Append(events, e)
        gone == DroppedFailed(Len(evs) + Len(order))
        left == Only(order, Attempts \ gone)
        n == DropCount(Len(evs) + Len(left))
        s == Least(n, Len(left))
        lost == gone \cup ToSet(SubSeq(left, 1, s))
    IN  /\ order' = SubSeq(left, s + 1, Len(left))
        /\ state' = [k \in Attempts |-> IF k \in lost THEN Blank ELSE state[k]]
        /\ events' = SubSeq(evs, n - s + 1, Len(evs))
        /\ shed' = shed \cup lost \cup {evs[i].key : i \in 1 .. n - s}

\* An event that comes when the writer has stopped is dropped.
Offer(e) == IF accepting THEN Enqueue(e)
            ELSE shed' = shed \cup {e.key} /\ UNCHANGED buffer

\* _consume_events: the events of a key are merged, the last final wins.
Consumed ==
    LET of(k, kind) == {i \in DOMAIN events : events[i].key = k /\ events[i].kind = kind}
    IN  [k \in Attempts |->
            [state[k] EXCEPT
                !.started = @ \/ of(k, "started") # {},
                !.final = IF of(k, "finalized") = {} THEN @
                          ELSE events[Max(of(k, "finalized"))].outcome]]

\* New keys are appended in the order of their first events.
ConsumedOrder ==
    LET first == {i \in DOMAIN events :
                    /\ ~Pending(events[i].key)
                    /\ \A j \in 1 .. i - 1 : events[j].key # events[i].key}
        idx == Only([i \in DOMAIN events |-> i], first)
    IN  order \o [n \in DOMAIN idx |-> events[idx[n]].key]

-----------------------------------------------------------------------------
(* The handlers *)

\* _enqueue_started_log
EnqueueStarted(k) ==
    /\ outcome[k] = "none"
    /\ outcome' = [outcome EXCEPT ![k] = "running"]
    /\ Offer([key |-> k, kind |-> "started", outcome |-> "none"])
    /\ UNCHANGED <<pc, batch, accepting, stopping, row, charged, errors, closed>>

\* _finalize_channel_attempt_log
EnqueueFinalized(k, o) ==
    /\ outcome[k] = "running"
    /\ outcome' = [outcome EXCEPT ![k] = o]
    /\ Offer([key |-> k, kind |-> "finalized", outcome |-> o])
    /\ UNCHANGED <<pc, batch, accepting, stopping, row, charged, errors, closed>>

-----------------------------------------------------------------------------
(* The database *)

Entry(k, st) == [key |-> k, final |-> st[k].final]

Keys == {batch[i].key : i \in DOMAIN batch}

\* insert_request_log_batch: ON CONFLICT (attempt_key) DO NOTHING.
Inserted == [k \in Attempts |-> IF k \in Keys /\ row[k] = "none" THEN "requesting"
                                ELSE row[k]]

\* finalize_request_log_batch: UPDATE ... WHERE attempt_key = $1.
Finalized ==
    [k \in Attempts |->
        IF row[k] = "none" \/ k \notin Keys THEN row[k]
        ELSE LET i == CHOOSE n \in DOMAIN batch : batch[n].key = k IN batch[i].final]

\* reconcile_stale_request_logs: rows in status requesting.
Stale == {k \in Attempts : row[k] = "requesting"}

\* A gateway process starts and closes rows older than ten minutes: any of the
\* stale ones, also rows this process is still working on.
Reconcile ==
    /\ \E S \in (SUBSET Stale) \ {{}} :
          row' = [k \in Attempts |-> IF k \in S THEN "abandoned" ELSE row[k]]
    /\ UNCHANGED <<buffer, pc, batch, accepting, stopping, charged, outcome,
                   errors, shed, closed>>

-----------------------------------------------------------------------------
(* The worker *)

\* The loop condition of _run, for the buffer a flush leaves.
Resume(evs, ord) == IF stopping /\ evs = <<>> /\ ord = <<>> THEN "ended" ELSE "wait"

\* The first FlushSize keys of ord that are in S, with what the code captures.
Slice(ord, st, S) ==
    LET ks == Only(ord, S)
    IN  [n \in 1 .. Least(FlushSize, Len(ks)) |-> Entry(ks[n], st)]

Starts(ord, st) ==
    Slice(ord, st, {k \in Attempts : st[k].started /\ ~st[k].inserted /\ st[k].due})

Finals(ord, st) ==
    Slice(ord, st, {k \in Attempts : st[k].inserted /\ st[k].final # "none" /\ st[k].due})

\* The second half of _flush, in the same step as what precedes it.
ToFinals(evs, ord, st) ==
    LET fs == Finals(ord, st)
    IN  /\ batch' = fs
        /\ pc' = IF fs # <<>> THEN "finalizing" ELSE Resume(evs, ord)

\* _flush up to its first await, after the pause of _run.
Flush ==
    /\ pc = "wait"
    /\ events' = <<>> /\ order' = ConsumedOrder /\ state' = Consumed
    /\ LET starts == Starts(order', state')
       IN  IF starts # <<>> THEN pc' = "inserting" /\ batch' = starts
           ELSE ToFinals(<<>>, order', state')
    /\ UNCHANGED <<accepting, stopping, row, charged, outcome, errors, shed, closed>>

\* The insert returns; states dropped meanwhile are not marked.
InsertReturns ==
    /\ pc = "inserting"
    /\ row' = Inserted
    /\ state' = [k \in Attempts |-> IF k \in Keys /\ Pending(k)
                    THEN [state[k] EXCEPT !.inserted = TRUE] ELSE state[k]]
    /\ ToFinals(events, order, state')
    /\ UNCHANGED <<events, order, accepting, stopping, charged, outcome, errors,
                   shed, closed>>

\* _defer_states after an error; the statement may have been carried out.
Deferred ==
    /\ errors < MaxErrors /\ errors' = errors + 1
    /\ state' = [k \in Attempts |-> IF k \in Keys /\ Pending(k)
                    THEN [state[k] EXCEPT !.due = FALSE] ELSE state[k]]
    /\ pc' = Resume(events, order) /\ batch' = <<>>
    /\ UNCHANGED <<events, order, accepting, stopping, charged, outcome, shed, closed>>

InsertFails ==
    /\ pc = "inserting"
    /\ row' \in {row, Inserted}
    /\ Deferred

FinalizeFails ==
    /\ pc = "finalizing"
    /\ row' \in {row, Finalized}
    /\ Deferred

FinalizeReturns ==
    /\ pc = "finalizing"
    /\ row' = Finalized
    /\ pc' = "closing"
    /\ closed' = closed \cup Keys
    /\ UNCHANGED <<buffer, batch, accepting, stopping, charged, outcome, errors, shed>>

\* _on_request_log_finalized charges an attempt that was cut after output; the
\* callback may fail, and is not called for a state that is gone.
Callback(k) == IF Pending(k) /\ state[k].final = "cut" THEN {charged[k], charged[k] + 1}
               ELSE {charged[k]}

\* Mutant: the state is kept for the next flush when the callback fails.
CloseOneRequeue ==
    /\ pc = "closing"
    /\ LET k == Head(batch).key
       IN  \E c \in Callback(k) :
              /\ charged' = [charged EXCEPT ![k] = c]
              /\ order' \in {order, Only(order, Attempts \ {k})}
              /\ state' = IF order' = order THEN state ELSE [state EXCEPT ![k] = Blank]
    /\ batch' = Tail(batch)
    /\ pc' = IF Tail(batch) # <<>> THEN "closing" ELSE Resume(events, order')
    /\ UNCHANGED <<events, accepting, stopping, row, outcome, errors, shed, closed>>

\* One key of the update's result: its state is popped, the callback awaited.
\* After the last one the worker pauses.
CloseOne ==
    /\ pc = "closing"
    /\ LET k == Head(batch).key
       IN  /\ charged' \in {[charged EXCEPT ![k] = c] : c \in Callback(k)}
           /\ order' = Only(order, Attempts \ {k})
           /\ state' = [state EXCEPT ![k] = Blank]
           /\ batch' = Tail(batch)
           /\ pc' = IF Tail(batch) # <<>> THEN "closing" ELSE Resume(events, order')
    /\ UNCHANGED <<events, accepting, stopping, row, outcome, errors, shed, closed>>

\* next_retry_at passes; a flush looks at the clock once, when it begins.
RetryDue(k) ==
    /\ pc = "wait" /\ ~state[k].due
    /\ state' = [state EXCEPT ![k].due = TRUE]
    /\ UNCHANGED <<events, order, pc, batch, accepting, stopping, row, charged,
                   outcome, errors, shed, closed>>

-----------------------------------------------------------------------------
(* The end *)

\* stop(): no more events are taken, the worker drains the buffer.
Stop ==
    /\ accepting
    /\ accepting' = FALSE /\ stopping' = TRUE
    /\ UNCHANGED <<buffer, pc, batch, row, charged, outcome, errors, shed, closed>>

\* The drain times out and the worker is cancelled, or the process dies.
Halt ==
    /\ pc # "ended"
    /\ pc' = "ended" /\ accepting' = FALSE /\ stopping' = TRUE
    /\ row' \in {row} \cup (IF pc = "inserting" THEN {Inserted} ELSE {})
                      \cup (IF pc = "finalizing" THEN {Finalized} ELSE {})
    /\ UNCHANGED <<buffer, batch, charged, outcome, errors, shed, closed>>

-----------------------------------------------------------------------------
(* The specification *)

Init ==
    /\ events = <<>> /\ order = <<>> /\ state = [k \in Attempts |-> Blank]
    /\ pc = "wait" /\ batch = <<>>
    /\ accepting = TRUE /\ stopping = FALSE
    /\ row = [k \in Attempts |-> "none"]
    /\ charged = [k \in Attempts |-> 0]
    /\ outcome = [k \in Attempts |-> "none"]
    /\ errors = 0 /\ shed = {} /\ closed = {}

WorkerStep ==
    \/ Flush \/ InsertReturns \/ InsertFails
    \/ FinalizeReturns \/ FinalizeFails \/ CloseOne

Next ==
    \/ \E k \in Attempts : \/ EnqueueStarted(k) \/ RetryDue(k)
                           \/ \E o \in Outcomes : EnqueueFinalized(k, o)
    \/ WorkerStep \/ Reconcile \/ Stop \/ Halt

Spec == Init /\ [][Next]_vars

\* The event loop runs the worker, statements return or fail, retries become
\* due.  The database recovers: errors are finitely many.  Nothing is assumed
\* of the handlers, of stop or of reconciliation.
Fairness ==
    /\ WF_vars(WorkerStep)
    /\ \A k \in Attempts : WF_vars(RetryDue(k))

FairSpec == Spec /\ Fairness

-----------------------------------------------------------------------------
(* Properties *)

\* Memory stays bounded during an outage: events and states together never
\* exceed max_events, though consuming turns events into states and only
\* enqueueing looks at the pressure.
Bounded == Len(events) + Len(order) <= MaxEvents

\* No attempt is charged twice, whichever statements are repeated after an
\* error that hid their success, and none is charged whose row does not say so.
ChargedOnce ==
    \A k \in Attempts : /\ charged[k] <= 1
                        /\ charged[k] = 1 => row[k] = "cut"

\* Once its update was acknowledged, a row keeps the attempt's own outcome: no
\* repeated insert and no reconciling process overwrites it, and the update
\* did find a row.
ClosedIsFinal == \A k \in closed : row[k] = outcome[k]

\* Only pressure and the end of the process lose anything: the outcome of an
\* attempt that was not shed is still buffered, or in its row.
NothingElseLost ==
    pc # "ended" =>
        \A k \in Attempts \ shed : outcome[k] \in Outcomes =>
            \/ row[k] = outcome[k]
            \/ \E i \in DOMAIN events : events[i].key = k /\ events[i].outcome = outcome[k]
            \/ Pending(k) /\ state[k].final = outcome[k] /\ (state[k].started \/ state[k].inserted)

\* The log is bounded and exact: nothing is charged twice, overwritten or lost but
\* what pressure sheds (RequestLogWriter._flush and enqueue).
LogExact == Bounded /\ ChargedOnce /\ ClosedIsFinal /\ NothingElseLost

\* An attempt that ended and was not shed gets its outcome into its row, after
\* any finite number of database errors.
OutcomeWritten ==
    \A k \in Attempts : outcome[k] \in Outcomes ~>
                            (row[k] = outcome[k] \/ k \in shed \/ pc = "ended")

=============================================================================
