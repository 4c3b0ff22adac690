--------------------------- MODULE PayloadWriter ----------------------------
(***************************************************************************)
(* The background writer of request payloads                               *)
(* (src/server/request_payload_writer.py, RequestPayloadWriter): requests  *)
(* put events into a bounded queue, one task takes them out in batches and *)
(* inserts them into ClickHouse.  asyncio.Event is modelled by its flag;   *)
(* the task's steps end where it waits.                                    *)
(***************************************************************************)
EXTENDS Integers, Sequences, FiniteSets, SequencesExt

CONSTANTS
    MaxEvents,   \* max_events
    FlushSize,   \* flush_size
    Produced     \* bound: events the requests produce

PayloadAssumption ==
    MaxEvents \in Nat \ {0} /\ FlushSize \in Nat \ {0} /\ Produced \in Nat

VARIABLES
    events,     \* _events; events are numbered in the order they are produced
    wake,       \* the flag of _wake
    accepting,  \* _accepting
    stopping,   \* _stopping
    task,       \* the task: "connect", "loop", "waiting", "flushing", "pausing",
                \* "refusing" (no client), "refused" (waiting without a client), "ended"
    stopper,    \* stop(): "idle", "waiting", "returned", or "expired" at its time limit
    batch,      \* the batch that is being inserted
    produced,   \* events produced so far
    flushed, failed, dropped   \* what became of the events

ends == <<flushed, failed, dropped>>
vars == <<events, wake, accepting, stopping, task, stopper, batch, produced, ends>>

\* enqueue: when the queue is full the oldest event makes room.
Enqueue ==
    LET e == produced + 1
        full == Len(events) >= MaxEvents
    IN  /\ produced < Produced /\ produced' = e
        /\ IF ~accepting
           THEN dropped' = dropped \cup {e} /\ UNCHANGED <<events, wake>>
           ELSE /\ events' = IF full THEN Append(Tail(events), e) ELSE Append(events, e)
                /\ dropped' = IF full THEN dropped \cup {Head(events)} ELSE dropped
                /\ wake' = TRUE
        /\ UNCHANGED <<accepting, stopping, task, stopper, batch, flushed, failed>>

\* The client connects and the schema is there, or the task refuses all events.
Connect(ok) ==
    /\ task = "connect"
    /\ task' = IF ok THEN "loop" ELSE "refusing"
    /\ UNCHANGED <<events, wake, accepting, stopping, stopper, batch, produced, ends>>

\* Without a client: the queue is emptied and the task waits for more.
RefuseEvents ==
    /\ task = "refusing"
    /\ IF stopping
       THEN task' = "ended" /\ UNCHANGED <<events, dropped, wake>>
       ELSE /\ events' = <<>> /\ dropped' = dropped \cup ToSet(events)
            /\ wake' = FALSE /\ task' = "refused"
    /\ UNCHANGED <<accepting, stopping, stopper, batch, produced, flushed, failed>>

\* How many events _collect_batch takes.
Taken == Min({FlushSize, Len(events)})

\* Mutant: the events stay in the queue until they are inserted.
CollectPeek == batch' = SubSeq(events, 1, Taken) /\ UNCHANGED events

\* The batch leaves the queue.
CollectBatch ==
    /\ batch' = SubSeq(events, 1, Taken)
    /\ events' = SubSeq(events, Taken + 1, Len(events))

\* The head of the loop: the task ends when it is asked to and the queue is
\* empty, waits when there is nothing to do, or takes a batch.
Loop ==
    /\ task = "loop"
    /\ IF stopping /\ events = <<>>
       THEN task' = "ended" /\ UNCHANGED <<events, batch, wake>>
       ELSE IF events = <<>>
       THEN task' = "waiting" /\ wake' = FALSE /\ UNCHANGED <<events, batch>>
       ELSE CollectBatch /\ task' = "flushing" /\ UNCHANGED wake
    /\ UNCHANGED <<accepting, stopping, stopper, produced, ends>>

\* The task is woken.
Wake ==
    /\ wake
    /\ \/ task = "waiting" /\ task' = "loop"
       \/ task = "refused" /\ task' = "refusing"
    /\ UNCHANGED <<events, wake, accepting, stopping, stopper, batch, produced, ends>>

\* The batch is inserted, or lost as a whole; the task pauses.
Flush(ok) ==
    /\ task = "flushing"
    /\ IF ok THEN flushed' = flushed \cup ToSet(batch) /\ UNCHANGED failed
             ELSE failed' = failed \cup ToSet(batch) /\ UNCHANGED flushed
    /\ batch' = <<>> /\ task' = "pausing"
    /\ UNCHANGED <<events, wake, accepting, stopping, stopper, produced, dropped>>

Pause ==
    /\ task = "pausing" /\ task' = "loop"
    /\ UNCHANGED <<events, wake, accepting, stopping, stopper, batch, produced, ends>>

\* Mutant: the task is not woken.
StopSilent ==
    /\ stopper = "idle" /\ stopper' = "waiting"
    /\ stopping' = TRUE /\ accepting' = FALSE
    /\ UNCHANGED <<events, wake, task, batch, produced, ends>>

\* stop
Stop ==
    /\ stopper = "idle" /\ stopper' = "waiting"
    /\ stopping' = TRUE /\ accepting' = FALSE /\ wake' = TRUE
    /\ UNCHANGED <<events, task, batch, produced, ends>>

\* The task has ended.
Stopped ==
    /\ stopper = "waiting" /\ task = "ended"
    /\ stopper' = "returned"
    /\ UNCHANGED <<events, wake, accepting, stopping, task, batch, produced, ends>>

\* It has not ended in time: wait_for cancels it, with what it has in hand.
StopTimeout ==
    /\ stopper = "waiting" /\ task # "ended"
    /\ task' = "ended" /\ stopper' = "expired"
    /\ UNCHANGED <<events, wake, accepting, stopping, batch, produced, ends>>

Init ==
    /\ events = <<>> /\ wake = FALSE /\ accepting = TRUE /\ stopping = FALSE
    /\ task = "connect" /\ stopper = "idle" /\ batch = <<>>
    /\ produced = 0 /\ flushed = {} /\ failed = {} /\ dropped = {}

TaskStep ==
    \/ \E ok \in BOOLEAN : Connect(ok) \/ Flush(ok)
    \/ RefuseEvents \/ Loop \/ Wake \/ Pause

Next == Enqueue \/ TaskStep \/ Stop \/ Stopped \/ StopTimeout

Spec == Init /\ [][Next]_vars

\* The event loop runs the task, and ClickHouse answers or fails.
Fairness == WF_vars(TaskStep) /\ WF_vars(Stopped)

FairSpec == Spec /\ Fairness

-----------------------------------------------------------------------------
(* Properties *)

TypeOK ==
    /\ events \in Seq(1..Produced) /\ batch \in Seq(1..Produced)
    /\ wake \in BOOLEAN /\ accepting \in BOOLEAN /\ stopping \in BOOLEAN
    /\ task \in {"connect", "loop", "waiting", "flushing", "pausing", "refusing", "refused",
                 "ended"}
    /\ stopper \in {"idle", "waiting", "returned", "expired"}
    /\ produced \in 0..Produced
    /\ flushed \subseteq 1..Produced /\ failed \subseteq 1..Produced
    /\ dropped \subseteq 1..Produced
    /\ Len(events) <= MaxEvents /\ Len(batch) <= FlushSize

\* Every event is in one place: queued, in hand, inserted, lost with its batch or
\* dropped; and what is queued or in hand is in the order it was produced.
Accounted ==
    LET all == batch \o events
    IN  /\ 1..produced = ToSet(all) \cup flushed \cup failed \cup dropped
        /\ Cardinality(ToSet(all)) = Len(all)
        /\ Cardinality(ToSet(all)) + Cardinality(flushed) + Cardinality(failed)
               + Cardinality(dropped) = produced
        /\ \A i, j \in 1..Len(all) : i < j => all[i] < all[j]

\* The task never sleeps on a queue with events in it, or past a stop, unless it
\* is about to be woken.
NoLostWakeup ==
    task \in {"waiting", "refused"} /\ (events # <<>> \/ stopping) => wake

\* An event that was accepted is inserted, lost with a batch or dropped for newer
\* ones, also when the writer is stopped.
Handled ==
    \A e \in 1..Produced :
        e \in ToSet(events) ~> e \in flushed \cup failed \cup dropped
                            \/ (stopping /\ task = "ended")

\* stop returns.
StopReturns == stopping ~> stopper \in {"returned", "expired"}

\* If it returns within its time limit, it leaves nothing behind that was
\* accepted, at least if there was a client.
StopDrains ==
    stopper = "returned" /\ flushed \cup failed # {} => events = <<>> /\ batch = <<>>

\* The queue of payloads is exact: every event is in one place, the task does not
\* sleep on work, and a stop that returns in time has drained the queue.
QueueExact == TypeOK /\ Accounted /\ NoLostWakeup /\ StopDrains

\* Every accepted event is dealt with, and stop returns.
Drained == Handled /\ StopReturns
=============================================================================
