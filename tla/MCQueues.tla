------------------------------ MODULE MCQueues ------------------------------
(***************************************************************************)
(* The bounded queues that never make their producer wait, side by side:   *)
(* the writer of request logs, the writer of request payloads, and the     *)
(* hub that feeds the clients of a conversation.  The three share no       *)
(* state; a behaviour is one of one of them, named by `part'.              *)
(***************************************************************************)
EXTENDS RequestLogWriter

CONSTANTS
    a1, a2,
    MaxPayloads, PayloadFlush, Produced,
    QueueSize, Interval, MaxPublished, Kinds

VARIABLES
    part,
    payloads, wake, taking, leaving, task, stopper, hand, produced, flushed, failed, dropped,
    kinds, conn, queue, dirty, since, known, muted

Payload == INSTANCE PayloadWriter WITH
    MaxEvents <- MaxPayloads, FlushSize <- PayloadFlush,
    events <- payloads, accepting <- taking, stopping <- leaving, batch <- hand
Hub == INSTANCE ConversationHub WITH MaxEvents <- MaxPublished

\* Only is the SelectSeq of the library.
ASSUME OnlySelects ==
    \A s \in SeqOf(1 .. 3, 4), S \in SUBSET (1 .. 3) : Only(s, S) = SelectSeq(s, LAMBDA x : x \in S)

ASSUME QueuesAssumption == Payload!PayloadAssumption /\ Hub!HubAssumption

payloadVars == <<payloads, wake, taking, leaving, task, stopper, hand, produced, flushed,
                 failed, dropped>>
hubVars == <<kinds, conn, queue, dirty, since, known, muted>>
partVars == <<part, vars, payloadVars, hubVars>>

-----------------------------------------------------------------------------

MCInit == part \in {"log", "payload", "hub"} /\ Init /\ Payload!Init /\ Hub!Init

InLog == part = "log" /\ UNCHANGED <<part, payloadVars, hubVars>>
InPayload == part = "payload" /\ UNCHANGED <<part, vars, hubVars>>
InHub == part = "hub" /\ UNCHANGED <<part, vars, payloadVars>>

MCNext ==
    \/ InLog /\ Next
    \/ InPayload /\ Payload!Next
    \/ InHub /\ Hub!Next

\* The fairness of the three modules.
MCSpec ==
    /\ MCInit /\ [][MCNext]_partVars
    /\ WF_partVars(InLog /\ WorkerStep)
    /\ \A k \in Attempts : WF_partVars(InLog /\ RetryDue(k))
    /\ WF_partVars(InPayload /\ Payload!TaskStep)
    /\ WF_partVars(InPayload /\ Payload!Stopped)
    /\ WF_partVars(InHub /\ Hub!Subscribe)
    /\ SF_partVars(InHub /\ Hub!Snapshot)
    /\ WF_partVars(InHub /\ Hub!Take)

-----------------------------------------------------------------------------
(* The properties of the other two; the modules say what they are about.   *)

\* The queue of payloads (QueueExact of PayloadWriter).
QueueExact == Payload!QueueExact

\* What the client of a conversation is given (FeedExact of ConversationHub).
FeedExact == Hub!FeedExact

\* What the queues accept arrives: outcomes are written (OutcomeWritten of
\* RequestLogWriter), payloads dealt with and stops return (Drained of
\* PayloadWriter), and a client catches up after a turn (CatchesUp of
\* ConversationHub).
Arrives ==
    /\ part = "log" => OutcomeWritten
    /\ part = "payload" => Payload!Drained
    /\ part = "hub" => Hub!CatchesUp
=============================================================================
