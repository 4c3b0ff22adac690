-------------------------- MODULE ConversationHub --------------------------
(***************************************************************************)
(* How the events of a conversation reach one client                       *)
(* (src/agent/conversation_hub.py and the event stream of                  *)
(* src/agent/api.py).  The hub puts events into a bounded queue and never  *)
(* waits: when the queue is full it drops frames, and a reset frame tells  *)
(* the client to read the stored history again.  Events are numbered; the  *)
(* history holds all that were published.  Other subscribers have queues   *)
(* of their own.                                                           *)
(***************************************************************************)
EXTENDS Integers, Sequences, FiniteSets, SequencesExt, Subsequences

CONSTANTS
    QueueSize,     \* _QUEUE_SIZE
    Interval,      \* _RESET_MIN_INTERVAL_S
    MaxEvents,     \* events published, at most
    Kinds          \* their kinds

HubAssumption ==
    /\ {QueueSize, Interval, MaxEvents} \subseteq Nat /\ QueueSize > 1
    /\ Kinds \subseteq {"delta", "terminal", "end"}

VARIABLES
    kinds,   \* the kinds of the events published so far
    conn,    \* the client's connection: "closed", "open", or "live" with its snapshot
    queue,   \* its frames
    dirty,   \* whether a reset is owed (_overflow_dirty)
    since,   \* time since the last reset
    known,   \* the events that the client knows
    muted    \* bookkeeping: frames were dropped too soon after a reset to owe one

vars == <<kinds, conn, queue, dirty, since, known, muted>>

Sent == Len(kinds)
Reset == [kind |-> "reset", n |-> 0]
Frame(k, i) == [kind |-> k, n |-> i]
IsTerminal(x) == x.kind \in {"terminal", "end"}
Kept(q) == Only(q, {x \in ToSet(q) : IsTerminal(x)})

-----------------------------------------------------------------------------
(* Putting a frame into the queue.                                         *)

\* _squeeze_reset: the reset goes last if there is room; else the terminal
\* frames stay behind it, as far as they fit.
Squeeze(q) ==
    IF Len(q) < QueueSize THEN Append(q, Reset)
    ELSE LET r == <<Reset>> \o Kept(q)
         IN SubSeq(r, 1, IF Len(r) > QueueSize THEN QueueSize ELSE Len(r))

\* Mutant: the terminal frames are put back behind the new one.
PutBefore(q, f) ==
    IF Len(q) < QueueSize THEN Append(q, f)
    ELSE IF ~IsTerminal(f) THEN Append(Tail(q), f)
    ELSE IF Len(Kept(q)) < QueueSize THEN <<f>> \o Kept(q) ELSE Append(Tail(Kept(q)), f)

\* The end of _deliver: a full queue makes room, for a terminal frame by
\* dropping all that are not, else by dropping the oldest.
Put(q, f) ==
    IF Len(q) < QueueSize THEN Append(q, f)
    ELSE IF ~IsTerminal(f) THEN Append(Tail(q), f)
    ELSE IF Len(Kept(q)) < QueueSize THEN Append(Kept(q), f) ELSE Append(Tail(Kept(q)), f)

\* _mark_overflow: a reset is owed unless one was sent within the interval.
Mark(full, late) == full /\ late

\* _deliver: a reset that is owed and not too soon goes first.
Deliver(f) ==
    LET late  == since >= Interval
        first == dirty /\ late
        q     == IF first THEN Squeeze(queue) ELSE queue
        again == late /\ (first => Interval = 0)
        full  == Len(q) = QueueSize
    IN /\ queue' = Put(q, f)
       /\ dirty' = ((dirty /\ ~first) \/ Mark(full, again))
       /\ since' = IF first THEN 0 ELSE since
       /\ muted' = (muted \/ (full /\ ~again))

-----------------------------------------------------------------------------
(* The steps.                                                              *)

Publish(k) ==
    /\ Sent < MaxEvents
    /\ kinds' = Append(kinds, k)
    /\ IF conn = "closed" THEN UNCHANGED <<queue, dirty, since, muted>>
       ELSE Deliver(Frame(k, Sent + 1))
    /\ UNCHANGED <<conn, known>>

\* The client connects: its queue is there before the history is read.
Subscribe ==
    /\ conn = "closed" /\ conn' = "open"
    /\ queue' = <<>> /\ dirty' = FALSE /\ since' = Interval
    /\ UNCHANGED <<kinds, known, muted>>

\* The first frame of the stream.
Snapshot ==
    /\ conn = "open" /\ conn' = "live"
    /\ known' = 1 .. Sent /\ muted' = FALSE
    /\ UNCHANGED <<kinds, queue, dirty, since>>

\* The stream hands on a frame.  A client that is told to reset reads the
\* history; after the end of a turn the connection is closed.
Take ==
    /\ conn = "live" /\ queue # <<>>
    /\ LET f == Head(queue) IN
       /\ known' = IF f = Reset THEN 1 .. Sent ELSE known \cup {f.n}
       /\ muted' = (muted /\ f # Reset)
       /\ IF f.kind = "end"
          THEN conn' = "closed" /\ queue' = <<>> /\ dirty' = FALSE /\ since' = Interval
          ELSE queue' = Tail(queue) /\ UNCHANGED <<conn, dirty, since>>
    /\ UNCHANGED kinds

\* The client goes away; the stream unsubscribes.
Disconnect ==
    /\ conn # "closed" /\ conn' = "closed"
    /\ queue' = <<>> /\ dirty' = FALSE /\ since' = Interval
    /\ UNCHANGED <<kinds, known, muted>>

Tick ==
    /\ since < Interval /\ since' = since + 1
    /\ UNCHANGED <<kinds, conn, queue, dirty, known, muted>>

Init ==
    /\ kinds = <<>> /\ conn = "closed" /\ queue = <<>> /\ dirty = FALSE
    /\ since = Interval /\ known = {} /\ muted = FALSE

Next ==
    \/ \E k \in Kinds : Publish(k)
    \/ Subscribe
    \/ Snapshot
    \/ Take
    \/ Disconnect
    \/ Tick

Spec == Init /\ [][Next]_vars

\* A client that is cut off connects again and takes what it is given, and is
\* not cut off each time before its first frame.
FairSpec == Spec /\ WF_vars(Subscribe) /\ SF_vars(Snapshot) /\ WF_vars(Take)

-----------------------------------------------------------------------------
(* The properties.                                                         *)

\* The types of the variables; the queue holds no more than it has room for
\* (asyncio.Queue with maxsize).
TypeOK ==
    /\ conn \in {"closed", "open", "live"} /\ dirty \in BOOLEAN /\ since \in 0 .. Interval
    /\ Len(queue) <= QueueSize /\ known \subseteq 1 .. Sent /\ muted \in BOOLEAN
    /\ \A i \in 1 .. Len(queue) : queue[i] = Reset \/ queue[i] = Frame(kinds[queue[i].n], queue[i].n)

Queued == {queue[i].n : i \in 1 .. Len(queue)}

\* Frames are in the order in which their events were published, whatever is
\* dropped, put back or squeezed in between (_deliver, _squeeze_reset).
InOrder ==
    \A i, j \in 1 .. Len(queue) :
        i < j /\ Reset \notin {queue[i], queue[j]} => queue[i].n < queue[j].n

\* The event that was published last is known to a connected client or on
\* its way: what a full queue drops is older (_deliver).
LatestKept == conn = "live" /\ Sent > 0 => Sent \in known \cup Queued

\* The events that a connected client has lost.
Lost == 1 .. Sent \ (known \cup Queued)

\* A client that has lost an event is going to be told: a reset is queued or
\* owed, or the end of the turn is queued, after which it reads the history
\* (_mark_overflow, _squeeze_reset).  The exception: frames dropped within the
\* interval after a reset owe none.
LossAnnounced ==
    conn = "live" /\ Lost # {} =>
        dirty \/ muted \/ \E i \in 1 .. Len(queue) : queue[i].kind \in {"reset", "end"}

\* What a client is given is in order, ends with the latest event, and tells it of
\* its losses (_deliver).
FeedExact == TypeOK /\ InOrder /\ LatestKept /\ LossAnnounced

\* After the last event of a turn a client comes to know every event,
\* however many frames were dropped (the stream ends, the client connects
\* again and reads the history).
CatchesUp ==
    (Sent = MaxEvents /\ Last(kinds) = "end") ~> (known = 1 .. MaxEvents)

=============================================================================
