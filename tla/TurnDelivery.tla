---------------------------- MODULE TurnDelivery ----------------------------
(***************************************************************************)
(* How one user message of a task reaches the agent on its node            *)
(* (src/user_platform/task_service.py: send_task_message, the claim of the *)
(* message row and _deliver_turn; task_runtime_worker.py;                  *)
(* message_status_machine.py).  The message has one row, found by its      *)
(* client_message_id.  Every request that sends it, the background task of *)
(* a deferred create and the recovery worker compete for the row with      *)
(* conditional updates; each update or read of the row is one step.  The   *)
(* control plane and the runtime are external: frames may be lost, answers *)
(* may be late, a runtime runs each pair of message and attempt once and   *)
(* reports its turns with acknowledgements that may be repeated and        *)
(* reordered.                                                              *)
(***************************************************************************)
EXTENDS Integers

CONSTANTS
    Sends,         \* requests that send this message, with the same id
    Creators,      \* the background task of a deferred create (one or none)
    Recoverers,    \* the recovery worker (one or none)
    ProcessOf,     \* the API process of each of them
    Crews,         \* bound: which of them take part together
    CalmCrews,     \* bound: and which where nothing goes wrong
    MaxAttempt,    \* bound: explicit retries
    MaxTrouble,    \* bound: lost frames, lost answers, stale claims and crashes
    None

Actors == Sends \cup Creators \cup Recoverers
Processes == {ProcessOf[a] : a \in Actors}
Attempts == 1 .. MaxAttempt

ASSUME DeliveryAssumption ==
    /\ MaxAttempt \in Nat \ {0} /\ MaxTrouble \in Nat
    /\ None \notin Actors \cup {"pending", "dispatching", "received", "running", "completed",
                                "failed", "cancelled"}
    /\ Crews \cup CalmCrews \subseteq SUBSET Actors

VARIABLES
    row,       \* [status, attempt, stale]: the row, stale = started_at long past
    pc,        \* where an actor is
    seen,      \* the row as the actor has read it: [status, attempt]
    again,     \* actors that have dispatched a new session for their frame
    lock,      \* _message_send_lock of each process
    net,       \* frames on their way to the runtime: their attempts
    turn,      \* the turn the runtime makes of an attempt
    acks,      \* acknowledgements sent so far: <<attempt, status>>
    content,   \* content of the task: "none", "own" (the text of this message)
               \* or "other" (another text), the same all the time
    foreign,   \* attempts of which a frame with another text was sent
    trouble,   \* how often something went wrong
    unsure     \* bookkeeping: a frame was given up that arrives, a claim grew
               \* stale, an attempt was given out again, or a request delivers
               \* without a claim

runtime == <<net, turn, acks, foreign>>
bounds == <<trouble, unsure, content>>
vars == <<row, pc, seen, again, lock, runtime, bounds>>

\* MESSAGE_STATUS_TRANSITIONS, without the two updates of the claim.
Transitions ==
    {<<"pending", "failed">>, <<"pending", "cancelled">>,
     <<"dispatching", "received">>, <<"dispatching", "failed">>,
     <<"received", "running">>, <<"received", "completed">>,
     <<"received", "failed">>, <<"received", "cancelled">>,
     <<"running", "completed">>, <<"running", "failed">>, <<"running", "cancelled">>,
     <<"failed", "completed">>}

\* Mutant: the attempt of a report is not compared.
MovedAnyAttempt(to, attempt) ==
    IF <<row.status, to>> \in Transitions THEN [row EXCEPT !.status = to] ELSE row

\* The row after _transition_message_status.
Moved(to, attempt) ==
    IF row.attempt = attempt /\ <<row.status, to>> \in Transitions
    THEN [row EXCEPT !.status = to] ELSE row

Trouble(b) == /\ b => trouble < MaxTrouble
              /\ trouble' = IF b THEN trouble + 1 ELSE trouble
Go(a, p) == pc' = [pc EXCEPT ![a] = p]
Sees(a, r) == seen' = [seen EXCEPT ![a] = [status |-> r.status, attempt |-> r.attempt]]

\* The actor is done; a send leaves its lock, the recovery worker goes on.
End(a) ==
    /\ Go(a, IF a \in Recoverers THEN "idle" ELSE "ended")
    /\ lock' = [p \in Processes |-> IF lock[p] = a THEN None ELSE lock[p]]

-----------------------------------------------------------------------------
(* The row is created or found.                                            *)

\* send_task_message up to _ensure_user_input_row.
BeginSend(a) ==
    /\ a \in Sends /\ pc[a] = "idle" /\ lock[ProcessOf[a]] = None
    /\ lock' = [lock EXCEPT ![ProcessOf[a]] = a]
    /\ row' = IF row.status = None THEN [row EXCEPT !.status = "pending"] ELSE row
    /\ Sees(a, row') /\ Go(a, "read")
    /\ UNCHANGED <<again, runtime, bounds>>

\* _dispatch_created_task with a session on the node: the row is there already.
CreatorDispatched(a) ==
    /\ a \in Creators /\ pc[a] = "idle"
    /\ Sees(a, row) /\ Go(a, "read")
    /\ UNCHANGED <<row, again, lock, runtime, bounds>>

\* Its dispatch fails: for now, or for good (_cancel_pending_first_turn).
CreatorFailed(a, terminal) ==
    /\ a \in Creators /\ pc[a] = "idle" /\ End(a)
    /\ row' = IF terminal /\ row.status = "pending" THEN [row EXCEPT !.status = "cancelled"] ELSE row
    /\ UNCHANGED <<seen, again, runtime, bounds>>

\* Mutant: the first turn is left to the create that has persisted it.
RecoverNothing(a) == FALSE /\ UNCHANGED vars

\* recover_pending has a session for the task and _deliver_pending_first_turn
\* finds the message pending (the task is pending or processing, and its node can
\* be reached).  It looks for none where the task has no content of its own.
Recover(a) ==
    /\ a \in Recoverers /\ pc[a] = "idle" /\ content # "none" /\ row.status = "pending"
    /\ Sees(a, row) /\ Go(a, "read")
    /\ UNCHANGED <<row, again, lock, runtime, bounds>>

-----------------------------------------------------------------------------
(* _claim_message_for_dispatch.                                            *)

\* Mutant: a message that is still being delivered is queued again too.
RequeueBusy(a) ==
    /\ pc[a] = "read" /\ seen[a].status \in {"failed", "cancelled", "dispatching"}
    /\ seen[a].attempt < MaxAttempt
    /\ row' = [row EXCEPT !.status = "pending", !.attempt = seen[a].attempt + 1]
    /\ Sees(a, row')
    /\ UNCHANGED <<pc, again, lock, runtime, bounds>>

\* A message that failed or was cancelled is queued again, with the attempt
\* after the one this actor has seen: not a new one if others did so meanwhile.
Requeue(a) ==
    /\ pc[a] = "read" /\ seen[a].status \in {"failed", "cancelled"}
    /\ IF row.status \in {"failed", "cancelled"}
       THEN /\ seen[a].attempt < MaxAttempt
            /\ row' = [row EXCEPT !.status = "pending", !.attempt = seen[a].attempt + 1]
            /\ Sees(a, row')
            /\ unsure' = (unsure \/ row.attempt # seen[a].attempt)
            /\ UNCHANGED pc
       ELSE Go(a, "reread") /\ UNCHANGED <<row, seen, unsure>>
    /\ UNCHANGED <<again, lock, runtime, trouble, content>>

\* The only way from pending to dispatching, taken by one actor.
Claim(a) ==
    /\ pc[a] = "read" /\ seen[a].status = "pending"
    /\ IF row.status = "pending"
       THEN Go(a, "claimed") /\ row' = [row EXCEPT !.status = "dispatching", !.stale = FALSE]
       ELSE Go(a, "reread") /\ UNCHANGED row
    /\ UNCHANGED <<seen, again, lock, runtime, bounds>>

\* What the caller does with the status the claim returns.  A request only
\* looks for the states of a delivery in progress; the other two go on with
\* "pending" alone.
Returned(a, status) ==
    IF status = "pending" \/ (a \in Sends /\ status \in {"failed", "cancelled"})
    THEN Go(a, "claimed") /\ UNCHANGED lock
    ELSE End(a)

\* The claim was not won: what does the row say now?
Reread(a) ==
    /\ \/ pc[a] \in {"reread", "last"}
       \/ pc[a] = "read" /\ seen[a].status \notin {"pending", "failed", "cancelled"}
    /\ Sees(a, row)
    /\ \/ /\ row.status = "pending" /\ pc[a] # "last"
          /\ Go(a, "second") /\ UNCHANGED lock
       \/ /\ row.status = "dispatching" /\ row.stale
          /\ Go(a, "stale") /\ UNCHANGED lock
       \/ /\ row.status = "pending" => pc[a] = "last"
          /\ ~(row.status = "dispatching" /\ row.stale)
          /\ Returned(a, row.status)
    /\ unsure' = (unsure \/ pc'[a] = "claimed")
    /\ UNCHANGED <<row, again, runtime, trouble, content>>

\* Another actor has queued it again: one more conditional claim.
SecondClaim(a) ==
    /\ pc[a] = "second"
    /\ IF row.status = "pending"
       THEN Go(a, "claimed") /\ row' = [row EXCEPT !.status = "dispatching", !.stale = FALSE]
       ELSE Go(a, "last") /\ UNCHANGED row
    /\ UNCHANGED <<seen, again, lock, runtime, bounds>>

\* A claim nothing has come of: one actor takes it over, with its attempt.
Reclaim(a) ==
    /\ pc[a] = "stale"
    /\ IF row.status = "dispatching" /\ row.stale
       THEN row' = [row EXCEPT !.stale = FALSE] /\ Go(a, "claimed") /\ UNCHANGED lock
       ELSE End(a) /\ UNCHANGED row
    /\ UNCHANGED <<seen, again, runtime, bounds>>

-----------------------------------------------------------------------------
(* _deliver_turn.                                                          *)

\* No runtime, or no key for the turn: a request writes that down, the other
\* two only log it.
Unprepared(a) ==
    /\ pc[a] = "claimed" /\ End(a)
    /\ row' = IF a \in Sends THEN Moved("failed", seen[a].attempt) ELSE row
    /\ UNCHANGED <<seen, again, runtime, bounds>>

\* send_session_input: the frame is on its way, or it is lost.  The recovery
\* worker sends the content of the task, whatever the message says.
Transmit(a, arrives) ==
    /\ pc[a] = "claimed"
    /\ Go(a, IF arrives THEN "sent" ELSE "lost")
    /\ net' = IF arrives THEN net \cup {seen[a].attempt} ELSE net
    /\ foreign' = IF arrives /\ a \in Recoverers /\ content = "other"
                  THEN foreign \cup {seen[a].attempt} ELSE foreign
    /\ UNCHANGED <<row, seen, again, lock, turn, acks, bounds>>

\* The control plane has accepted the frame.
Accepted(a) ==
    /\ pc[a] \in {"sent", "lost"} /\ Trouble(pc[a] = "lost")
    /\ End(a)
    /\ UNCHANGED <<row, seen, again, runtime, unsure, content>>

\* It is not reachable, refuses the frame or does not answer in time.  (A request
\* writes "failed" twice then, for the same attempt: taken together.)
Refused(a) ==
    /\ pc[a] \in {"lost", "sent"} /\ Trouble(pc[a] = "sent")
    /\ row' = Moved("failed", seen[a].attempt) /\ End(a)
    /\ unsure' = (unsure \/ pc[a] = "sent")
    /\ UNCHANGED <<seen, again, runtime, content>>

\* It does not know the session: a new one is dispatched, once.
NotFound(a) ==
    /\ pc[a] = "lost" /\ a \notin again
    /\ again' = again \cup {a} /\ Go(a, "claimed")
    /\ UNCHANGED <<row, seen, lock, runtime, bounds>>

\* _DISPATCHING_STALE_SECONDS have passed since the claim.
GrowStale ==
    /\ Trouble(TRUE) /\ row.status = "dispatching" /\ ~row.stale
    /\ row' = [row EXCEPT !.stale = TRUE] /\ unsure' = TRUE
    /\ UNCHANGED <<pc, seen, again, lock, runtime, content>>

\* A process dies, with everything it was doing; its recovery worker starts anew.
Crash(p) ==
    LET hit(a) == ProcessOf[a] = p /\ pc[a] \notin {"idle", "ended"}
    IN  /\ Trouble(TRUE)
        /\ pc' = [a \in Actors |-> IF a \in Creators /\ ProcessOf[a] = p THEN "ended"
                                   ELSE IF ~hit(a) THEN pc[a]
                                   ELSE IF a \in Recoverers THEN "idle" ELSE "ended"]
        /\ lock' = [lock EXCEPT ![p] = None]
        /\ UNCHANGED <<row, seen, again, runtime, unsure, content>>

-----------------------------------------------------------------------------
(* The runtime and the acknowledgements (external).                        *)

\* A frame arrives; an attempt that is known already is dropped.
Receive(k) ==
    /\ k \in net /\ net' = net \ {k}
    /\ IF turn[k] = None
       THEN turn' = [turn EXCEPT ![k] = "received"] /\ acks' = acks \cup {<<k, "received">>}
       ELSE UNCHANGED <<turn, acks>>
    /\ UNCHANGED <<row, pc, seen, again, lock, foreign, bounds>>

\* The turn goes on: it runs and ends, and a turn that failed may yet finish.
Proceed(k, to) ==
    /\ <<turn[k], to>> \in {<<"received", "running">>, <<"running", "completed">>,
                            <<"running", "failed">>, <<"running", "cancelled">>,
                            <<"failed", "completed">>}
    /\ turn' = [turn EXCEPT ![k] = to] /\ acks' = acks \cup {<<k, to>>}
    /\ UNCHANGED <<row, pc, seen, again, lock, net, foreign, bounds>>

\* An acknowledgement reaches the row, perhaps not for the first time.
Acknowledge(k, status) ==
    /\ <<k, status>> \in acks
    /\ row' = Moved(status, k)
    /\ UNCHANGED <<pc, seen, again, lock, runtime, bounds>>

-----------------------------------------------------------------------------

\* What the content of the task may be: a create has taken the message from it;
\* without one it matters to the recovery worker alone.
ContentOf(crew) ==
    IF crew \cap Creators # {} THEN {"own"}
    ELSE IF crew \cap Recoverers # {} THEN {"none", "other"} ELSE {"none"}

\* Some of the actors take part; a create has written the row down before its
\* background task begins.
Init ==
    /\ \E crew \in Crews \cup CalmCrews :
          /\ trouble = IF crew \in Crews THEN 0 ELSE MaxTrouble
          /\ pc = [a \in Actors |-> IF a \in crew THEN "idle" ELSE "ended"]
          /\ row = [status |-> IF crew \cap Creators = {} THEN None ELSE "pending",
                    attempt |-> 1, stale |-> FALSE]
          /\ content \in ContentOf(crew)
    /\ seen = [a \in Actors |-> [status |-> None, attempt |-> 1]]
    /\ again = {} /\ lock = [p \in Processes |-> None]
    /\ net = {} /\ turn = [k \in Attempts |-> None] /\ acks = {}
    /\ foreign = {} /\ unsure = FALSE

Act(a) ==
    \/ BeginSend(a) \/ CreatorDispatched(a) \/ Recover(a)
    \/ \E terminal \in BOOLEAN : CreatorFailed(a, terminal)
    \/ Requeue(a) \/ Claim(a) \/ Reread(a) \/ SecondClaim(a) \/ Reclaim(a)
    \/ Unprepared(a) \/ Accepted(a) \/ Refused(a) \/ NotFound(a)
    \/ \E arrives \in BOOLEAN : Transmit(a, arrives)

Statuses == {"received", "running", "completed", "failed", "cancelled"}

Runtime ==
    \/ \E k \in net : Receive(k)
    \/ \E k \in Attempts, s \in Statuses : Proceed(k, s)

Next ==
    \/ \E a \in Actors : Act(a)
    \/ GrowStale \/ Runtime
    \/ \E ack \in acks : Acknowledge(ack[1], ack[2])
    \/ \E p \in Processes : Crash(p)

Spec == Init /\ [][Next]_vars

\* The actors are scheduled; nothing is assumed of the runtime and its reports.
FairSpec == Spec /\ \A a \in Actors : WF_vars(Act(a))

-----------------------------------------------------------------------------
(* Properties.                                                             *)

\* Type invariant.
TypeOK ==
    /\ row \in [status : {None, "pending", "dispatching"} \cup Statuses,
                attempt : Attempts, stale : BOOLEAN]
    /\ pc \in [Actors -> {"idle", "read", "reread", "second", "last", "stale", "claimed", "sent", "lost", "ended"}]
    /\ seen \in [Actors -> [status : {None, "pending", "dispatching"} \cup Statuses,
                            attempt : Attempts]]
    /\ again \subseteq Actors /\ lock \in [Processes -> Sends \cup {None}]
    /\ net \subseteq Attempts /\ turn \in [Attempts -> {None} \cup Statuses]
    /\ acks \subseteq Attempts \X Statuses /\ trouble \in 0 .. MaxTrouble /\ unsure \in BOOLEAN
    /\ content \in {"none", "own", "other"} /\ foreign \subseteq Attempts

\* What the row says of the runtime is true of the attempt it stands for: a
\* late or repeated acknowledgement of an older attempt does not count.  The turn
\* is the message's own text, unless a recovery worker has sent the content of a
\* task that says something else.
RowTellsTurn ==
    /\ row.status \in {"received", "running", "completed"} => turn[row.attempt] # None
    /\ row.status = "completed" => turn[row.attempt] = "completed"
    /\ row.status \in {"received", "running", "completed"} /\ content # "other" => row.attempt \notin foreign

\* The row is exact, for every interleaving of senders, workers and reports
\* (_transition_message_status).
RowExact == TypeOK /\ RowTellsTurn

\* The runtime never works on two attempts of the same message at a time: the
\* sentence is not executed twice, however often it is sent (send_task_message),
\* unless a frame arrives that was given up as lost, a claim grew stale under
\* its owner, an attempt was given out twice (the requeue of the claim does not
\* compare it), or a request delivered without a claim.
OneTurn ==
    ~unsure => \A j, k \in Attempts : {turn[j], turn[k]} \subseteq {"received", "running"} => j = k

\* Every request that sends the message ends and leaves the lock of its process.
SendsReturn == \A a \in Sends : <>(pc[a] = "ended" /\ lock[ProcessOf[a]] # a)

\* A pending message does not stay so where a recovery worker runs: it is
\* claimed, or cancelled (recover_pending).  Messages of a task without content of
\* its own are excepted, which _deliver_pending_first_turn never looks for: one
\* that a crash left pending waits until its user sends it again.
PendingTaken ==
    (row.status = "pending" /\ content # "none" /\ \E a \in Recoverers : pc[a] # "ended")
        ~> row.status # "pending"

\* Every send returns, and a message that was only written down is taken up, where
\* the task has content.
Delivered == SendsReturn /\ PendingTaken
=============================================================================
