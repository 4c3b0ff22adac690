---------------------------- MODULE ReviewQueue -----------------------------
(***************************************************************************)
(* The queue of webhook reviews: deliveries become event rows              *)
(* (src/user_platform/routes_webhook_receive.py), one worker takes them in *)
(* order of arrival, leases a review slot on a node and creates a review   *)
(* task there (src/user_platform/webhook_review_worker.py and              *)
(* review_node_service.py), and the review gives the slot back when it     *)
(* reports its result (review_result_plugin.py).  Rows and leases survive  *)
(* a restart of the process, reviews run on the nodes and survive it too.  *)
(* A step of the worker ends where another actor can change what it has    *)
(* read.  A database write that fails is a step with `fault' TRUE.         *)
(***************************************************************************)
EXTENDS Integers, Sequences, FiniteSets, SequencesExt

CONSTANTS
    Events,        \* webhook events (deliveries with different delivery ids)
    Projects,      \* projects, each with one webhook
    TargetOf,      \* the pull request or branch of an event, within its project
    Nodes,         \* execution nodes
    Capacity,      \* review_capacity of a node
    Cap,           \* review_project_max_concurrency
    LatestOnly,    \* review_latest_only
    MaxAttempts,   \* _MAX_ATTEMPTS
    Abandons,      \* whether reviews may die or be deleted without reporting
    MaxCrashes,    \* bound: restarts of the process
    MaxFaults,     \* bound: database writes that fail
    None

ASSUME ReviewAssumption ==
    /\ IsFiniteSet(Events)
    /\ Cap \in Nat \ {0} /\ MaxAttempts \in Nat \ {0}
    /\ Capacity \in [Nodes -> Nat \ {0}]
    /\ {LatestOnly, Abandons} \subseteq BOOLEAN
    /\ MaxCrashes \in Nat /\ MaxFaults \in Nat
    /\ None \notin Nodes \cup Events \cup [node : Nodes, task : Nat]
    /\ None \notin {"pending", "processing", "failed", "completed", "ignored", "superseded"}

VARIABLES
    projectOf, \* the project of an event, the same all the time
    created,   \* the event rows in the order of created_at
    status,    \* status of the rows
    attempts,  \* attempts of the rows
    retry,     \* next_attempt_at: "never", "later" or "due"
    lease,     \* ReviewNodeLease of an event: [node, task], or None
    enabled,   \* projects whose webhook is active with reviews enabled
    tasks,     \* review tasks created for an event; they are numbered
    running,   \* reviews at work on a node: [event, task, node]
    deleted,   \* tasks that were deleted: <<event, task>>
    worker,    \* [pc, event, node]: where process_one is, with its locals
    crashes, faults

rows == <<created, status, attempts, retry>>
reviews == <<tasks, running, deleted>>
bounds == <<crashes, faults>>
vars == <<projectOf, rows, lease, enabled, reviews, worker, bounds>>

Idle == [pc |-> "idle", event |-> None, node |-> None]
At(pc) == worker.pc = pc
Go(pc) == worker' = [worker EXCEPT !.pc = pc]
Up == ~At("down")
Fault(f) == IF f THEN faults < MaxFaults /\ faults' = faults + 1 ELSE UNCHANGED faults

\* Event e was created before event f.
Older(e, f) == \E i, j \in DOMAIN created : i < j /\ created[i] = e /\ created[j] = f
Holders == {e \in Events : lease[e] # None}
InUse(n) == Cardinality({e \in Holders : lease[e].node = n})

\* What process_one looks for.
Eligible ==
    {e \in ToSet(created) : status[e] = "pending" \/ (status[e] = "failed" /\ retry[e] = "due")}

\* project_inflight: the leases of a project.
Inflight(p) == Cardinality({e \in Holders : projectOf[e] = p})

-----------------------------------------------------------------------------
(* The other actors: Git platform, administrators, timers.                 *)

\* receive_project_webhook, with a delivery id that has no row yet (a repeated
\* one changes nothing).  Only some kinds of events are reviewed.
Deliver(e, reviewed) ==
    /\ Up /\ e \notin ToSet(created)
    /\ created' = Append(created, e)
    /\ status' = [status EXCEPT ![e] =
                    IF reviewed /\ projectOf[e] \in enabled THEN "pending" ELSE "ignored"]
    /\ UNCHANGED <<attempts, retry, lease, enabled, reviews, worker, bounds>>

\* An administrator turns the reviews of a project off or on.
Toggle(p) ==
    /\ Up
    /\ enabled' = IF p \in enabled THEN enabled \ {p} ELSE enabled \cup {p}
    /\ UNCHANGED <<rows, lease, reviews, worker, bounds>>

\* next_attempt_at has passed.
RetryDue(e) ==
    /\ retry[e] = "later" /\ retry' = [retry EXCEPT ![e] = "due"]
    /\ UNCHANGED <<created, status, attempts, lease, enabled, reviews, worker, bounds>>

-----------------------------------------------------------------------------
(* process_one.                                                            *)

\* The oldest event that may be dispatched.
Pick ==
    /\ At("idle")
    /\ \E e \in Eligible :
          /\ \A f \in Eligible \ {e} : Older(e, f)
          /\ worker' = [Idle EXCEPT !.pc = "picked", !.event = e]
    /\ UNCHANGED <<rows, lease, enabled, reviews, bounds>>

\* _supersede_older: pending events of the same target that came before e.
Superseded(e) ==
    IF ~LatestOnly THEN {}
    ELSE {f \in Events : /\ status[f] = "pending" /\ Older(f, e)
                         /\ projectOf[f] = projectOf[e] /\ TargetOf[f] = TargetOf[e]}

\* The project has room for one more review.
Admitted(e) == Inflight(projectOf[e]) < Cap

\* The rest of process_one up to the claim: the webhook is read, older events
\* are superseded, the cap is tested and the row is claimed.
Admit ==
    /\ At("picked")
    /\ LET e == worker.event
           superseded == [f \in Events |-> IF f \in Superseded(e) THEN "superseded" ELSE status[f]]
       IN  IF projectOf[e] \notin enabled
           THEN /\ status' = [status EXCEPT ![e] = "ignored"]
                /\ worker' = Idle /\ UNCHANGED attempts
           ELSE IF ~Admitted(e)
           THEN status' = superseded /\ worker' = Idle /\ UNCHANGED attempts
           ELSE /\ status' = [superseded EXCEPT ![e] = "processing"]
                /\ attempts' = [attempts EXCEPT ![e] = @ + 1]
                /\ Go("claimed")
    /\ UNCHANGED <<created, retry, lease, enabled, reviews, bounds>>

\* The executor gives up before it has a slot: no executor, project, provider,
\* key or node.
Refuse ==
    /\ At("claimed") /\ Go("failing")
    /\ UNCHANGED <<rows, lease, enabled, reviews, bounds>>

\* A slot of the node is free.
Free(n) == InUse(n) < Capacity[n]

\* acquire_review_slot on the least loaded of the ready nodes.  An event that
\* still holds a lease keeps it, whatever node is chosen.
Acquire(ready) ==
    /\ At("claimed")
    /\ LET e == worker.event
           usable == IF lease[e] # None THEN ready ELSE {n \in ready : Free(n)}
       IN  \E n \in usable :
             /\ \A m \in usable : InUse(n) <= InUse(m)
             /\ lease' = IF lease[e] # None THEN lease
                         ELSE [lease EXCEPT ![e] = [node |-> n, task |-> 0]]
             /\ worker' = [worker EXCEPT !.pc = "leased", !.node = n]
    /\ UNCHANGED <<rows, enabled, reviews, bounds>>

\* The node has changed, the Git identity is gone or no task was created.
GiveBack(fault) ==
    /\ At("leased") /\ Fault(fault)
    /\ lease' = IF fault THEN lease ELSE [lease EXCEPT ![worker.event] = None]
    /\ Go("failing")
    /\ UNCHANGED <<rows, enabled, reviews, crashes>>

\* create_task: the review begins on the node.
CreateTask ==
    /\ At("leased")
    /\ LET e == worker.event
       IN  /\ tasks' = [tasks EXCEPT ![e] = @ + 1]
           /\ running' = running \cup {[event |-> e, task |-> tasks[e] + 1, node |-> worker.node]}
    /\ Go("created")
    /\ UNCHANGED <<rows, lease, enabled, deleted, bounds>>

\* Mutant: a lease that is gone is taken for an error.
BindLeaseTaskStrict(fault) ==
    /\ At("created") /\ Fault(fault)
    /\ LET e == worker.event
       IN  IF fault \/ lease[e] = None
           THEN Go("failing") /\ UNCHANGED lease
           ELSE Go("bound") /\ lease' = [lease EXCEPT ![e].task = tasks[e]]
    /\ UNCHANGED <<rows, enabled, reviews, crashes>>

\* bind_lease_task; a review that has already reported has no lease any more.
BindLeaseTask(fault) ==
    /\ At("created") /\ Fault(fault)
    /\ LET e == worker.event
       IN  IF fault
           THEN Go("failing") /\ UNCHANGED lease
           ELSE /\ Go("bound")
                /\ lease' = IF lease[e] = None THEN lease
                            ELSE [lease EXCEPT ![e].task = tasks[e]]
    /\ UNCHANGED <<rows, enabled, reviews, crashes>>

\* Mutant: the slot is given back as soon as the review is dispatched.
SaveReleases(fault) ==
    /\ At("bound") /\ Fault(fault) /\ worker' = Idle
    /\ status' = [status EXCEPT ![worker.event] = "completed"]
    /\ lease' = [lease EXCEPT ![worker.event] = None]
    /\ UNCHANGED <<created, attempts, retry, enabled, reviews, crashes>>

\* _dispatch writes the result.
Save(fault) ==
    /\ At("bound") /\ Fault(fault)
    /\ IF fault
       THEN Go("failing") /\ UNCHANGED <<status, retry>>
       ELSE /\ status' = [status EXCEPT ![worker.event] = "completed"]
            /\ retry' = [retry EXCEPT ![worker.event] = "never"]
            /\ worker' = Idle
    /\ UNCHANGED <<created, attempts, lease, enabled, reviews, crashes>>

\* _fail gives back what the event still holds; a failure to do so is logged.
FailRelease(fault) ==
    /\ At("failing") /\ Fault(fault)
    /\ lease' = IF fault THEN lease ELSE [lease EXCEPT ![worker.event] = None]
    /\ Go("released")
    /\ UNCHANGED <<rows, enabled, reviews, crashes>>

\* The event has had its attempts.
GivenUp(e) == attempts[e] >= MaxAttempts

\* _fail writes the row.  When the write fails the iteration ends.
FailSave(fault) ==
    /\ At("released") /\ Fault(fault) /\ worker' = Idle
    /\ LET e == worker.event
       IN  IF fault THEN UNCHANGED <<status, retry>>
           ELSE /\ status' = [status EXCEPT ![e] = "failed"]
                /\ retry' = [retry EXCEPT ![e] = IF GivenUp(e) THEN "never" ELSE "later"]
    /\ UNCHANGED <<created, attempts, lease, enabled, reviews, crashes>>

-----------------------------------------------------------------------------
(* Reviews and tasks.                                                      *)

\* _complete_review: the lease of the event is given back.
CompleteReview(r, fault) ==
    /\ Up /\ r \in running /\ running' = running \ {r} /\ Fault(fault)
    /\ lease' = IF fault THEN lease ELSE [lease EXCEPT ![r.event] = None]
    /\ UNCHANGED <<rows, enabled, tasks, deleted, worker, crashes>>

\* A review ends without a report: its session fails or the task is stopped.
Die(r) ==
    /\ Abandons /\ r \in running /\ running' = running \ {r}
    /\ UNCHANGED <<rows, lease, enabled, tasks, deleted, worker, bounds>>

\* delete_task with _release_node: the session of the review is deleted if its id
\* is known, the node can be asked and does it; the lease that names the task is
\* deleted in any case, and so is the task.
DeleteTask(e, k, stopped) ==
    /\ Abandons /\ Up /\ k \in 1 .. tasks[e] /\ <<e, k>> \notin deleted
    /\ deleted' = deleted \cup {<<e, k>>}
    /\ running' = {r \in running : stopped => <<r.event, r.task>> # <<e, k>>}
    /\ lease' = IF lease[e] # None /\ lease[e].task = k
                THEN [lease EXCEPT ![e] = None] ELSE lease
    /\ UNCHANGED <<rows, enabled, tasks, worker, bounds>>

-----------------------------------------------------------------------------
(* The process.                                                            *)

\* The process dies, or stop cancels the worker wherever it waits.
Crash ==
    /\ Up /\ crashes < MaxCrashes /\ crashes' = crashes + 1
    /\ worker' = [Idle EXCEPT !.pc = "down"]
    /\ UNCHANGED <<rows, lease, enabled, reviews, faults>>

\* start: claimed rows become pending and every lease is deleted.
Start ==
    /\ At("down") /\ worker' = Idle
    /\ status' = [e \in Events |-> IF status[e] = "processing" THEN "pending" ELSE status[e]]
    /\ lease' = [e \in Events |-> None]
    /\ UNCHANGED <<created, attempts, retry, enabled, reviews, bounds>>

-----------------------------------------------------------------------------

Init ==
    /\ projectOf \in [Events -> Projects]
    /\ created = <<>> /\ status = [e \in Events |-> None]
    /\ attempts = [e \in Events |-> 0] /\ retry = [e \in Events |-> "never"]
    /\ lease = [e \in Events |-> None] /\ enabled = Projects
    /\ tasks = [e \in Events |-> 0] /\ running = {} /\ deleted = {}
    /\ worker = Idle /\ crashes = 0 /\ faults = 0

Work ==
    \/ Pick \/ Admit \/ Refuse \/ CreateTask
    \/ \E ready \in SUBSET Nodes : Acquire(ready)
    \/ \E f \in BOOLEAN : GiveBack(f) \/ BindLeaseTask(f) \/ Save(f) \/ FailRelease(f) \/ FailSave(f)

Next ==
    /\ UNCHANGED projectOf
    /\ \/ Work \/ Crash \/ Start
       \/ \E e \in Events, b \in BOOLEAN : Deliver(e, b)
       \/ \E e \in Events : RetryDue(e)
       \/ \E p \in Projects : Toggle(p)
       \/ \E r \in running : Die(r) \/ \E f \in BOOLEAN : CompleteReview(r, f)
       \/ \E e \in Events, b \in BOOLEAN : \E k \in 1 .. tasks[e] : DeleteTask(e, k, b)

Spec == Init /\ [][Next]_vars

-----------------------------------------------------------------------------
(* Properties.                                                             *)

Statuses == {None, "pending", "processing", "failed", "completed", "ignored", "superseded"}

\* Type invariant of rows, leases and worker.
TypeOK ==
    /\ ToSet(created) \subseteq Events /\ status \in [Events -> Statuses]
    /\ attempts \in [Events -> Nat] /\ retry \in [Events -> {"never", "later", "due"}]
    /\ lease \in [Events -> {None} \cup [node : Nodes, task : Nat]]
    /\ enabled \subseteq Projects /\ tasks \in [Events -> Nat]
    /\ running \subseteq [event : Events, task : Nat, node : Nodes]
    /\ worker \in [pc : {"idle", "picked", "claimed", "leased", "created", "bound", "failing",
                         "released", "down"},
                   event : Events \cup {None}, node : Nodes \cup {None}]

\* The leases of a node never exceed its review_capacity: the unique slots of
\* _try_lease, also after restarts and with leases a failed release left behind.
NodeSlots == \A n \in Nodes : InUse(n) <= Capacity[n]

\* The leases of a project never exceed the cap, which process_one tests long
\* before the lease is created.
ProjectCap == \A p \in Projects : Inflight(p) <= Cap

\* _fail gives up after _MAX_ATTEMPTS; a restart grants a claimed event at most
\* one attempt more.
AttemptsBounded == \A e \in Events : attempts[e] <= MaxAttempts + crashes

\* A review holds its slot from dispatch until it reports (the words of
\* project_inflight), as long as no write fails and the process is not
\* restarted: the slot of a review at work is never given to another.  The one
\* exception is a review whose task was deleted while its session was not:
\* _release_node gives the slot away with the review still at work.
RunningHoldsSlot ==
    crashes + faults = 0 =>
        \A r \in running :
            \/ lease[r.event] # None /\ lease[r.event].node = r.node
            \/ <<r.event, r.task>> \in deleted

\* An event is reviewed once: a review that reports before the worker has bound
\* its lease is no reason to dispatch it again.  Failed writes and restarts are.
ReviewedOnce == crashes + faults = 0 => \A e \in Events : tasks[e] <= 1

\* A claimed row is the one the worker is dispatching (or waits for a start):
\* none is left behind in "processing", where nothing looks for it, unless the
\* write of _fail fails.
ProcessingWorked ==
    faults = 0 => \A e \in Events : status[e] = "processing" => worker.event = e \/ At("down")

\* Slots are kept and bounded: a review at work has its lease unless its task was
\* deleted, a write failed or the process was restarted, and leases stay within
\* the capacity of nodes and the cap of projects (_try_lease, release_lease,
\* _release_node, project_inflight).
SlotsKept == TypeOK /\ RunningHoldsSlot /\ NodeSlots /\ ProjectCap

\* Every event is dispatched once, a bounded number of times if that fails, and
\* never left behind half way (process_one, _fail).
DispatchedOnce == ReviewedOnce /\ ProcessingWorked /\ AttemptsBounded
=============================================================================
