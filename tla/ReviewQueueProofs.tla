-------------------------- MODULE ReviewQueueProofs -------------------------
(***************************************************************************)
(* Theorems about ReviewQueue for every number of events, projects and     *)
(* nodes, with every capacity, cap and number of attempts, restarts and    *)
(* failed writes.                                                          *)
(***************************************************************************)
EXTENDS ReviewQueue, FiniteSetTheorems, SequenceTheorems, TLAPS

-----------------------------------------------------------------------------
(* The inductive invariant *)

Received == ToSet(created)

\* The event the worker is at, once it has claimed the row.
Claimed == worker.pc \in {"claimed", "leased", "created", "bound", "failing", "released"}

Types ==
    /\ TypeOK /\ projectOf \in [Events -> Projects]
    /\ created \in Seq(Events) /\ crashes \in Nat /\ faults \in Nat

\* The worker has an event while it is at work, and its row is as it left it.
WorkerAtRow ==
    /\ worker.pc \in {"idle", "down"} <=> worker.event = None
    /\ worker.event # None => worker.event \in Received
    /\ At("picked") => worker.event \in Eligible
    /\ Claimed => status[worker.event] = "processing"
    /\ At("leased") => worker.node \in Nodes

\* An event that has not arrived has nothing.
Untouched ==
    \A e \in Events \ Received : attempts[e] = 0 /\ tasks[e] = 0 /\ lease[e] = None

\* What may still be dispatched has an attempt left.
AttemptLeft ==
    \A e \in Events :
        At("down") \/ status[e] = "pending" \/ (status[e] = "failed" /\ retry[e] # "never")
            => attempts[e] < MaxAttempts + crashes

\* Between the test of the cap and the lease no other lease is created.
RoomAhead == At("claimed") => Inflight(projectOf[worker.event]) < Cap

\* Reviews are the tasks that were created.
ReviewsNumbered == \A r \in running : r.task \in 1 .. tasks[r.event]

\* As long as no write fails and the process is not restarted: only an event
\* that is being or was dispatched has a lease or a task, and the worker has
\* the lease it needs and none too early.
Calm ==
    /\ ~At("down")
    /\ \A e \in Events : status[e] \notin {"processing", "completed"} => tasks[e] = 0 /\ lease[e] = None
    /\ worker.pc \in {"claimed", "leased", "failing", "released"} => tasks[worker.event] = 0
    /\ worker.pc \in {"claimed", "released"} => lease[worker.event] = None
    /\ At("leased") => lease[worker.event] # None /\ lease[worker.event].node = worker.node

-----------------------------------------------------------------------------
(* Type correctness *)

LEMMA Constants ==
    /\ IsFiniteSet(Events) /\ None \notin Nodes /\ None \notin Events
    /\ None \notin [node : Nodes, task : Nat] /\ None # "processing"
    /\ Cap \in Nat \ {0} /\ MaxAttempts \in Nat \ {0}
    /\ \A n \in Nodes : Capacity[n] \in Nat \ {0}
BY ReviewAssumption

LEMMA WorkerTypes ==
    ASSUME Types
    PROVE  /\ worker \in [pc : {"idle", "picked", "claimed", "leased", "created", "bound", "failing",
                                "released", "down"},
                          event : Events \cup {None}, node : Nodes \cup {None}]
           /\ DOMAIN worker = {"pc", "event", "node"}
           /\ Idle \in [pc : {"idle"}, event : {None}, node : {None}]
BY DEF Types, TypeOK, Idle

\* The worker has an event while it is at work.
LEMMA AtWork ==
    ASSUME Types, WorkerAtRow, ~At("idle"), ~At("down")
    PROVE  worker.event \in Events /\ worker.event \in Received
BY DEF Types, TypeOK, WorkerAtRow, At, Received

\* The leases after each kind of step.
LEMMA LeaseTypes ==
    ASSUME Types, NEW e \in Events,
           \/ lease' = lease
           \/ lease' = [lease EXCEPT ![e] = None]
           \/ lease' = [x \in Events |-> None]
           \/ \E n \in Nodes : lease' = [lease EXCEPT ![e] = [node |-> n, task |-> 0]]
           \/ lease[e] # None /\ \E k \in Nat : lease' = [lease EXCEPT ![e].task = k]
    PROVE  lease' \in [Events -> {None} \cup [node : Nodes, task : Nat]]
<1> DEFINE Lease == [node : Nodes, task : Nat]
<1>1. lease \in [Events -> {None} \cup Lease]
  BY DEF Types, TypeOK
<1>2. CASE \E n \in Nodes : lease' = [lease EXCEPT ![e] = [node |-> n, task |-> 0]]
  <2>1. PICK n \in Nodes : lease' = [lease EXCEPT ![e] = [node |-> n, task |-> 0]]
    BY <1>2
  <2>2. [node |-> n, task |-> 0] \in Lease
    OBVIOUS
  <2> QED  BY <1>1, <2>1, <2>2
<1>3. CASE lease[e] # None /\ \E k \in Nat : lease' = [lease EXCEPT ![e].task = k]
  <2>1. PICK k \in Nat : lease' = [lease EXCEPT ![e].task = k]
    BY <1>3
  <2>2. lease[e] \in Lease
    BY <1>1, <1>3
  <2>3. [lease[e] EXCEPT !.task = k] \in Lease
    BY <2>2
  <2> QED  BY <1>1, <2>1, <2>3
<1> QED  BY <1>1, <1>2, <1>3

LEMMA ArrivalTypes ==
    ASSUME Types, NEW e \in Events
    PROVE  Append(created, e) \in Seq(Events) /\ ToSet(Append(created, e)) = Received \cup {e}
<1>1. created \in Seq(Events)
  BY DEF Types
<1>2. /\ Append(created, e) \in Seq(Events) /\ Len(created) \in Nat
      /\ DOMAIN created = 1 .. Len(created)
      /\ DOMAIN Append(created, e) = 1 .. Len(created) + 1
      /\ Append(created, e)[Len(created) + 1] = e
      /\ \A i \in 1 .. Len(created) : Append(created, e)[i] = created[i]
  BY <1>1, AppendProperties
<1>3. ToSet(Append(created, e)) \subseteq Received \cup {e}
  <2> SUFFICES ASSUME NEW i \in 1 .. Len(created) + 1
               PROVE  Append(created, e)[i] \in Received \cup {e}
    BY <1>2 DEF ToSet
  <2>1. i \in 1 .. Len(created) \/ i = Len(created) + 1
    BY <1>2
  <2> QED  BY <1>2, <2>1 DEF Received, ToSet
<1>4. Received \cup {e} \subseteq ToSet(Append(created, e))
  <2>1. Len(created) + 1 \in 1 .. Len(created) + 1 /\ \A i \in 1 .. Len(created) : i \in 1 .. Len(created) + 1
    BY <1>2
  <2>2. \A x \in Received : x \in ToSet(Append(created, e))
    BY <1>2, <2>1 DEF Received, ToSet
  <2>3. e \in ToSet(Append(created, e))
    BY <1>2, <2>1 DEF ToSet
  <2> QED  BY <2>2, <2>3
<1> QED  BY <1>2, <1>3, <1>4

\* A write that fails is counted.
LEMMA FaultType ==
    ASSUME Types, NEW f \in BOOLEAN, Fault(f)
    PROVE  /\ faults' \in Nat /\ (crashes + faults' = 0 => crashes + faults = 0 /\ ~f)
           /\ (faults' = 0 => faults = 0 /\ ~f)
BY DEF Types, Fault

\* The rows once older events of the same target are superseded.
Swept(e) == [f \in Events |-> IF f \in Superseded(e) THEN "superseded" ELSE status[f]]

LEMMA AdmitCases ==
    ASSUME Admit
    PROVE  LET e == worker.event IN
           \/ /\ status' = [status EXCEPT ![e] = "ignored"]
              /\ worker' = Idle /\ attempts' = attempts
           \/ status' = Swept(e) /\ worker' = Idle /\ attempts' = attempts
           \/ /\ Admitted(e) /\ status' = [Swept(e) EXCEPT ![e] = "processing"]
              /\ attempts' = [attempts EXCEPT ![e] = @ + 1]
              /\ worker' = [worker EXCEPT !.pc = "claimed"]
<1> DEFINE e == worker.event
<1>1. CASE projectOf[e] \notin enabled
  BY <1>1 DEF Admit
<1>2. CASE projectOf[e] \in enabled /\ ~Admitted(e)
  BY <1>2 DEF Admit, Swept
<1>3. CASE projectOf[e] \in enabled /\ Admitted(e)
  BY <1>3 DEF Admit, Swept, Go
<1> QED  BY <1>1, <1>2, <1>3

\* The steps of the worker keep the types.
LEMMA WorkTypes ==
    ASSUME Types, WorkerAtRow, Work, UNCHANGED projectOf
    PROVE  Types'
<1> DEFINE e == worker.event
<1>0. /\ TypeOK /\ crashes \in Nat /\ faults \in Nat /\ created \in Seq(Events)
      /\ projectOf \in [Events -> Projects] /\ Received \subseteq Events
      /\ status \in [Events -> Statuses] /\ attempts \in [Events -> Nat]
      /\ retry \in [Events -> {"never", "later", "due"}] /\ tasks \in [Events -> Nat]
      /\ lease \in [Events -> {None} \cup [node : Nodes, task : Nat]]
  BY DEF Types, TypeOK, Received
<1>1. /\ Idle \in [pc : {"idle"}, event : {None}, node : {None}]
      /\ worker \in [pc : {"idle", "picked", "claimed", "leased", "created", "bound", "failing",
                           "released", "down"},
                     event : Events \cup {None}, node : Nodes \cup {None}]
  BY WorkerTypes
<1>2. ASSUME Pick PROVE Types'
  <2>1. PICK x \in Eligible : worker' = [Idle EXCEPT !.pc = "picked", !.event = x]
    BY <1>2 DEF Pick
  <2>2. x \in Events
    BY <1>0 DEF Eligible, Received
  <2>3. worker' \in [pc : {"picked"}, event : Events, node : {None}]
    BY <2>1, <2>2 DEF Idle
  <2> QED  BY <1>0, <1>2, <2>3 DEF Pick, Types, TypeOK, rows, reviews, bounds
<1>3. ASSUME Admit PROVE Types'
  <2>0. e \in Events
    BY <1>3, AtWork DEF Admit, At
  <2>1. Swept(e) \in [Events -> Statuses] /\ "ignored" \in Statuses /\ "processing" \in Statuses
    BY <1>0 DEF Statuses, Swept
  <2>2. status' \in [Events -> Statuses] /\ attempts' \in [Events -> Nat]
    <3>1. [status EXCEPT ![e] = "ignored"] \in [Events -> Statuses]
      BY <1>0, <2>1
    <3>2. [Swept(e) EXCEPT ![e] = "processing"] \in [Events -> Statuses]
      BY <2>1
    <3>3. [attempts EXCEPT ![e] = @ + 1] \in [Events -> Nat]
      BY <1>0, <2>0
    <3> QED  BY <1>0, <1>3, <2>1, <3>1, <3>2, <3>3, AdmitCases
  <2>3. worker' = Idle \/ worker' = [worker EXCEPT !.pc = "claimed"]
    BY <1>3, AdmitCases
  <2> QED  BY <1>0, <1>1, <1>3, <2>2, <2>3 DEF Admit, Types, TypeOK, reviews, bounds
<1>4. ASSUME Refuse PROVE Types'
  BY <1>0, <1>1, <1>4 DEF Refuse, Go, Types, TypeOK, rows, reviews, bounds
<1>5. ASSUME NEW ready \in SUBSET Nodes, Acquire(ready) PROVE Types'
  <2>0. e \in Events
    BY <1>5, AtWork DEF Acquire, At
  <2>1. PICK n \in Nodes :
          /\ worker' = [worker EXCEPT !.pc = "leased", !.node = n]
          /\ lease' = lease \/ lease' = [lease EXCEPT ![e] = [node |-> n, task |-> 0]]
    BY <1>5 DEF Acquire
  <2>2. lease' \in [Events -> {None} \cup [node : Nodes, task : Nat]]
    BY <2>0, <2>1, LeaseTypes
  <2> QED  BY <1>0, <1>1, <1>5, <2>1, <2>2 DEF Acquire, Types, TypeOK, rows, reviews, bounds
<1>6. ASSUME NEW f \in BOOLEAN, GiveBack(f) PROVE Types'
  <2>0. e \in Events
    BY <1>6, AtWork DEF GiveBack, At
  <2>1. lease' \in [Events -> {None} \cup [node : Nodes, task : Nat]]
    BY <1>6, <2>0, LeaseTypes DEF GiveBack
  <2>2. faults' \in Nat
    BY <1>6, FaultType DEF GiveBack
  <2> QED  BY <1>0, <1>1, <1>6, <2>1, <2>2 DEF GiveBack, Go, Types, TypeOK, rows, reviews
<1>7. ASSUME CreateTask PROVE Types'
  <2>0. e \in Events /\ worker.node \in Nodes
    BY <1>7, AtWork DEF CreateTask, At, WorkerAtRow
  <2>1. tasks' \in [Events -> Nat]
    BY <1>0, <1>7, <2>0 DEF CreateTask
  <2>2. running' = running \cup {[event |-> e, task |-> tasks[e] + 1, node |-> worker.node]}
    BY <1>7 DEF CreateTask
  <2>3. running' \subseteq [event : Events, task : Nat, node : Nodes]
    BY <1>0, <2>0, <2>2 DEF TypeOK
  <2> QED  BY <1>0, <1>1, <1>7, <2>1, <2>3 DEF CreateTask, Go, Types, TypeOK, rows, bounds
<1>8. ASSUME NEW f \in BOOLEAN, BindLeaseTask(f) PROVE Types'
  <2>0. e \in Events /\ tasks[e] \in Nat
    BY <1>0, <1>8, AtWork DEF BindLeaseTask, At
  <2>1. lease' = lease \/ (lease[e] # None /\ lease' = [lease EXCEPT ![e].task = tasks[e]])
    BY <1>8 DEF BindLeaseTask
  <2>2. lease' \in [Events -> {None} \cup [node : Nodes, task : Nat]]
    BY <2>0, <2>1, LeaseTypes
  <2>3. faults' \in Nat
    BY <1>8, FaultType DEF BindLeaseTask
  <2>4. worker' = [worker EXCEPT !.pc = "failing"] \/ worker' = [worker EXCEPT !.pc = "bound"]
    BY <1>8 DEF BindLeaseTask, Go
  <2> QED  BY <1>0, <1>1, <1>8, <2>2, <2>3, <2>4 DEF BindLeaseTask, Types, TypeOK, rows, reviews
<1>9. ASSUME NEW f \in BOOLEAN, Save(f) PROVE Types'
  <2>0. e \in Events
    BY <1>9, AtWork DEF Save, At
  <2>1. status' \in [Events -> Statuses] /\ retry' \in [Events -> {"never", "later", "due"}]
    BY <1>0, <1>9, <2>0 DEF Save, Statuses
  <2>2. faults' \in Nat
    BY <1>9, FaultType DEF Save
  <2>3. worker' = Idle \/ worker' = [worker EXCEPT !.pc = "failing"]
    BY <1>9 DEF Save, Go
  <2> QED  BY <1>0, <1>1, <1>9, <2>1, <2>2, <2>3 DEF Save, Types, TypeOK, reviews
<1>10. ASSUME NEW f \in BOOLEAN, FailRelease(f) PROVE Types'
  <2>0. e \in Events
    BY <1>10, AtWork DEF FailRelease, At
  <2>1. lease' \in [Events -> {None} \cup [node : Nodes, task : Nat]]
    BY <1>10, <2>0, LeaseTypes DEF FailRelease
  <2>2. faults' \in Nat
    BY <1>10, FaultType DEF FailRelease
  <2> QED  BY <1>0, <1>1, <1>10, <2>1, <2>2 DEF FailRelease, Go, Types, TypeOK, rows, reviews
<1>11. ASSUME NEW f \in BOOLEAN, FailSave(f) PROVE Types'
  <2>0. e \in Events
    BY <1>11, AtWork DEF FailSave, At
  <2>1. status' \in [Events -> Statuses] /\ retry' \in [Events -> {"never", "later", "due"}]
    BY <1>0, <1>11, <2>0 DEF FailSave, Statuses
  <2>2. faults' \in Nat
    BY <1>11, FaultType DEF FailSave
  <2> QED  BY <1>0, <1>1, <1>11, <2>1, <2>2 DEF FailSave, Types, TypeOK, reviews
<1> QED  BY <1>2, <1>3, <1>4, <1>5, <1>6, <1>7, <1>8, <1>9, <1>10, <1>11 DEF Work

LEMMA NextTypes ==
    ASSUME Types, WorkerAtRow, [Next]_vars
    PROVE  Types'
<1>0. /\ TypeOK /\ crashes \in Nat /\ faults \in Nat /\ created \in Seq(Events)
      /\ projectOf \in [Events -> Projects] /\ Received \subseteq Events
      /\ status \in [Events -> Statuses] /\ retry \in [Events -> {"never", "later", "due"}]
      /\ lease \in [Events -> {None} \cup [node : Nodes, task : Nat]]
      /\ running \subseteq [event : Events, task : Nat, node : Nodes]
  BY DEF Types, TypeOK, Received
<1>1. Idle \in [pc : {"idle"}, event : {None}, node : {None}]
  BY WorkerTypes
<1>2. CASE UNCHANGED vars
  BY <1>0, <1>2 DEF vars, rows, reviews, bounds, Types, TypeOK
<1>11. ASSUME Next PROVE UNCHANGED projectOf
  BY <1>11 DEF Next
<1>3. ASSUME Next, Crash PROVE Types'
  BY <1>0, <1>1, <1>11, <1>3 DEF Crash, Idle, Types, TypeOK, rows, reviews
<1>4. ASSUME Next, Start PROVE Types'
  <2>1. status' \in [Events -> Statuses]
    BY <1>0, <1>4 DEF Start, Statuses
  <2>2. lease' \in [Events -> {None} \cup [node : Nodes, task : Nat]]
    BY <1>4 DEF Start
  <2> QED  BY <1>0, <1>1, <1>11, <1>4, <2>1, <2>2 DEF Start, Types, TypeOK, reviews, bounds
<1>5. ASSUME Next, NEW e \in Events, NEW b \in BOOLEAN, Deliver(e, b) PROVE Types'
  <2>1. created' \in Seq(Events) /\ ToSet(created') \subseteq Events
    BY <1>0, <1>5, ArrivalTypes DEF Deliver
  <2>2. status' \in [Events -> Statuses]
    BY <1>0, <1>5 DEF Deliver, Statuses
  <2> QED  BY <1>0, <1>11, <1>5, <2>1, <2>2 DEF Deliver, Types, TypeOK, reviews, bounds
<1>6. ASSUME Next, NEW e \in Events, RetryDue(e) PROVE Types'
  <2>1. retry' \in [Events -> {"never", "later", "due"}]
    BY <1>0, <1>6 DEF RetryDue
  <2> QED  BY <1>0, <1>11, <1>6, <2>1 DEF RetryDue, Types, TypeOK, reviews, bounds
<1>7. ASSUME Next, NEW p \in Projects, Toggle(p) PROVE Types'
  BY <1>0, <1>11, <1>7 DEF Toggle, Types, TypeOK, rows, reviews, bounds
<1>8. ASSUME Next, NEW r \in running, Die(r) PROVE Types'
  BY <1>0, <1>11, <1>8 DEF Die, Types, TypeOK, rows, bounds
<1>9. ASSUME Next, NEW r \in running, NEW f \in BOOLEAN, CompleteReview(r, f) PROVE Types'
  <2>1. r.event \in Events
    BY <1>0
  <2>2. lease' = lease \/ lease' = [lease EXCEPT ![r.event] = None]
    BY <1>9 DEF CompleteReview
  <2>3. lease' \in [Events -> {None} \cup [node : Nodes, task : Nat]]
    BY <2>1, <2>2, LeaseTypes
  <2>4. faults' \in Nat
    BY <1>9, FaultType DEF CompleteReview
  <2> QED  BY <1>0, <1>11, <1>9, <2>3, <2>4 DEF CompleteReview, Types, TypeOK, rows
<1>10. ASSUME Next, NEW e \in Events, NEW k \in 1 .. tasks[e], NEW b \in BOOLEAN, DeleteTask(e, k, b) PROVE Types'
  <2>1. lease' \in [Events -> {None} \cup [node : Nodes, task : Nat]]
    BY <1>10, LeaseTypes DEF DeleteTask
  <2> QED  BY <1>0, <1>11, <1>10, <2>1 DEF DeleteTask, Types, TypeOK, rows, bounds
<1> QED  BY <1>2, <1>11, <1>3, <1>4, <1>5, <1>6, <1>7, <1>8, <1>9, <1>10, WorkTypes DEF Next

-----------------------------------------------------------------------------
(* Rows and attempts *)

RowInv ==
    Types /\ WorkerAtRow /\ Untouched /\ AttemptLeft /\ AttemptsBounded /\ ProcessingWorked

\* A step that leaves rows and worker alone.
LEMMA RowsAlone ==
    ASSUME RowInv, UNCHANGED <<rows, worker, crashes>>, faults' = 0 => faults = 0,
           \A e \in Events \ Received : tasks'[e] = 0 /\ lease'[e] = None
    PROVE  WorkerAtRow' /\ Untouched' /\ AttemptLeft' /\ AttemptsBounded' /\ ProcessingWorked'
BY DEF RowInv, rows, WorkerAtRow, Untouched, AttemptLeft, AttemptsBounded, ProcessingWorked,
       Received, Claimed, At, Eligible

\* The worker goes on with the event it has claimed.
LEMMA WorkerMoves ==
    ASSUME RowInv, UNCHANGED <<rows, crashes>>, faults' = 0 => faults = 0,
           Claimed, worker'.event = worker.event,
           worker'.pc \in {"claimed", "leased", "created", "bound", "failing", "released"},
           worker'.pc = "leased" => worker'.node \in Nodes,
           \A e \in Events \ Received : tasks'[e] = 0 /\ lease'[e] = None
    PROVE  WorkerAtRow' /\ Untouched' /\ AttemptLeft' /\ AttemptsBounded' /\ ProcessingWorked'
<1>1. WorkerAtRow'
  BY DEF RowInv, rows, WorkerAtRow, Received, Claimed, At
<1>2. Untouched' /\ AttemptsBounded'
  BY DEF RowInv, rows, Untouched, AttemptsBounded, Received
<1>3. AttemptLeft'
  BY DEF RowInv, rows, AttemptLeft, Claimed, At
<1>4. ProcessingWorked'
  BY DEF RowInv, rows, ProcessingWorked, Claimed, At
<1> QED  BY <1>1, <1>2, <1>3, <1>4

LEMMA WorkRows ==
    ASSUME RowInv, Work
    PROVE  WorkerAtRow' /\ Untouched' /\ AttemptLeft' /\ AttemptsBounded' /\ ProcessingWorked'
<1> DEFINE e == worker.event
           Kept == WorkerAtRow' /\ Untouched' /\ AttemptLeft' /\ AttemptsBounded' /\ ProcessingWorked'
<1>0. /\ Types /\ WorkerAtRow /\ Untouched /\ AttemptLeft /\ AttemptsBounded /\ ProcessingWorked
      /\ crashes \in Nat /\ Received \subseteq Events
      /\ status \in [Events -> Statuses] /\ attempts \in [Events -> Nat]
      /\ retry \in [Events -> {"never", "later", "due"}] /\ tasks \in [Events -> Nat]
      /\ lease \in [Events -> {None} \cup [node : Nodes, task : Nat]]
  BY DEF RowInv, Types, TypeOK, Received
<1>1. /\ Idle.pc = "idle" /\ Idle.event = None
      /\ worker \in [pc : {"idle", "picked", "claimed", "leased", "created", "bound", "failing",
                           "released", "down"},
                     event : Events \cup {None}, node : Nodes \cup {None}]
  BY <1>0, WorkerTypes DEF Idle
<1>2. ASSUME Pick PROVE Kept
  <2>1. PICK x \in Eligible : worker' = [Idle EXCEPT !.pc = "picked", !.event = x]
    BY <1>2 DEF Pick
  <2>2. worker'.pc = "picked" /\ worker'.event = x /\ x \in Received /\ x \in Events
    BY <1>0, <2>1 DEF Idle, Eligible, Received
  <2>3. At("idle") /\ worker.event = None /\ UNCHANGED <<created, status, attempts, retry, tasks, lease, crashes, faults>>
    BY <1>0, <1>2 DEF Pick, At, WorkerAtRow, rows, reviews, bounds
  <2>4. WorkerAtRow'
    BY <2>2, <2>3, Constants DEF WorkerAtRow, Received, Claimed, At, Eligible
  <2>5. Untouched' /\ AttemptsBounded' /\ AttemptLeft'
    BY <1>0, <2>2, <2>3 DEF Untouched, AttemptsBounded, AttemptLeft, Received, At
  <2>6. ProcessingWorked'
    BY <1>0, <2>3, Constants DEF ProcessingWorked, At
  <2> QED  BY <2>4, <2>5, <2>6
<1>3. ASSUME Admit PROVE Kept
  <2>1. At("picked") /\ UNCHANGED <<created, retry, tasks, lease, crashes, faults>>
    BY <1>3 DEF Admit, reviews, bounds
  <2>2. e \in Events /\ e \in Received /\ e \in Eligible
    BY <1>0, <2>1, AtWork DEF At, WorkerAtRow
  <2>3. /\ status[e] = "pending" \/ (status[e] = "failed" /\ retry[e] # "never")
        /\ status[e] # "processing"
    BY <2>2 DEF Eligible
  <2>4. attempts[e] < MaxAttempts + crashes
    BY <1>0, <2>2, <2>3 DEF AttemptLeft
  <2>5. \A f \in Events : /\ Swept(e)[f] = status[f] \/ Swept(e)[f] = "superseded"
    BY DEF Swept
  <2>6. Swept(e) \in [Events -> Statuses]
    BY <1>0 DEF Swept, Statuses
  <2>7. /\ \A f \in Events \ {e} : status'[f] = status[f] \/ status'[f] = "superseded"
        /\ \/ status'[e] = "processing" /\ worker'.event = e /\ worker'.pc = "claimed"
              /\ attempts' = [attempts EXCEPT ![e] = @ + 1]
           \/ worker' = Idle /\ attempts' = attempts
              /\ status'[e] \in {"ignored", "superseded", status[e]}
    <3>1. CASE status' = [status EXCEPT ![e] = "ignored"] /\ worker' = Idle /\ attempts' = attempts
      BY <1>0, <2>2, <3>1
    <3>2. CASE status' = Swept(e) /\ worker' = Idle /\ attempts' = attempts
      BY <2>2, <2>5, <3>2
    <3>3. CASE /\ status' = [Swept(e) EXCEPT ![e] = "processing"]
               /\ attempts' = [attempts EXCEPT ![e] = @ + 1]
               /\ worker' = [worker EXCEPT !.pc = "claimed"]
      <4>1. status'[e] = "processing" /\ \A f \in Events \ {e} : status'[f] = Swept(e)[f]
        BY <2>2, <2>6, <3>3
      <4>2. worker'.event = e /\ worker'.pc = "claimed"
        BY <1>1, <3>3
      <4> QED  BY <2>5, <3>3, <4>1, <4>2
    <3> QED  BY <1>3, <3>1, <3>2, <3>3, AdmitCases
  <2>8. WorkerAtRow'
    BY <1>1, <2>1, <2>2, <2>7, Constants DEF WorkerAtRow, Received, Claimed, At
  <2>9. \A f \in Events \ {e} : attempts'[f] = attempts[f]
    BY <1>0, <2>7
  <2>10. Untouched'
    BY <1>0, <2>1, <2>2, <2>9 DEF Untouched, Received
  <2>11. AttemptLeft'
    <3>1. worker'.pc # "down"
      BY <1>1, <2>7
    <3> QED  BY <1>0, <2>1, <2>3, <2>7, <2>9, <3>1 DEF AttemptLeft, At
  <2>12. AttemptsBounded'
    <3>1. attempts'[e] = attempts[e] \/ attempts'[e] = attempts[e] + 1
      BY <1>0, <2>2, <2>7
    <3>2. attempts[e] \in Nat /\ MaxAttempts \in Nat /\ crashes' = crashes
      BY <1>0, <2>1, <2>2, Constants
    <3>3. attempts'[e] <= MaxAttempts + crashes'
      BY <1>0, <2>4, <3>1, <3>2
    <3> QED  BY <1>0, <2>9, <3>2, <3>3 DEF AttemptsBounded
  <2>13. ProcessingWorked'
    BY <1>0, <1>1, <2>1, <2>3, <2>7 DEF ProcessingWorked, At
  <2> QED  BY <2>8, <2>10, <2>11, <2>12, <2>13
<1>4. ASSUME Refuse PROVE Kept
  <2>1. /\ Claimed /\ worker'.event = worker.event /\ worker'.pc = "failing"
        /\ UNCHANGED <<rows, crashes, faults, tasks, lease>>
    BY <1>1, <1>4 DEF Refuse, Go, At, Claimed, reviews, bounds
  <2> QED  BY <1>0, <2>1, WorkerMoves DEF Untouched
<1>5. ASSUME NEW ready \in SUBSET Nodes, Acquire(ready) PROVE Kept
  <2>0. e \in Events /\ e \in Received /\ Claimed
    BY <1>0, <1>5, AtWork DEF Acquire, At, Claimed
  <2>1. PICK n \in Nodes :
          /\ worker' = [worker EXCEPT !.pc = "leased", !.node = n]
          /\ lease' = lease \/ lease' = [lease EXCEPT ![e] = [node |-> n, task |-> 0]]
    BY <1>5 DEF Acquire
  <2>2. worker'.event = worker.event /\ worker'.pc = "leased" /\ worker'.node \in Nodes
    BY <1>1, <2>1
  <2>3. \A x \in Events \ Received : lease'[x] = None
    BY <1>0, <2>0, <2>1 DEF Untouched
  <2>4. UNCHANGED <<rows, crashes, faults, tasks>>
    BY <1>5 DEF Acquire, reviews, bounds
  <2> QED  BY <1>0, <2>0, <2>2, <2>3, <2>4, WorkerMoves DEF Untouched
<1>6. ASSUME NEW f \in BOOLEAN, GiveBack(f) \/ FailRelease(f) PROVE Kept
  <2>0. e \in Events /\ e \in Received /\ Claimed
    BY <1>0, <1>6, AtWork DEF GiveBack, FailRelease, At, Claimed
  <2>1. /\ worker' = [worker EXCEPT !.pc = "failing"] \/ worker' = [worker EXCEPT !.pc = "released"]
        /\ lease' = lease \/ lease' = [lease EXCEPT ![e] = None]
        /\ UNCHANGED <<rows, crashes, tasks>> /\ Fault(f)
    BY <1>6 DEF GiveBack, FailRelease, Go, reviews
  <2>2. worker'.event = worker.event /\ worker'.pc \in {"failing", "released"}
    BY <1>1, <2>1
  <2>3. \A x \in Events \ Received : lease'[x] = None
    BY <1>0, <2>0, <2>1 DEF Untouched
  <2>4. faults' = 0 => faults = 0
    BY <1>0, <2>1, FaultType
  <2> QED  BY <1>0, <2>0, <2>1, <2>2, <2>3, <2>4, WorkerMoves DEF Untouched
<1>7. ASSUME CreateTask PROVE Kept
  <2>0. e \in Events /\ e \in Received /\ Claimed
    BY <1>0, <1>7, AtWork DEF CreateTask, At, Claimed
  <2>1. /\ worker' = [worker EXCEPT !.pc = "created"] /\ tasks' = [tasks EXCEPT ![e] = @ + 1]
        /\ UNCHANGED <<rows, crashes, faults, lease>>
    BY <1>7 DEF CreateTask, Go, bounds
  <2>2. worker'.event = worker.event /\ worker'.pc = "created"
    BY <1>1, <2>1
  <2>3. \A x \in Events \ Received : tasks'[x] = 0
    BY <1>0, <2>0, <2>1 DEF Untouched
  <2> QED  BY <1>0, <2>0, <2>1, <2>2, <2>3, WorkerMoves DEF Untouched
<1>8. ASSUME NEW f \in BOOLEAN, BindLeaseTask(f) PROVE Kept
  <2>0. e \in Events /\ e \in Received /\ Claimed
    BY <1>0, <1>8, AtWork DEF BindLeaseTask, At, Claimed
  <2>1. /\ worker' = [worker EXCEPT !.pc = "failing"] \/ worker' = [worker EXCEPT !.pc = "bound"]
        /\ lease' = lease \/ lease' = [lease EXCEPT ![e].task = tasks[e]]
        /\ UNCHANGED <<rows, crashes, tasks>> /\ Fault(f)
    BY <1>8 DEF BindLeaseTask, Go, reviews
  <2>2. worker'.event = worker.event /\ worker'.pc \in {"failing", "bound"}
    BY <1>1, <2>1
  <2>3. \A x \in Events \ Received : lease'[x] = None
    BY <1>0, <2>0, <2>1 DEF Untouched
  <2>4. faults' = 0 => faults = 0
    BY <1>0, <2>1, FaultType
  <2> QED  BY <1>0, <2>0, <2>1, <2>2, <2>3, <2>4, WorkerMoves DEF Untouched
<1>9. ASSUME NEW f \in BOOLEAN, Save(f) \/ FailSave(f) PROVE Kept
  <2>0. e \in Events /\ e \in Received /\ Claimed /\ status[e] = "processing"
    BY <1>0, <1>9, AtWork DEF Save, FailSave, At, Claimed, WorkerAtRow
  <2>1. UNCHANGED <<created, attempts, lease, tasks, crashes>> /\ Fault(f)
    BY <1>9 DEF Save, FailSave, reviews
  <2>2. faults' = 0 => faults = 0 /\ ~f
    BY <1>0, <2>1, FaultType
  <2>3. CASE worker' # Idle
    <3>1. worker' = [worker EXCEPT !.pc = "failing"] /\ UNCHANGED <<status, retry>>
      BY <1>9, <2>3 DEF Save, FailSave, Go
    <3>2. worker'.event = worker.event /\ worker'.pc = "failing"
      BY <1>1, <3>1
    <3> QED  BY <1>0, <2>0, <2>1, <2>2, <3>1, <3>2, WorkerMoves DEF Untouched, rows
  <2>4. CASE worker' = Idle
    <3>1. /\ f => status' = status /\ retry' = retry
          /\ ~f => \/ /\ status' = [status EXCEPT ![e] = "completed"]
                      /\ retry' = [retry EXCEPT ![e] = "never"]
                   \/ /\ status' = [status EXCEPT ![e] = "failed"]
                      /\ retry' = [retry EXCEPT ![e] = IF GivenUp(e) THEN "never" ELSE "later"]
      BY <1>9, <2>4, <1>1 DEF Save, FailSave, Go
    <3>2. /\ \A x \in Events \ {e} : status'[x] = status[x] /\ retry'[x] = retry[x]
          /\ f => status'[e] = "processing"
          /\ ~f => status'[e] = "completed" \/ (status'[e] = "failed" /\ (GivenUp(e) => retry'[e] = "never"))
      BY <1>0, <2>0, <3>1
    <3>3. WorkerAtRow'
      BY <1>1, <2>4 DEF WorkerAtRow, Claimed, At
    <3>4. Untouched' /\ AttemptsBounded'
      BY <1>0, <2>1 DEF Untouched, AttemptsBounded, Received
    <3>5. AttemptLeft'
      <4>1. ~GivenUp(e) => attempts[e] < MaxAttempts + crashes
        BY <1>0, <2>0, Constants DEF GivenUp
      <4> QED  BY <1>0, <1>1, <2>1, <2>4, <3>2, <4>1 DEF AttemptLeft, At
    <3>6. ProcessingWorked'
      BY <1>0, <2>0, <2>2, <3>2 DEF ProcessingWorked, At, Claimed
    <3> QED  BY <3>3, <3>4, <3>5, <3>6
  <2> QED  BY <2>3, <2>4
<1> QED  BY <1>2, <1>3, <1>4, <1>5, <1>6, <1>7, <1>8, <1>9 DEF Work

LEMMA NextRows ==
    ASSUME RowInv, [Next]_vars
    PROVE  RowInv'
<1> DEFINE Kept == WorkerAtRow' /\ Untouched' /\ AttemptLeft' /\ AttemptsBounded' /\ ProcessingWorked'
<1>0. /\ Types /\ WorkerAtRow /\ Untouched /\ AttemptLeft /\ AttemptsBounded /\ ProcessingWorked
      /\ crashes \in Nat /\ Received \subseteq Events
      /\ status \in [Events -> Statuses] /\ attempts \in [Events -> Nat]
      /\ retry \in [Events -> {"never", "later", "due"}] /\ tasks \in [Events -> Nat]
      /\ lease \in [Events -> {None} \cup [node : Nodes, task : Nat]]
      /\ running \subseteq [event : Events, task : Nat, node : Nodes]
  BY DEF RowInv, Types, TypeOK, Received
<1>1. Idle.pc = "idle" /\ Idle.event = None /\ Idle = [pc |-> "idle", event |-> None, node |-> None]
  BY DEF Idle
<1>2. ASSUME UNCHANGED vars PROVE Kept
  BY <1>0, <1>2, RowsAlone DEF vars, rows, reviews, bounds, Untouched
<1>3. ASSUME Crash PROVE Kept
  <2>1. /\ worker'.pc = "down" /\ worker'.event = None /\ crashes' = crashes + 1
        /\ UNCHANGED <<created, status, attempts, retry, tasks, lease, faults>>
    BY <1>1, <1>3 DEF Crash, rows, reviews
  <2>2. WorkerAtRow' /\ ProcessingWorked' /\ Untouched'
    BY <1>0, <2>1 DEF WorkerAtRow, ProcessingWorked, Untouched, Received, Claimed, At
  <2>3. \A e \in Events : attempts[e] \in Nat /\ attempts[e] < MaxAttempts + crashes'
    BY <1>0, <2>1, Constants DEF AttemptsBounded
  <2>4. AttemptsBounded' /\ AttemptLeft'
    BY <1>0, <2>1, <2>3, Constants DEF AttemptsBounded, AttemptLeft
  <2> QED  BY <2>2, <2>4
<1>4. ASSUME Start PROVE Kept
  <2>1. /\ At("down") /\ worker'.pc = "idle" /\ worker'.event = None
        /\ UNCHANGED <<created, attempts, retry, tasks, crashes>>
        /\ \A e \in Events : lease'[e] = None /\ status'[e] # "processing"
    BY <1>1, <1>4 DEF Start, reviews, bounds
  <2>2. WorkerAtRow' /\ ProcessingWorked' /\ Untouched' /\ AttemptsBounded'
    BY <1>0, <2>1 DEF WorkerAtRow, ProcessingWorked, Untouched, AttemptsBounded, Received, Claimed, At
  <2>3. AttemptLeft'
    BY <1>0, <2>1 DEF AttemptLeft
  <2> QED  BY <2>2, <2>3
<1>5. ASSUME NEW e \in Events, NEW b \in BOOLEAN, Deliver(e, b) PROVE Kept
  <2>1. /\ e \notin Received /\ Received' = Received \cup {e} /\ ~At("down")
        /\ UNCHANGED <<attempts, retry, tasks, lease, worker, crashes, faults>>
    BY <1>0, <1>5, ArrivalTypes DEF Deliver, Received, Up, reviews, bounds
  <2>2. /\ \A x \in Events \ {e} : status'[x] = status[x]
        /\ status'[e] \in {"pending", "ignored"}
    BY <1>0, <1>5 DEF Deliver
  <2>3. worker.event # e
    BY <1>0, <2>1, Constants DEF WorkerAtRow
  <2>4. WorkerAtRow'
    <3>1. worker.event # None => worker.event \in Events \ {e}
      BY <1>0, <2>3 DEF WorkerAtRow
    <3>2. worker.event # None => status'[worker.event] = status[worker.event]
      BY <2>2, <3>1
    <3>3. Claimed \/ At("picked") => worker.event # None
      BY <1>0 DEF WorkerAtRow, Claimed, At
    <3> QED  BY <1>0, <2>1, <3>2, <3>3 DEF WorkerAtRow, Claimed, At, Eligible, Received
  <2>5. Untouched' /\ AttemptsBounded'
    BY <1>0, <2>1 DEF Untouched, AttemptsBounded
  <2>6. AttemptLeft'
    <3>1. attempts[e] < MaxAttempts + crashes
      BY <1>0, <2>1, Constants DEF Untouched
    <3> QED  BY <1>0, <2>1, <2>2, <3>1 DEF AttemptLeft, At
  <2>7. ProcessingWorked'
    BY <1>0, <2>1, <2>2 DEF ProcessingWorked, At
  <2> QED  BY <2>4, <2>5, <2>6, <2>7
<1>6. ASSUME NEW e \in Events, RetryDue(e) PROVE Kept
  <2>1. /\ retry[e] = "later" /\ retry'[e] = "due" /\ \A x \in Events \ {e} : retry'[x] = retry[x]
        /\ UNCHANGED <<created, status, attempts, tasks, lease, worker, crashes, faults>>
    BY <1>0, <1>6 DEF RetryDue, reviews, bounds
  <2>2. \A x \in Events : retry[x] = "due" => retry'[x] = "due"
    BY <2>1
  <2>3. WorkerAtRow'
    BY <1>0, <2>1, <2>2 DEF WorkerAtRow, Claimed, At, Eligible, Received
  <2>4. AttemptLeft'
    BY <1>0, <2>1 DEF AttemptLeft, At
  <2> QED  BY <1>0, <2>1, <2>3, <2>4 DEF Untouched, AttemptsBounded, ProcessingWorked, Received, At
<1>7. ASSUME NEW p \in Projects, Toggle(p) PROVE Kept
  BY <1>0, <1>7, RowsAlone DEF Toggle, rows, reviews, bounds, Untouched
<1>8. ASSUME NEW r \in running, Die(r) PROVE Kept
  BY <1>0, <1>8, RowsAlone DEF Die, rows, bounds, Untouched
<1>9. ASSUME NEW r \in running, NEW f \in BOOLEAN, CompleteReview(r, f) PROVE Kept
  <2>1. faults' = 0 => faults = 0
    BY <1>0, <1>9, FaultType DEF CompleteReview
  <2>2. lease' = lease \/ lease' = [lease EXCEPT ![r.event] = None]
    BY <1>9 DEF CompleteReview
  <2>3. \A x \in Events \ Received : lease'[x] = None
    BY <1>0, <2>2 DEF Untouched
  <2> QED  BY <1>0, <1>9, <2>1, <2>3, RowsAlone DEF CompleteReview, rows, Untouched
<1>10. ASSUME NEW e \in Events, NEW k \in 1 .. tasks[e], NEW b \in BOOLEAN, DeleteTask(e, k, b) PROVE Kept
  <2>1. lease' = lease \/ lease' = [lease EXCEPT ![e] = None]
    BY <1>10 DEF DeleteTask
  <2>2. \A x \in Events \ Received : lease'[x] = None
    BY <1>0, <2>1 DEF Untouched
  <2> QED  BY <1>0, <1>10, <2>2, RowsAlone DEF DeleteTask, rows, bounds, Untouched
<1>11. Kept
  BY <1>2, <1>3, <1>4, <1>5, <1>6, <1>7, <1>8, <1>9, <1>10, WorkRows DEF Next
<1> QED  BY <1>0, <1>11, NextTypes DEF RowInv

-----------------------------------------------------------------------------
(* Capacity and cap *)

SlotInv == RowInv /\ NodeSlots /\ ProjectCap /\ RoomAhead

OnNode(n) == {e \in Holders : lease[e].node = n}
OfProject(p) == {e \in Holders : projectOf[e] = p}

\* A finite set that loses elements, or gets at most one.
LEMMA AtMostOneMore ==
    ASSUME NEW S \in SUBSET Events, NEW T, NEW x
    PROVE  /\ Cardinality(S) \in Nat
           /\ T \subseteq S => Cardinality(T) \in Nat /\ Cardinality(T) <= Cardinality(S)
           /\ T \subseteq S \cup {x} => Cardinality(T) \in Nat /\ Cardinality(T) <= Cardinality(S) + 1
<1>1. IsFiniteSet(S)
  BY Constants, FS_Subset
<1>2. Cardinality(S) \in Nat
  BY <1>1, FS_CardinalityType
<1>3. ASSUME T \subseteq S PROVE Cardinality(T) \in Nat /\ Cardinality(T) <= Cardinality(S)
  BY <1>1, <1>3, FS_Subset, FS_CardinalityType
<1>4. ASSUME T \subseteq S \cup {x}
      PROVE  Cardinality(T) \in Nat /\ Cardinality(T) <= Cardinality(S) + 1
  <2>1. /\ IsFiniteSet(S \cup {x})
        /\ Cardinality(S \cup {x}) = IF x \in S THEN Cardinality(S) ELSE Cardinality(S) + 1
    BY <1>1, FS_AddElement
  <2>2. Cardinality(T) \in Nat /\ Cardinality(T) <= Cardinality(S \cup {x})
    BY <1>4, <2>1, FS_Subset, FS_CardinalityType
  <2>3. Cardinality(S \cup {x}) \in Nat /\ Cardinality(S \cup {x}) <= Cardinality(S) + 1
    <3>1. CASE x \in S
      BY <1>2, <2>1, <3>1
    <3>2. CASE x \notin S
      BY <1>2, <2>1, <3>2
    <3> QED  BY <3>1, <3>2
  <2> QED  BY <1>2, <2>2, <2>3
<1> QED  BY <1>2, <1>3, <1>4

\* Leases are given back, or get a task.
LEMMA LeasesShrink ==
    ASSUME SlotInv, UNCHANGED projectOf,
           \A e \in Events : lease'[e] # None => lease[e] # None /\ lease'[e].node = lease[e].node,
           At("claimed")' => At("claimed") /\ worker'.event = worker.event
    PROVE  NodeSlots' /\ ProjectCap' /\ RoomAhead'
<1>0. NodeSlots /\ ProjectCap /\ RoomAhead
  BY DEF SlotInv
<1>1. ASSUME NEW n PROVE /\ InUse(n) \in Nat /\ InUse(n)' \in Nat /\ InUse(n)' <= InUse(n)
  <2>1. OnNode(n) \in SUBSET Events /\ OnNode(n)' \subseteq OnNode(n)
    BY DEF OnNode, Holders
  <2>2. InUse(n) = Cardinality(OnNode(n)) /\ InUse(n)' = Cardinality(OnNode(n)')
    BY DEF InUse, OnNode
  <2> QED  BY <2>1, <2>2, AtMostOneMore
<1>2. ASSUME NEW p PROVE Inflight(p) \in Nat /\ Inflight(p)' \in Nat /\ Inflight(p)' <= Inflight(p)
  <2>1. OfProject(p) \in SUBSET Events /\ OfProject(p)' \subseteq OfProject(p)
    BY DEF OfProject, Holders
  <2>2. Inflight(p) = Cardinality(OfProject(p)) /\ Inflight(p)' = Cardinality(OfProject(p)')
    BY DEF Inflight, OfProject
  <2> QED  BY <2>1, <2>2, AtMostOneMore
<1>3. NodeSlots'
  <2> SUFFICES ASSUME NEW n \in Nodes PROVE InUse(n)' <= Capacity[n]
    BY DEF NodeSlots
  <2> QED  BY <1>0, <1>1, Constants DEF NodeSlots
<1>4. ProjectCap'
  <2> SUFFICES ASSUME NEW p \in Projects PROVE Inflight(p)' <= Cap
    BY DEF ProjectCap
  <2> QED  BY <1>0, <1>2, Constants DEF ProjectCap
<1>5. RoomAhead'
  <2> SUFFICES ASSUME At("claimed")' PROVE Inflight(projectOf[worker.event])' < Cap
    BY DEF RoomAhead
  <2>1. PICK p : p = projectOf[worker.event] /\ p = projectOf'[worker'.event]
    OBVIOUS
  <2>2. Inflight(p) < Cap
    BY <1>0, <2>1 DEF RoomAhead
  <2>3. Inflight(p)' < Cap
    BY <1>2, <2>2, Constants
  <2> QED  BY <2>1, <2>3 DEF Inflight
<1> QED  BY <1>3, <1>4, <1>5

\* A lease is taken where a slot is free, and where the cap has left room.
LEMMA LeaseTaken ==
    ASSUME SlotInv, UNCHANGED projectOf, NEW ready \in SUBSET Nodes, Acquire(ready)
    PROVE  NodeSlots' /\ ProjectCap' /\ RoomAhead'
<1> DEFINE e == worker.event
<1>0. /\ NodeSlots /\ ProjectCap /\ RoomAhead /\ Types /\ WorkerAtRow
      /\ lease \in [Events -> {None} \cup [node : Nodes, task : Nat]]
      /\ projectOf \in [Events -> Projects]
  BY DEF SlotInv, RowInv, Types, TypeOK
<1>1. At("claimed") /\ e \in Events
  BY <1>0, AtWork DEF Acquire, At
<1>2. PICK n \in Nodes :
        /\ worker' = [worker EXCEPT !.pc = "leased", !.node = n]
        /\ lease[e] # None => lease' = lease
        /\ lease[e] = None => lease' = [lease EXCEPT ![e] = [node |-> n, task |-> 0]] /\ Free(n)
  BY DEF Acquire
<1>3. ~At("claimed")'
  BY <1>0, <1>2, WorkerTypes DEF At
<1>4. CASE lease[e] # None
  BY <1>2, <1>3, <1>4, LeasesShrink
<1>5. CASE lease[e] = None
  <2>1. /\ lease'[e] = [node |-> n, task |-> 0] /\ \A x \in Events \ {e} : lease'[x] = lease[x]
    BY <1>0, <1>1, <1>2, <1>5
  <2>2. NodeSlots'
    <3> SUFFICES ASSUME NEW m \in Nodes PROVE InUse(m)' <= Capacity[m]
      BY DEF NodeSlots
    <3>1. InUse(m) = Cardinality(OnNode(m)) /\ InUse(m)' = Cardinality(OnNode(m)')
      BY DEF InUse, OnNode
    <3>2. OnNode(m) \in SUBSET Events /\ Capacity[m] \in Nat
      BY Constants DEF OnNode, Holders
    <3>3. CASE m = n
      <4>1. OnNode(m)' \subseteq OnNode(m) \cup {e}
        BY <2>1 DEF OnNode, Holders
      <4>2. InUse(m) < Capacity[m]
        BY <1>2, <1>5, <3>3 DEF Free
      <4>3. /\ Cardinality(OnNode(m)) \in Nat /\ Cardinality(OnNode(m)') \in Nat
            /\ Cardinality(OnNode(m)') <= Cardinality(OnNode(m)) + 1
        BY <3>2, <4>1, AtMostOneMore
      <4> QED  BY <3>1, <3>2, <4>2, <4>3
    <3>4. CASE m # n
      <4>1. OnNode(m)' \subseteq OnNode(m)
        BY <2>1, <3>4 DEF OnNode, Holders
      <4>2. InUse(m) <= Capacity[m]
        BY <1>0 DEF NodeSlots
      <4> QED  BY <3>1, <3>2, <4>1, <4>2, AtMostOneMore
    <3> QED  BY <3>3, <3>4
  <2>3. ProjectCap'
    <3> SUFFICES ASSUME NEW p \in Projects PROVE Inflight(p)' <= Cap
      BY DEF ProjectCap
    <3>1. Inflight(p) = Cardinality(OfProject(p)) /\ Inflight(p)' = Cardinality(OfProject(p)')
      BY DEF Inflight, OfProject
    <3>2. OfProject(p) \in SUBSET Events /\ Cap \in Nat
      BY Constants DEF OfProject, Holders
    <3>3. CASE p = projectOf[e]
      <4>1. OfProject(p)' \subseteq OfProject(p) \cup {e}
        BY <2>1 DEF OfProject, Holders
      <4>2. Inflight(p) < Cap
        BY <1>0, <1>1, <3>3 DEF RoomAhead
      <4>3. /\ Cardinality(OfProject(p)) \in Nat /\ Cardinality(OfProject(p)') \in Nat
            /\ Cardinality(OfProject(p)') <= Cardinality(OfProject(p)) + 1
        BY <3>2, <4>1, AtMostOneMore
      <4> QED  BY <3>1, <3>2, <4>2, <4>3
    <3>4. CASE p # projectOf[e]
      <4>1. OfProject(p)' \subseteq OfProject(p)
        BY <2>1, <3>4 DEF OfProject, Holders
      <4>2. Inflight(p) <= Cap
        BY <1>0 DEF ProjectCap
      <4> QED  BY <3>1, <3>2, <4>1, <4>2, AtMostOneMore
    <3> QED  BY <3>3, <3>4
  <2> QED  BY <1>3, <2>2, <2>3 DEF RoomAhead
<1> QED  BY <1>4, <1>5

LEMMA NextSlots ==
    ASSUME SlotInv, [Next]_vars
    PROVE  SlotInv'
<1> DEFINE Kept == NodeSlots' /\ ProjectCap' /\ RoomAhead'
           e == worker.event
<1>0. /\ RowInv /\ Types /\ WorkerAtRow /\ UNCHANGED projectOf
      /\ lease \in [Events -> {None} \cup [node : Nodes, task : Nat]]
      /\ running \subseteq [event : Events, task : Nat, node : Nodes]
  BY DEF SlotInv, RowInv, Types, TypeOK, Next, vars
<1>1. /\ Idle.pc = "idle" /\ Idle = [pc |-> "idle", event |-> None, node |-> None]
      /\ worker \in [pc : {"idle", "picked", "claimed", "leased", "created", "bound", "failing",
                           "released", "down"},
                     event : Events \cup {None}, node : Nodes \cup {None}]
  BY <1>0, WorkerTypes DEF Idle
<1>2. ASSUME Pick \/ Refuse \/ Crash PROVE Kept
  <2>1. worker'.pc # "claimed" /\ UNCHANGED lease
    BY <1>1, <1>2 DEF Pick, Refuse, Crash, Go
  <2> QED  BY <1>0, <2>1, LeasesShrink DEF At
<1>3. ASSUME Admit PROVE Kept
  <2>1. UNCHANGED lease /\ At("picked")
    BY <1>3 DEF Admit
  <2>2. CASE worker' = Idle
    BY <1>0, <1>1, <2>1, <2>2, LeasesShrink DEF At
  <2>3. CASE Admitted(e) /\ worker' = [worker EXCEPT !.pc = "claimed"]
    <3>1. worker'.event = e /\ projectOf'[worker'.event] = projectOf[e]
      BY <1>0, <1>1, <2>3
    <3>2. NodeSlots' /\ ProjectCap'
      BY <1>0, <2>1 DEF SlotInv, NodeSlots, ProjectCap, InUse, Inflight, Holders
    <3>3. RoomAhead'
      BY <1>0, <2>1, <2>3, <3>1 DEF RoomAhead, Inflight, Holders, Admitted
    <3> QED  BY <3>2, <3>3
  <2> QED  BY <1>3, <2>2, <2>3, AdmitCases
<1>4. ASSUME NEW f \in BOOLEAN, GiveBack(f) \/ FailRelease(f) PROVE Kept
  <2>1. e \in Events
    BY <1>0, <1>4, AtWork DEF GiveBack, FailRelease, At
  <2>2. lease' = lease \/ lease' = [lease EXCEPT ![e] = None]
    BY <1>4 DEF GiveBack, FailRelease
  <2>3. \A x \in Events : lease'[x] # None => lease'[x] = lease[x]
    BY <1>0, <2>1, <2>2
  <2>4. worker'.pc # "claimed"
    BY <1>1, <1>4 DEF GiveBack, FailRelease, Go
  <2> QED  BY <1>0, <2>3, <2>4, LeasesShrink DEF At
<1>5. ASSUME CreateTask PROVE Kept
  <2>1. worker'.pc # "claimed" /\ UNCHANGED lease
    BY <1>1, <1>5 DEF CreateTask, Go
  <2> QED  BY <1>0, <2>1, LeasesShrink DEF At
<1>6. ASSUME NEW f \in BOOLEAN, BindLeaseTask(f) PROVE Kept
  <2>1. e \in Events
    BY <1>0, <1>6, AtWork DEF BindLeaseTask, At
  <2>2. lease' = lease \/ (lease[e] # None /\ lease' = [lease EXCEPT ![e].task = tasks[e]])
    BY <1>6 DEF BindLeaseTask
  <2>3. ASSUME NEW x \in Events, lease'[x] # None
        PROVE  lease[x] # None /\ lease'[x].node = lease[x].node
    <3>1. CASE lease' = lease
      BY <2>3, <3>1
    <3>2. CASE lease[e] # None /\ lease' = [lease EXCEPT ![e].task = tasks[e]]
      <4>1. lease[e] \in [node : Nodes, task : Nat]
        BY <1>0, <2>1, <3>2
      <4>2. lease'[e] = [lease[e] EXCEPT !.task = tasks[e]] /\ (x # e => lease'[x] = lease[x])
        BY <1>0, <2>1, <3>2
      <4>3. lease'[e].node = lease[e].node
        BY <4>1, <4>2
      <4> QED  BY <2>3, <3>2, <4>2, <4>3
    <3> QED  BY <2>2, <3>1, <3>2
  <2>4. worker'.pc # "claimed"
    BY <1>1, <1>6 DEF BindLeaseTask, Go
  <2> QED  BY <1>0, <2>3, <2>4, LeasesShrink DEF At
<1>7. ASSUME NEW f \in BOOLEAN, Save(f) \/ FailSave(f) PROVE Kept
  <2>1. worker'.pc # "claimed" /\ UNCHANGED lease
    BY <1>1, <1>7 DEF Save, FailSave, Go
  <2> QED  BY <1>0, <2>1, LeasesShrink DEF At
<1>8. ASSUME Start PROVE Kept
  <2>1. worker'.pc # "claimed" /\ \A x \in Events : lease'[x] = None
    BY <1>1, <1>8 DEF Start
  <2> QED  BY <1>0, <2>1, LeasesShrink DEF At
<1>9. ASSUME UNCHANGED <<worker, lease>> PROVE Kept
  BY <1>0, <1>9, LeasesShrink DEF At
<1>10. ASSUME NEW r \in running, NEW f \in BOOLEAN, CompleteReview(r, f) PROVE Kept
  <2>1. r.event \in Events /\ UNCHANGED worker
    BY <1>0, <1>10 DEF CompleteReview
  <2>2. lease' = lease \/ lease' = [lease EXCEPT ![r.event] = None]
    BY <1>10 DEF CompleteReview
  <2>3. \A x \in Events : lease'[x] # None => lease'[x] = lease[x]
    BY <1>0, <2>1, <2>2
  <2> QED  BY <1>0, <2>1, <2>3, LeasesShrink DEF At
<1>11. ASSUME NEW x \in Events, NEW k \in 1 .. tasks[x], NEW b \in BOOLEAN, DeleteTask(x, k, b) PROVE Kept
  <2>1. UNCHANGED worker /\ (lease' = lease \/ lease' = [lease EXCEPT ![x] = None])
    BY <1>11 DEF DeleteTask
  <2>2. \A y \in Events : lease'[y] # None => lease'[y] = lease[y]
    BY <1>0, <2>1
  <2> QED  BY <1>0, <2>1, <2>2, LeasesShrink DEF At
<1>12. Kept
  <2>1. CASE Work
    BY <1>0, <1>2, <1>3, <1>4, <1>5, <1>6, <1>7, <2>1, LeaseTaken DEF Work
  <2>2. CASE ~Work
    <3>1. CASE \/ \E x \in Events, b \in BOOLEAN : Deliver(x, b)
               \/ \E x \in Events : RetryDue(x)
               \/ \E p \in Projects : Toggle(p)
               \/ \E r \in running : Die(r)
               \/ UNCHANGED vars
      BY <1>9, <3>1 DEF Deliver, RetryDue, Toggle, Die, vars
    <3> QED  BY <1>2, <1>8, <1>10, <1>11, <2>2, <3>1 DEF Next
  <2> QED  BY <2>1, <2>2
<1> QED  BY <1>0, <1>12, NextRows DEF SlotInv

-----------------------------------------------------------------------------
(* Reviews and their slots *)

Held ==
    \A r \in running : \/ lease[r.event] # None /\ lease[r.event].node = r.node
                       \/ <<r.event, r.task>> \in deleted
Once == \A e \in Events : tasks[e] <= 1

ReviewInv ==
    SlotInv /\ ReviewsNumbered /\ (crashes + faults = 0 => Calm /\ Held /\ Once)

\* A step that leaves leases and reviews alone, and gives no row back.
LEMMA ReviewsAlone ==
    ASSUME Calm, Held, Once, UNCHANGED <<lease, running, tasks>>, deleted \subseteq deleted',
           \A e \in Events : \/ status'[e] \in {"processing", "completed"}
                             \/ status[e] \notin {"processing", "completed"}
                             \/ tasks[e] = 0 /\ lease[e] = None,
           \/ worker'.pc = worker.pc /\ worker'.event = worker.event /\ worker'.node = worker.node
           \/ worker'.pc \in {"idle", "picked", "created", "bound"}
    PROVE  Calm' /\ Held' /\ Once'
<1>1. Calm'
  BY DEF Calm, At
<1> QED  BY <1>1 DEF Held, Once

\* An event without a task has no review.
LEMMA NoReview ==
    ASSUME Types, ReviewsNumbered, NEW e \in Events, tasks[e] = 0
    PROVE  \A r \in running : r.event # e
BY DEF ReviewsNumbered, Types, TypeOK

\* Tasks that were deleted stay so.
LEMMA WorkLeavesTasks == ASSUME Work PROVE deleted \subseteq deleted'
BY DEF Work, Pick, Admit, Refuse, Acquire, GiveBack, CreateTask, BindLeaseTask, Save, FailRelease, FailSave,
       reviews

LEMMA DeletedGrow == ASSUME [Next]_vars PROVE deleted \subseteq deleted'
BY WorkLeavesTasks DEF Next, Crash, Start, Deliver, RetryDue, Toggle, Die, CompleteReview, DeleteTask, reviews, vars

LEMMA WorkReviews ==
    ASSUME ReviewInv, Work, crashes' + faults' = 0
    PROVE  Calm' /\ Held' /\ Once'
<1> DEFINE e == worker.event
           Kept == Calm' /\ Held' /\ Once'
<1>0. /\ Types /\ WorkerAtRow /\ ReviewsNumbered /\ crashes \in Nat /\ faults \in Nat
      /\ status \in [Events -> Statuses] /\ tasks \in [Events -> Nat]
      /\ lease \in [Events -> {None} \cup [node : Nodes, task : Nat]]
      /\ running \subseteq [event : Events, task : Nat, node : Nodes]
  BY DEF ReviewInv, SlotInv, RowInv, Types, TypeOK
<1>d. deleted \subseteq deleted'
  BY WorkLeavesTasks
<1>1. /\ Idle.pc = "idle" /\ Idle = [pc |-> "idle", event |-> None, node |-> None]
      /\ worker \in [pc : {"idle", "picked", "claimed", "leased", "created", "bound", "failing",
                           "released", "down"},
                     event : Events \cup {None}, node : Nodes \cup {None}]
  BY <1>0, WorkerTypes DEF Idle
<1>2. ASSUME crashes + faults = 0 PROVE Calm /\ Held /\ Once
  BY <1>2 DEF ReviewInv
<1>3. ASSUME Pick PROVE Kept
  <2>1. worker'.pc = "picked" /\ UNCHANGED <<lease, running, tasks, status, crashes, faults>>
    BY <1>1, <1>3 DEF Pick, reviews, rows, bounds
  <2> QED  BY <1>d, <1>2, <2>1, ReviewsAlone
<1>4. ASSUME Admit PROVE Kept
  <2>1. At("picked") /\ UNCHANGED <<lease, running, tasks, crashes, faults>>
    BY <1>4 DEF Admit, reviews, bounds
  <2>2. Calm /\ Held /\ Once
    BY <1>2, <2>1
  <2>3. e \in Events /\ status[e] \in {"pending", "failed"}
    BY <1>0, <2>1, AtWork DEF At, WorkerAtRow, Eligible
  <2>4. tasks[e] = 0 /\ lease[e] = None
    BY <2>2, <2>3 DEF Calm
  <2>5. \A f \in Events : Swept(e)[f] = status[f] \/ status[f] = "pending"
    BY DEF Swept, Superseded
  <2>6. /\ \A f \in Events \ {e} : status'[f] = status[f] \/ status[f] = "pending"
        /\ worker' = Idle \/ worker' = [worker EXCEPT !.pc = "claimed"]
    <3>1. DOMAIN Swept(e) = Events /\ DOMAIN status = Events
      BY <1>0 DEF Swept
    <3> QED  BY <1>4, <2>3, <2>5, <3>1, AdmitCases
  <2>7. \A f \in Events : (tasks[f] = 0 /\ lease[f] = None) \/ status'[f] = status[f]
    BY <2>2, <2>4, <2>6 DEF Calm
  <2>8. CASE worker' = Idle
    BY <1>d, <1>1, <2>1, <2>2, <2>7, <2>8, ReviewsAlone
  <2>9. CASE worker' = [worker EXCEPT !.pc = "claimed"]
    <3>1. worker'.pc = "claimed" /\ worker'.event = e
      BY <1>1, <2>9
    <3>2. Calm'
      BY <2>1, <2>2, <2>4, <2>7, <3>1 DEF Calm, At
    <3> QED  BY <1>d, <2>1, <2>2, <3>2 DEF Held, Once
  <2> QED  BY <2>6, <2>8, <2>9
<1>5. ASSUME Refuse PROVE Kept
  <2>1. /\ At("claimed") /\ worker'.pc = "failing" /\ worker'.event = e
        /\ UNCHANGED <<lease, running, tasks, status, crashes, faults>>
    BY <1>1, <1>5 DEF Refuse, Go, reviews, rows, bounds
  <2>2. Calm /\ Held /\ Once
    BY <1>2, <2>1
  <2>3. Calm'
    BY <2>1, <2>2 DEF Calm, At
  <2> QED  BY <1>d, <2>1, <2>2, <2>3 DEF Held, Once
<1>6. ASSUME NEW ready \in SUBSET Nodes, Acquire(ready) PROVE Kept
  <2>1. At("claimed") /\ UNCHANGED <<running, tasks, status, crashes, faults>>
    BY <1>6 DEF Acquire, rows, reviews, bounds
  <2>2. Calm /\ Held /\ Once
    BY <1>2, <2>1
  <2>3. e \in Events /\ tasks[e] = 0 /\ lease[e] = None /\ status[e] = "processing"
    BY <1>0, <2>1, <2>2, AtWork DEF At, Calm, WorkerAtRow, Claimed
  <2>4. PICK n \in Nodes : /\ worker' = [worker EXCEPT !.pc = "leased", !.node = n]
                           /\ lease' = [lease EXCEPT ![e] = [node |-> n, task |-> 0]]
    BY <1>6, <2>3 DEF Acquire
  <2>5. worker'.pc = "leased" /\ worker'.event = e /\ worker'.node = n
    BY <1>1, <2>4
  <2>6. lease'[e] = [node |-> n, task |-> 0] /\ \A x \in Events \ {e} : lease'[x] = lease[x]
    BY <1>0, <2>3, <2>4
  <2>7. lease'[e] # None /\ lease'[e].node = n
    BY <2>6, Constants
  <2>8. Calm'
    BY <2>1, <2>2, <2>3, <2>5, <2>6, <2>7 DEF Calm, At
  <2>9. Held'
    <3>1. \A r \in running : r.event # e /\ r.event \in Events
      BY <1>0, <2>3, NoReview
    <3> QED  BY <1>d, <2>1, <2>2, <2>6, <3>1 DEF Held
  <2> QED  BY <2>1, <2>2, <2>8, <2>9 DEF Once
<1>7. ASSUME NEW f \in BOOLEAN, GiveBack(f) \/ FailRelease(f) PROVE Kept
  <2>1. /\ Fault(f) /\ crashes' = crashes /\ UNCHANGED <<running, tasks, status>>
        /\ At("leased") \/ At("failing")
        /\ worker' = [worker EXCEPT !.pc = "failing"] \/ worker' = [worker EXCEPT !.pc = "released"]
    BY <1>7 DEF GiveBack, FailRelease, Go, rows, reviews
  <2>2. ~f /\ Calm /\ Held /\ Once
    BY <1>0, <1>2, <2>1, FaultType
  <2>3. lease' = [lease EXCEPT ![e] = None]
    BY <1>7, <2>2 DEF GiveBack, FailRelease
  <2>4. e \in Events /\ tasks[e] = 0
    BY <1>0, <2>1, <2>2, AtWork DEF At, Calm
  <2>5. worker'.pc \in {"failing", "released"} /\ worker'.event = e
    BY <1>1, <2>1
  <2>6. lease'[e] = None /\ \A x \in Events \ {e} : lease'[x] = lease[x]
    BY <1>0, <2>3, <2>4
  <2>7. Calm'
    BY <2>1, <2>2, <2>4, <2>5, <2>6 DEF Calm, At
  <2>8. Held'
    <3>1. \A r \in running : r.event # e /\ r.event \in Events
      BY <1>0, <2>4, NoReview
    <3> QED  BY <1>d, <2>1, <2>2, <2>6, <3>1 DEF Held
  <2> QED  BY <2>1, <2>2, <2>7, <2>8 DEF Once
<1>8. ASSUME CreateTask PROVE Kept
  <2>1. /\ At("leased") /\ UNCHANGED <<lease, status, crashes, faults>>
        /\ tasks' = [tasks EXCEPT ![e] = @ + 1]
        /\ running' = running \cup {[event |-> e, task |-> tasks[e] + 1, node |-> worker.node]}
        /\ worker' = [worker EXCEPT !.pc = "created"]
    BY <1>8 DEF CreateTask, Go, rows, bounds
  <2>2. Calm /\ Held /\ Once
    BY <1>2, <2>1
  <2>3. /\ e \in Events /\ tasks[e] = 0 /\ status[e] = "processing"
        /\ lease[e] # None /\ lease[e].node = worker.node
    BY <1>0, <2>1, <2>2, AtWork DEF At, Calm, WorkerAtRow, Claimed
  <2>4. tasks'[e] = 1 /\ (\A x \in Events \ {e} : tasks'[x] = tasks[x]) /\ worker'.pc = "created"
    BY <1>0, <1>1, <2>1, <2>3
  <2>5. Calm'
    BY <2>1, <2>2, <2>3, <2>4 DEF Calm, At
  <2>6. Held'
    <3> SUFFICES ASSUME NEW r \in running'
                 PROVE  \/ lease[r.event] # None /\ lease[r.event].node = r.node
                        \/ <<r.event, r.task>> \in deleted'
      BY <2>1 DEF Held
    <3>1. CASE r \in running
      BY <1>d, <2>2, <3>1 DEF Held
    <3>2. CASE r \notin running
      <4>1. r.event = e /\ r.node = worker.node
        BY <2>1, <3>2
      <4> QED  BY <2>3, <4>1
    <3> QED  BY <3>1, <3>2
  <2>7. Once'
    BY <2>2, <2>4 DEF Once
  <2> QED  BY <2>5, <2>6, <2>7
<1>9. ASSUME NEW f \in BOOLEAN, BindLeaseTask(f) PROVE Kept
  <2>1. Fault(f) /\ crashes' = crashes /\ UNCHANGED <<running, tasks, status>> /\ At("created")
    BY <1>9 DEF BindLeaseTask, rows, reviews
  <2>2. ~f /\ Calm /\ Held /\ Once
    BY <1>0, <1>2, <2>1, FaultType
  <2>3. /\ worker' = [worker EXCEPT !.pc = "bound"]
        /\ lease' = IF lease[e] = None THEN lease ELSE [lease EXCEPT ![e].task = tasks[e]]
    BY <1>9, <2>2 DEF BindLeaseTask, Go
  <2>4. e \in Events /\ worker'.pc = "bound"
    BY <1>0, <1>1, <2>1, <2>3, AtWork DEF At
  <2>5. ASSUME NEW x \in Events
        PROVE  (lease[x] = None <=> lease'[x] = None) /\ (lease[x] # None => lease'[x].node = lease[x].node)
    <3>1. CASE lease[e] = None
      BY <2>3, <3>1
    <3>2. CASE lease[e] # None
      <4>1. lease[e] \in [node : Nodes, task : Nat] /\ tasks[e] \in Nat
        BY <1>0, <2>4, <3>2
      <4>2. lease'[e] = [lease[e] EXCEPT !.task = tasks[e]] /\ (x # e => lease'[x] = lease[x])
        BY <1>0, <2>3, <2>4, <3>2
      <4>3. lease'[e].node = lease[e].node /\ lease'[e] \in [node : Nodes, task : Nat]
        BY <4>1, <4>2
      <4>4. lease'[e] # None
        BY <4>3, Constants
      <4> QED  BY <3>2, <4>2, <4>3, <4>4
    <3> QED  BY <3>1, <3>2
  <2>6. Calm'
    BY <2>1, <2>2, <2>4, <2>5 DEF Calm, At
  <2>7. Held'
    <3>1. \A r \in running : r.event \in Events
      BY <1>0
    <3> QED  BY <1>d, <2>1, <2>2, <2>5, <3>1 DEF Held
  <2> QED  BY <2>1, <2>2, <2>6, <2>7 DEF Once
<1>10. ASSUME NEW f \in BOOLEAN, Save(f) PROVE Kept
  <2>1. Fault(f) /\ crashes' = crashes /\ UNCHANGED <<running, tasks, lease>>
    BY <1>10 DEF Save, reviews
  <2>2. ~f /\ Calm /\ Held /\ Once
    BY <1>0, <1>2, <2>1, FaultType
  <2>3. worker' = Idle /\ status' = [status EXCEPT ![e] = "completed"]
    BY <1>10, <2>2 DEF Save
  <2>4. \A x \in Events : status'[x] \in {"processing", "completed"} \/ status'[x] = status[x]
    BY <1>0, <2>3
  <2> QED  BY <1>d, <1>1, <2>1, <2>2, <2>3, <2>4, ReviewsAlone
<1>11. ASSUME NEW f \in BOOLEAN, FailSave(f) PROVE Kept
  <2>1. Fault(f) /\ crashes' = crashes /\ UNCHANGED <<running, tasks, lease>> /\ At("released")
    BY <1>11 DEF FailSave, reviews
  <2>2. ~f /\ Calm /\ Held /\ Once
    BY <1>0, <1>2, <2>1, FaultType
  <2>3. worker' = Idle /\ status' = [status EXCEPT ![e] = "failed"]
    BY <1>11, <2>2 DEF FailSave
  <2>4. e \in Events /\ tasks[e] = 0 /\ lease[e] = None
    BY <1>0, <2>1, <2>2, AtWork DEF At, Calm
  <2>5. \A x \in Events : (tasks[x] = 0 /\ lease[x] = None) \/ status'[x] = status[x]
    BY <1>0, <2>3, <2>4
  <2> QED  BY <1>d, <1>1, <2>1, <2>2, <2>3, <2>5, ReviewsAlone
<1> QED  BY <1>3, <1>4, <1>5, <1>6, <1>7, <1>8, <1>9, <1>10, <1>11 DEF Work

\* Reviews stay numbered by the tasks.
LEMMA NextNumbered ==
    ASSUME ReviewInv, [Next]_vars
    PROVE  ReviewsNumbered'
<1>0. /\ Types /\ WorkerAtRow /\ ReviewsNumbered /\ tasks \in [Events -> Nat]
      /\ running \subseteq [event : Events, task : Nat, node : Nodes]
  BY DEF ReviewInv, SlotInv, RowInv, Types, TypeOK
<1>1. CASE CreateTask
  <2> DEFINE e == worker.event
  <2>1. e \in Events
    BY <1>0, <1>1, AtWork DEF CreateTask, At
  <2>2. /\ tasks' = [tasks EXCEPT ![e] = @ + 1]
        /\ running' = running \cup {[event |-> e, task |-> tasks[e] + 1, node |-> worker.node]}
    BY <1>1 DEF CreateTask
  <2>3. tasks'[e] = tasks[e] + 1 /\ \A x \in Events \ {e} : tasks'[x] = tasks[x]
    BY <1>0, <2>1, <2>2
  <2>4. \A r \in running : r.task \in 1 .. tasks'[r.event]
    BY <1>0, <2>1, <2>3 DEF ReviewsNumbered
  <2>5. tasks[e] + 1 \in 1 .. tasks'[e]
    BY <1>0, <2>1, <2>3
  <2> QED  BY <2>2, <2>4, <2>5 DEF ReviewsNumbered
<1>2. CASE ~CreateTask
  <2>1. running' \subseteq running /\ tasks' = tasks
    BY <1>2 DEF Next, Work, vars, reviews, Pick, Admit, Refuse, Acquire, GiveBack, BindLeaseTask, Save,
                FailRelease, FailSave, Crash, Start, Deliver, RetryDue, Toggle, Die, CompleteReview, DeleteTask
  <2> QED  BY <1>0, <2>1 DEF ReviewsNumbered
<1> QED  BY <1>1, <1>2

LEMMA NextReviews ==
    ASSUME ReviewInv, [Next]_vars
    PROVE  ReviewInv'
<1> SUFFICES ASSUME crashes' + faults' = 0 PROVE Calm' /\ Held' /\ Once'
  BY NextSlots, NextNumbered DEF ReviewInv
<1> DEFINE Kept == Calm' /\ Held' /\ Once'
<1>0. /\ Types /\ WorkerAtRow /\ Untouched /\ ReviewsNumbered /\ crashes \in Nat /\ faults \in Nat
      /\ status \in [Events -> Statuses] /\ tasks \in [Events -> Nat]
      /\ lease \in [Events -> {None} \cup [node : Nodes, task : Nat]]
      /\ running \subseteq [event : Events, task : Nat, node : Nodes]
  BY DEF ReviewInv, SlotInv, RowInv, Types, TypeOK
<1>1. ASSUME crashes + faults = 0 PROVE Calm /\ Held /\ Once
  BY <1>1 DEF ReviewInv
<1>d. deleted \subseteq deleted'
  BY DeletedGrow
<1>2. ASSUME UNCHANGED <<lease, running, tasks, status, worker, crashes, faults>> PROVE Kept
  BY <1>d, <1>1, <1>2, ReviewsAlone
<1>10. Claimed => worker.event \in Events
  BY <1>0, AtWork DEF Claimed, At
<1>3. ASSUME Crash PROVE FALSE
  BY <1>0, <1>3 DEF Crash
<1>4. ASSUME Start PROVE FALSE
  BY <1>0, <1>1, <1>4 DEF Start, Calm, bounds
<1>5. ASSUME NEW e \in Events, NEW b \in BOOLEAN, Deliver(e, b) PROVE Kept
  <2>1. e \notin Received /\ UNCHANGED <<lease, running, tasks, worker, crashes, faults>>
    BY <1>5 DEF Deliver, Received, reviews, bounds
  <2>2. Calm /\ Held /\ Once
    BY <1>1, <2>1
  <2>3. tasks[e] = 0 /\ lease[e] = None /\ \A x \in Events \ {e} : status'[x] = status[x]
    BY <1>0, <1>5, <2>1 DEF Untouched, Deliver
  <2> QED  BY <1>d, <2>1, <2>2, <2>3, ReviewsAlone
<1>6. ASSUME NEW r \in running, Die(r) PROVE Kept
  <2>1. running' \subseteq running /\ UNCHANGED <<lease, tasks, status, worker, crashes, faults>>
    BY <1>6 DEF Die, rows, bounds
  <2>2. Calm /\ Held /\ Once
    BY <1>1, <2>1
  <2>3. Calm'
    BY <2>1, <2>2 DEF Calm, At
  <2> QED  BY <1>d, <2>1, <2>2, <2>3 DEF Held, Once
<1>7. ASSUME NEW r \in running, NEW f \in BOOLEAN, CompleteReview(r, f) PROVE Kept
  <2>1. Fault(f) /\ UNCHANGED <<tasks, status, worker, crashes>> /\ running' = running \ {r}
    BY <1>7 DEF CompleteReview, rows
  <2>2. ~f /\ Calm /\ Held /\ Once
    BY <1>0, <1>1, <2>1, FaultType
  <2>3. lease' = [lease EXCEPT ![r.event] = None] /\ r.event \in Events
    BY <1>0, <1>7, <2>2 DEF CompleteReview
  <2>4. lease'[r.event] = None /\ \A x \in Events \ {r.event} : lease'[x] = lease[x]
    BY <1>0, <2>3
  <2>5. r.task = 1 /\ tasks[r.event] = 1
    BY <1>0, <2>2, <2>3 DEF ReviewsNumbered, Once
  <2>6. Calm'
    BY <1>10, <2>1, <2>2, <2>4, <2>5 DEF Calm, At, Claimed
  <2>7. ASSUME NEW s \in running', <<s.event, s.task>> \notin deleted PROVE s.event # r.event
    <3>1. CASE s.event = r.event
      <4>1. s.task = r.task
        BY <1>0, <2>1, <2>5, <3>1 DEF ReviewsNumbered
      <4>2. s.node = r.node
        BY <2>1, <2>2, <2>7, <3>1, <4>1 DEF Held
      <4>3. s \in [event : Events, task : Nat, node : Nodes] /\ r \in [event : Events, task : Nat, node : Nodes]
        BY <1>0, <2>1
      <4>4. s = r
        BY <3>1, <4>1, <4>2, <4>3
      <4> QED  BY <2>1, <4>4
    <3> QED  BY <3>1
  <2>8. Held'
    <3>1. \A s \in running' : s.event \in Events /\ s \in running
      BY <1>0, <2>1
    <3> QED  BY <1>d, <2>2, <2>4, <2>7, <3>1 DEF Held
  <2> QED  BY <2>1, <2>2, <2>6, <2>8 DEF Once
<1>8. ASSUME NEW e \in Events, NEW k \in 1 .. tasks[e], NEW b \in BOOLEAN, DeleteTask(e, k, b) PROVE Kept
  <2>1. /\ UNCHANGED <<tasks, status, worker, crashes, faults>>
        /\ running' \subseteq running /\ <<e, k>> \in deleted'
        /\ lease' = lease \/ lease' = [lease EXCEPT ![e] = None]
    BY <1>8 DEF DeleteTask, rows, bounds
  <2>2. Calm /\ Held /\ Once
    BY <1>1, <2>1
  <2>3. k = 1 /\ tasks[e] = 1
    BY <1>0, <2>2 DEF Once
  <2>4. (lease'[e] = None \/ lease'[e] = lease[e]) /\ \A x \in Events \ {e} : lease'[x] = lease[x]
    BY <1>0, <2>1
  <2>5. \A r \in running' : /\ r \in running /\ r.event \in Events
                            /\ r.event = e => <<r.event, r.task>> \in deleted'
    BY <1>0, <2>1, <2>3 DEF ReviewsNumbered
  <2>6. Calm'
    BY <1>10, <2>1, <2>2, <2>3, <2>4 DEF Calm, At, Claimed
  <2>7. Held'
    BY <1>d, <2>2, <2>4, <2>5 DEF Held
  <2> QED  BY <2>1, <2>2, <2>6, <2>7 DEF Once
<1>9. ASSUME \/ \E e \in Events : RetryDue(e)
             \/ \E p \in Projects : Toggle(p)
             \/ UNCHANGED vars
      PROVE  Kept
  BY <1>2, <1>9 DEF RetryDue, Toggle, vars, rows, reviews, bounds
<1> QED  BY <1>3, <1>4, <1>5, <1>6, <1>7, <1>8, <1>9, WorkReviews DEF Next

LEMMA ReviewInvHolds == Spec => []ReviewInv
<1>1. Init => ReviewInv
  <2> SUFFICES ASSUME Init PROVE ReviewInv
    OBVIOUS
  <2>0. /\ Idle.pc = "idle" /\ Idle.event = None /\ worker = Idle
        /\ Idle \in [pc : {"idle"}, event : {None}, node : {None}]
    BY DEF Init, Idle
  <2>1. created \in Seq(Events) /\ ToSet(created) = {}
    BY DEF Init, ToSet
  <2>2. Types
    BY <2>0, <2>1 DEF Init, Types, TypeOK, Statuses
  <2>3. WorkerAtRow /\ Untouched
    BY <2>0 DEF Init, WorkerAtRow, Untouched, Claimed, At
  <2>4. AttemptLeft /\ AttemptsBounded
    BY <2>0, Constants DEF Init, AttemptLeft, AttemptsBounded, At
  <2>5. ProcessingWorked
    BY Constants DEF Init, ProcessingWorked
  <2>6. Holders = {}
    BY DEF Init, Holders
  <2>7. NodeSlots /\ ProjectCap /\ RoomAhead
    <3>1. \A n : InUse(n) = 0 /\ \A p : Inflight(p) = 0
      BY <2>6, FS_EmptySet DEF InUse, Inflight
    <3> QED  BY <2>0, <3>1, Constants DEF NodeSlots, ProjectCap, RoomAhead, At
  <2>8. ReviewsNumbered /\ Held /\ Once
    BY DEF Init, ReviewsNumbered, Held, Once
  <2>9. Calm
    BY <2>0 DEF Init, Calm, At
  <2> QED  BY <2>2, <2>3, <2>4, <2>5, <2>7, <2>8, <2>9 DEF ReviewInv, SlotInv, RowInv
<1>2. ReviewInv /\ [Next]_vars => ReviewInv'
  BY NextReviews
<1> QED  BY <1>1, <1>2, PTL DEF Spec

\* Review slots (_try_lease, release_lease, project_inflight): the leases of a
\* node never exceed its capacity nor those of a project the cap, which is tested
\* steps before the lease is created, whatever fails or restarts; without a
\* failed write or a restart a review at work keeps its lease on its node, unless
\* its task was deleted and its session was not (_release_node).
THEOREM SlotsAreKept == Spec => []SlotsKept
<1>1. ReviewInv => SlotsKept
  BY DEF ReviewInv, SlotInv, RowInv, Types, Held, RunningHoldsSlot, SlotsKept
<1> QED  BY <1>1, ReviewInvHolds, PTL

\* Dispatch (process_one, _fail): an event is reviewed once unless a write fails
\* or the process restarts, no claimed row is left behind unless a write fails,
\* and a restart adds at most one attempt to _MAX_ATTEMPTS.
THEOREM EventsDispatchedOnce == Spec => []DispatchedOnce
<1>1. ReviewInv => DispatchedOnce
  BY DEF ReviewInv, SlotInv, RowInv, Once, ReviewedOnce, DispatchedOnce
<1> QED  BY <1>1, ReviewInvHolds, PTL
=============================================================================
