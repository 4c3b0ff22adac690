-------------------------- MODULE WorkflowSchedule --------------------------
(***************************************************************************)
(* The cron jobs of one workflow (src/agent/workflow_scheduler.py, the     *)
(* definitions of src/agent/workflow_store.py and the routes of            *)
(* src/agent/api.py).  Every save adds a row, the next version, with an id *)
(* of its own; a job is named by a row and a trigger of it.  Requests name *)
(* the workflow by any of its rows.  They change the rows, read them, and  *)
(* bring the jobs in line with what they have read, waiting for the        *)
(* database in between; nothing keeps them apart.                          *)
(***************************************************************************)
EXTENDS Integers, FiniteSets, FiniteSetsExt

CONSTANTS
    Triggers,      \* trigger ids
    Saves,         \* requests that save a definition
    Refreshes,     \* requests that reload the jobs of the workflow
    Deletes,       \* requests that delete the workflow
    Reloads,       \* reloads of all jobs, when the scheduler starts
    Faults         \* whether reading or writing a row may fail

Ops == Saves \cup Refreshes \cup Deletes \cup Reloads
Versions == 1 .. 1 + Cardinality(Saves)

\* What the constants stand for.
ScheduleAssumption ==
    /\ IsFiniteSet(Ops) /\ Faults \in BOOLEAN
    /\ Saves \cap (Refreshes \cup Deletes \cup Reloads) = {}
    /\ Refreshes \cap (Deletes \cup Reloads) = {} /\ Deletes \cap Reloads = {}

VARIABLES
    rows,      \* the rows of the workflow, by version
    crons,     \* the enabled cron triggers of every row
    jobs,      \* the jobs of the scheduler: row and trigger
    pc,        \* where a request is
    anchor,    \* the row it names
    latest,    \* the latest row it has read, 0 if there is none
    family,    \* the rows of the family it has read
    todo,      \* the jobs it has still to add
    failed,    \* bookkeeping: whether a request has failed on the way
    amiss      \* bookkeeping: requests that may have put the jobs wrong

store == <<rows, crons>>
trouble == <<failed, amiss>>
vars == <<store, jobs, pc, anchor, latest, family, todo, trouble>>

Busy == {o \in Ops : pc[o] \notin {"idle", "done"}}
Go(o, l) == pc' = [pc EXCEPT ![o] = l]

\* What a request has read is not used again.
Forget(o) ==
    /\ anchor' = [anchor EXCEPT ![o] = 0] /\ latest' = [latest EXCEPT ![o] = 0]
    /\ family' = [family EXCEPT ![o] = {}]

LatestRow == IF rows = {} THEN 0 ELSE Max(rows)
Wanted(v) == IF v = 0 THEN {} ELSE {v} \X crons[v]

-----------------------------------------------------------------------------
(* The requests.                                                           *)

\* Requests under way have read, or are about to use, what is changed now.
Overtake(R) == amiss' = amiss \cup Busy \cup R

\* update_def: a new row after the latest one; then reload_def.
Save(o, a, T) ==
    /\ pc[o] = "idle" /\ o \in Saves
    /\ a \in rows
    /\ rows' = rows \cup {LatestRow + 1} /\ crons' = [crons EXCEPT ![LatestRow + 1] = T]
    /\ anchor' = [anchor EXCEPT ![o] = a] /\ Go(o, "latest") /\ Overtake({})
    /\ UNCHANGED <<jobs, latest, family, todo, failed>>

\* reload-schedule.
Refresh(o, a) ==
    /\ pc[o] = "idle" /\ o \in Refreshes
    /\ a \in rows
    /\ anchor' = [anchor EXCEPT ![o] = a] /\ Go(o, "latest")
    /\ UNCHANGED <<store, jobs, latest, family, todo, trouble>>

\* delete_def: all rows of the family; then remove.  The row has been there when
\* access was checked, which another delete may have come after.
Delete(o, a) ==
    /\ pc[o] = "idle" /\ o \in Deletes
    /\ a \in rows \/ rows = {}
    /\ rows' = {} /\ anchor' = [anchor EXCEPT ![o] = a] /\ Go(o, "family")
    /\ IF rows = {} THEN UNCHANGED amiss ELSE Overtake(IF a = LatestRow THEN {} ELSE {o})
    /\ UNCHANGED <<crons, jobs, latest, family, todo, failed>>

-----------------------------------------------------------------------------
(* reload_def, remove and reload.                                          *)

\* The latest row of the family.
ReadLatest(o) ==
    /\ pc[o] = "latest"
    /\ latest' = [latest EXCEPT ![o] = IF anchor[o] \in rows THEN LatestRow ELSE 0]
    /\ Go(o, "family")
    /\ UNCHANGED <<store, jobs, anchor, family, todo, trouble>>

\* Mutant: only the row that was named counts as the family.
ReadFamilyAnchor(o) ==
    /\ pc[o] = "family"
    /\ family' = [family EXCEPT ![o] = {anchor[o]}]
    /\ Go(o, "apply")
    /\ UNCHANGED <<store, jobs, anchor, latest, todo, trouble>>

\* The rows of the family, and in any case the one that was named.
ReadFamily(o) ==
    /\ pc[o] = "family"
    /\ family' = [family EXCEPT ![o] = {anchor[o]} \cup (IF anchor[o] \in rows THEN rows ELSE {})]
    /\ Go(o, "apply")
    /\ UNCHANGED <<store, jobs, anchor, latest, todo, trouble>>

\* reload reads the latest rows of all workflows at once.
ReadAll(o) ==
    /\ pc[o] = "idle" /\ o \in Reloads
    /\ latest' = [latest EXCEPT ![o] = LatestRow] /\ family' = [family EXCEPT ![o] = Versions]
    /\ Go(o, "apply")
    /\ UNCHANGED <<store, jobs, anchor, todo, trouble>>

\* A reload that nothing has overtaken puts the jobs right, unless one that was
\* overtaken is still to use what it has read.
Repairs(o) == o \notin Deletes \cup amiss /\ Busy \cap amiss = {}

\* The jobs of the family that are not wanted go, and the first of the wanted
\* ones is added, without a wait.
Apply(o) ==
    /\ pc[o] = "apply"
    /\ LET wanted == IF o \in Deletes THEN {} ELSE Wanted(latest[o])
           kept == {j \in jobs : j[1] \in family[o] => j \in wanted}
       IN  \/ wanted = {} /\ jobs' = kept /\ Go(o, "done") /\ UNCHANGED todo
           \/ \E j \in wanted : /\ jobs' = kept \cup {j} /\ Go(o, "add")
                                /\ todo' = [todo EXCEPT ![o] = wanted \ {j}]
    /\ IF Repairs(o) THEN failed' = FALSE /\ amiss' = {} ELSE UNCHANGED trouble
    /\ Forget(o) /\ UNCHANGED store

\* _upsert_job: next_run_at is written, then comes the next job.
AddNext(o) ==
    /\ pc[o] = "add"
    /\ \/ todo[o] = {} /\ Go(o, "done") /\ UNCHANGED <<jobs, todo>>
       \/ \E j \in todo[o] : /\ jobs' = jobs \cup {j} /\ todo' = [todo EXCEPT ![o] = @ \ {j}]
                             /\ UNCHANGED pc
    /\ UNCHANGED <<store, anchor, latest, family, trouble>>

\* The database fails: the request ends, and what it saved or deleted stays.
Fail(o) ==
    /\ Faults /\ pc[o] \in {"latest", "family", "add"}
    /\ failed' = TRUE /\ Go(o, "done") /\ Forget(o) /\ todo' = [todo EXCEPT ![o] = {}]
    /\ UNCHANGED <<store, jobs, amiss>>

-----------------------------------------------------------------------------

Init ==
    /\ rows = {1} /\ crons \in {[v \in Versions |-> IF v = 1 THEN T ELSE {}] : T \in SUBSET Triggers}
    /\ jobs = {1} \X crons[1] /\ pc = [o \in Ops |-> "idle"] /\ anchor = [o \in Ops |-> 0]
    /\ latest = [o \in Ops |-> 0] /\ family = [o \in Ops |-> {}] /\ todo = [o \in Ops |-> {}]
    /\ failed = FALSE /\ amiss = {}

Next ==
    \E o \in Ops :
        \/ ReadLatest(o) \/ ReadFamily(o) \/ ReadAll(o) \/ Apply(o) \/ AddNext(o) \/ Fail(o)
        \/ \E a \in Versions : \/ Refresh(o, a) \/ Delete(o, a)
                               \/ \E T \in SUBSET Triggers : Save(o, a, T)

Spec == Init /\ [][Next]_vars

-----------------------------------------------------------------------------
(* Properties.                                                             *)

\* Type invariant.
TypeOK ==
    /\ rows \subseteq Versions /\ crons \in [Versions -> SUBSET Triggers]
    /\ jobs \subseteq Versions \X Triggers
    /\ pc \in [Ops -> {"idle", "latest", "family", "apply", "add", "done"}]
    /\ anchor \in [Ops -> {0} \cup Versions] /\ latest \in [Ops -> {0} \cup Versions]
    /\ family \in [Ops -> SUBSET Versions] /\ todo \in [Ops -> SUBSET (Versions \X Triggers)]
    /\ failed \in BOOLEAN /\ amiss \subseteq Ops

\* The jobs that start a run when trigger t is due: _fire reads the latest
\* version of the workflow of the job, and leaves off if t is not one of it.
Firing(t) == {j \in jobs : j[2] = t /\ j[1] \in rows /\ t \in crons[LatestRow]}

\* No trigger fires twice: two jobs do not stand for the same one, under the names
\* of different rows (reload_def).  Nothing keeps requests apart, and one that was
\* under way when another changed the rows may use what it had read before; after
\* that it is only so again once a reload that nothing overtook, reload_def or
\* reload, has come past.
FiresOnce == amiss = {} => \A t \in Triggers : Cardinality(Firing(t)) <= 1

\* When no request is under way, the jobs are those of the latest row, and there
\* are none of a workflow that was deleted.  Excepted is the time from a request
\* that failed, that was overtaken as above, or that deleted the workflow by the id
\* of a row other than the latest (remove finds the rows gone, and only the jobs
\* under that id), to the next reload that nothing overtook.
JobsMatch == Busy = {} /\ ~failed /\ amiss = {} => jobs = Wanted(LatestRow)

\* The jobs are those of the latest version, one for a trigger, and where requests
\* have crossed one another the next undisturbed reload makes them so again.
JobsExact == TypeOK /\ FiresOnce /\ JobsMatch
=============================================================================
