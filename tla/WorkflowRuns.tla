---------------------------- MODULE WorkflowRuns ----------------------------
(***************************************************************************)
(* The life of workflow runs (src/agent/workflow_service.py, the runs of   *)
(* src/agent/workflow_store.py and the recovery in src/main.py).  A run is *)
(* a row of workflow_runs and a task of the process that started it.  The  *)
(* task resolves the inputs, runs the graph (module WorkflowGraph; here    *)
(* only how it ends), writes the outcome and calls the terminal hook.  A   *)
(* process that starts marks the rows it finds running as interrupted and  *)
(* starts them again, one after the other; it takes every such row for one *)
(* of its own past, also where another process is at work on it.           *)
(***************************************************************************)
EXTENDS Integers, FiniteSetsExt

CONSTANTS
    Processes,     \* the processes that share the database
    Outcomes,      \* the statuses a graph comes to
    Retry,         \* retry_on_reboot of the workflow
    MaxEvents,     \* bound: runs started by users and triggers, and crashes
    MaxRuns,       \* bound: rows
    MaxFaults,     \* bound: cancellations, inputs that do not fit, database errors
    None

Runs == 1 .. MaxRuns
Final == Outcomes \cup {"interrupted"}

\* There is always a row left for a run that is started again: every recovery
\* starts at most the rows that are there.
RowsSuffice == \A n \in 0 .. MaxEvents : MaxRuns >= n * 2^(MaxEvents - n)

ASSUME RunsAssumption ==
    /\ Retry \in BOOLEAN /\ Outcomes \subseteq {"ok", "partial", "failed"}
    /\ "failed" \in Outcomes
    /\ {MaxEvents, MaxRuns, MaxFaults} \subseteq Nat
    \* None is no status, no place, no process and no run.
    /\ None \notin {"ok", "partial", "failed", "interrupted", "running", "inputs", "graph",
                    "finish", "refinish", "hook", "gone"}
    /\ None \notin Processes \cup Runs
    /\ RowsSuffice

VARIABLES
    row,       \* status of the row of a run
    task,      \* where its task is; None before it is started, "gone" after it ends
    result,    \* what the graph has come to
    at,        \* the process that runs it
    of,        \* the run it was started again for
    hooked,    \* runs whose terminal hook has been called
    up,        \* "down", "scan", "recover" or "up"
    scan,      \* the runs a starting process has still to deal with, the oldest first
    early,     \* bookkeeping: runs a trigger has started before the recovery has read the rows
    taken,     \* bookkeeping: runs the recovery of another process has read
    left,      \* bookkeeping: runs whose row was left alone when their task ended
    starts, crashes, faults

runs == <<row, task, result, at, of, hooked>>
host == <<up, scan, crashes>>
count == <<early, taken, starts>>
lost == <<left, faults>>
vars == <<runs, host, count, lost>>

Alive(r) == task[r] \notin {None, "gone"}
Unused == {r \in Runs : row[r] = None}
NextRun == Min(Unused)
Go(r, t) == task' = [task EXCEPT ![r] = t]

\* Something fails if b, and the runs R are left as they are.
Fault(b, R) ==
    /\ b => faults < MaxFaults
    /\ faults' = IF b THEN faults + 1 ELSE faults
    /\ left' = left \cup R

\* _start_single: the row, then the task.
Launch(p, origin) ==
    /\ Unused # {}
    /\ LET r == NextRun
       IN  /\ row' = [row EXCEPT ![r] = "running"] /\ Go(r, "inputs")
           /\ at' = [at EXCEPT ![r] = p] /\ of' = [of EXCEPT ![r] = origin]
    /\ UNCHANGED <<result, hooked>>

\* start_and_run_multi, from the API or from a cron trigger; the scheduler is
\* started before the recovery, so a trigger may come early.
StartRun(p) ==
    /\ up[p] # "down" /\ starts + crashes < MaxEvents /\ starts' = starts + 1
    /\ Launch(p, None)
    /\ early' = IF up[p] = "scan" THEN early \cup {NextRun} ELSE early
    /\ UNCHANGED <<taken, host, lost>>

-----------------------------------------------------------------------------
(* _execute.                                                               *)

\* The executors and the inputs; an error here is nobody's to catch.
Resolve(r, good) ==
    /\ task[r] = "inputs" /\ Fault(~good, IF good THEN {} ELSE {r})
    /\ Go(r, IF good THEN "graph" ELSE "gone")
    /\ UNCHANGED <<row, result, at, of, hooked, host, count>>

\* The graph has run.
GraphDone(r, s) ==
    /\ task[r] = "graph"
    /\ result' = [result EXCEPT ![r] = s] /\ Go(r, "finish")
    /\ UNCHANGED <<row, at, of, hooked, host, count, lost>>

\* The engine raises: the run has failed.
GraphRaised(r) ==
    /\ task[r] = "graph"
    /\ result' = [result EXCEPT ![r] = "failed"] /\ Go(r, "refinish")
    /\ UNCHANGED <<row, at, of, hooked, host, count, lost>>

\* finish_run.
Finish(r) ==
    /\ task[r] \in {"finish", "refinish"}
    /\ row' = [row EXCEPT ![r] = result[r]] /\ Go(r, "hook")
    /\ UNCHANGED <<result, at, of, hooked, host, count, lost>>

\* finish_run raises: the first time the run is written down as failed instead.
FinishFails(r) ==
    /\ task[r] \in {"finish", "refinish"}
    /\ Fault(TRUE, IF task[r] = "finish" THEN {} ELSE {r})
    /\ IF task[r] = "finish"
       THEN result' = [result EXCEPT ![r] = "failed"] /\ Go(r, "refinish")
       ELSE Go(r, "gone") /\ UNCHANGED result
    /\ UNCHANGED <<row, at, of, hooked, host, count>>

\* _fire_terminal: notification and retry by an agent.
FireTerminal(r) ==
    /\ task[r] = "hook"
    /\ hooked' = hooked \cup {r} /\ Go(r, "gone")
    /\ UNCHANGED <<row, result, at, of, host, count, lost>>

\* cancel_run: the task ends where it waits, and nothing more is written.
Cancel(r) ==
    /\ Alive(r) /\ Go(r, "gone") /\ Fault(TRUE, {r})
    /\ UNCHANGED <<row, result, at, of, hooked, host, count>>

-----------------------------------------------------------------------------
(* recover_interrupted_runs, and processes that die and start.             *)

Crash(p) ==
    /\ up[p] # "down" /\ starts + crashes < MaxEvents /\ crashes' = crashes + 1
    /\ up' = [up EXCEPT ![p] = "down"] /\ scan' = [scan EXCEPT ![p] = {}]
    /\ task' = [r \in Runs |-> IF at[r] = p /\ Alive(r) THEN "gone" ELSE task[r]]
    /\ UNCHANGED <<row, result, at, of, hooked, count, lost>>

Boot(p) ==
    /\ up[p] = "down" /\ up' = [up EXCEPT ![p] = "scan"]
    /\ UNCHANGED <<runs, scan, crashes, count, lost>>

\* The rows are read, whoever they belong to.
Read(p, R) ==
    /\ up[p] = "scan" /\ up' = [up EXCEPT ![p] = "recover"]
    /\ scan' = [scan EXCEPT ![p] = R]
    /\ taken' = taken \cup {r \in R : at[r] # p}
    /\ UNCHANGED <<runs, crashes, early, starts, lost>>

\* Mutant: rows that were interrupted before are taken up again.
ScanAll(p) == Read(p, {r \in Runs : row[r] \in {"running", "interrupted"}})

\* The rows that are still running.
Scan(p) == Read(p, {r \in Runs : row[r] = "running"})

\* The rows cannot be read: the process serves without having recovered.
ScanFails(p) ==
    /\ up[p] = "scan" /\ up' = [up EXCEPT ![p] = "up"]
    /\ Fault(TRUE, {r \in Runs : row[r] = "running" /\ at[r] = p})
    /\ UNCHANGED <<runs, scan, crashes, count>>

\* The run at hand: the rows come in the order of their ids.
Current(p) == Min(scan[p])

\* The next of them is interrupted; if that cannot be written it is passed over.
Interrupt(p, written) ==
    /\ up[p] = "recover" /\ scan[p] # {}
    /\ Fault(~written, IF written \/ at[Current(p)] # p THEN {} ELSE {Current(p)})
    /\ row' = IF written THEN [row EXCEPT ![Current(p)] = "interrupted"] ELSE row
    /\ IF written /\ Retry
       THEN up' = [up EXCEPT ![p] = "relaunch"] /\ UNCHANGED scan
       ELSE scan' = [scan EXCEPT ![p] = @ \ {Current(p)}] /\ UNCHANGED up
    /\ UNCHANGED <<task, result, at, of, hooked, crashes, count>>

\* and is started again from the top, as a new run.
Relaunch(p) ==
    /\ up[p] = "relaunch"
    /\ Launch(p, Current(p))
    /\ up' = [up EXCEPT ![p] = "recover"] /\ scan' = [scan EXCEPT ![p] = @ \ {Current(p)}]
    /\ UNCHANGED <<crashes, count, lost>>

\* One that cannot be started does not stop the recovery.
RelaunchFails(p) ==
    /\ up[p] = "relaunch" /\ Fault(TRUE, {})
    /\ up' = [up EXCEPT ![p] = "recover"] /\ scan' = [scan EXCEPT ![p] = @ \ {Current(p)}]
    /\ UNCHANGED <<runs, crashes, count>>

Recovered(p) ==
    /\ up[p] = "recover" /\ scan[p] = {}
    /\ up' = [up EXCEPT ![p] = "up"]
    /\ UNCHANGED <<runs, scan, crashes, count, lost>>

-----------------------------------------------------------------------------

Init ==
    /\ row = [r \in Runs |-> None] /\ task = [r \in Runs |-> None]
    /\ result = [r \in Runs |-> None] /\ at = [r \in Runs |-> None]
    /\ of = [r \in Runs |-> None] /\ hooked = {}
    /\ up = [p \in Processes |-> "up"] /\ scan = [p \in Processes |-> {}]
    /\ early = {} /\ taken = {} /\ left = {} /\ starts = 0 /\ crashes = 0 /\ faults = 0

Execute(r) ==
    \/ \E good \in BOOLEAN : Resolve(r, good)
    \/ \E s \in Outcomes : GraphDone(r, s)
    \/ GraphRaised(r) \/ Finish(r) \/ FinishFails(r) \/ FireTerminal(r)

Recover(p) ==
    \/ Boot(p) \/ Scan(p) \/ ScanFails(p) \/ Relaunch(p) \/ RelaunchFails(p) \/ Recovered(p)
    \/ \E written \in BOOLEAN : Interrupt(p, written)

Next ==
    \/ \E p \in Processes : StartRun(p) \/ Crash(p) \/ Recover(p)
    \/ \E r \in Runs : Execute(r) \/ Cancel(r)

Spec == Init /\ [][Next]_vars

-----------------------------------------------------------------------------
(* Properties.                                                             *)

\* Type invariant.
TypeOK ==
    /\ row \in [Runs -> Final \cup {"running", None}]
    /\ task \in [Runs -> {None, "inputs", "graph", "finish", "refinish", "hook", "gone"}]
    /\ result \in [Runs -> Outcomes \cup {None}]
    /\ at \in [Runs -> Processes \cup {None}] /\ of \in [Runs -> Runs \cup {None}]
    /\ hooked \subseteq Runs
    /\ up \in [Processes -> {"down", "scan", "recover", "relaunch", "up"}]
    /\ scan \in [Processes -> SUBSET Runs]
    /\ starts \in Nat /\ crashes \in Nat /\ starts + crashes <= MaxEvents

\* A row that says running is worked on, as long as its process is there: the
\* run is marked terminal when its task ends (_execute), and the rows of a
\* process that died are dealt with before it serves again.  The exceptions are
\* runs that were cancelled, whose inputs do not fit, or that the database failed.
RunningIsWorked ==
    \A r \in Runs \ left : row[r] = "running" /\ up[at[r]] = "up" => Alive(r)

\* A run that is given up as interrupted is not at work any more: it is not
\* executed twice at the same time (recover_interrupted_runs).  Two kinds of runs
\* are excepted: one that a trigger has started before the recovery of its own
\* process has read the rows, and one that the recovery of another process has
\* read, which asks neither whose a row is nor whether it is at work.
InterruptedIsDead ==
    \A r \in Runs \ (early \cup taken) : row[r] = "interrupted" => ~Alive(r)

\* No process starts a run again twice, also when it dies while it is recovering;
\* and two processes start the same run again only if one of them has read a row
\* that is not its own.
RelaunchedOnce ==
    \A r, s \in Runs :
        of[r] # None /\ of[r] = of[s] => r = s \/ (of[r] \in taken /\ at[r] # at[s])

\* The terminal hook reports what the row says for good, with the two exceptions
\* of InterruptedIsDead.
NotifiedIsFinal ==
    \A r \in hooked \ (early \cup taken) : row[r] \in Outcomes /\ row[r] = result[r]

\* The rows of runs tell the truth, through cancellation, failing writes, crashes
\* and recovery by several processes (_execute, recover_interrupted_runs); what
\* the parts except, their comments name.
RunsExact ==
    TypeOK /\ RunningIsWorked /\ InterruptedIsDead /\ RelaunchedOnce /\ NotifiedIsFinal
=============================================================================
