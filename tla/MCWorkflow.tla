----------------------------- MODULE MCWorkflow -----------------------------
(***************************************************************************)
(* The workflows of the agent, side by side: the life of runs, the         *)
(* execution of a graph, and the cron jobs of a workflow.  The three share *)
(* no state; a behaviour is one of one of them, named by `part'.           *)
(***************************************************************************)
EXTENDS WorkflowRuns, FiniteSets

CONSTANTS
    p1, p2, t1, t2,
    Nodes, Graphs, MaxItems,
    Triggers, Saves, Refreshes, Deletes, Reloads, Faults,
    MaxRequests    \* bound: requests of a behaviour

VARIABLES
    part,
    defn, plan, scope, open, results, ran, overall,
    rows, crons, jobs, pc, anchor, latest, family, todo, failed, amiss

Graph == INSTANCE WorkflowGraph
Schedule == INSTANCE WorkflowSchedule

ASSUME WorkflowAssumption == Graph!GraphAssumption /\ Schedule!ScheduleAssumption

graphVars == <<defn, plan, scope, open, results, ran, overall>>
scheduleVars == <<rows, crons, jobs, pc, anchor, latest, family, todo, failed, amiss>>
partVars == <<part, vars, graphVars, scheduleVars>>

-----------------------------------------------------------------------------
(* The graphs: all of three nodes with at most one loop, and some with two. *)

MCNodes == 1 .. 3
Forward == {x \in MCNodes \X MCNodes : x[1] < x[2]}

\* With and without predicates.
OneLoop ==
    UNION {{[edges |-> E, when |-> W, loops |-> L, parallel |-> 2] :
                W \in {{}, E}, L \in {{}} \cup {{l} : l \in MCNodes}} : E \in SUBSET Forward}

\* A loop in a loop, and two loops side by side, apart and with a node in both.
TwoLoops ==
    {[edges |-> E, when |-> {}, loops |-> {1, 2}, parallel |-> k] :
        E \in {{<<1, 2>>, <<2, 3>>}, {<<1, 2>>, <<1, 3>>}, {<<1, 3>>}, {<<1, 3>>, <<2, 3>>}}, k \in {1, 2}}

MCGraphs == OneLoop \cup TwoLoops

-----------------------------------------------------------------------------

\* The parts that a behaviour is not about stay in some initial state; the two
\* triggers are alike.
MCInit ==
    /\ part \in {"runs", "graph", "schedule"}
    /\ Init /\ Graph!Init /\ Schedule!Init
    /\ part # "graph" => defn = CHOOSE d \in Graphs : TRUE
    /\ IF part = "schedule" THEN crons[1] # {t2} ELSE jobs = {}

\* The two processes are alike: p1 is the first to do something.
RunsNext ==
    /\ part = "runs" /\ Next /\ UNCHANGED <<part, graphVars, scheduleVars>>
    /\ starts + crashes = 0 => up'[p2] = "up" /\ \A r \in Runs : at'[r] # p2

GraphNext == part = "graph" /\ Graph!Next /\ UNCHANGED <<part, vars, scheduleVars>>

\* So are requests of a kind, which begin in order.
MCSaves == {"s1", "s2"}
MCDeletes == {"d1", "d2"}
HasBegun(o) == pc'[o] # "idle"

ScheduleNext ==
    /\ part = "schedule" /\ Schedule!Next /\ UNCHANGED <<part, vars, graphVars>>
    /\ Cardinality({o \in Schedule!Ops : HasBegun(o)}) <= MaxRequests
    /\ (HasBegun("s2") => HasBegun("s1")) /\ (HasBegun("d2") => HasBegun("d1"))

MCNext == RunsNext \/ GraphNext \/ ScheduleNext

\* Tasks are scheduled and executors answer (FairSpec of WorkflowGraph).
MCSpec == MCInit /\ [][MCNext]_partVars /\ WF_partVars(GraphNext)

-----------------------------------------------------------------------------
(* The properties of the other two; the modules say what they are about.   *)

\* A graph is executed as it is drawn (GraphExact of WorkflowGraph).
GraphExact == Graph!GraphExact

\* A node runs after what is upstream of it (SourcesSettled of WorkflowGraph).
SourcesSettled == [][Graph!SourcesSettled]_partVars

\* The run of a graph comes to an end (RunFinishes of WorkflowGraph).
RunFinishes == part = "graph" => Graph!RunFinishes

\* The jobs follow the latest version (JobsExact of WorkflowSchedule).
JobsExact == Schedule!JobsExact
=============================================================================
