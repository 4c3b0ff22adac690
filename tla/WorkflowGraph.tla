---------------------------- MODULE WorkflowGraph ----------------------------
(***************************************************************************)
(* One run of a workflow graph (WorkflowRunner of src/agent/workflow.py).  *)
(* The nodes are run layer by layer, those of a layer at the same time.  A *)
(* node runs when one of its incoming edges is active.  A foreach node     *)
(* runs everything downstream of it once per element, the elements at the  *)
(* same time, each in a scope of its own; a scope is named by the elements *)
(* around it, <<>> being that of the run.  Only the status of a node is    *)
(* modelled, not its output, and executors are free in what they answer.   *)
(***************************************************************************)
EXTENDS Integers, Sequences, FiniteSets, FiniteSetsExt, SequencesExt

CONSTANTS
    Nodes,         \* the node ids, numbers in the order of their names
    Graphs,        \* the definitions that are run, each with the runner's max_parallel
    MaxItems,      \* bound: elements of a loop
    None

Statuses == {"ok", "failed", "skipped"}

\* What the constants stand for.
GraphAssumption ==
    /\ Nodes \subseteq Nat /\ IsFiniteSet(Nodes)
    /\ MaxItems \in Nat
    /\ \A g \in Graphs : /\ g.edges \subseteq Nodes \X Nodes /\ g.when \subseteq g.edges
                         /\ g.loops \subseteq Nodes /\ g.parallel \in Nat \ {0}
                         \* _check_cycle has passed; any order of the names would do
                         /\ \A edge \in g.edges : edge[1] < edge[2]

VARIABLES
    defn,      \* the definition: edges, those with a predicate, foreach nodes, max_parallel
    plan,      \* the layers and the descendants of its nodes
    scope,     \* the scopes that are alive: layer, sem, done, busy and nodes of each
    open,      \* the loops that run, by scope and node, with what they have to publish
    results,   \* self.results
    ran,       \* the executions of nodes: scope, node and outcome
    overall    \* the status of the run

vars == <<defn, plan, scope, open, results, ran, overall>>

-----------------------------------------------------------------------------
(* The graph.                                                              *)

\* _descendants.
Below(edges, n) ==
    LET below[m \in Nodes] ==
            LET next == {k \in Nodes : <<m, k>> \in edges}
            IN  next \cup UNION {below[k] : k \in next}
    IN  below[n]

\* Mutant: a node comes after the first of its sources.
TopoLayersAny(edges, S) ==
    LET layer[n \in S] ==
            LET before == {layer[m] : m \in {k \in S : <<k, n>> \in edges}}
            IN  IF before = {} THEN 1 ELSE 1 + Min(before)
    IN  layer

\* topo_layers: the layer of every node of a part S of the graph.
TopoLayers(edges, S) ==
    LET layer[n \in S] == 1 + Max({0} \cup {layer[m] : m \in {k \in S : <<k, n>> \in edges}})
    IN  layer

\* What the runner knows of the graph: what is downstream of each node, and the
\* layers of the whole and of every loop.
PlanOf(g) ==
    [below |-> [n \in Nodes |-> Below(g.edges, n)],
     layers |-> [l \in g.loops \cup {None} |->
                    TopoLayers(g.edges, IF l = None THEN Nodes ELSE {l} \cup Below(g.edges, l))]]

Descendants(n) == plan.below[n]

\* _loop_body_nodes: what is downstream of a loop that is in no other.
LoopBodyNodes ==
    LET top == {h \in defn.loops : \A o \in defn.loops \ {h} : h \notin Descendants(o)}
    IN  UNION {Descendants(h) : h \in top}

\* The nodes of the present layer of a scope, and those of them it has to run.
Layer(f) ==
    LET layers == plan.layers[IF f = <<>> THEN None ELSE Last(f)[1]]
    IN  {n \in DOMAIN layers : layers[n] = scope[f].layer}
Due(f) == Layer(f) \ (IF f = <<>> THEN LoopBodyNodes ELSE {})
Ended(f) == Layer(f) = {}

\* The elements of a loop that runs in scope f.
Inner(f, l) == {g \in DOMAIN scope : g # <<>> /\ Front(g) = f /\ Last(g)[1] = l}

Settled(f, n, s) ==
    [scope EXCEPT ![f].done = @ \cup {n}, ![f].busy = @ \ {n}, ![f].nodes[n] = s]

\* What a node in scope f finds of another node.
Known(f, m) == IF scope[f].nodes[m] # None THEN scope[f].nodes[m] ELSE results[m]

-----------------------------------------------------------------------------
(* _run_node.                                                              *)

\* Node n can be begun in scope f: on the top the nodes of a layer start as the
\* semaphore lets them, in an element one follows the other.
Startable(f, n) ==
    /\ overall = None /\ n \in Due(f) \ (scope[f].done \cup scope[f].busy)
    /\ IF f = <<>>
       THEN Cardinality(scope[f].busy) < defn.parallel
       ELSE /\ scope[f].sem /\ scope[f].busy = {} /\ n = Min(Due(f) \ scope[f].done)

\* Gate 1: one edge is active, or there is none.
Active(f, n, taken) ==
    LET edges == {x \in defn.edges : x[2] = n}
    IN  edges = {} \/ \E edge \in edges : Known(f, edge[1]) = "ok" /\ (edge \in defn.when => taken)

\* Outside of a loop a result is also kept for the run.
Results(f, n, s) == IF f = <<>> THEN [results EXCEPT ![n] = s] ELSE results

Skip(f, n) ==
    /\ Startable(f, n) /\ ~(f # <<>> /\ n = Last(f)[1])
    /\ \E taken \in BOOLEAN : ~Active(f, n, taken)
    /\ scope' = Settled(f, n, "skipped") /\ results' = Results(f, n, "skipped")
    /\ UNCHANGED <<defn, plan, open, ran, overall>>

\* _dispatch: the executor is called
Dispatch(f, n) ==
    /\ Startable(f, n) /\ n \notin defn.loops
    /\ \E taken \in BOOLEAN : Active(f, n, taken)
    /\ scope' = [scope EXCEPT ![f].busy = @ \cup {n}]
    /\ UNCHANGED <<defn, plan, open, results, ran, overall>>

\* and answers, or raises.
Executed(f, n, s) ==
    /\ n \in scope[f].busy \ defn.loops
    /\ scope' = Settled(f, n, s) /\ results' = Results(f, n, s)
    /\ ran' = ran \cup {<<f, n, s>>}
    /\ UNCHANGED <<defn, plan, open, overall>>

-----------------------------------------------------------------------------
(* _run_loop.                                                              *)

\* The items are resolved, and every one gets a scope.
StartLoop(f, l, k) ==
    /\ Startable(f, l) /\ l \in defn.loops /\ ~(f # <<>> /\ l = Last(f)[1])
    /\ \E taken \in BOOLEAN : Active(f, l, taken)
    /\ LET elements == {Append(f, <<l, i>>) : i \in 1 .. k}
           fresh == [layer |-> 0, sem |-> FALSE, done |-> {}, busy |-> {}, nodes |-> [n \in Nodes |-> None]]
       IN  scope' = [g \in DOMAIN scope \cup elements |->
                         IF g \in elements THEN fresh
                         ELSE IF g = f THEN [scope[f] EXCEPT !.busy = @ \cup {l}] ELSE scope[g]]
    /\ open' = [x \in DOMAIN open \cup {<<f, l>>} |-> IF x = <<f, l>> THEN Descendants(l) ELSE open[x]]
    /\ UNCHANGED <<defn, plan, results, ran, overall>>

\* The items cannot be resolved.
LoopUnresolved(f, l) ==
    /\ Startable(f, l) /\ l \in defn.loops /\ ~(f # <<>> /\ l = Last(f)[1])
    /\ \E taken \in BOOLEAN : Active(f, l, taken)
    /\ scope' = Settled(f, l, "failed") /\ results' = Results(f, l, "failed")
    /\ UNCHANGED <<defn, plan, open, ran, overall>>

\* The task of an element starts with a copy of what is known by then.
StartElement(f) ==
    /\ f # <<>> /\ scope[f].layer = 0
    /\ scope' = [scope EXCEPT ![f].layer = 1, ![f].nodes = scope[Front(f)].nodes]
    /\ UNCHANGED <<defn, plan, open, results, ran, overall>>

\* Mutant: all loops of the run share one semaphore.
AcquireShared(f) ==
    /\ f # <<>> /\ scope[f].layer > 0 /\ ~scope[f].sem /\ ~Ended(f)
    /\ Cardinality({g \in DOMAIN scope : scope[g].sem}) < defn.parallel
    /\ scope' = [scope EXCEPT ![f].sem = TRUE]
    /\ UNCHANGED <<defn, plan, open, results, ran, overall>>

\* It takes the semaphore of its loop for every layer.
Acquire(f) ==
    /\ f # <<>> /\ scope[f].layer > 0 /\ ~scope[f].sem /\ ~Ended(f)
    /\ Cardinality({g \in Inner(Front(f), Last(f)[1]) : scope[g].sem}) < defn.parallel
    /\ scope' = [scope EXCEPT ![f].sem = TRUE]
    /\ UNCHANGED <<defn, plan, open, results, ran, overall>>

\* The foreach node itself is done at once in its own element.
PassHeader(f) ==
    /\ f # <<>> /\ Startable(f, Last(f)[1])
    /\ scope' = Settled(f, Last(f)[1], "ok")
    /\ UNCHANGED <<defn, plan, open, results, ran, overall>>

\* All of a layer is done; an element gives the semaphore back.
LayerDone(f) ==
    /\ ~Ended(f) /\ Due(f) \subseteq scope[f].done /\ (f # <<>> => scope[f].sem)
    /\ scope' = [scope EXCEPT ![f].layer = @ + 1, ![f].sem = FALSE]
    /\ UNCHANGED <<defn, plan, open, results, ran, overall>>

\* The status of a node over all elements.
Collapsed(f, l, n) ==
    LET oks == {g \in Inner(f, l) : scope[g].nodes[n] = "ok"}
    IN  IF oks # Inner(f, l) /\ oks = {} THEN "failed" ELSE "ok"

Complete(f, l) ==
    /\ <<f, l>> \in DOMAIN open
    /\ \A g \in Inner(f, l) : scope[g].layer > 0 /\ Ended(g)

\* Mutant: the context learns of a node, the results do not.
PublishContext(f, l, n) ==
    /\ Complete(f, l) /\ n \in open[<<f, l>>]
    /\ scope' = [scope EXCEPT ![f].nodes[n] = Collapsed(f, l, n)]
    /\ open' = [open EXCEPT ![<<f, l>>] = @ \ {n}]
    /\ UNCHANGED <<defn, plan, results, ran, overall>>

\* When all elements have ended, the nodes of the loop are published one by one.
Publish(f, l, n) ==
    /\ Complete(f, l) /\ n \in open[<<f, l>>]
    /\ results' = [results EXCEPT ![n] = Collapsed(f, l, n)]
    /\ scope' = [scope EXCEPT ![f].nodes[n] = Collapsed(f, l, n)]
    /\ open' = [open EXCEPT ![<<f, l>>] = @ \ {n}]
    /\ UNCHANGED <<defn, plan, ran, overall>>

\* and the loop itself last.
EndLoop(f, l) ==
    /\ Complete(f, l) /\ open[<<f, l>>] = {}
    /\ LET s == Collapsed(f, l, l)
           settled == Settled(f, l, s)
       IN  /\ scope' = [g \in DOMAIN scope \ Inner(f, l) |-> settled[g]]
           /\ results' = Results(f, l, s)
    /\ open' = [x \in DOMAIN open \ {<<f, l>>} |-> open[x]]
    /\ UNCHANGED <<defn, plan, ran, overall>>

\* The end of run: the status of all of it.
Finish ==
    /\ overall = None /\ Ended(<<>>)
    /\ LET statuses == {results[n] : n \in Nodes} \ {None}
       IN  overall' = IF statuses \subseteq {"ok"} THEN "ok"
                      ELSE IF statuses = {"failed", "skipped"} THEN "failed" ELSE "partial"
    /\ UNCHANGED <<defn, plan, scope, open, results, ran>>

-----------------------------------------------------------------------------

Init ==
    /\ defn \in Graphs /\ plan = PlanOf(defn)
    /\ scope = [f \in {<<>>} |-> [layer |-> 1, sem |-> FALSE, done |-> {}, busy |-> {},
                                  nodes |-> [n \in Nodes |-> None]]]
    /\ open = <<>> /\ ran = {} /\ overall = None
    /\ results = [n \in Nodes |-> None]

Step(f) ==
    \/ StartElement(f) \/ Acquire(f) \/ PassHeader(f) \/ LayerDone(f)
    \/ \E n \in Nodes :
        \/ Skip(f, n) \/ Dispatch(f, n) \/ LoopUnresolved(f, n) \/ EndLoop(f, n)
        \/ \E s \in {"ok", "failed"} : Executed(f, n, s)
        \/ \E k \in 0 .. MaxItems : StartLoop(f, n, k)
        \/ \E m \in Nodes : Publish(f, n, m)

Next == Finish \/ \E f \in DOMAIN scope : Step(f)

Spec == Init /\ [][Next]_vars

\* Tasks are scheduled and executors answer.
FairSpec == Spec /\ WF_vars(Next)

-----------------------------------------------------------------------------
(* Properties.                                                             *)

\* Type invariant.
TypeOK ==
    /\ results \in [Nodes -> Statuses \cup {None}]
    /\ \A f \in DOMAIN scope :
        /\ scope[f].nodes \in [Nodes -> Statuses \cup {None}]
        /\ scope[f].busy \cup scope[f].done \subseteq Nodes
        /\ scope[f].layer \in 0 .. Cardinality(Nodes) + 1 /\ scope[f].sem \in BOOLEAN
    /\ \A x \in DOMAIN open : x[1] \in DOMAIN scope /\ open[x] \subseteq Nodes
    /\ \A r \in ran : r[2] \in Nodes \ defn.loops /\ r[3] \in Statuses
    /\ overall \in {"ok", "partial", "failed", None}

\* A loop in a loop.
Nested == \E k, l \in defn.loops : l \in Descendants(k)

\* All that leads into a loop from outside is upstream of the loop.
Closed ==
    \A l \in defn.loops : \A x \in defn.edges :
        x[2] \in Descendants(l) /\ x[1] \notin Descendants(l) \cup {l} => l \in Descendants(x[1])

\* A node that is in a loop is executed for elements only, and only for those of
\* loops it is in; it is executed for the elements of every loop it is in, never
\* without one of them, as long as loops are not nested and closed
\* (_loop_body_nodes, _run_loop).
OncePerElement ==
    \A r \in ran :
        /\ r[1] = <<>> => r[2] \notin LoopBodyNodes
        /\ \A i \in DOMAIN r[1] : r[2] \in Descendants(r[1][i][1])
        /\ ~Nested /\ Closed => \A l \in defn.loops :
               r[2] \in Descendants(l) => \E i \in DOMAIN r[1] : r[1][i][1] = l

\* A step: a node is begun when everything upstream of it has come to a status it sees:
\* its variables are there, and its edges are judged by what has happened
\* (topo_layers, run), as long as loops are not nested and closed.
SourcesSettled ==
    ~Nested /\ Closed =>
        \A f \in DOMAIN scope \cap DOMAIN scope' :
            \A n \in scope'[f].busy \ scope[f].busy :
                \A m \in Nodes : n \in Descendants(m) => Known(f, m) # None

\* When the run is over, a node outside of loops was skipped only if no edge
\* without a predicate leads to it from a node that is ok, and came to another
\* status only if it is a root or some source is ok: failures stay local.
Routed ==
    overall # None =>
        \A n \in Nodes \ LoopBodyNodes :
            LET edges == {x \in defn.edges : x[2] = n}
                ok == {x \in edges : results[x[1]] = "ok"}
            IN  IF results[n] = "skipped" THEN edges # {} /\ ok \subseteq defn.when
                ELSE edges = {} \/ ok # {}

\* When the run is over every node has a result, unless a loop it is in did not
\* get to its elements (run, _run_loop).
Answered ==
    overall # None =>
        \A n \in Nodes : \/ results[n] # None
                         \/ \E l \in defn.loops : n \in Descendants(l) /\ results[l] # "ok"

\* Every run comes to an end, with loops in loops and the smallest semaphores.
RunFinishes == <>(overall # None)

\* A layer runs no more than max_parallel nodes, each of which may be a loop with
\* as many elements at work: so many executors, at most, work at the same time
\* as long as no loop is in another (run, _run_loop).
Parallel ==
    ~Nested =>
        Cardinality(UNION {{<<f, n>> : n \in scope[f].busy \ defn.loops} : f \in DOMAIN scope})
            <= defn.parallel * defn.parallel

\* A graph is executed as it is drawn: the nodes of a loop for its elements only,
\* failures stay local, no node is forgotten, and the executors at work are bounded
\* (WorkflowRunner.run, _run_loop).
GraphExact == TypeOK /\ OncePerElement /\ Routed /\ Answered /\ Parallel
=============================================================================
