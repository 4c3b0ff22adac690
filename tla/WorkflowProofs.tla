---------------------------- MODULE WorkflowProofs ----------------------------
(***************************************************************************)
(* The workflows of the agent, for any number of runs, crashes, faults,    *)
(* triggers and requests. The rows of workflow runs tell the truth of      *)
(* every run that no other process has taken for dead. The cron jobs of a  *)
(* workflow are those of its latest version, and after requests that have  *)
(* crossed one another the next undisturbed reload makes them so again.    *)
(***************************************************************************)
EXTENDS MCWorkflow, FiniteSetTheorems, WellFoundedInduction, TLAPS

-----------------------------------------------------------------------------
(* The inductive invariant *)

\* A run has a row before it has anything else.
RowFirst ==
    \A r \in Runs :
        /\ row[r] = None => /\ task[r] = None /\ r \notin hooked
                            /\ \A p \in Processes : r \notin scan[p]
        /\ row[r] # None => task[r] # None /\ at[r] \in Processes

\* What the task of a run has come to, unless a recovery may have read its row
\* while it was at work.
TaskTells ==
    \A r \in Runs :
        /\ task[r] \in {"finish", "refinish"} => result[r] \in Outcomes
        /\ task[r] = "hook" => row[r] # "running"
        /\ task[r] = "hook" /\ r \notin early \cup taken => row[r] \in Outcomes /\ row[r] = result[r]
        /\ r \in hooked => task[r] = "gone"

\* A row that nobody works on is one its process has still to deal with.
Abandoned ==
    \A r \in Runs \ left, p \in Processes :
        row[r] = "running" /\ ~Alive(r) /\ at[r] = p => up[p] \in {"down", "scan"} \/ r \in scan[p]

\* The rows another process has read are on record.
OwnRows == \A r \in Runs \ taken, p \in Processes : r \in scan[p] => at[r] = p

\* Until a process reads the rows only early runs of it are at work, and what it
\* has read then is dead, and has not been reported.
ScannedIsDead ==
    \A r \in Runs \ (early \cup taken), p \in Processes :
        /\ up[p] \in {"down", "scan"} /\ at[r] = p => ~Alive(r)
        /\ r \in scan[p] => ~Alive(r) /\ r \notin hooked

\* The run at hand has been given up before it is started again; outside of the
\* recovery there is none.
AtHand ==
    \A p \in Processes :
        /\ up[p] = "relaunch" => scan[p] # {} /\ row[Current(p)] # "running"
        /\ up[p] \in {"down", "scan", "up"} => scan[p] = {}

\* A run that was started again is given up for good; the process that did so is
\* done with it, and is the run's own unless another has read its row.
Superseded ==
    \A r \in Runs :
        of[r] # None =>
            /\ row[of[r]] \notin {"running", None}
            /\ \A p \in Processes : at[r] = p => of[r] \notin scan[p]
            /\ of[r] \in taken \/ at[r] = at[of[r]]

RunsInv ==
    /\ RunsExact
    /\ RowFirst /\ TaskTells /\ Abandoned /\ OwnRows /\ ScannedIsDead /\ AtHand /\ Superseded

-----------------------------------------------------------------------------
(* Least elements *)

LEMMA LeastNumber ==
    ASSUME NEW n \in Nat, NEW S \in SUBSET (1 .. n), S # {}
    PROVE  Min(S) \in S
<1> DEFINE T == {1 .. k : k \in S}
<1>1. IsWellFoundedOn(StrictSubsetOrdering(1 .. n), SUBSET (1 .. n))
  <2>1. IsFiniteSet(1 .. n)
    BY FS_Interval
  <2> QED  BY <2>1, FS_StrictSubsetOrderingWellFounded, FS_FiniteSubsetsOfFinite
<1>2. T \subseteq SUBSET (1 .. n) /\ T # {}
  <2>1. \A k \in S : 1 .. k \in SUBSET (1 .. n)
    OBVIOUS
  <2>2. T # {}
    OBVIOUS
  <2> QED  BY <2>1, <2>2
<1>3. PICK t \in T : \A u \in T : ~(<<u, t>> \in StrictSubsetOrdering(1 .. n))
  <2> HIDE DEF T
  <2> QED  BY <1>1, <1>2, WFMin
<1>4. PICK k \in S : t = 1 .. k
  BY <1>3
<1>5. ASSUME NEW j \in S PROVE k <= j
  <2>1. 1 .. j \in T /\ ~(<<1 .. j, t>> \in StrictSubsetOrdering(1 .. n))
    BY <1>3
  <2>2. ~(1 .. j \subseteq 1 .. k /\ 1 .. j # 1 .. k)
    BY <1>4, <2>1 DEF StrictSubsetOrdering
  <2>3. SUFFICES ASSUME j < k PROVE FALSE
    OBVIOUS
  <2>4. 1 .. j \subseteq 1 .. k /\ k \in 1 .. k /\ k \notin 1 .. j
    BY <2>3
  <2> QED  BY <2>2, <2>4
<1> QED  BY <1>5 DEF Min

LEMMA LeastRun ==
    ASSUME NEW S \in SUBSET Runs, S # {}
    PROVE  Min(S) \in S
BY LeastNumber, RunsAssumption DEF Runs

-----------------------------------------------------------------------------

LEMMA RunsInit == Init => RunsInv
<1> SUFFICES ASSUME Init PROVE RunsInv
  OBVIOUS
<1> USE RunsAssumption DEF Init
<1>1. TypeOK
  BY DEF TypeOK
<1>2. RunningIsWorked /\ InterruptedIsDead /\ RelaunchedOnce /\ NotifiedIsFinal
  BY DEF RunningIsWorked, InterruptedIsDead, RelaunchedOnce, NotifiedIsFinal
<1>3. RowFirst /\ TaskTells /\ Abandoned /\ OwnRows /\ ScannedIsDead /\ AtHand /\ Superseded
  BY DEF RowFirst, TaskTells, Abandoned, OwnRows, ScannedIsDead, AtHand, Superseded, Alive
<1> QED  BY <1>1, <1>2, <1>3 DEF RunsInv, RunsExact

\* A process that serves has nothing left to recover.
LEMMA WorkedFollows == TypeOK /\ RowFirst /\ Abandoned /\ AtHand => RunningIsWorked
BY RunsAssumption DEF RunningIsWorked, RowFirst, Abandoned, AtHand, TypeOK

LEMMA WorkedPrime == TypeOK' /\ RowFirst' /\ Abandoned' /\ AtHand' => RunningIsWorked'
BY WorkedFollows, PTL

LEMMA SameStep == ASSUME RunsInv, UNCHANGED vars PROVE RunsInv'
BY DEF vars, runs, host, count, lost, RunsInv, RunsExact, TypeOK, RunningIsWorked, InterruptedIsDead,
   RelaunchedOnce,
       NotifiedIsFinal, RowFirst, TaskTells, Abandoned, OwnRows, ScannedIsDead, AtHand, Superseded, Alive, Current

\* What a task does: it goes on, comes to an outcome, writes it, reports it, or
\* ends before that.
Moves(x) == row' = row /\ result' = result /\ hooked' = hooked /\ task'[x] = "graph"
Concludes(x) ==
    /\ row' = row /\ hooked' = hooked /\ task'[x] \in {"finish", "refinish"}
    /\ \E s \in Outcomes : result' = [result EXCEPT ![x] = s]
Writes(x) ==
    /\ task[x] \in {"finish", "refinish"} /\ task'[x] = "hook"
    /\ row' = [row EXCEPT ![x] = result[x]] /\ result' = result /\ hooked' = hooked
Reports(x) ==
    /\ task[x] = "hook" /\ task'[x] = "gone"
    /\ row' = row /\ result' = result /\ hooked' = hooked \cup {x}
Stops(x) ==
    /\ task'[x] = "gone" /\ x \in left'
    /\ row' = row /\ result' = result /\ hooked' = hooked

TaskStep(x) ==
    /\ UNCHANGED <<at, of, up, scan, crashes, early, taken, starts>>
    /\ Alive(x) /\ task' = [task EXCEPT ![x] = task'[x]] /\ left \subseteq left'
    /\ Moves(x) \/ Concludes(x) \/ Writes(x) \/ Reports(x) \/ Stops(x)

LEMMA ExecuteCases ==
    ASSUME TypeOK, NEW x \in Runs, Execute(x) \/ Cancel(x)
    PROVE  TaskStep(x)
<1> USE RunsAssumption DEF TypeOK, Go, Fault, host, count, lost, Alive, TaskStep, Moves, Concludes, Writes, Reports,
        Stops
<1>1. ASSUME NEW good \in BOOLEAN, Resolve(x, good) PROVE TaskStep(x)
  BY <1>1 DEF Resolve
<1>2. ASSUME NEW s \in Outcomes, GraphDone(x, s) PROVE TaskStep(x)
  BY <1>2 DEF GraphDone
<1>3. CASE GraphRaised(x)
  BY <1>3 DEF GraphRaised
<1>4. CASE Finish(x)
  BY <1>4 DEF Finish
<1>5. CASE FinishFails(x)
  BY <1>5 DEF FinishFails
<1>6. CASE FireTerminal(x)
  BY <1>6 DEF FireTerminal
<1>7. CASE Cancel(x)
  BY <1>7 DEF Cancel
<1> QED  BY <1>1, <1>2, <1>3, <1>4, <1>5, <1>6, <1>7 DEF Execute

LEMMA TaskStepKeeps == ASSUME RunsInv, NEW x \in Runs, TaskStep(x) PROVE RunsInv'
<1>inv. /\ TypeOK /\ InterruptedIsDead /\ RelaunchedOnce /\ NotifiedIsFinal
        /\ RowFirst /\ TaskTells /\ Abandoned /\ OwnRows /\ ScannedIsDead /\ AtHand /\ Superseded
  BY DEF RunsInv, RunsExact
<1> USE RunsAssumption
<1>1. /\ UNCHANGED <<at, of, up, scan, crashes, early, taken, starts>> /\ left \subseteq left'
      /\ task[x] \notin {None, "gone"} /\ row[x] # None
      /\ task'[x] \in {"graph", "finish", "refinish", "hook", "gone"}
      /\ task' \in [Runs -> {None, "inputs", "graph", "finish", "refinish", "hook", "gone"}]
      /\ \A r \in Runs \ {x} : task'[r] = task[r] /\ row'[r] = row[r] /\ result'[r] = result[r]
      /\ hooked \subseteq hooked' /\ hooked' \subseteq hooked \cup {x}
  <2>1. /\ UNCHANGED <<at, of, up, scan, crashes, early, taken, starts>> /\ left \subseteq left'
        /\ task[x] \notin {None, "gone"} /\ row[x] # None
    BY <1>inv DEF TaskStep, RowFirst, Alive
  <2>2. task'[x] \in {"graph", "finish", "refinish", "hook", "gone"}
    BY DEF TaskStep, Moves, Concludes, Writes, Reports, Stops
  <2>3. /\ task' \in [Runs -> {None, "inputs", "graph", "finish", "refinish", "hook", "gone"}]
        /\ \A r \in Runs \ {x} : task'[r] = task[r]
    BY <1>inv, <2>2 DEF TaskStep, TypeOK
  <2>4. \A r \in Runs \ {x} : row'[r] = row[r] /\ result'[r] = result[r]
    BY <1>inv DEF TaskStep, TypeOK, Moves, Concludes, Writes, Reports, Stops
  <2>5. hooked \subseteq hooked' /\ hooked' \subseteq hooked \cup {x}
    BY DEF TaskStep, Moves, Concludes, Writes, Reports, Stops
  <2> QED  BY <2>1, <2>2, <2>3, <2>4, <2>5
<1>2. /\ row' \in [Runs -> Final \cup {"running", None}] /\ result' \in [Runs -> Outcomes \cup {None}]
      /\ row'[x] = row[x] \/ (row'[x] \in Outcomes /\ task'[x] = "hook" /\ row'[x] = result'[x])
  <2>1. CASE Moves(x)
    BY <1>inv, <1>1, <2>1 DEF Moves, TypeOK, TaskTells, TaskStep
  <2>2. CASE Concludes(x)
    <3>1. PICK s \in Outcomes : result' = [result EXCEPT ![x] = s]
      BY <2>2 DEF Concludes
    <3> QED  BY <1>inv, <1>1, <2>2, <3>1 DEF Concludes, TypeOK, TaskTells
  <2>3. CASE Writes(x)
    <3>1. result[x] \in Outcomes
      BY <1>inv, <2>3 DEF Writes, TaskTells
    <3> QED  BY <1>inv, <1>1, <2>3, <3>1 DEF Writes, TypeOK, TaskTells, Final
  <2>4. CASE Reports(x)
    BY <1>inv, <1>1, <2>4 DEF Reports, TypeOK, TaskTells
  <2>5. CASE Stops(x)
    BY <1>inv, <1>1, <2>5 DEF Stops, TypeOK, TaskTells
  <2> QED  BY <2>1, <2>2, <2>3, <2>4, <2>5 DEF TaskStep
<1>3. /\ task'[x] \in {"finish", "refinish"} => result'[x] \in Outcomes
      /\ task'[x] = "hook" => row'[x] \in Outcomes /\ row'[x] = result'[x]
      /\ x \in hooked' => task'[x] = "gone" /\ task[x] = "hook" /\ row'[x] = row[x] /\ result'[x] = result[x]
      /\ task'[x] = "gone" => x \in left' \/ row'[x] # "running"
  <2>1. CASE Moves(x)
    BY <1>inv, <1>1, <1>2, <2>1 DEF Moves, TypeOK, TaskTells, TaskStep
  <2>2. CASE Concludes(x)
    <3>1. PICK s \in Outcomes : result' = [result EXCEPT ![x] = s]
      BY <2>2 DEF Concludes
    <3> QED  BY <1>inv, <1>1, <1>2, <2>2, <3>1 DEF Concludes, TypeOK, TaskTells
  <2>3. CASE Writes(x)
    <3>1. result[x] \in Outcomes
      BY <1>inv, <2>3 DEF Writes, TaskTells
    <3> QED  BY <1>inv, <1>1, <1>2, <2>3, <3>1 DEF Writes, TypeOK, TaskTells, Final
  <2>4. CASE Reports(x)
    BY <1>inv, <1>1, <1>2, <2>4 DEF Reports, TypeOK, TaskTells
  <2>5. CASE Stops(x)
    BY <1>inv, <1>1, <1>2, <2>5 DEF Stops, TypeOK, TaskTells
  <2> QED  BY <2>1, <2>2, <2>3, <2>4, <2>5 DEF TaskStep
<1>4. TypeOK'
  BY <1>inv, <1>1, <1>2 DEF TypeOK
<1>5. RowFirst'
  BY <1>inv, <1>1, <1>2, <1>3 DEF TypeOK, RowFirst
<1>6. TaskTells'
  <2>1. "running" \notin Outcomes
    OBVIOUS
  <2> QED  BY <1>inv, <1>1, <1>3, <2>1 DEF TypeOK, TaskTells
<1>7. Abandoned'
  BY <1>inv, <1>1, <1>2, <1>3 DEF TypeOK, Abandoned, Alive
<1>8. ScannedIsDead' /\ OwnRows'
  BY <1>inv, <1>1 DEF TypeOK, ScannedIsDead, OwnRows, Alive
<1>9. AtHand'
  <2> SUFFICES ASSUME NEW p \in Processes, up[p] = "relaunch" PROVE row'[Current(p)] # "running"
    BY <1>inv, <1>1 DEF AtHand, Current
  <2>1. Current(p) \in Runs
    BY <1>inv, LeastRun DEF Current, AtHand, TypeOK
  <2> QED  BY <1>inv, <1>1, <1>2, <2>1 DEF AtHand
<1>10. Superseded' /\ RelaunchedOnce'
  <2>1. RelaunchedOnce'
    BY <1>inv, <1>1 DEF RelaunchedOnce
  <2>2. \A r \in Runs : row[r] \notin {"running", None} => row'[r] \notin {"running", None}
    BY <1>1, <1>2
  <2>3. \A r \in Runs : of[r] # None => of[r] \in Runs
    BY <1>inv DEF TypeOK
  <2> QED  BY <1>inv, <1>1, <2>1, <2>2, <2>3 DEF Superseded
<1>11. InterruptedIsDead' /\ NotifiedIsFinal'
  BY <1>inv, <1>1, <1>2, <1>3 DEF TypeOK, TaskTells, InterruptedIsDead, NotifiedIsFinal, Alive
<1> QED  BY <1>4, <1>5, <1>6, <1>7, <1>8, <1>9, <1>10, <1>11, WorkedPrime DEF RunsInv, RunsExact

\* A run begins: the next row, and a task that resolves the inputs.  It is not one
\* the recovery has read, and it is early if the rows are still to be read.
LEMMA LaunchKeeps ==
    ASSUME RunsInv, NEW p \in Processes, NEW origin \in Runs \cup {None}, Launch(p, origin),
           early \subseteq early', left' = left, taken' = taken,
           up[p] \in {"down", "scan"} => NextRun \in early',
           \A q \in Processes : up'[q] \in {"down", "scan"} => up[q] \in {"down", "scan"},
           AtHand',
           up' \in [Processes -> {"down", "scan", "recover", "relaunch", "up"}],
           scan' \in [Processes -> SUBSET Runs], \A q \in Processes : scan'[q] \subseteq scan[q],
           starts' \in Nat /\ crashes' \in Nat /\ starts' + crashes' <= MaxEvents,
           \A r \in Runs \ left, q \in Processes :
               row[r] = "running" /\ ~Alive(r) /\ at[r] = q => up'[q] \in {"down", "scan"} \/ r \in scan'[q],
           origin # None => /\ row[origin] \notin {"running", None}
                            /\ \A r \in Runs : of[r] = origin => origin \in taken /\ at[r] # p
                            /\ origin \notin scan'[p] /\ (origin \in taken \/ at[origin] = p)
    PROVE  RunsInv'
<1>inv. /\ TypeOK /\ InterruptedIsDead /\ RelaunchedOnce /\ NotifiedIsFinal
        /\ RowFirst /\ TaskTells /\ Abandoned /\ OwnRows /\ ScannedIsDead /\ AtHand /\ Superseded
  BY DEF RunsInv, RunsExact
<1> USE RunsAssumption
<1> DEFINE n == NextRun
<1>0. n \in Runs /\ row[n] = None
  <2>1. Unused \in SUBSET Runs /\ Unused # {}
    BY DEF Unused, Launch
  <2> QED  BY <2>1, LeastRun DEF Unused, NextRun
<1>1. /\ row' = [row EXCEPT ![n] = "running"] /\ task' = [task EXCEPT ![n] = "inputs"]
      /\ at' = [at EXCEPT ![n] = p] /\ of' = [of EXCEPT ![n] = origin]
      /\ result' = result /\ hooked' = hooked
  BY DEF Launch, Go
<1> HIDE DEF n
<1>2. task[n] = None /\ n \notin hooked /\ \A q \in Processes : n \notin scan[q]
  BY <1>inv, <1>0 DEF RowFirst
<1>3. /\ row'[n] = "running" /\ task'[n] = "inputs" /\ at'[n] = p /\ of'[n] = origin
      /\ \A r \in Runs \ {n} : row'[r] = row[r] /\ task'[r] = task[r] /\ at'[r] = at[r] /\ of'[r] = of[r]
  BY <1>inv, <1>0, <1>1 DEF TypeOK
<1>4. TypeOK'
  <2>1. row' \in [Runs -> Final \cup {"running", None}]
    BY <1>inv, <1>0, <1>1 DEF TypeOK
  <2>2. task' \in [Runs -> {None, "inputs", "graph", "finish", "refinish", "hook", "gone"}]
    BY <1>inv, <1>0, <1>1 DEF TypeOK
  <2>3. at' \in [Runs -> Processes \cup {None}]
    BY <1>inv, <1>0, <1>1 DEF TypeOK
  <2>4. of' \in [Runs -> Runs \cup {None}]
    BY <1>inv, <1>0, <1>1 DEF TypeOK
  <2>5. result' \in [Runs -> Outcomes \cup {None}] /\ hooked' \subseteq Runs
    BY <1>inv, <1>1 DEF TypeOK
  <2> QED  BY <2>1, <2>2, <2>3, <2>4, <2>5 DEF TypeOK
<1>5. RowFirst'
  <2> SUFFICES ASSUME NEW r \in Runs
               PROVE  /\ row'[r] = None => /\ task'[r] = None /\ r \notin hooked
                                           /\ \A q \in Processes : r \notin scan'[q]
                      /\ row'[r] # None => task'[r] # None /\ at'[r] \in Processes
    BY <1>1 DEF RowFirst
  <2>1. CASE r = n
    BY <1>3, <2>1
  <2>2. CASE r # n
    <3>1. row'[r] = row[r] /\ task'[r] = task[r] /\ at'[r] = at[r]
      BY <1>3, <2>2
    <3>2. /\ row[r] = None => /\ task[r] = None /\ r \notin hooked
                              /\ \A q \in Processes : r \notin scan[q]
          /\ row[r] # None => task[r] # None /\ at[r] \in Processes
      BY <1>inv DEF RowFirst
    <3> QED  BY <3>1, <3>2
  <2> QED  BY <2>1, <2>2
<1>6. TaskTells'
  BY <1>inv, <1>0, <1>1, <1>2, <1>3 DEF TaskTells
<1>7. Abandoned'
  BY <1>inv, <1>0, <1>3 DEF Abandoned, Alive
<1>8. ScannedIsDead'
  <2> SUFFICES ASSUME NEW r \in Runs \ (early' \cup taken), NEW q \in Processes
               PROVE  /\ up'[q] \in {"down", "scan"} /\ at'[r] = q => task'[r] \in {None, "gone"}
                      /\ r \in scan'[q] => task'[r] \in {None, "gone"} /\ r \notin hooked
    BY <1>1 DEF ScannedIsDead, Alive
  <2>1. CASE r = n
    BY <1>2, <1>3, <2>1 DEF n
  <2>2. CASE r # n
    BY <1>inv, <1>3, <2>2 DEF ScannedIsDead, Alive
  <2> QED  BY <2>1, <2>2
<1>own. OwnRows'
  BY <1>inv, <1>2, <1>3 DEF OwnRows
<1>9. RelaunchedOnce'
  <2> SUFFICES ASSUME NEW r \in Runs, NEW t \in Runs, of'[r] # None, of'[r] = of'[t], r # t
               PROVE  of'[r] \in taken /\ at'[r] # at'[t]
    BY DEF RelaunchedOnce
  <2>1. CASE r # n /\ t # n
    BY <1>inv, <1>3, <2>1 DEF RelaunchedOnce
  <2>2. CASE r = n
    BY <1>3, <2>2
  <2>3. CASE t = n
    BY <1>3, <2>3
  <2> QED  BY <2>1, <2>2, <2>3
<1>10. Superseded'
  <2> SUFFICES ASSUME NEW r \in Runs, of'[r] # None
               PROVE  /\ row'[of'[r]] \notin {"running", None}
                      /\ \A q \in Processes : at'[r] = q => of'[r] \notin scan'[q]
                      /\ of'[r] \in taken \/ at'[r] = at'[of'[r]]
    BY DEF Superseded
  <2>1. CASE r = n
    <3>1. origin # n /\ origin \in Runs
      BY <1>0, <1>3, <2>1
    <3> QED  BY <1>3, <2>1, <3>1
  <2>2. CASE r # n
    <3>1. of'[r] = of[r] /\ of[r] \in Runs /\ of[r] # n
      BY <1>inv, <1>0, <1>3, <2>2 DEF TypeOK, Superseded
    <3> QED  BY <1>inv, <1>3, <2>2, <3>1 DEF Superseded
  <2> QED  BY <2>1, <2>2
<1>11. InterruptedIsDead' /\ NotifiedIsFinal'
  BY <1>inv, <1>0, <1>1, <1>2, <1>3 DEF InterruptedIsDead, NotifiedIsFinal, Alive
<1> QED  BY <1>4, <1>5, <1>6, <1>7, <1>8, <1>own, <1>9, <1>10, <1>11, WorkedPrime DEF RunsInv, RunsExact

LEMMA StartKeeps == ASSUME RunsInv, NEW p \in Processes, StartRun(p) PROVE RunsInv'
<1>inv. TypeOK /\ Abandoned /\ AtHand /\ RowFirst
  BY DEF RunsInv, RunsExact
<1>1. /\ Launch(p, None) /\ UNCHANGED <<up, scan, crashes, left>> /\ starts' = starts + 1
      /\ starts + crashes < MaxEvents
      /\ early' = (IF up[p] = "scan" THEN early \cup {NextRun} ELSE early) /\ taken' = taken
      /\ up[p] # "down"
  BY DEF StartRun, host, lost
<1>2. AtHand'
  <2>1. Unused \in SUBSET Runs /\ Unused # {}
    BY <1>1 DEF Unused, Launch
  <2>2. NextRun \in Runs /\ row[NextRun] = None
    BY <2>1, LeastRun DEF Unused, NextRun
  <2> SUFFICES ASSUME NEW q \in Processes, up[q] = "relaunch" PROVE row'[Current(q)] # "running"
    BY <1>inv, <1>1 DEF AtHand, Current
  <2>3. Current(q) \in scan[q] /\ Current(q) \in Runs
    BY <1>inv, LeastRun DEF Current, AtHand, TypeOK
  <2>4. Current(q) # NextRun
    BY <1>inv, <2>2, <2>3 DEF RowFirst
  <2> QED  BY <1>inv, <1>1, <2>3, <2>4 DEF Launch, AtHand, TypeOK
<1>3. starts' \in Nat /\ crashes' \in Nat /\ starts' + crashes' <= MaxEvents
  BY <1>inv, <1>1, RunsAssumption DEF TypeOK
<1>4. \A r \in Runs \ left, q \in Processes :
        row[r] = "running" /\ ~Alive(r) /\ at[r] = q => up'[q] \in {"down", "scan"} \/ r \in scan'[q]
  BY <1>inv, <1>1 DEF Abandoned
<1>5. /\ early \subseteq early' /\ left' = left /\ taken' = taken
      /\ up[p] \in {"down", "scan"} => NextRun \in early'
  BY <1>1
<1>6. /\ up' \in [Processes -> {"down", "scan", "recover", "relaunch", "up"}]
      /\ scan' \in [Processes -> SUBSET Runs] /\ \A q \in Processes : scan'[q] \subseteq scan[q]
      /\ \A q \in Processes : up'[q] \in {"down", "scan"} => up[q] \in {"down", "scan"}
  BY <1>inv, <1>1 DEF TypeOK
<1> QED  BY <1>1, <1>2, <1>3, <1>4, <1>5, <1>6, LaunchKeeps

\* The process dies, and its tasks with it.
LEMMA CrashKeeps == ASSUME RunsInv, NEW p \in Processes, Crash(p) PROVE RunsInv'
<1>inv. /\ TypeOK /\ InterruptedIsDead /\ RelaunchedOnce /\ NotifiedIsFinal
        /\ RowFirst /\ TaskTells /\ Abandoned /\ OwnRows /\ ScannedIsDead /\ AtHand /\ Superseded
  BY DEF RunsInv, RunsExact
<1> USE RunsAssumption
<1>1. /\ UNCHANGED <<row, result, at, of, hooked, early, taken, starts, left>>
      /\ crashes' = crashes + 1 /\ starts + crashes < MaxEvents
      /\ up' = [up EXCEPT ![p] = "down"] /\ scan' = [scan EXCEPT ![p] = {}]
      /\ task' = [r \in Runs |-> IF at[r] = p /\ Alive(r) THEN "gone" ELSE task[r]]
  BY DEF Crash, count, lost
<1>up. /\ up'[p] = "down" /\ scan'[p] = {}
       /\ \A q \in Processes \ {p} : up'[q] = up[q] /\ scan'[q] = scan[q]
       /\ \A q \in Processes : scan'[q] \subseteq scan[q]
  BY <1>inv, <1>1 DEF TypeOK
<1>dead. \A r \in Runs : \/ at[r] = p /\ task'[r] \in {None, "gone"} /\ (task[r] = None <=> task'[r] = None)
                              /\ (task[r] = "gone" => task'[r] = "gone")
                         \/ at[r] # p /\ task'[r] = task[r]
  BY <1>1 DEF Alive
<1>2. TypeOK'
  BY <1>inv, <1>1 DEF TypeOK
<1>3. RowFirst'
  BY <1>inv, <1>1, <1>up, <1>dead DEF RowFirst
<1>4. TaskTells'
  BY <1>inv, <1>1, <1>dead DEF TaskTells
<1>5. Abandoned'
  <2> SUFFICES ASSUME NEW r \in Runs \ left, NEW q \in Processes, row[r] = "running", ~Alive(r)', at[r] = q, q # p
               PROVE  up'[q] \in {"down", "scan"} \/ r \in scan'[q]
    BY <1>1, <1>up DEF Abandoned
  <2>1. ~Alive(r)
    BY <1>dead DEF Alive
  <2> QED  BY <1>inv, <1>up, <2>1 DEF Abandoned
<1>6. ScannedIsDead' /\ OwnRows'
  <2>1. OwnRows'
    BY <1>inv, <1>1, <1>up DEF OwnRows
  <2>2. \A r \in Runs : ~Alive(r) => ~Alive(r)'
    BY <1>dead DEF Alive
  <2>3. \A r \in Runs : at[r] = p => ~Alive(r)'
    BY <1>dead DEF Alive
  <2> QED  BY <1>inv, <1>1, <1>up, <2>1, <2>2, <2>3 DEF ScannedIsDead
<1>7. AtHand'
  BY <1>inv, <1>1, <1>up DEF AtHand, Current
<1>8. Superseded' /\ RelaunchedOnce'
  BY <1>inv, <1>1, <1>up DEF Superseded, RelaunchedOnce
<1>9. InterruptedIsDead' /\ NotifiedIsFinal'
  BY <1>inv, <1>1, <1>dead DEF InterruptedIsDead, NotifiedIsFinal, Alive
<1> QED  BY <1>2, <1>3, <1>4, <1>5, <1>6, <1>7, <1>8, <1>9, WorkedPrime DEF RunsInv, RunsExact

\* The recovery begins, reads the rows, cannot read them, or is over.
LEMMA ScanKeeps ==
    ASSUME RunsInv, NEW p \in Processes, Boot(p) \/ Scan(p) \/ ScanFails(p) \/ Recovered(p)
    PROVE  RunsInv'
<1>inv. /\ TypeOK /\ InterruptedIsDead /\ RelaunchedOnce /\ NotifiedIsFinal
        /\ RowFirst /\ TaskTells /\ Abandoned /\ OwnRows /\ ScannedIsDead /\ AtHand /\ Superseded
  BY DEF RunsInv, RunsExact
<1> USE RunsAssumption
<1> DEFINE running == {r \in Runs : row[r] = "running"}
<1>1. /\ UNCHANGED <<row, task, result, at, of, hooked, early, starts, crashes>>
      /\ left \subseteq left' /\ taken \subseteq taken'
      /\ \A r \in Runs : Alive(r)' <=> Alive(r)
  BY DEF Boot, Scan, Read, ScanFails, Recovered, Fault, count, lost, runs, Alive
<1>up. /\ up' \in [Processes -> {"down", "scan", "recover", "relaunch", "up"}]
       /\ \A q \in Processes \ {p} : up'[q] = up[q]
  <2>1. up' = [up EXCEPT ![p] = "scan"] \/ up' = [up EXCEPT ![p] = "recover"] \/ up' = [up EXCEPT ![p] = "up"]
    BY DEF Boot, Scan, Read, ScanFails, Recovered
  <2> QED  BY <1>inv, <2>1 DEF TypeOK
<1>scan. scan' \in [Processes -> SUBSET Runs] /\ \A q \in Processes \ {p} : scan'[q] = scan[q]
  <2>1. scan' = scan \/ scan' = [scan EXCEPT ![p] = running]
    BY DEF Boot, Scan, Read, ScanFails, Recovered
  <2>2. scan \in [Processes -> SUBSET Runs] /\ running \in SUBSET Runs
    BY <1>inv DEF TypeOK
  <2> QED  BY <2>1, <2>2
<1>own. \/ up[p] = "down" /\ up'[p] = "scan" /\ scan'[p] = {}
        \/ /\ up[p] = "scan" /\ up'[p] = "recover" /\ scan'[p] = running
           /\ \A r \in running : at[r] # p => r \in taken'
        \/ up[p] = "recover" /\ up'[p] = "up" /\ scan'[p] = {} /\ scan[p] = {}
        \/ up[p] = "scan" /\ up'[p] = "up" /\ scan'[p] = {} /\ \A r \in running : at[r] = p => r \in left'
  <2>1. scan[p] = {} \/ up[p] \notin {"down", "scan", "up"}
    BY <1>inv DEF AtHand
  <2> QED  BY <1>inv, <2>1 DEF Boot, Scan, Read, ScanFails, Recovered, Fault, TypeOK
<1>2. TypeOK'
  BY <1>inv, <1>1, <1>up, <1>scan DEF TypeOK
<1>3. RowFirst'
  BY <1>inv, <1>1, <1>scan, <1>own DEF RowFirst
<1>4. TaskTells'
  BY <1>inv, <1>1 DEF TaskTells
<1>5. Abandoned'
  <2> SUFFICES ASSUME NEW r \in Runs \ left', NEW q \in Processes, row[r] = "running", ~Alive(r), at[r] = q
               PROVE  up'[q] \in {"down", "scan"} \/ r \in scan'[q]
    BY <1>1 DEF Abandoned
  <2>1. up[q] \in {"down", "scan"} \/ r \in scan[q]
    BY <1>inv, <1>1 DEF Abandoned
  <2> QED  BY <1>up, <1>scan, <1>own, <2>1
<1>6. OwnRows'
  BY <1>inv, <1>1, <1>scan, <1>own DEF OwnRows
<1>7. ScannedIsDead'
  <2> SUFFICES ASSUME NEW r \in Runs \ (early \cup taken'), NEW q \in Processes
               PROVE  /\ up'[q] \in {"down", "scan"} /\ at[r] = q => ~Alive(r)
                      /\ r \in scan'[q] => ~Alive(r) /\ r \notin hooked
    BY <1>1 DEF ScannedIsDead
  <2>1. r \notin taken /\ (row[r] = "running" => r \notin hooked)
    BY <1>inv, <1>1 DEF NotifiedIsFinal
  <2>2. CASE q # p
    BY <1>inv, <1>up, <1>scan, <2>1, <2>2 DEF ScannedIsDead
  <2>3. CASE q = p
    BY <1>inv, <1>own, <2>1, <2>3 DEF ScannedIsDead
  <2> QED  BY <2>2, <2>3
<1>8. AtHand'
  BY <1>inv, <1>1, <1>up, <1>scan, <1>own DEF AtHand, Current
<1>9. Superseded' /\ RelaunchedOnce'
  <2>1. RelaunchedOnce'
    BY <1>inv, <1>1 DEF RelaunchedOnce
  <2> QED  BY <1>inv, <1>1, <1>scan, <1>own, <2>1 DEF Superseded
<1>10. InterruptedIsDead' /\ NotifiedIsFinal'
  BY <1>inv, <1>1 DEF InterruptedIsDead, NotifiedIsFinal
<1> QED  BY <1>2, <1>3, <1>4, <1>5, <1>6, <1>7, <1>8, <1>9, <1>10, WorkedPrime DEF RunsInv, RunsExact

\* The run at hand is given up, or passed over.
LEMMA InterruptKeeps ==
    ASSUME RunsInv, NEW p \in Processes, NEW written \in BOOLEAN, Interrupt(p, written)
    PROVE  RunsInv'
<1>inv. /\ TypeOK /\ InterruptedIsDead /\ RelaunchedOnce /\ NotifiedIsFinal
        /\ RowFirst /\ TaskTells /\ Abandoned /\ OwnRows /\ ScannedIsDead /\ AtHand /\ Superseded
  BY DEF RunsInv, RunsExact
<1> USE RunsAssumption
<1> DEFINE c == Current(p)
<1>0. c \in scan[p] /\ c \in Runs /\ row[c] # None /\ up[p] = "recover"
  BY <1>inv, LeastRun DEF Interrupt, Current, TypeOK, RowFirst
<1>1. /\ UNCHANGED <<task, result, at, of, hooked, early, taken, starts, crashes>>
      /\ row' = IF written THEN [row EXCEPT ![c] = "interrupted"] ELSE row
      /\ left \subseteq left' /\ (~written /\ at[c] = p => c \in left')
      /\ IF written /\ Retry
         THEN up' = [up EXCEPT ![p] = "relaunch"] /\ scan' = scan
         ELSE scan' = [scan EXCEPT ![p] = @ \ {c}] /\ up' = up
  BY DEF Interrupt, Fault, count
<1>same. Current(p)' = IF written /\ Retry THEN c ELSE Current(p)'
  BY <1>1 DEF Current
<1> HIDE DEF c
<1>row. /\ \A r \in Runs \ {c} : row'[r] = row[r]
        /\ row'[c] = IF written THEN "interrupted" ELSE row[c]
        /\ row' \in [Runs -> Final \cup {"running", None}]
  BY <1>inv, <1>0, <1>1 DEF TypeOK, Final
<1>scan. /\ up' \in [Processes -> {"down", "scan", "recover", "relaunch", "up"}]
         /\ scan' \in [Processes -> SUBSET Runs]
         /\ up'[p] = IF written /\ Retry THEN "relaunch" ELSE "recover"
         /\ scan'[p] = IF written /\ Retry THEN scan[p] ELSE scan[p] \ {c}
         /\ \A q \in Processes \ {p} : up'[q] = up[q] /\ scan'[q] = scan[q]
  <2>1. scan \in [Processes -> SUBSET Runs] /\ up \in [Processes -> {"down", "scan", "recover", "relaunch", "up"}]
    BY <1>inv DEF TypeOK
  <2>2. CASE written /\ Retry
    BY <1>0, <1>1, <2>1, <2>2
  <2>3. CASE ~(written /\ Retry)
    <3>1. scan' = [scan EXCEPT ![p] = scan[p] \ {c}] /\ up' = up
      BY <1>1, <2>3
    <3>2. scan[p] \ {c} \in SUBSET Runs
      BY <2>1
    <3> QED  BY <1>0, <2>1, <2>3, <3>1, <3>2
  <2> QED  BY <2>2, <2>3
<1>2. TypeOK'
  BY <1>inv, <1>1, <1>row, <1>scan DEF TypeOK
<1>3. RowFirst'
  BY <1>inv, <1>0, <1>1, <1>row, <1>scan DEF RowFirst
<1>4. TaskTells'
  <2>1. c \notin early \cup taken => task[c] # "hook"
    BY <1>inv, <1>0 DEF ScannedIsDead, Alive
  <2> QED  BY <1>inv, <1>1, <1>row, <2>1 DEF TaskTells
<1>5. Abandoned'
  BY <1>inv, <1>0, <1>1, <1>row, <1>scan DEF Abandoned, Alive
<1>6. ScannedIsDead' /\ OwnRows'
  <2>1. \A q \in Processes : scan'[q] \subseteq scan[q] /\ (up'[q] \in {"down", "scan"} => up'[q] = up[q])
    BY <1>scan
  <2> QED  BY <1>inv, <1>1, <2>1 DEF ScannedIsDead, OwnRows, Alive
<1>7. AtHand'
  <2> SUFFICES ASSUME NEW q \in Processes
               PROVE  /\ up'[q] = "relaunch" => scan'[q] # {} /\ row'[Current(q)'] # "running"
                      /\ up'[q] \in {"down", "scan", "up"} => scan'[q] = {}
    BY DEF AtHand, Current
  <2>1. CASE q = p
    BY <1>0, <1>same, <1>row, <1>scan, <2>1
  <2>2. CASE q # p
    <3>1. up'[q] = up[q] /\ scan'[q] = scan[q] /\ Current(q)' = Current(q)
      BY <1>scan, <2>2 DEF Current
    <3>2. up[q] = "relaunch" => Current(q) \in Runs
      BY <1>inv, LeastRun DEF Current, AtHand, TypeOK
    <3> QED  BY <1>inv, <1>row, <3>1, <3>2 DEF AtHand
  <2> QED  BY <2>1, <2>2
<1>8. Superseded' /\ RelaunchedOnce'
  <2>1. RelaunchedOnce'
    BY <1>inv, <1>1 DEF RelaunchedOnce
  <2>2. \A r \in Runs : of[r] # None => of[r] \in Runs
    BY <1>inv DEF TypeOK
  <2>3. \A r \in Runs : row[r] \notin {"running", None} => row'[r] \notin {"running", None}
    BY <1>row
  <2> QED  BY <1>inv, <1>1, <1>scan, <2>1, <2>2, <2>3 DEF Superseded
<1>9. InterruptedIsDead' /\ NotifiedIsFinal'
  <2>1. c \notin early \cup taken => ~Alive(c) /\ c \notin hooked
    BY <1>inv, <1>0 DEF ScannedIsDead
  <2> QED  BY <1>inv, <1>1, <1>row, <2>1 DEF InterruptedIsDead, NotifiedIsFinal, Alive
<1> QED  BY <1>2, <1>3, <1>4, <1>5, <1>6, <1>7, <1>8, <1>9, WorkedPrime DEF RunsInv, RunsExact

\* The run at hand is started again as a new one.
LEMMA RelaunchKeeps == ASSUME RunsInv, NEW p \in Processes, Relaunch(p) PROVE RunsInv'
<1>inv. TypeOK /\ Abandoned /\ AtHand /\ RowFirst /\ OwnRows /\ Superseded
  BY DEF RunsInv, RunsExact
<1> DEFINE c == Current(p)
<1>0. c \in scan[p] /\ c \in Runs /\ row[c] \notin {"running", None} /\ up[p] = "relaunch"
  BY <1>inv, LeastRun DEF Relaunch, Current, TypeOK, RowFirst, AtHand
<1>1. /\ Launch(p, c) /\ UNCHANGED <<crashes, early, taken, starts, left>>
      /\ up' = [up EXCEPT ![p] = "recover"] /\ scan' = [scan EXCEPT ![p] = @ \ {c}]
  BY DEF Relaunch, count, lost
<1> HIDE DEF c
<1>scan. /\ up' \in [Processes -> {"down", "scan", "recover", "relaunch", "up"}]
         /\ scan' \in [Processes -> SUBSET Runs] /\ up'[p] = "recover" /\ scan'[p] = scan[p] \ {c}
         /\ \A q \in Processes \ {p} : up'[q] = up[q] /\ scan'[q] = scan[q]
  BY <1>inv, <1>0, <1>1 DEF TypeOK
<1>2. AtHand'
  <2>1. Unused \in SUBSET Runs /\ Unused # {}
    BY <1>1 DEF Unused, Launch
  <2>2. NextRun \in Runs /\ row[NextRun] = None
    BY <2>1, LeastRun DEF Unused, NextRun
  <2> SUFFICES ASSUME NEW q \in Processes \ {p}, up[q] = "relaunch" PROVE row'[Current(q)] # "running"
    BY <1>inv, <1>scan DEF AtHand, Current
  <2>3. Current(q) \in scan[q] /\ Current(q) \in Runs
    BY <1>inv, LeastRun DEF Current, AtHand, TypeOK
  <2>4. Current(q) # NextRun
    BY <1>inv, <2>2, <2>3 DEF RowFirst
  <2> QED  BY <1>inv, <1>1, <2>3, <2>4 DEF Launch, AtHand, TypeOK
<1>3. starts' \in Nat /\ crashes' \in Nat /\ starts' + crashes' <= MaxEvents
  BY <1>inv, <1>1 DEF TypeOK
<1>4. \A r \in Runs \ left, q \in Processes :
        row[r] = "running" /\ ~Alive(r) /\ at[r] = q => up'[q] \in {"down", "scan"} \/ r \in scan'[q]
  BY <1>inv, <1>0, <1>scan DEF Abandoned
<1>5. /\ row[c] \notin {"running", None} /\ c \notin scan'[p] /\ (c \in taken \/ at[c] = p)
      /\ \A r \in Runs : of[r] = c => c \in taken /\ at[r] # p
  BY <1>inv, <1>0, <1>scan, RunsAssumption DEF Superseded, OwnRows
<1>6. /\ \A q \in Processes : scan'[q] \subseteq scan[q]
      /\ \A q \in Processes : up'[q] \in {"down", "scan"} => up[q] \in {"down", "scan"}
      /\ early \subseteq early' /\ left' = left /\ taken' = taken
      /\ up[p] \in {"down", "scan"} => NextRun \in early'
      /\ c \in Runs \cup {None}
  BY <1>0, <1>1, <1>scan
<1> QED  BY <1>1, <1>2, <1>3, <1>4, <1>5, <1>6, <1>scan, LaunchKeeps

LEMMA RelaunchFailsKeeps == ASSUME RunsInv, NEW p \in Processes, RelaunchFails(p) PROVE RunsInv'
<1>inv. /\ TypeOK /\ InterruptedIsDead /\ RelaunchedOnce /\ NotifiedIsFinal
        /\ RowFirst /\ TaskTells /\ Abandoned /\ OwnRows /\ ScannedIsDead /\ AtHand /\ Superseded
  BY DEF RunsInv, RunsExact
<1> USE RunsAssumption
<1> DEFINE c == Current(p)
<1>0. c \in Runs /\ row[c] # "running" /\ up[p] = "relaunch"
  BY <1>inv, LeastRun DEF RelaunchFails, Current, TypeOK, AtHand
<1>1. /\ UNCHANGED <<row, task, result, at, of, hooked, crashes, early, taken, starts, left>>
      /\ up' = [up EXCEPT ![p] = "recover"] /\ scan' = [scan EXCEPT ![p] = @ \ {c}]
  BY DEF RelaunchFails, runs, count, Fault
<1> HIDE DEF c
<1>scan. /\ up' \in [Processes -> {"down", "scan", "recover", "relaunch", "up"}]
         /\ scan' \in [Processes -> SUBSET Runs] /\ up'[p] = "recover" /\ scan'[p] = scan[p] \ {c}
         /\ \A q \in Processes \ {p} : up'[q] = up[q] /\ scan'[q] = scan[q]
  BY <1>inv, <1>0, <1>1 DEF TypeOK
<1>2. TypeOK'
  BY <1>inv, <1>1, <1>scan DEF TypeOK
<1>3. RowFirst'
  BY <1>inv, <1>1, <1>scan DEF RowFirst
<1>4. TaskTells'
  BY <1>inv, <1>1 DEF TaskTells
<1>5. Abandoned'
  BY <1>inv, <1>0, <1>1, <1>scan DEF Abandoned, Alive
<1>6. ScannedIsDead' /\ OwnRows'
  <2>1. \A q \in Processes : scan'[q] \subseteq scan[q] /\ (up'[q] \in {"down", "scan"} => up'[q] = up[q])
    BY <1>scan
  <2> QED  BY <1>inv, <1>1, <2>1 DEF ScannedIsDead, OwnRows, Alive
<1>7. AtHand'
  BY <1>inv, <1>1, <1>scan DEF AtHand, Current
<1>8. Superseded' /\ RelaunchedOnce'
  BY <1>inv, <1>1, <1>scan DEF Superseded, RelaunchedOnce
<1>9. InterruptedIsDead' /\ NotifiedIsFinal'
  BY <1>inv, <1>1 DEF InterruptedIsDead, NotifiedIsFinal, Alive
<1> QED  BY <1>2, <1>3, <1>4, <1>5, <1>6, <1>7, <1>8, <1>9, WorkedPrime DEF RunsInv, RunsExact

LEMMA RunsStep == RunsInv /\ [Next]_vars => RunsInv'
<1> SUFFICES ASSUME RunsInv, [Next]_vars PROVE RunsInv'
  OBVIOUS
<1>1. CASE UNCHANGED vars
  BY <1>1, SameStep
<1>2. ASSUME NEW p \in Processes, StartRun(p) \/ Crash(p) \/ Recover(p) PROVE RunsInv'
  BY <1>2, StartKeeps, CrashKeeps, ScanKeeps, InterruptKeeps, RelaunchKeeps, RelaunchFailsKeeps DEF Recover
<1>3. ASSUME NEW r \in Runs, Execute(r) \/ Cancel(r) PROVE RunsInv'
  BY <1>3, ExecuteCases, TaskStepKeeps DEF RunsInv, RunsExact
<1> QED  BY <1>1, <1>2, <1>3 DEF Next

\* However many processes share the database: a row that says running is worked on
\* or is about to be recovered, a run given up as interrupted is not at work, no
\* process starts one again twice, and the terminal hook reports what the row says
\* for good, through cancellation, failing writes, crashes and recoveries that
\* crash (_execute, recover_interrupted_runs). Excepted are the runs that RunsExact
\* names: above all those that the recovery of another process has read.
THEOREM RowsTellTheTruth == Spec => []RunsExact
<1>1. RunsInv => RunsExact
  BY DEF RunsInv
<1> QED  BY <1>1, RunsInit, RunsStep, PTL DEF Spec

-----------------------------------------------------------------------------
(* The cron jobs of a workflow: WorkflowSchedule *)

LEMMA SameSizes ==
    ASSUME NEW S
    PROVE  (Schedule!IsFiniteSet(S) <=> IsFiniteSet(S)) /\ Schedule!Cardinality(S) = Cardinality(S)
BY DEF Schedule!IsFiniteSet, IsFiniteSet, Schedule!Cardinality, Cardinality

Begun == {o \in Saves : pc[o] # "idle"}
Target == Schedule!Wanted(Schedule!LatestRow)

\* The versions are numbered without gaps, and as many as saves have begun.
Numbered ==
    rows = {} \/ \E n \in Schedule!Versions : rows = 1 .. n /\ n <= 1 + Cardinality(Begun)

\* What is true of a request whatever crosses it: jobs it has read or has still to
\* add are under rows of the workflow, as long as there is one.
Known(o) ==
    /\ pc[o] = "latest" => o \in Saves \cup Refreshes
    /\ pc[o] \in {"latest", "family"} => anchor[o] \in Schedule!Versions
    /\ pc[o] = "add" => o \notin Deletes
    /\ o \in Deletes /\ pc[o] \in {"family", "apply"} => rows = {}
    /\ rows # {} => latest[o] \in {0} \cup rows /\ \A j \in todo[o] : j[1] \in rows

\* What a request has read is still so when it is used, if nothing overtakes it.
ReadsHold(o) ==
    /\ pc[o] = "latest" => anchor[o] \in rows
    /\ pc[o] = "family" /\ o \notin Deletes => anchor[o] \in rows /\ latest[o] = Schedule!LatestRow
    /\ pc[o] = "apply" /\ o \notin Deletes =>
            /\ latest[o] = Schedule!LatestRow /\ rows \subseteq family[o]
            /\ rows = {} => family[o] = Schedule!Versions
    /\ pc[o] = "add" =>
            /\ rows # {} /\ todo[o] \subseteq Target
            /\ amiss = {} => jobs \subseteq Target

\* Jobs are under rows of the workflow; under one of them, unless requests have crossed.
JobNames == rows # {} => \A j \in jobs : j[1] \in rows
OneName == rows # {} /\ amiss = {} => \A j, k \in jobs : j[1] = k[1]

\* A request under way that will bring the jobs in line.
Mending(o) ==
    \/ o \in Saves /\ pc[o] \in {"latest", "family", "apply"}
    \/ pc[o] = "add" /\ jobs \cup todo[o] = Target
    \/ /\ o \in Deletes /\ rows = {}
       /\ \/ pc[o] = "family" /\ \A j \in jobs : j[1] = anchor[o]
          \/ pc[o] = "apply" /\ \A j \in jobs : j[1] \in family[o]

WillMatch == amiss = {} /\ ~failed => jobs = Target \/ \E o \in Schedule!Busy : Mending(o)

ScheduleInv ==
    /\ Schedule!TypeOK /\ Numbered /\ JobNames /\ OneName /\ WillMatch
    /\ \A o \in Schedule!Ops : Known(o) /\ (o \notin amiss => ReadsHold(o))

-----------------------------------------------------------------------------
(* Versions *)

LEMMA LatestOf ==
    /\ rows = {} => Schedule!LatestRow = 0
    /\ \A n \in Nat \ {0} : rows = 1 .. n => Schedule!LatestRow = n
<1> SUFFICES ASSUME NEW n \in Nat \ {0}, rows = 1 .. n PROVE Schedule!LatestRow = n
  BY DEF Schedule!LatestRow
<1>1. n \in rows /\ \A y \in rows : n >= y
  OBVIOUS
<1>2. \A x \in rows : (\A y \in rows : x >= y) => x = n
  OBVIOUS
<1> QED  BY <1>1, <1>2 DEF Schedule!LatestRow, Schedule!Max

LEMMA VersionsRange ==
    ASSUME Schedule!ScheduleAssumption
    PROVE  /\ Cardinality(Saves) \in Nat /\ IsFiniteSet(Saves)
           /\ Schedule!Versions = 1 .. 1 + Cardinality(Saves) /\ Schedule!Versions \subseteq Nat \ {0}
<1>1. IsFiniteSet(Saves)
  <2>1. IsFiniteSet(Schedule!Ops)
    BY SameSizes DEF Schedule!ScheduleAssumption
  <2> QED  BY <2>1, FS_Subset DEF Schedule!Ops
<1>2. Cardinality(Saves) \in Nat
  BY <1>1, FS_CardinalityType
<1>3. Schedule!Versions = 1 .. 1 + Cardinality(Saves)
  BY SameSizes DEF Schedule!Versions
<1> QED  BY <1>1, <1>2, <1>3

\* The latest version is one of the rows.
LEMMA LatestIsRow ==
    ASSUME Schedule!ScheduleAssumption, Schedule!TypeOK, Numbered
    PROVE  /\ rows # {} => Schedule!LatestRow \in rows /\ Schedule!LatestRow \in Schedule!Versions /\ Schedule!LatestRow # 0
           /\ Schedule!LatestRow \in {0} \cup Schedule!Versions /\ (rows = {} => Schedule!LatestRow = 0)
           /\ Schedule!Wanted(Schedule!LatestRow) \subseteq Schedule!Versions \X Triggers
           /\ rows = {} => Schedule!Wanted(Schedule!LatestRow) = {}
           /\ \A j \in Schedule!Wanted(Schedule!LatestRow) : j[1] = Schedule!LatestRow
<1>1. CASE rows = {}
  BY <1>1, LatestOf DEF Schedule!Wanted
<1>2. CASE rows # {}
  <2>1. PICK n \in Nat \ {0} : rows = 1 .. n
    BY <1>2, VersionsRange DEF Numbered
  <2>2. Schedule!LatestRow = n /\ n \in rows /\ n \in Schedule!Versions /\ crons[n] \subseteq Triggers
    BY <2>1, LatestOf DEF Schedule!TypeOK
  <2> QED  BY <1>2, <2>2 DEF Schedule!Wanted
<1> QED  BY <1>1, <1>2

\* There is room for the row of a save that has not begun.
LEMMA RoomForSave ==
    ASSUME Schedule!ScheduleAssumption, Schedule!TypeOK, Numbered, NEW o \in Saves, pc[o] = "idle", rows # {},
           pc' = [pc EXCEPT ![o] = "latest"], rows' = rows \cup {Schedule!LatestRow + 1}
    PROVE  Schedule!LatestRow + 1 \in Schedule!Versions /\ Numbered' /\ Schedule!LatestRow' = Schedule!LatestRow + 1
<1>1. PICK n \in Nat \ {0} : rows = 1 .. n /\ n <= 1 + Cardinality(Begun)
  BY VersionsRange DEF Numbered
<1>2. Schedule!LatestRow = n
  BY <1>1, LatestOf
<1>3. Cardinality(Begun) \in Nat /\ IsFiniteSet(Begun) /\ Cardinality(Begun) < Cardinality(Saves)
      /\ Cardinality(Saves) \in Nat
  <2>1. Begun \subseteq Saves \ {o} /\ IsFiniteSet(Saves)
    BY VersionsRange DEF Begun
  <2>2. Cardinality(Saves \ {o}) = Cardinality(Saves) - 1 /\ IsFiniteSet(Saves \ {o})
        /\ Cardinality(Saves) \in Nat
    BY <2>1, FS_RemoveElement, FS_CardinalityType
  <2>3. IsFiniteSet(Begun) /\ Cardinality(Begun) <= Cardinality(Saves \ {o})
    BY <2>1, <2>2, FS_Subset
  <2> QED  BY <2>2, <2>3, FS_CardinalityType
<1>4. Begun' = Begun \cup {o} /\ o \notin Begun
  <2>1. pc \in [Schedule!Ops -> {"idle", "latest", "family", "apply", "add", "done"}] /\ Saves \subseteq Schedule!Ops
    BY DEF Schedule!TypeOK, Schedule!Ops
  <2> QED  BY <2>1 DEF Begun
<1>5. Cardinality(Begun') = Cardinality(Begun) + 1
  BY <1>3, <1>4, FS_AddElement
<1>6. n + 1 \in Schedule!Versions /\ rows' = 1 .. (n + 1) /\ n + 1 <= 1 + Cardinality(Begun')
  BY <1>1, <1>2, <1>3, <1>5, VersionsRange
<1>7. Schedule!LatestRow' = n + 1
  <2>1. n + 1 \in rows' /\ \A y \in rows' : n + 1 >= y
    BY <1>6
  <2>2. \A x \in rows' : (\A y \in rows' : x >= y) => x = n + 1
    BY <1>6
  <2> QED  BY <2>1, <2>2 DEF Schedule!LatestRow, Schedule!Max
<1> QED  BY <1>2, <1>3, <1>1, <1>6, <1>7 DEF Schedule!Versions, Numbered

\* Rows that stay, stay numbered.
LEMMA RowsStay ==
    ASSUME Schedule!ScheduleAssumption, Schedule!TypeOK, Schedule!TypeOK', Numbered, UNCHANGED Schedule!store,
           \A o \in Saves : pc'[o] = "idle" => pc[o] = "idle"
    PROVE  /\ Numbered' /\ Schedule!LatestRow' = Schedule!LatestRow
           /\ Schedule!Wanted(Schedule!LatestRow)' = Schedule!Wanted(Schedule!LatestRow)
<1>1. Schedule!LatestRow' = Schedule!LatestRow /\ Schedule!Wanted(Schedule!LatestRow)' = Schedule!Wanted(Schedule!LatestRow)
  BY DEF Schedule!store, Schedule!LatestRow, Schedule!Wanted
<1>2. Begun \subseteq Begun' /\ IsFiniteSet(Begun') /\ IsFiniteSet(Begun)
  BY VersionsRange, FS_Subset DEF Begun
<1>3. Cardinality(Begun) <= Cardinality(Begun') /\ Cardinality(Begun) \in Nat /\ Cardinality(Begun') \in Nat
  BY <1>2, FS_Subset, FS_CardinalityType
<1>4. Numbered'
  BY <1>3, VersionsRange DEF Numbered, Schedule!store
<1> QED  BY <1>1, <1>4

-----------------------------------------------------------------------------
(* What a step of one request leaves alone *)

OthersStay(o) ==
    \A p \in Schedule!Ops \ {o} : /\ pc'[p] = pc[p] /\ anchor'[p] = anchor[p] /\ latest'[p] = latest[p]
                         /\ family'[p] = family[p] /\ todo'[p] = todo[p]

\* A step that touches neither rows nor jobs.
LEMMA QuietStep ==
    ASSUME Schedule!ScheduleAssumption, ScheduleInv, NEW o \in Schedule!Ops, OthersStay(o),
           UNCHANGED <<Schedule!store, jobs, amiss>>, failed => failed', Schedule!TypeOK', pc'[o] # "idle",
           Known(o)', o \notin amiss => ReadsHold(o)',
           amiss = {} /\ ~failed' /\ Mending(o) => jobs = Target \/ Mending(o)'
    PROVE  ScheduleInv'
<1>0. Schedule!TypeOK /\ Numbered /\ JobNames /\ OneName /\ WillMatch
  BY DEF ScheduleInv
<1>1. /\ Numbered' /\ Schedule!LatestRow' = Schedule!LatestRow
      /\ Target' = Target /\ rows' = rows /\ jobs' = jobs /\ amiss' = amiss
  <2>1. \A p \in Saves : pc'[p] = "idle" => pc[p] = "idle"
    BY DEF OthersStay, Schedule!Ops
  <2> QED  BY <1>0, <2>1, RowsStay DEF Schedule!store, Target
<1>2. JobNames' /\ OneName'
  BY <1>0, <1>1 DEF JobNames, OneName
<1>3. ASSUME NEW p \in Schedule!Ops \ {o}
      PROVE  /\ Known(p)' /\ (p \notin amiss => ReadsHold(p)') /\ (Mending(p) => Mending(p)')
             /\ p \in Schedule!Busy => p \in Schedule!Busy'
  <2>1. /\ pc'[p] = pc[p] /\ anchor'[p] = anchor[p] /\ latest'[p] = latest[p]
        /\ family'[p] = family[p] /\ todo'[p] = todo[p]
    BY DEF OthersStay
  <2>2. Known(p) /\ (p \notin amiss => ReadsHold(p))
    BY DEF ScheduleInv
  <2>3. Known(p)'
    BY <1>1, <2>1, <2>2 DEF Known, Schedule!Versions
  <2>4. p \notin amiss => ReadsHold(p)'
    BY <1>1, <2>1, <2>2 DEF ReadsHold, Schedule!Versions
  <2>5. Mending(p) => Mending(p)'
    BY <1>1, <2>1 DEF Mending
  <2> QED  BY <2>1, <2>3, <2>4, <2>5 DEF Schedule!Busy
<1>4. WillMatch'
  <2> SUFFICES ASSUME amiss = {}, ~failed', jobs # Target PROVE \E p \in Schedule!Busy' : Mending(p)'
    BY <1>1 DEF WillMatch, Schedule!Busy
  <2>1. PICK p \in Schedule!Busy : Mending(p)
    BY <1>0 DEF WillMatch
  <2>2. p \in Schedule!Ops
    BY DEF Schedule!Busy
  <2>3. CASE p = o
    <3>1. Mending(o)'
      BY <2>1, <2>3
    <3>2. pc'[o] \in {"latest", "family", "apply", "add"}
      BY <3>1 DEF Mending
    <3> QED  BY <3>1, <3>2 DEF Schedule!Busy
  <2>4. CASE p # o
    BY <1>3, <2>1, <2>2, <2>4
  <2> QED  BY <2>3, <2>4
<1>5. \A p \in Schedule!Ops : Known(p)' /\ (p \notin amiss' => ReadsHold(p)')
  BY <1>1, <1>3
<1> QED  BY <1>1, <1>2, <1>4, <1>5 DEF ScheduleInv

\* A step that changes jobs: if requests have crossed, under rows of the workflow;
\* otherwise, and when they are put right, towards those of the latest one.
LEMMA JobsStep ==
    ASSUME Schedule!ScheduleAssumption, ScheduleInv, NEW o \in Schedule!Ops, OthersStay(o),
           UNCHANGED Schedule!store, Schedule!TypeOK', pc'[o] # "idle", JobNames', Known(o)',
           \/ amiss # {} /\ amiss' = amiss /\ (o \notin amiss => ReadsHold(o)')
           \/ /\ amiss' = {} /\ Schedule!Busy \cap amiss = {} /\ ReadsHold(o)'
              /\ jobs' \subseteq Target /\ jobs \cap Target \subseteq jobs'
              /\ ~failed' => \/ jobs' = Target
                             \/ pc'[o] = "add" /\ jobs' \cup todo'[o] = Target
                             \/ amiss = {} /\ ~failed /\ jobs \subseteq Target /\ ~Mending(o)
    PROVE  ScheduleInv'
<1>0. Schedule!TypeOK /\ Numbered /\ JobNames /\ OneName /\ WillMatch
  BY DEF ScheduleInv
<1>1. /\ Numbered' /\ Schedule!LatestRow' = Schedule!LatestRow /\ Target' = Target /\ rows' = rows
  <2>1. \A p \in Saves : pc'[p] = "idle" => pc[p] = "idle"
    BY DEF OthersStay, Schedule!Ops
  <2> QED  BY <1>0, <2>1, RowsStay DEF Schedule!store, Target
<1>2. OneName'
  <2>1. \A j \in Target : j[1] = Schedule!LatestRow
    BY <1>0, LatestIsRow DEF Target
  <2> QED  BY <1>1, <2>1 DEF OneName
<1>3. ASSUME NEW p \in Schedule!Ops \ {o}
      PROVE  /\ Known(p)' /\ (p \notin amiss' => ReadsHold(p)')
             /\ p \in Schedule!Busy => p \in Schedule!Busy'
  <2>1. /\ pc'[p] = pc[p] /\ anchor'[p] = anchor[p] /\ latest'[p] = latest[p]
        /\ family'[p] = family[p] /\ todo'[p] = todo[p]
    BY DEF OthersStay
  <2>2. Known(p) /\ (p \notin amiss => ReadsHold(p))
    BY DEF ScheduleInv
  <2>3. Known(p)'
    BY <1>1, <2>1, <2>2 DEF Known, Schedule!Versions
  <2>4. p \notin amiss' => ReadsHold(p)'
    <3>1. p \notin amiss' /\ pc[p] \notin {"idle", "done"} => p \notin amiss
      BY DEF Schedule!Busy
    <3> QED  BY <1>1, <2>1, <2>2, <3>1 DEF ReadsHold, Schedule!Versions
  <2> QED  BY <2>1, <2>3, <2>4 DEF Schedule!Busy
<1>4. WillMatch'
  <2> SUFFICES ASSUME amiss' = {}, ~failed', jobs' # Target PROVE \E p \in Schedule!Busy' : Mending(p)'
    BY <1>1 DEF WillMatch, Schedule!Busy
  <2>1. CASE pc'[o] = "add" /\ jobs' \cup todo'[o] = Target
    BY <1>1, <2>1 DEF Mending, Schedule!Busy
  <2>2. CASE amiss = {} /\ ~failed /\ jobs \subseteq Target /\ ~Mending(o)
    <3>1. jobs \subseteq jobs' /\ jobs # Target
      BY <2>2
    <3>2. PICK p \in Schedule!Busy : Mending(p)
      BY <1>0, <2>2, <3>1 DEF WillMatch
    <3>3. p \in Schedule!Ops \ {o}
      BY <2>2, <3>2 DEF Schedule!Busy
    <3>4. /\ pc'[p] = pc[p] /\ anchor'[p] = anchor[p] /\ latest'[p] = latest[p]
          /\ family'[p] = family[p] /\ todo'[p] = todo[p]
      BY <3>3 DEF OthersStay
    <3>5. rows = {} => Target = {}
      BY <1>0, LatestIsRow DEF Target
    <3>6. Mending(p)'
      BY <1>1, <2>2, <3>1, <3>2, <3>4, <3>5 DEF Mending
    <3> QED  BY <1>3, <3>2, <3>3, <3>6
  <2> QED  BY <2>1, <2>2
<1>5. \A p \in Schedule!Ops : Known(p)' /\ (p \notin amiss' => ReadsHold(p)')
  BY <1>3
<1> QED  BY <1>1, <1>2, <1>4, <1>5 DEF ScheduleInv

-----------------------------------------------------------------------------
(* The requests *)

LEMMA SaveKeeps ==
    ASSUME Schedule!ScheduleAssumption, ScheduleInv, NEW o \in Schedule!Ops, NEW a \in Schedule!Versions,
           NEW T \in SUBSET Triggers, Schedule!Save(o, a, T)
    PROVE  ScheduleInv'
<1>0. /\ Schedule!TypeOK /\ Numbered /\ JobNames /\ OneName
      /\ pc[o] = "idle" /\ o \in Saves /\ a \in rows
  BY DEF ScheduleInv, Schedule!Save
<1>1. /\ rows' = rows \cup {Schedule!LatestRow + 1} /\ crons' = [crons EXCEPT ![Schedule!LatestRow + 1] = T]
      /\ anchor' = [anchor EXCEPT ![o] = a] /\ pc' = [pc EXCEPT ![o] = "latest"]
      /\ amiss' = amiss \cup Schedule!Busy /\ UNCHANGED <<jobs, latest, family, todo, failed>>
  BY DEF Schedule!Save, Schedule!Go, Schedule!Overtake
<1>2. Schedule!LatestRow + 1 \in Schedule!Versions /\ Numbered'
  BY <1>0, <1>1, RoomForSave
<1>3. Schedule!TypeOK' /\ pc'[o] = "latest" /\ anchor'[o] = a
  BY <1>0, <1>1, <1>2 DEF Schedule!TypeOK, Schedule!Busy
<1>4. \A p \in Schedule!Ops \ {o} : pc'[p] = pc[p] /\ anchor'[p] = anchor[p]
  BY <1>0, <1>1 DEF Schedule!TypeOK
<1>5. JobNames' /\ OneName'
  BY <1>0, <1>1 DEF JobNames, OneName
<1>6. WillMatch'
  BY <1>0, <1>3 DEF WillMatch, Mending, Schedule!Busy, Schedule!Ops
<1>7. ASSUME NEW p \in Schedule!Ops PROVE Known(p)' /\ (p \notin amiss' => ReadsHold(p)')
  <2>0. Known(p)
    BY DEF ScheduleInv
  <2>1. CASE p = o
    BY <1>0, <1>1, <1>3, <2>0, <2>1 DEF Known, ReadsHold, Schedule!ScheduleAssumption, Schedule!Versions
  <2>2. CASE p # o
    <3>1. Known(p)'
      BY <1>0, <1>1, <1>4, <2>0, <2>2 DEF Known, Schedule!Versions
    <3>2. p \notin amiss' => pc[p] \in {"idle", "done"}
      BY <1>1 DEF Schedule!Busy
    <3>3. p \notin amiss' => ReadsHold(p)'
      BY <1>4, <2>2, <3>2 DEF ReadsHold
    <3> QED  BY <3>1, <3>3
  <2> QED  BY <2>1, <2>2
<1> QED  BY <1>2, <1>3, <1>5, <1>6, <1>7 DEF ScheduleInv

LEMMA DeleteKeeps ==
    ASSUME Schedule!ScheduleAssumption, ScheduleInv, NEW o \in Schedule!Ops, NEW a \in Schedule!Versions,
           Schedule!Delete(o, a)
    PROVE  ScheduleInv'
<1>0. /\ Schedule!TypeOK /\ Numbered /\ WillMatch
      /\ pc[o] = "idle" /\ o \in Deletes /\ Known(o)
  BY DEF ScheduleInv, Schedule!Delete
<1>1. /\ rows' = {} /\ crons' = crons /\ anchor' = [anchor EXCEPT ![o] = a] /\ pc' = [pc EXCEPT ![o] = "family"]
      /\ UNCHANGED <<jobs, latest, family, todo, failed>>
      /\ IF rows = {} THEN amiss' = amiss
         ELSE amiss' = amiss \cup Schedule!Busy \cup (IF a = Schedule!LatestRow THEN {} ELSE {o})
  BY DEF Schedule!Delete, Schedule!Go, Schedule!Overtake
<1>2. Schedule!TypeOK' /\ pc'[o] = "family" /\ anchor'[o] = a
  BY <1>0, <1>1 DEF Schedule!TypeOK, Schedule!Busy
<1>3. Known(o)' /\ ReadsHold(o)'
  BY <1>0, <1>1, <1>2 DEF Known, ReadsHold, Schedule!Versions
<1>4. OthersStay(o)
  BY <1>0, <1>1 DEF Schedule!TypeOK, OthersStay
<1>5. CASE rows = {}
  <2>1. UNCHANGED <<Schedule!store, jobs, amiss>>
    BY <1>1, <1>5 DEF Schedule!store
  <2>2. ~Mending(o)
    BY <1>0 DEF Mending
  <2> QED  BY <1>1, <1>2, <1>3, <1>4, <2>1, <2>2, QuietStep
<1>6. CASE rows # {}
  <2>1. Numbered' /\ JobNames' /\ OneName'
    BY <1>1 DEF Numbered, JobNames, OneName
  <2>2. ASSUME NEW p \in Schedule!Ops PROVE Known(p)' /\ (p \notin amiss' => ReadsHold(p)')
    <3>1. CASE p = o
      BY <1>3, <3>1
    <3>2. CASE p # o
      <4>1. Known(p) /\ pc'[p] = pc[p] /\ anchor'[p] = anchor[p]
        BY <1>4, <3>2 DEF ScheduleInv, OthersStay
      <4>2. Known(p)'
        BY <1>1, <4>1 DEF Known, Schedule!Versions
      <4>3. p \notin amiss' => pc[p] \in {"idle", "done"}
        BY <1>1, <1>6 DEF Schedule!Busy
      <4>4. p \notin amiss' => ReadsHold(p)'
        BY <4>1, <4>3 DEF ReadsHold
      <4> QED  BY <4>2, <4>4
    <3> QED  BY <3>1, <3>2
  <2>3. WillMatch'
    <3> SUFFICES ASSUME amiss' = {}, ~failed PROVE Mending(o)' /\ o \in Schedule!Busy'
      BY <1>1 DEF WillMatch
    <3>1. amiss = {} /\ Schedule!Busy = {} /\ a = Schedule!LatestRow
      BY <1>1, <1>6
    <3>2. jobs = Target
      BY <1>0, <3>1 DEF WillMatch
    <3>3. \A j \in jobs : j[1] = a
      BY <1>0, <3>1, <3>2, LatestIsRow DEF Target
    <3> QED  BY <1>0, <1>1, <1>2, <3>3 DEF Mending, Schedule!Busy
  <2> QED  BY <1>2, <2>1, <2>2, <2>3 DEF ScheduleInv
<1> QED  BY <1>5, <1>6

LEMMA RefreshKeeps ==
    ASSUME Schedule!ScheduleAssumption, ScheduleInv, NEW o \in Schedule!Ops, NEW a \in Schedule!Versions,
           Schedule!Refresh(o, a)
    PROVE  ScheduleInv'
<1>0. Schedule!TypeOK /\ pc[o] = "idle" /\ o \in Refreshes /\ a \in rows /\ o \notin Deletes /\ Known(o)
  BY DEF ScheduleInv, Schedule!Refresh, Schedule!ScheduleAssumption
<1>1. /\ anchor' = [anchor EXCEPT ![o] = a] /\ pc' = [pc EXCEPT ![o] = "latest"]
      /\ UNCHANGED <<Schedule!store, jobs, latest, family, todo, failed, amiss>>
  BY DEF Schedule!Refresh, Schedule!Go, Schedule!trouble
<1>2. Schedule!TypeOK' /\ pc'[o] = "latest" /\ anchor'[o] = a
  BY <1>0, <1>1 DEF Schedule!TypeOK, Schedule!store
<1>3. OthersStay(o)
  BY <1>0, <1>1 DEF Schedule!TypeOK, OthersStay
<1>4. Known(o)' /\ ReadsHold(o)' /\ ~Mending(o)
  BY <1>0, <1>1, <1>2 DEF Known, ReadsHold, Mending, Schedule!store, Schedule!Versions
<1> QED  BY <1>0, <1>1, <1>2, <1>3, <1>4, QuietStep

LEMMA ReadLatestKeeps ==
    ASSUME Schedule!ScheduleAssumption, ScheduleInv, NEW o \in Schedule!Ops, Schedule!ReadLatest(o)
    PROVE  ScheduleInv'
<1>0. /\ Schedule!TypeOK /\ Numbered /\ pc[o] = "latest" /\ Known(o) /\ (o \notin amiss => ReadsHold(o))
      /\ o \notin Deletes
  BY DEF ScheduleInv, Schedule!ReadLatest, Known, Schedule!ScheduleAssumption
<1> DEFINE l == IF anchor[o] \in rows THEN Schedule!LatestRow ELSE 0
<1>1. l \in {0} \cup Schedule!Versions /\ (rows # {} => l \in {0} \cup rows)
  BY <1>0, LatestIsRow
<1>2. /\ latest' = [latest EXCEPT ![o] = l] /\ pc' = [pc EXCEPT ![o] = "family"]
      /\ UNCHANGED <<Schedule!store, jobs, anchor, family, todo, failed, amiss>>
  BY DEF Schedule!ReadLatest, Schedule!Go, Schedule!trouble
<1>fresh. o \notin amiss => anchor[o] \in rows /\ l = Schedule!LatestRow
  BY <1>0 DEF ReadsHold
<1> HIDE DEF l
<1>3. Schedule!TypeOK' /\ pc'[o] = "family" /\ latest'[o] = l
  BY <1>0, <1>1, <1>2 DEF Schedule!TypeOK, Schedule!store
<1>4. OthersStay(o)
  BY <1>0, <1>2 DEF Schedule!TypeOK, OthersStay
<1>5. Known(o)'
  BY <1>0, <1>1, <1>2, <1>3 DEF Known, Schedule!store, Schedule!Versions
<1>6. o \notin amiss => ReadsHold(o)'
  BY <1>fresh, <1>2, <1>3 DEF ReadsHold, Schedule!store, Schedule!LatestRow
<1>7. Mending(o) => Mending(o)'
  BY <1>0, <1>3 DEF Mending
<1> QED  BY <1>2, <1>3, <1>4, <1>5, <1>6, <1>7, QuietStep

LEMMA ReadFamilyKeeps ==
    ASSUME Schedule!ScheduleAssumption, ScheduleInv, NEW o \in Schedule!Ops, Schedule!ReadFamily(o)
    PROVE  ScheduleInv'
<1>0. /\ Schedule!TypeOK /\ Numbered /\ pc[o] = "family" /\ Known(o) /\ (o \notin amiss => ReadsHold(o))
  BY DEF ScheduleInv, Schedule!ReadFamily
<1> DEFINE F == {anchor[o]} \cup (IF anchor[o] \in rows THEN rows ELSE {})
<1>1. /\ family' = [family EXCEPT ![o] = F] /\ pc' = [pc EXCEPT ![o] = "apply"]
      /\ UNCHANGED <<Schedule!store, jobs, anchor, latest, todo, failed, amiss>>
  BY DEF Schedule!ReadFamily, Schedule!Go, Schedule!trouble
<1>2. F \subseteq Schedule!Versions
  BY <1>0 DEF Known, Schedule!TypeOK
<1>3. Schedule!TypeOK' /\ pc'[o] = "apply" /\ family'[o] = F
  BY <1>0, <1>1, <1>2 DEF Schedule!TypeOK, Schedule!store
<1>4. OthersStay(o)
  BY <1>0, <1>1 DEF Schedule!TypeOK, OthersStay
<1>5. Known(o)'
  BY <1>0, <1>1, <1>3 DEF Known, Schedule!store, Schedule!Versions
<1>6. o \notin amiss => ReadsHold(o)'
  BY <1>0, <1>1, <1>3 DEF ReadsHold, Schedule!store, Schedule!LatestRow
<1>7. Mending(o) => Mending(o)'
  BY <1>0, <1>1, <1>3 DEF Mending, Schedule!store
<1> QED  BY <1>1, <1>3, <1>4, <1>5, <1>6, <1>7, QuietStep

LEMMA ReadAllKeeps ==
    ASSUME Schedule!ScheduleAssumption, ScheduleInv, NEW o \in Schedule!Ops, Schedule!ReadAll(o)
    PROVE  ScheduleInv'
<1>0. Schedule!TypeOK /\ Numbered /\ pc[o] = "idle" /\ o \notin Deletes /\ Known(o)
  BY DEF ScheduleInv, Schedule!ReadAll, Schedule!ScheduleAssumption
<1>1. /\ latest' = [latest EXCEPT ![o] = Schedule!LatestRow] /\ family' = [family EXCEPT ![o] = Schedule!Versions]
      /\ pc' = [pc EXCEPT ![o] = "apply"] /\ UNCHANGED <<Schedule!store, jobs, anchor, todo, failed, amiss>>
  BY DEF Schedule!ReadAll, Schedule!Go, Schedule!trouble
<1>2. Schedule!LatestRow \in {0} \cup Schedule!Versions /\ (rows # {} => Schedule!LatestRow \in rows)
  BY <1>0, LatestIsRow
<1>3. Schedule!TypeOK' /\ pc'[o] = "apply" /\ family'[o] = Schedule!Versions /\ latest'[o] = Schedule!LatestRow
  BY <1>0, <1>1, <1>2 DEF Schedule!TypeOK, Schedule!store
<1>4. OthersStay(o)
  BY <1>0, <1>1 DEF Schedule!TypeOK, OthersStay
<1>5. Known(o)'
  BY <1>0, <1>1, <1>2, <1>3 DEF Known, Schedule!store, Schedule!Versions
<1>6. ReadsHold(o)' /\ ~Mending(o)
  BY <1>0, <1>1, <1>3 DEF ReadsHold, Mending, Schedule!store, Schedule!LatestRow, Schedule!TypeOK,
     Schedule!Versions
<1> QED  BY <1>0, <1>1, <1>3, <1>4, <1>5, <1>6, QuietStep

\* The jobs of a deleted workflow go.
LEMMA RemoveKeeps ==
    ASSUME Schedule!ScheduleAssumption, ScheduleInv, NEW o \in Deletes, Schedule!Apply(o) PROVE ScheduleInv'
<1>0. /\ Schedule!TypeOK /\ Numbered /\ WillMatch /\ Known(o) /\ pc[o] = "apply" /\ o \in Schedule!Ops
      /\ rows = {}
  BY DEF ScheduleInv, Schedule!Apply, Schedule!Ops, Known
<1>1. /\ jobs' = {j \in jobs : j[1] \in family[o] => j \in {}} /\ pc' = [pc EXCEPT ![o] = "done"]
      /\ anchor' = [anchor EXCEPT ![o] = 0] /\ latest' = [latest EXCEPT ![o] = 0]
      /\ family' = [family EXCEPT ![o] = {}] /\ UNCHANGED <<Schedule!store, todo, failed, amiss>>
  BY DEF Schedule!Apply, Schedule!Go, Schedule!Forget, Schedule!Repairs, Schedule!trouble
<1>2. Schedule!TypeOK' /\ pc'[o] = "done" /\ OthersStay(o)
  BY <1>0, <1>1 DEF Schedule!TypeOK, OthersStay, Schedule!store
<1>3. rows' = {} /\ Target = {} /\ Target' = {} /\ jobs' \subseteq jobs
  BY <1>0, <1>1 DEF Target, Schedule!Wanted, Schedule!LatestRow, Schedule!store
<1>4. Numbered' /\ JobNames' /\ OneName'
  BY <1>3 DEF Numbered, JobNames, OneName
<1>5. ASSUME NEW p \in Schedule!Ops PROVE Known(p)' /\ (p \notin amiss' => ReadsHold(p)')
  <2>0. Known(p) /\ (p \notin amiss => ReadsHold(p))
    BY DEF ScheduleInv
  <2>1. CASE p = o
    BY <1>2, <1>3, <2>1 DEF Known, ReadsHold
  <2>2. CASE p # o
    <3>1. Known(p)'
      BY <1>0, <1>2, <1>3, <2>0, <2>2 DEF Known, OthersStay, Schedule!Versions
    <3>2. p \notin amiss => ReadsHold(p)'
      BY <1>0, <1>1, <1>2, <1>3, <2>0, <2>2 DEF ReadsHold, OthersStay, Schedule!LatestRow, Schedule!Versions
    <3> QED  BY <1>1, <3>1, <3>2
  <2> QED  BY <2>1, <2>2
<1>6. WillMatch'
  <2> SUFFICES ASSUME amiss = {}, ~failed, jobs' # {} PROVE \E p \in Schedule!Busy' : Mending(p)'
    BY <1>1, <1>3 DEF WillMatch
  <2>1. PICK p \in Schedule!Busy : Mending(p)
    BY <1>0, <1>3 DEF WillMatch
  <2>2. p # o
    BY <1>0, <1>1, <2>1 DEF Mending, Schedule!ScheduleAssumption
  <2>3. p \in Schedule!Ops \ {o} /\ ReadsHold(p)
    BY <2>1, <2>2 DEF Schedule!Busy, ScheduleInv
  <2>4. pc[p] # "add"
    BY <1>0, <2>3 DEF ReadsHold
  <2>5. Mending(p)'
    BY <1>2, <1>3, <2>1, <2>3, <2>4 DEF Mending, OthersStay
  <2>6. p \in Schedule!Busy'
    BY <1>2, <2>1, <2>3 DEF Schedule!Busy, OthersStay
  <2> QED  BY <2>5, <2>6
<1> QED  BY <1>2, <1>4, <1>5, <1>6 DEF ScheduleInv

LEMMA ApplyKeeps ==
    ASSUME Schedule!ScheduleAssumption, ScheduleInv, NEW o \in Schedule!Ops, Schedule!Apply(o) PROVE ScheduleInv'
<1>1. CASE o \in Deletes
  BY <1>1, RemoveKeeps
<1>2. CASE o \notin Deletes
  <2>0. /\ Schedule!TypeOK /\ Numbered /\ JobNames /\ pc[o] = "apply" /\ Known(o) /\ (o \notin amiss => ReadsHold(o))
    BY DEF ScheduleInv, Schedule!Apply
  <2> DEFINE W == Schedule!Wanted(latest[o])
  <2> DEFINE kept == {j \in jobs : j[1] \in family[o] => j \in W}
  <2>1. /\ \/ W = {} /\ jobs' = kept /\ pc' = [pc EXCEPT ![o] = "done"] /\ todo' = todo
           \/ \E j \in W : /\ jobs' = kept \cup {j} /\ pc' = [pc EXCEPT ![o] = "add"]
                           /\ todo' = [todo EXCEPT ![o] = W \ {j}]
        /\ anchor' = [anchor EXCEPT ![o] = 0] /\ latest' = [latest EXCEPT ![o] = 0]
        /\ family' = [family EXCEPT ![o] = {}] /\ UNCHANGED Schedule!store
    BY <1>2 DEF Schedule!Apply, Schedule!Go, Schedule!Forget
  <2>trouble. IF o \notin amiss /\ Schedule!Busy \cap amiss = {} THEN failed' = FALSE /\ amiss' = {}
              ELSE UNCHANGED <<failed, amiss>>
    BY <1>2 DEF Schedule!Apply, Schedule!Repairs, Schedule!trouble
  <2>2. /\ W \subseteq Schedule!Versions \X Triggers /\ (\A j \in W : j[1] = latest[o] /\ latest[o] # 0)
    <3>1. latest[o] \in {0} \cup Schedule!Versions /\ crons \in [Schedule!Versions -> SUBSET Triggers]
      BY <2>0 DEF Schedule!TypeOK
    <3> QED  BY <3>1 DEF Schedule!Wanted
  <2>3. kept \subseteq jobs
    OBVIOUS
  <2>target. o \notin amiss => W = Target /\ kept = jobs \cap Target
    <3> SUFFICES ASSUME o \notin amiss PROVE W = Target /\ kept = jobs \cap Target
      OBVIOUS
    <3>1. /\ latest[o] = Schedule!LatestRow /\ rows \subseteq family[o]
          /\ rows = {} => family[o] = Schedule!Versions
      BY <1>2, <2>0 DEF ReadsHold
    <3>2. \A j \in jobs : j[1] \in family[o]
      BY <2>0, <3>1 DEF JobNames, Schedule!TypeOK
    <3> QED  BY <3>1, <3>2 DEF Target
  <2> HIDE DEF W, kept
  <2>4. OthersStay(o)
    BY <2>0, <2>1 DEF Schedule!TypeOK, OthersStay
  <2>5. jobs' \subseteq jobs \cup W /\ kept \subseteq jobs' /\ jobs' \subseteq kept \cup W
    BY <2>1, <2>3
  <2>6. Schedule!TypeOK' /\ pc'[o] \in {"add", "done"}
    <3>1. jobs' \subseteq Schedule!Versions \X Triggers
      BY <2>0, <2>2, <2>5 DEF Schedule!TypeOK
    <3>2. todo' \in [Schedule!Ops -> SUBSET (Schedule!Versions \X Triggers)]
      BY <2>0, <2>1, <2>2 DEF Schedule!TypeOK
    <3>3. pc' \in [Schedule!Ops -> {"idle", "latest", "family", "apply", "add", "done"}] /\ pc'[o] \in {"add", "done"}
      BY <2>0, <2>1 DEF Schedule!TypeOK
    <3>4. amiss' \subseteq Schedule!Ops /\ failed' \in BOOLEAN
      BY <2>0, <2>trouble DEF Schedule!TypeOK
    <3> QED  BY <2>0, <2>1, <3>1, <3>2, <3>3, <3>4 DEF Schedule!TypeOK, Schedule!store
  <2>7. todo'[o] \subseteq todo[o] \cup W /\ latest'[o] = 0 /\ rows' = rows
        /\ (pc'[o] = "add" => todo'[o] \subseteq W /\ W # {} /\ W \subseteq jobs' \cup todo'[o])
        /\ (pc'[o] = "done" => W = {})
    BY <2>0, <2>1 DEF Schedule!TypeOK, Schedule!store
  <2>8. JobNames' /\ Known(o)'
    <3>1. rows # {} => \A j \in W : j[1] \in rows
      BY <2>0, <2>2 DEF Known
    <3>2. JobNames'
      BY <2>0, <2>5, <2>7, <3>1 DEF JobNames
    <3> QED  BY <1>2, <2>0, <2>6, <2>7, <3>1, <3>2 DEF Known
  <2>9. Target' = Target /\ (rows = {} => Target = {})
    BY <2>0, <2>1, LatestIsRow DEF Target, Schedule!store, Schedule!Wanted, Schedule!LatestRow
  <2>10. o \notin amiss => ReadsHold(o)' /\ jobs' \subseteq Target /\ jobs \cap Target \subseteq jobs'
                           /\ (jobs' = Target \/ (pc'[o] = "add" /\ jobs' \cup todo'[o] = Target))
    <3> SUFFICES ASSUME o \notin amiss
                 PROVE  /\ ReadsHold(o)' /\ jobs' \subseteq Target /\ jobs \cap Target \subseteq jobs'
                        /\ jobs' = Target \/ (pc'[o] = "add" /\ jobs' \cup todo'[o] = Target)
      OBVIOUS
    <3>1. jobs' \subseteq Target /\ jobs \cap Target \subseteq jobs'
      BY <2>5, <2>target
    <3>2. ReadsHold(o)'
      BY <2>6, <2>7, <2>9, <2>target, <3>1 DEF ReadsHold
    <3> QED  BY <2>6, <2>7, <2>target, <3>1, <3>2
  <2>11. pc'[o] # "idle"
    BY <2>6
  <2> QED  BY <2>1, <2>trouble, <2>4, <2>6, <2>8, <2>10, <2>11, JobsStep
<1> QED  BY <1>1, <1>2

LEMMA AddNextKeeps ==
    ASSUME Schedule!ScheduleAssumption, ScheduleInv, NEW o \in Schedule!Ops, Schedule!AddNext(o) PROVE ScheduleInv'
<1>0. /\ Schedule!TypeOK /\ pc[o] = "add" /\ JobNames /\ Known(o) /\ (o \notin amiss => ReadsHold(o)) /\ WillMatch
      /\ UNCHANGED <<Schedule!store, anchor, latest, family, failed, amiss>>
  BY DEF ScheduleInv, Schedule!AddNext, Schedule!trouble
<1>w. Target' = Target /\ rows' = rows
  BY <1>0 DEF Target, Schedule!store, Schedule!Wanted, Schedule!LatestRow
<1>1. CASE todo[o] = {} /\ pc' = [pc EXCEPT ![o] = "done"] /\ UNCHANGED <<jobs, todo>>
  <2>1. Schedule!TypeOK' /\ pc'[o] = "done" /\ OthersStay(o)
    BY <1>0, <1>1 DEF Schedule!TypeOK, OthersStay, Schedule!store
  <2>2. Known(o)' /\ ReadsHold(o)'
    BY <1>0, <1>1, <1>w, <2>1 DEF Known, ReadsHold
  <2>3. Mending(o) => jobs = Target
    BY <1>0, <1>1 DEF Mending
  <2> QED  BY <1>0, <1>1, <2>1, <2>2, <2>3, QuietStep
<1>2. ASSUME NEW j \in todo[o], jobs' = jobs \cup {j}, todo' = [todo EXCEPT ![o] = @ \ {j}], pc' = pc
      PROVE  ScheduleInv'
  <2>0. todo'[o] = todo[o] \ {j} /\ jobs' \cup todo'[o] = jobs \cup todo[o]
    BY <1>0, <1>2 DEF Schedule!TypeOK
  <2>1. Schedule!TypeOK' /\ OthersStay(o)
    BY <1>0, <1>2 DEF Schedule!TypeOK, OthersStay, Schedule!store
  <2>2. Known(o)' /\ JobNames'
    BY <1>0, <1>2, <1>w, <2>0 DEF Known, JobNames, Schedule!Versions
  <2>3. o \notin amiss => ReadsHold(o)'
    BY <1>0, <1>2, <1>w, <2>0 DEF ReadsHold
  <2>4. amiss = {} => /\ jobs \subseteq Target /\ jobs' \subseteq Target /\ jobs \cap Target \subseteq jobs'
    BY <1>0, <1>2 DEF ReadsHold
  <2>5. Mending(o) => pc'[o] = "add" /\ jobs' \cup todo'[o] = Target
    BY <1>0, <1>2, <2>0 DEF Mending
  <2>6. pc'[o] # "idle"
    BY <1>0, <1>2
  <2> QED  BY <1>0, <1>2, <2>1, <2>2, <2>3, <2>4, <2>5, <2>6, JobsStep
<1> QED  BY <1>1, <1>2 DEF Schedule!AddNext, Schedule!Go

LEMMA FailKeeps ==
    ASSUME Schedule!ScheduleAssumption, ScheduleInv, NEW o \in Schedule!Ops, Schedule!Fail(o) PROVE ScheduleInv'
<1>0. /\ Schedule!TypeOK
      /\ failed' = TRUE /\ pc' = [pc EXCEPT ![o] = "done"]
      /\ anchor' = [anchor EXCEPT ![o] = 0] /\ latest' = [latest EXCEPT ![o] = 0]
      /\ family' = [family EXCEPT ![o] = {}] /\ todo' = [todo EXCEPT ![o] = {}]
      /\ UNCHANGED <<Schedule!store, jobs, amiss>>
  BY DEF ScheduleInv, Schedule!Fail, Schedule!Forget, Schedule!Go
<1>1. Schedule!TypeOK' /\ pc'[o] = "done" /\ OthersStay(o) /\ latest'[o] = 0 /\ todo'[o] = {}
  BY <1>0 DEF Schedule!TypeOK, OthersStay, Schedule!store
<1>2. Known(o)' /\ ReadsHold(o)'
  BY <1>1 DEF Known, ReadsHold
<1> QED  BY <1>0, <1>1, <1>2, QuietStep

-----------------------------------------------------------------------------
(* The theorem *)

LEMMA ScheduleStart == ASSUME Schedule!ScheduleAssumption, Schedule!Init PROVE ScheduleInv
<1>0. Cardinality(Saves) \in Nat /\ IsFiniteSet(Saves) /\ Schedule!Versions = 1 .. 1 + Cardinality(Saves)
  BY VersionsRange
<1>1. 1 \in Schedule!Versions /\ rows = 1 .. 1 /\ crons \in [Schedule!Versions -> SUBSET Triggers]
  BY <1>0 DEF Schedule!Init
<1>2. Schedule!LatestRow = 1 /\ Target = jobs
  <2>1. Schedule!LatestRow = 1
    BY <1>1, LatestOf
  <2> QED  BY <2>1 DEF Target, Schedule!Wanted, Schedule!Init
<1>3. jobs \subseteq Schedule!Versions \X Triggers /\ \A j \in jobs : j[1] = 1
  BY <1>1 DEF Schedule!Init
<1>4. Schedule!TypeOK
  BY <1>1, <1>3 DEF Schedule!Init, Schedule!TypeOK
<1>5. Numbered
  <2>1. Cardinality(Begun) \in Nat
    BY <1>0, FS_Subset, FS_CardinalityType DEF Begun
  <2> QED  BY <1>1, <2>1 DEF Numbered
<1>6. JobNames /\ OneName /\ WillMatch
  BY <1>1, <1>2, <1>3 DEF JobNames, OneName, WillMatch
<1>7. \A o \in Schedule!Ops : Known(o) /\ ReadsHold(o)
  BY DEF Schedule!Init, ReadsHold, Known
<1> QED  BY <1>4, <1>5, <1>6, <1>7 DEF ScheduleInv

LEMMA ScheduleStep ==
    ASSUME Schedule!ScheduleAssumption, ScheduleInv, [Schedule!Next]_Schedule!vars PROVE ScheduleInv'
<1>1. CASE UNCHANGED Schedule!vars
  <2>1. UNCHANGED <<rows, crons, jobs, pc, anchor, latest, family, todo, failed, amiss>>
    BY <1>1 DEF Schedule!vars, Schedule!store, Schedule!trouble
  <2>2. Target' = Target /\ Schedule!LatestRow' = Schedule!LatestRow
    BY <2>1 DEF Target, Schedule!Wanted, Schedule!LatestRow
  <2>3. Schedule!TypeOK' /\ Numbered' /\ JobNames' /\ OneName'
    BY <2>1 DEF ScheduleInv, Schedule!TypeOK, Numbered, Begun, JobNames, OneName
  <2>4. \A o \in Schedule!Ops : Known(o)' /\ (o \notin amiss' => ReadsHold(o)')
    BY <2>1, <2>2 DEF ScheduleInv, ReadsHold, Known, Schedule!Versions
  <2>5. WillMatch'
    BY <2>1, <2>2 DEF ScheduleInv, WillMatch, Mending, Schedule!Busy
  <2> QED  BY <2>3, <2>4, <2>5 DEF ScheduleInv
<1>2. ASSUME NEW o \in Schedule!Ops,
             Schedule!ReadLatest(o) \/ Schedule!ReadFamily(o) \/ Schedule!ReadAll(o)
             \/ Schedule!Apply(o) \/ Schedule!AddNext(o) \/ Schedule!Fail(o)
      PROVE  ScheduleInv'
  BY <1>2, ReadLatestKeeps, ReadFamilyKeeps, ReadAllKeeps, ApplyKeeps, AddNextKeeps, FailKeeps
<1>3. ASSUME NEW o \in Schedule!Ops, NEW a \in Schedule!Versions, Schedule!Refresh(o, a) \/ Schedule!Delete(o, a)
      PROVE  ScheduleInv'
  BY <1>3, RefreshKeeps, DeleteKeeps
<1>4. ASSUME NEW o \in Schedule!Ops, NEW a \in Schedule!Versions, NEW T \in SUBSET Triggers, Schedule!Save(o, a, T)
      PROVE  ScheduleInv'
  BY <1>4, SaveKeeps
<1> QED  BY <1>1, <1>2, <1>3, <1>4 DEF Schedule!Next

LEMMA InvIsExact == ASSUME Schedule!ScheduleAssumption, ScheduleInv PROVE Schedule!JobsExact
<1>1. Schedule!FiresOnce
  <2> SUFFICES ASSUME amiss = {}, NEW t \in Triggers PROVE Cardinality(Schedule!Firing(t)) <= 1
    BY SameSizes DEF Schedule!FiresOnce
  <2>1. \A j, k \in Schedule!Firing(t) : j = k
    <3> SUFFICES ASSUME NEW j \in Schedule!Firing(t), NEW k \in Schedule!Firing(t) PROVE j = k
      OBVIOUS
    <3>1. j \in jobs /\ k \in jobs /\ j[2] = t /\ k[2] = t /\ rows # {}
      BY DEF Schedule!Firing
    <3>2. j[1] = k[1]
      BY <3>1 DEF ScheduleInv, OneName
    <3>3. j \in Schedule!Versions \X Triggers /\ k \in Schedule!Versions \X Triggers
      BY <3>1 DEF ScheduleInv, Schedule!TypeOK
    <3> QED  BY <3>1, <3>2, <3>3
  <2>2. CASE Schedule!Firing(t) = {}
    BY <2>2, FS_EmptySet
  <2>3. CASE Schedule!Firing(t) # {}
    <3>1. PICK j : j \in Schedule!Firing(t)
      BY <2>3
    <3>2. Schedule!Firing(t) = {j}
      BY <2>1, <3>1
    <3>3. Cardinality({j}) = 1
      BY FS_Singleton
    <3> QED  BY <3>2, <3>3
  <2> QED  BY <2>2, <2>3
<1>2. Schedule!JobsMatch
  BY DEF ScheduleInv, WillMatch, Target, Schedule!JobsMatch
<1> QED  BY <1>1, <1>2 DEF ScheduleInv, Schedule!JobsExact

\* However saves, deletes, refreshes and reloads of a workflow follow or cross one
\* another and whichever of them fail (reload_def, remove, reload): the jobs are
\* those of its latest version when nothing is under way, and two never stand for
\* one trigger, except from a request that failed, that another has overtaken, or
\* that deleted by an old row, to the next reload that nothing overtook.
THEOREM JobsAreExact == ASSUME Schedule!ScheduleAssumption PROVE Schedule!Spec => []JobsExact
<1>1. Schedule!Init => ScheduleInv
  BY ScheduleStart
<1>2. ScheduleInv /\ [Schedule!Next]_Schedule!vars => ScheduleInv'
  BY ScheduleStep
<1>3. ScheduleInv => JobsExact
  BY InvIsExact DEF JobsExact
<1> QED  BY <1>1, <1>2, <1>3, PTL DEF Schedule!Spec


=============================================================================
