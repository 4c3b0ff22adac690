-------------------------- MODULE RuntimeSyncProofs ---------------------------
(***************************************************************************)
(* What gateway instances tell one another. A model that was frozen for    *)
(* good stays frozen but for three named causes, under every policy, and   *)
(* an event repairs the mirror of the account (FreezeState), for any       *)
(* number of instances, models, freezes, clears and faults; the            *)
(* reconciliation of the account pools removes only what was deleted       *)
(* (AccountSync), for any number of instances, accounts, writes and        *)
(* faults.                                                                 *)
(***************************************************************************)
EXTENDS MCRuntimeSync, TLAPS

Values == {"no", "temp", "perm"}

Events == [target : Targets, cleared : BOOLEAN, version : Nat]

TaskRecords ==
         [at : Instances,
          op : {"set", "setThenPublish", "mark", "markThenPublish", "delete", "scan", "sweep",
                "unmark", "publish", "send"},
          target : Targets, value : Values, cleared : BOOLEAN, id : Nat,
          swept : SUBSET Models, version : Nat]

\* Only models are entered in the index.
Tasks == {k \in TaskRecords : k.op \in {"mark", "markThenPublish"} => k.target \in Models}

Handlings == {Idle} \cup [op : {"read", "apply"}, target : Targets, value : Values]

\* What restore_cooldowns has read of the models: their keys, by the index.
IsModelKeys(v) == DOMAIN v \subseteq Models /\ v = [m \in DOMAIN v |-> v[m]] /\ \A m \in DOMAIN v : v[m] \in Values

IsRestoring(x) ==
    \/ x = Idle \/ x \in [op : {"account", "models"}]
    \/ x \in [op : {"applyAccount"}, value : Values]
    \/ x = [op |-> "applyModels", value |-> x.value] /\ IsModelKeys(x.value)

Types ==
    /\ frozen \in [Instances -> [Targets -> Values]]
    /\ key \in [Targets -> Values] /\ index \subseteq Models
    /\ tasks \subseteq Tasks /\ inbox \in [Instances -> Seq(Events)]
    /\ handling \in [Instances -> Handlings] /\ seen \in [Instances -> Nat]
    /\ restoring = [i \in Instances |-> restoring[i]]
    /\ \A i \in Instances : IsRestoring(restoring[i])
    /\ clock \in Nat /\ freezes \in Nat /\ clears \in Nat /\ scopes \in Policies
    /\ due \in [Instances -> SUBSET Models] /\ undone \in [Instances -> SUBSET (Models \X Causes)]

\* Under a policy that only freezes models the account is never frozen, in no
\* mirror and not in Redis, and no event is about it.
ModelsOnly ==
    "account" \notin scopes =>
        /\ key[Account] = "no"
        /\ \A k \in tasks : k.target = Account => k.op \in {"delete", "scan", "sweep", "unmark"}
        /\ \A i \in Instances :
              /\ frozen[i][Account] = "no"
              /\ \A n \in 1 .. Len(inbox[i]) : inbox[i][n].target # Account
              /\ handling[i] # Idle => handling[i].target # Account
              /\ restoring[i].op = "applyAccount" => restoring[i].value = "no"

\* What an instance has read of the account is current until it is applied, and
\* from then on the mirror is.
ReadIsCurrent ==
    \A i \in fresh :
        IF handling[i].op = "apply" /\ handling[i].target = Account
        THEN handling[i].value = key[Account]
        ELSE frozen[i][Account] = "perm" <=> key[Account] = "perm"

FreezeInv == Types /\ ModelsOnly /\ ModelFreezeHeld /\ fresh \subseteq Instances /\ ReadIsCurrent

-----------------------------------------------------------------------------

LEMMA AccountIsNoModel == Account \notin Models /\ Account \in Targets /\ Models \subseteq Targets
BY FreezeAssumption DEF Account, Targets

\* The freezes of models are held by a step if each is in force afterwards, or excused
\* by it, or left alone with what excused it before.
LEMMA HeldOn ==
    ASSUME ModelFreezeHeld, scopes' = scopes,
           \A j \in Instances : \A m \in due'[j] :
               \/ frozen'[j][m] = "perm"
               \/ <<m, "temporary">> \in undone'[j] \/ <<m, "cleared">> \in undone'[j]
               \/ <<m, "accountRead">> \in undone'[j] /\ "account" \in scopes
               \/ /\ m \in due[j] /\ frozen'[j][m] = frozen[j][m]
                  /\ \A c \in Causes : <<m, c>> \in undone[j] => <<m, c>> \in undone'[j]
    PROVE  ModelFreezeHeld'
BY DEF ModelFreezeHeld, Causes

\* Being told otherwise adds to what an instance was told.
LEMMA UndoAdds ==
    ASSUME Types, NEW i \in Instances, NEW M, NEW c \in Causes, Undo(i, M, c)
    PROVE  /\ undone' \in [Instances -> SUBSET (Models \X Causes)]
           /\ \A j \in Instances : undone[j] \subseteq undone'[j]
           /\ \A m \in M \cap due[i] : <<m, c>> \in undone'[i]
<1>1. due[i] \subseteq Models /\ undone \in [Instances -> SUBSET (Models \X Causes)]
  BY DEF Types
<1>2. (M \cap due[i]) \X {c} \subseteq Models \X Causes
  BY <1>1
<1>3. undone' = [undone EXCEPT ![i] = undone[i] \cup ((M \cap due[i]) \X {c})]
  BY DEF Undo
<1> QED  BY <1>1, <1>2, <1>3

LEMMA FreezeInit == Init => FreezeInv
<1> SUFFICES ASSUME Init PROVE FreezeInv
  OBVIOUS
<1> USE AccountIsNoModel DEF Init
<1>1. Types
  <2>1. Idle \in Handlings /\ IsRestoring(Idle) /\ Unfrozen \in [Targets -> Values]
    BY DEF Handlings, IsRestoring, Unfrozen, Values
  <2> QED  BY <2>1 DEF Types
<1>2. ModelsOnly
  BY DEF ModelsOnly, Unfrozen, Idle
<1> QED  BY <1>1, <1>2 DEF FreezeInv, ModelFreezeHeld, ReadIsCurrent

-----------------------------------------------------------------------------
(* Operations *)

LEMMA NewTask ==
    ASSUME Types, NEW i \in Instances, NEW op \in {"set", "setThenPublish", "delete", "publish"},
           NEW t \in Targets, NEW v \in Values, NEW c \in BOOLEAN
    PROVE  Task(i, op, t, v, c) \in Tasks
BY DEF Task, Tasks, TaskRecords, Types

LEMMA FreezeKeeps ==
    ASSUME FreezeInv, NEW i \in Instances, NEW t \in Freezable, NEW v \in Periods, NEW refresh \in BOOLEAN,
           Freeze(i, t, v, refresh)
    PROVE  FreezeInv'
<1> USE AccountIsNoModel DEF FreezeInv
<1>1. t \in Targets /\ v \in {"temp", "perm"} /\ ("account" \notin scopes => t \in Models)
  BY FreezeAssumption DEF Freezable, Targets
<1>2. /\ UNCHANGED <<key, index, inbox, handling, seen, restoring, clock, clears, scopes>>
      /\ frozen' = [frozen EXCEPT ![i][t] = v] /\ freezes' = freezes + 1 /\ fresh' = fresh \ {i}
      /\ due' = [due EXCEPT ![i] = IF v = "perm" THEN @ \cup ({t} \cap Models) ELSE @ \ {t}]
      /\ undone' = [undone EXCEPT ![i] = @ \ ({t} \X Causes)]
  BY DEF Freeze, redis
<1>3. tasks' \subseteq Tasks /\ \A k \in tasks' \ tasks : k.target = t
  <2>1. v \in Values
    BY <1>1 DEF Values
  <2>2. /\ Task(i, "set", t, v, FALSE) \in Tasks /\ Task(i, "setThenPublish", t, v, FALSE) \in Tasks
        /\ Task(i, "publish", t, v, FALSE) \in Tasks
    BY <1>1, <2>1, NewTask
  <2>4. \A op : Task(i, op, t, v, FALSE).target = t
    BY DEF Task
  <2>3. /\ tasks' = tasks \cup (IF t = Account THEN {Task(i, "set", t, v, FALSE), Task(i, "publish", t, v, FALSE)}
                                 ELSE {Task(i, "setThenPublish", t, v, FALSE)})
        /\ tasks \subseteq Tasks
    BY DEF Freeze, AccountFreezeTasks, ModelFreezeTasks, Types
  <2> QED  BY <2>2, <2>3, <2>4
<1>4. Types'
  BY <1>1, <1>2, <1>3 DEF Types, Values
<1>5. ModelsOnly'
  BY <1>1, <1>2, <1>3 DEF ModelsOnly, Types
<1>6. ModelFreezeHeld'
  <2>1. ASSUME NEW j \in Instances, NEW m \in due'[j]
        PROVE  \/ frozen'[j][m] = "perm"
               \/ /\ m \in due[j] /\ frozen'[j][m] = frozen[j][m]
                  /\ \A c \in Causes : <<m, c>> \in undone[j] => <<m, c>> \in undone'[j]
    <3>0. m \in Targets
      BY <1>4 DEF Types
    <3>1. CASE j = i /\ m = t
      BY <1>1, <1>2, <3>0, <3>1 DEF Types
    <3>2. CASE j # i \/ m # t
      <4>1. m \in due[j] /\ frozen'[j][m] = frozen[j][m]
        BY <1>1, <1>2, <3>0, <3>2 DEF Types
      <4>2. \A c \in Causes : <<m, c>> \in undone[j] => <<m, c>> \in undone'[j]
        BY <1>2, <3>2 DEF Types
      <4> QED  BY <4>1, <4>2
    <3> QED  BY <3>1, <3>2
  <2> QED  BY <1>2, <2>1, HeldOn
<1>7. ReadIsCurrent'
  BY <1>2 DEF ReadIsCurrent, Types
<1> QED  BY <1>2, <1>4, <1>5, <1>6, <1>7

LEMMA MarkKeeps ==
    ASSUME FreezeInv, NEW i \in Instances, NEW refresh \in BOOLEAN, MarkCooldown(i, refresh)
    PROVE  FreezeInv'
<1> USE AccountIsNoModel DEF FreezeInv
<1>2. /\ UNCHANGED <<key, index, inbox, handling, seen, restoring, clock, clears, scopes, due, undone>>
      /\ frozen' = [frozen EXCEPT ![i][Account] = "temp"] /\ freezes' = freezes + 1 /\ fresh' = fresh \ {i}
      /\ "account" \in scopes
  BY DEF MarkCooldown, redis
<1>3. tasks' \subseteq Tasks
  <2>1. Task(i, "set", Account, "temp", FALSE) \in Tasks
    BY NewTask DEF Values
  <2> QED  BY <2>1 DEF MarkCooldown, Types
<1>4. Types'
  BY <1>2, <1>3 DEF Types, Values
<1>5. ModelsOnly' /\ ModelFreezeHeld'
  BY <1>2 DEF ModelsOnly, ModelFreezeHeld, Types
<1>7. ReadIsCurrent'
  BY <1>2 DEF ReadIsCurrent, Types
<1> QED  BY <1>2, <1>4, <1>5, <1>7

\* The three ways to unfreeze: on success, by the administration, of a model that
\* left the channel.
LEMMA LiftKeeps ==
    ASSUME FreezeInv, NEW i \in Instances, NEW t \in Targets, Lifts(i, t), tasks' \subseteq Tasks,
           "account" \notin scopes => \A k \in tasks' \ tasks : k.target = Account => k.op = "delete"
    PROVE  FreezeInv'
<1> USE AccountIsNoModel DEF FreezeInv
<1>1. t # Account => t \in Models
  BY DEF Targets
<1>2. /\ UNCHANGED <<key, index, inbox, handling, seen, restoring, clock, freezes, scopes, undone>>
      /\ frozen' = Unfreeze(i, t) /\ clears' = clears + 1 /\ fresh' = fresh \ {i}
      /\ due' = [j \in Instances |-> IF t = Account THEN {} ELSE due[j] \ {t}]
  BY DEF Lifts, redis
<1>3. /\ frozen' \in [Instances -> [Targets -> Values]]
      /\ \A j \in Instances \ {i} : frozen'[j] = frozen[j]
      /\ \A u \in Targets : frozen'[i][u] \in {frozen[i][u], "no"}
      /\ t # Account => \A u \in Targets \ {t} : frozen'[i][u] = frozen[i][u]
  BY <1>2 DEF Unfreeze, Unfrozen, Types, Values
<1>4. Types'
  BY <1>2, <1>3 DEF Types
<1>5. ModelsOnly'
  BY <1>2, <1>3 DEF ModelsOnly
<1>6. ModelFreezeHeld'
  <2>1. ASSUME NEW j \in Instances, NEW m \in due'[j] PROVE m \in due[j] /\ frozen'[j][m] = frozen[j][m]
    <3>1. t # Account /\ m \in due[j] /\ m # t /\ m \in Targets
      BY <1>1, <1>2 DEF Types
    <3> QED  BY <1>3, <3>1
  <2> QED  BY <1>2, <2>1, HeldOn
<1>7. ReadIsCurrent'
  BY <1>2, <1>3 DEF ReadIsCurrent, Types
<1> QED  BY <1>2, <1>4, <1>5, <1>6, <1>7

LEMMA OperationKeeps == ASSUME FreezeInv, NEW i \in Instances, Operation(i) PROVE FreezeInv'
<1> USE AccountIsNoModel
<1>1. ASSUME NEW m \in Models, ClearOnSuccess(i, m) PROVE FreezeInv'
  <2> DEFINE t == IF frozen[i][Account] # "no" THEN Account ELSE m
  <2>1. t \in Targets /\ ("account" \notin scopes => t = m)
    BY DEF FreezeInv, ModelsOnly
  <2>2. Lifts(i, t) /\ tasks' = tasks \cup {Task(i, "delete", t, "no", FALSE), Task(i, "publish", t, "no", TRUE)}
    BY <1>1 DEF ClearOnSuccess
  <2> HIDE DEF t
  <2>3. tasks' \subseteq Tasks /\ \A k \in tasks' \ tasks : k.target = t
    <3>1. Types /\ tasks \subseteq Tasks
      BY DEF FreezeInv, Types
    <3>2. Task(i, "delete", t, "no", FALSE) \in Tasks /\ Task(i, "publish", t, "no", TRUE) \in Tasks
      BY <2>1, <3>1, NewTask DEF Values
    <3>3. Task(i, "delete", t, "no", FALSE).target = t /\ Task(i, "publish", t, "no", TRUE).target = t
      BY DEF Task
    <3> QED  BY <2>2, <3>1, <3>2, <3>3
  <2> QED  BY <2>1, <2>2, <2>3, LiftKeeps
<1>2. ASSUME NEW m \in Models, Prune(i, m) PROVE FreezeInv'
  <2>1. tasks' \subseteq Tasks /\ \A k \in tasks' \ tasks : k.op = "delete"
    <3>1. Types /\ tasks \subseteq Tasks
      BY DEF FreezeInv, Types
    <3>2. Task(i, "delete", m, "no", FALSE) \in Tasks
      BY <3>1, NewTask DEF Values
    <3>3. Task(i, "delete", m, "no", FALSE).op = "delete"
      BY DEF Task
    <3> QED  BY <1>2, <3>1, <3>2, <3>3 DEF Prune
  <2> QED  BY <1>2, <2>1, LiftKeeps DEF Prune
<1>3. CASE AdminClear(i)
  <2>1. tasks' \subseteq Tasks /\ \A k \in tasks' \ tasks : k.op = "delete"
    <3>1. Types /\ tasks \subseteq Tasks
      BY DEF FreezeInv, Types
    <3>2. Task(i, "delete", Account, "no", FALSE) \in Tasks
      BY <3>1, NewTask DEF Values
    <3>3. Task(i, "delete", Account, "no", FALSE).op = "delete"
      BY DEF Task
    <3> QED  BY <1>3, <3>1, <3>2, <3>3 DEF AdminClear
  <2> QED  BY <1>3, <2>1, LiftKeeps DEF AdminClear
<1> QED  BY <1>1, <1>2, <1>3, FreezeKeeps, MarkKeeps DEF Operation

-----------------------------------------------------------------------------
(* Tasks *)

\* A task goes on with another command, for the same target and with the same value.
LEMMA TaskGoesOn ==
    ASSUME NEW k \in Tasks,
           NEW op \in {"set", "setThenPublish", "mark", "markThenPublish", "delete", "scan", "sweep",
                       "unmark", "publish", "send"},
           op \in {"mark", "markThenPublish"} => k.target \in Models
    PROVE  /\ [k EXCEPT !.op = op] \in Tasks
           /\ [k EXCEPT !.op = op].target = k.target /\ [k EXCEPT !.op = op].op = op
BY DEF Tasks, TaskRecords

\* What a step of a task may do: its record is replaced by one that goes on, a key is
\* only written for its target or removed for models, and an event is sent to all.
Clearing == {"delete", "scan", "sweep", "unmark"}

Replaced(k) ==
    \A n \in tasks' \ tasks :
        n \in Tasks /\ n.target = k.target /\ (k.op \in Clearing => n.op \in Clearing)

RedisWritten(k) ==
    /\ key' \in [Targets -> Values] /\ index' \subseteq Models
    /\ key'[Account] # key[Account] => k.target = Account /\ fresh' = {}
    /\ key'[Account] # key[Account] /\ k.op \in Clearing => key'[Account] = "no"
    /\ fresh' = fresh \/ fresh' = {}

Broadcast(k) ==
    \/ inbox' = inbox
    \/ k.op = "send" /\ \E e \in Events : e.target = k.target /\ inbox' = [i \in Instances |-> Append(inbox[i], e)]

TaskWorks(k) ==
    /\ UNCHANGED <<frozen, handling, seen, restoring, freezes, clears, scopes, due, undone>>
    /\ clock' \in Nat /\ Replaced(k) /\ RedisWritten(k) /\ Broadcast(k)

LEMMA TaskCases == ASSUME Types, NEW k \in tasks, RunTask(k) \/ TaskFails(k) PROVE TaskWorks(k)
<1>k. k \in Tasks /\ tasks \subseteq Tasks
  BY DEF Types
<1>t. k.target \in Targets /\ k.value \in Values /\ k.swept \subseteq Models /\ k.version \in Nat /\ k.cleared \in BOOLEAN
  BY <1>k DEF Tasks, TaskRecords
<1>new. ASSUME NEW n \in Tasks, tasks' = (tasks \ {k}) \cup {n}, n.target = k.target,
               k.op \in Clearing => n.op \in Clearing
        PROVE  Replaced(k)
  BY <1>new DEF Replaced
<1>next. ASSUME NEW op \in {"mark", "markThenPublish", "scan", "unmark", "publish"}, Becomes(k, op),
                k.op \notin Clearing \/ op \in {"scan", "unmark"},
                op \in {"mark", "markThenPublish"} => k.target \in Models
         PROVE  Replaced(k)
  <2> DEFINE n0 == [k EXCEPT !.op = op]
  <2>1. n0 \in Tasks /\ n0.target = k.target /\ n0.op = op
    <3>1. op \in {"set", "setThenPublish", "mark", "markThenPublish", "delete", "scan", "sweep", "unmark", "publish", "send"}
      BY <1>next
    <3> QED  BY <1>k, <1>next, <3>1, TaskGoesOn
  <2>2. tasks' = (tasks \ {k}) \cup {n0}
    BY <1>next DEF Becomes
  <2> HIDE DEF n0
  <2> QED  BY <1>next, <2>1, <2>2, <1>new DEF Clearing
<1>end. ASSUME Ends(k) PROVE Replaced(k)
  BY <1>end DEF Replaced, Ends
<1>types. key \in [Targets -> Values] /\ index \subseteq Models /\ clock \in Nat
  BY DEF Types
<1>no. "no" \in Values
  BY DEF Values
<1> USE AccountIsNoModel DEF TaskWorks, UnchangedByTasks, redis
<1>1. CASE TaskSet(k)
  <2>1. Replaced(k)
    BY <1>1, <1>next, <1>end DEF TaskSet, AfterSet, Clearing
  <2>2. RedisWritten(k)
    BY <1>1, <1>t, <1>types DEF TaskSet, KeyChanged, RedisWritten, Clearing
  <2> QED  BY <1>1, <1>types, <2>1, <2>2 DEF TaskSet, Broadcast
<1>2. CASE TaskMark(k)
  <2>1. Replaced(k)
    BY <1>2, <1>next, <1>end DEF TaskMark, AfterSet, Clearing
  <2>2. RedisWritten(k)
    <3>1. k.target \in Models
      BY <1>2, <1>k DEF Tasks, TaskMark
    <3> QED  BY <1>2, <1>t, <1>types, <3>1 DEF TaskMark, RedisWritten
  <2> QED  BY <1>2, <1>types, <2>1, <2>2 DEF TaskMark, Broadcast
<1>3. CASE TaskDelete(k)
  <2>1. Replaced(k)
    BY <1>3, <1>next DEF TaskDelete
  <2>2. RedisWritten(k)
    BY <1>3, <1>t, <1>types, <1>no DEF TaskDelete, KeyChanged, RedisWritten
  <2> QED  BY <1>3, <1>types, <2>1, <2>2 DEF TaskDelete, Broadcast
<1>4. CASE TaskScan(k)
  <2>1. Replaced(k)
    <3> DEFINE found == {m \in Models : key[m] # "no"}
    <3> DEFINE n0 == [k EXCEPT !.op = "sweep", !.swept = found]
    <3>1. tasks' = (tasks \ {k}) \cup {n0}
      BY <1>4 DEF TaskScan
    <3>2. found \in SUBSET Models
      OBVIOUS
    <3> HIDE DEF found
    <3>3. n0 \in Tasks /\ n0.target = k.target /\ n0.op = "sweep"
      BY <1>k, <3>2 DEF Tasks, TaskRecords
    <3> HIDE DEF n0
    <3> QED  BY <3>1, <3>3, <1>new DEF Clearing
  <2>2. RedisWritten(k)
    BY <1>4, <1>types DEF TaskScan, RedisWritten
  <2> QED  BY <1>4, <1>types, <2>1, <2>2 DEF TaskScan, Broadcast
<1>5. CASE TaskSweep(k)
  <2>1. Replaced(k)
    BY <1>5, <1>next DEF TaskSweep
  <2>2. RedisWritten(k)
    BY <1>5, <1>t, <1>types, <1>no DEF TaskSweep, RedisWritten
  <2> QED  BY <1>5, <1>types, <2>1, <2>2 DEF TaskSweep, Broadcast
<1>6. CASE TaskUnmark(k)
  <2>1. Replaced(k)
    BY <1>6, <1>end DEF TaskUnmark
  <2>2. RedisWritten(k)
    BY <1>6, <1>types DEF TaskUnmark, RedisWritten
  <2> QED  BY <1>6, <1>types, <2>1, <2>2 DEF TaskUnmark, Broadcast
<1>7. CASE TaskStamp(k)
  <2>1. Replaced(k)
    <3> DEFINE n0 == [k EXCEPT !.op = "send", !.version = clock + 1]
    <3>1. tasks' = (tasks \ {k}) \cup {n0} /\ k.op = "publish"
      BY <1>7 DEF TaskStamp
    <3>2. clock + 1 \in Nat
      BY <1>types
    <3>3. n0 \in Tasks /\ n0.target = k.target
      BY <1>k, <3>2 DEF Tasks, TaskRecords
    <3> HIDE DEF n0
    <3> QED  BY <3>1, <3>3, <1>new DEF Clearing
  <2>2. RedisWritten(k)
    BY <1>7, <1>types DEF TaskStamp, RedisWritten
  <2> QED  BY <1>7, <1>types, <2>1, <2>2 DEF TaskStamp, Broadcast
<1>8. CASE TaskSend(k)
  <2>1. Replaced(k)
    BY <1>8, <1>end DEF TaskSend
  <2>2. RedisWritten(k)
    BY <1>8, <1>types DEF TaskSend, RedisWritten
  <2>3. Broadcast(k)
    <3> DEFINE e == [target |-> k.target, cleared |-> k.cleared, version |-> k.version]
    <3>1. e \in Events /\ e.target = k.target
      BY <1>t DEF Events
    <3>2. k.op = "send" /\ inbox' = [i \in Instances |-> Append(inbox[i], e)]
      BY <1>8 DEF TaskSend
    <3> HIDE DEF e
    <3> QED  BY <3>1, <3>2 DEF Broadcast
  <2> QED  BY <1>8, <1>types, <2>1, <2>2, <2>3 DEF TaskSend
<1>9. CASE TaskFails(k)
  <2>1. Replaced(k)
    <3>1. k.op \in {"set", "setThenPublish", "mark", "markThenPublish", "delete", "scan", "sweep", "unmark", "publish", "send"}
      BY <1>k DEF Tasks, TaskRecords
    <3>2. CASE k.op \in {"set", "mark", "setThenPublish", "markThenPublish"}
      <4>1. AfterSet(k)
        BY <1>9, <3>2 DEF TaskFails
      <4> QED  BY <3>2, <4>1, <1>next, <1>end DEF AfterSet, Clearing
    <3>3. CASE k.op = "delete"
      <4>1. Becomes(k, IF k.target = Account THEN "scan" ELSE "unmark")
        BY <1>9, <3>3 DEF TaskFails
      <4> QED  BY <4>1, <1>next
    <3>4. CASE k.op \in {"scan", "sweep"}
      <4>1. Becomes(k, "unmark")
        BY <1>9, <3>4 DEF TaskFails
      <4> QED  BY <4>1, <1>next
    <3>5. CASE k.op \in {"unmark", "publish", "send"}
      <4>1. Ends(k)
        BY <1>9, <3>5 DEF TaskFails
      <4> QED  BY <4>1, <1>end
    <3> QED  BY <3>1, <3>2, <3>3, <3>4, <3>5
  <2>2. RedisWritten(k)
    BY <1>9, <1>types DEF TaskFails, RedisWritten
  <2> QED  BY <1>9, <1>types, <2>1, <2>2 DEF TaskFails, Broadcast
<1> QED  BY <1>1, <1>2, <1>3, <1>4, <1>5, <1>6, <1>7, <1>8, <1>9 DEF RunTask

LEMMA TaskKeeps == ASSUME FreezeInv, NEW k \in tasks, TaskWorks(k) PROVE FreezeInv'
<1> USE AccountIsNoModel DEF FreezeInv
<1>1. /\ UNCHANGED <<frozen, handling, seen, restoring, freezes, clears, scopes, due, undone>>
      /\ key' \in [Targets -> Values] /\ index' \subseteq Models /\ clock' \in Nat
      /\ fresh' = fresh \/ fresh' = {}
      /\ fresh' # {} => key'[Account] = key[Account]
  BY DEF TaskWorks, RedisWritten
<1>2. tasks' \subseteq Tasks
  BY DEF TaskWorks, Replaced, Types
<1>3. inbox' \in [Instances -> Seq(Events)]
  <2>1. CASE inbox' = inbox
    BY <2>1 DEF Types
  <2>2. ASSUME NEW e \in Events, inbox' = [i \in Instances |-> Append(inbox[i], e)]
        PROVE  inbox' \in [Instances -> Seq(Events)]
    <3>1. \A i \in Instances : Append(inbox[i], e) \in Seq(Events)
      BY DEF Types
    <3> QED  BY <2>2, <3>1
  <2> QED  BY <2>1, <2>2 DEF TaskWorks, Broadcast
<1>4. Types'
  BY <1>1, <1>2, <1>3 DEF Types
<1>5. ModelFreezeHeld' /\ ReadIsCurrent' /\ fresh' \subseteq Instances
  BY <1>1 DEF ModelFreezeHeld, ReadIsCurrent
<1>6. ModelsOnly'
  <2> SUFFICES ASSUME "account" \notin scopes PROVE ModelsOnly'
    BY <1>1 DEF ModelsOnly
  <2>1. k.target = Account => k.op \in {"delete", "scan", "sweep", "unmark"}
    BY DEF ModelsOnly
  <2>2. key'[Account] = "no"
    BY <2>1 DEF TaskWorks, RedisWritten, ModelsOnly, Clearing
  <2>3. \A n \in tasks' : n.target = Account => n.op \in {"delete", "scan", "sweep", "unmark"}
    BY <2>1 DEF TaskWorks, Replaced, ModelsOnly, Clearing
  <2>4. \A i \in Instances : \A n \in 1 .. Len(inbox'[i]) : inbox'[i][n].target # Account
    <3>1. CASE inbox' = inbox
      BY <3>1 DEF ModelsOnly
    <3>2. CASE inbox' # inbox
      <4>1. PICK e \in Events : e.target = k.target /\ k.op = "send" /\ inbox' = [i \in Instances |-> Append(inbox[i], e)]
        BY <3>2 DEF TaskWorks, Broadcast
      <4>2. e.target # Account
        BY <2>1, <4>1
      <4> SUFFICES ASSUME NEW i \in Instances, NEW n \in 1 .. Len(inbox'[i]) PROVE inbox'[i][n].target # Account
        OBVIOUS
      <4>3. inbox[i] \in Seq(Events) /\ inbox'[i] = Append(inbox[i], e)
        BY <4>1 DEF Types
      <4>4. \A j \in 1 .. Len(inbox[i]) : inbox[i][j].target # Account
        BY DEF ModelsOnly
      <4> QED  BY <4>2, <4>3, <4>4
    <3> QED  BY <3>1, <3>2
  <2> QED  BY <1>1, <2>2, <2>3, <2>4 DEF ModelsOnly
<1> QED  BY <1>4, <1>5, <1>6

-----------------------------------------------------------------------------
(* Events *)

LEMMA ReceiveKeeps == ASSUME FreezeInv, NEW i \in Instances, Receive(i) PROVE FreezeInv'
<1> USE AccountIsNoModel DEF FreezeInv
<1> DEFINE e == Head(inbox[i])
<1>0. /\ inbox[i] \in Seq(Events) /\ inbox[i] # <<>> /\ handling[i] = Idle
      /\ UNCHANGED <<key, index, tasks, restoring, clock, freezes, clears, scopes, due, fresh>>
  BY DEF Receive, UnchangedByEvents, redis, Types
<1>e. e \in Events /\ e = inbox[i][1] /\ 1 \in 1 .. Len(inbox[i]) /\ Tail(inbox[i]) \in Seq(Events)
  BY <1>0
<1>t. e.target \in Targets /\ e.version \in Nat
  BY <1>e DEF Events
<1>1. /\ inbox' = [inbox EXCEPT ![i] = Tail(inbox[i])]
      /\ seen' = [seen EXCEPT ![i] = IF Outdated(i, e) THEN @ ELSE e.version]
      /\ handling' = [handling EXCEPT ![i] =
            IF Outdated(i, e) \/ (e.cleared /\ e.target \in Models) THEN Idle
            ELSE [op |-> "read", target |-> e.target, value |-> "no"]]
      /\ \/ frozen' = frozen /\ undone' = undone
         \/ e.target \in Models /\ frozen' = Unfreeze(i, e.target) /\ Undo(i, {e.target}, "cleared")
  BY DEF Receive
<1> HIDE DEF e
<1>2. /\ handling' \in [Instances -> Handlings] /\ handling'[i].op # "apply"
      /\ handling'[i] # Idle => handling'[i].target = e.target
      /\ \A j \in Instances \ {i} : handling'[j] = handling[j]
  <2> DEFINE h == IF Outdated(i, e) \/ (e.cleared /\ e.target \in Models) THEN Idle
                  ELSE [op |-> "read", target |-> e.target, value |-> "no"]
  <2>1. h \in Handlings /\ h.op # "apply" /\ (h # Idle => h.target = e.target)
    BY <1>t DEF Handlings, Idle, Values
  <2>2. handling' = [handling EXCEPT ![i] = h] /\ handling \in [Instances -> Handlings]
    BY <1>1 DEF Types
  <2> HIDE DEF h
  <2> QED  BY <2>1, <2>2
<1>3. /\ frozen' \in [Instances -> [Targets -> Values]] /\ undone' \in [Instances -> SUBSET (Models \X Causes)]
      /\ \A j \in Instances : /\ frozen'[j][Account] = frozen[j][Account] /\ undone[j] \subseteq undone'[j]
                              /\ \A m \in due[j] : \/ frozen'[j][m] = frozen[j][m]
                                                   \/ <<m, "cleared">> \in undone'[j]
  <2>0. /\ frozen \in [Instances -> [Targets -> Values]] /\ undone \in [Instances -> SUBSET (Models \X Causes)]
        /\ \A j \in Instances : due[j] \subseteq Models
    BY DEF Types
  <2>1. CASE frozen' = frozen /\ undone' = undone
    BY <2>0, <2>1
  <2>2. CASE e.target \in Models /\ frozen' = Unfreeze(i, e.target) /\ Undo(i, {e.target}, "cleared")
    <3>1. frozen' = [frozen EXCEPT ![i][e.target] = "no"] /\ e.target # Account /\ "no" \in Values
      BY <2>2 DEF Unfreeze, Values
    <3>2. frozen' \in [Instances -> [Targets -> Values]]
      BY <2>0, <3>1
    <3>3. /\ undone' \in [Instances -> SUBSET (Models \X Causes)]
          /\ \A j \in Instances : undone[j] \subseteq undone'[j]
          /\ e.target \in due[i] => <<e.target, "cleared">> \in undone'[i]
      <4>1. "cleared" \in Causes
        BY DEF Causes
      <4> QED  BY <2>2, <4>1, UndoAdds
    <3>4. \A j \in Instances : \A u \in Targets \ {e.target} : frozen'[j][u] = frozen[j][u]
      BY <2>0, <3>1
    <3>6. \A j \in Instances \ {i} : frozen'[j] = frozen[j]
      BY <2>0, <3>1
    <3>7. ASSUME NEW j \in Instances, NEW m \in due[j]
          PROVE  frozen'[j][m] = frozen[j][m] \/ <<m, "cleared">> \in undone'[j]
      BY <2>0, <3>3, <3>4, <3>6
    <3> QED  BY <3>1, <3>2, <3>3, <3>4, <3>7
  <2> QED  BY <1>1, <2>1, <2>2
<1>4. Types'
  <2>1. inbox' \in [Instances -> Seq(Events)] /\ seen' \in [Instances -> Nat]
    BY <1>1, <1>e, <1>t DEF Types
  <2> QED  BY <1>0, <1>2, <1>3, <2>1 DEF Types
<1>5. ModelsOnly'
  <2> SUFFICES ASSUME "account" \notin scopes PROVE ModelsOnly'
    BY <1>0 DEF ModelsOnly
  <2>1. e.target # Account
    BY <1>e DEF ModelsOnly
  <2>2. \A j \in Instances : \A n \in 1 .. Len(inbox'[j]) : inbox'[j][n].target # Account
    <3> SUFFICES ASSUME NEW j \in Instances, NEW n \in 1 .. Len(inbox'[j]) PROVE inbox'[j][n].target # Account
      OBVIOUS
    <3>1. \A x \in 1 .. Len(inbox[j]) : inbox[j][x].target # Account
      BY DEF ModelsOnly
    <3>2. CASE j = i
      <4>1. inbox'[j] = Tail(inbox[i])
        BY <1>1, <3>2 DEF Types
      <4>2. Len(Tail(inbox[i])) = Len(inbox[i]) - 1 /\ Tail(inbox[i])[n] = inbox[i][n + 1] /\ n + 1 \in 1 .. Len(inbox[i])
        BY <1>0, <4>1
      <4> QED  BY <3>1, <3>2, <4>1, <4>2
    <3>3. CASE j # i
      BY <1>1, <3>1, <3>3 DEF Types
    <3> QED  BY <3>2, <3>3
  <2> QED  BY <1>0, <1>2, <1>3, <2>1, <2>2 DEF ModelsOnly
<1>6. ModelFreezeHeld'
  BY <1>0, <1>3, HeldOn
<1>7. ReadIsCurrent'
  BY <1>0, <1>2, <1>3 DEF ReadIsCurrent, Idle
<1> QED  BY <1>0, <1>4, <1>5, <1>6, <1>7

LEMMA ReadKeeps == ASSUME FreezeInv, NEW i \in Instances, Read(i) PROVE FreezeInv'
<1> USE AccountIsNoModel DEF FreezeInv
<1> DEFINE t == handling[i].target
<1>0. /\ UNCHANGED <<frozen, key, index, tasks, inbox, seen, restoring, clock, freezes, clears, scopes, due, undone>>
      /\ handling[i] # Idle /\ handling[i].op = "read"
  BY DEF Read, UnchangedByEvents, redis, Idle
<1>1. PICK ok \in BOOLEAN :
         /\ handling' = [handling EXCEPT ![i] = [op |-> "apply", target |-> t, value |-> IF ok THEN key[t] ELSE "no"]]
         /\ fresh' = IF t # Account THEN fresh ELSE IF ok THEN fresh \cup {i} ELSE fresh \ {i}
  BY DEF Read
<1>t. t \in Targets
  BY <1>0 DEF Types, Handlings
<1> HIDE DEF t
<1>2. /\ handling' \in [Instances -> Handlings] /\ handling'[i] # Idle
      /\ handling'[i].op = "apply" /\ handling'[i].target = t /\ handling'[i].value = IF ok THEN key[t] ELSE "no"
      /\ \A j \in Instances \ {i} : handling'[j] = handling[j]
  <2> DEFINE h == [op |-> "apply", target |-> t, value |-> IF ok THEN key[t] ELSE "no"]
  <2>1. h \in Handlings /\ h # Idle /\ h.op = "apply" /\ h.target = t /\ h.value = IF ok THEN key[t] ELSE "no"
    BY <1>t DEF Handlings, Idle, Values, Types
  <2>2. handling' = [handling EXCEPT ![i] = h] /\ handling \in [Instances -> Handlings]
    BY <1>1 DEF Types
  <2> HIDE DEF h
  <2> QED  BY <2>1, <2>2
<1>3. Types'
  BY <1>0, <1>2 DEF Types
<1>4. ModelsOnly'
  BY <1>0, <1>2 DEF ModelsOnly, t
<1>5. ModelFreezeHeld' /\ fresh' \subseteq Instances
  BY <1>0, <1>1 DEF ModelFreezeHeld
<1>6. ReadIsCurrent'
  <2> SUFFICES ASSUME NEW j \in fresh'
               PROVE  IF handling'[j].op = "apply" /\ handling'[j].target = Account
                      THEN handling'[j].value = key[Account]
                      ELSE frozen[j][Account] = "perm" <=> key[Account] = "perm"
    BY <1>0 DEF ReadIsCurrent
  <2>1. CASE j = i
    <3>1. CASE t = Account
      BY <1>1, <1>2, <2>1, <3>1
    <3>2. CASE t # Account
      <4>1. i \in fresh
        BY <1>1, <2>1, <3>2
      <4> QED  BY <1>0, <1>2, <2>1, <3>2, <4>1 DEF ReadIsCurrent
    <3> QED  BY <3>1, <3>2
  <2>2. CASE j # i
    <3>1. j \in fresh /\ j \in Instances
      BY <1>1, <2>2, <1>5
    <3> QED  BY <1>2, <2>2, <3>1 DEF ReadIsCurrent
  <2> QED  BY <2>1, <2>2
<1> QED  BY <1>3, <1>4, <1>5, <1>6

LEMMA ApplyKeeps == ASSUME FreezeInv, NEW i \in Instances, Apply(i) PROVE FreezeInv'
<1> USE AccountIsNoModel DEF FreezeInv
<1> DEFINE t == handling[i].target
<1> DEFINE v == handling[i].value
<1>0. /\ UNCHANGED <<key, index, tasks, inbox, seen, restoring, clock, freezes, clears, scopes, due, fresh>>
      /\ handling[i] # Idle /\ handling[i].op = "apply"
      /\ frozen' = Applied(i, t, v) /\ handling' = [handling EXCEPT ![i] = Idle]
      /\ Told(i, t, v)
  BY DEF Apply, UnchangedByEvents, redis, Idle
<1>t. t \in Targets /\ v \in Values
  BY <1>0 DEF Types, Handlings
<1>c. /\ i \in fresh /\ t = Account => v = key[Account]
      /\ i \in fresh /\ t # Account => (frozen[i][Account] = "perm" <=> key[Account] = "perm")
      /\ "account" \notin scopes => t \in Models
  BY <1>0, <1>t DEF ReadIsCurrent, ModelsOnly, Targets
<1> HIDE DEF t, v
<1>1. /\ handling' \in [Instances -> Handlings] /\ handling'[i] = Idle
      /\ \A j \in Instances \ {i} : handling'[j] = handling[j]
  BY <1>0 DEF Types, Handlings
<1>2. /\ frozen' \in [Instances -> [Targets -> Values]]
      /\ \A j \in Instances \ {i} : frozen'[j] = frozen[j]
      /\ t # Account => \A u \in Targets \ {t} : frozen'[i][u] = frozen[i][u]
      /\ frozen'[i][t] = v \/ (v = "no" /\ t # Account /\ frozen'[i][t] = frozen[i][t])
  BY <1>0, <1>t DEF Applied, Unfreeze, Unfrozen, Types, Values
<1>u. /\ undone' \in [Instances -> SUBSET (Models \X Causes)]
      /\ \A j \in Instances : undone[j] \subseteq undone'[j]
      /\ v = "temp" /\ t \in due[i] => <<t, "temporary">> \in undone'[i]
      /\ v = "no" /\ t = Account => \A m \in due[i] : <<m, "accountRead">> \in undone'[i]
  <2>0. /\ undone \in [Instances -> SUBSET (Models \X Causes)] /\ due[i] \subseteq Models
        /\ "temporary" \in Causes /\ "accountRead" \in Causes
    BY DEF Types, Causes
  <2>1. CASE v = "temp"
    <3>1. Undo(i, {t}, "temporary")
      BY <1>0, <2>1 DEF Told
    <3> QED  BY <2>0, <2>1, <3>1, UndoAdds
  <2>2. CASE v = "no" /\ t = Account
    <3>1. Undo(i, Models, "accountRead")
      BY <1>0, <2>2 DEF Told
    <3> QED  BY <2>0, <2>2, <3>1, UndoAdds
  <2>3. CASE v # "temp" /\ ~(v = "no" /\ t = Account)
    BY <1>0, <2>0, <2>3 DEF Told
  <2> QED  BY <2>1, <2>2, <2>3
<1>3. Types'
  BY <1>0, <1>1, <1>2, <1>u DEF Types
<1>4. ModelsOnly'
  BY <1>0, <1>1, <1>2, <1>c DEF ModelsOnly
<1>5. ModelFreezeHeld'
  <2>1. ASSUME NEW j \in Instances, NEW m \in due[j]
        PROVE  \/ frozen'[j][m] = "perm" \/ <<m, "temporary">> \in undone'[j]
               \/ <<m, "accountRead">> \in undone'[j] /\ "account" \in scopes
               \/ frozen'[j][m] = frozen[j][m]
    <3>1. m \in Models /\ m \in Targets
      BY DEF Types
    <3>2. CASE j # i
      BY <1>2, <3>2
    <3>3. CASE j = i /\ t = Account /\ v = "no"
      BY <1>u, <1>c, <3>3
    <3>4. CASE j = i /\ t = Account /\ v # "no"
      BY <1>0, <3>1, <3>4 DEF Applied, Types
    <3>5. CASE j = i /\ t # Account /\ m # t
      BY <1>2, <3>1, <3>5
    <3>6. CASE j = i /\ t # Account /\ m = t
      <4>1. v = "temp" \/ v = "perm" \/ v = "no"
        BY <1>t DEF Values
      <4>2. CASE v = "no"
        BY <1>0, <3>6, <4>2 DEF Applied
      <4> QED  BY <1>2, <1>u, <3>6, <4>1, <4>2
    <3> QED  BY <3>2, <3>3, <3>4, <3>5, <3>6
  <2> QED  BY <1>0, <1>u, <2>1, HeldOn
<1>6. ReadIsCurrent'
  <2> SUFFICES ASSUME NEW j \in fresh
               PROVE  IF handling'[j].op = "apply" /\ handling'[j].target = Account
                      THEN handling'[j].value = key[Account]
                      ELSE frozen'[j][Account] = "perm" <=> key[Account] = "perm"
    BY <1>0 DEF ReadIsCurrent
  <2>1. CASE j = i
    BY <1>1, <1>2, <1>c, <2>1 DEF Idle
  <2>2. CASE j # i
    BY <1>1, <1>2, <2>2 DEF ReadIsCurrent
  <2> QED  BY <2>1, <2>2
<1> QED  BY <1>0, <1>3, <1>4, <1>5, <1>6

-----------------------------------------------------------------------------
(* Breaks, restarts and the passing of time *)

LEMMA DisconnectKeeps == ASSUME FreezeInv, NEW i \in Instances, Disconnect(i) PROVE FreezeInv'
<1> USE DEF FreezeInv
<1>0. /\ UNCHANGED <<frozen, key, index, tasks, handling, seen, restoring, clock, freezes, clears, scopes, due, undone, fresh>>
      /\ inbox' = [inbox EXCEPT ![i] = <<>>]
  BY DEF Disconnect, UnchangedByEvents, redis
<1>1. Types'
  BY <1>0 DEF Types
<1>2. ModelsOnly'
  BY <1>0 DEF ModelsOnly, Types
<1> QED  BY <1>0, <1>1, <1>2 DEF ModelFreezeHeld, ReadIsCurrent

LEMMA RestartKeeps == ASSUME FreezeInv, NEW i \in Instances, Restart(i) PROVE FreezeInv'
<1> USE AccountIsNoModel DEF FreezeInv
<1>0. /\ UNCHANGED <<key, index, clock, freezes, clears, scopes>>
      /\ frozen' = [frozen EXCEPT ![i] = Unfrozen] /\ tasks' \subseteq tasks
      /\ inbox' = [inbox EXCEPT ![i] = <<>>] /\ handling' = [handling EXCEPT ![i] = Idle]
      /\ seen' = [seen EXCEPT ![i] = 0] /\ restoring' = [restoring EXCEPT ![i] = [op |-> "account"]]
      /\ due' = [due EXCEPT ![i] = {}] /\ undone' = [undone EXCEPT ![i] = {}] /\ fresh' = fresh \ {i}
  BY DEF Restart, redis
<1>1. /\ Unfrozen \in [Targets -> Values] /\ Idle \in Handlings /\ IsRestoring([op |-> "account"])
      /\ Unfrozen[Account] = "no"
  BY DEF Unfrozen, Values, Handlings, IsRestoring
<1>2. Types'
  <2>1. restoring' = [j \in Instances |-> restoring'[j]] /\ \A j \in Instances : IsRestoring(restoring'[j])
    BY <1>0, <1>1 DEF Types
  <2> QED  BY <1>0, <1>1, <2>1 DEF Types
<1>3. ModelsOnly'
  BY <1>0, <1>1 DEF ModelsOnly, Types
<1>4. ModelFreezeHeld'
  <2>1. \A j \in Instances \ {i} : frozen'[j] = frozen[j] /\ due'[j] = due[j] /\ undone'[j] = undone[j]
    BY <1>0 DEF Types
  <2>2. due'[i] = {}
    BY <1>0 DEF Types
  <2> QED  BY <1>0, <2>1, <2>2, HeldOn
<1>5. ReadIsCurrent'
  BY <1>0 DEF ReadIsCurrent, Types
<1> QED  BY <1>0, <1>2, <1>3, <1>4, <1>5

LEMMA RestoreReadKeeps ==
    ASSUME FreezeInv, NEW i \in Instances, RestoreReadAccount(i) \/ RestoreReadModels(i)
    PROVE  FreezeInv'
<1> USE AccountIsNoModel DEF FreezeInv
<1>0. UNCHANGED <<frozen, key, index, tasks, inbox, handling, seen, clock, freezes, clears, scopes, due, undone, fresh>>
  BY DEF RestoreReadAccount, RestoreReadModels, redis, counters
<1>1. \E x : /\ restoring' = [restoring EXCEPT ![i] = x] /\ IsRestoring(x)
             /\ x.op = "applyAccount" => x.value \in {key[Account], "no"}
  <2>1. CASE RestoreReadAccount(i)
    <3>1. PICK ok \in BOOLEAN : restoring' = [restoring EXCEPT ![i] =
                                    [op |-> "applyAccount", value |-> IF ok THEN key[Account] ELSE "no"]]
      BY <2>1 DEF RestoreReadAccount
    <3> DEFINE x == [op |-> "applyAccount", value |-> IF ok THEN key[Account] ELSE "no"]
    <3>2. IsRestoring(x) /\ x.value \in {key[Account], "no"}
      BY DEF IsRestoring, Values, Types
    <3> HIDE DEF x
    <3>3. restoring' = [restoring EXCEPT ![i] = x]
      BY <3>1 DEF x
    <3> QED  BY <3>2, <3>3
  <2>2. CASE RestoreReadModels(i)
    <3> DEFINE w == [m \in index |-> key[m]]
    <3> DEFINE x == [op |-> "applyModels", value |-> w]
    <3>1. restoring' = [restoring EXCEPT ![i] = x]
      BY <2>2 DEF RestoreReadModels
    <3>2. IsModelKeys(w)
      BY DEF IsModelKeys, Types
    <3> HIDE DEF w
    <3>3. IsRestoring(x) /\ x.op = "applyModels"
      BY <3>2 DEF IsRestoring
    <3> HIDE DEF x
    <3> QED  BY <3>1, <3>3
  <2> QED  BY <2>1, <2>2
<1>2. PICK x : /\ restoring' = [restoring EXCEPT ![i] = x] /\ IsRestoring(x)
               /\ x.op = "applyAccount" => x.value \in {key[Account], "no"}
  BY <1>1
<1>3. Types'
  BY <1>0, <1>2 DEF Types
<1>4. ModelsOnly'
  BY <1>0, <1>2 DEF ModelsOnly, Types
<1> QED  BY <1>0, <1>3, <1>4 DEF ModelFreezeHeld, ReadIsCurrent

LEMMA RestoreAccountKeeps == ASSUME FreezeInv, NEW i \in Instances, RestoreApplyAccount(i) PROVE FreezeInv'
<1> USE AccountIsNoModel DEF FreezeInv
<1> DEFINE v == restoring[i].value
<1>0. /\ UNCHANGED <<key, index, tasks, inbox, handling, seen, clock, freezes, clears, scopes, due, undone>>
      /\ restoring[i].op = "applyAccount" /\ fresh' = fresh \ {i}
      /\ restoring' = [restoring EXCEPT ![i] = [op |-> "models"]]
      /\ frozen' = IF v = "no" THEN frozen ELSE [frozen EXCEPT ![i][Account] = v]
  BY DEF RestoreApplyAccount, redis, counters
<1>v. v \in Values /\ ("account" \notin scopes => v = "no")
  <2>1. IsRestoring(restoring[i])
    BY DEF Types
  <2>2. v \in Values
    BY <1>0, <2>1 DEF IsRestoring, Idle
  <2> QED  BY <1>0, <2>2 DEF ModelsOnly
<1> HIDE DEF v
<1>1. IsRestoring([op |-> "models"])
  BY DEF IsRestoring
<1>2. Types'
  BY <1>0, <1>1, <1>v DEF Types
<1>3. ModelsOnly'
  BY <1>0, <1>v DEF ModelsOnly, Types
<1>4. ModelFreezeHeld'
  BY <1>0, <1>v DEF ModelFreezeHeld, Types
<1>5. ReadIsCurrent'
  BY <1>0 DEF ReadIsCurrent, Types
<1> QED  BY <1>0, <1>2, <1>3, <1>4, <1>5

LEMMA RestoreModelsKeeps == ASSUME FreezeInv, NEW i \in Instances, RestoreApplyModels(i) PROVE FreezeInv'
<1> USE AccountIsNoModel DEF FreezeInv
<1> DEFINE v == restoring[i].value
<1> DEFINE stale == {m \in DOMAIN v : v[m] = "no"}
<1>0. /\ UNCHANGED <<key, tasks, inbox, handling, seen, clock, freezes, clears, scopes, due, fresh>>
      /\ restoring[i].op = "applyModels" /\ index' \subseteq index
      /\ restoring' = [restoring EXCEPT ![i] = Idle]
      /\ frozen' = [frozen EXCEPT ![i] = [t \in Targets |-> IF t \in DOMAIN v \ stale THEN v[t] ELSE frozen[i][t]]]
      /\ Undo(i, {m \in DOMAIN v : v[m] = "temp"}, "temporary")
  BY DEF RestoreApplyModels, counters
<1>v. DOMAIN v \subseteq Models /\ \A m \in DOMAIN v : v[m] \in Values
  <2>1. IsRestoring(restoring[i])
    BY DEF Types
  <2> QED  BY <1>0, <2>1 DEF IsRestoring, IsModelKeys, Idle
<1> HIDE DEF v
<1>1. /\ frozen' \in [Instances -> [Targets -> Values]]
      /\ \A j \in Instances \ {i} : frozen'[j] = frozen[j]
      /\ frozen'[i][Account] = frozen[i][Account]
      /\ \A m \in Models : frozen'[i][m] = IF m \in DOMAIN v /\ v[m] # "no" THEN v[m] ELSE frozen[i][m]
  BY <1>0, <1>v DEF Types
<1>u. /\ undone' \in [Instances -> SUBSET (Models \X Causes)]
      /\ \A j \in Instances : undone[j] \subseteq undone'[j]
      /\ \A m \in due[i] : m \in DOMAIN v /\ v[m] = "temp" => <<m, "temporary">> \in undone'[i]
  <2>1. "temporary" \in Causes
    BY DEF Causes
  <2> QED  BY <1>0, <2>1, UndoAdds
<1>2. Types'
  <2>1. IsRestoring(Idle)
    BY DEF IsRestoring
  <2> QED  BY <1>0, <1>1, <1>u, <2>1 DEF Types
<1>3. ModelsOnly'
  BY <1>0, <1>1 DEF ModelsOnly, Types, Idle
<1>4. ModelFreezeHeld'
  <2>1. ASSUME NEW j \in Instances, NEW m \in due[j]
        PROVE  \/ frozen'[j][m] = "perm" \/ <<m, "temporary">> \in undone'[j]
               \/ frozen'[j][m] = frozen[j][m]
    <3>1. m \in Models
      BY DEF Types
    <3> QED  BY <1>1, <1>u, <1>v, <3>1 DEF Values
  <2> QED  BY <1>0, <1>u, <2>1, HeldOn
<1>5. ReadIsCurrent'
  BY <1>0, <1>1 DEF ReadIsCurrent
<1> QED  BY <1>0, <1>2, <1>3, <1>4, <1>5

LEMMA ExpiryKeeps ==
    ASSUME FreezeInv, NEW t \in Targets, ExpireKey(t) \/ \E i \in Instances : Expire(i, t)
    PROVE  FreezeInv'
<1> USE AccountIsNoModel DEF FreezeInv
<1>1. CASE ExpireKey(t)
  <2>0. /\ UNCHANGED <<frozen, index, tasks, inbox, handling, seen, restoring, clock, freezes, clears, scopes, due, undone>>
        /\ key' = [key EXCEPT ![t] = "no"] /\ fresh' = IF t = Account THEN {} ELSE fresh
    BY <1>1 DEF ExpireKey, counters, KeyChanged
  <2>1. Types'
    BY <2>0 DEF Types, Values
  <2>2. ModelsOnly'
    BY <2>0 DEF ModelsOnly, Types
  <2> QED  BY <2>0, <2>1, <2>2 DEF ModelFreezeHeld, ReadIsCurrent, Types
<1>2. ASSUME NEW i \in Instances, Expire(i, t) PROVE FreezeInv'
  <2>0. /\ UNCHANGED <<key, index, tasks, inbox, handling, seen, restoring, clock, freezes, clears, scopes, due, undone, fresh>>
        /\ frozen' = [frozen EXCEPT ![i][t] = "no"] /\ frozen[i][t] = "temp"
    BY <1>2 DEF Expire, counters, redis
  <2>1. Types'
    BY <2>0 DEF Types, Values
  <2>2. ModelsOnly'
    BY <2>0 DEF ModelsOnly, Types
  <2>3. ModelFreezeHeld'
    BY <2>0 DEF ModelFreezeHeld, Types
  <2>4. ReadIsCurrent'
    BY <2>0 DEF ReadIsCurrent, Types
  <2> QED  BY <2>0, <2>1, <2>2, <2>3, <2>4
<1> QED  BY <1>1, <1>2

LEMMA FreezeStep == FreezeInv /\ [Next]_vars => FreezeInv'
<1> SUFFICES ASSUME FreezeInv, [Next]_vars PROVE FreezeInv'
  OBVIOUS
<1>1. CASE UNCHANGED vars
  BY <1>1 DEF vars, redis, counters, FreezeInv, Types, ModelsOnly, ModelFreezeHeld, ReadIsCurrent
<1>2. ASSUME NEW i \in Instances,
             Operation(i) \/ Handler(i) \/ Restore(i) \/ Restart(i) \/ Disconnect(i)
      PROVE  FreezeInv'
  BY <1>2, OperationKeeps, ReceiveKeeps, ReadKeeps, ApplyKeeps, DisconnectKeeps, RestartKeeps,
     RestoreReadKeeps,
     RestoreAccountKeeps, RestoreModelsKeeps DEF Handler, Restore
<1>3. ASSUME NEW k \in tasks, RunTask(k) \/ TaskFails(k) PROVE FreezeInv'
  BY <1>3, TaskCases, TaskKeeps DEF FreezeInv
<1>4. ASSUME NEW t \in Targets, ExpireKey(t) \/ \E i \in Instances : Expire(i, t) PROVE FreezeInv'
  BY <1>4, ExpiryKeeps
<1> QED  BY <1>1, <1>2, <1>3, <1>4 DEF Next

-----------------------------------------------------------------------------

\* A model that an instance froze for good stays frozen there until an operation
\* unfreezes it: neither its own events, read early or late, nor another freeze of
\* the model for good, nor a restoration of absent keys, nor an expiry undoes it
\* (_on_cooldown_event, restore_cooldowns).  Three things do, and nothing else: a
\* temporary freeze that the instance reads, an unfreezing that was under way, and,
\* where accounts are frozen too, an account event that finds no key.
THEOREM FreezesAreHeld == Spec => []ModelFreezeHeld
<1>1. FreezeInv => ModelFreezeHeld
  BY DEF FreezeInv
<1> QED  BY <1>1, FreezeInit, FreezeStep, PTL DEF Spec

\* Whatever was lost, dropped or raced before: an instance that has read the
\* account's key since it last changed, and has not acted itself, knows whether the
\* account is frozen for good (_on_cooldown_event).
THEOREM ReadsRepair == Spec => []RepairedByRead
<1>1. FreezeInv => RepairedByRead
  BY DEF FreezeInv, ReadIsCurrent, RepairedByRead, Idle
<1> QED  BY <1>1, FreezeInit, FreezeStep, PTL DEF Spec

-----------------------------------------------------------------------------
(* The accounts in the table, the cache, the snapshots and the pools: AccountSync *)


\* The table, and what every instance carries from one await of
\* _reconcile_providers to the next.
Shape ==
    /\ db = [a \in Accounts |-> db[a]]
    /\ recon = [i \in Instances |-> recon[i]]
    /\ gone = [i \in Instances |-> gone[i]]
    /\ \A i \in Instances :
          \/ recon[i] \in [op : {"idle", "apply"}]
          \/ recon[i].op \in {"refresh", "store"} /\ recon[i] \in [op : {recon[i].op}, config : {recon[i].config}]
          \/ recon[i] \in [op : {"confirm", "remove"}, stale : SUBSET Accounts]

\* Until the second look, whatever the table lacks has been absent since the
\* instance found accounts to remove.
Absent == \A i \in Instances : recon[i].op = "confirm" => Accounts \ Sync!Present(db) \subseteq gone[i]

SyncInv == Shape /\ Absent /\ Sync!RemovesOnlyDeleted

-----------------------------------------------------------------------------

LEMMA SyncInit == Sync!Init => SyncInv
BY DEF Sync!Init, SyncInv, Shape, Absent, Sync!RemovesOnlyDeleted, Sync!Idle, Sync!Seed

\* Steps that neither write the table nor belong to a reconciliation.
LEMMA SyncSame == ASSUME SyncInv, UNCHANGED <<db, recon, gone>> PROVE SyncInv'
BY DEF SyncInv, Shape, Absent, Sync!RemovesOnlyDeleted, Sync!Present

\* A write: an account that is deleted now is noted by all who are about to look.
LEMMA SyncWrite == ASSUME SyncInv, NEW k \in writing, Sync!WriteTable(k) PROVE SyncInv'
<1>1. /\ db' = [db EXCEPT ![k.account] = k.row] /\ recon' = recon
      /\ gone' = [i \in Instances |-> IF k.row = Sync!None /\ recon[i].op \in {"confirm", "remove"}
                                      THEN gone[i] \cup {k.account} ELSE gone[i]]
  BY DEF Sync!WriteTable
<1>2. \A i \in Instances : gone[i] \subseteq gone'[i]
  BY <1>1
<1>3. Shape'
  BY <1>1 DEF SyncInv, Shape
<1>4. Sync!RemovesOnlyDeleted'
  BY <1>1, <1>2 DEF SyncInv, Sync!RemovesOnlyDeleted
<1>5. Absent'
  <2> SUFFICES ASSUME NEW i \in Instances, recon[i].op = "confirm", NEW a \in Accounts, db'[a] = Sync!None
               PROVE  a \in gone'[i]
    BY <1>1 DEF Absent, Sync!Present
  <2>1. CASE a = k.account
    <3>1. k.row = Sync!None
      BY <1>1, <2>1 DEF SyncInv, Shape
    <3> QED  BY <1>1, <2>1, <3>1
  <2>2. CASE a # k.account
    <3>1. db[a] = Sync!None
      BY <1>1, <2>2 DEF SyncInv, Shape
    <3> QED  BY <1>2, <3>1 DEF SyncInv, Absent, Sync!Present
  <2> QED  BY <2>1, <2>2
<1> QED  BY <1>3, <1>4, <1>5 DEF SyncInv

\* A step of the reconciliation of one instance.
LEMMA SyncReconcile == ASSUME SyncInv, NEW i \in Instances, Sync!Reconcile(i) \/ Sync!ReconFails(i) PROVE SyncInv'
<1>1. /\ db' = db
      /\ recon' = [recon EXCEPT ![i] = recon'[i]]
      /\ gone' = [gone EXCEPT ![i] = gone'[i]]
  BY DEF SyncInv, Shape, Sync!Reconcile, Sync!ReconRead, Sync!ReconRefresh, Sync!ReconStore,
     Sync!ReconApply, Sync!ReconConfirm, Sync!ReconRemove,
         Sync!ReconFails
<1>2. \A j \in Instances \ {i} : recon'[j] = recon[j] /\ gone'[j] = gone[j]
  BY <1>1 DEF SyncInv, Shape
<1> SUFFICES /\ \/ recon'[i] \in [op : {"idle", "apply"}]
                \/ recon'[i].op \in {"refresh", "store"} /\ recon'[i] \in [op : {recon'[i].op}, config : {recon'[i].config}]
                \/ recon'[i] \in [op : {"confirm", "remove"}, stale : SUBSET Accounts]
             /\ recon'[i].op = "confirm" => Accounts \ Sync!Present(db) \subseteq gone'[i]
             /\ recon'[i].op = "remove" => recon'[i].stale \subseteq gone'[i]
  <2>1. Shape'
    BY <1>1, <1>2 DEF SyncInv, Shape
  <2>2. Absent' /\ Sync!RemovesOnlyDeleted'
    BY <1>1, <1>2 DEF SyncInv, Absent, Sync!RemovesOnlyDeleted, Sync!Present
  <2> QED  BY <2>1, <2>2 DEF SyncInv
<1>3. CASE Sync!ReconRead(i) \/ Sync!ReconStore(i) \/ Sync!ReconRemove(i) \/ Sync!ReconFails(i)
  BY <1>3 DEF SyncInv, Shape, Sync!ReconRead, Sync!ReconStore, Sync!ReconRemove, Sync!ReconFails, Sync!Idle
<1>4. CASE Sync!ReconRefresh(i)
  BY <1>4 DEF SyncInv, Shape, Sync!ReconRefresh
<1>5. CASE Sync!ReconApply(i)
  <2>1. Sync!Stale(i) \subseteq Accounts
    BY DEF Sync!Stale, Sync!Present
  <2> QED  BY <1>5, <2>1 DEF SyncInv, Shape, Sync!ReconApply, Sync!Idle
<1>6. CASE Sync!ReconConfirm(i)
  BY <1>6 DEF SyncInv, Shape, Absent, Sync!ReconConfirm
<1> QED  BY <1>3, <1>4, <1>5, <1>6 DEF Sync!Reconcile

LEMMA SyncStep == SyncInv /\ [Sync!Next]_Sync!vars => SyncInv'
<1> SUFFICES ASSUME SyncInv, [Sync!Next]_Sync!vars PROVE SyncInv'
  OBVIOUS
<1>1. CASE UNCHANGED Sync!vars
  BY <1>1, SyncSame DEF Sync!vars
<1>2. ASSUME NEW i \in Instances, NEW a \in Accounts, NEW b \in Accounts, NEW kind \in limits.kinds,
             Sync!StartWrite(i, a, b, kind)
      PROVE  SyncInv'
  BY <1>2, SyncSame DEF Sync!StartWrite
<1>3. ASSUME NEW i \in Instances, Sync!Handler(i) PROVE SyncInv'
  BY <1>3, SyncSame DEF Sync!Handler, Sync!Receive, Sync!HandlerReadCache, Sync!HandlerReadTable,
     Sync!HandlerFill
<1>4. ASSUME NEW i \in Instances, Sync!Reconcile(i) \/ Sync!ReconFails(i) PROVE SyncInv'
  BY <1>4, SyncReconcile
<1>5. ASSUME NEW i \in Instances, Sync!Disconnect(i) PROVE SyncInv'
  BY <1>5, SyncSame DEF Sync!Disconnect
<1>6. ASSUME NEW k \in writing, Sync!Write(k) PROVE SyncInv'
  <2>1. CASE Sync!WriteTable(k)
    BY <2>1, SyncWrite
  <2>2. CASE ~Sync!WriteTable(k)
    BY <1>6, <2>2, SyncSame DEF Sync!Write, Sync!ReadCache, Sync!ReadTable, Sync!Fill, Sync!Patch, Sync!StoreCache,
       Sync!Publish, Sync!UpdatePool
  <2> QED  BY <2>1, <2>2
<1>7. CASE Sync!CacheExpires
  BY <1>7, SyncSame DEF Sync!CacheExpires
<1> QED  BY <1>1, <1>2, <1>3, <1>4, <1>5, <1>6, <1>7 DEF Sync!Next

\* The minute's reconciliation never removes an account that was in the table all
\* the time since it was found missing in the snapshot, however writes, events,
\* failed reads and the other instances interleave (_reconcile_providers).
THEOREM RemovalsAreDeletions == Sync!Spec => []RemovesOnlyDeleted
<1>1. SyncInv => RemovesOnlyDeleted
  BY DEF SyncInv, RemovesOnlyDeleted
<1> QED  BY <1>1, SyncInit, SyncStep, PTL DEF Sync!Spec

=============================================================================
