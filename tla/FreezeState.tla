----------------------------- MODULE FreezeState -----------------------------
(***************************************************************************)
(* The freezes of one account and of its models: the mirror every gateway  *)
(* instance selects by (server/rate_limiter.py), the keys and the index in *)
(* Redis (limits/backend.py), and the events that carry a freeze from one  *)
(* instance to the others (server/runtime_sync.py and                      *)
(* server/runtime_handlers.py).                                            *)
(*                                                                         *)
(* An operation changes the mirror at once and leaves the rest to asyncio  *)
(* tasks: one Redis command is one step, and so is a publication.  A task  *)
(* is a record with the command it runs next in "op".                      *)
(***************************************************************************)
EXTENDS Integers, Sequences, FiniteSets

CONSTANTS
    Instances,    \* gateway processes
    Models,       \* models of the account
    Policies,     \* the freeze policies: sets of "account", "account_model"
    Admins,       \* instances whose administration API is used
    Periods,      \* how long: "temp" (seconds > 0), "perm" (seconds = None)
    Bounds        \* bound: the numbers of freezes, unfreezing operations and faults
                  \* (Redis errors, broken subscriptions, restarts) per policy

ASSUME FreezeAssumption ==
    /\ \A p \in Policies : p \subseteq {"account", "account_model"}
    /\ Periods \subseteq {"temp", "perm"} /\ Admins \subseteq Instances
    /\ "account" \notin Models
    /\ Bounds \in [Policies -> SUBSET [freezes : Nat, clears : Nat, faults : Nat]]

\* What can be frozen: the account, or the account for one model.
Account == "account"
Targets == {Account} \cup Models

VARIABLES
    frozen,     \* _freeze_state of each instance: "no", "temp" or "perm"
    key,        \* limit:cooldown:... of each target: absent, with or without TTL
    index,      \* limit:cooldown_index:{provider}:models
    tasks,      \* asyncio tasks under way
    inbox,      \* the subscription of each instance, in the order of Redis
    handling,   \* the event each instance handles, with what it read
    seen,       \* _last_version of the name provider:username
    restoring,  \* restore_cooldowns of a started instance, with what it read
    clock,      \* time.time(), advanced by every publication
    freezes,    \* bookkeeping: freezes so far, also the names of tasks
    clears, faults,   \* bookkeeping
    scopes,     \* the freeze policy in force
    due,        \* bookkeeping: models an instance froze for good and nobody unfroze
    undone,     \* bookkeeping: what has told it otherwise since, model by model
    fresh       \* bookkeeping: instances whose last read of the account is current

redis == <<key, index>>
counters == <<freezes, clears, faults, scopes>>
vars == <<frozen, redis, tasks, inbox, handling, seen, restoring, clock, counters,
          due, undone, fresh>>

Freezable == (IF "account" \in scopes THEN {Account} ELSE {})
             \cup (IF "account_model" \in scopes THEN Models ELSE {})

\* The bounds allow so many more freezes, unfreezing operations and faults.
Within(f, c, e) ==
    \E b \in Bounds[scopes] :
        freezes + f <= b.freezes /\ clears + c <= b.clears /\ faults + e <= b.faults

Idle == [op |-> "idle"]
Unfrozen == [t \in Targets |-> "no"]

\* What may tell an instance otherwise: the event of an account whose key it does
\* not find, a temporary freeze that it reads for the model, and the event of an
\* unfreezing that was there before the freeze.
Causes == {"accountRead", "temporary", "cleared"}

\* Instance i is told otherwise about models M that are due.
Undo(i, M, cause) == undone' = [undone EXCEPT ![i] = @ \cup ((M \cap due[i]) \X {cause})]

-----------------------------------------------------------------------------
(* The mirror *)

\* freeze: without refresh a freeze in force stays as it is.
FreezeChanges(i, t, refresh) == refresh \/ frozen[i][t] = "no"

\* unfreeze(kind=account) clears the account and all its models.
Unfreeze(i, t) ==
    IF t = Account THEN [frozen EXCEPT ![i] = Unfrozen]
    ELSE [frozen EXCEPT ![i][t] = "no"]

Task(i, op, t, v, cleared) ==
    [at |-> i, op |-> op, target |-> t, value |-> v, cleared |-> cleared,
     id |-> freezes + clears, swept |-> {}, version |-> 0]

-----------------------------------------------------------------------------
(* Operations of an instance *)

\* _freeze_account starts the Redis write and the broadcast side by side.
AccountFreezeTasks(i, v) ==
    {Task(i, "set", Account, v, FALSE), Task(i, "publish", Account, v, FALSE)}

\* _freeze_account_model starts one task that writes and then broadcasts.
ModelFreezeTasks(i, m, v) == {Task(i, "setThenPublish", m, v, FALSE)}

\* _freeze_account, _apply_permanent_freeze (always with refresh) and
\* _freeze_account_model.
Freeze(i, t, v, refresh) ==
    /\ Within(1, 0, 0) /\ freezes' = freezes + 1
    /\ FreezeChanges(i, t, refresh)
    /\ frozen' = [frozen EXCEPT ![i][t] = v]
    /\ tasks' = tasks \cup (IF t = Account THEN AccountFreezeTasks(i, v)
                            ELSE ModelFreezeTasks(i, t, v))
    /\ due' = [due EXCEPT ![i] = IF v = "perm" THEN @ \cup ({t} \cap Models) ELSE @ \ {t}]
    /\ undone' = [undone EXCEPT ![i] = @ \ ({t} \X Causes)]
    /\ fresh' = fresh \ {i}
    /\ UNCHANGED <<redis, inbox, handling, seen, restoring, clock, clears, faults,
                   scopes>>

\* mark_account_cooldown: a temporary freeze that is not broadcast.
MarkCooldown(i, refresh) ==
    /\ "account" \in scopes /\ "temp" \in Periods
    /\ Within(1, 0, 0) /\ freezes' = freezes + 1
    /\ FreezeChanges(i, Account, refresh)
    /\ frozen' = [frozen EXCEPT ![i][Account] = "temp"]
    /\ tasks' = tasks \cup {Task(i, "set", Account, "temp", FALSE)}
    /\ fresh' = fresh \ {i}
    /\ UNCHANGED <<redis, inbox, handling, seen, restoring, clock, clears, faults,
                   scopes, due, undone>>

\* What an unfreezing operation of i does to the mirror and to the bookkeeping.
Lifts(i, t) ==
    /\ Within(0, 1, 0) /\ clears' = clears + 1
    /\ frozen' = Unfreeze(i, t)
    /\ due' = [j \in Instances |-> IF t = Account THEN {} ELSE due[j] \ {t}]
    /\ fresh' = fresh \ {i}
    /\ UNCHANGED <<redis, inbox, handling, seen, restoring, clock, freezes, faults,
                   scopes, undone>>

\* clear_runtime_freeze_on_success for a request with model m: the whole
\* account when it was frozen, else the model.
ClearOnSuccess(i, m) ==
    LET t == IF frozen[i][Account] # "no" THEN Account ELSE m
    IN  /\ frozen[i][t] # "no"
        /\ Lifts(i, t)
        /\ tasks' = tasks \cup {Task(i, "delete", t, "no", FALSE),
                                Task(i, "publish", t, "no", TRUE)}

\* clear_account_cooldown of the administration: not broadcast.
AdminClear(i) ==
    /\ i \in Admins
    /\ Lifts(i, Account)
    /\ tasks' = tasks \cup {Task(i, "delete", Account, "no", FALSE)}

\* _prune_account_freezes_for_channel: the model left the channel.
Prune(i, m) ==
    /\ frozen[i][m] # "no"
    /\ Lifts(i, m)
    /\ tasks' = tasks \cup {Task(i, "delete", m, "no", FALSE)}

-----------------------------------------------------------------------------
(* Tasks: one Redis command per step *)

Becomes(k, op) == tasks' = (tasks \ {k}) \cup {[k EXCEPT !.op = op]}
Ends(k) == tasks' = tasks \ {k}

\* What follows a task that wrote: _freeze_account_model_async broadcasts.
AfterSet(k) == IF k.op \in {"setThenPublish", "markThenPublish"}
               THEN Becomes(k, "publish") ELSE Ends(k)

UnchangedByTasks ==
    UNCHANGED <<frozen, handling, seen, restoring, freezes, clears, scopes, due, undone>>

KeyChanged(t) == fresh' = IF t = Account THEN {} ELSE fresh

\* SET with or without EX, then (for a model) SADD: _index_mark.
TaskSet(k) ==
    /\ k.op \in {"set", "setThenPublish"}
    /\ key' = [key EXCEPT ![k.target] = k.value]
    /\ KeyChanged(k.target)
    /\ IF k.target \in Models
       THEN Becomes(k, IF k.op = "set" THEN "mark" ELSE "markThenPublish")
       ELSE AfterSet(k)
    /\ UNCHANGED <<index, inbox, clock, faults>> /\ UnchangedByTasks

TaskMark(k) ==
    /\ k.op \in {"mark", "markThenPublish"}
    /\ index' = index \cup {k.target}
    /\ AfterSet(k)
    /\ UNCHANGED <<key, inbox, clock, faults, fresh>> /\ UnchangedByTasks

\* DEL of the target's key; for an account the model keys are looked up next.
TaskDelete(k) ==
    /\ k.op = "delete"
    /\ key' = [key EXCEPT ![k.target] = "no"]
    /\ KeyChanged(k.target)
    /\ Becomes(k, IF k.target = Account THEN "scan" ELSE "unmark")
    /\ UNCHANGED <<index, inbox, clock, faults>> /\ UnchangedByTasks

\* SCAN of the model keys, then DEL of what it found.
TaskScan(k) ==
    /\ k.op = "scan"
    /\ LET found == {m \in Models : key[m] # "no"}
       IN  tasks' = (tasks \ {k}) \cup {[k EXCEPT !.op = "sweep", !.swept = found]}
    /\ UNCHANGED <<redis, inbox, clock, faults, fresh>> /\ UnchangedByTasks

TaskSweep(k) ==
    /\ k.op = "sweep"
    /\ key' = [t \in Targets |-> IF t \in k.swept THEN "no" ELSE key[t]]
    /\ Becomes(k, "unmark")
    /\ UNCHANGED <<index, inbox, clock, faults, fresh>> /\ UnchangedByTasks

\* _index_unmark_account (SMEMBERS and SREM taken together), _index_unmark_model.
TaskUnmark(k) ==
    /\ k.op = "unmark"
    /\ index' = IF k.target = Account THEN {} ELSE index \ {k.target}
    /\ Ends(k)
    /\ UNCHANGED <<key, inbox, clock, faults, fresh>> /\ UnchangedByTasks

\* publish takes the time as version; PUBLISH is a command of its own.
TaskStamp(k) ==
    /\ k.op = "publish"
    /\ clock' = clock + 1
    /\ tasks' = (tasks \ {k}) \cup {[k EXCEPT !.op = "send", !.version = clock + 1]}
    /\ UNCHANGED <<redis, inbox, faults, fresh>> /\ UnchangedByTasks

TaskSend(k) ==
    /\ k.op = "send"
    /\ inbox' = [i \in Instances |-> Append(inbox[i],
                    [target |-> k.target, cleared |-> k.cleared, version |-> k.version])]
    /\ Ends(k)
    /\ UNCHANGED <<redis, clock, faults, fresh>> /\ UnchangedByTasks

\* A command raises: what is left of a write is skipped, clearing goes on with
\* its next part, a publication is lost.
TaskFails(k) ==
    /\ Within(0, 0, 1) /\ faults' = faults + 1
    /\ CASE k.op \in {"set", "mark", "setThenPublish", "markThenPublish"} -> 
                AfterSet(k)
         [] k.op = "delete" -> Becomes(k, IF k.target = Account THEN "scan" ELSE "unmark")
         [] k.op \in {"scan", "sweep"} -> Becomes(k, "unmark")
         [] k.op \in {"unmark", "publish", "send"} -> Ends(k)
    /\ UNCHANGED <<redis, inbox, clock, fresh>> /\ UnchangedByTasks

RunTask(k) == \/ TaskSet(k) \/ TaskMark(k) \/ TaskDelete(k) \/ TaskScan(k)
              \/ TaskSweep(k) \/ TaskUnmark(k) \/ TaskStamp(k) \/ TaskSend(k)

-----------------------------------------------------------------------------
(* Events *)

UnchangedByEvents ==
    UNCHANGED <<redis, tasks, restoring, clock, freezes, clears, scopes, due>>

\* _dispatch: an event that is not newer than the last one of its name.
Outdated(i, e) == e.version <= seen[i]

\* _dispatch and the first half of _on_cooldown_event.  The model-level clear
\* needs nothing from Redis; every other event reads the key.
Receive(i) ==
    /\ handling[i] = Idle /\ inbox[i] # <<>>
    /\ LET e == Head(inbox[i])
           direct == e.cleared /\ e.target \in Models
       IN  /\ inbox' = [inbox EXCEPT ![i] = Tail(@)]
           /\ seen' = [seen EXCEPT ![i] = IF Outdated(i, e) THEN @ ELSE e.version]
           /\ handling' = [handling EXCEPT ![i] =
                IF Outdated(i, e) \/ direct THEN Idle
                ELSE [op |-> "read", target |-> e.target, value |-> "no"]]
           /\ IF ~Outdated(i, e) /\ direct
              THEN frozen' = Unfreeze(i, e.target) /\ Undo(i, {e.target}, "cleared")
              ELSE UNCHANGED <<frozen, undone>>
    /\ UNCHANGED <<faults, fresh>> /\ UnchangedByEvents

\* get_account_cooldown_info, get_account_model_cooldown_info: an error reads
\* like an absent key.
Read(i) ==
    /\ handling[i].op = "read"
    /\ \E ok \in BOOLEAN :
          /\ ok \/ Within(0, 0, 1)
          /\ faults' = IF ok THEN faults ELSE faults + 1
          /\ LET t == handling[i].target
             IN  /\ handling' = [handling EXCEPT ![i] =
                       [op |-> "apply", target |-> t, value |-> IF ok THEN key[t] ELSE "no"]]
                 /\ fresh' = IF t # Account THEN fresh
                             ELSE IF ok THEN fresh \cup {i} ELSE fresh \ {i}
    /\ UNCHANGED <<frozen, inbox, seen, undone>> /\ UnchangedByEvents

\* Mutant: a model key that is absent clears the mirror as well.
AppliedClearing(i, t, v) ==
    IF v = "no" THEN Unfreeze(i, t) ELSE [frozen EXCEPT ![i][t] = v]

\* The second half of _on_cooldown_event: apply_cooldown_event when the key was
\* there, else the account is unfrozen and a model left as it is.
Applied(i, t, v) ==
    IF v # "no" THEN [frozen EXCEPT ![i][t] = v]
    ELSE IF t = Account THEN Unfreeze(i, Account) ELSE frozen

\* What the instance is told of its models by that.
Told(i, t, v) ==
    IF v = "temp" THEN Undo(i, {t}, "temporary")
    ELSE IF v = "no" /\ t = Account THEN Undo(i, Models, "accountRead") ELSE UNCHANGED undone

\* Mutant: a permanent freeze is taken for an expired one.
ApplyTempOnly(i) ==
    /\ handling[i].op = "apply"
    /\ LET t == handling[i].target
           v == handling[i].value
       IN  /\ frozen' = IF v = "perm" THEN frozen ELSE Applied(i, t, v)
           /\ Told(i, t, v)
    /\ handling' = [handling EXCEPT ![i] = Idle]
    /\ UNCHANGED <<inbox, seen, faults, fresh>> /\ UnchangedByEvents

Apply(i) ==
    /\ handling[i].op = "apply"
    /\ LET t == handling[i].target
           v == handling[i].value
       IN  /\ frozen' = Applied(i, t, v)
           /\ Told(i, t, v)
    /\ handling' = [handling EXCEPT ![i] = Idle]
    /\ UNCHANGED <<inbox, seen, faults, fresh>> /\ UnchangedByEvents

\* The subscription breaks; what is published until it is back is lost.
Disconnect(i) ==
    /\ Within(0, 0, 1) /\ faults' = faults + 1
    /\ inbox[i] # <<>> /\ inbox' = [inbox EXCEPT ![i] = <<>>]
    /\ UNCHANGED <<frozen, handling, seen, undone, fresh>> /\ UnchangedByEvents

-----------------------------------------------------------------------------
(* Restart and expiry *)

\* The process is replaced: its mirror, tasks and subscription are gone.  It
\* subscribes before it restores.
Restart(i) ==
    /\ Within(0, 0, 1) /\ faults' = faults + 1
    /\ frozen' = [frozen EXCEPT ![i] = Unfrozen]
    /\ tasks' = {k \in tasks : k.at # i}
    /\ inbox' = [inbox EXCEPT ![i] = <<>>]
    /\ handling' = [handling EXCEPT ![i] = Idle]
    /\ seen' = [seen EXCEPT ![i] = 0]
    /\ restoring' = [restoring EXCEPT ![i] = [op |-> "account"]]
    /\ due' = [due EXCEPT ![i] = {}] /\ undone' = [undone EXCEPT ![i] = {}]
    /\ fresh' = fresh \ {i}
    /\ UNCHANGED <<redis, clock, freezes, clears, scopes>>

\* restore_cooldowns, the account: an absent key, or an error, changes nothing.
RestoreReadAccount(i) ==
    /\ restoring[i].op = "account"
    /\ \E ok \in BOOLEAN :
          /\ ok \/ Within(0, 0, 1)
          /\ faults' = IF ok THEN faults ELSE faults + 1
          /\ restoring' = [restoring EXCEPT ![i] =
                [op |-> "applyAccount", value |-> IF ok THEN key[Account] ELSE "no"]]
    /\ UNCHANGED <<frozen, redis, tasks, inbox, handling, seen, clock, freezes,
                   clears, scopes, due, undone, fresh>>

RestoreApplyAccount(i) ==
    /\ restoring[i].op = "applyAccount"
    /\ frozen' = IF restoring[i].value = "no" THEN frozen
                 ELSE [frozen EXCEPT ![i][Account] = restoring[i].value]
    /\ restoring' = [restoring EXCEPT ![i] = [op |-> "models"]]
    /\ fresh' = fresh \ {i}
    /\ UNCHANGED <<redis, tasks, inbox, handling, seen, clock, counters, due, undone>>

\* batch_get_provider_model_cooldowns: SMEMBERS of the index and TTL of its
\* members; the members without a key are removed from the index afterwards.
RestoreReadModels(i) ==
    /\ restoring[i].op = "models"
    /\ restoring' = [restoring EXCEPT ![i] =
            [op |-> "applyModels", value |-> [m \in index |-> key[m]]]]
    /\ UNCHANGED <<frozen, redis, tasks, inbox, handling, seen, clock, counters, due, undone,
                   fresh>>

RestoreApplyModels(i) ==
    /\ restoring[i].op = "applyModels"
    /\ LET v == restoring[i].value
           stale == {m \in DOMAIN v : v[m] = "no"}
       IN  /\ index' = index \ stale
           /\ frozen' = [frozen EXCEPT ![i] = [t \in Targets |->
                            IF t \in DOMAIN v \ stale THEN v[t] ELSE @[t]]]
           /\ Undo(i, {m \in DOMAIN v : v[m] = "temp"}, "temporary")
    /\ restoring' = [restoring EXCEPT ![i] = Idle]
    /\ UNCHANGED <<key, tasks, inbox, handling, seen, clock, counters, due, fresh>>

\* A temporary freeze ends in a mirror, and in Redis; the periods need not
\* have begun together.
Expire(i, t) ==
    /\ frozen[i][t] = "temp"
    /\ frozen' = [frozen EXCEPT ![i][t] = "no"]
    /\ UNCHANGED <<redis, tasks, inbox, handling, seen, restoring, clock, counters,
                   due, undone, fresh>>

ExpireKey(t) ==
    /\ key[t] = "temp"
    /\ key' = [key EXCEPT ![t] = "no"]
    /\ KeyChanged(t)
    /\ UNCHANGED <<frozen, index, tasks, inbox, handling, seen, restoring, clock,
                   counters, due, undone>>

-----------------------------------------------------------------------------
(* The specification *)

Init ==
    /\ frozen = [i \in Instances |-> Unfrozen]
    /\ key = Unfrozen /\ index = {} /\ tasks = {}
    /\ inbox = [i \in Instances |-> <<>>]
    /\ handling = [i \in Instances |-> Idle]
    /\ seen = [i \in Instances |-> 0]
    /\ restoring = [i \in Instances |-> Idle]
    /\ clock = 0 /\ freezes = 0 /\ clears = 0 /\ faults = 0
    /\ scopes \in Policies
    /\ due = [i \in Instances |-> {}] /\ undone = [i \in Instances |-> {}]
    /\ fresh = {}

Handler(i) == Receive(i) \/ Read(i) \/ Apply(i)

Restore(i) == \/ RestoreReadAccount(i) \/ RestoreApplyAccount(i)
              \/ RestoreReadModels(i) \/ RestoreApplyModels(i)

Operation(i) ==
    \/ \E t \in Freezable, v \in Periods, refresh \in BOOLEAN : Freeze(i, t, v, refresh)
    \/ \E refresh \in BOOLEAN : MarkCooldown(i, refresh)
    \/ \E m \in Models : ClearOnSuccess(i, m) \/ Prune(i, m)
    \/ AdminClear(i)

Next ==
    \/ \E i \in Instances :
          \/ Operation(i) \/ Handler(i) \/ Restore(i) \/ Restart(i) \/ Disconnect(i)
          \/ \E t \in Targets : Expire(i, t)
    \/ \E k \in tasks : RunTask(k) \/ TaskFails(k)
    \/ \E t \in Targets : ExpireKey(t)

Spec == Init /\ [][Next]_vars

-----------------------------------------------------------------------------
(* Properties *)

\* A model an instance froze for good stays frozen there until an operation
\* unfreezes it or the process is replaced: the instance's own late events, read
\* before or after the write, never undo it (the comment in _on_cooldown_event on
\* keys that are not found).  What does undo it is named: a temporary freeze of
\* another instance that an event or a restoration reads; an unfreezing event that
\* was under way when the model was frozen; and, only where accounts are frozen as
\* well, the event of an account whose key is not found, because its write is
\* later than the event, has failed or has expired: that clears all models.
ModelFreezeHeld ==
    \A i \in Instances : \A m \in due[i] :
        \/ frozen[i][m] = "perm"
        \/ <<m, "temporary">> \in undone[i]
        \/ <<m, "cleared">> \in undone[i]
        \/ <<m, "accountRead">> \in undone[i] /\ "account" \in scopes

\* An event repairs: whatever was lost, dropped or raced before, an instance
\* that has read the account's key since it last changed and has not acted
\* itself knows whether the account is frozen for good.
RepairedByRead ==
    \A i \in fresh : handling[i] = Idle /\ restoring[i] = Idle =>
        (frozen[i][Account] = "perm" <=> key[Account] = "perm")

=============================================================================
