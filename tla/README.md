# ai-lubricant: TLA+ models of the gateway and its workers

ai-lubricant is an LLM gateway with an agent platform around it. A chat request is
routed to one of many upstream accounts; before it is sent, the gateway *reserves* the
account in Redis, which every gateway process shares; afterwards the reservation is
settled or rolled back. Around this core there are background writers, mirrors of shared
state that follow events, work queues, workflow runs and streams of events to clients.
This directory models the parts in which several actors, failures or the passing of time
meet; it checks them with TLC and proves with TLAPS, for every value of the constants, the
safety of the account reservation (slots and ledgers), of the request's way through its
candidates, of the selection of accounts, of the limiter of API keys, of freezes and of the
reconciliation of accounts, of the payload queue, of the two work queues, and of workflow runs
and their cron jobs.

## 1. Inventory

| Component | Sources | State | Operations | Hard behaviour | Module |
|---|---|---|---|---|---|
| Account reservation scripts | `limits/backend.py` | ZSET of leases, ledger HASHes per metric and window, freeze keys, recovery index and meta, heartbeat keys | reserve, rollback, reconcile, finalize, renew, release, reap | two processes at the last slot; window ends; key expiry; late and repeated commands | `AccountReservation` |
| Limit manager | `limits/manager.py`, `limits/rules.py` | `_active_leases`, `LimitLease` flags, clean-up, retry and renewal tasks | acquire, settle, rollback, release, renew, heartbeat, shutdown | deadlines, cancellation at every await, retries of what was already done, crash | `AccountReservation` |
| Candidate reservation handle | `server/request_reservations.py` | idempotency flags of one attempt | commit, keep served usage, rollback, release | exceptions that are not `Exception` | `AccountReservation`, `ChatAttempts` |
| Chat retry loop | `main.py`, `server/retry_policy.py` | tried accounts, attempts, whether output has begun | attempt, classify failure, retry the account, change the account, change the group | disconnect between output and settlement | `ChatAttempts` |
| Candidate selection | `server/rate_limiter.py` | candidate lists, flags of the shared `AccountClient` | select, reserve, record, resend | flags on shared objects read after an await | `CandidateSelection` |
| Freeze state between processes | `limits/backend.py`, `server/rate_limiter.py`, `server/runtime_sync.py`, `server/runtime_handlers.py` | cooldown keys, their index, mirrors, last seen versions | freeze, unfreeze, broadcast, receive, restore | broadcast before the write, lost and reordered events | `FreezeState` |
| Account pools | `server/config_store.py`, `server/config.py`, `server/admin.py`, `server/runtime_handlers.py`, `server/runtime_sync.py` | table, Redis cache, snapshot and pool of every process | add, change, delete, rotate a token, handle an event, reconcile | reads before an await used after it; lost events | `AccountSync` |
| API key limiter | `server/rate_limiter.py`, `limits/backend.py`, `main.py` | windows and slots in Redis, blocks in every process | acquire, recheck, count tokens, release, block | window ends, events that come late, lost answers | `KeyLimiter` |
| Request log writer | `server/request_log_writer.py`, `server/db.py` | bounded buffer, rows | enqueue, flush, shed, reconcile, stop | full buffer, errors that hide a success | `RequestLogWriter` |
| Request payload writer | `server/request_payload_writer.py` | bounded queue | enqueue, flush, stop | full queue, lost wake-ups, stop | `PayloadWriter` |
| Webhook reviews | `user_platform/webhook_review_worker.py`, `review_node_service.py`, ... | event rows, leases, reviews at work | deliver, dispatch, retry, complete, recover | restart between claim and dispatch, leases that nobody returns | `ReviewQueue` |
| Task messages | `user_platform/task_service.py`, `task_runtime_worker.py`, `message_status_machine.py` | message row, frames, turns | send, claim, retry, acknowledge, recover | lost and late answers, competing senders | `TurnDelivery` |
| Workflow runs | `agent/workflow_service.py`, `agent/workflow_store.py` | run rows, tasks | start, finish, cancel, recover | crash, a second process | `WorkflowRuns` |
| Workflow graph | `agent/workflow.py` | scopes, results | run a layer, a node, a loop | nested loops, failures in a part | `WorkflowGraph` |
| Workflow schedule | `agent/workflow_scheduler.py`, `agent/api.py` | rows, jobs | save, reload, delete | reads before an await | `WorkflowSchedule` |
| Conversation events | `agent/conversation_hub.py`, `agent/api.py` | queue of a subscriber | publish, drop, reset, read again | full queue | `ConversationHub` |
| Catalogue, protocol conversion, administration pages, MCP, testing platform, desktop | see `PROJECT.json` | | | outside, see section 9 | |

How they interact: the retry loop (`ChatAttempts`) asks the selection
(`CandidateSelection`) for a candidate; the selection calls
`LimitManager.acquire_account`, which runs the reserve script (`AccountReservation`).
The lease that comes back is wrapped in a `CandidateReservation`, and the retry loop ends
it by commit, rollback and release. The loop also holds a reservation of the API key
(`KeyLimiter`), and hands started and final events to the log writers. Freezes and blocks
are mirrored in every process and announced over publish/subscribe (`FreezeState`,
`KeyLimiter`), and so are changes of accounts (`AccountSync`). The platform's workers
(`ReviewQueue`, `TurnDelivery`, `WorkflowRuns`) share only the database with each other;
a workflow run executes a graph (`WorkflowGraph`) and is started by the schedule
(`WorkflowSchedule`).

What makes the system correct:

* never more requests in service on an account, or on a key, than its limit;
* request counts within their limits, as long as nobody lifts the freeze of a full window;
* ledgers that are exact: the total of a window is the sum of what is in it, a
  failed request is out of it, a served request stays in it;
* every candidate ended exactly once, no replay of output, no penalty for the innocent;
* nothing that a crash, a timeout or a cancellation leaves behind stays for ever;
* mirrors that follow the shared state, queues that lose nothing silently, work that is
  done once and comes to an end.

## 2. Modules

| Module | Content |
|---|---|
| `AccountReservation` | the scripts, the limit manager and the end of a request, for one account |
| `AccountSlots` | what it promises about the slots: a set of holders within a capacity; `AccountReservation` implements it (`ImplementsSlots`) |
| `AccountReservationProofs` | theorems about the account's types, leases and slots, then about its ledgers, with lemmas about sums over finite sets |
| `KeyLimiterProofs`, `ReviewQueueProofs`, `TurnDeliveryProofs` | theorems about the module of that name |
| `RequestProofs` | theorems about `ChatAttempts` and, as `Selection!...`, about `CandidateSelection` |
| `QueueProofs` | theorems about `RequestLogWriter` and, as `Payload!...` and `Hub!...`, about `PayloadWriter` and `ConversationHub`, with lemmas about `Only` |
| `RuntimeSyncProofs` | theorems about `FreezeState` and, as `Sync!...`, about `AccountSync` |
| `WorkflowProofs` | theorems about `WorkflowRuns` and, as `Schedule!...`, about `WorkflowSchedule` |
| `ChatAttempts`, `CandidateSelection` | one request from resolution to its end; the requests of a process that choose accounts |
| `FreezeState`, `AccountSync`, `KeyLimiter` | state in Redis or the database that processes mirror |
| `RequestLogWriter`, `PayloadWriter` | the two background writers |
| `ReviewQueue`, `TurnDelivery` | the two work queues of the user platform |
| `WorkflowRuns`, `WorkflowGraph`, `WorkflowSchedule` | the workflow engine |
| `ConversationHub` | the fan-out of events to a client |
| `Subsequences` | `Only`: what is left of a queue when all but some of its elements are dropped |
| `MCRequest`, `MCQueues`, `MCWorkflow`, `MCRuntimeSync` | modules that are explored side by side (section 3) |
| the other `MC...` | constants for TLC |

A step of every model ends where the code awaits, because only there another coroutine
of the process can run; a Lua script, a single SQL statement and a Redis command are one
step each. Every model is of one object (one account, one message, one workflow ...)
unless the interplay of several is the question.

### 2.1 AccountReservation

#### State

| Variable | In the code |
|---|---|
| `conc` | the ZSET of the account's leases, member -> score (expiry); 0 stands for no member |
| `entry`, `total`, `expiry` | the ledger HASHes: an id's amount per metric, `__total` per metric and window, expiry of the key |
| `index`, `meta` | `limit:reservation:v1:active` and the meta HASH of an id |
| `acctFreeze`, `modelFreeze` | expiry of the account's cooldown key and of the model's token freeze |
| `heartbeat` | expiry of a process's heartbeat key |
| `net` | commands whose caller waits or has given up |
| `pc` | where the request is: idle, reserving, held, closing, done, denied, cancelled, dead |
| `at` | the time at which its reserve command was built; it fixes the windows |
| `settled`, `rolledBack`, `fallback`, `lease`, `active` | the `LimitLease` flags, `expires_at`, `_active_leases` |
| `task` | the background task of an id: `undo` and `free` are the two parts of `_cleanup_failed_reservation`, `retry` is `_retry_ledger_rollback` |
| `scan`, `doomed` | what a reaper has read and not yet handled |
| `faults`, `lapsed`, `acked`, `cut`, `thawed`, `lifts` | bookkeeping of the model: calls given up, processes whose heartbeat was once absent, rollbacks that were answered, settlements that were cancelled, requests whose success has sent for the end of the freeze, how often the account's freeze ended or was shortened before its time |

#### Actions

One action per step between two awaits of the code. A Lua script is one step.

* `Acquire`, then `ReserveAnswered` / `ReserveUncertain` / `ReserveCancelled`:
  `acquire_account`. An uncertain reserve is refused and cleaned up when the account
  has a concurrency limit, and goes on with a local lease when it has none.
* `Settle`, `Rollback`, `Release`: the manager's methods of the same names, answered
  or given up. `SettleCut`, `RollbackCut`: the task is cancelled at the await inside.
* `Cooldown`: `set_account_cooldown` by a request in flight. `Succeed`: the success of one,
  which starts the deletion of the account's freeze key (`clear_runtime_freeze_on_success`);
  the deletion is a command like the others and may be late or lost.
* `CleanupLedger`, `CleanupLease`, `RetryRollback`, `Renew`, `Heartbeat`: background tasks.
* `ReapScan`, `ReapCheck`, `ReapRollback`: the reaper, with a step between reading the
  index, reading a heartbeat and rolling back.
* `Crash`, `Shutdown`: a process ends; a restarted process is another one, as its
  boot id is new.
* `Land`, `Lose`: a command nobody waits for reaches Redis or does not.
* `Tick`: time passes and keys expire.

#### Abstractions

* One account and one model. Different accounts share only the model's token window,
  whose other users do not appear.
* One clock. Scores use the caller's clock (`at`), as in the code; clocks of different
  machines are taken to agree.
* A given-up command lands within one time unit or never (redis-py cancels its
  socket operation; what is in the socket buffer is read promptly).
* The in-process freeze mirrors, the degraded-routing shortcut and the freeze key of
  an account's model only refuse a request earlier; the model lets it go to the script.
* An account without any limit never calls Redis; the model starts where it does.
* `finalize_reservation` is two commands (SREM, DEL) without a condition; they are one
  step. `reconcile` and `rollback` remove both in their script, so the finalize that
  follows them changes nothing and is left out.
* The EXPIRE of the whole ZSET is left out: it is never shorter than the scores in it.
* The permanent freeze (no TTL) and the listing index of cooldowns are in `FreezeState`.
* The token estimate is one constant for all requests. In the runs it is 0, which is what
  every reservation of the code has (section 5): token ledgers are then never created, and
  nothing is claimed of them but what holds of all ledgers. The theorems hold for any estimate.

`LivesAssumption` says what the code's lengths are among each other: a ledger outlives its
window (`_RESERVATION_GRACE = 60`, `backend.py:829`) and the meta hash lives as long as the
longest ledger (`backend.py:792`). Without the grace the ledgers are not exact: a reserve
command that lands just after the end of its window would create the ledger anew, without
the requests that were served in it.


### 2.2 AccountSlots

The promise of the account to its callers, in two variables: `holders`, the requests that
occupy a slot, and `serving`, those of them that are being served. `Grant` gives a slot when
there is room below `Capacity` once slots that nobody is served on are reclaimed; `Resume`
lets a holder go on whose lease had run out; `Drop` takes slots from requests that are not
in service, and ends service. `ImplementsSlots` maps `holders` to the members of the ZSET
and `serving` to the unexpired leases of all processes (`Serving`).

### 2.3 ChatAttempts

State: the request's `mode` (stream, buffered, normal/test/probe), the catalogue (`backup`),
the position of the two generators (`pc`, `next`), the counters of the loops (`outer`,
`inner`, `limit`, `reuse`, `tried`), the candidate with its handle and its flags (`cand`,
`account`, `handle`, `sent`, `logged`), and what the world has of every candidate: `slot`,
`ledger`, `started`, `finals`, `penalised`, `answered`, `calls`.
Actions follow `_run_group_fallback_pipeline` and `_chat_with_retry_for_model`: resolve and
fall back, recheck the key, select, prepare, call with every classified outcome of
`retry_policy`, flush, commit, keep the usage of a stream that broke off, the `finally`
clause, and a cancellation at every wait, those of the `finally` clause too (`CutFinally`: the
rollback and the release may or may not have reached Redis). `penalised` stands for freezes and
cooldowns; the statistics of `record_channel_failure` (`main.py:3024`), which only weigh in the
next selection, are not counted. Left out: parsing of upstream errors (their class
is a free choice), the body that is sent. A provider that streams gives a chunk or fails.

### 2.4 CandidateSelection

State: per request the lists, the position and the remaining candidates of
`_select_and_reserve_candidates`; per account the fields of the shared `AccountClient`
(`isTest`, `lastRoute`, `inFlight`), its slots, and the requests on the two ledgers; `pending`
and `strays` are the scripts that nobody waits for any more and the slots they took, which the
other requests find occupied until the clean-up (`Land`, `CleanUp`). Actions: collect a list, pick, the answers of a reservation (granted, refused with every
reason, unanswered), record, break off, resend, finish. The strategy's scoring, affinity and
health statistics are a free choice of candidate. The account lock is never held across an
await and is therefore not a variable.

### 2.5 FreezeState

State: the mirror of every instance, the Redis keys and their index, the asyncio tasks under
way, the subscription, the event being handled with what was read, `_last_version`, and the
restoration after a restart. Each Redis command, publication and read is a step of its own.
Actions: freeze (account, model, with refresh), mark a cooldown, clear on success, clear by
an administrator, prune; the steps of the tasks and their failure; receive, read, apply;
restart, restore, break of the subscription, expiry. `due` leaves out a freeze that a
"cleared" event under way may undo: the code applies it although the freeze is newer.
`undone` notes why a mirror lost a model it had frozen for good.

### 2.6 AccountSync

State: the table, the Redis cache of the channel, the snapshot and the pool of every
instance, the writes under way, the subscription with its handler, the reconciler. A row is
a token and a setting. Actions are the steps between awaits of `add_account`,
`apply_account_update`, `persist_account_fields`, the deletion, `_on_account_event` and
`_reconcile_providers`, with the expiry of the cache, a broken subscription and a failing
read. A rename deletes the old row, with its event and its place in the pool, and then writes
the new one. Every instance writes at most once in a behaviour; whole channels are neither added
nor removed (the reconciler does neither).

### 2.7 KeyLimiter

State: windows and slots in Redis (`win`, `slots`), the blocks of every process, events
under way, and the position of every request from taking a slot to its release. A count
stops one above its limit. Actions: take a slot, count a window, an attempt with
`_recheck_api_key_state`, the call, counting tokens, release, send and hear an event, a lost
answer, a cancelled handler, a restart, the clock. No handler passes a client address
(`main.py:1386`), so the sets of addresses are not modelled. `LongCalls = FALSE` assumes
that a request is shorter than its slot (one hour). `age` is the time since the limiter read
the clock for a request, by which a block it sets is too short; `MaxAge`, up to which it is
counted, is at least as long as every window.

### 2.8 RequestLogWriter, PayloadWriter, ConversationHub

Three bounded queues that never make their producer wait. `RequestLogWriter`: the buffer of
events and states with its pressure levels, the rows of `request_logs`, the worker with a
step per statement and callback, errors that may hide a success, the reconciliation of
another process (`db.py:9311`), stop. `PayloadWriter`: the queue, the wake-up flag, the
task with and without a client, stop with its time limit. `ConversationHub`: the queue of
one subscriber, overflow, throttled resets, the snapshot of the event stream; the history
holds every event, and other subscribers have queues of their own.

### 2.9 ReviewQueue, TurnDelivery

`ReviewQueue`: rows, leases and reviews, the worker with a step wherever another actor can
change what it has read, deliveries (repeated ones change nothing), completion and death of a
review, the deletion of its task, which frees the lease whether or not the node stopped it, disabling a webhook, a restart, and writes that fail. `create_task` answers
with a running task or an error. `TurnDelivery`: the row of one message, its senders, the
task of a deferred create and the recovery worker, each read and each conditional update a
step; frames, answers and acknowledgements are external and may be lost, late, repeated or
reordered. Of the texts only one thing is modelled: whether the task has one (`content`), and
whether it is that of the message. Without one the recovery worker does nothing, and otherwise
it sends the task's text, whoever wrote the pending row (`foreign`). The worker is taken to
scan the task and to reach its node. A refused send writes `failed` once; the second, equal
write in the handler of `ValueError` changes nothing.

### 2.10 WorkflowRuns, WorkflowGraph, WorkflowSchedule

`WorkflowRuns`: rows and tasks of runs; a graph is only the way it ends. The scheduler is
started before the recovery (`main.py:663`, `:674`), so triggers may come early; `early`
holds the runs to which that happened, and `taken` those whose row another process has read
when it started (`recover_interrupted_runs` asks neither whose a row is nor whether it is at work). `WorkflowGraph`: a run over layers, loops and scopes
with one semaphore per loop; executors and predicates answer freely, edges lead from a lower
to a higher id (a cycle is refused before). `WorkflowSchedule`: the rows of one workflow
family, its jobs, and the requests that change both with waits in between, in any overlap and by
the id of any row. `amiss` holds the requests that another one has overtaken: those under way
when the rows changed, and a delete by an old row. A reload that nothing has overtaken empties it.

## 3. Runs

| Run | Question | Instance | Distinct states |
|---|---|---|---|
| `leases` | is a slot ever given twice, or to someone it was taken from? | 3 requests (one a probe), 2 processes, 1 slot, leases of 2 units, clock to 2, 1 fault, 2 clean-up attempts | 1.30 M |
| `ledgers` | do the ledgers stay exact and recoverable? | 2 requests, 2 processes, a day and a minute metric, 1 fault, heartbeats that lapse | 1.64 M |
| `limits` | do counts stay within the limits? | 2 requests, a day of 5 minutes, 1 request a minute and 1 a day, successes, a cooldown of one unit, 1 fault | 2.27 M |
| `recovery` | is everything left behind reclaimed? | 2 requests, 2 processes, leases and heartbeats of 1 unit | 0.15 M |
| `request` | is every candidate ended once and truthfully? | 2 groups (also in a cycle), 2 accounts, 3 attempts with 2 requests each, 2 cancellations, 1 change of the catalogue; 2 requests choosing from 2 lists, 1 slot | 1.34 M |
| `freeze` | does a mirror lose or keep a freeze wrongly? | 2 instances, 1 model; two freezes, or one with an unfreezing, and one fault; with the account frozen too, one of these less | 3.12 M |
| `sync` | do pools follow the table? | 2 instances; two overlapping writes of an account, one of any kind with a fault, or a rename | 1.39 M |
| `key` | are slots and blocks of a key right? | 2 requests, 2 processes, a request and a token window, 1 slot, 1 mishap | 0.51 M |
| `queues` | do the bounded queues lose or repeat anything silently? | 2 attempts in a buffer of 3 with 2 errors; 5 payloads in a queue of 3; 5 events for a queue of 2 | 0.20 M |
| `review` | are slots, caps and attempts kept? | 2 events of one branch, 1 or 2 projects, 2 nodes with a slot, 2 attempts, 1 restart, 1 failing write | 3.48 M |
| `turn` | does the row tell the truth, is a message run once? | every pair of 4 actors (two senders, the creation, the recovery) in 2 processes with 2 mishaps, and three of them without mishaps; 3 attempts; a task with the text, another text or none | 0.79 M |
| `workflow` | do rows, statuses and jobs say what is the case? | 2 processes, 3 starts and crashes, 4 rows, 1 fault; all graphs of 3 nodes with a loop, some with two, one inside the other or side by side, also with a node in both; 3 of 2 saves, 2 deletes, a refresh and a reload, 2 triggers | 2.14 M |

`MCRequest`, `MCQueues` and `MCWorkflow` put modules that share no state side by side: a
behaviour chooses one of them with `part`, and the others stay in an initial state. Nothing
is composed by it; it is one run instead of three. `MCRuntimeSync` does the same for
`FreezeState` and `AccountSync`, with a run and a specification for each. The proof modules
extend these modules, so that a theorem names the very definition that a run checks. The
composition that matters, that of scripts, manager, background tasks and request, is
`AccountReservation` itself.

What they show. Invariants with several parts are conjunctions of named parts, each with
its own comment in its module.

* `leases`: the ZSET never holds more than the limit (`ConcurrencyWithinLimit`), a lease a
  process believes in is in it (`LeaseBacked`), so no more requests are in service than
  allowed (`ServingWithinLimit`); what was released is not taken again under its id
  (`ReleasedStaysOut`); all of it implements `AccountSlots` (`ImplementsSlots`).
* `ledgers`: `TypeOK` (no script makes an amount negative), `LedgersExact` (totals are sums,
  an answered rollback is final, a served request keeps its count while its process is
  alive), `UnsettledIsRecoverable`.
* `limits`: `RequestCap`: a window holds no more requests than its limit, and one more for every
  time the freeze was lifted by a success or shortened (`lifts`). The limit is enforced by that
  freeze alone, so this is what the code gives, not what it promises (section 5).
* `recovery`: `SlotReclaimed`, `OrphanReaped`.
* `request`: `CandidatesApart` (one slot, one final entry per log row, charges and penalties
  for those who earned them, a bounded number of upstream requests), `CleanEnd` (slots,
  ledger and log when the request is over, with the cancelled candidate excepted by name),
  `NoReplay`, `SelectionExact` (slots are those of the holders, every refusal shortens the
  list, and scripts that were not answered take one slot per request at most),
  `SharedAccount` (marks and parameters on the shared account object), `Terminates`.
* `freeze`: `ModelFreezeHeld` (with the three ways in which the code loses a model's freeze
  excepted by name; the first of them, an account event that finds no key, needs a policy that
  freezes accounts), `RepairedByRead`.
* `sync`: `RemovesOnlyDeleted`, `PoolsConverge`.
* `key`: `SlotsExact`, `BlockedWhileFull`, `KeyEnds`.
* `queues`: `LogExact`, `QueueExact`, `FeedExact`, and `Arrives` (outcomes are written,
  payloads dealt with, stops return, clients catch up).
* `review`: `SlotsKept` (reviews of deleted tasks excepted), `DispatchedOnce`. No liveness: a leaked lease may block the queue.
* `turn`: `RowExact`, `OneTurn`, `Delivered` (where the task has a text).
* `workflow`: `RunsExact` (runs that a process took from another one excepted), `GraphExact`
  (of the overall status of a run it says nothing), `SourcesSettled`, `RunFinishes`, `JobsExact`
  (the time from a crossing of requests to the next undisturbed reload excepted).

Deadlock is checked in `review` only: elsewhere requests end, clocks and bounds end, and
then there is nothing left to do.

### Bounds and why they are enough

* One fault, restart or mishap per behaviour (two in `queues`, `turn`, and cancellations
  in `request`) gives a command, event or answer that comes before or after every
  other step; every sequence of section 5 needs no more. The theorems hold for any number.
* Clocks (`Horizon`, `MaxTime`, window and slot lengths) are chosen so that a lease, a
  heartbeat, a slot or a window ends while its request is under way. In `AccountReservation`
  no request, renewal or crash begins after `Horizon`, and time goes on to `MaxTime`.
* Three requests are the least at which one is refused, one holds and one has just
  released; two suffice where scripts touch only their own id's amounts, and where one
  fills the window that the other must not enter. Two instances,
  processes or senders are the least that can disagree; a third would only repeat one of them.
* Queues of two or three with more events than room overflow more than once.
* Graphs of three nodes have a join, a branch, a loop with a node of its own and with a
  second way in, and a loop in a loop.
* Symmetry is used in `leases`, `limits` and `review`, which have no liveness property,
  between requests of one process, projects and nodes. `request` and `workflow` have one; there
  the module of the run leaves out starts that differ from others only by the names of
  requests or processes (`InOrder`, and the guards of `RunsNext` and `ScheduleNext`).

### Fairness

| Module | Assumed | Why the code gives it |
|---|---|---|
| `AccountReservation` | clock, network (a command lands or is lost), end of an awaited call, end of a request, release and background tasks, reaper | deadline of `routing_redis_call`, `finally` of the retry loop, event loop, periodic task that survives exceptions. Nothing of heartbeats, renewals, crashes or new requests |
| `ChatAttempts`, `CandidateSelection` | the request goes on | every wait has a time limit |
| `AccountSync` | writes, handlers and the reconciler go on | event loop and the loop of one minute. Nothing of the expiry of the cache |
| `KeyLimiter` | clock, handlers, sending and hearing | event loop; time limits upstream |
| `RequestLogWriter`, `PayloadWriter` | the worker, retries that become due, the end of `stop` | event loop; `wait_for`. Errors are finitely many: the sink recovers |
| `ConversationHub` | the client connects again, reads, and is not cut off for ever before its first frame (strong fairness of `Snapshot`) | the page reconnects by itself |
| `TurnDelivery` | the actors go on | event loop; time limits of the link. Nothing of the runtime |
| `WorkflowGraph` | tasks go on, executors answer | event loop; executors have time limits |

`FreezeState`, `ReviewQueue`, `WorkflowRuns` and `WorkflowSchedule` are checked for safety only.

## 4. Hazards

`PROJECT.json` lists the forty most important ones with their properties. Others the models
contain, or that the code has and no property covers:

* `limits/manager.py:708`: The settlement is not answered: the lease counts as settled although the ledger and the recovery index may be untouched. (`LedgersExact`)
* `limits/backend.py:1299`: The cooldown of a request that was in flight when the account was frozen to the end of the day overwrites that freeze with a shorter one. (`RequestCap` counts it, see section 5)
* `server/rate_limiter.py:6297`: The estimate computed before selection passes through several layers before it reaches the reserve script; a layer that drops it switches the token ledgers off. (not covered, see section 5)
* `server/request_log_writer.py:238`: An attempt is shed between its started and its finalized event; the second half comes back alone. (not covered, see section 5)
* `server/db.py:9311`: A starting process closes the rows of attempts that run longer than ten minutes elsewhere, while their writer inserts or finalizes them. (`LogExact`)
* `server/request_log_writer.py:312`: The keys the database returns are looked up again after the await; their states may have been dropped or merged meanwhile. (`LogExact`)
* `server/request_log_writer.py:302`: An outcome waits for the insert of its row, which waits for a retry time; after an outage everything not shed must still be written. (`Arrives`)
* `limits/backend.py:575`: The freeze test of the script is TTL > 0; a permanent freeze has no expiry and is only enforced by the mirror, which a restart or a lost broadcast can leave behind. (`RepairedByRead`)
* `server/rate_limiter.py:1567`: Unfreezing starts the deletion and the broadcast as two tasks; an event handled before the deletion freezes again. (not covered, see section 5)
* `limits/backend.py:1540`: Unfreezing deletes the key and then the index member, freezing sets the key and then the member; interleaved, the key stays without its member. (not covered, see section 5)
* `limits/backend.py:80`: Key and index are written by separate commands, each of which may fail and is not repeated; a read that fails looks like an absent key. (`ModelFreezeHeld`)
* `server/rate_limiter.py:1384`: An instance restores the account's freeze by a read that is applied after an await, while events for it already arrive. (`RepairedByRead`)
* `server/config.py:209`: Rows are read, merged over an await and written whole, by administrators and by token rotation, without a version or a lock. (not covered, see section 5)
* `server/runtime_handlers.py:318`: A lost delete event would leave a deleted account serving requests for ever unless the reconciliation removes it. (`PoolsConverge`)
* `main.py:5741`: inner_index and inner_limit outlive the candidate they count for; a failing selection is judged with them. (`CandidatesApart`)
* `server/rate_limiter.py:895`: The reservation is done in Redis and registered on the account object when the channel's record_message fails or the request is cancelled. (`SelectionExact`)
* `server/rate_limiter.py:6344`: A loop that reserves and removes candidates under contention, over several lists; a refusal that removes nothing would spin on Redis. (`SelectionExact`, `Terminates`)
* `server/request_payload_writer.py:98`: The queue is full and drops its oldest event while a batch is being inserted; nothing may be lost or counted twice. (`QueueExact`)
* `user_platform/webhook_review_worker.py:435`: Leases are deleted at boot while the reviews they belong to go on. (not covered, see section 5)
* `user_platform/webhook_review_worker.py:567`: The release of a lease or the write of a row fails after the other has happened. (`SlotsKept`, `DispatchedOnce`)
* `user_platform/webhook_review_worker.py:531`: Newer events of a branch arrive while older ones wait. (not covered, see section 5)
* `user_platform/webhook_review_worker.py:504`: One project at its cap, or one leaked lease, holds up the queue. (not covered, see section 5)
* `user_platform/task_service.py:3721`: Processes that do not share the send lock retry, claim and reclaim one row; each decides from a read that may be old. (`RowExact`)
* `user_platform/task_service.py:3641`: The send lock is held over every wait of the delivery; an early return, an error or a stale claim must not keep it. (`Delivered`)
* `user_platform/task_runtime_worker.py:158`: A message that a crash left pending belongs to a task without a text; the recovery worker returns at once. (`Delivered` excepts it, see section 5)
* `user_platform/task_runtime_worker.py:177`: The worker delivers the task's stored content for the oldest pending row, which after a crash may be the row of a later message. (modelled by `foreign`, no property; see section 5)
* `agent/workflow_service.py:450`: The outcome of a run cannot be written, or an error comes before or after the part that is caught; the row must not stay running. (`RunsExact`)
* `agent/workflow_service.py:453`: The hook reports an outcome that the row does not have, or that is replaced afterwards. (`RunsExact`)
* `agent/workflow.py:1143`: Loops in loops, loops side by side and loops with other ways in: which scheduler runs a node, and for which elements. (`GraphExact`)
* `agent/workflow.py:1272`: The number of executors at work when loops run beside other nodes. (`GraphExact`)
* `agent/workflow_scheduler.py:315`: A page saves or deletes by the id of an old row; the jobs are named by the latest row as it was read. (`JobsExact`)
* `agent/api.py:3697`: The definition is saved but the reload of the jobs fails, in the middle or at once. (`JobsExact`)
* `main.py:1421`: The block that a request sets when it reaches the limit is read again by its own attempts. (not covered, see section 5)
* `limits/backend.py:393`: A block event is handled after its window has ended and the next one has begun. (`BlockedWhileFull`)
* `limits/backend.py:1247`: A slot lasts an hour and is not renewed; the request may last longer. (`SlotsExact`)
* `agent/conversation_hub.py:120`: A client that does not read fills its queue; what is dropped, in which order the rest stays and what the client learns of it depends on the mix of frames. (`FeedExact`)
* `agent/api.py:2429`: The queue must be there before the history is read, or events between the two are lost. (`FeedExact`)
* `limits/manager.py:52`: The auxiliary-call gate answers with the default as soon as it is full; callers must not take the default for a real answer. (not modelled)

## 5. Where the code and its comments disagree

Found while modelling, each with a counterexample of TLC to a formula that says what the
comment says. Where a property of section 3 touches such a case, the exception is in its
formula, and its comment names it; the other cases are behaviours of the models that no
property of a run forbids, or need other constants.

| Where | What happens |
|---|---|
| `limits/manager.py:710` | reconcile_account_reservation sets lease.settled = True even when the script missed its deadline (result None), without finalizing and without a retry, so the served reservation stays in the recovery index. src/limits/backend.py:934 says of removal from the index "reconcile/rollback 终态后摘除索引与 meta（幂等）。崩溃恢复据此判断是否已结算。" (crash recovery tells by it whether the reservation was settled). When the process later ends, the reaper takes the served request out of the ledgers, against src/limits/manager.py:665 "请求数计数保持 1 不变（成功请求就该占 1 次）". |
| `server/request_reservations.py:148` | CandidateReservation.rollback awaits the ledger rollback under `except Exception`, which does not catch CancelledError: a cancellation at that await leaves the method before _release_concurrency (line 151), the lease stays in LimitManager._active_leases and its renewal task keeps the slot taken until the process ends. src/server/request_reservations.py:14 says "并发无论成功失败都释放" (concurrency is released on success and on failure). `CleanEnd` excepts the candidate. |
| `server/rate_limiter.py:1566` | the success of a request, also of the very one that reached the limit, deletes limit:cooldown:{provider}:{username}, the key with which the reserve script froze the account to the end of the window, and the script compares no count: the next request is admitted past the limit. src/server/rate_limiter.py:795 says "每账号每日请求上限（触线即冻结到当天结束）" (frozen to the end of the day once the limit is reached). `RequestCap` counts these deletions. |
| `limits/backend.py:1299` | set_account_cooldown writes the account's freeze key with SET ... EX whatever is there. A request still in flight when the daily limit is reached, and failing afterwards, replaces the freeze to the end of the day by a short cooldown, and the account is used past its daily limit. src/server/rate_limiter.py:795 says "每账号每日请求上限（触线即冻结到当天结束）" (frozen to the end of the day once the limit is reached). |
| `limits/manager.py:213` | routing_redis_call re-raises a cancellation and acquire_account schedules neither cleanup nor rollback, so a reserve command that still reaches Redis leaves the cancelled request's counts in the ledgers until their windows end. src/limits/manager.py:724 says "回退是\"失败不占额度\"的兜底" (a failure occupies no quota), and src/limits/manager.py:872 "避免这次不确定预占永久占着账号配额". |
| `server/rate_limiter.py:6297` | _try_reserve receives token_estimate and does not hand it to reserve_with_decision, so acquire_account reserves 0 tokens, creates no token ledger, never makes the token test (backend.py:634), and the settlement, which adjusts existing ledgers only, counts nothing; the legacy token counters are skipped because the usage is marked as reconciled. src/limits/manager.py:76 says "``_try_reserve`` 从这里读取并传给账号原子预占" (reads it from here and passes it to the account's atomic reservation). |
| `server/request_log_writer.py:242` | At the hard cap _drop_oldest_attempts drops the state of an attempt that is still running, or a single started event; the final event of the same attempt is accepted later and makes a state without started payload, which _flush neither inserts nor finalizes (it wants state.inserted) and which nothing but pressure removes: it stays in the buffer, the row stays "requesting", and the drain at shutdown runs into its timeout. src/server/request_log_writer.py:63 says "queue pressure only sheds whole attempts". |
| `server/runtime_sync.py:129` | An event is dropped when its version is not above the last one of the same (type, name), and all freezes of an account and its models carry the name provider:username. Two freezes of different models published by two instances can reach a third party in the other order than their time stamps; the older one is dropped although it is about another key, and no reconciler reads cooldowns again. src/server/runtime_sync.py:7 says "60s 对账循环按版本/更新时间拉回漏掉的变更" (the reconciliation brings back what was missed). |
| `server/rate_limiter.py:1935` | _freeze_account starts set_account_cooldown and the broadcast as two tasks. When the event is handled before the SET, _on_cooldown_event reads None and unfreezes the account, with all its model freezes, on every instance, also on the one that froze it. src/server/rate_limiter.py:1946 (the model-level sibling) says "Redis SET 必须先于广播完成" and names this failure. |
| `limits/backend.py:1549` | clear_account_model_cooldown deletes the key and then removes the index member; a freeze whose SET and SADD fall between the two (or whose SET falls after the DEL and whose SADD falls before the SREM) keeps its key and loses its member. restore_cooldowns finds model freezes by the index only, so a restarted instance selects the frozen model. src/server/rate_limiter.py:1399 says "Redis 是跨重启真相源，内存桶必须从冻结索引重建" and src/docs/account-state-storage.md:93 says "冻结索引只加速展示查询" (the index only speeds up listings). |
| `server/rate_limiter.py:1566` | clear_runtime_freeze_on_success starts the Redis deletion and the broadcast as two tasks, and for an account the handler ignores the cleared flag and reads the key. An event handled before the DEL applies the freeze again; a permanent one then stays in that instance's mirror although Redis no longer has it. src/server/rate_limiter.py:1579 says "广播解冻事件，让其它实例同步清内存冷却" (so that the other instances clear theirs). |
| `limits/backend.py:575` | The reservation script rejects a frozen account only when TTL > 0; the key of a permanent freeze has no expiry (TTL -1), so an instance whose mirror missed the freeze reserves the account. src/server/rate_limiter.py:1842 says "永久冻结账号：内存桶 until=None + Redis 无 TTL key 兜底 + 广播" (the key without TTL is the backstop). |
| `server/config_store.py:369` | upsert_provider_account_async puts the writing instance's own snapshot of the whole channel into the Redis cache. An instance whose snapshot does not yet have an account that another instance just added overwrites the cache without it, and _on_account_event, which reads the cache first, takes the account for deleted and removes it from the pools. src/server/runtime_handlers.py:77 says "该账号已被删：从运行池移除" (this account was deleted) of that branch. |
| `server/config.py:209` | persist_account_fields reads the account, awaits, and upserts the row. A deletion in between is undone: INSERT ... ON CONFLICT creates the row again, and the event brings the account back into every pool. src/server/config.py:191 says "找不到该账号返回 False" (returns False when the account does not exist). |
| `server/admin.py:7787` | apply_account_update merges the form with the row it read before an await and writes all of it; a token rotated in between is replaced by the old one, in the table and then in the pools. src/server/admin.py:7774 says "不能用表单数据整体替换账号，否则 OAuth/设备码授权得到的 token 会被清空" (or the token would be lost). |
| `main.py:5324` | The key is checked again before every request, outside of the try statement. Before an inner retry the reservation of the candidate is still open, so a key that was revoked or ran out of quota ends the request without the finally clause: neither rollback nor release is called, and the renewal task keeps the lease. src/server/request_reservations.py:14 says "并发无论成功失败都释放" (concurrency is released whether the request succeeds or fails). |
| `main.py:5790` | A stream that broke off after output is settled with `await candidate_reservation.keep_served_usage`. A cancellation at that await is raised inside the except clause, where the handler of CancelledError does not see it; the finally clause finds an unsettled reservation and rolls back. src/main.py:5782 says "已服务：保留请求计数，按已产出的 usage 结算 token 预占，绝不回滚" (never rolled back). |
| `main.py:5769` | attempt_logged is set before the row is finalised; a cancellation while the usage is settled skips the finalisation at line 5792. src/main.py:5869 says the started log must be closed, "otherwise the row remains permanently \"requesting\"". |
| `main.py:5111` | Only NoAvailableAccountError leads to the backup group; when the attempts are used up _chat_with_retry_for_model raises an HTTPException, which ends the pipeline. src/main.py:5068 says "当前组账号重试耗尽后，按 catalog snapshot 解析一个备选组继续" (after the retries of the group's accounts are exhausted, continue with a backup group). |
| `main.py:5736` | A transient exception raised by the selection itself (a channel's check_message_with_reason may do I/O) is judged with inner_index and inner_limit of the previous candidate: reuse_candidate is set although there is no client, the next round asks None for the chat method, and the AttributeError ends the request. src/server/retry_policy.py:634 says "其它失败 → 能继续选候选就重试；否则最终 429" (other failures: retry while there are candidates). |
| `server/rate_limiter.py:878` | _try_reserve marks the account object, which all requests share, as used by a test and clears the mark when it returns; reserve_with_decision reads the mark again after its await. A real request that reserves while a test is under way takes itself for a test and records nothing, and a test whose mark another request cleared writes the message ledger. src/server/rate_limiter.py:891 says "测试/探测只占并发：不写渠道侧 message 配额账本" (a test or probe only takes concurrency and does not write the channel's message ledger). |
| `main.py:5368` | Every round of the loop rebuilds route_info from account_client.last_route_info, an inner retry too. Another request that reserved the same account meanwhile has replaced it, and the retry is sent with that request's endpoint_config and extra_config and logged under its routed model. src/main.py:5507 says "内层重试用完全相同的出站参数重发" (an inner retry is sent with exactly the same outgoing parameters). |
| `server/rate_limiter.py:896` | When record_message raises or is cancelled, the lease is detached and its slot released, but rollback_account_reservation is not called: the request and token counts the script wrote stay for a request that is never sent, and its entry stays in the recovery index of a process that is alive. src/server/rate_limiter.py:858 says "失败时按 reservation 精确回滚" (on failure it is rolled back exactly). |
| `user_platform/webhook_review_worker.py:531` | process_one takes the oldest queued event (line 481) and _supersede_older only drops pending events older than it, so a queued older event is never superseded and is reviewed first; src/user_platform/webhook_review_worker.py:14 says "``review_latest_only`` makes a newer event for the same PR/branch supersede" still-queued older ones |
| `user_platform/webhook_review_worker.py:504` | process_one returns when the project of the oldest event is at its cap, without looking at the events of other projects; src/user_platform/webhook_review_worker.py:500 says "Each project has its own lease count and queue." |
| `user_platform/task_service.py:3425` | only complete_review, a failed dispatch, deleting the task and a restart delete the lease; a review that fails or is stopped keeps it; src/user_platform/models_review.py:7 says a lease row is created when an event "claims the slot and deleted when the review finishes, fails, or is cancelled." |
| `user_platform/webhook_review_worker.py:435` | start deletes every active lease although the reviews are still at work on the nodes, so new reviews go beyond the capacity; src/user_platform/models_review.py:9 says two events "can never oversubscribe a node's capacity, even racing" |
| `user_platform/task_service.py:3445` | _release_node deletes the session only when it knows one and the node client is enabled, logs a failure, and deletes the lease in any case: the slot is given away while the review is at work, with no restart and no failed write; src/user_platform/task_service.py:3428 says "Deletes the daemon session best-effort so the node stops the run", and src/user_platform/models_review.py:9 that two events "can never oversubscribe a node's capacity". `SlotsKept` excepts the reviews of deleted tasks. |
| `user_platform/webhook_review_worker.py:576` | when the save in _fail raises, _run only logs it and the row stays in processing until the next start; src/user_platform/webhook_review_worker.py:517 says "so an event reaches a terminal dispatch state" deterministically |
| `user_platform/task_service.py:3878` | a timeout of send_session_input is written down as failed although the frame may have arrived, and the next send of the same id is a new attempt, which the runtime executes again; src/user_platform/task_service.py:3612 says "HTTP 超时重试、网络重放、用户重复点击都不会把同一句话执行两遍" |
| `user_platform/task_service.py:3644` | send_task_message only returns early for received, running, completed and dispatching; when the claim returns failed or cancelled (the row changed between its two reads) it delivers without a claim; src/user_platform/task_service.py:3704 says "其它状态       → 不投递，直接把该状态回给调用方" |
| `user_platform/task_service.py:3725` | the retry of a failed row sets delivery_attempt from the number this process has read, without comparing the row, so a slow second retry sets it back to an attempt already used, whose frame the runtime drops; src/tests/test_task_message_protocol.py:5 says "failed/cancelled re-sends bump delivery_attempt (new dedupe key)" |
| `user_platform/task_runtime_worker.py:165` | the recovery worker delivers only rows that are pending; a crash after the claim leaves the first message in dispatching, where only a new send of the user reclaims it; src/user_platform/task_service.py:1648 says "persisted before dispatch so a crash cannot lose the message" |
| `user_platform/task_runtime_worker.py:158` | the recovery worker returns when task.content is empty, as it is in an interactive task: a message of the user that a crash left pending is not taken up although a worker runs; the same line of src/user_platform/task_service.py:1648. `Delivered` asks for a text. |
| `user_platform/task_runtime_worker.py:177` | the recovery worker sends task.content for the oldest pending row, which need not be the row of the first turn, and may be one that a live send has written and not yet claimed: the task's first text is executed under another message's id and that message is lost; src/user_platform/task_runtime_worker.py:153 says "Only the deferred-create path leaves a durable ``pending`` user_input" |
| `agent/workflow_service.py:448` | cancel_run raises CancelledError in the task, which `except Exception` does not catch, so no terminal status is written: the row stays running although the process is alive, and the next start runs the cancelled workflow again; src/agent/workflow_store.py:341 says "A run left ``running`` means the process died" |
| `agent/workflow_service.py:419` | _build_executors and _resolve_inputs are awaited before the try, and coerce_inputs and apply_input_defaults raise for values that do not fit: the task ends, the error is only in the task, the row stays running and the terminal hook is not called; src/agent/workflow_service.py:13 says "then marking the run terminal" |
| `agent/workflow_store.py:358` | the scan takes every running row, whichever process runs it: with a second process the run is marked interrupted and started again while it is at work, and its process then overwrites the status; src/agent/workflow_store.py:342 says "nothing will ever finish it", and src/README.md:72 documents several instances. `RunsExact` excepts runs that another process has read. |
| `agent/workflow_store.py:371` | interrupted is written before the run is started again; when the process dies in between, the next scan, which looks for running rows, passes it over; src/agent/workflow_store.py:23 says "re-launches it from the top with the same" |
| `agent/workflow.py:1263` | the layers of the outer element hold everything downstream of it, the nodes of an inner foreach included: the inner loop runs them per element and the outer element runs them once more, with the item of the outer loop; src/agent/workflow.py:1249 says "嵌套遍历（体内再放一个 foreach 节点）自然递归" |
| `agent/workflow.py:1265` | the layers of a loop only count edges inside of it, so a node of the loop whose other source is outside and not upstream of the loop is run while that source is not done (or not even begun); its edge is then not ok and its variable is missing; src/agent/workflow.py:24 says "that references a variable it cannot see is rejected at save time" |
| `agent/workflow.py:1183` | the statuses are compared with {failed, skipped} for equality, so a run whose only statuses are failed is partial, is notified as a success and gets no retry; src/agent/workflow.py:1151 says "``failed`` when every" |
| `agent/workflow.py:1298` | a node of a loop is ok when it is ok for one element, so a run with failed executions is ok; src/agent/workflow.py:1150 says "``status`` is ``ok`` when all nodes succeeded" |
| `agent/workflow.py:1272` | every loop makes a semaphore of max_parallel while it holds only one place of its layer's, so a layer can run max_parallel times as many nodes; src/agent/workflow.py:91 says "Default cap on concurrent nodes in one topological layer." |
| `agent/workflow_scheduler.py:313` | reload_def waits between reading the rows and changing the jobs; of two saves at the same time the one that has read the older row, and a family without the newer one, adds the old row's job after the newer one's, and both stay until the next reload (`JobsExact` shows that they go with it); update_workflow itself may start a reload of everything beside its own (src/agent/api.py:3695); src/agent/workflow_scheduler.py:282 says "=**定时重复触发**" |
| `agent/api.py:3715` | remove asks the database for the rows of the family after delete_def has deleted them, so it only knows the id it was given and the job under the latest row's id stays; src/agent/api.py:3710 says "remove 走家族口径" |
| `main.py:1421` | acquire blocks the key as soon as the count equals the limit, and every attempt, the first one too, begins with _recheck_api_key_state, which reads that block: the request that reaches the limit is answered 429 although it was admitted and counted, so a limit of n lets n - 1 requests per window through; src/server/rate_limiter.py:583 says "本次仍放行，接受瞬时超发" |
| `limits/backend.py:393` | get_api_key_block_until takes any window with a count for a full one: an event that is handled after its window has ended, when a request has begun the next one, blocks the key to the end of that one; src/server/runtime_handlers.py:136 says "blocked_until 的权威值在 Redis 计数窗口的 TTL 里" |
| `server/runtime_handlers.py:156` | get_window answers (0, 0) when the read fails, which the handler takes for an ended block: it clears the block that the process has; src/server/runtime_handlers.py:158 says "Redis 里已无该 block（过期或被清）：与权威对齐" |
| `server/runtime_sync.py:133` | the window that is blocked is only named by extra, and the events of all windows of a key share one version, so an overtaken event is dropped and its window stays unblocked in that process; src/server/runtime_sync.py:99 says "``extra`` 仅做冗余/透传辅助信号" |
| `server/rate_limiter.py:581` | acquire_concurrency answers None when its answer is lost, acquire goes on without noting the slot, and the release leaves it in Redis for an hour; src/server/request_reservations.py:14 says "并发无论成功失败都释放" |
| `limits/backend.py:1247` | the slot of a key is never renewed: a request that lasts longer than an hour no longer counts, and one more is admitted beside it; src/main.py:1404 says "API-Key 并发/RPM/RPD 已由请求级 ApiKeyReservation 预占并持有" |
| `agent/conversation_hub.py:199` | _mark_overflow records nothing within three seconds of the last reset, so frames dropped then, and the reset itself if it is still queued, are lost without a word when no later overflow follows; src/agent/conversation_hub.py:15 says "**丢帧要吭声**。满队丢 delta 时，下一次投递前补一帧" |
| `agent/conversation_hub.py:129` | a reset that takes the last place of the queue is dropped by the terminal frame delivered right after it, because a reset is not terminal; it is recorded as sent, and the overflow is not recorded again; src/agent/conversation_hub.py:112 says "挤不进去（队里只剩 terminal 帧）：留着标记，下一轮再补" |
| `agent/conversation_hub.py:148` | a frame that is not terminal makes room by dropping the oldest frame of whatever kind; src/agent/conversation_hub.py:44 says "terminal 帧绝不主动丢" |

## 6. Mutants

Every property has a mutant: a definition changed the way a slip in the code would change it
(an off-by-one in the slot test, pruning too early, a renewal that adds, a test that
is too strict or not made, a release that happens only locally, a block that begins one too
late, a list that is read by the wrong row, a semaphore that is shared). It stands before the
definition it changes, is marked `Mutant`, and is used nowhere else.

## 7. Proofs

Every theorem holds for arbitrary sets of requests, processes, accounts, events and nodes
(finite where something is counted), and for any limits, lengths and numbers of faults. It
rests on the assumptions of its module, which TLC evaluates in every run: they say that
constants are numbers and sets of the right kind and that special values differ from the
others. Some say more: `LivesAssumption` (section 2.1), `Window[f] <= MaxAge` of `KeyLimiter`,
and, in two statements, a hypothesis of the theorem itself: `~LongCalls` in *SlotsAreExact*
and a positive limit in *SlotsRefined*, since a limit of 0 stands for none. The assumptions of the modules
that are explored side by side are definitions (`SelectionAssumption`, `PayloadAssumption`,
`HubAssumption`, `SyncAssumption`, `ScheduleAssumption`), which `MCRequest`, `MCQueues`,
`MCRuntimeSync` and `MCWorkflow` assume. `Spec` in the table is that of the module the property
is about, without fairness.

| Theorem | Module | Statement |
|---|---|---|
| `TypeCorrect` | `AccountReservationProofs` | `Spec => []TypeOK` |
| `SlotLimit` | `AccountReservationProofs` | `Spec => []ConcurrencyWithinLimit` |
| `BackedLeases` | `AccountReservationProofs` | `Spec => []LeaseBacked` |
| `ServingLimit` | `AccountReservationProofs` | `Spec => []ServingWithinLimit` |
| `FreedSlots` | `AccountReservationProofs` | `Spec => ReleasedStaysOut` |
| `SlotsRefined` | `AccountReservationProofs` | `Spec => ImplementsSlots` |
| `LedgersAreExact` | `AccountReservationProofs` | `Spec => []LedgersExact` |
| `AllRecoverable` | `AccountReservationProofs` | `Spec => []UnsettledIsRecoverable` |
| `RequestsAreCapped` | `AccountReservationProofs` | `Spec => []RequestCap` |
| `KeptApart` | `RequestProofs` | `Spec => []CandidatesApart` |
| `EndsClean` | `RequestProofs` | `Spec => []CleanEnd` |
| `NeverReplays` | `RequestProofs` | `Spec => NoReplay` |
| `SlotsAreExact` | `KeyLimiterProofs` | `~LongCalls => (Spec => []SlotsExact)` |
| `BlocksAreExact` | `KeyLimiterProofs` | `Spec => []BlockedWhileFull` |
| `SlotsAreKept` | `ReviewQueueProofs` | `Spec => []SlotsKept` |
| `EventsDispatchedOnce` | `ReviewQueueProofs` | `Spec => []DispatchedOnce` |
| `RowTruth` | `TurnDeliveryProofs` | `Spec => []RowExact` |
| `OneTurnAtATime` | `TurnDeliveryProofs` | `Spec => []OneTurn` |
| `RemovalsAreDeletions` | `RuntimeSyncProofs` | `Spec => []RemovesOnlyDeleted` |
| `FreezesAreHeld` | `RuntimeSyncProofs` | `Spec => []ModelFreezeHeld` |
| `ReadsRepair` | `RuntimeSyncProofs` | `Spec => []RepairedByRead` |
| `SelectionIsExact` | `RequestProofs` | `Spec => []SelectionExact` |
| `AccountsAreShared` | `RequestProofs` | `Spec => []SharedAccount` |
| `PayloadsAreExact` | `QueueProofs` | `Spec => []QueueExact` |
| `FeedsAreExact` | `QueueProofs` | `Spec => []FeedExact` |
| `LogsAreExact` | `QueueProofs` | `Spec => []LogExact` |
| `RowsTellTheTruth` | `WorkflowProofs` | `Spec => []RunsExact` |
| `JobsAreExact` | `WorkflowProofs` | `Spec => []JobsExact` |

Each inductive invariant was checked by TLC on the instance of the module's run before it was
proved. Every proof has one lemma per action, or per group of actions that change the same
variables.

### 7.1 Slots of the account

*TypeCorrect.* One lemma per script, then one per group of actions. The interesting part
is `ProjectedType`: the clamp in `projected()` is what keeps amounts natural.

*SlotLimit.* `MembersNext` shows that a step either adds no member or carries out a
reserve command that found room after pruning; the rest is counting. With `TypeOK` the
property is inductive as it stands.

*BackedLeases.* `LeaseBacked` alone is not inductive: a command under way could destroy it.
`LeaseInv` adds what is known of such commands:

* a reserve command has its request's time, there is one per id, and its id has no lease
  (`ReserveInv`), so landing late cannot lower a renewed score;
* a release command belongs to an ended request (`ReleaseInv`);
* a renewal command brings at least the expiry that the process believes in (`RenewInv`);
  this needs that a second renewal does not start before the first has ended;
* leases belong to held, closing or cut-off requests, clean-up tasks to refused ones, and
  reserve times lie in the past (`PhaseInv`), so pruning removes only expired scores.

*ServingLimit* follows from the two by cardinality; *FreedSlots* from `MembersNext` and
`ReserveInv`.

*SlotsRefined.* The initial states have neither members nor leases. A step that adds a member
is a reserve command that found room (`MembersNext`): a grant that reclaims what was pruned,
and by `LeaseInv` nobody pruned is in service. A lease that begins anew without a new member
is a renewal that came late (`Resume`). A step that removes members or leases is `Drop`, again
because `LeaseInv` keeps those in service among the members. Every other step stutters.

### 7.2 Ledgers of the account

`ControlInv` says who may still send which command, without a word about ledgers: how far a
request has come by its flags (`FlagsInv`), that only a process that missed a heartbeat is
taken for dead (`HeartInv`), and for whom a late reserve, rollback, reconcile or finalize may
land (`SentInv`). With it every step is, as far as the ledgers are concerned, one of six
kinds: it leaves them alone, begins a request, reserves, rolls back, settles, or lets time
pass.
`LedgerInv` is kept by each kind. Besides the properties it has: an amount lies in a ledger
that exists (`EntryInv`); a ledger outlives the commands built in its window (`KeyInv`, where
the grace is needed); a request that is or was served is counted until its window is over,
unless its process lapsed (`CountedInv`).

`TotalIsSum` compares a stored total with a fold over all requests. The first lemmas of this
part are what is needed of the fold (changing one member changes the sum by the difference,
sums of naturals are natural) by a smallest counterexample among the subsets of a finite set:
a form of induction that needs no theorem with an operator as parameter.

*RequestsAreCapped.* The reserve script does not compare a request count with its limit before
it adds one: it relies on the freeze that the request reaching the limit has set. `FrozenInv`
is that a window which has used up its limit and all lifts is over before the freeze is; with
`LiveInv` (a ledger exists until its expiry) an unfrozen account then has room for one more in
every present window. Whoever ends or shortens the freeze counts as a lift (`LiftCounted`): a
success, a cooldown, a settlement that reaches a token limit; so the invariant needs nothing of
the commands under way, and the theorem no hypothesis.

### 7.3 The request and its candidates

`ChatInv` says place by place what the handle is (`PlaceInv`), that slot and ledger of every
candidate follow from it and candidates to come have nothing (`HandleInv`, which excepts the
candidate that a cancellation cut off in the `finally` clause), who has answered
and whether that may still change (`AnswerInv`), which log rows are final (`LogInv`), and how
many turns and requests are used (`BudgetInv`). The last one is the reason for the product in
`CallBudget`: the turns over are all of those of the groups before and `outer` of the present
group, a turn has one candidate and at most `InnerLimit` requests. *NeverReplays* follows from
`AnswerInv`: a request is sent only from places at which nobody has answered.

`SelectionInv`, for the selection, locates every request in its lists (`Located`) and bounds
what is left of a list and the attempts on it together (`Room`); the candidate that is being
reserved counts for both, which is why `ListShrinks` alone is not inductive. `Doubt` and
`Ledger` say what a request remembers of scripts that were not answered and of the ledgers.
For *AccountsAreShared*, `Marked` follows the mark of an account object from the pick over the
reserve script to the record: unless another request has been choosing and one of the two is a
test, it is the request's own. `Routed` does the same for the parameters.

### 7.4 The API key

`SlotInv` adds to the types that the slots in Redis never exceed the limit, that a lease has
its slot unless something went wrong, and that a slot belongs to a request that knows of it.
`BlockInv` is about behaviours without trouble (lost or late calls): the time that was read is
the present one, a block ends with its window, events under way are true and in the order of
their stamps, and a window that has become full is blocked or announced everywhere.

### 7.5 Reviews

`RowInv`: the worker's row is as it left it, events that have not arrived have nothing, what
may be dispatched has an attempt left, attempts are bounded, only the worker's row is in
processing. The slots add that there is room between the test of the cap and the lease, since
no other actor creates one. Without restarts and failing writes `Calm`, `Held` (of reviews whose
task is not deleted) and `Once` say
that a lease or a task belongs to an event that is being or was dispatched.

### 7.6 Task messages

`RowInv` is `RowExact` with what an acknowledgement under way tells (`AcksTell`). `TurnInv`, for
*OneTurnAtATime*, follows an attempt from the row to the runtime: which attempts are unused
(`Fresh`), what an actor has seen and may still claim (`SeenBefore`), whose frames are under
way (`Dispatched`), that one actor at most holds a claim (`OneHolder`), and that a turn at work
is the row's (`ActiveKnown`).

The proof found a case that the run was too small for: a requeue from a stale read gives
attempt 2 out again, another sender claims with the attempt 1 it saw earlier, a repeated report
fails the row, and attempt 3 is queued while attempt 1 runs. It takes five senders and 24 steps
(4 million states). `OneTurn` excepts an attempt that was given out twice (`unsure`), and the
run has three attempts.

### 7.7 Freezes and the reconciliation of accounts

`ModelFreezeHeld` and `RepairedByRead` are inductive with the types and two facts about what is
under way. `ModelsOnly`: under a policy that freezes models only, neither Redis nor a mirror
nor an event nor a restoration ever speaks of the account, so its key not being found can be
the reason of a loss only where accounts are frozen as well. `ReadIsCurrent`: what an instance has read of the account stays what Redis
says until it is applied, since every change of the key makes all reads stale.

`RemovesOnlyDeleted` says nothing of the time before the second look at the table; `Absent`
does: until then whatever the table lacks has been absent since the instance found accounts
to remove. A write keeps it because a deletion is noted by all who are about to look.

### 7.8 Workflow runs and cron jobs

`RunsExact` says nothing of a process that is recovering; `RunsInv` does. A row that nobody
works on is one that was not read yet or is still in the list (`Abandoned`); what is in the
list is the process's own, or on record as taken (`OwnRows`), and is then neither at work nor
reported, unless a trigger started it early (`ScannedIsDead`); the
run at hand has been given up before it is started again (`AtHand`); and a run that was started
again is neither running nor in the list of the process that did it (`Superseded`), which a crash in the middle of the
recovery keeps because the next scan reads only rows that are running. `RowFirst` and
`TaskTells` relate the row, the task and the result of one run.

The steps of a task are proved through `TaskStep`, which leaves five kinds: it goes on, comes to
an outcome, writes it, reports it, or ends before that.

`ScheduleInv` numbers the rows without gaps (`Numbered`, which bounds them by the saves that
have begun). Of every request, whatever crosses it, it says that the jobs it has read or has
still to add are under rows of the workflow (`Known`); of one that nothing has overtaken, that
what it has read is still so when it is used (`ReadsHold`). The jobs are under rows of the
workflow (`JobNames`), under one of them while nothing is amiss (`OneName`), and then they are
the wanted ones or a request under way will make them so (`WillMatch`). The step that carries
the argument is an `Apply` that nothing overtook: its family holds every row there is, so by
`JobNames` whatever a crossing left behind goes.

### 7.9 The three queues

*Subsequences.* Buffers are filtered with `Only`, a recursive function. The prover has no
induction for it; `UpTo` replaces it by a least counterexample among the numbers up to a
length. With it the function exists (`SelectsExists`), and what it returns picks elements of
its argument at increasing places, all of those wanted and no others (`OnlyPicks`). TLC
compares `Only` with the library's `SelectSeq` (`OnlySelects`).

*PayloadsAreExact.* `QueueExact` needs `Sorted` and `Placed`: the batch in hand comes before
the queue and both increase, and every event is in the batch, in the queue, or in one of the
three sets it may end in, which are disjoint. `Accounted` then is counting. `Worked` says which
of the task's places have a batch and how the task, the flags and the stop follow one another.

*FeedsAreExact.* `FeedInv` adds to the parts of `FeedExact` the types and that a frame is that
of its event (`Proper`). `Proper` is kept by everything that happens to a queue (dropping the
first frame, keeping the terminal ones, squeezing in a reset, putting a frame at the end) as a
part of a proper queue is proper. `LatestKept` and `LossAnnounced` are then inductive.

*LogsAreExact.* `LogInv` says what is known of an attempt at each of its stations: its events
in the queue carry its outcome (`EventsTell`), a state is there only for a pending key, and its
final event was the attempt's last (`StateTells`), a final row has the attempt's outcome
(`RowTells`), a charged attempt has nothing left anywhere (`ChargeTells`, the reason why
repeated statements do not charge again), and what is handed to the update has a row and its
own outcome (`BatchTells`). `KeptTells` strengthens `NothingElseLost`: what pressure did not
shed has its start on the way as well, without which an outcome in the queue would meet no row
and no insert. `Bounded` is inductive because an event that is taken from the queue becomes at
most one state. That keys are pending once only is not needed.

TLC checked `LogInv` and `FeedInv` also on a larger instance (3 attempts, a buffer of 4; 4.9
million states).

## 8. Only model-checked

* Liveness (`SlotReclaimed`, `OrphanReaped`, `Terminates`, `PoolsConverge`, `KeyEnds`,
  `Arrives`, `Delivered`, `RunFinishes`): fairness and `ENABLED` are out of the prover's reach.
* `GraphExact` and `SourcesSettled`: what is downstream of a node and which layer it is in are
  recursive definitions over an arbitrary graph; that they are what the properties take them
  for needs induction over data.

## 9. Not modelled

Most of the repository's 250 000 lines are pages, routes, protocol formats, importers and a
testing platform that read and write single rows; the models cover the concurrent core, a
small share of the lines. Protocol conversion, masking and token counting are pure functions
of text. The administration API beyond accounts, the agent loop with its tools, MCP hosting,
tunnels, DNS, notifications and the desktop shell are applications around the gateway whose
state is a row or a child process. Provider and model reloads rebuild snapshots from the
configuration; the models take any snapshot. `PROJECT.json` lists every component with the
reason.

## 10. Plan

1. Refinement of `AccountSlots` by `KeyLimiter` and `ReviewQueue`, which promise the same of
   their slots.
2. `AccountSync` with two accounts written at the same time, and the reload of a whole channel.
