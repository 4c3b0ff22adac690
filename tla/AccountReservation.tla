-------------------------- MODULE AccountReservation --------------------------
(***************************************************************************)
(* The account reservation of the gateway: one upstream account, whose     *)
(* concurrency slots and request/token quotas are kept in Redis and shared *)
(* by all gateway processes.                                               *)
(*                                                                         *)
(*   limits/backend.py   the Lua scripts: reserve, rollback, reconcile,    *)
(*                       renew, release, and the orphan reaper             *)
(*   limits/manager.py   the callers: deadlines, leases, renewal, cleanup  *)
(*                       and retry tasks, heartbeat, shutdown              *)
(*                                                                         *)
(* A Redis script is one atomic step.  A call made under a deadline        *)
(* (routing_redis_call) is either answered, or given up: the caller then   *)
(* sees None while the command stays in `net`, from where it may still     *)
(* reach Redis later (Land) or be lost (Lose).                             *)
(*                                                                         *)
(* Time is an integer clock.  Its unit is abstract; only the order of the  *)
(* lease, heartbeat, window and grace lengths matters.                     *)
(***************************************************************************)
EXTENDS Integers, FiniteSets, Functions

CONSTANTS
    Rids,              \* reservation ids, each used by one request attempt
    Procs,             \* gateway processes (boot ids); a restart is another one
    Owner,             \* the process that an id belongs to (lease:<boot>:<uuid>)
    Probes,            \* ids of test and probe requests: concurrency only
    ConcurrentLimit,   \* account_client.concurrent_limit, 0 for no limit
    ReqMetrics,        \* the configured ones of rpm, rph, rpd
    TokMetrics,        \* the configured ones of tpm, tph, tpd, model_tpm
    ModelMetrics,      \* the token metrics that freeze the model: model_tpm
    DayMetrics,        \* the metrics of a calendar day: rpd, tpd
    WinLen,            \* length of a metric's fixed window
    Limit,             \* limit of a metric
    Estimate,          \* token_estimate given to acquire_account
    Actuals,           \* the token totals a served request may report
    AllowOverflow,     \* LimitManager._allow_token_overflow()
    LeaseTTL,          \* CONCURRENCY_LEASE_SECONDS
    HeartbeatTTL,      \* HEARTBEAT_TTL_SECONDS
    HeartbeatEvery,    \* HEARTBEAT_INTERVAL_SECONDS
    MetaTTL,           \* life of a reservation's meta hash
    Grace,             \* _RESERVATION_GRACE
    Cooldowns,         \* durations of account cooldowns after upstream errors
    Attempts,          \* Len(UNCERTAIN_RESERVATION_CLEANUP_DELAYS)
    MaxFaults,         \* bound: calls that miss their deadline or fail
    Horizon,           \* bound: last time of a new request, renewal or crash
    MaxTime            \* bound: end of the clock

Metrics == ReqMetrics \cup TokMetrics

Times == 0 .. MaxTime

ASSUME SetsAssumption ==
    /\ IsFiniteSet(Rids)
    /\ Probes \subseteq Rids
    /\ Owner \in [Rids -> Procs]
    /\ ReqMetrics \cap TokMetrics = {}
    /\ ModelMetrics \subseteq TokMetrics

ASSUME NumbersAssumption ==
    /\ ConcurrentLimit \in Nat
    /\ WinLen \in [Metrics -> Nat \ {0}]
    /\ Limit \in [Metrics -> Nat \ {0}]
    /\ Estimate \in Nat /\ Actuals \subseteq Nat
    /\ LeaseTTL \in Nat \ {0} /\ HeartbeatTTL \in Nat \ {0}
    /\ HeartbeatEvery \in Nat \ {0}
    /\ MetaTTL \in Nat \ {0} /\ Grace \in Nat
    /\ Cooldowns \subseteq Nat \ {0}
    /\ AllowOverflow \in BOOLEAN
    /\ Attempts \in Nat /\ MaxFaults \in Nat
    /\ Horizon \in Nat /\ MaxTime \in Nat

\* A ledger outlives its window by the grace, and the meta of a reservation every
\* ledger: reserve_account_limits passes max(rpd_ttl, tpd_ttl, 86400) + grace.
ASSUME LivesAssumption ==
    /\ Grace > 0
    /\ \A m \in Metrics : WinLen[m] + Grace <= MetaTTL

VARIABLES
    now,          \* the clock
    \* Redis
    conc,         \* ZSET ...:concurrency: score of a member, 0 if not a member
    entry,        \* ledger HASH members: amount of an id in its window
    total,        \* ledger HASH field __total
    expiry,       \* expiry of a ledger HASH, 0 if the key does not exist
    index,        \* SET limit:reservation:v1:active
    meta,         \* expiry of a reservation's meta HASH, 0 if it does not exist
    acctFreeze,   \* expiry of limit:cooldown:<provider>:<account>
    modelFreeze,  \* expiry of limit:model-tpm-freeze:<model>
    heartbeat,    \* expiry of limit:process-heartbeat:<boot>
    net,          \* commands whose caller has gone or still waits
    \* the processes
    up,           \* processes that are running
    pc,           \* control state of the request that owns an id
    at,           \* time at which the reserve command was built
    settled,      \* LimitLease.settled
    rolledBack,   \* LimitLease.rolled_back
    fallback,     \* LimitLease.local_fallback
    active,       \* LimitManager._active_leases
    lease,        \* LimitLease.expires_at, 0 without a lease
    task,         \* background task of an id
    scan,         \* ids a reaper has read with their meta and not yet handled
    doomed,       \* id whose owner a reaper has found dead
    \* bookkeeping of the model
    faults,       \* calls given up so far
    lapsed,       \* processes whose heartbeat key was absent at some time
    acked,        \* ids whose rollback was answered
    cut,          \* ids whose settling was cut off by a cancellation
    thawed,       \* ids whose success has sent for the end of the freeze
    lifts         \* times the account's freeze ended before its time

freezes == <<acctFreeze, modelFreeze, lifts>>
redisVars == <<conc, entry, total, expiry, index, meta, freezes>>
leaseVars == <<settled, rolledBack, fallback, active, lease>>
reapVars == <<scan, doomed>>
ghosts == <<lapsed, acked, cut, thawed>>
vars == <<now, redisVars, heartbeat, net, up, pc, at, leaseVars, task, reapVars,
          faults, ghosts>>

-----------------------------------------------------------------------------
(* Keys and windows *)

\* _reservation_window_ids: the id of metric m's window at time t.
WindowId(m, t) == t \div WinLen[m]

\* The window of id r for metric m, fixed when the reserve command is built.
Win(m, r) == WindowId(m, at[r])

\* The TTL the caller passes for a ledger: to the end of the day for the
\* calendar metrics, one window length for the others.
KeyTTL(m, t) == IF m \in DayMetrics THEN WinLen[m] - (t % WinLen[m])
                                    ELSE WinLen[m]

\* The ledgers that reserving r writes; a test or probe writes none.
Meters(r) == IF r \in Probes THEN {}
             ELSE ReqMetrics \cup (IF Estimate > 0 THEN TokMetrics ELSE {})

Amount(m) == IF m \in ReqMetrics THEN 1 ELSE Estimate

\* Lua projected(): the window's total once r's amount is n.
Projected(m, r, n) == LET t == total[m][Win(m, r)] - entry[m][r] + n
                      IN  IF t < 0 THEN 0 ELSE t

Members(c) == {r \in Rids : c[r] # 0}

-----------------------------------------------------------------------------
(* The reserve script *)

\* The freeze keys are looked at with TTL > 0; probes skip them.  The third one,
\* of the account and model, is written by no script and only refuses earlier.
Frozen(r) == r \notin Probes /\ (acctFreeze > now \/ modelFreeze > now)

\* Mutant: leases that are about to end are dropped early.
PrunedEarly(r) == [q \in Rids |-> IF conc[q] <= at[r] + 1 THEN 0 ELSE conc[q]]

\* ZREMRANGEBYSCORE with the caller's clock.
Pruned(r) == [q \in Rids |-> IF conc[q] <= at[r] THEN 0 ELSE conc[q]]

\* Mutant: off by one.
FullLate(r) == /\ ConcurrentLimit > 0
               /\ Cardinality(Members(Pruned(r))) > ConcurrentLimit

Full(r) == /\ ConcurrentLimit > 0
           /\ Cardinality(Members(Pruned(r))) >= ConcurrentLimit

TokenFull(r) == /\ ~AllowOverflow
                /\ \E m \in Meters(r) \cap TokMetrics :
                        Projected(m, r, Estimate) >= Limit[m]

Admits(r) == ~Frozen(r) /\ ~Full(r) /\ ~TokenFull(r)

\* Mutant: the shortest of the windows that are full.
SetFreezeShortest(old, S) ==
    IF S = {} THEN {old} ELSE {x \in S : \A y \in S : x <= y}

\* The expiry that SET ... EX leaves in a freeze key: the longest of the
\* expiries in S, whatever the key held before; no SET when S is empty.
SetFreeze(old, S) == IF S = {} THEN {old} ELSE {x \in S : \A y \in S : y <= x}

\* Counts the changes of the account's freeze that end it before its time.
CountLift == lifts' = IF acctFreeze' < acctFreeze THEN lifts + 1 ELSE lifts

\* Mutant: only what takes a concurrency slot is entered in the index.
TrackedSlots(r) == r \notin Probes /\ ConcurrentLimit > 0

\* Whatever is admitted is entered in the recovery index, except probes.
Tracked(r) == r \notin Probes

\* Mutant: milliseconds.
LeaseEndMillis(t) == t + 1000 * LeaseTTL

\* The score of a lease granted or renewed at time t.
LeaseEnd(t) == t + LeaseTTL

\* reserve_account_limits: every write comes after every test.
RedisReserve(r) ==
    IF ~Admits(r)
    THEN /\ conc' = IF ~Frozen(r) /\ ConcurrentLimit > 0 THEN Pruned(r) ELSE conc
         /\ UNCHANGED <<entry, total, expiry, index, meta, freezes>>
    ELSE LET ms == Meters(r)
             key(m) == IF expiry[m][Win(m, r)] # 0 THEN expiry[m][Win(m, r)]
                       ELSE now + KeyTTL(m, at[r]) + Grace
             over == {m \in ms : Projected(m, r, Amount(m)) >= Limit[m]}
         IN  /\ entry' = [m \in Metrics |-> IF m \in ms
                            THEN [entry[m] EXCEPT ![r] = Amount(m)] ELSE entry[m]]
             /\ total' = [m \in Metrics |-> IF m \in ms
                            THEN [total[m] EXCEPT ![Win(m, r)] = Projected(m, r, Amount(m))]
                            ELSE total[m]]
             /\ expiry' = [m \in Metrics |-> IF m \in ms
                            THEN [expiry[m] EXCEPT ![Win(m, r)] = key(m)] ELSE expiry[m]]
             /\ acctFreeze' \in SetFreeze(acctFreeze, {key(m) : m \in over \ ModelMetrics})
             /\ modelFreeze' \in SetFreeze(modelFreeze, {key(m) : m \in over \cap ModelMetrics})
             /\ CountLift
             /\ index' = IF Tracked(r) THEN index \cup {r} ELSE index
             /\ meta' = IF Tracked(r) THEN [meta EXCEPT ![r] = now + MetaTTL] ELSE meta
             /\ conc' = IF ConcurrentLimit > 0
                        THEN [Pruned(r) EXCEPT ![r] = LeaseEnd(at[r])] ELSE conc

-----------------------------------------------------------------------------
(* The other scripts *)

\* Mutant: a plain decrement by what a reservation takes, whether or not this
\* id is in the ledger.
RedisRollbackDecrement(r) ==
    /\ entry' = [m \in Metrics |-> [entry[m] EXCEPT ![r] = 0]]
    /\ total' = [m \in Metrics |-> [total[m] EXCEPT ![Win(m, r)] = @ - Amount(m)]]
    /\ index' = index \ {r}
    /\ meta' = [meta EXCEPT ![r] = 0]
    /\ UNCHANGED <<conc, expiry, freezes>>

\* rollback_account_reservation: takes r's own amount out of every ledger.
RedisRollback(r) ==
    /\ entry' = [m \in Metrics |-> [entry[m] EXCEPT ![r] = 0]]
    /\ total' = [m \in Metrics |-> [total[m] EXCEPT ![Win(m, r)] = Projected(m, r, 0)]]
    /\ index' = index \ {r}
    /\ meta' = [meta EXCEPT ![r] = 0]
    /\ UNCHANGED <<conc, expiry, freezes>>

\* Only ledgers that still exist are adjusted; an expired window is left alone.
Reconcilable(r, n) == {m \in TokMetrics : expiry[m][Win(m, r)] # 0}

\* reconcile_account_reservation: replaces r's token amounts by the n that was
\* really used, in the ledgers that still exist; request counts stay.
RedisReconcile(r, n) ==
    LET ms == Reconcilable(r, n)
        over == {m \in ms : Projected(m, r, n) >= Limit[m]}
    IN  /\ entry' = [m \in Metrics |-> IF m \in ms
                        THEN [entry[m] EXCEPT ![r] = n] ELSE entry[m]]
        /\ total' = [m \in Metrics |-> IF m \in ms
                        THEN [total[m] EXCEPT ![Win(m, r)] = Projected(m, r, n)]
                        ELSE total[m]]
        /\ acctFreeze' \in SetFreeze(acctFreeze,
                                {expiry[m][Win(m, r)] : m \in over \ ModelMetrics})
        /\ modelFreeze' \in SetFreeze(modelFreeze,
                                {expiry[m][Win(m, r)] : m \in over \cap ModelMetrics})
        /\ CountLift
        /\ index' = index \ {r}
        /\ meta' = [meta EXCEPT ![r] = 0]
        /\ UNCHANGED <<conc, expiry>>

\* finalize_reservation: SREM and DEL, nothing else.
RedisFinalize(r) ==
    /\ index' = index \ {r}
    /\ meta' = [meta EXCEPT ![r] = 0]
    /\ UNCHANGED <<conc, entry, total, expiry, freezes>>

\* release_account_reservation: ZREM.
RedisRelease(r) ==
    /\ conc' = [conc EXCEPT ![r] = 0]
    /\ UNCHANGED <<entry, total, expiry, index, meta, freezes>>

\* Mutant: ZADD without looking for the member.
RedisRenewBlind(r, t) ==
    /\ conc' = [conc EXCEPT ![r] = LeaseEnd(t)]
    /\ UNCHANGED <<entry, total, expiry, index, meta, freezes>>

\* renew_account_reservation: only a member that is still there is renewed.
RedisRenew(r, t) ==
    /\ conc' = IF conc[r] = 0 THEN conc ELSE [conc EXCEPT ![r] = LeaseEnd(t)]
    /\ UNCHANGED <<entry, total, expiry, index, meta, freezes>>

\* clear_account_cooldown: DEL of the account's freeze key, whoever has set it.
\* The keys of the account's models that go with it are read by no script here.
RedisThaw ==
    /\ acctFreeze' = 0
    /\ CountLift
    /\ UNCHANGED <<conc, entry, total, expiry, index, meta, modelFreeze>>

-----------------------------------------------------------------------------
(* Calls that miss their deadline *)

Ops == {"reserve", "rollback", "reconcile", "finalize", "release", "renew", "thaw"}

Command(op, r, n) == [op |-> op, rid |-> r, tok |-> n, at |-> now]

\* routing_redis_call past its deadline: the caller goes on with None, and
\* the cancelled command may or may not be on its way to Redis.
GiveUp(c) ==
    /\ faults < MaxFaults
    /\ faults' = faults + 1
    /\ net' = net \cup {c}
    /\ UNCHANGED redisVars

\* A command nobody waits for reaches Redis.
Land(c) ==
    /\ c \in net
    /\ c.op = "reserve" => pc[c.rid] # "reserving"
    /\ net' = net \ {c}
    /\ CASE c.op = "reserve"   -> RedisReserve(c.rid)
         [] c.op = "rollback"  -> RedisRollback(c.rid)
         [] c.op = "reconcile" -> RedisReconcile(c.rid, c.tok)
         [] c.op = "finalize"  -> RedisFinalize(c.rid)
         [] c.op = "release"   -> RedisRelease(c.rid)
         [] c.op = "renew"     -> RedisRenew(c.rid, c.at)
         [] c.op = "thaw"      -> RedisThaw
    /\ UNCHANGED <<now, heartbeat, up, pc, at, leaseVars, task, reapVars,
                   faults, ghosts>>

\* A command nobody waits for never reaches Redis.
Lose(c) ==
    /\ c \in net
    /\ c.op = "reserve" => pc[c.rid] # "reserving"
    /\ net' = net \ {c}
    /\ UNCHANGED <<now, redisVars, heartbeat, up, pc, at, leaseVars, task,
                   reapVars, faults, ghosts>>

-----------------------------------------------------------------------------
(* Reserving *)

NoTask == [kind |-> "none", left |-> 0]

\* acquire_account builds the command.  The freeze mirrors and the other local
\* tests of account_available_locked only ever refuse earlier.
Acquire(r) ==
    /\ pc[r] = "idle" /\ Owner[r] \in up /\ now <= Horizon
    /\ pc' = [pc EXCEPT ![r] = "reserving"]
    /\ at' = [at EXCEPT ![r] = now]
    /\ net' = net \cup {Command("reserve", r, 0)}
    /\ UNCHANGED <<now, redisVars, heartbeat, up, leaseVars, task, reapVars,
                   faults, ghosts>>

\* The script's reply is seen: a lease, or a denial that wrote nothing.
ReserveAnswered(r) ==
    /\ pc[r] = "reserving"
    /\ \E c \in net : c.op = "reserve" /\ c.rid = r /\ net' = net \ {c}
    /\ RedisReserve(r)
    /\ pc' = [pc EXCEPT ![r] = IF Admits(r) THEN "held" ELSE "denied"]
    /\ IF Admits(r) /\ ConcurrentLimit > 0
       THEN /\ active' = active \cup {r}
            /\ lease' = [lease EXCEPT ![r] = LeaseEnd(at[r])]
       ELSE UNCHANGED <<active, lease>>
    /\ UNCHANGED <<now, heartbeat, up, at, settled, rolledBack, fallback, task,
                   reapVars, faults, ghosts>>

\* The reply is not seen.  With a concurrency limit the request is denied and
\* a cleanup task scheduled; without one it goes on with a local lease.
ReserveUncertain(r) ==
    /\ pc[r] = "reserving"
    /\ faults < MaxFaults /\ faults' = faults + 1
    /\ IF ConcurrentLimit > 0
       THEN /\ pc' = [pc EXCEPT ![r] = "denied"]
            /\ task' = [task EXCEPT ![r] = [kind |-> "undo", left |-> Attempts]]
            /\ UNCHANGED fallback
       ELSE /\ pc' = [pc EXCEPT ![r] = "held"]
            /\ fallback' = fallback \cup {r}
            /\ UNCHANGED task
    /\ UNCHANGED <<now, redisVars, heartbeat, net, up, at, settled, rolledBack,
                   active, lease, reapVars, ghosts>>

\* The client goes away while the reply is awaited: routing_redis_call cancels
\* the command and re-raises, and nothing is scheduled.
ReserveCancelled(r) ==
    /\ pc[r] = "reserving"
    /\ pc' = [pc EXCEPT ![r] = "cancelled"]
    /\ UNCHANGED <<now, redisVars, heartbeat, net, up, at, leaseVars, task,
                   reapVars, faults, ghosts>>

-----------------------------------------------------------------------------
(* Settling, rolling back and releasing *)

ReservedTokens == IF TokMetrics # {} THEN Estimate ELSE 0

\* A lease that never reached a ledger, or may not touch one.
Ledgerless(r) == r \in Probes \cup fallback

\* LimitManager.reconcile_account_reservation after a served request; the
\* lease is settled whether or not the script was answered.
Settle(r, n) ==
    /\ pc[r] = "held"
    /\ pc' = [pc EXCEPT ![r] = "closing"]
    /\ settled' = settled \cup {r}
    /\ \/ Ledgerless(r) /\ UNCHANGED <<redisVars, net, faults>>
       \/ /\ ~Ledgerless(r) /\ ReservedTokens = 0 /\ n = 0
          /\ \/ RedisFinalize(r) /\ UNCHANGED <<net, faults>>
             \/ GiveUp(Command("finalize", r, 0))
       \/ /\ ~Ledgerless(r) /\ (ReservedTokens > 0 \/ n > 0)
          /\ \/ RedisReconcile(r, n) /\ UNCHANGED <<net, faults>>
             \/ GiveUp(Command("reconcile", r, n))
    /\ UNCHANGED <<now, heartbeat, up, at, rolledBack, fallback, active, lease,
                   task, reapVars, ghosts>>

\* The request task is cancelled while the script of its settlement is awaited:
\* the lease is not marked, and the caller settles again or rolls back.
SettleCut(r, n) ==
    /\ pc[r] = "held" /\ ~Ledgerless(r)
    /\ GiveUp(IF ReservedTokens > 0 \/ n > 0 THEN Command("reconcile", r, n)
                                            ELSE Command("finalize", r, 0))
    /\ cut' = cut \cup {r}
    /\ UNCHANGED <<now, heartbeat, up, pc, at, leaseVars, task, reapVars, lapsed,
                   acked, thawed>>

\* LimitManager.rollback_account_reservation after a failed request; a missing
\* answer schedules the retry task.
Rollback(r) ==
    /\ pc[r] = "held"
    /\ pc' = [pc EXCEPT ![r] = "closing"]
    /\ rolledBack' = rolledBack \cup {r}
    /\ \/ Ledgerless(r) /\ UNCHANGED <<redisVars, net, faults, task, acked>>
       \/ /\ ~Ledgerless(r) /\ RedisRollback(r)
          /\ acked' = acked \cup {r}
          /\ UNCHANGED <<net, faults, task>>
       \/ /\ ~Ledgerless(r) /\ GiveUp(Command("rollback", r, 0))
          /\ task' = [task EXCEPT ![r] = [kind |-> "retry", left |-> Attempts]]
          /\ UNCHANGED acked
    /\ UNCHANGED <<now, heartbeat, up, at, settled, fallback, active, lease,
                   reapVars, lapsed, cut, thawed>>

\* The request task is cancelled while the rollback script is awaited: no retry
\* is scheduled, and CandidateReservation.rollback never comes to the release.
RollbackCut(r) ==
    /\ pc[r] = "held" /\ ~Ledgerless(r)
    /\ pc' = [pc EXCEPT ![r] = "cancelled"]
    /\ rolledBack' = rolledBack \cup {r}
    /\ GiveUp(Command("rollback", r, 0))
    /\ UNCHANGED <<now, heartbeat, up, at, settled, fallback, active, lease, task,
                   reapVars, ghosts>>

\* release_account_lease: the lease leaves _active_leases, its renewal stops,
\* and ZREM is tried once.
Release(r) ==
    /\ pc[r] = "closing"
    /\ pc' = [pc EXCEPT ![r] = "done"]
    /\ active' = active \ {r}
    /\ lease' = [lease EXCEPT ![r] = 0]
    /\ \/ r \notin active /\ UNCHANGED <<redisVars, net, faults>>
       \/ r \in active /\ RedisRelease(r) /\ UNCHANGED <<net, faults>>
       \/ r \in active /\ GiveUp(Command("release", r, 0))
    /\ UNCHANGED <<now, heartbeat, up, at, settled, rolledBack, fallback, task,
                   reapVars, ghosts>>

\* An upstream error sets a cooldown on the account while r is in flight
\* (ProviderPool._freeze_account with freeze_refresh_on_failure on, the default,
\* then set_account_cooldown): SET ... EX, over whatever is there.  The listing
\* index that is marked next is read by no script.
Cooldown(r, d) ==
    /\ pc[r] = "held"
    /\ acctFreeze' = now + d
    /\ CountLift
    /\ UNCHANGED <<now, conc, entry, total, expiry, index, meta, modelFreeze,
                   heartbeat, net, up, pc, at, leaseVars, task, reapVars,
                   faults, ghosts>>

\* record_account_success of a request that is no test, before it is settled
\* (clear_runtime_freeze_on_success): the mirror says that the account is frozen, as
\* it does once a script has reached a limit or an upstream error has set a cooldown,
\* so a task is started that deletes the freeze key, and nobody waits for it.
Succeed(r) ==
    /\ pc[r] = "held" /\ r \notin Probes \cup thawed
    /\ acctFreeze > now
    /\ thawed' = thawed \cup {r}
    /\ net' = net \cup {Command("thaw", r, 0)}
    /\ UNCHANGED <<now, redisVars, heartbeat, up, pc, at, leaseVars, task, reapVars,
                   faults, lapsed, acked, cut>>

-----------------------------------------------------------------------------
(* Background tasks of a process *)

Countdown(kind, n) == IF n <= 1 THEN NoTask ELSE [kind |-> kind, left |-> n - 1]

\* _cleanup_failed_reservation, first part: one attempt to roll the ledgers back.
CleanupLedger(r) ==
    /\ task[r].kind = "undo"
    /\ task' = [task EXCEPT ![r] = IF Attempts = 0 THEN NoTask
                                   ELSE [kind |-> "free", left |-> Attempts]]
    /\ \/ RedisRollback(r) /\ UNCHANGED <<net, faults>>
       \/ GiveUp(Command("rollback", r, 0))
    /\ UNCHANGED <<now, heartbeat, up, pc, at, leaseVars, reapVars, ghosts>>

\* _cleanup_failed_reservation, second part: ZREM until it removed something,
\* Attempts times at most.
CleanupLease(r) ==
    /\ task[r].kind = "free"
    /\ \/ /\ RedisRelease(r) /\ UNCHANGED <<net, faults>>
          /\ task' = [task EXCEPT ![r] = IF conc[r] # 0 THEN NoTask
                                         ELSE Countdown("free", task[r].left)]
       \/ /\ GiveUp(Command("release", r, 0))
          /\ task' = [task EXCEPT ![r] = Countdown("free", task[r].left)]
    /\ UNCHANGED <<now, heartbeat, up, pc, at, leaseVars, reapVars, ghosts>>

\* _retry_ledger_rollback: until one rollback is answered, Attempts times.
RetryRollback(r) ==
    /\ task[r].kind = "retry"
    /\ \/ /\ RedisRollback(r) /\ UNCHANGED <<net, faults>>
          /\ task' = [task EXCEPT ![r] = NoTask]
          /\ acked' = acked \cup {r}
       \/ /\ GiveUp(Command("rollback", r, 0))
          /\ task' = [task EXCEPT ![r] = Countdown("retry", task[r].left)]
          /\ UNCHANGED acked
    /\ UNCHANGED <<now, heartbeat, up, pc, at, leaseVars, reapVars, lapsed,
                   cut, thawed>>

\* _renew_account_lease, while the lease is in _active_leases.  The next
\* attempt is a third of a lease away, so an earlier one is no longer under way.
Renew(r) ==
    /\ r \in active /\ now <= Horizon
    /\ lease[r] # LeaseEnd(now)
    /\ \A c \in net : c.op = "renew" => c.rid # r
    /\ \/ /\ RedisRenew(r, now) /\ UNCHANGED <<net, faults>>
          /\ lease' = IF conc[r] = 0 THEN lease ELSE [lease EXCEPT ![r] = LeaseEnd(now)]
       \/ GiveUp(Command("renew", r, 0)) /\ UNCHANGED lease
    /\ UNCHANGED <<now, heartbeat, up, pc, at, settled, rolledBack, fallback,
                   active, task, reapVars, ghosts>>

\* _heartbeat_loop: one SET per interval at most; a refresh that fails is a
\* refresh that does not happen.
Heartbeat(p) ==
    /\ p \in up
    /\ heartbeat[p] + HeartbeatEvery <= now + HeartbeatTTL
    /\ heartbeat' = [heartbeat EXCEPT ![p] = now + HeartbeatTTL]
    /\ UNCHANGED <<now, redisVars, net, up, pc, at, leaseVars, task, reapVars,
                   faults, ghosts>>

-----------------------------------------------------------------------------
(* The orphan reaper: reap_orphan_reservations *)

\* SMEMBERS and the meta of each member; the reaper's own ids are skipped.
ReapScan(p) ==
    /\ p \in up /\ scan[p] = {} /\ doomed[p] = {}
    /\ scan' = [scan EXCEPT ![p] = {r \in index : meta[r] > now /\ Owner[r] # p}]
    /\ scan'[p] # {}
    /\ UNCHANGED <<now, redisVars, heartbeat, net, up, pc, at, leaseVars, task,
                   doomed, faults, ghosts>>

\* Mutant: a process is dead as soon as one refresh is late.
ProcessAliveStrict(p) == heartbeat[p] > now + HeartbeatEvery

\* Mutant: the reply of EXISTS is not looked at.
ProcessAliveAlways(p) == heartbeat[p] >= 0

\* process_alive: the owner's heartbeat key exists.
ProcessAlive(p) == heartbeat[p] > now

\* One owner is looked up; an error counts as alive.
ReapCheck(p, r) ==
    /\ p \in up /\ r \in scan[p] /\ doomed[p] = {}
    /\ scan' = [scan EXCEPT ![p] = @ \ {r}]
    /\ \/ /\ doomed' = [doomed EXCEPT ![p] = IF ProcessAlive(Owner[r]) THEN {} ELSE {r}]
          /\ UNCHANGED faults
       \/ /\ faults < MaxFaults /\ faults' = faults + 1
          /\ UNCHANGED doomed
    /\ UNCHANGED <<now, redisVars, heartbeat, net, up, pc, at, leaseVars, task, ghosts>>

\* Roll back and finalize; after an error the index entry is left for the
\* next cycle.
ReapRollback(p, r) ==
    /\ p \in up /\ r \in doomed[p]
    /\ doomed' = [doomed EXCEPT ![p] = {}]
    /\ \/ RedisRollback(r) /\ UNCHANGED <<net, faults>>
       \/ GiveUp(Command("rollback", r, 0))
    /\ UNCHANGED <<now, heartbeat, up, pc, at, leaseVars, task, scan, ghosts>>

-----------------------------------------------------------------------------
(* Process end and time *)

Mine(p) == {r \in Rids : Owner[r] = p}

\* Everything a process keeps in memory is gone.
Gone(p) ==
    /\ up' = up \ {p}
    /\ pc' = [r \in Rids |-> IF r \in Mine(p) THEN "dead" ELSE pc[r]]
    /\ task' = [r \in Rids |-> IF r \in Mine(p) THEN NoTask ELSE task[r]]
    /\ active' = active \ Mine(p)
    /\ lease' = [r \in Rids |-> IF r \in Mine(p) THEN 0 ELSE lease[r]]
    /\ scan' = [scan EXCEPT ![p] = {}]
    /\ doomed' = [doomed EXCEPT ![p] = {}]

Crash(p) ==
    /\ p \in up /\ now <= Horizon
    /\ Gone(p)
    /\ UNCHANGED <<now, redisVars, heartbeat, net, at, settled, rolledBack,
                   fallback, faults, ghosts>>

\* LimitManager.shutdown: the heartbeat stops, every active lease is released
\* (the ones in `late` miss the deadline), the other tasks are cancelled.
Shutdown(p) ==
    /\ p \in up /\ now <= Horizon
    /\ Gone(p)
    /\ \E late \in SUBSET (active \cap Mine(p)) :
          /\ faults + Cardinality(late) <= MaxFaults
          /\ faults' = faults + Cardinality(late)
          /\ net' = net \cup {Command("release", r, 0) : r \in late}
          /\ conc' = [r \in Rids |-> IF r \in (active \cap Mine(p)) \ late
                                     THEN 0 ELSE conc[r]]
    /\ UNCHANGED <<now, entry, total, expiry, index, meta, freezes,
                   heartbeat, at, settled, rolledBack, fallback, ghosts>>

\* Ledger keys that expire at time t, with everything in them.
Expired(m, w, t) == expiry[m][w] # 0 /\ expiry[m][w] <= t

\* What is left at time t of a key that expires at e.
Alive(e, t) == IF e <= t THEN 0 ELSE e

\* Time passes, and Redis drops the keys that expire.  A command given up by
\* its caller does not stay under way for more than one unit.
Tick ==
    /\ now < MaxTime
    /\ \A c \in net : c.at >= now
    /\ now' = now + 1
    /\ entry' = [m \in Metrics |-> [r \in Rids |->
                    IF Expired(m, Win(m, r), now') THEN 0 ELSE entry[m][r]]]
    /\ total' = [m \in Metrics |-> [w \in Times |->
                    IF Expired(m, w, now') THEN 0 ELSE total[m][w]]]
    /\ expiry' = [m \in Metrics |-> [w \in Times |->
                    IF Expired(m, w, now') THEN 0 ELSE expiry[m][w]]]
    /\ meta' = [r \in Rids |-> Alive(meta[r], now')]
    /\ acctFreeze' = Alive(acctFreeze, now')
    /\ modelFreeze' = Alive(modelFreeze, now')
    /\ heartbeat' = [p \in Procs |-> Alive(heartbeat[p], now')]
    /\ lapsed' = lapsed \cup {p \in Procs : heartbeat'[p] = 0}
    /\ UNCHANGED <<conc, index, net, up, pc, at, leaseVars, task, reapVars,
                   faults, acked, cut, thawed, lifts>>

-----------------------------------------------------------------------------
(* The specification *)

Init ==
    /\ now = 0
    /\ conc = [r \in Rids |-> 0]
    /\ entry = [m \in Metrics |-> [r \in Rids |-> 0]]
    /\ total = [m \in Metrics |-> [w \in Times |-> 0]]
    /\ expiry = [m \in Metrics |-> [w \in Times |-> 0]]
    /\ index = {} /\ meta = [r \in Rids |-> 0]
    /\ acctFreeze = 0 /\ modelFreeze = 0
    /\ heartbeat = [p \in Procs |-> HeartbeatTTL]
    /\ net = {} /\ up = Procs
    /\ pc = [r \in Rids |-> "idle"] /\ at = [r \in Rids |-> 0]
    /\ settled = {} /\ rolledBack = {} /\ fallback = {} /\ active = {}
    /\ lease = [r \in Rids |-> 0] /\ task = [r \in Rids |-> NoTask]
    /\ scan = [p \in Procs |-> {}] /\ doomed = [p \in Procs |-> {}]
    /\ faults = 0 /\ lapsed = {} /\ acked = {} /\ cut = {} /\ thawed = {} /\ lifts = 0

RequestStep(r) ==
    \/ Acquire(r) \/ ReserveAnswered(r) \/ ReserveUncertain(r) \/ ReserveCancelled(r)
    \/ \E n \in Actuals : Settle(r, n) \/ SettleCut(r, n)
    \/ Rollback(r) \/ RollbackCut(r) \/ Release(r)
    \/ Succeed(r) \/ \E d \in Cooldowns : Cooldown(r, d)

TaskStep(r) == CleanupLedger(r) \/ CleanupLease(r) \/ RetryRollback(r) \/ Renew(r)

ReapStep(p) ==
    ReapScan(p) \/ \E r \in Rids : ReapCheck(p, r) \/ ReapRollback(p, r)

NetStep == \E c \in net : Land(c) \/ Lose(c)

Next ==
    \/ \E r \in Rids : RequestStep(r) \/ TaskStep(r)
    \/ \E p \in Procs : Heartbeat(p) \/ ReapStep(p) \/ Crash(p) \/ Shutdown(p)
    \/ NetStep
    \/ Tick

Spec == Init /\ [][Next]_vars

\* The event loop runs its tasks, an awaited reply or its deadline comes, a
\* request ends one way or the other, Redis handles or drops what was sent,
\* the reaper keeps cycling, and time passes.  Nothing is assumed of
\* heartbeats, renewals, crashes or new requests.
Fairness ==
    /\ WF_vars(Tick) /\ WF_vars(NetStep)
    /\ \A r \in Rids :
          /\ WF_vars(ReserveAnswered(r) \/ ReserveUncertain(r) \/ ReserveCancelled(r))
          /\ WF_vars((\E n \in Actuals : Settle(r, n)) \/ Rollback(r))
          /\ WF_vars(Release(r))
          /\ WF_vars(CleanupLedger(r) \/ CleanupLease(r) \/ RetryRollback(r))
    /\ \A p \in Procs : WF_vars(ReapStep(p))

FairSpec == Spec /\ Fairness

-----------------------------------------------------------------------------
(* Properties *)

Phases == {"idle", "reserving", "held", "closing", "done", "denied",
           "cancelled", "dead"}

Commands == [op : Ops, rid : Rids, tok : Nat, at : Nat]

Tasks == [kind : {"none", "undo", "free", "retry"}, left : Nat]

RedisTypeOK ==
    /\ conc \in [Rids -> Nat]
    /\ entry \in [Metrics -> [Rids -> Nat]]
    /\ total \in [Metrics -> [Times -> Nat]]
    /\ expiry \in [Metrics -> [Times -> Nat]]
    /\ index \in SUBSET Rids /\ meta \in [Rids -> Nat]
    /\ acctFreeze \in Nat /\ modelFreeze \in Nat /\ lifts \in Nat

ProcessTypeOK ==
    /\ up \in SUBSET Procs
    /\ pc \in [Rids -> Phases] /\ at \in [Rids -> Times]
    /\ settled \in SUBSET Rids /\ rolledBack \in SUBSET Rids
    /\ fallback \in SUBSET Rids /\ active \in SUBSET Rids
    /\ lease \in [Rids -> Nat] /\ task \in [Rids -> Tasks]
    /\ scan \in [Procs -> SUBSET Rids] /\ doomed \in [Procs -> SUBSET Rids]

\* Every variable stays in its type; in particular no ledger amount or total
\* becomes negative, and a window id stays on the clock.
TypeOK ==
    /\ now \in Times /\ RedisTypeOK /\ heartbeat \in [Procs -> Nat]
    /\ net \in SUBSET Commands /\ faults \in Nat
    /\ ProcessTypeOK
    /\ lapsed \in SUBSET Procs /\ acked \in SUBSET Rids /\ cut \in SUBSET Rids
    /\ thawed \in SUBSET Rids

\* The account's ZSET never holds more members than its limit, expired ones
\* included: reserve prunes, counts and adds in one script, and no renewal,
\* late command or cleanup adds a member.
ConcurrencyWithinLimit ==
    ConcurrentLimit > 0 => Cardinality(Members(conc)) <= ConcurrentLimit

\* A lease that a process believes to hold (in _active_leases, expires_at not
\* reached) is backed by a ZSET member that lasts as long.
LeaseBacked == \A r \in active : lease[r] > now => conc[r] >= lease[r]

\* Hence over all processes no more requests are in service on unexpired
\* leases than the account allows, whatever calls time out and whichever
\* process dies: what concurrent_limit is for.
ServingWithinLimit ==
    ConcurrentLimit > 0 =>
        Cardinality({r \in active : lease[r] > now}) <= ConcurrentLimit

\* The requests in service: their process believes to hold an unexpired lease.
Serving == {r \in active : lease[r] > now}

Slots == INSTANCE AccountSlots WITH
            Ids <- Rids, Capacity <- ConcurrentLimit,
            holders <- Members(conc), serving <- Serving

\* The account with its ZSET, leases, deadlines and late commands implements
\* Capacity abstract slots: a slot is only granted when one is free, reclaiming
\* never evicts a request in service, a slot is never taken without a grant.
ImplementsSlots == Slots!Spec

\* A slot given back by its request stays free: a renewal that was under way
\* while the lease was released does not bring the member back.
ReleasedStaysOut ==
    [][\A r \in Rids : pc[r] = "done" /\ conc[r] = 0 => conc'[r] = 0]_vars

\* The stored __total of every ledger is the sum of its members, so the
\* clamping at zero in the scripts never hides a loss.
TotalIsSum ==
    \A m \in Metrics, w \in Times :
        total[m][w] = SumFunctionOnSet(entry[m], {r \in Rids : Win(m, r) = w})

\* Once a rollback was answered the failed request is out of every ledger and
\* out of the recovery index for good, whatever arrives late.  The one command
\* that can bring token amounts back is a settlement cut off before it.
RolledBackStaysOut ==
    \A r \in acked :
        /\ r \notin index
        /\ \A m \in Metrics : entry[m][r] > 0 => m \in TokMetrics /\ r \in cut

\* Crash recovery finds everything: an amount in a ledger whose request has
\* not begun to settle is listed in the index, and its meta outlives the ledger.
UnsettledIsRecoverable ==
    \A r \in Rids \ (settled \cup cut), m \in Metrics :
        entry[m][r] > 0 => r \in index /\ meta[r] >= expiry[m][Win(m, r)]

\* A served request keeps its request counts for as long as the window's
\* ledger exists, if its process never missed its heartbeat.
ServedStaysCounted ==
    \A r \in settled \ (fallback \cup Probes), m \in ReqMetrics :
        Owner[r] \notin lapsed /\ expiry[m][Win(m, r)] # 0 => entry[m][r] = 1

\* The ledgers are exact: the total of a window is the sum of the amounts in it,
\* a rolled-back request is out of it and a served one stays in it, whichever
\* scripts are repeated, land late or are run by a reaper.
LedgersExact == TotalIsSum /\ RolledBackStaysOut /\ ServedStaysCounted

\* A window holds no more requests than its limit, and one more for every time the
\* account's freeze was ended before its time: by a success, which deletes the key
\* whatever it was set for, by a cooldown or by a settlement that puts a shorter freeze
\* over it.  Nothing else lets a request past the limit: no late, repeated or lost
\* command, no reaper, no restart, and no window that ends while the freeze of a
\* longer one lasts.
RequestCap ==
    \A m \in ReqMetrics, w \in Times : total[m][w] <= Limit[m] + lifts

\* A slot no process holds any more becomes free or prunable: the lease's own
\* expiry is the last resort after crashes, cancelled reserves and lost ZREMs.
SlotReclaimed ==
    \A r \in Rids : (conc[r] # 0 /\ r \notin active) ~> (conc[r] <= now)

\* What a dead process left in the index is reaped, as long as some process
\* is running and the meta is there.
OrphanReaped ==
    \A r \in Rids : (r \in index /\ pc[r] = "dead") ~>
                        (r \notin index \/ up = {} \/ meta[r] = 0)

=============================================================================
