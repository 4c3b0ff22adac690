----------------------- MODULE AccountReservationProofs -----------------------
(***************************************************************************)
(* Theorems about AccountReservation for every number of requests,         *)
(* processes, metrics and faults, and for every choice of lengths and      *)
(* limits that its assumptions allow:                                      *)
(*                                                                         *)
(*   TypeCorrect    the types, so no ledger amount is ever negative        *)
(*   SlotLimit      the ZSET never holds more members than the limit       *)
(*   BackedLeases   what a process believes to hold, the ZSET holds too    *)
(*   ServingLimit   hence the requests in service are within the limit     *)
(*   FreedSlots     a slot that was given back stays free                  *)
(*   SlotsRefined   the whole implements AccountSlots                      *)
(*   LedgersAreExact, AllRecoverable                                       *)
(*                  the ledgers are exact and recoverable                  *)
(*   RequestsAreCapped                                                     *)
(*                  requests beyond a limit are those the end of a freeze  *)
(*                  before its time has let in                             *)
(***************************************************************************)
EXTENDS AccountReservation, FiniteSetTheorems, WellFoundedInduction, TLAPS

-----------------------------------------------------------------------------
(* Type correctness *)

\* A window id is never later than the time it is taken at.
LEMMA WindowOnClock ==
    ASSUME NEW m \in Metrics, NEW t \in Times
    PROVE  WindowId(m, t) \in Times
<1>1. PICK n \in Nat \ {0} : WinLen[m] = n
  BY NumbersAssumption
<1>2. t \div n \in 0 .. t
  BY DEF Times
<1> QED  BY <1>1, <1>2, NumbersAssumption DEF WindowId, Times

LEMMA WinOnClock ==
    ASSUME TypeOK, NEW m \in Metrics, NEW r \in Rids
    PROVE  Win(m, r) \in Times
BY WindowOnClock DEF TypeOK, ProcessTypeOK, Win

\* What projected() computes is a natural number.
LEMMA ProjectedType ==
    ASSUME TypeOK, NEW m \in Metrics, NEW r \in Rids, NEW n \in Nat
    PROVE  Projected(m, r, n) \in Nat
<1>1. total[m][Win(m, r)] \in Nat /\ entry[m][r] \in Nat
  BY WinOnClock DEF TypeOK, RedisTypeOK
<1> QED  BY <1>1 DEF Projected

LEMMA SetFreezeType ==
    ASSUME NEW old \in Nat, NEW S \in SUBSET Nat, NEW x \in SetFreeze(old, S)
    PROVE  x \in Nat
BY DEF SetFreeze

\* The reserve script keeps the types of the Redis keys.
LEMMA ReserveType ==
    ASSUME TypeOK, NEW r \in Rids, RedisReserve(r)
    PROVE  RedisTypeOK'
<1> DEFINE ms == Meters(r)
           key(m) == IF expiry[m][Win(m, r)] # 0 THEN expiry[m][Win(m, r)]
                     ELSE now + KeyTTL(m, at[r]) + Grace
           over == {m \in ms : Projected(m, r, Amount(m)) >= Limit[m]}
<1>1. now \in Nat /\ at[r] \in Nat /\ LeaseTTL \in Nat /\ Grace \in Nat /\ MetaTTL \in Nat
  BY NumbersAssumption DEF TypeOK, ProcessTypeOK, Times
<1>2. ms \subseteq Metrics
  BY DEF Meters, Metrics
<1>3. \A m \in Metrics : Amount(m) \in Nat
  BY NumbersAssumption DEF Amount
<1>4. \A m \in Metrics : KeyTTL(m, at[r]) \in Nat
  <2> SUFFICES ASSUME NEW m \in Metrics PROVE KeyTTL(m, at[r]) \in Nat
    OBVIOUS
  <2>1. PICK n \in Nat \ {0} : WinLen[m] = n
    BY NumbersAssumption
  <2>2. at[r] % n \in 0 .. (n - 1)
    BY <1>1
  <2> QED  BY <2>1, <2>2 DEF KeyTTL
<1>5. \A m \in Metrics : key(m) \in Nat
  <2> SUFFICES ASSUME NEW m \in Metrics PROVE key(m) \in Nat
    OBVIOUS
  <2>1. Win(m, r) \in Times
    BY WinOnClock
  <2>2. expiry[m][Win(m, r)] \in Nat
    BY <2>1 DEF TypeOK, RedisTypeOK
  <2>3. KeyTTL(m, at[r]) \in Nat
    BY <1>4
  <2> QED  BY <2>2, <2>3, <1>1
<1>6. Pruned(r) \in [Rids -> Nat]
  BY DEF Pruned, TypeOK, RedisTypeOK
<1>7. CASE ~Admits(r)
  <2>1. /\ conc' = IF ~Frozen(r) /\ ConcurrentLimit > 0 THEN Pruned(r) ELSE conc
        /\ UNCHANGED <<entry, total, expiry, index, meta, freezes>>
    BY <1>7 DEF RedisReserve
  <2> QED  BY <2>1, <1>6 DEF TypeOK, RedisTypeOK, freezes
<1>8. CASE Admits(r)
  <2>1. entry' \in [Metrics -> [Rids -> Nat]]
    <3>1. entry' = [m \in Metrics |-> IF m \in ms
                        THEN [entry[m] EXCEPT ![r] = Amount(m)] ELSE entry[m]]
      BY <1>8 DEF RedisReserve
    <3> QED  BY <3>1, <1>3 DEF TypeOK, RedisTypeOK
  <2>2. total' \in [Metrics -> [Times -> Nat]]
    BY <1>8, <1>3, ProjectedType DEF RedisReserve, TypeOK, RedisTypeOK
  <2>3. expiry' \in [Metrics -> [Times -> Nat]]
    <3>1. expiry' = [m \in Metrics |-> IF m \in ms
                            THEN [expiry[m] EXCEPT ![Win(m, r)] = key(m)] ELSE expiry[m]]
      BY <1>8 DEF RedisReserve
    <3> QED  BY <3>1, <1>5 DEF TypeOK, RedisTypeOK
  <2>4. acctFreeze' \in Nat
    <3>1. acctFreeze' \in SetFreeze(acctFreeze, {key(m) : m \in over \ ModelMetrics})
      BY <1>8 DEF RedisReserve
    <3>2. {key(m) : m \in over \ ModelMetrics} \subseteq Nat
      BY <1>2, <1>5
    <3> QED  BY <3>1, <3>2, SetFreezeType DEF TypeOK, RedisTypeOK
  <2>5. modelFreeze' \in Nat
    <3>1. modelFreeze' \in SetFreeze(modelFreeze, {key(m) : m \in over \cap ModelMetrics})
      BY <1>8 DEF RedisReserve
    <3>2. {key(m) : m \in over \cap ModelMetrics} \subseteq Nat
      BY <1>2, <1>5
    <3> QED  BY <3>1, <3>2, SetFreezeType DEF TypeOK, RedisTypeOK
  <2>6. index' \in SUBSET Rids /\ meta' \in [Rids -> Nat]
    <3>1. /\ index' = IF Tracked(r) THEN index \cup {r} ELSE index
          /\ meta' = IF Tracked(r) THEN [meta EXCEPT ![r] = now + MetaTTL] ELSE meta
      BY <1>8 DEF RedisReserve
    <3> QED  BY <3>1, <1>1 DEF TypeOK, RedisTypeOK
  <2>7. conc' \in [Rids -> Nat]
    <3>1. conc' = IF ConcurrentLimit > 0
                  THEN [Pruned(r) EXCEPT ![r] = LeaseEnd(at[r])] ELSE conc
      BY <1>8 DEF RedisReserve
    <3>2. LeaseEnd(at[r]) \in Nat
      BY <1>1 DEF LeaseEnd
    <3> QED  BY <3>1, <3>2, <1>6 DEF TypeOK, RedisTypeOK
  <2>8. lifts' \in Nat
    BY <1>8 DEF RedisReserve, CountLift, TypeOK, RedisTypeOK
  <2> QED  BY <2>1, <2>2, <2>3, <2>4, <2>5, <2>6, <2>7, <2>8 DEF RedisTypeOK
<1> QED  BY <1>7, <1>8

LEMMA RollbackType ==
    ASSUME TypeOK, NEW r \in Rids, RedisRollback(r)
    PROVE  RedisTypeOK'
<1>1. \A m \in Metrics : Projected(m, r, 0) \in Nat
  BY ProjectedType
<1> QED  BY <1>1 DEF RedisRollback, TypeOK, RedisTypeOK, freezes

LEMMA ReconcileType ==
    ASSUME TypeOK, NEW r \in Rids, NEW n \in Nat, RedisReconcile(r, n)
    PROVE  RedisTypeOK'
<1> DEFINE ms == Reconcilable(r, n)
           over == {m \in ms : Projected(m, r, n) >= Limit[m]}
           old(m) == expiry[m][Win(m, r)]
<1>1. ms \subseteq Metrics
  BY DEF Reconcilable, Metrics
<1>2. \A m \in Metrics : Projected(m, r, n) \in Nat
  BY ProjectedType
<1>3. \A m \in Metrics : old(m) \in Nat
  BY WinOnClock DEF TypeOK, RedisTypeOK
<1>4. entry' \in [Metrics -> [Rids -> Nat]] /\ total' \in [Metrics -> [Times -> Nat]]
  BY <1>2 DEF RedisReconcile, TypeOK, RedisTypeOK
<1>5. acctFreeze' \in Nat
  <2>1. acctFreeze' \in SetFreeze(acctFreeze, {old(m) : m \in over \ ModelMetrics})
    BY DEF RedisReconcile
  <2>2. {old(m) : m \in over \ ModelMetrics} \subseteq Nat
    BY <1>1, <1>3
  <2> QED  BY <2>1, <2>2, SetFreezeType DEF TypeOK, RedisTypeOK
<1>6. modelFreeze' \in Nat
  <2>1. modelFreeze' \in SetFreeze(modelFreeze, {old(m) : m \in over \cap ModelMetrics})
    BY DEF RedisReconcile
  <2>2. {old(m) : m \in over \cap ModelMetrics} \subseteq Nat
    BY <1>1, <1>3
  <2> QED  BY <2>1, <2>2, SetFreezeType DEF TypeOK, RedisTypeOK
<1>7. lifts' \in Nat
  BY DEF RedisReconcile, CountLift, TypeOK, RedisTypeOK
<1> QED  BY <1>4, <1>5, <1>6, <1>7 DEF RedisReconcile, TypeOK, RedisTypeOK

LEMMA SmallScriptsType ==
    ASSUME TypeOK, NEW r \in Rids, NEW t \in Nat,
           RedisFinalize(r) \/ RedisRelease(r) \/ RedisRenew(r, t) \/ RedisThaw \/ UNCHANGED redisVars
    PROVE  RedisTypeOK'
<1>1. CASE RedisFinalize(r)
  BY <1>1 DEF RedisFinalize, TypeOK, RedisTypeOK, freezes
<1>2. CASE RedisRelease(r)
  BY <1>2 DEF RedisRelease, TypeOK, RedisTypeOK, freezes
<1>3. CASE RedisRenew(r, t)
  <2>1. LeaseEnd(t) \in Nat
    BY NumbersAssumption DEF LeaseEnd
  <2> QED  BY <1>3, <2>1 DEF RedisRenew, TypeOK, RedisTypeOK, freezes
<1>4. CASE UNCHANGED redisVars
  BY <1>4 DEF redisVars, freezes, TypeOK, RedisTypeOK
<1>5. CASE RedisThaw
  BY <1>5 DEF RedisThaw, CountLift, TypeOK, RedisTypeOK
<1> QED  BY <1>1, <1>2, <1>3, <1>4, <1>5

-----------------------------------------------------------------------------

LEMMA CommandType ==
    ASSUME TypeOK, NEW op \in Ops, NEW r \in Rids, NEW n \in Nat
    PROVE  Command(op, r, n) \in Commands
BY DEF Command, Commands, TypeOK, Times

\* Giving a call up keeps the types of the command set and the fault count.
LEMMA GiveUpType ==
    ASSUME TypeOK, NEW c \in Commands, GiveUp(c)
    PROVE  /\ RedisTypeOK' /\ net' \in SUBSET Commands /\ faults' \in Nat
BY DEF GiveUp, redisVars, freezes, TypeOK, RedisTypeOK

LEMMA TaskType ==
    /\ NoTask \in Tasks
    /\ \A k \in {"undo", "free", "retry"} : [kind |-> k, left |-> Attempts] \in Tasks
    /\ \A k \in {"undo", "free", "retry"}, n \in Nat : Countdown(k, n) \in Tasks
BY NumbersAssumption DEF NoTask, Tasks, Countdown

\* Initially.
LEMMA TypeInit == Init => TypeOK
<1> SUFFICES ASSUME Init PROVE TypeOK
  OBVIOUS
<1>1. now \in Times /\ 0 \in Times
  BY NumbersAssumption DEF Init, Times
<1>2. RedisTypeOK
  BY DEF Init, RedisTypeOK
<1>3. ProcessTypeOK
  BY <1>1, TaskType DEF Init, ProcessTypeOK, Phases
<1> QED  BY <1>1, <1>2, <1>3, NumbersAssumption DEF Init, TypeOK

\* The steps of a request.
LEMMA TypeRequest ==
    ASSUME TypeOK, NEW r \in Rids, RequestStep(r)
    PROVE  TypeOK'
<1>cmd. \A op \in Ops, n \in Nat : Command(op, r, n) \in Commands
  BY CommandType
<1>act. Actuals \subseteq Nat
  BY NumbersAssumption
<1>1. CASE Acquire(r)
  <2>1. Command("reserve", r, 0) \in Commands
    BY CommandType DEF Ops
  <2> QED  BY <1>1, <2>1
      DEF Acquire, TypeOK, RedisTypeOK, ProcessTypeOK, Phases, redisVars, freezes, leaseVars,
          reapVars, ghosts
<1>2. CASE ReserveAnswered(r)
  <2>1. RedisTypeOK'
    BY <1>2, ReserveType DEF ReserveAnswered
  <2>2. net' \in SUBSET Commands
    BY <1>2 DEF ReserveAnswered, TypeOK
  <2>3. LeaseEnd(at[r]) \in Nat
    BY NumbersAssumption DEF LeaseEnd, TypeOK, ProcessTypeOK, Times
  <2>4. ProcessTypeOK'
    BY <1>2, <2>3 DEF ReserveAnswered, TypeOK, ProcessTypeOK, Phases, reapVars
  <2> QED  BY <1>2, <2>1, <2>2, <2>4 DEF ReserveAnswered, TypeOK, ghosts
<1>3. CASE ReserveUncertain(r)
  <2>1. RedisTypeOK'
    BY <1>3 DEF ReserveUncertain, TypeOK, RedisTypeOK, redisVars, freezes
  <2>2. ProcessTypeOK'
    BY <1>3, TaskType DEF ReserveUncertain, TypeOK, ProcessTypeOK, Phases, reapVars
  <2> QED  BY <1>3, <2>1, <2>2 DEF ReserveUncertain, TypeOK, ghosts
<1>4. CASE ReserveCancelled(r)
  <2>1. RedisTypeOK'
    BY <1>4 DEF ReserveCancelled, TypeOK, RedisTypeOK, redisVars, freezes
  <2>2. ProcessTypeOK'
    BY <1>4 DEF ReserveCancelled, TypeOK, ProcessTypeOK, Phases, reapVars, leaseVars
  <2> QED  BY <1>4, <2>1, <2>2 DEF ReserveCancelled, TypeOK, ghosts
<1>5. ASSUME NEW n \in Actuals, Settle(r, n)
      PROVE  TypeOK'
  <2>1. /\ RedisTypeOK' /\ net' \in SUBSET Commands /\ faults' \in Nat
    <3>1. Command("finalize", r, 0) \in Commands /\ Command("reconcile", r, n) \in Commands
      BY <1>cmd, <1>act DEF Ops
    <3>2. CASE UNCHANGED <<redisVars, net, faults>>
      BY <3>2 DEF TypeOK, RedisTypeOK, redisVars, freezes
    <3>3. CASE RedisFinalize(r) /\ UNCHANGED <<net, faults>>
      BY <3>3, SmallScriptsType, 0 \in Nat DEF TypeOK
    <3>4. CASE RedisReconcile(r, n) /\ UNCHANGED <<net, faults>>
      BY <3>4, <1>act, ReconcileType DEF TypeOK
    <3>5. CASE GiveUp(Command("finalize", r, 0)) \/ GiveUp(Command("reconcile", r, n))
      BY <3>1, <3>5, GiveUpType
    <3> QED  BY <1>5, <3>2, <3>3, <3>4, <3>5 DEF Settle
  <2>2. ProcessTypeOK'
    BY <1>5 DEF Settle, TypeOK, ProcessTypeOK, Phases, reapVars
  <2> QED  BY <1>5, <2>1, <2>2 DEF Settle, TypeOK, ghosts
<1>6. ASSUME NEW n \in Actuals, SettleCut(r, n)
      PROVE  TypeOK'
  <2>1. Command("finalize", r, 0) \in Commands /\ Command("reconcile", r, n) \in Commands
    BY <1>cmd, <1>act DEF Ops
  <2>2. /\ RedisTypeOK' /\ net' \in SUBSET Commands /\ faults' \in Nat
    BY <1>6, <2>1, GiveUpType DEF SettleCut
  <2>3. ProcessTypeOK'
    BY <1>6 DEF SettleCut, TypeOK, ProcessTypeOK, leaseVars, reapVars
  <2> QED  BY <1>6, <2>2, <2>3 DEF SettleCut, TypeOK
<1>7. CASE Rollback(r)
  <2>1. /\ RedisTypeOK' /\ net' \in SUBSET Commands /\ faults' \in Nat
    <3>1. Command("rollback", r, 0) \in Commands
      BY <1>cmd DEF Ops
    <3>2. CASE UNCHANGED <<redisVars, net, faults>>
      BY <3>2 DEF TypeOK, RedisTypeOK, redisVars, freezes
    <3>3. CASE RedisRollback(r) /\ UNCHANGED <<net, faults>>
      BY <3>3, RollbackType DEF TypeOK
    <3>4. CASE GiveUp(Command("rollback", r, 0))
      BY <3>1, <3>4, GiveUpType
    <3> QED  BY <1>7, <3>2, <3>3, <3>4 DEF Rollback
  <2>2. task' \in [Rids -> Tasks] /\ acked' \in SUBSET Rids
    BY <1>7, TaskType DEF Rollback, TypeOK, ProcessTypeOK
  <2>3. ProcessTypeOK'
    BY <1>7, <2>2 DEF Rollback, TypeOK, ProcessTypeOK, Phases, reapVars
  <2> QED  BY <1>7, <2>1, <2>2, <2>3 DEF Rollback, TypeOK
<1>8. CASE RollbackCut(r)
  <2>1. Command("rollback", r, 0) \in Commands
    BY <1>cmd DEF Ops
  <2>2. /\ RedisTypeOK' /\ net' \in SUBSET Commands /\ faults' \in Nat
    BY <1>8, <2>1, GiveUpType DEF RollbackCut
  <2>3. ProcessTypeOK'
    BY <1>8 DEF RollbackCut, TypeOK, ProcessTypeOK, Phases, reapVars
  <2> QED  BY <1>8, <2>2, <2>3 DEF RollbackCut, TypeOK, ghosts
<1>9. CASE Release(r)
  <2>1. /\ RedisTypeOK' /\ net' \in SUBSET Commands /\ faults' \in Nat
    <3>1. Command("release", r, 0) \in Commands
      BY <1>cmd DEF Ops
    <3>2. CASE UNCHANGED <<redisVars, net, faults>>
      BY <3>2 DEF TypeOK, RedisTypeOK, redisVars, freezes
    <3>3. CASE RedisRelease(r) /\ UNCHANGED <<net, faults>>
      BY <3>3, SmallScriptsType, 0 \in Nat DEF TypeOK
    <3>4. CASE GiveUp(Command("release", r, 0))
      BY <3>1, <3>4, GiveUpType
    <3> QED  BY <1>9, <3>2, <3>3, <3>4 DEF Release
  <2>2. ProcessTypeOK'
    BY <1>9 DEF Release, TypeOK, ProcessTypeOK, Phases, reapVars
  <2> QED  BY <1>9, <2>1, <2>2 DEF Release, TypeOK, ghosts
<1>10. ASSUME NEW d \in Cooldowns, Cooldown(r, d)
       PROVE  TypeOK'
  <2>1. RedisTypeOK'
    BY <1>10, NumbersAssumption DEF Cooldown, CountLift, TypeOK, RedisTypeOK, Times
  <2>2. ProcessTypeOK'
    BY <1>10 DEF Cooldown, TypeOK, ProcessTypeOK, leaseVars, reapVars
  <2> QED  BY <1>10, <2>1, <2>2 DEF Cooldown, TypeOK, ghosts
<1>11. CASE Succeed(r)
  <2>1. Command("thaw", r, 0) \in Commands
    BY CommandType DEF Ops
  <2> QED  BY <1>11, <2>1
      DEF Succeed, TypeOK, RedisTypeOK, ProcessTypeOK, redisVars, freezes, leaseVars, reapVars
<1> QED  BY <1>1, <1>2, <1>3, <1>4, <1>5, <1>6, <1>7, <1>8, <1>9, <1>10, <1>11 DEF RequestStep

\* The steps of the background tasks.
LEMMA TypeTask ==
    ASSUME TypeOK, NEW r \in Rids, TaskStep(r)
    PROVE  TypeOK'
<1>cmd. \A op \in Ops, n \in Nat : Command(op, r, n) \in Commands
  BY CommandType
<1>left. task[r].left \in Nat
  BY DEF TypeOK, ProcessTypeOK, Tasks
<1>undo. ASSUME \/ RedisRollback(r) /\ UNCHANGED <<net, faults>>
                \/ GiveUp(Command("rollback", r, 0))
         PROVE  /\ RedisTypeOK' /\ net' \in SUBSET Commands /\ faults' \in Nat
  <2>1. Command("rollback", r, 0) \in Commands
    BY <1>cmd DEF Ops
  <2> QED  BY <1>undo, <2>1, RollbackType, GiveUpType DEF TypeOK
<1>1. CASE CleanupLedger(r)
  <2>1. ProcessTypeOK'
    BY <1>1, TaskType DEF CleanupLedger, TypeOK, ProcessTypeOK, leaseVars, reapVars
  <2> QED  BY <1>1, <1>undo, <2>1 DEF CleanupLedger, TypeOK, ghosts
<1>2. CASE CleanupLease(r)
  <2>1. /\ RedisTypeOK' /\ net' \in SUBSET Commands /\ faults' \in Nat
    <3>1. Command("release", r, 0) \in Commands
      BY <1>cmd DEF Ops
    <3>2. CASE RedisRelease(r) /\ UNCHANGED <<net, faults>>
      BY <3>2, SmallScriptsType, 0 \in Nat DEF TypeOK
    <3>3. CASE GiveUp(Command("release", r, 0))
      BY <3>1, <3>3, GiveUpType
    <3> QED  BY <1>2, <3>2, <3>3 DEF CleanupLease
  <2>2. task' \in [Rids -> Tasks]
    BY <1>2, <1>left, TaskType DEF CleanupLease, TypeOK, ProcessTypeOK
  <2>3. ProcessTypeOK'
    BY <1>2, <2>2 DEF CleanupLease, TypeOK, ProcessTypeOK, leaseVars, reapVars
  <2> QED  BY <1>2, <2>1, <2>3 DEF CleanupLease, TypeOK, ghosts
<1>3. CASE RetryRollback(r)
  <2>1. task' \in [Rids -> Tasks] /\ acked' \in SUBSET Rids
    BY <1>3, <1>left, TaskType DEF RetryRollback, TypeOK, ProcessTypeOK
  <2>2. ProcessTypeOK'
    BY <1>3, <2>1 DEF RetryRollback, TypeOK, ProcessTypeOK, leaseVars, reapVars
  <2> QED  BY <1>3, <1>undo, <2>1, <2>2 DEF RetryRollback, TypeOK
<1>4. CASE Renew(r)
  <2>1. now \in Nat /\ LeaseEnd(now) \in Nat
    BY NumbersAssumption DEF LeaseEnd, TypeOK, Times
  <2>2. /\ RedisTypeOK' /\ net' \in SUBSET Commands /\ faults' \in Nat
    <3>1. Command("renew", r, 0) \in Commands
      BY <1>cmd DEF Ops
    <3>2. CASE RedisRenew(r, now) /\ UNCHANGED <<net, faults>>
      BY <3>2, <2>1, SmallScriptsType DEF TypeOK
    <3>3. CASE GiveUp(Command("renew", r, 0))
      BY <3>1, <3>3, GiveUpType
    <3> QED  BY <1>4, <3>2, <3>3 DEF Renew
  <2>3. ProcessTypeOK'
    BY <1>4, <2>1 DEF Renew, TypeOK, ProcessTypeOK, reapVars
  <2> QED  BY <1>4, <2>2, <2>3 DEF Renew, TypeOK, ghosts
<1> QED  BY <1>1, <1>2, <1>3, <1>4 DEF TaskStep

\* The steps of a process: heartbeat, reaper, crash and shutdown.
LEMMA TypeProcess ==
    ASSUME TypeOK, NEW p \in Procs,
           Heartbeat(p) \/ ReapStep(p) \/ Crash(p) \/ Shutdown(p)
    PROVE  TypeOK'
<1>same. ASSUME UNCHANGED redisVars PROVE RedisTypeOK'
  BY <1>same DEF redisVars, freezes, TypeOK, RedisTypeOK
<1>gone. ASSUME Gone(p), UNCHANGED <<at, settled, rolledBack, fallback>>
         PROVE  ProcessTypeOK'
  BY <1>gone, TaskType DEF Gone, TypeOK, ProcessTypeOK, Phases
<1>1. CASE Heartbeat(p)
  <2>1. heartbeat' \in [Procs -> Nat]
    BY <1>1, NumbersAssumption DEF Heartbeat, TypeOK, Times
  <2>2. ProcessTypeOK'
    BY <1>1 DEF Heartbeat, TypeOK, ProcessTypeOK, leaseVars, reapVars
  <2> QED  BY <1>1, <1>same, <2>1, <2>2 DEF Heartbeat, TypeOK, ghosts
<1>2. CASE ReapScan(p)
  <2>1. ProcessTypeOK'
    BY <1>2 DEF ReapScan, TypeOK, RedisTypeOK, ProcessTypeOK, leaseVars
  <2> QED  BY <1>2, <1>same, <2>1 DEF ReapScan, TypeOK, ghosts
<1>3. ASSUME NEW r \in Rids, ReapCheck(p, r)
      PROVE  TypeOK'
  <2>1. faults' \in Nat /\ doomed' \in [Procs -> SUBSET Rids]
    BY <1>3 DEF ReapCheck, TypeOK, ProcessTypeOK
  <2>2. ProcessTypeOK'
    BY <1>3, <2>1 DEF ReapCheck, TypeOK, ProcessTypeOK, leaseVars
  <2> QED  BY <1>3, <1>same, <2>1, <2>2 DEF ReapCheck, TypeOK, ghosts
<1>4. ASSUME NEW r \in Rids, ReapRollback(p, r)
      PROVE  TypeOK'
  <2>1. /\ RedisTypeOK' /\ net' \in SUBSET Commands /\ faults' \in Nat
    <3>1. Command("rollback", r, 0) \in Commands
      BY CommandType, 0 \in Nat DEF Ops
    <3>2. CASE RedisRollback(r) /\ UNCHANGED <<net, faults>>
      BY <3>2, RollbackType DEF TypeOK
    <3>3. CASE GiveUp(Command("rollback", r, 0))
      BY <3>1, <3>3, GiveUpType
    <3> QED  BY <1>4, <3>2, <3>3 DEF ReapRollback
  <2>2. ProcessTypeOK'
    BY <1>4 DEF ReapRollback, TypeOK, ProcessTypeOK, leaseVars
  <2> QED  BY <1>4, <2>1, <2>2 DEF ReapRollback, TypeOK, ghosts
<1>5. CASE Crash(p)
  BY <1>5, <1>same, <1>gone DEF Crash, TypeOK, ghosts
<1>6. CASE Shutdown(p)
  <2>1. PICK late \in SUBSET (active \cap Mine(p)) :
           /\ faults' = faults + Cardinality(late)
           /\ net' = net \cup {Command("release", r, 0) : r \in late}
           /\ conc' = [r \in Rids |-> IF r \in (active \cap Mine(p)) \ late
                                      THEN 0 ELSE conc[r]]
    BY <1>6 DEF Shutdown
  <2>2. late \in SUBSET Rids
    BY <2>1 DEF TypeOK, ProcessTypeOK
  <2>3. Cardinality(late) \in Nat
    BY <2>2, SetsAssumption, FS_Subset, FS_CardinalityType
  <2>4. \A r \in late : Command("release", r, 0) \in Commands
    BY <2>2, CommandType, 0 \in Nat DEF Ops
  <2>5. RedisTypeOK'
    BY <1>6, <2>1 DEF Shutdown, TypeOK, RedisTypeOK, freezes
  <2>6. ProcessTypeOK'
    BY <1>6, <1>gone DEF Shutdown
  <2> QED  BY <1>6, <2>1, <2>3, <2>4, <2>5, <2>6 DEF Shutdown, TypeOK, ghosts
<1> QED  BY <1>1, <1>2, <1>3, <1>4, <1>5, <1>6 DEF ReapStep

\* A command that reaches Redis without its caller, or is lost.
LEMMA TypeNet ==
    ASSUME TypeOK, NetStep
    PROVE  TypeOK'
<1>1. PICK c \in net : Land(c) \/ Lose(c)
  BY DEF NetStep
<1>2. c.op \in Ops /\ c.rid \in Rids /\ c.tok \in Nat /\ c.at \in Nat
  BY DEF TypeOK, Commands
<1>3. RedisTypeOK'
  <2>1. CASE Lose(c)
    BY <2>1 DEF Lose, redisVars, freezes, TypeOK, RedisTypeOK
  <2>2. CASE Land(c)
    <3>1. CASE c.op = "reserve"
      BY <2>2, <3>1, <1>2, ReserveType DEF Land
    <3>2. CASE c.op = "rollback"
      BY <2>2, <3>2, <1>2, RollbackType DEF Land
    <3>3. CASE c.op = "reconcile"
      BY <2>2, <3>3, <1>2, ReconcileType DEF Land
    <3>4. CASE c.op = "finalize"
      BY <2>2, <3>4, <1>2, SmallScriptsType DEF Land
    <3>5. CASE c.op = "release"
      BY <2>2, <3>5, <1>2, SmallScriptsType DEF Land
    <3>6. CASE c.op = "renew"
      <4>1. RedisRenew(c.rid, c.at)
        BY <2>2, <3>6 DEF Land
      <4> QED  BY <4>1, <1>2, SmallScriptsType
    <3>7. CASE c.op = "thaw"
      BY <2>2, <3>7, <1>2, SmallScriptsType DEF Land
    <3> QED  BY <1>2, <3>1, <3>2, <3>3, <3>4, <3>5, <3>6, <3>7 DEF Ops
  <2> QED  BY <1>1, <2>1, <2>2
<1>4. ProcessTypeOK'
  BY <1>1 DEF Land, Lose, TypeOK, ProcessTypeOK, leaseVars, reapVars
<1> QED  BY <1>1, <1>3, <1>4 DEF Land, Lose, TypeOK, ghosts

\* The clock, with the keys that expire.
LEMMA TypeTick ==
    ASSUME TypeOK, Tick
    PROVE  TypeOK'
<1>1. now' \in Times /\ now' \in Nat
  BY NumbersAssumption DEF Tick, TypeOK, Times
<1>2. \A e \in Nat : Alive(e, now') \in Nat
  BY DEF Alive
<1>3. entry' \in [Metrics -> [Rids -> Nat]]
  BY DEF Tick, TypeOK, RedisTypeOK
<1>4. total' \in [Metrics -> [Times -> Nat]]
  BY DEF Tick, TypeOK, RedisTypeOK
<1>5. expiry' \in [Metrics -> [Times -> Nat]]
  BY DEF Tick, TypeOK, RedisTypeOK
<1>6. RedisTypeOK'
  BY <1>2, <1>3, <1>4, <1>5 DEF Tick, TypeOK, RedisTypeOK
<1>7. heartbeat' \in [Procs -> Nat]
  BY <1>2 DEF Tick, TypeOK
<1>8. ProcessTypeOK'
  BY DEF Tick, TypeOK, ProcessTypeOK, leaseVars, reapVars
<1> QED  BY <1>1, <1>6, <1>7, <1>8 DEF Tick, TypeOK

LEMMA TypeStep == TypeOK /\ [Next]_vars => TypeOK'
<1> SUFFICES ASSUME TypeOK, [Next]_vars PROVE TypeOK'
  OBVIOUS
<1>1. CASE UNCHANGED vars
  BY <1>1 DEF vars, redisVars, freezes, leaseVars, reapVars, ghosts, TypeOK, RedisTypeOK,
              ProcessTypeOK
<1>2. CASE Next
  BY <1>2, TypeRequest, TypeTask, TypeProcess, TypeNet, TypeTick DEF Next
<1> QED  BY <1>1, <1>2

\* Every variable keeps its type in every behaviour: no script, late command,
\* expiry or retry makes a ledger amount or total negative.
THEOREM TypeCorrect == Spec => []TypeOK
BY TypeInit, TypeStep, PTL DEF Spec

-----------------------------------------------------------------------------
(* The members of the ZSET *)

\* A step leaves the ZSET's members alone, drops some, or carries out a reserve
\* command that found room among the unexpired ones.
MembersStep ==
    \/ Members(conc') \subseteq Members(conc)
    \/ \E c \in net : /\ c.op = "reserve" /\ ConcurrentLimit > 0 /\ ~Full(c.rid)
                      /\ Members(conc') \subseteq Members(Pruned(c.rid)) \cup {c.rid}

LEMMA MembersReserve ==
    ASSUME TypeOK, NEW r \in Rids, RedisReserve(r),
           \E c \in net : c.op = "reserve" /\ c.rid = r
    PROVE  MembersStep
<1>1. Pruned(r) \in [Rids -> Nat] /\ Members(Pruned(r)) \subseteq Members(conc)
  BY DEF Pruned, Members, TypeOK, RedisTypeOK
<1>2. CASE ~Admits(r)
  <2>1. conc' = IF ~Frozen(r) /\ ConcurrentLimit > 0 THEN Pruned(r) ELSE conc
    BY <1>2 DEF RedisReserve
  <2> QED  BY <2>1, <1>1 DEF MembersStep
<1>3. CASE Admits(r)
  <2>1. conc' = IF ConcurrentLimit > 0
                THEN [Pruned(r) EXCEPT ![r] = LeaseEnd(at[r])] ELSE conc
    BY <1>3 DEF RedisReserve
  <2>2. CASE ConcurrentLimit > 0
    <3>1. Members(conc') \subseteq Members(Pruned(r)) \cup {r}
      BY <2>1, <2>2, <1>1 DEF Members
    <3>2. PICK c \in net : c.op = "reserve" /\ c.rid = r
      OBVIOUS
    <3> QED  BY <2>2, <3>1, <3>2, <1>3 DEF MembersStep, Admits
  <2>3. CASE ~(ConcurrentLimit > 0)
    BY <2>1, <2>3 DEF MembersStep
  <2> QED  BY <2>2, <2>3
<1> QED  BY <1>2, <1>3

LEMMA MembersSmall ==
    ASSUME TypeOK, NEW r \in Rids, NEW t \in Nat,
           RedisRelease(r) \/ RedisRenew(r, t) \/ UNCHANGED conc
    PROVE  Members(conc') \subseteq Members(conc)
BY DEF RedisRelease, RedisRenew, Members, TypeOK, RedisTypeOK

\* A step that carries out no reserve command adds no member.
LEMMA MembersOther ==
    ASSUME TypeOK, [Next]_vars, \A r \in Rids : ~ReserveAnswered(r),
           \A c \in net : c.op = "reserve" => ~Land(c)
    PROVE  Members(conc') \subseteq Members(conc)
<1>same. ASSUME UNCHANGED conc PROVE Members(conc') \subseteq Members(conc)
  BY <1>same
<1>1. ASSUME NEW r \in Rids, RequestStep(r) PROVE Members(conc') \subseteq Members(conc)
  <2>2. CASE Release(r) /\ RedisRelease(r)
    BY <2>2, MembersSmall, 0 \in Nat
  <2>3. CASE Acquire(r) \/ ReserveUncertain(r) \/ ReserveCancelled(r)
    BY <2>3, <1>same DEF Acquire, ReserveUncertain, ReserveCancelled, redisVars
  <2>4. CASE \E n \in Actuals : Settle(r, n) \/ SettleCut(r, n)
    BY <2>4, <1>same DEF Settle, SettleCut, RedisFinalize, RedisReconcile, GiveUp, redisVars, freezes
  <2>5. CASE Rollback(r) \/ RollbackCut(r)
    BY <2>5, <1>same DEF Rollback, RollbackCut, RedisRollback, GiveUp, redisVars, freezes
  <2>6. CASE Release(r) /\ ~RedisRelease(r)
    BY <2>6, <1>same DEF Release, GiveUp, redisVars, freezes
  <2>7. CASE \E d \in Cooldowns : Cooldown(r, d)
    BY <2>7, <1>same DEF Cooldown
  <2>8. CASE Succeed(r)
    BY <2>8, <1>same DEF Succeed, redisVars
  <2> QED  BY <1>1, <2>2, <2>3, <2>4, <2>5, <2>6, <2>7, <2>8 DEF RequestStep
<1>2. ASSUME NEW r \in Rids, TaskStep(r) PROVE Members(conc') \subseteq Members(conc)
  <2>1. CASE CleanupLedger(r) \/ RetryRollback(r)
    BY <2>1, <1>same DEF CleanupLedger, RetryRollback, RedisRollback, GiveUp, redisVars, freezes
  <2>2. CASE CleanupLease(r)
    <3>1. RedisRelease(r) \/ UNCHANGED conc
      BY <2>2 DEF CleanupLease, GiveUp, redisVars, freezes
    <3> QED  BY <3>1, MembersSmall, 0 \in Nat
  <2>3. CASE Renew(r)
    <3>1. RedisRenew(r, now) \/ UNCHANGED conc
      BY <2>3 DEF Renew, GiveUp, redisVars, freezes
    <3>2. now \in Nat
      BY DEF TypeOK, Times
    <3> QED  BY <3>1, <3>2, MembersSmall
  <2> QED  BY <1>2, <2>1, <2>2, <2>3 DEF TaskStep
<1>3. ASSUME NEW p \in Procs, Heartbeat(p) \/ ReapStep(p) \/ Crash(p) \/ Shutdown(p)
      PROVE  Members(conc') \subseteq Members(conc)
  <2>1. CASE Heartbeat(p) \/ Crash(p)
    BY <2>1, <1>same DEF Heartbeat, Crash, redisVars, freezes
  <2>2. CASE ReapStep(p)
    BY <2>2, <1>same DEF ReapStep, ReapScan, ReapCheck, ReapRollback, RedisRollback,
                         GiveUp, redisVars, freezes
  <2>3. CASE Shutdown(p)
    <3>1. PICK late \in SUBSET (active \cap Mine(p)) :
             conc' = [r \in Rids |-> IF r \in (active \cap Mine(p)) \ late
                                     THEN 0 ELSE conc[r]]
      BY <2>3 DEF Shutdown
    <3> QED  BY <3>1 DEF Members
  <2> QED  BY <1>3, <2>1, <2>2, <2>3
<1>4. CASE NetStep
  <2>1. PICK c \in net : Land(c) \/ Lose(c)
    BY <1>4 DEF NetStep
  <2>2. c.op \in Ops /\ c.rid \in Rids /\ c.tok \in Nat /\ c.at \in Nat
    BY DEF TypeOK, Commands
  <2>3. CASE Lose(c)
    BY <2>3, <1>same DEF Lose, redisVars, freezes
  <2>4. CASE Land(c)
    <3>2. CASE c.op \in {"rollback", "reconcile", "finalize", "thaw"}
      BY <2>4, <3>2, <1>same DEF Land, RedisRollback, RedisReconcile, RedisFinalize, RedisThaw
    <3>3. CASE c.op \in {"release", "renew"}
      <4>1. RedisRelease(c.rid) \/ RedisRenew(c.rid, c.at)
        BY <2>4, <3>3 DEF Land
      <4> QED  BY <4>1, <2>2, MembersSmall
    <3> QED  BY <2>2, <2>4, <3>2, <3>3 DEF Ops
  <2> QED  BY <2>1, <2>3, <2>4
<1>5. CASE Tick
  BY <1>5, <1>same DEF Tick
<1>6. CASE UNCHANGED vars
  BY <1>6, <1>same DEF vars, redisVars, freezes
<1> QED  BY <1>1, <1>2, <1>3, <1>4, <1>5, <1>6 DEF Next

\* Every step of the system changes the members as MembersStep says.
LEMMA MembersNext ==
    ASSUME TypeOK, [Next]_vars
    PROVE  MembersStep
<1>1. ASSUME NEW r \in Rids, ReserveAnswered(r) PROVE MembersStep
  BY <1>1, MembersReserve DEF ReserveAnswered
<1>2. ASSUME NEW c \in net, c.op = "reserve", Land(c) PROVE MembersStep
  <2>1. c.rid \in Rids
    BY DEF TypeOK, Commands
  <2> QED  BY <1>2, <2>1, MembersReserve DEF Land
<1> QED  BY <1>1, <1>2, MembersOther DEF MembersStep

\* Such a step keeps the number of members within the limit.
LEMMA SlotStep ==
    ASSUME TypeOK, ConcurrencyWithinLimit, [Next]_vars
    PROVE  ConcurrencyWithinLimit'
<1> SUFFICES ASSUME ConcurrentLimit > 0
             PROVE  Cardinality(Members(conc')) <= ConcurrentLimit
  BY DEF ConcurrencyWithinLimit
<1>1. /\ IsFiniteSet(Members(conc)) /\ IsFiniteSet(Members(conc'))
      /\ \A r \in Rids : IsFiniteSet(Members(Pruned(r)))
  BY SetsAssumption, FS_Subset DEF Members
<1>2. CASE Members(conc') \subseteq Members(conc)
  <2>1. Cardinality(Members(conc')) <= Cardinality(Members(conc))
    BY <1>1, <1>2, FS_Subset
  <2>2. Cardinality(Members(conc)) \in Nat /\ Cardinality(Members(conc')) \in Nat
    BY <1>1, FS_CardinalityType
  <2> QED  BY <2>1, <2>2, NumbersAssumption DEF ConcurrencyWithinLimit
<1>3. ASSUME NEW r \in Rids, ~Full(r),
             Members(conc') \subseteq Members(Pruned(r)) \cup {r}
      PROVE  Cardinality(Members(conc')) <= ConcurrentLimit
  <2> DEFINE P == Members(Pruned(r))
  <2>1. IsFiniteSet(P) /\ Cardinality(P) \in Nat
    BY <1>1, FS_CardinalityType
  <2>2. Cardinality(P) < ConcurrentLimit
    BY <1>3, <2>1, NumbersAssumption DEF Full
  <2> HIDE DEF P
  <2>3. IsFiniteSet(P \cup {r}) /\ Cardinality(P \cup {r}) <= Cardinality(P) + 1
    <3>1. /\ IsFiniteSet(P \cup {r})
          /\ Cardinality(P \cup {r}) = IF r \in P THEN Cardinality(P) ELSE Cardinality(P) + 1
      BY <2>1, FS_AddElement
    <3> QED  BY <2>1, <3>1
  <2>4. Cardinality(Members(conc')) <= Cardinality(P \cup {r})
    <3>1. Members(conc') \subseteq P \cup {r}
      BY <1>3 DEF P
    <3> QED  BY <2>3, <3>1, FS_Subset
  <2>5. Cardinality(Members(conc')) \in Nat /\ Cardinality(P \cup {r}) \in Nat
    BY <1>1, <2>3, FS_CardinalityType
  <2> QED  BY <2>1, <2>2, <2>3, <2>4, <2>5, NumbersAssumption
<1>4. \A c \in net : c.rid \in Rids
  BY DEF TypeOK, Commands
<1> QED  BY <1>2, <1>3, <1>4, MembersNext DEF MembersStep

\* The account's ZSET never holds more members than concurrent_limit: reserve
\* prunes, counts and adds in one script, and nothing else adds a member.
THEOREM SlotLimit == Spec => []ConcurrencyWithinLimit
<1>1. Init => ConcurrencyWithinLimit
  <2> SUFFICES ASSUME Init PROVE Cardinality(Members(conc)) <= ConcurrentLimit
    BY DEF ConcurrencyWithinLimit
  <2>1. Members(conc) = {}
    BY DEF Init, Members
  <2> QED  BY <2>1, FS_EmptySet, NumbersAssumption
<1>2. TypeOK /\ ConcurrencyWithinLimit /\ [Next]_vars => ConcurrencyWithinLimit'
  BY SlotStep
<1> QED  BY <1>1, <1>2, TypeCorrect, PTL DEF Spec
-----------------------------------------------------------------------------
(* The inductive invariant of the leases *)

\* A reserve command carries the time of its request and lands before the
\* request has a lease, or for a request that will never have one.
ReserveInv ==
    \A c \in net : c.op = "reserve" =>
        /\ c.tok = 0 /\ c.at = at[c.rid]
        /\ c.rid \notin active
        /\ pc[c.rid] # "idle"
        /\ ConcurrentLimit > 0 => pc[c.rid] \in {"reserving", "denied", "cancelled", "dead"}

\* A release command that is still under way belongs to an ended request.
ReleaseInv ==
    \A c \in net : c.op = "release" => pc[c.rid] \in {"done", "denied", "dead"}

\* A renewal under way brings at least what the process believes to hold.
RenewInv ==
    \A c \in net : c.op = "renew" =>
        /\ pc[c.rid] \notin {"idle", "reserving"}
        /\ lease[c.rid] <= LeaseEnd(c.at)

\* Who is in _active_leases, and who is being cleaned up.
PhaseInv ==
    \A r \in Rids :
        /\ at[r] <= now
        /\ r \in active => pc[r] \in {"held", "closing", "cancelled"}
        /\ task[r].kind \in {"undo", "free"} => pc[r] = "denied"
        /\ lease[r] <= LeaseEnd(now)

LeaseInv == ReserveInv /\ ReleaseInv /\ RenewInv /\ PhaseInv /\ LeaseBacked

LEMMA LeaseInit == Init => LeaseInv
<1>1. Init => LeaseEnd(0) \in Nat
  BY NumbersAssumption DEF LeaseEnd
<1> QED  BY <1>1 DEF Init, LeaseInv, ReserveInv, ReleaseInv, RenewInv, PhaseInv,
                     LeaseBacked, NoTask, LeaseEnd

\* A step that leaves alone what the invariant speaks of.
LEMMA LeaseSame ==
    ASSUME LeaseInv, UNCHANGED <<now, conc, net, pc, at, active, lease, task>>
    PROVE  LeaseInv'
BY DEF LeaseInv, ReserveInv, ReleaseInv, RenewInv, PhaseInv, LeaseBacked

\* A step that gives up a command of another kind, or loses one.
LEMMA LeaseNet ==
    ASSUME LeaseInv, UNCHANGED <<now, conc, pc, at, active, lease, task>>,
           \A c \in net' : c \in net \/ c.op \notin {"reserve", "release", "renew"}
    PROVE  LeaseInv'
BY DEF LeaseInv, ReserveInv, ReleaseInv, RenewInv, PhaseInv, LeaseBacked

\* Pruning drops expired members only, so no believed lease of another id.
LEMMA ReserveKeeps ==
    ASSUME TypeOK, LeaseInv, NEW r \in Rids, RedisReserve(r)
    PROVE  /\ \A q \in active \ {r} : lease[q] > now => conc'[q] >= lease[q]
           /\ Admits(r) /\ ConcurrentLimit > 0 => conc'[r] = LeaseEnd(at[r])
           /\ ~(Admits(r) /\ ConcurrentLimit > 0) /\ r \in active /\ lease[r] > now
                => conc'[r] >= lease[r]
<1>1. \/ conc' = conc
      \/ conc' = Pruned(r)
      \/ conc' = [Pruned(r) EXCEPT ![r] = LeaseEnd(at[r])]
  BY DEF RedisReserve
<1>2. Admits(r) /\ ConcurrentLimit > 0
        => conc' = [Pruned(r) EXCEPT ![r] = LeaseEnd(at[r])]
  BY DEF RedisReserve
<1>3. ~(Admits(r) /\ ConcurrentLimit > 0) => conc' = conc \/ conc' = Pruned(r)
  BY DEF RedisReserve
<1>4. \A q \in active : lease[q] > now => Pruned(r)[q] >= lease[q] /\ conc[q] >= lease[q]
  <2> SUFFICES ASSUME NEW q \in active, lease[q] > now
               PROVE  Pruned(r)[q] >= lease[q] /\ conc[q] >= lease[q]
    OBVIOUS
  <2>1. q \in Rids /\ conc[q] \in Nat /\ lease[q] \in Nat /\ at[r] \in Nat /\ now \in Nat
    BY DEF TypeOK, RedisTypeOK, ProcessTypeOK, Times
  <2>2. conc[q] >= lease[q] /\ at[r] <= now
    BY DEF LeaseInv, LeaseBacked, PhaseInv
  <2> QED  BY <2>1, <2>2 DEF Pruned
<1>5. Pruned(r) \in [Rids -> Nat] /\ active \subseteq Rids
  BY DEF Pruned, TypeOK, RedisTypeOK, ProcessTypeOK
<1> QED  BY <1>1, <1>2, <1>3, <1>4, <1>5

LEMMA LeaseTypes ==
    ASSUME TypeOK
    PROVE  /\ conc \in [Rids -> Nat] /\ lease \in [Rids -> Nat] /\ at \in [Rids -> Nat]
           /\ now \in Nat /\ active \subseteq Rids /\ net \subseteq Commands
           /\ pc \in [Rids -> Phases] /\ task \in [Rids -> Tasks] /\ LeaseTTL \in Nat
BY NumbersAssumption DEF TypeOK, RedisTypeOK, ProcessTypeOK, Times

LEMMA LeaseRequest ==
    ASSUME TypeOK, LeaseInv, NEW r \in Rids, RequestStep(r)
    PROVE  LeaseInv'
<1>types. /\ conc \in [Rids -> Nat] /\ lease \in [Rids -> Nat] /\ at \in [Rids -> Nat]
          /\ now \in Nat /\ active \subseteq Rids /\ net \subseteq Commands
          /\ pc \in [Rids -> Phases] /\ task \in [Rids -> Tasks] /\ LeaseTTL \in Nat
  BY LeaseTypes
<1>1. CASE Acquire(r)
  <2>1. /\ pc[r] = "idle" /\ pc' = [pc EXCEPT ![r] = "reserving"]
        /\ at' = [at EXCEPT ![r] = now]
        /\ net' = net \cup {Command("reserve", r, 0)}
        /\ UNCHANGED <<now, conc, active, lease, task>>
    BY <1>1 DEF Acquire, redisVars, freezes, leaseVars
  <2>2. r \notin active /\ task[r].kind \notin {"undo", "free"}
    BY <2>1 DEF LeaseInv, PhaseInv
  <2>3. ReserveInv'
    BY <1>types, <2>1, <2>2 DEF LeaseInv, ReserveInv, Command, Commands
  <2>4. ReleaseInv' /\ RenewInv'
    BY <1>types, <2>1 DEF LeaseInv, ReleaseInv, RenewInv, Command, Commands
  <2>5. PhaseInv'
    BY <1>types, <2>1, <2>2 DEF LeaseInv, PhaseInv
  <2> QED  BY <2>1, <2>3, <2>4, <2>5 DEF LeaseInv, LeaseBacked
<1>2. CASE ReserveAnswered(r)
  <2>1. /\ pc[r] = "reserving" /\ RedisReserve(r)
        /\ pc' = [pc EXCEPT ![r] = IF Admits(r) THEN "held" ELSE "denied"]
        /\ UNCHANGED <<now, at, task>>
    BY <1>2 DEF ReserveAnswered
  <2>2. PICK c \in net : c.op = "reserve" /\ c.rid = r /\ net' = net \ {c}
    BY <1>2 DEF ReserveAnswered
  <2>3. \/ /\ Admits(r) /\ ConcurrentLimit > 0
           /\ active' = active \cup {r} /\ lease' = [lease EXCEPT ![r] = LeaseEnd(at[r])]
        \/ ~(Admits(r) /\ ConcurrentLimit > 0) /\ UNCHANGED <<active, lease>>
    BY <1>2 DEF ReserveAnswered
  <2>4. r \notin active /\ task[r].kind \notin {"undo", "free"}
    BY <2>1 DEF LeaseInv, PhaseInv
  <2>5. \A d \in net' : d.op = "reserve" => d.rid # r
    <3> SUFFICES ASSUME NEW d \in net', d.op = "reserve", d.rid = r PROVE FALSE
      OBVIOUS
    <3>1. c.tok = d.tok /\ c.at = d.at
      BY <2>2 DEF LeaseInv, ReserveInv
    <3>2. c = d
      BY <1>types, <2>2, <3>1 DEF Commands
    <3> QED  BY <2>2, <3>2
  <2>6. LeaseBacked'
    BY <1>types, <2>1, <2>3, <2>4, ReserveKeeps DEF LeaseBacked, LeaseEnd
  <2>7. ReserveInv'
    BY <1>types, <2>1, <2>2, <2>3, <2>5 DEF LeaseInv, ReserveInv, Commands
  <2>8. ReleaseInv' /\ RenewInv'
    BY <1>types, <2>1, <2>2, <2>3 DEF LeaseInv, ReleaseInv, RenewInv, Commands
  <2>9. PhaseInv'
    BY <1>types, <2>1, <2>3, <2>4 DEF LeaseInv, PhaseInv, LeaseEnd
  <2> QED  BY <2>6, <2>7, <2>8, <2>9 DEF LeaseInv
<1>3. CASE ReserveUncertain(r) \/ ReserveCancelled(r)
  <2>1. /\ pc[r] = "reserving" /\ UNCHANGED <<now, conc, net, at, active, lease>>
        /\ \/ /\ pc' = [pc EXCEPT ![r] = "denied"]
              /\ task' = [task EXCEPT ![r] = [kind |-> "undo", left |-> Attempts]]
           \/ ~(ConcurrentLimit > 0) /\ pc' = [pc EXCEPT ![r] = "held"] /\ task' = task
           \/ pc' = [pc EXCEPT ![r] = "cancelled"] /\ task' = task
    BY <1>3 DEF ReserveUncertain, ReserveCancelled, redisVars, freezes, leaseVars
  <2>2. r \notin active /\ task[r].kind \notin {"undo", "free"}
    BY <2>1 DEF LeaseInv, PhaseInv
  <2>3. ReserveInv'
    BY <1>types, <2>1 DEF LeaseInv, ReserveInv, Commands
  <2>4. ReleaseInv' /\ RenewInv'
    BY <1>types, <2>1 DEF LeaseInv, ReleaseInv, RenewInv, Commands
  <2>5. PhaseInv'
    BY <1>types, <2>1, <2>2 DEF LeaseInv, PhaseInv
  <2> QED  BY <2>1, <2>3, <2>4, <2>5 DEF LeaseInv, LeaseBacked
<1>4. ASSUME pc[r] = "held", pc' = [pc EXCEPT ![r] = "closing"]
                          \/ pc' = [pc EXCEPT ![r] = "cancelled"],
             \/ task' = task
             \/ task' = [task EXCEPT ![r] = [kind |-> "retry", left |-> Attempts]],
             UNCHANGED <<now, conc, at, active, lease>>,
             \A c \in net' : c \in net \/ c.op \notin {"reserve", "release", "renew"}
      PROVE  LeaseInv'
  <2>1. ReserveInv'
    BY <1>types, <1>4 DEF LeaseInv, ReserveInv, Commands
  <2>2. ReleaseInv' /\ RenewInv'
    BY <1>types, <1>4 DEF LeaseInv, ReleaseInv, RenewInv, Commands
  <2>3. PhaseInv'
    BY <1>types, <1>4 DEF LeaseInv, PhaseInv
  <2> QED  BY <1>4, <2>1, <2>2, <2>3 DEF LeaseInv, LeaseBacked
<1>5. ASSUME NEW n \in Actuals, Settle(r, n)
      PROVE  LeaseInv'
  <2>1. /\ conc' = conc
        /\ \A c \in net' : c \in net \/ c.op \notin {"reserve", "release", "renew"}
    BY <1>5 DEF Settle, RedisFinalize, RedisReconcile, GiveUp, Command, redisVars, freezes
  <2> QED  BY <1>4, <1>5, <2>1 DEF Settle
<1>6. ASSUME NEW n \in Actuals, SettleCut(r, n)
      PROVE  LeaseInv'
  <2>1. /\ conc' = conc
        /\ \A c \in net' : c \in net \/ c.op \notin {"reserve", "release", "renew"}
    BY <1>6 DEF SettleCut, GiveUp, Command, redisVars, freezes
  <2> QED  BY <1>6, <2>1, LeaseNet DEF SettleCut, leaseVars
<1>7. CASE Rollback(r) \/ RollbackCut(r)
  <2>1. /\ conc' = conc
        /\ \A c \in net' : c \in net \/ c.op \notin {"reserve", "release", "renew"}
    BY <1>7 DEF Rollback, RollbackCut, RedisRollback, GiveUp, Command, redisVars, freezes
  <2> QED  BY <1>4, <1>7, <2>1 DEF Rollback, RollbackCut
<1>8. CASE Release(r)
  <2>1. /\ pc[r] = "closing" /\ pc' = [pc EXCEPT ![r] = "done"]
        /\ active' = active \ {r} /\ lease' = [lease EXCEPT ![r] = 0]
        /\ UNCHANGED <<now, at, task>>
    BY <1>8 DEF Release
  <2>2. \A q \in Rids \ {r} : conc'[q] = conc[q]
    BY <1>8, <1>types DEF Release, RedisRelease, GiveUp, redisVars, freezes
  <2>4. net' = net \/ net' = net \cup {Command("release", r, 0)}
    BY <1>8 DEF Release, GiveUp
  <2>5. ReserveInv'
    BY <1>types, <2>1, <2>4 DEF LeaseInv, ReserveInv, Commands, Command
  <2>6. ReleaseInv' /\ RenewInv'
    BY <1>types, <2>1, <2>4 DEF LeaseInv, ReleaseInv, RenewInv, Commands, Command, LeaseEnd
  <2>7. PhaseInv'
    BY <1>types, <2>1 DEF LeaseInv, PhaseInv, LeaseEnd
  <2>8. LeaseBacked'
    BY <1>types, <2>1, <2>2 DEF LeaseInv, LeaseBacked
  <2> QED  BY <2>5, <2>6, <2>7, <2>8 DEF LeaseInv
<1>9. ASSUME NEW d \in Cooldowns, Cooldown(r, d)
      PROVE  LeaseInv'
  BY <1>9, LeaseSame DEF Cooldown, leaseVars
<1>10. CASE Succeed(r)
  <2>1. /\ conc' = conc
        /\ \A c \in net' : c \in net \/ c.op \notin {"reserve", "release", "renew"}
    BY <1>10 DEF Succeed, Command, redisVars
  <2> QED  BY <1>10, <2>1, LeaseNet DEF Succeed, leaseVars
<1> QED  BY <1>1, <1>2, <1>3, <1>5, <1>6, <1>7, <1>8, <1>9, <1>10 DEF RequestStep

LEMMA LeaseTask ==
    ASSUME TypeOK, LeaseInv, NEW r \in Rids, TaskStep(r)
    PROVE  LeaseInv'
<1>types. /\ conc \in [Rids -> Nat] /\ lease \in [Rids -> Nat] /\ at \in [Rids -> Nat]
          /\ now \in Nat /\ active \subseteq Rids /\ net \subseteq Commands
          /\ pc \in [Rids -> Phases] /\ task \in [Rids -> Tasks] /\ LeaseTTL \in Nat
  BY LeaseTypes
<1>1. CASE CleanupLedger(r) \/ RetryRollback(r)
  <2>1. /\ UNCHANGED <<now, conc, pc, at, active, lease>>
        /\ \A c \in net' : c \in net \/ c.op \notin {"reserve", "release", "renew"}
    BY <1>1 DEF CleanupLedger, RetryRollback, RedisRollback, GiveUp, Command, redisVars, freezes,
                leaseVars
  <2>2. ReserveInv' /\ ReleaseInv' /\ RenewInv' /\ LeaseBacked'
    BY <2>1 DEF LeaseInv, ReserveInv, ReleaseInv, RenewInv, LeaseBacked
  <2>3. \A q \in Rids : task'[q].kind \in {"undo", "free"} => task[q].kind \in {"undo", "free"}
    BY <1>1, <1>types DEF CleanupLedger, RetryRollback, Countdown, NoTask
  <2> QED  BY <2>1, <2>2, <2>3 DEF LeaseInv, PhaseInv
<1>2. CASE CleanupLease(r)
  <2>1. /\ UNCHANGED <<now, pc, at, active, lease>>
        /\ net' = net \/ net' = net \cup {Command("release", r, 0)}
        /\ \A q \in Rids \ {r} : conc'[q] = conc[q]
    BY <1>2, <1>types DEF CleanupLease, RedisRelease, GiveUp, redisVars, freezes, leaseVars
  <2>2. pc[r] = "denied" /\ r \notin active
    BY <1>2 DEF CleanupLease, LeaseInv, PhaseInv
  <2>3. ReserveInv' /\ RenewInv'
    BY <2>1 DEF LeaseInv, ReserveInv, RenewInv, Command
  <2>4. ReleaseInv'
    BY <2>1, <2>2 DEF LeaseInv, ReleaseInv, Command
  <2>5. LeaseBacked'
    BY <1>types, <2>1, <2>2 DEF LeaseInv, LeaseBacked
  <2>6. \A q \in Rids : task'[q].kind \in {"undo", "free"} => task[q].kind \in {"undo", "free"}
    BY <1>2, <1>types DEF CleanupLease, Countdown, NoTask
  <2> QED  BY <2>1, <2>3, <2>4, <2>5, <2>6 DEF LeaseInv, PhaseInv
<1>3. CASE Renew(r)
  <2>1. /\ r \in active /\ UNCHANGED <<now, pc, at, active, task>>
        /\ \A c \in net : c.op = "renew" => c.rid # r
        /\ \/ /\ RedisRenew(r, now) /\ net' = net
              /\ lease' = IF conc[r] = 0 THEN lease ELSE [lease EXCEPT ![r] = LeaseEnd(now)]
           \/ /\ UNCHANGED <<conc, lease>>
              /\ net' = net \cup {Command("renew", r, 0)}
    BY <1>3 DEF Renew, GiveUp, redisVars, freezes
  <2>2. conc' = conc \/ (conc[r] # 0 /\ conc' = [conc EXCEPT ![r] = LeaseEnd(now)])
    BY <2>1 DEF RedisRenew
  <2>3. ReserveInv' /\ ReleaseInv'
    BY <2>1 DEF LeaseInv, ReserveInv, ReleaseInv, Command
  <2>4. RenewInv'
    <3>1. pc[r] \notin {"idle", "reserving"} /\ lease[r] <= LeaseEnd(now)
      BY <2>1, <1>types DEF LeaseInv, PhaseInv
    <3> QED  BY <1>types, <2>1, <3>1 DEF LeaseInv, RenewInv, Command, Commands
  <2>5. PhaseInv'
    BY <1>types, <2>1 DEF LeaseInv, PhaseInv, LeaseEnd
  <2>6. LeaseBacked'
    <3>1. CASE conc' = conc /\ lease' = lease
      BY <2>1, <3>1 DEF LeaseInv, LeaseBacked
    <3>2. CASE /\ conc' = [conc EXCEPT ![r] = LeaseEnd(now)]
               /\ lease' = [lease EXCEPT ![r] = LeaseEnd(now)]
      BY <1>types, <2>1, <3>2 DEF LeaseInv, LeaseBacked, LeaseEnd
    <3> QED  BY <2>1, <3>1, <3>2 DEF RedisRenew
  <2> QED  BY <2>3, <2>4, <2>5, <2>6 DEF LeaseInv
<1> QED  BY <1>1, <1>2, <1>3 DEF TaskStep

LEMMA LeaseProcess ==
    ASSUME TypeOK, LeaseInv, NEW p \in Procs,
           Heartbeat(p) \/ ReapStep(p) \/ Crash(p) \/ Shutdown(p)
    PROVE  LeaseInv'
<1>types. /\ conc \in [Rids -> Nat] /\ lease \in [Rids -> Nat] /\ at \in [Rids -> Nat]
          /\ now \in Nat /\ active \subseteq Rids /\ net \subseteq Commands
          /\ pc \in [Rids -> Phases] /\ task \in [Rids -> Tasks] /\ LeaseTTL \in Nat
  BY LeaseTypes
<1>1. CASE Heartbeat(p) \/ ReapScan(p) \/ \E r \in Rids : ReapCheck(p, r)
  BY <1>1, LeaseSame DEF Heartbeat, ReapScan, ReapCheck, redisVars, freezes, leaseVars
<1>2. CASE \E r \in Rids : ReapRollback(p, r)
  <2>1. /\ UNCHANGED <<now, conc, pc, at, active, lease, task>>
        /\ \A c \in net' : c \in net \/ c.op \notin {"reserve", "release", "renew"}
    BY <1>2 DEF ReapRollback, RedisRollback, GiveUp, Command, redisVars, freezes, leaseVars
  <2> QED  BY <2>1, LeaseNet
<1>3. CASE Crash(p) \/ Shutdown(p)
  <2>1. /\ UNCHANGED <<now, at>>
        /\ pc' = [r \in Rids |-> IF r \in Mine(p) THEN "dead" ELSE pc[r]]
        /\ task' = [r \in Rids |-> IF r \in Mine(p) THEN NoTask ELSE task[r]]
        /\ active' = active \ Mine(p)
        /\ lease' = [r \in Rids |-> IF r \in Mine(p) THEN 0 ELSE lease[r]]
    BY <1>3 DEF Crash, Shutdown, Gone
  <2>2. \A r \in Rids \ Mine(p) : conc'[r] = conc[r]
    BY <1>3 DEF Crash, Shutdown, redisVars, freezes
  <2>3. \A c \in net' : c \in net \/ (c.op = "release" /\ c.rid \in Mine(p))
    BY <1>3 DEF Crash, Shutdown, Command
  <2>4. Mine(p) \subseteq Rids
    BY DEF Mine
  <2>5. ReserveInv'
    BY <1>types, <2>1, <2>3 DEF LeaseInv, ReserveInv, Commands
  <2>6. ReleaseInv'
    BY <1>types, <2>1, <2>3, <2>4 DEF LeaseInv, ReleaseInv, Commands
  <2>7. RenewInv'
    BY <1>types, <2>1, <2>3 DEF LeaseInv, RenewInv, Commands, LeaseEnd
  <2>8. PhaseInv'
    BY <1>types, <2>1 DEF LeaseInv, PhaseInv, LeaseEnd, NoTask
  <2>9. LeaseBacked'
    BY <1>types, <2>1, <2>2 DEF LeaseInv, LeaseBacked
  <2> QED  BY <2>5, <2>6, <2>7, <2>8, <2>9 DEF LeaseInv
<1> QED  BY <1>1, <1>2, <1>3 DEF ReapStep

LEMMA LeaseNetStep ==
    ASSUME TypeOK, LeaseInv, NetStep
    PROVE  LeaseInv'
<1>types. /\ conc \in [Rids -> Nat] /\ lease \in [Rids -> Nat] /\ at \in [Rids -> Nat]
          /\ now \in Nat /\ active \subseteq Rids /\ net \subseteq Commands
          /\ pc \in [Rids -> Phases] /\ task \in [Rids -> Tasks] /\ LeaseTTL \in Nat
  BY LeaseTypes
<1>1. PICK c \in net : Land(c) \/ Lose(c)
  BY DEF NetStep
<1>2. c.op \in Ops /\ c.rid \in Rids /\ c.tok \in Nat /\ c.at \in Nat
  BY <1>types DEF Commands
<1>3. net' \subseteq net /\ UNCHANGED <<now, pc, at, active, lease, task>>
  BY <1>1 DEF Land, Lose, leaseVars
<1>4. ReserveInv' /\ ReleaseInv' /\ RenewInv' /\ PhaseInv'
  BY <1>3 DEF LeaseInv, ReserveInv, ReleaseInv, RenewInv, PhaseInv
<1>5. LeaseBacked'
  <2>1. CASE Lose(c)
    BY <2>1, <1>3 DEF Lose, redisVars, freezes, LeaseInv, LeaseBacked
  <2>2. CASE Land(c)
    <3>1. CASE c.op = "reserve"
      <4>1. RedisReserve(c.rid) /\ c.rid \notin active
        BY <2>2, <3>1 DEF Land, LeaseInv, ReserveInv
      <4> QED  BY <4>1, <1>2, <1>3, ReserveKeeps DEF LeaseBacked
    <3>2. CASE c.op \in {"rollback", "reconcile", "finalize", "thaw"}
      <4>1. conc' = conc
        BY <2>2, <3>2 DEF Land, RedisRollback, RedisReconcile, RedisFinalize, RedisThaw
      <4> QED  BY <4>1, <1>3 DEF LeaseInv, LeaseBacked
    <3>3. CASE c.op = "release"
      <4>1. conc' = [conc EXCEPT ![c.rid] = 0]
        BY <2>2, <3>3 DEF Land, RedisRelease
      <4>2. c.rid \notin active
        BY <3>3, <1>2 DEF LeaseInv, ReleaseInv, PhaseInv
      <4> QED  BY <4>1, <4>2, <1>types, <1>3 DEF LeaseInv, LeaseBacked
    <3>4. CASE c.op = "renew"
      <4>1. conc' = conc \/ conc' = [conc EXCEPT ![c.rid] = LeaseEnd(c.at)]
        BY <2>2, <3>4 DEF Land, RedisRenew
      <4>2. lease[c.rid] <= LeaseEnd(c.at)
        BY <3>4 DEF LeaseInv, RenewInv
      <4> QED  BY <4>1, <4>2, <1>types, <1>2, <1>3 DEF LeaseInv, LeaseBacked, LeaseEnd
    <3> QED  BY <1>2, <3>1, <3>2, <3>3, <3>4 DEF Ops
  <2> QED  BY <1>1, <2>1, <2>2
<1> QED  BY <1>4, <1>5 DEF LeaseInv

LEMMA LeaseTick ==
    ASSUME TypeOK, LeaseInv, Tick
    PROVE  LeaseInv'
<1>types. /\ conc \in [Rids -> Nat] /\ lease \in [Rids -> Nat] /\ at \in [Rids -> Nat]
          /\ now \in Nat /\ active \subseteq Rids /\ net \subseteq Commands
          /\ pc \in [Rids -> Phases] /\ task \in [Rids -> Tasks] /\ LeaseTTL \in Nat
  BY LeaseTypes
<1>1. now' = now + 1 /\ UNCHANGED <<conc, net, pc, at, active, lease, task>>
  BY DEF Tick, leaseVars
<1>2. ReserveInv' /\ ReleaseInv' /\ RenewInv'
  BY <1>1 DEF LeaseInv, ReserveInv, ReleaseInv, RenewInv
<1>3. PhaseInv'
  BY <1>types, <1>1 DEF LeaseInv, PhaseInv, LeaseEnd
<1>4. LeaseBacked'
  BY <1>types, <1>1 DEF LeaseInv, LeaseBacked
<1> QED  BY <1>2, <1>3, <1>4 DEF LeaseInv

LEMMA LeaseStep == TypeOK /\ LeaseInv /\ [Next]_vars => LeaseInv'
<1> SUFFICES ASSUME TypeOK, LeaseInv, [Next]_vars PROVE LeaseInv'
  OBVIOUS
<1>1. CASE UNCHANGED vars
  BY <1>1, LeaseSame DEF vars, redisVars, freezes, leaseVars
<1>2. CASE Next
  BY <1>2, LeaseRequest, LeaseTask, LeaseProcess, LeaseNetStep, LeaseTick DEF Next
<1> QED  BY <1>1, <1>2

LEMMA LeaseCorrect == Spec => []LeaseInv
BY LeaseInit, LeaseStep, TypeCorrect, PTL DEF Spec

-----------------------------------------------------------------------------
(* What follows *)

\* A lease that a process believes to hold is in the ZSET for as long, whatever
\* renewals and releases miss their deadline and land late.
THEOREM BackedLeases == Spec => []LeaseBacked
<1>1. LeaseInv => LeaseBacked
  BY DEF LeaseInv
<1> QED  BY <1>1, LeaseCorrect, PTL

\* Over all processes no more requests are in service on unexpired leases than
\* concurrent_limit allows.
THEOREM ServingLimit == Spec => []ServingWithinLimit
<1>1. TypeOK /\ ConcurrencyWithinLimit /\ LeaseBacked => ServingWithinLimit
  <2> SUFFICES ASSUME TypeOK, ConcurrencyWithinLimit, LeaseBacked, ConcurrentLimit > 0
               PROVE  Cardinality({r \in active : lease[r] > now}) <= ConcurrentLimit
    BY DEF ServingWithinLimit
  <2> DEFINE S == {r \in active : lease[r] > now}
  <2>1. S \subseteq Members(conc)
    BY LeaseTypes DEF LeaseBacked, Members
  <2>2. IsFiniteSet(Members(conc))
    BY SetsAssumption, FS_Subset DEF Members
  <2>3. IsFiniteSet(S) /\ Cardinality(S) <= Cardinality(Members(conc))
    BY <2>1, <2>2, FS_Subset
  <2>4. Cardinality(S) \in Nat /\ Cardinality(Members(conc)) \in Nat
    BY <2>2, <2>3, FS_CardinalityType
  <2> QED  BY <2>3, <2>4, NumbersAssumption DEF ConcurrencyWithinLimit
<1> QED  BY <1>1, TypeCorrect, SlotLimit, BackedLeases, PTL

\* A slot that its request gave back is never taken again under its id: neither
\* a renewal nor a reserve command that was under way brings the member back.
THEOREM FreedSlots == Spec => ReleasedStaysOut
<1> DEFINE Freed == \A r \in Rids : pc[r] = "done" /\ conc[r] = 0 => conc'[r] = 0
<1>1. ASSUME TypeOK, LeaseInv, [Next]_vars, NEW r \in Rids, pc[r] = "done", conc[r] = 0
      PROVE  conc'[r] = 0
  <2>1. r \notin Members(conc) /\ r \notin active
    BY <1>1 DEF Members, LeaseInv, PhaseInv
  <2>2. CASE Members(conc') \subseteq Members(conc)
    BY <2>1, <2>2 DEF Members
  <2>3. ASSUME NEW c \in net, c.op = "reserve", ConcurrentLimit > 0,
               Members(conc') \subseteq Members(Pruned(c.rid)) \cup {c.rid}
        PROVE  conc'[r] = 0
    <3>1. c.rid # r
      BY <1>1, <2>3 DEF LeaseInv, ReserveInv
    <3>2. r \notin Members(Pruned(c.rid))
      BY <1>1 DEF Members, Pruned
    <3> QED  BY <2>3, <3>1, <3>2 DEF Members
  <2> QED  BY <1>1, <2>2, <2>3, MembersNext DEF MembersStep
<1>2. TypeOK /\ LeaseInv /\ [Next]_vars => [Freed]_vars
  BY <1>1
<1>3. Spec => [][Freed]_vars
  BY <1>2, TypeCorrect, LeaseCorrect, PTL DEF Spec
<1> QED  BY <1>3 DEF ReleasedStaysOut

-----------------------------------------------------------------------------
(* AccountReservation implements AccountSlots.  The members of the ZSET change  *)
(* as MembersNext says.  Who is in service changes in three ways: it shrinks, a *)
(* reserve is answered, or a renewal is answered (ServingNext).  LeaseInv joins *)
(* the two: whoever is in service is a member, before and after the step.       *)

\* A step after which no request is in service that was not before.
Shrinks == Serving' \subseteq Serving

LEMMA ServingShrinks ==
    ASSUME TypeOK, TypeOK', active' \subseteq active, now' >= now,
           \A r \in active' : lease'[r] <= lease[r]
    PROVE  Shrinks
<1>1. /\ active \subseteq Rids /\ active' \subseteq Rids
      /\ now \in Nat /\ now' \in Nat
      /\ lease \in [Rids -> Nat] /\ lease' \in [Rids -> Nat]
  BY DEF TypeOK, ProcessTypeOK, Times
<1> QED  BY <1>1 DEF Shrinks, Serving

\* Only an answered reserve and an answered renewal put a request in service.
LEMMA ServingNext ==
    ASSUME TypeOK, TypeOK', [Next]_vars
    PROVE  \/ Shrinks
           \/ \E r \in Rids : ReserveAnswered(r)
           \/ \E r \in Rids : /\ UNCHANGED <<now, active>> /\ r \in active
                              /\ \A q \in Rids \ {r} : lease'[q] = lease[q]
                              /\ conc[r] # 0
                              /\ conc' = [conc EXCEPT ![r] = LeaseEnd(now)]
<1>types. /\ conc \in [Rids -> Nat] /\ lease \in [Rids -> Nat] /\ at \in [Rids -> Nat]
          /\ now \in Nat /\ active \subseteq Rids
  BY LeaseTypes
<1>same. ASSUME UNCHANGED <<now, active, lease>> PROVE Shrinks
  BY <1>same DEF Shrinks, Serving
<1>1. ASSUME NEW r \in Rids, RequestStep(r), ~ReserveAnswered(r) PROVE Shrinks
  <2>1. CASE Release(r)
    <3>1. now' = now /\ active' \subseteq active /\ lease' = [lease EXCEPT ![r] = 0]
      BY <2>1 DEF Release
    <3>2. \A q \in active' : lease'[q] <= lease[q]
      BY <3>1, <1>types
    <3> QED  BY <3>1, <3>2, <1>types, ServingShrinks
  <2>2. CASE Acquire(r) \/ ReserveUncertain(r) \/ ReserveCancelled(r)
    BY <2>2, <1>same DEF Acquire, ReserveUncertain, ReserveCancelled, leaseVars
  <2>3. CASE \E n \in Actuals : Settle(r, n) \/ SettleCut(r, n)
    BY <2>3, <1>same DEF Settle, SettleCut, leaseVars
  <2>4. CASE Rollback(r) \/ RollbackCut(r)
    BY <2>4, <1>same DEF Rollback, RollbackCut
  <2>5. CASE \E d \in Cooldowns : Cooldown(r, d)
    BY <2>5, <1>same DEF Cooldown, leaseVars
  <2>6. CASE Succeed(r)
    BY <2>6, <1>same DEF Succeed, leaseVars
  <2> QED  BY <1>1, <2>1, <2>2, <2>3, <2>4, <2>5, <2>6 DEF RequestStep
<1>2. ASSUME NEW r \in Rids, CleanupLedger(r) \/ CleanupLease(r) \/ RetryRollback(r)
      PROVE  Shrinks
  BY <1>2, <1>same DEF CleanupLedger, CleanupLease, RetryRollback, leaseVars
<1>3. ASSUME NEW r \in Rids, Renew(r)
      PROVE  \/ Shrinks
             \/ /\ UNCHANGED <<now, active>> /\ r \in active
                /\ \A q \in Rids \ {r} : lease'[q] = lease[q]
                /\ conc[r] # 0
                /\ conc' = [conc EXCEPT ![r] = LeaseEnd(now)]
  <2>1. UNCHANGED <<now, active>> /\ r \in active
    BY <1>3 DEF Renew
  <2>2. CASE lease' = lease
    BY <2>1, <2>2, <1>same
  <2>3. CASE lease' # lease
    <3>1. RedisRenew(r, now) /\ conc[r] # 0 /\ lease' = [lease EXCEPT ![r] = LeaseEnd(now)]
      BY <1>3, <2>3 DEF Renew
    <3> QED  BY <2>1, <3>1, <1>types DEF RedisRenew
  <2> QED  BY <2>2, <2>3
<1>4. ASSUME NEW p \in Procs, Heartbeat(p) \/ ReapStep(p) \/ Crash(p) \/ Shutdown(p)
      PROVE  Shrinks
  <2>1. CASE Heartbeat(p) \/ ReapStep(p)
    BY <2>1, <1>same DEF Heartbeat, ReapStep, ReapScan, ReapCheck, ReapRollback, leaseVars
  <2>2. CASE Crash(p) \/ Shutdown(p)
    <3>1. /\ now' = now /\ active' = active \ Mine(p)
          /\ lease' = [r \in Rids |-> IF r \in Mine(p) THEN 0 ELSE lease[r]]
      BY <2>2 DEF Crash, Shutdown, Gone
    <3>2. \A q \in active' : lease'[q] <= lease[q]
      BY <3>1, <1>types
    <3> QED  BY <3>1, <3>2, <1>types, ServingShrinks
  <2> QED  BY <1>4, <2>1, <2>2
<1>5. CASE NetStep
  BY <1>5, <1>same DEF NetStep, Land, Lose, leaseVars
<1>6. CASE Tick
  <2>1. now' = now + 1 /\ UNCHANGED <<active, lease>>
    BY <1>6 DEF Tick, leaseVars
  <2> QED  BY <2>1, <1>types, ServingShrinks
<1>7. CASE UNCHANGED vars
  BY <1>7, <1>same DEF vars, leaseVars
<1> QED
  BY <1>1, <1>2, <1>3, <1>4, <1>5, <1>6, <1>7 DEF Next, TaskStep

\* Whoever is in service is a member of the ZSET.
LEMMA ServingHolds ==
    ASSUME TypeOK, LeaseBacked
    PROVE  Serving \subseteq Members(conc)
BY LeaseTypes DEF Serving, Members, LeaseBacked

LEMMA SlotsInit == Init => Slots!Init
<1>1. Init => Members(conc) = {} /\ Serving = {}
  BY DEF Init, Members, Serving
<1> QED  BY <1>1 DEF Slots!Init

\* A step that carries out a reserve command is a grant, or reclaims slots.
LEMMA SlotsReserve ==
    ASSUME TypeOK, TypeOK', LeaseInv, LeaseInv', ConcurrentLimit > 0,
           NEW r \in Rids, RedisReserve(r), r \notin active, UNCHANGED now,
           \/ UNCHANGED <<active, lease>>
           \/ /\ Admits(r) /\ active' = active \cup {r}
              /\ lease' = [lease EXCEPT ![r] = LeaseEnd(at[r])]
    PROVE  Slots!Next
<1>types. /\ conc \in [Rids -> Nat] /\ lease \in [Rids -> Nat] /\ at \in [Rids -> Nat]
          /\ now \in Nat /\ active \subseteq Rids
  BY LeaseTypes
<1> DEFINE kept == Members(Pruned(r))
<1>1. kept \subseteq Members(conc)
  BY DEF Pruned, Members
<1>2. Serving \subseteq kept
  <2> SUFFICES ASSUME NEW q \in Serving PROVE q \in kept
    OBVIOUS
  <2>1. q \in Rids /\ lease[q] > now /\ conc[q] >= lease[q] /\ at[r] <= now
    BY <1>types DEF Serving, LeaseInv, LeaseBacked, PhaseInv
  <2> QED  BY <2>1, <1>types DEF Pruned, Members
<1>3. Serving' \subseteq Members(conc)'
  BY SMTT(30), ServingHolds DEF LeaseInv, Serving, Members, TypeOK, RedisTypeOK, ProcessTypeOK,
                      LeaseBacked, Times
<1>4. CASE Admits(r)
  <2>1. conc' = [Pruned(r) EXCEPT ![r] = LeaseEnd(at[r])]
    BY <1>4 DEF RedisReserve
  <2>2. LeaseEnd(at[r]) # 0
    BY <1>types, NumbersAssumption DEF LeaseEnd
  <2>3. Members(conc)' = kept \cup {r}
    BY <2>1, <2>2 DEF Members, Pruned
  <2>4. Cardinality(kept) < ConcurrentLimit
    <3>1. kept \subseteq Rids
      BY DEF Members
    <3>2. Cardinality(kept) \in Nat
      BY <3>1, SetsAssumption, FS_Subset, FS_CardinalityType
    <3> QED  BY <1>4, <3>2, NumbersAssumption DEF Admits, Full
  <2>5. Serving' \in {Serving, Serving \cup {r}}
    <3>1. CASE UNCHANGED <<active, lease>>
      BY <3>1 DEF Serving
    <3>2. CASE /\ active' = active \cup {r}
               /\ lease' = [lease EXCEPT ![r] = LeaseEnd(at[r])]
      <4>1. r \notin Serving
        BY DEF Serving
      <4>2. \A q \in active : q # r /\ lease'[q] = lease[q]
        BY <3>2, <1>types
      <4> QED  BY <3>2, <4>1, <4>2, <1>types DEF Serving
    <3> QED  BY <3>1, <3>2
  <2>6. \A S : Slots!Cardinality(S) = Cardinality(S)
    BY Zenon DEF Slots!Cardinality, Cardinality
  <2> QED  BY <1>1, <1>2, <2>3, <2>4, <2>5, <2>6 DEF Slots!Next, Slots!Grant
<1>5. CASE ~Admits(r)
  <2>1. conc' = conc \/ conc' = Pruned(r)
    BY <1>5 DEF RedisReserve
  <2>2. Members(conc)' \subseteq Members(conc)
    BY <2>1 DEF Members, Pruned
  <2>3. Serving' \subseteq Serving
    BY <1>5 DEF Serving
  <2> QED  BY <1>3, <2>2, <2>3 DEF Slots!Next, Slots!Drop
<1> QED  BY <1>4, <1>5

\* Every step of the system is a step of the slots, or leaves them alone.
LEMMA SlotsStep ==
    ASSUME TypeOK, TypeOK', LeaseInv, LeaseInv', ConcurrentLimit > 0, [Next]_vars
    PROVE  [Slots!Next]_<<Members(conc), Serving>>
<1>types. /\ conc \in [Rids -> Nat] /\ lease \in [Rids -> Nat] /\ at \in [Rids -> Nat]
          /\ now \in Nat /\ active \subseteq Rids /\ net \subseteq Commands
  BY LeaseTypes
<1>1. Serving' \subseteq Members(conc)' /\ Serving \subseteq Members(conc)
  <2>1. /\ conc' \in [Rids -> Nat] /\ lease' \in [Rids -> Nat] /\ now' \in Nat
        /\ active' \subseteq Rids
    BY DEF TypeOK, RedisTypeOK, ProcessTypeOK, Times
  <2> QED  BY <2>1, ServingHolds DEF LeaseInv, LeaseBacked, Serving, Members
<1>2. CASE \E r \in Rids : ReserveAnswered(r)
  <2>1. PICK r \in Rids : ReserveAnswered(r)
    BY <1>2
  <2>2. r \notin active
    BY <2>1 DEF ReserveAnswered, LeaseInv, ReserveInv
  <2>3. RedisReserve(r) /\ UNCHANGED now
    BY <2>1 DEF ReserveAnswered
  <2>4. \/ UNCHANGED <<active, lease>>
        \/ /\ Admits(r) /\ active' = active \cup {r}
           /\ lease' = [lease EXCEPT ![r] = LeaseEnd(at[r])]
    BY <2>1 DEF ReserveAnswered
  <2> QED  BY <2>2, <2>3, <2>4, SlotsReserve
<1>3. CASE \E c \in net : c.op = "reserve" /\ Land(c)
  <2>1. PICK c \in net : c.op = "reserve" /\ Land(c)
    BY <1>3
  <2>2. c.rid \in Rids
    BY <1>types DEF Commands
  <2>3. RedisReserve(c.rid) /\ UNCHANGED <<now, active, lease>>
    BY <2>1 DEF Land, leaseVars
  <2>4. c.rid \notin active
    BY <2>1 DEF LeaseInv, ReserveInv
  <2> QED  BY <2>2, <2>3, <2>4, SlotsReserve
<1>4. ASSUME Members(conc)' \subseteq Members(conc)
      PROVE  [Slots!Next]_<<Members(conc), Serving>>
  <2>1. CASE Shrinks
    BY <1>1, <1>4, <2>1 DEF Shrinks, Slots!Next, Slots!Drop
  <2>2. ASSUME NEW r \in Rids, UNCHANGED <<now, active>>, r \in active, conc[r] # 0,
               \A q \in Rids \ {r} : lease'[q] = lease[q],
               conc' = [conc EXCEPT ![r] = LeaseEnd(now)]
        PROVE  [Slots!Next]_<<Members(conc), Serving>>
    <3>1. Members(conc)' = Members(conc) /\ r \in Members(conc)
      <4>1. LeaseEnd(now) # 0
        BY <1>types, NumbersAssumption DEF LeaseEnd
      <4> QED  BY <2>2, <4>1, <1>types DEF Members
    <3>2. Serving' \subseteq Serving \/ Serving' = Serving \cup {r}
      BY <2>2, <1>types DEF Serving
    <3>3. CASE Serving' \subseteq Serving
      BY <1>1, <3>1, <3>3 DEF Slots!Next, Slots!Drop
    <3>4. CASE Serving' = Serving \cup {r}
      BY <3>1, <3>4 DEF Slots!Next, Slots!Resume
    <3> QED  BY <3>2, <3>3, <3>4
  <2> QED  BY <2>1, <2>2, <1>2, ServingNext
<1>5. CASE ~(\E r \in Rids : ReserveAnswered(r)) /\ ~(\E c \in net : c.op = "reserve" /\ Land(c))
  <2>1. Members(conc)' \subseteq Members(conc)
    BY <1>5, MembersOther
  <2> QED  BY <2>1, <1>4
<1> QED  BY <1>2, <1>3, <1>5

\* The account's Redis scripts, leases, deadlines, clean-up and crash handling
\* implement the abstract slots, for every positive limit.
THEOREM SlotsRefined ==
    ASSUME ConcurrentLimit > 0
    PROVE  Spec => ImplementsSlots
<1>1. TypeOK /\ TypeOK' /\ LeaseInv /\ LeaseInv' /\ [Next]_vars
        => [Slots!Next]_<<Members(conc), Serving>>
  BY SlotsStep
<1> QED  BY <1>1, SlotsInit, TypeCorrect, LeaseCorrect, PTL DEF Spec, Slots!Spec, ImplementsSlots


-----------------------------------------------------------------------------
(***************************************************************************)
(* The ledgers of the account are exact and recoverable, for all requests, *)
(* processes, metrics, windows, lengths and numbers of faults.             *)
(*                                                                         *)
(* Two inductive invariants.  ControlInv is about who may still send which *)
(* command; it does not mention the ledgers.  With it every step is one of *)
(* six kinds as far as the ledgers are concerned (LedgerKinds), and        *)
(* LedgerInv is kept by each of them.                                      *)
(***************************************************************************)

-----------------------------------------------------------------------------
(***************************************************************************)
(* What SumFunctionOnSet adds up to, for functions into the naturals and   *)
(* finite sets of any size: the sum does not depend on the order in which  *)
(* its definition picks the members, so a member can be split off.         *)
(*                                                                         *)
(* The induction is over the finite sets themselves: of the sets for which *)
(* a fact fails there would be a smallest one (Smallest), and for that one *)
(* the fact follows from smaller sets.                                     *)
(***************************************************************************)

\* The member the definition of the fold takes out first.
First(s) == CHOOSE x \in s : TRUE

Rest(s) == s \ {First(s)}

\* g is the function the fold over S defines recursively, on the subsets of S.
IsSum(g, f, S) == g = [s \in SUBSET S |-> IF s = {} THEN 0 ELSE f[First(s)] + g[Rest(s)]]

LEMMA SumDef == \A f, S : SumFunctionOnSet(f, S) = (CHOOSE g : IsSum(g, f, S))[S]
  BY DEF SumFunctionOnSet, FoldFunctionOnSet, MapThenFoldSet, IsSum, First, Rest

\* Among subsets of a finite set there is one that contains no other of them.
LEMMA Smallest ==
    ASSUME NEW S, IsFiniteSet(S), NEW T, T \subseteq SUBSET S, T # {}
    PROVE  \E t \in T : \A u \in T : u \subseteq t => u = t
  <1>1. IsWellFoundedOn(StrictSubsetOrdering(S), SUBSET S)
    BY FS_StrictSubsetOrderingWellFounded, FS_FiniteSubsetsOfFinite
  <1>2. PICK t \in T : \A u \in T : ~(<<u, t>> \in StrictSubsetOrdering(S))
    BY <1>1, WFMin
  <1> QED BY <1>2 DEF StrictSubsetOrdering

LEMMA RestSmaller ==
    ASSUME NEW s, s # {}
    PROVE  First(s) \in s /\ Rest(s) \subseteq s /\ Rest(s) # s
  BY DEF First, Rest

\* The values of a sum on the subsets of T do not depend on the larger set.
LEMMA SumUnique ==
    ASSUME NEW S, IsFiniteSet(S), NEW T \in SUBSET S, NEW f, NEW g, NEW h,
           IsSum(g, f, S), IsSum(h, f, T)
    PROVE  \A s \in SUBSET T : g[s] = h[s]
  <1> DEFINE Bad == {s \in SUBSET T : g[s] # h[s]}
  <1>1. SUFFICES ASSUME Bad # {} PROVE FALSE
    OBVIOUS
  <1>2. PICK s \in Bad : \A u \in Bad : u \subseteq s => u = s
    <2>1. Bad \subseteq SUBSET S
      OBVIOUS
    <2> HIDE DEF Bad
    <2> QED BY <1>1, <2>1, Smallest
  <1>3. s # {}
    BY <1>2 DEF IsSum
  <1>4. Rest(s) \in SUBSET T /\ g[Rest(s)] = h[Rest(s)]
    BY <1>2, <1>3, RestSmaller
  <1>5. g[s] = f[First(s)] + g[Rest(s)] /\ h[s] = f[First(s)] + h[Rest(s)]
    BY <1>2, <1>3 DEF IsSum
  <1> QED BY <1>2, <1>4, <1>5

\* The recursive definition defines something on every finite set.
LEMMA SumExists ==
    ASSUME NEW S, IsFiniteSet(S), NEW f
    PROVE  \E g : IsSum(g, f, S)
  <1> DEFINE Bad == {t \in SUBSET S : ~\E g : IsSum(g, f, t)}
             Fold(s) == CHOOSE g : IsSum(g, f, s)
  <1>1. SUFFICES ASSUME Bad # {} PROVE FALSE
    OBVIOUS
  <1>2. PICK t \in Bad : \A u \in Bad : u \subseteq t => u = t
    <2>1. Bad \subseteq SUBSET S
      OBVIOUS
    <2> HIDE DEF Bad
    <2> QED BY <1>1, <2>1, Smallest
  <1>3. ASSUME NEW u \in SUBSET t, u # t PROVE IsSum(Fold(u), f, u)
    <2>1. \E g : IsSum(g, f, u)
      BY <1>2, <1>3
    <2> QED BY <2>1
  <1> HIDE DEF Fold
  <1> DEFINE G == [s \in SUBSET t |-> IF s = {} THEN 0
                                     ELSE f[First(s)] + Fold(Rest(s))[Rest(s)]]
  <1>4. ASSUME NEW s \in SUBSET t, s # {} PROVE G[Rest(s)] = Fold(Rest(s))[Rest(s)]
    <2> DEFINE u == Rest(s)
    <2>1. u \in SUBSET t /\ u # t /\ IsSum(Fold(u), f, u)
      <3>1. u \subseteq s /\ u # s
        BY <1>4, RestSmaller
      <3> HIDE DEF u
      <3>2. u \in SUBSET t /\ u # t
        BY <3>1
      <3> QED BY <1>3, <3>2
    <2>2. CASE u = {}
      <3>1. Fold(u)[u] = 0
        BY <2>1, <2>2 DEF IsSum
      <3>2. G[u] = 0
        BY <2>1, <2>2
      <3> QED BY <3>1, <3>2
    <2>3. CASE u # {}
      <3>1. Rest(u) \in SUBSET u /\ Rest(u) # t /\ IsSum(Fold(Rest(u)), f, Rest(u))
        BY <1>3, <2>1, <2>3, RestSmaller
      <3>2. IsFiniteSet(u)
        BY <2>1, FS_Subset
      <3>3. Fold(u)[Rest(u)] = Fold(Rest(u))[Rest(u)]
        BY <2>1, <3>1, <3>2, SumUnique
      <3>4. Fold(u)[u] = f[First(u)] + Fold(u)[Rest(u)]
        BY <2>1, <2>3 DEF IsSum
      <3> QED BY <2>1, <2>3, <3>3, <3>4
    <2> QED BY <2>2, <2>3
  <1>5. IsSum(G, f, t)
    BY <1>4 DEF IsSum
  <1> QED BY <1>2, <1>5

LEMMA SumFold ==
    ASSUME NEW S, IsFiniteSet(S), NEW f
    PROVE  \E g : IsSum(g, f, S) /\ \A s \in SUBSET S : SumFunctionOnSet(f, s) = g[s]
  <1>1. PICK g : IsSum(g, f, S)
    BY SumExists
  <1>2. ASSUME NEW s \in SUBSET S PROVE SumFunctionOnSet(f, s) = g[s]
    <2> DEFINE h == CHOOSE k : IsSum(k, f, s)
    <2>1. IsFiniteSet(s)
      BY FS_Subset
    <2>2. IsSum(h, f, s)
      BY <2>1, SumExists
    <2>3. SumFunctionOnSet(f, s) = h[s]
      BY SumDef
    <2> HIDE DEF h
    <2> QED BY <1>1, <2>2, <2>3, SumUnique
  <1> QED BY <1>1, <1>2

\* The recursion of the fold, for the sum itself.
LEMMA SumRec ==
    ASSUME NEW S, IsFiniteSet(S), NEW f
    PROVE  SumFunctionOnSet(f, S) = IF S = {} THEN 0
                                    ELSE f[First(S)] + SumFunctionOnSet(f, Rest(S))
  <1>1. PICK g : IsSum(g, f, S) /\ \A s \in SUBSET S : SumFunctionOnSet(f, s) = g[s]
    BY SumFold
  <1>2. CASE S = {}
    BY <1>1, <1>2 DEF IsSum
  <1>3. CASE S # {}
    <2>1. Rest(S) \in SUBSET S
      BY <1>3, RestSmaller
    <2>2. g[S] = f[First(S)] + g[Rest(S)]
      BY <1>1, <1>3 DEF IsSum
    <2> QED BY <1>1, <1>3, <2>1, <2>2
  <1> QED BY <1>2, <1>3

\* A sum of naturals is a natural.
LEMMA SumNat ==
    ASSUME NEW D, NEW f \in [D -> Nat], NEW S \in SUBSET D, IsFiniteSet(S)
    PROVE  SumFunctionOnSet(f, S) \in Nat
  <1> DEFINE Bad == {s \in SUBSET S : SumFunctionOnSet(f, s) \notin Nat}
  <1>1. SUFFICES ASSUME Bad # {} PROVE FALSE
    OBVIOUS
  <1>2. PICK s \in Bad : \A u \in Bad : u \subseteq s => u = s
    <2>1. Bad \subseteq SUBSET S
      OBVIOUS
    <2> HIDE DEF Bad
    <2> QED BY <1>1, <2>1, Smallest
  <1>3. IsFiniteSet(s)
    BY FS_Subset
  <1>4. SumFunctionOnSet(f, s) = IF s = {} THEN 0 ELSE f[First(s)] + SumFunctionOnSet(f, Rest(s))
    BY <1>3, SumRec
  <1>5. CASE s = {}
    BY <1>2, <1>4, <1>5
  <1>6. CASE s # {}
    <2>1. First(s) \in s /\ Rest(s) \in SUBSET S /\ SumFunctionOnSet(f, Rest(s)) \in Nat
      BY <1>2, <1>6, RestSmaller
    <2>2. f[First(s)] \in Nat
      BY <2>1
    <2> QED BY <1>2, <1>4, <1>6, <2>1, <2>2
  <1> QED BY <1>5, <1>6

\* Any member can be split off, not only the one the definition takes first.
LEMMA SumSplit ==
    ASSUME NEW D, NEW f \in [D -> Nat], NEW S \in SUBSET D, IsFiniteSet(S), NEW r \in S
    PROVE  SumFunctionOnSet(f, S) = f[r] + SumFunctionOnSet(f, S \ {r})
  <1> DEFINE Total(s) == SumFunctionOnSet(f, s)
             Bad == {s \in SUBSET S : \E q \in s : Total(s) # f[q] + Total(s \ {q})}
  <1>1. SUFFICES ASSUME Bad # {} PROVE FALSE
    OBVIOUS
  <1>2. PICK s \in Bad : \A u \in Bad : u \subseteq s => u = s
    <2>1. Bad \subseteq SUBSET S
      OBVIOUS
    <2> HIDE DEF Bad
    <2> QED BY <1>1, <2>1, Smallest
  <1>3. PICK q \in s : Total(s) # f[q] + Total(s \ {q})
    BY <1>2
  <1> DEFINE x == First(s)
  <1>4. \A u \in SUBSET S : IsFiniteSet(u) /\ Total(u) \in Nat
    BY FS_Subset, SumNat
  <1>5. x \in s /\ Total(s) = f[x] + Total(s \ {x})
    BY <1>3, <1>4, SumRec, RestSmaller DEF Rest
  <1> HIDE DEF x, Total
  <1>6. q # x
    BY <1>3, <1>5
  <1>7. Total(s \ {x}) = f[q] + Total((s \ {q}) \ {x})
    <2>1. s \ {x} \in SUBSET S /\ s \ {x} # s /\ q \in s \ {x}
      BY <1>3, <1>5, <1>6
    <2>2. (s \ {x}) \ {q} = (s \ {q}) \ {x}
      OBVIOUS
    <2>3. Total(s \ {x}) = f[q] + Total((s \ {x}) \ {q})
      BY <1>2, <2>1
    <2> QED BY <2>2, <2>3
  <1>8. Total(s \ {q}) = f[x] + Total((s \ {q}) \ {x})
    <2>1. s \ {q} \in SUBSET S /\ s \ {q} # s /\ x \in s \ {q}
      BY <1>3, <1>5, <1>6
    <2> QED BY <1>2, <2>1
  <1>9. f[x] \in Nat /\ f[q] \in Nat /\ Total((s \ {q}) \ {x}) \in Nat
    BY <1>3, <1>4, <1>5
  <1>10. f[x] + (f[q] + Total((s \ {q}) \ {x})) = f[q] + (f[x] + Total((s \ {q}) \ {x}))
    BY <1>9
  <1> QED BY <1>3, <1>5, <1>7, <1>8, <1>10

\* Only the values on the set count.
LEMMA SumSame ==
    ASSUME NEW S, IsFiniteSet(S), NEW f, NEW g, \A s \in S : f[s] = g[s]
    PROVE  SumFunctionOnSet(f, S) = SumFunctionOnSet(g, S)
  <1> DEFINE Bad == {s \in SUBSET S : SumFunctionOnSet(f, s) # SumFunctionOnSet(g, s)}
  <1>1. SUFFICES ASSUME Bad # {} PROVE FALSE
    OBVIOUS
  <1>2. PICK s \in Bad : \A u \in Bad : u \subseteq s => u = s
    <2>1. Bad \subseteq SUBSET S
      OBVIOUS
    <2> HIDE DEF Bad
    <2> QED BY <1>1, <2>1, Smallest
  <1>3. IsFiniteSet(s)
    BY FS_Subset
  <1>4. /\ SumFunctionOnSet(f, s) = IF s = {} THEN 0 ELSE f[First(s)] + SumFunctionOnSet(f, Rest(s))
        /\ SumFunctionOnSet(g, s) = IF s = {} THEN 0 ELSE g[First(s)] + SumFunctionOnSet(g, Rest(s))
    BY <1>3, SumRec
  <1>5. s # {}
    BY <1>2, <1>4
  <1>6. First(s) \in S /\ SumFunctionOnSet(f, Rest(s)) = SumFunctionOnSet(g, Rest(s))
    BY <1>2, <1>5, RestSmaller
  <1> QED BY <1>2, <1>4, <1>5, <1>6

\* A sum of zeros is zero.
LEMMA SumZero ==
    ASSUME NEW S, IsFiniteSet(S), NEW f, \A s \in S : f[s] = 0
    PROVE  SumFunctionOnSet(f, S) = 0
  <1> DEFINE Bad == {s \in SUBSET S : SumFunctionOnSet(f, s) # 0}
  <1>1. SUFFICES ASSUME Bad # {} PROVE FALSE
    OBVIOUS
  <1>2. PICK s \in Bad : \A u \in Bad : u \subseteq s => u = s
    <2>1. Bad \subseteq SUBSET S
      OBVIOUS
    <2> HIDE DEF Bad
    <2> QED BY <1>1, <2>1, Smallest
  <1>3. IsFiniteSet(s)
    BY FS_Subset
  <1>4. SumFunctionOnSet(f, s) = IF s = {} THEN 0 ELSE f[First(s)] + SumFunctionOnSet(f, Rest(s))
    BY <1>3, SumRec
  <1>5. s # {}
    BY <1>2, <1>4
  <1>6. f[First(s)] = 0 /\ SumFunctionOnSet(f, Rest(s)) = 0
    BY <1>2, <1>5, RestSmaller
  <1> QED BY <1>2, <1>4, <1>5, <1>6

-----------------------------------------------------------------------------
(* Who may still do what *)

\* How far a request has come, by its flags.
FlagsInv ==
    \A r \in Rids :
        /\ r \in settled => pc[r] \in {"closing", "done", "dead"} /\ r \notin rolledBack
        /\ r \in rolledBack => pc[r] \in {"closing", "done", "cancelled", "dead"}
        /\ r \in cut => pc[r] \notin {"idle", "reserving", "denied"}
        /\ r \in fallback => pc[r] \notin {"idle", "reserving"}
        /\ r \in acked => r \in rolledBack /\ r \notin fallback
        /\ task[r].kind = "retry" => r \in rolledBack /\ r \notin fallback

\* Who a reaper takes for dead has missed its heartbeat at some time.
HeartInv ==
    /\ \A p \in Procs : heartbeat[p] > now \/ p \in lapsed
    /\ \A p \in Procs : \A r \in doomed[p] : Owner[r] \in lapsed

\* A reserve command may land for a request that goes on without it (fallback)
\* or has ended before it was answered, and for no other.
LateReserve(c) ==
    \/ c.rid \in fallback
    \/ /\ pc[c.rid] \in {"reserving", "denied", "cancelled", "dead"}
       /\ c.rid \notin settled \cup rolledBack

\* A rollback may land for a request that failed, or that a reaper took for dead.
LateRollback(c) ==
    \/ Owner[c.rid] \in lapsed
    \/ pc[c.rid] \notin {"idle", "reserving", "held"} /\ c.rid \notin settled

\* The commands under way are recent and belong to requests that sent them.
SentInv ==
    \A c \in net :
        /\ now <= c.at + 1
        /\ c.op = "reserve" => LateReserve(c)
        /\ c.op = "rollback" => LateRollback(c)
        /\ c.op \in {"reconcile", "finalize"} => c.rid \in settled \cup cut

ControlInv == FlagsInv /\ HeartInv /\ SentInv

-----------------------------------------------------------------------------
(* What the ledgers hold *)

\* The requests whose reservation was answered and that are served, or were.
Granted == {r \in Rids \ (fallback \cup Probes) : pc[r] = "held" \/ r \in settled}

\* A request that has not begun is in no ledger, and a ledger with an amount in
\* it exists.
EntryInv ==
    \A r \in Rids, m \in Metrics :
        /\ pc[r] = "idle" => entry[m][r] = 0
        /\ entry[m][r] > 0 => expiry[m][Win(m, r)] # 0

\* A ledger exists for longer than commands built in its window are under way.
KeyInv ==
    \A m \in Metrics, w \in Times :
        expiry[m][w] # 0 =>
            /\ expiry[m][w] <= now + WinLen[m] + Grace
            /\ \A t \in Times : WindowId(m, t) = w => t + 1 < expiry[m][w]

\* A window whose ledger is gone for good.
Over(m, w) == expiry[m][w] = 0 /\ \A t \in Times : WindowId(m, t) = w => t + 1 < now

CountedInv ==
    \A r \in Granted, m \in ReqMetrics :
        Owner[r] \in lapsed \/ entry[m][r] = 1 \/ Over(m, Win(m, r))

LedgerInv ==
    /\ EntryInv /\ KeyInv /\ CountedInv
    /\ RolledBackStaysOut /\ UnsettledIsRecoverable /\ TotalIsSum

-----------------------------------------------------------------------------
(* ControlInv is inductive *)

LEMMA ControlTypes ==
    ASSUME TypeOK
    PROVE  /\ now \in Nat /\ at \in [Rids -> Nat] /\ net \subseteq Commands
           /\ pc \in [Rids -> Phases] /\ task \in [Rids -> Tasks]
           /\ settled \subseteq Rids /\ rolledBack \subseteq Rids /\ fallback \subseteq Rids
           /\ acked \subseteq Rids /\ cut \subseteq Rids /\ lapsed \subseteq Procs
           /\ heartbeat \in [Procs -> Nat] /\ doomed \in [Procs -> SUBSET Rids]
           /\ Owner \in [Rids -> Procs]
BY SetsAssumption DEF TypeOK, ProcessTypeOK, Times

\* What SentInv says of one command.
Sent(c) ==
    /\ now <= c.at + 1
    /\ c.op = "reserve" => LateReserve(c)
    /\ c.op = "rollback" => LateRollback(c)
    /\ c.op \in {"reconcile", "finalize"} => c.rid \in settled \cup cut

LEMMA ControlInit == Init => ControlInv
BY NumbersAssumption DEF Init, ControlInv, FlagsInv, HeartInv, SentInv, NoTask

\* A step that leaves alone what the invariant speaks of, except that commands
\* are lost or given up.
LEMMA ControlNet ==
    ASSUME TypeOK, ControlInv,
           UNCHANGED <<now, pc, settled, rolledBack, fallback, acked, cut, lapsed, heartbeat, doomed>>,
           \A r \in Rids : task'[r].kind = "retry" => task[r].kind = "retry",
           \A c \in net' : c \in net \/ Sent(c)
    PROVE  ControlInv'
<1>1. FlagsInv' /\ HeartInv'
  BY DEF ControlInv, FlagsInv, HeartInv
<1>2. SentInv'
  BY DEF ControlInv, SentInv, Sent, LateReserve, LateRollback
<1> QED  BY <1>1, <1>2 DEF ControlInv

\* It is enough to look at the flags and at every command.
LEMMA ControlParts ==
    ASSUME ControlInv, UNCHANGED <<now, lapsed, heartbeat, doomed>>,
           FlagsInv', \A c \in net' : Sent(c)'
    PROVE  ControlInv'
BY DEF ControlInv, HeartInv, SentInv, Sent

LEMMA SentHere ==
    ASSUME ControlInv, NEW c \in net
    PROVE  Sent(c)
BY DEF ControlInv, SentInv, Sent

LEMMA ControlRequest ==
    ASSUME TypeOK, LeaseInv, ControlInv, NEW r \in Rids, RequestStep(r)
    PROVE  ControlInv'
<1>types. /\ now \in Nat /\ at \in [Rids -> Nat] /\ net \subseteq Commands
          /\ pc \in [Rids -> Phases] /\ task \in [Rids -> Tasks]
  BY ControlTypes
<1>flags. /\ r \in settled => pc[r] \in {"closing", "done", "dead"} /\ r \notin rolledBack
          /\ r \in rolledBack => pc[r] \in {"closing", "done", "cancelled", "dead"}
          /\ r \in cut => pc[r] \notin {"idle", "reserving", "denied"}
          /\ r \in fallback => pc[r] \notin {"idle", "reserving"}
          /\ r \in acked => r \in rolledBack /\ r \notin fallback
          /\ task[r].kind = "retry" => r \in rolledBack /\ r \notin fallback
  BY DEF ControlInv, FlagsInv
<1>sent. ASSUME NEW c \in net
         PROVE  Sent(c) /\ c.rid \in Rids
  BY <1>types, SentHere DEF Commands
<1>1. CASE Acquire(r)
  <2>1. /\ pc[r] = "idle" /\ pc' = [pc EXCEPT ![r] = "reserving"]
        /\ net' = net \cup {Command("reserve", r, 0)}
        /\ UNCHANGED <<now, lapsed, heartbeat, doomed, settled, rolledBack, fallback,
                       acked, cut, task>>
    BY <1>1 DEF Acquire, leaseVars, reapVars, ghosts
  <2>2. FlagsInv'
    BY <1>types, <2>1 DEF ControlInv, FlagsInv
  <2>3. ASSUME NEW c \in net' PROVE Sent(c)'
    BY <1>sent, <1>types, <1>flags, <2>1 DEF Sent, LateReserve, LateRollback, Command
  <2> QED  BY <2>1, <2>2, <2>3, ControlParts
<1>2. CASE ReserveAnswered(r)
  <2>1. /\ pc[r] = "reserving"
        /\ pc' = [pc EXCEPT ![r] = IF Admits(r) THEN "held" ELSE "denied"]
        /\ UNCHANGED <<now, lapsed, heartbeat, doomed, settled, rolledBack, fallback,
                       acked, cut, task>>
    BY <1>2 DEF ReserveAnswered, reapVars, ghosts
  <2>2. PICK c \in net : c.op = "reserve" /\ c.rid = r /\ net' = net \ {c}
    BY <1>2 DEF ReserveAnswered
  <2>3. \A d \in net : d.op = "reserve" /\ d.rid = r => d = c
    <3> SUFFICES ASSUME NEW d \in net, d.op = "reserve", d.rid = r PROVE d = c
      OBVIOUS
    <3>1. c.tok = d.tok /\ c.at = d.at
      BY <2>2 DEF LeaseInv, ReserveInv
    <3> QED  BY <1>types, <2>2, <3>1 DEF Commands
  <2>4. ASSUME NEW d \in net' PROVE Sent(d)'
    <3>1. d \in net /\ d # c /\ Sent(d) /\ d.rid \in Rids
      BY <1>sent, <2>2
    <3>2. d.rid = r => d.op # "reserve"
      BY <2>3, <3>1
    <3> QED  BY <1>types, <1>flags, <2>1, <3>1, <3>2 DEF Sent, LateReserve, LateRollback
  <2>5. FlagsInv'
    BY <1>types, <2>1 DEF ControlInv, FlagsInv
  <2> QED  BY <2>1, <2>4, <2>5, ControlParts
<1>3. CASE ReserveUncertain(r) \/ ReserveCancelled(r)
  <2>1. /\ pc[r] = "reserving" /\ net' = net
        /\ UNCHANGED <<now, lapsed, heartbeat, doomed, settled, rolledBack, acked, cut>>
        /\ \/ /\ pc' = [pc EXCEPT ![r] = "denied"] /\ fallback' = fallback
              /\ task' = [task EXCEPT ![r] = [kind |-> "undo", left |-> Attempts]]
           \/ /\ pc' = [pc EXCEPT ![r] = "held"] /\ fallback' = fallback \cup {r}
              /\ task' = task
           \/ /\ pc' = [pc EXCEPT ![r] = "cancelled"] /\ UNCHANGED <<fallback, task>>
    BY <1>3 DEF ReserveUncertain, ReserveCancelled, redisVars, freezes, leaseVars, reapVars, ghosts
  <2>2. FlagsInv'
    BY <1>types, <2>1 DEF ControlInv, FlagsInv
  <2>3. ASSUME NEW c \in net' PROVE Sent(c)'
    BY <1>sent, <1>types, <1>flags, <2>1 DEF Sent, LateReserve, LateRollback, Command
  <2> QED  BY <2>1, <2>2, <2>3, ControlParts
<1>4. ASSUME NEW n \in Actuals, Settle(r, n)
      PROVE  ControlInv'
  <2>1. /\ pc[r] = "held" /\ pc' = [pc EXCEPT ![r] = "closing"]
        /\ settled' = settled \cup {r}
        /\ UNCHANGED <<now, lapsed, heartbeat, doomed, rolledBack, fallback, acked, cut, task>>
        /\ \A c \in net' : c \in net \/ c = Command("finalize", r, 0) \/ c = Command("reconcile", r, n)
    BY <1>4 DEF Settle, GiveUp, reapVars, ghosts
  <2>2. FlagsInv'
    BY <1>types, <2>1 DEF ControlInv, FlagsInv
  <2>3. ASSUME NEW c \in net' PROVE Sent(c)'
    BY <1>sent, <1>types, <1>flags, <2>1 DEF Sent, LateReserve, LateRollback, Command
  <2> QED  BY <2>1, <2>2, <2>3, ControlParts
<1>5. ASSUME NEW n \in Actuals, SettleCut(r, n)
      PROVE  ControlInv'
  <2>1. /\ pc[r] = "held" /\ pc' = pc /\ cut' = cut \cup {r}
        /\ UNCHANGED <<now, lapsed, heartbeat, doomed, settled, rolledBack, fallback, acked, task>>
        /\ \A c \in net' : c \in net \/ c = Command("finalize", r, 0) \/ c = Command("reconcile", r, n)
    BY <1>5 DEF SettleCut, GiveUp, leaseVars, reapVars
  <2>2. FlagsInv'
    BY <1>types, <2>1 DEF ControlInv, FlagsInv
  <2>3. ASSUME NEW c \in net' PROVE Sent(c)'
    BY <1>sent, <1>types, <1>flags, <2>1 DEF Sent, LateReserve, LateRollback, Command
  <2> QED  BY <2>1, <2>2, <2>3, ControlParts
<1>6. CASE Rollback(r)
  <2>1. /\ pc[r] = "held" /\ pc' = [pc EXCEPT ![r] = "closing"]
        /\ rolledBack' = rolledBack \cup {r}
        /\ UNCHANGED <<now, lapsed, heartbeat, doomed, settled, fallback, cut>>
        /\ \A c \in net' : c \in net \/ c = Command("rollback", r, 0)
        /\ \/ UNCHANGED <<task, acked>>
           \/ r \notin fallback /\ task' = task /\ acked' = acked \cup {r}
           \/ /\ r \notin fallback /\ acked' = acked
              /\ task' = [task EXCEPT ![r] = [kind |-> "retry", left |-> Attempts]]
    BY <1>6 DEF Rollback, GiveUp, Ledgerless, reapVars
  <2>2. FlagsInv'
    BY <1>types, <2>1 DEF ControlInv, FlagsInv
  <2>3. ASSUME NEW c \in net' PROVE Sent(c)'
    BY <1>sent, <1>types, <1>flags, <2>1 DEF Sent, LateReserve, LateRollback, Command
  <2> QED  BY <2>1, <2>2, <2>3, ControlParts
<1>7. CASE RollbackCut(r)
  <2>1. /\ pc[r] = "held" /\ pc' = [pc EXCEPT ![r] = "cancelled"]
        /\ rolledBack' = rolledBack \cup {r} /\ r \notin fallback
        /\ UNCHANGED <<now, lapsed, heartbeat, doomed, settled, fallback, cut, task, acked>>
        /\ \A c \in net' : c \in net \/ c = Command("rollback", r, 0)
    BY <1>7 DEF RollbackCut, GiveUp, Ledgerless, reapVars, ghosts
  <2>2. FlagsInv'
    BY <1>types, <2>1 DEF ControlInv, FlagsInv
  <2>3. ASSUME NEW c \in net' PROVE Sent(c)'
    BY <1>sent, <1>types, <1>flags, <2>1 DEF Sent, LateReserve, LateRollback, Command
  <2> QED  BY <2>1, <2>2, <2>3, ControlParts
<1>8. CASE Release(r)
  <2>1. /\ pc[r] = "closing" /\ pc' = [pc EXCEPT ![r] = "done"]
        /\ UNCHANGED <<now, lapsed, heartbeat, doomed, settled, rolledBack, fallback, cut,
                       task, acked>>
        /\ \A c \in net' : c \in net \/ c = Command("release", r, 0)
    BY <1>8 DEF Release, GiveUp, reapVars, ghosts
  <2>2. FlagsInv'
    BY <1>types, <2>1 DEF ControlInv, FlagsInv
  <2>3. ASSUME NEW c \in net' PROVE Sent(c)'
    BY <1>sent, <1>types, <1>flags, <2>1 DEF Sent, LateReserve, LateRollback, Command
  <2> QED  BY <2>1, <2>2, <2>3, ControlParts
<1>9. ASSUME NEW d \in Cooldowns, Cooldown(r, d)
      PROVE  ControlInv'
  BY <1>9, ControlNet DEF Cooldown, leaseVars, reapVars, ghosts
<1>10. CASE Succeed(r)
  <2>1. /\ UNCHANGED <<now, pc, settled, rolledBack, fallback, acked, cut, lapsed, heartbeat,
                       doomed, task>>
        /\ \A c \in net' : c \in net \/ c = Command("thaw", r, 0)
    BY <1>10 DEF Succeed, leaseVars, reapVars
  <2>2. Sent(Command("thaw", r, 0))
    BY <1>types DEF Sent, Command
  <2> QED  BY <2>1, <2>2, ControlNet
<1> QED  BY <1>1, <1>2, <1>3, <1>4, <1>5, <1>6, <1>7, <1>8, <1>9, <1>10 DEF RequestStep

LEMMA ControlTask ==
    ASSUME TypeOK, LeaseInv, ControlInv, NEW r \in Rids, TaskStep(r)
    PROVE  ControlInv'
<1>types. /\ now \in Nat /\ net \subseteq Commands
          /\ pc \in [Rids -> Phases] /\ task \in [Rids -> Tasks]
  BY ControlTypes
<1>flags. /\ r \in settled => pc[r] \in {"closing", "done", "dead"} /\ r \notin rolledBack
          /\ r \in rolledBack => pc[r] \in {"closing", "done", "cancelled", "dead"}
          /\ task[r].kind = "retry" => r \in rolledBack /\ r \notin fallback
  BY DEF ControlInv, FlagsInv
<1>undo. task[r].kind \in {"undo", "free"} => pc[r] = "denied"
  BY DEF LeaseInv, PhaseInv
<1>1. CASE CleanupLedger(r)
  <2>1. /\ UNCHANGED <<now, pc, settled, rolledBack, fallback, acked, cut, lapsed, heartbeat, doomed>>
        /\ \A c \in net' : c \in net \/ c = Command("rollback", r, 0)
        /\ \A q \in Rids : task'[q].kind = "retry" => task[q].kind = "retry"
    BY <1>1, <1>types DEF CleanupLedger, GiveUp, leaseVars, reapVars, ghosts, NoTask
  <2>2. Sent(Command("rollback", r, 0))
    BY <1>1, <1>types, <1>flags, <1>undo DEF CleanupLedger, Sent, LateRollback, Command
  <2> QED  BY <2>1, <2>2, ControlNet
<1>2. CASE CleanupLease(r)
  <2>1. /\ UNCHANGED <<now, pc, settled, rolledBack, fallback, acked, cut, lapsed, heartbeat, doomed>>
        /\ \A c \in net' : c \in net \/ c = Command("release", r, 0)
        /\ \A q \in Rids : task'[q].kind = "retry" => task[q].kind = "retry"
    BY <1>2, <1>types DEF CleanupLease, GiveUp, leaseVars, reapVars, ghosts, NoTask, Countdown
  <2>2. Sent(Command("release", r, 0))
    BY <1>types DEF Sent, Command
  <2> QED  BY <2>1, <2>2, ControlNet
<1>3. CASE RetryRollback(r)
  <2>1. /\ UNCHANGED <<now, pc, settled, rolledBack, fallback, cut, lapsed, heartbeat, doomed>>
        /\ acked' \in {acked, acked \cup {r}}
        /\ \A c \in net' : c \in net \/ c = Command("rollback", r, 0)
        /\ \A q \in Rids : task'[q].kind = "retry" => task[q].kind = "retry"
    BY <1>3, <1>types DEF RetryRollback, GiveUp, leaseVars, reapVars, NoTask, Countdown
  <2>2. Sent(Command("rollback", r, 0))
    BY <1>3, <1>types, <1>flags DEF RetryRollback, Sent, LateRollback, Command
  <2>3. r \in rolledBack /\ r \notin fallback
    BY <1>3, <1>flags DEF RetryRollback
  <2>4. FlagsInv'
    BY <2>1, <2>3 DEF ControlInv, FlagsInv
  <2>5. \A c \in net' : Sent(c)'
    BY <2>1, <2>2, SentHere DEF Sent, LateReserve, LateRollback
  <2> QED  BY <2>1, <2>4, <2>5, ControlParts
<1>4. CASE Renew(r)
  <2>1. /\ UNCHANGED <<now, pc, settled, rolledBack, fallback, acked, cut, lapsed, heartbeat, doomed, task>>
        /\ \A c \in net' : c \in net \/ c = Command("renew", r, 0)
    BY <1>4 DEF Renew, GiveUp, reapVars, ghosts
  <2>2. Sent(Command("renew", r, 0))
    BY <1>types DEF Sent, Command
  <2> QED  BY <2>1, <2>2, ControlNet
<1> QED  BY <1>1, <1>2, <1>3, <1>4 DEF TaskStep

LEMMA ControlProcess ==
    ASSUME TypeOK, ControlInv, NEW p \in Procs,
           Heartbeat(p) \/ ReapStep(p) \/ Crash(p) \/ Shutdown(p)
    PROVE  ControlInv'
<1>types. /\ now \in Nat /\ net \subseteq Commands
          /\ pc \in [Rids -> Phases] /\ task \in [Rids -> Tasks]
          /\ heartbeat \in [Procs -> Nat] /\ doomed \in [Procs -> SUBSET Rids]
          /\ Owner \in [Rids -> Procs]
  BY ControlTypes
<1>1. CASE Heartbeat(p)
  <2>1. /\ UNCHANGED <<now, pc, settled, rolledBack, fallback, acked, cut, lapsed, doomed, task, net>>
        /\ heartbeat' = [heartbeat EXCEPT ![p] = now + HeartbeatTTL]
    BY <1>1 DEF Heartbeat, leaseVars, reapVars, ghosts
  <2>2. HeartInv'
    BY <1>types, <2>1, NumbersAssumption DEF ControlInv, HeartInv
  <2> QED  BY <2>1, <2>2 DEF ControlInv, FlagsInv, SentInv, LateReserve, LateRollback
<1>2. CASE ReapScan(p)
  BY <1>2, ControlNet DEF ReapScan, leaseVars, ghosts
<1>3. ASSUME NEW r \in Rids, ReapCheck(p, r)
      PROVE  ControlInv'
  <2>1. /\ UNCHANGED <<now, pc, settled, rolledBack, fallback, acked, cut, lapsed, heartbeat, task, net>>
        /\ \/ doomed' = doomed
           \/ doomed' = [doomed EXCEPT ![p] = {}]
           \/ doomed' = [doomed EXCEPT ![p] = {r}] /\ ~(heartbeat[Owner[r]] > now)
    BY <1>3 DEF ReapCheck, ProcessAlive, leaseVars, ghosts
  <2>2. HeartInv'
    BY <1>types, <2>1 DEF ControlInv, HeartInv
  <2> QED  BY <2>1, <2>2 DEF ControlInv, FlagsInv, SentInv, LateReserve, LateRollback
<1>4. ASSUME NEW r \in Rids, ReapRollback(p, r)
      PROVE  ControlInv'
  <2>1. /\ UNCHANGED <<now, pc, settled, rolledBack, fallback, acked, cut, lapsed, heartbeat, task>>
        /\ doomed' = [doomed EXCEPT ![p] = {}] /\ r \in doomed[p]
        /\ \A c \in net' : c \in net \/ c = Command("rollback", r, 0)
    BY <1>4 DEF ReapRollback, GiveUp, leaseVars, ghosts
  <2>2. Sent(Command("rollback", r, 0))
    BY <1>types, <2>1 DEF Sent, LateRollback, Command, ControlInv, HeartInv
  <2>3. HeartInv'
    BY <1>types, <2>1 DEF ControlInv, HeartInv
  <2>4. \A c \in net' : Sent(c)'
    BY <2>1, <2>2, SentHere DEF Sent, LateReserve, LateRollback
  <2> QED  BY <2>1, <2>3, <2>4 DEF ControlInv, FlagsInv, SentInv, Sent
<1>5. CASE Crash(p) \/ Shutdown(p)
  <2>1. /\ UNCHANGED <<now, settled, rolledBack, fallback, acked, cut, lapsed, heartbeat>>
        /\ pc' = [r \in Rids |-> IF r \in Mine(p) THEN "dead" ELSE pc[r]]
        /\ task' = [r \in Rids |-> IF r \in Mine(p) THEN NoTask ELSE task[r]]
        /\ doomed' = [doomed EXCEPT ![p] = {}]
    BY <1>5 DEF Crash, Shutdown, Gone, ghosts
  <2>2. \A c \in net' : c \in net \/ (c.op = "release" /\ c.at = now)
    BY <1>5 DEF Crash, Shutdown, Command
  <2>3. FlagsInv'
    BY <1>types, <2>1 DEF ControlInv, FlagsInv, NoTask
  <2>4. HeartInv'
    BY <1>types, <2>1 DEF ControlInv, HeartInv
  <2>5. ASSUME NEW c \in net' PROVE Sent(c)'
    <3>1. CASE c \in net
      <4>1. Sent(c) /\ c.rid \in Rids /\ pc'[c.rid] \in {"dead", pc[c.rid]}
        BY <1>types, <2>1, <3>1, SentHere DEF Commands
      <4> QED  BY <2>1, <4>1 DEF Sent, LateReserve, LateRollback
    <3>2. CASE c.op = "release" /\ c.at = now
      BY <1>types, <2>1, <3>2 DEF Sent
    <3> QED  BY <2>2, <3>1, <3>2
  <2> QED  BY <2>3, <2>4, <2>5 DEF ControlInv, SentInv, Sent
<1> QED  BY <1>1, <1>2, <1>3, <1>4, <1>5 DEF ReapStep

LEMMA ControlNetStep ==
    ASSUME TypeOK, ControlInv, NetStep
    PROVE  ControlInv'
<1>1. /\ UNCHANGED <<now, pc, settled, rolledBack, fallback, acked, cut, lapsed, heartbeat, doomed, task>>
      /\ net' \subseteq net
  BY DEF NetStep, Land, Lose, leaseVars, reapVars, ghosts
<1> QED  BY <1>1, ControlNet

LEMMA ControlTick ==
    ASSUME TypeOK, ControlInv, Tick
    PROVE  ControlInv'
<1>types. /\ now \in Nat /\ net \subseteq Commands
          /\ heartbeat \in [Procs -> Nat] /\ lapsed \subseteq Procs
  BY ControlTypes
<1>1. /\ now' = now + 1 /\ \A c \in net : c.at >= now
      /\ heartbeat' = [p \in Procs |-> Alive(heartbeat[p], now')]
      /\ lapsed' = lapsed \cup {p \in Procs : heartbeat'[p] = 0}
      /\ UNCHANGED <<pc, settled, rolledBack, fallback, acked, cut, doomed, task, net>>
  BY DEF Tick, leaseVars, reapVars
<1>2. FlagsInv'
  BY <1>1 DEF ControlInv, FlagsInv
<1>3. HeartInv'
  BY <1>types, <1>1 DEF ControlInv, HeartInv, Alive
<1>4. ASSUME NEW c \in net' PROVE Sent(c)'
  <2>1. Sent(c) /\ c.at \in Nat /\ c.at >= now
    BY <1>types, <1>1, SentHere DEF Commands
  <2> QED  BY <1>types, <1>1, <2>1 DEF Sent, LateReserve, LateRollback
<1> QED  BY <1>2, <1>3, <1>4 DEF ControlInv, SentInv, Sent

LEMMA ControlStep == TypeOK /\ LeaseInv /\ ControlInv /\ [Next]_vars => ControlInv'
<1> SUFFICES ASSUME TypeOK, LeaseInv, ControlInv, [Next]_vars PROVE ControlInv'
  OBVIOUS
<1>1. CASE UNCHANGED vars
  BY <1>1, ControlNet DEF vars, leaseVars, reapVars, ghosts
<1>2. CASE Next
  BY <1>2, ControlRequest, ControlTask, ControlProcess, ControlNetStep, ControlTick DEF Next
<1> QED  BY <1>1, <1>2

LEMMA ControlCorrect == Spec => []ControlInv
BY ControlInit, ControlStep, TypeCorrect, LeaseCorrect, PTL DEF Spec

-----------------------------------------------------------------------------
(* What a step can do to the ledgers *)

ledgers == <<entry, total, expiry, index, meta>>

\* What is only ever added to.
Forward ==
    /\ settled \subseteq settled' /\ cut \subseteq cut' /\ lapsed \subseteq lapsed'
    /\ \A r \in Rids : pc'[r] = "idle" => pc[r] = "idle"

Rests == UNCHANGED <<now, at, ledgers, acked>> /\ Granted' \subseteq Granted

Begins(r) ==
    /\ UNCHANGED <<now, ledgers, acked>> /\ Granted' \subseteq Granted /\ r \notin Granted'
    /\ pc[r] = "idle" /\ pc'[r] # "idle" /\ at' = [at EXCEPT ![r] = now]

Reserves(r) ==
    /\ RedisReserve(r) /\ UNCHANGED <<now, at, acked>>
    /\ now <= at[r] + 1 /\ pc[r] # "idle" /\ r \notin acked
    /\ Granted' \subseteq Granted \cup {r} /\ (Admits(r) \/ Granted' \subseteq Granted)

RollsBack(r) ==
    /\ RedisRollback(r) /\ UNCHANGED <<now, at>>
    /\ acked' \subseteq acked \cup {r}
    /\ Granted' \subseteq Granted /\ (r \in Granted' => Owner[r] \in lapsed)

Settles(r) ==
    /\ RedisFinalize(r) \/ \E n \in Nat : RedisReconcile(r, n)
    /\ UNCHANGED <<now, at, acked>> /\ Granted' \subseteq Granted
    /\ r \in settled' \cup cut' /\ pc[r] # "idle" /\ (r \in acked => r \in cut)

LEMMA KindRequest ==
    ASSUME TypeOK, LeaseInv, ControlInv, NEW r \in Rids, RequestStep(r)
    PROVE  Forward /\ (Rests \/ Begins(r) \/ Reserves(r) \/ RollsBack(r) \/ Settles(r))
<1>types. /\ now \in Nat /\ at \in [Rids -> Nat] /\ net \subseteq Commands
          /\ pc \in [Rids -> Phases] /\ lapsed \subseteq Procs
          /\ Actuals \subseteq Nat
  BY ControlTypes, NumbersAssumption
<1>flags. /\ r \in settled => pc[r] \in {"closing", "done", "dead"} /\ r \notin rolledBack
          /\ r \in rolledBack => pc[r] \in {"closing", "done", "cancelled", "dead"}
          /\ r \in cut => pc[r] \notin {"idle", "reserving", "denied"}
          /\ r \in fallback => pc[r] \notin {"idle", "reserving"}
          /\ r \in acked => r \in rolledBack /\ r \notin fallback
  BY DEF ControlInv, FlagsInv
<1>1. CASE Acquire(r)
  <2>1. /\ pc[r] = "idle" /\ pc' = [pc EXCEPT ![r] = "reserving"]
        /\ at' = [at EXCEPT ![r] = now]
        /\ UNCHANGED <<now, ledgers, acked, settled, cut, lapsed, fallback>>
    BY <1>1 DEF Acquire, redisVars, freezes, ledgers, leaseVars, ghosts
  <2> QED  BY <1>types, <1>flags, <2>1 DEF Forward, Begins, Granted
<1>2. CASE ReserveAnswered(r)
  <2>1. /\ pc[r] = "reserving" /\ RedisReserve(r)
        /\ pc' = [pc EXCEPT ![r] = IF Admits(r) THEN "held" ELSE "denied"]
        /\ UNCHANGED <<now, at, acked, settled, cut, lapsed, fallback>>
    BY <1>2 DEF ReserveAnswered, ghosts
  <2>2. now <= at[r] + 1
    <3>1. PICK c \in net : c.op = "reserve" /\ c.rid = r
      BY <1>2 DEF ReserveAnswered
    <3>2. c.at = at[r] /\ now <= c.at + 1
      BY <3>1, SentHere DEF LeaseInv, ReserveInv, Sent
    <3> QED  BY <3>2
  <2>3. Granted' \subseteq Granted \cup {r} /\ (Admits(r) \/ Granted' \subseteq Granted)
    BY <1>types, <1>flags, <2>1 DEF Granted
  <2> QED  BY <1>types, <1>flags, <2>1, <2>2, <2>3 DEF Forward, Reserves
<1>3. CASE ReserveUncertain(r) \/ ReserveCancelled(r)
  <2>1. /\ pc[r] = "reserving"
        /\ UNCHANGED <<now, at, ledgers, acked, settled, cut, lapsed>>
        /\ \/ pc' = [pc EXCEPT ![r] = "denied"] /\ fallback' = fallback
           \/ pc' = [pc EXCEPT ![r] = "held"] /\ fallback' = fallback \cup {r}
           \/ pc' = [pc EXCEPT ![r] = "cancelled"] /\ fallback' = fallback
    BY <1>3 DEF ReserveUncertain, ReserveCancelled, redisVars, freezes, ledgers, leaseVars, ghosts
  <2> QED  BY <1>types, <1>flags, <2>1 DEF Forward, Rests, Granted
<1>4. ASSUME NEW n \in Actuals, Settle(r, n)
      PROVE  Forward /\ (Rests \/ Settles(r))
  <2>1. /\ pc[r] = "held" /\ pc' = [pc EXCEPT ![r] = "closing"]
        /\ settled' = settled \cup {r}
        /\ UNCHANGED <<now, at, acked, cut, lapsed, fallback>>
        /\ UNCHANGED ledgers \/ RedisFinalize(r) \/ RedisReconcile(r, n)
    BY <1>4 DEF Settle, GiveUp, redisVars, freezes, ledgers, ghosts
  <2> QED  BY <1>types, <1>flags, <2>1 DEF Forward, Rests, Settles, Granted
<1>5. ASSUME NEW n \in Actuals, SettleCut(r, n)
      PROVE  Forward /\ Rests
  <2>1. /\ cut' = cut \cup {r}
        /\ UNCHANGED <<now, at, ledgers, pc, acked, settled, lapsed, fallback>>
    BY <1>5 DEF SettleCut, GiveUp, redisVars, freezes, ledgers, leaseVars
  <2> QED  BY <2>1 DEF Forward, Rests, Granted
<1>6. CASE Rollback(r) \/ RollbackCut(r)
  <2>1. /\ pc[r] = "held"
        /\ \/ pc' = [pc EXCEPT ![r] = "closing"]
           \/ pc' = [pc EXCEPT ![r] = "cancelled"]
        /\ UNCHANGED <<now, at, cut, lapsed, fallback, settled>>
        /\ \/ UNCHANGED <<ledgers, acked>>
           \/ RedisRollback(r) /\ acked' = acked \cup {r}
    BY <1>6 DEF Rollback, RollbackCut, GiveUp, redisVars, freezes, ledgers, ghosts
  <2> QED  BY <1>types, <1>flags, <2>1 DEF Forward, Rests, RollsBack, Granted
<1>7. CASE Release(r)
  <2>1. /\ pc[r] = "closing" /\ pc' = [pc EXCEPT ![r] = "done"]
        /\ UNCHANGED <<now, at, acked, settled, cut, lapsed, fallback, ledgers>>
    BY <1>7 DEF Release, RedisRelease, GiveUp, redisVars, freezes, ledgers, ghosts
  <2> QED  BY <1>types, <2>1 DEF Forward, Rests, Granted
<1>8. ASSUME NEW d \in Cooldowns, Cooldown(r, d)
      PROVE  Forward /\ Rests
  BY <1>8 DEF Cooldown, ledgers, leaseVars, ghosts, Forward, Rests, Granted
<1>9. CASE Succeed(r)
  BY <1>9 DEF Succeed, redisVars, ledgers, leaseVars, Forward, Rests, Granted
<1> QED  BY <1>1, <1>2, <1>3, <1>4, <1>5, <1>6, <1>7, <1>8, <1>9 DEF RequestStep

LEMMA KindTask ==
    ASSUME TypeOK, LeaseInv, ControlInv, NEW r \in Rids, TaskStep(r)
    PROVE  Forward /\ (Rests \/ RollsBack(r))
<1>1. UNCHANGED <<now, at, pc, settled, cut, lapsed, fallback>>
  BY DEF TaskStep, CleanupLedger, CleanupLease, RetryRollback, Renew, leaseVars, ghosts
<1>2. Forward /\ Granted' = Granted
  BY <1>1 DEF Forward, Granted
<1>3. CASE CleanupLedger(r) \/ RetryRollback(r)
  <2>1. r \notin Granted
    <3>1. task[r].kind = "undo" \/ task[r].kind = "retry"
      BY <1>3 DEF CleanupLedger, RetryRollback
    <3>2. pc[r] = "denied" \/ r \in rolledBack
      BY <3>1 DEF LeaseInv, PhaseInv, ControlInv, FlagsInv
    <3> QED  BY <3>2 DEF Granted, ControlInv, FlagsInv
  <2>2. \/ UNCHANGED <<ledgers, acked>>
        \/ RedisRollback(r) /\ acked' \subseteq acked \cup {r}
    BY <1>3 DEF CleanupLedger, RetryRollback, GiveUp, redisVars, freezes, ledgers, ghosts
  <2> QED  BY <1>1, <1>2, <2>1, <2>2 DEF Rests, RollsBack
<1>4. CASE CleanupLease(r) \/ Renew(r)
  <2>1. UNCHANGED <<ledgers, acked>>
    BY <1>4 DEF CleanupLease, Renew, RedisRelease, RedisRenew, GiveUp, redisVars, freezes, ledgers, ghosts
  <2> QED  BY <1>1, <1>2, <2>1 DEF Rests
<1> QED  BY <1>3, <1>4 DEF TaskStep

LEMMA KindProcess ==
    ASSUME TypeOK, ControlInv, NEW p \in Procs,
           Heartbeat(p) \/ ReapStep(p) \/ Crash(p) \/ Shutdown(p)
    PROVE  Forward /\ (Rests \/ \E r \in Rids : RollsBack(r))
<1>1. CASE Heartbeat(p) \/ ReapScan(p) \/ \E r \in Rids : ReapCheck(p, r)
  <2>1. UNCHANGED <<now, at, ledgers, pc, settled, cut, lapsed, fallback, acked>>
    BY <1>1 DEF Heartbeat, ReapScan, ReapCheck, redisVars, freezes, ledgers, leaseVars, ghosts
  <2> QED  BY <2>1 DEF Forward, Rests, Granted
<1>2. ASSUME NEW r \in Rids, ReapRollback(p, r)
      PROVE  Forward /\ (Rests \/ RollsBack(r))
  <2>1. /\ UNCHANGED <<now, at, pc, settled, cut, lapsed, fallback, acked>>
        /\ UNCHANGED ledgers \/ RedisRollback(r)
    BY <1>2 DEF ReapRollback, GiveUp, redisVars, freezes, ledgers, leaseVars, ghosts
  <2>2. Owner[r] \in lapsed
    BY <1>2 DEF ReapRollback, ControlInv, HeartInv
  <2> QED  BY <2>1, <2>2 DEF Forward, Rests, RollsBack, Granted
<1>3. CASE Crash(p) \/ Shutdown(p)
  <2>1. /\ UNCHANGED <<now, at, ledgers, settled, cut, lapsed, fallback, acked>>
        /\ pc' = [r \in Rids |-> IF r \in Mine(p) THEN "dead" ELSE pc[r]]
    BY <1>3 DEF Crash, Shutdown, Gone, redisVars, freezes, ledgers, ghosts
  <2> QED  BY <2>1 DEF Forward, Rests, Granted
<1> QED  BY <1>1, <1>2, <1>3 DEF ReapStep

LEMMA KindNet ==
    ASSUME TypeOK, LeaseInv, ControlInv, NetStep
    PROVE  Forward /\ (Rests \/ \E r \in Rids : Reserves(r) \/ RollsBack(r) \/ Settles(r))
<1>1. PICK c \in net : Land(c) \/ Lose(c)
  BY DEF NetStep
<1>2. c.op \in Ops /\ c.rid \in Rids /\ c.tok \in Nat /\ c.at \in Nat
  BY <1>1, ControlTypes DEF Commands
<1>3. UNCHANGED <<now, at, pc, settled, cut, lapsed, fallback, acked>>
  BY <1>1 DEF Land, Lose, leaseVars, ghosts
<1>4. Forward /\ Granted' = Granted
  BY <1>3 DEF Forward, Granted
<1>flags. /\ c.rid \in settled => pc[c.rid] \in {"closing", "done", "dead"} /\ c.rid \notin rolledBack
          /\ c.rid \in cut => pc[c.rid] \notin {"idle", "reserving", "denied"}
          /\ c.rid \in acked => c.rid \in rolledBack /\ c.rid \notin fallback
  BY <1>2 DEF ControlInv, FlagsInv
<1>5. CASE Lose(c)
  BY <1>3, <1>4, <1>5 DEF Lose, redisVars, freezes, ledgers, Rests
<1>6. CASE Land(c) /\ c.op = "reserve"
  <2>1. RedisReserve(c.rid)
    BY <1>6 DEF Land
  <2>2. LateReserve(c) /\ now <= c.at + 1
    BY <1>6, SentHere DEF Sent
  <2>3. c.at = at[c.rid] /\ pc[c.rid] # "idle"
    BY <1>6 DEF LeaseInv, ReserveInv
  <2>4. Reserves(c.rid)
    BY <1>3, <1>4, <1>flags, <2>1, <2>2, <2>3 DEF Reserves, LateReserve
  <2> QED  BY <1>2, <1>4, <2>4
<1>7. CASE Land(c) /\ c.op = "rollback"
  <2>1. RedisRollback(c.rid)
    BY <1>7 DEF Land
  <2>2. LateRollback(c)
    BY <1>7, SentHere DEF Sent
  <2>3. c.rid \in Granted => Owner[c.rid] \in lapsed
    BY <2>2 DEF LateRollback, Granted
  <2>4. RollsBack(c.rid)
    BY <1>3, <1>4, <2>1, <2>3 DEF RollsBack
  <2> QED  BY <1>2, <1>4, <2>4
<1>8. CASE Land(c) /\ c.op \in {"reconcile", "finalize"}
  <2>1. RedisFinalize(c.rid) \/ RedisReconcile(c.rid, c.tok)
    BY <1>8 DEF Land
  <2>2. c.rid \in settled \cup cut
    BY <1>8, SentHere DEF Sent
  <2>3. Settles(c.rid)
    BY <1>2, <1>3, <1>4, <1>flags, <2>1, <2>2 DEF Settles
  <2> QED  BY <1>2, <1>4, <2>3
<1>9. CASE Land(c) /\ c.op \in {"release", "renew", "thaw"}
  <2>1. UNCHANGED ledgers
    BY <1>9 DEF Land, RedisRelease, RedisRenew, RedisThaw, ledgers
  <2> QED  BY <1>3, <1>4, <2>1 DEF Rests
<1> QED  BY <1>1, <1>2, <1>5, <1>6, <1>7, <1>8, <1>9 DEF Ops

LEMMA LedgerKinds ==
    ASSUME TypeOK, LeaseInv, ControlInv, [Next]_vars
    PROVE  \/ Tick
           \/ Forward /\ Rests
           \/ Forward /\ \E r \in Rids : Begins(r) \/ Reserves(r) \/ RollsBack(r) \/ Settles(r)
<1>1. CASE UNCHANGED vars
  BY <1>1 DEF vars, redisVars, freezes, leaseVars, ghosts, ledgers, Forward, Rests, Granted
<1>2. CASE Next
  BY <1>2, KindRequest, KindTask, KindProcess, KindNet DEF Next
<1> QED  BY <1>1, <1>2

-----------------------------------------------------------------------------
(* Windows and sums *)

LEMMA LedgerTypes ==
    ASSUME TypeOK
    PROVE  /\ now \in Times /\ now \in Nat /\ at \in [Rids -> Times] /\ at \in [Rids -> Nat]
           /\ entry \in [Metrics -> [Rids -> Nat]] /\ total \in [Metrics -> [Times -> Nat]]
           /\ expiry \in [Metrics -> [Times -> Nat]] /\ meta \in [Rids -> Nat]
           /\ pc \in [Rids -> Phases] /\ index \subseteq Rids
           /\ acked \subseteq Rids /\ settled \subseteq Rids /\ cut \subseteq Rids
           /\ WinLen \in [Metrics -> Nat] /\ Grace \in Nat /\ MetaTTL \in Nat /\ Times \subseteq Nat
BY NumbersAssumption DEF TypeOK, RedisTypeOK, ProcessTypeOK, Times

\* The TTL a caller passes lasts to the end of its window, whichever time in the
\* window it is computed at, and never longer than a window.
LEMMA WindowEnd ==
    ASSUME NEW m \in Metrics, NEW s \in Nat, NEW t \in Nat
    PROVE  /\ KeyTTL(m, s) \in Nat /\ KeyTTL(m, s) > 0 /\ KeyTTL(m, s) <= WinLen[m]
           /\ WindowId(m, s) = WindowId(m, t) => t < s + KeyTTL(m, s)
<1>1. PICK n \in Nat \ {0} : WinLen[m] = n
  BY NumbersAssumption
<1>2. PICK q \in Nat : q = s \div n
  BY <1>1
<1>3. PICK k \in 0 .. (n - 1) : k = s % n
  BY <1>1
<1>4. PICK l \in 0 .. (n - 1) : l = t % n
  BY <1>1
<1>5. s = n * q + k
  BY <1>1, <1>2, <1>3
<1>6. ASSUME q = t \div n PROVE t = n * q + l
  BY <1>1, <1>4, <1>6
<1>7. n * q \in Nat
  OBVIOUS
<1>8. q = t \div n => t < s + (n - k)
  BY <1>5, <1>6, <1>7
<1>9. KeyTTL(m, s) = n - k \/ KeyTTL(m, s) = n
  BY <1>1, <1>3 DEF KeyTTL
<1>10. WindowId(m, s) = WindowId(m, t) => q = t \div n
  BY <1>1, <1>2 DEF WindowId
<1> QED  BY <1>1, <1>3, <1>8, <1>9, <1>10

\* The requests whose amount for m is in window w.
Users(m, w) == {r \in Rids : Win(m, r) = w}

LEMMA UsersFinite ==
    ASSUME NEW m, NEW w
    PROVE  IsFiniteSet(Users(m, w)) /\ Users(m, w) \in SUBSET Rids
BY SetsAssumption, FS_Subset DEF Users

\* A script that sets r's amount to n and the total to projected() keeps the
\* total the sum: the clamp at zero has nothing to hide.
LEMMA SumChange ==
    ASSUME TypeOK, TotalIsSum, at' = at, NEW m \in Metrics, NEW r \in Rids, NEW n \in Nat,
           entry'[m] = [entry[m] EXCEPT ![r] = n],
           total'[m] = [total[m] EXCEPT ![Win(m, r)] = Projected(m, r, n)],
           NEW w \in Times
    PROVE  total'[m][w] = SumFunctionOnSet(entry'[m], Users(m, w)')
<1> DEFINE f == entry[m]
           g == entry'[m]
           S == Users(m, w)
<1>1. f \in [Rids -> Nat] /\ g \in [Rids -> Nat] /\ g[r] = n /\ total[m] \in [Times -> Nat]
  BY LedgerTypes
<1>2. IsFiniteSet(S) /\ S \in SUBSET Rids /\ S = Users(m, w)'
  BY SMTT(30), UsersFinite DEF Users, Win
<1>3. total[m][w] = SumFunctionOnSet(f, S)
  BY DEF TotalIsSum, Users
<1>4. CASE w = Win(m, r)
  <2>1. r \in S /\ IsFiniteSet(S \ {r}) /\ S \ {r} \in SUBSET Rids
    BY <1>2, <1>4, FS_Subset DEF Users
  <2> HIDE DEF f, g, S
  <2>2. SumFunctionOnSet(f, S) = f[r] + SumFunctionOnSet(f, S \ {r})
    BY <1>1, <1>2, <2>1, SumSplit
  <2>3. SumFunctionOnSet(g, S) = g[r] + SumFunctionOnSet(g, S \ {r})
    BY <1>1, <1>2, <2>1, SumSplit
  <2>4. SumFunctionOnSet(f, S \ {r}) = SumFunctionOnSet(g, S \ {r})
    <3>1. \A q \in S \ {r} : f[q] = g[q]
      BY <1>2 DEF f, g
    <3> QED  BY <2>1, <3>1, SumSame
  <2>5. SumFunctionOnSet(f, S \ {r}) \in Nat
    BY <1>1, <2>1, SumNat
  <2>6. Projected(m, r, n) = SumFunctionOnSet(f, S \ {r}) + n
    <3>1. Projected(m, r, n) = LET t == SumFunctionOnSet(f, S) - f[r] + n IN IF t < 0 THEN 0 ELSE t
      BY <1>3, <1>4 DEF Projected, f
    <3>2. f[r] \in Nat
      BY <1>1
    <3> QED  BY <2>2, <2>5, <3>1, <3>2
  <2>7. total'[m][w] = Projected(m, r, n)
    BY <1>1, <1>4
  <2>8. SumFunctionOnSet(g, S) = SumFunctionOnSet(f, S \ {r}) + n
    BY <1>1, <2>3, <2>4, <2>5
  <2> QED  BY <1>2, <2>6, <2>7, <2>8 DEF g
<1>5. CASE w # Win(m, r)
  <2>1. \A q \in S : f[q] = g[q]
    BY <1>5 DEF Users
  <2>2. total'[m][w] = total[m][w]
    BY <1>1, <1>5
  <2> HIDE DEF f, g, S
  <2>3. SumFunctionOnSet(f, S) = SumFunctionOnSet(g, S)
    BY <1>2, <2>1, SumSame
  <2> QED  BY <1>2, <1>3, <2>2, <2>3 DEF g
<1> QED  BY <1>4, <1>5

LEMMA SumKept ==
    ASSUME TotalIsSum, at' = at, NEW m \in Metrics,
           entry'[m] = entry[m], total'[m] = total[m], NEW w \in Times
    PROVE  total'[m][w] = SumFunctionOnSet(entry'[m], Users(m, w)')
BY DEF TotalIsSum, Users, Win

-----------------------------------------------------------------------------
(* LedgerInv is inductive *)

LEMMA LedgerInit == Init => LedgerInv
<1> SUFFICES ASSUME Init PROVE LedgerInv
  OBVIOUS
<1>1. /\ EntryInv /\ KeyInv /\ CountedInv
      /\ RolledBackStaysOut /\ UnsettledIsRecoverable
  <2>1. \A m \in Metrics, r \in Rids : Win(m, r) \in Times
    BY TypeInit, WinOnClock
  <2> QED  BY <2>1 DEF Init, EntryInv, KeyInv, CountedInv, Granted,
                       RolledBackStaysOut, UnsettledIsRecoverable
<1>2. ASSUME NEW m \in Metrics, NEW w \in Times
      PROVE  total[m][w] = SumFunctionOnSet(entry[m], Users(m, w))
  <2>1. total[m][w] = 0 /\ \A r \in Users(m, w) : entry[m][r] = 0
    BY DEF Init, Users
  <2> QED  BY <2>1, UsersFinite, SumZero
<1> QED  BY <1>1, <1>2 DEF LedgerInv, TotalIsSum, Users

\* Nothing the ledgers hold changes.
LEMMA RestsLedger ==
    ASSUME TypeOK, LedgerInv, Forward, Rests
    PROVE  LedgerInv'
<1>1. UNCHANGED <<now, at, entry, total, expiry, index, meta, acked>> /\ Granted' \subseteq Granted
  BY DEF Rests, ledgers
<1>2. EntryInv' /\ KeyInv'
  BY <1>1 DEF LedgerInv, EntryInv, KeyInv, Forward, Win
<1>3. CountedInv'
  BY <1>1 DEF LedgerInv, CountedInv, Forward, Win, Over
<1>4. RolledBackStaysOut' /\ UnsettledIsRecoverable'
  BY <1>1 DEF LedgerInv, RolledBackStaysOut, UnsettledIsRecoverable, Forward, Win
<1>5. TotalIsSum'
  BY <1>1 DEF LedgerInv, TotalIsSum, Win
<1> QED  BY <1>2, <1>3, <1>4, <1>5 DEF LedgerInv

\* A request begins: it is in no ledger, so it may move to another window.
LEMMA BeginsLedger ==
    ASSUME TypeOK, LedgerInv, Forward, NEW r \in Rids, Begins(r)
    PROVE  LedgerInv'
<1>types. /\ at \in [Rids -> Times] /\ entry \in [Metrics -> [Rids -> Nat]]
          /\ pc \in [Rids -> Phases] /\ acked \subseteq Rids
  BY LedgerTypes
<1>1. /\ UNCHANGED <<now, entry, total, expiry, index, meta, acked>> /\ Granted' \subseteq Granted
      /\ at' = [at EXCEPT ![r] = now]
  BY DEF Begins, ledgers
<1>2. /\ \A m \in Metrics : entry[m][r] = 0
      /\ \A m \in Metrics, q \in Rids \ {r} : Win(m, q)' = Win(m, q)
  BY <1>types, <1>1 DEF LedgerInv, EntryInv, Begins, Win
<1>3. EntryInv' /\ KeyInv'
  BY <1>types, <1>1, <1>2 DEF LedgerInv, EntryInv, KeyInv, Forward
<1>4. CountedInv'
  <2> SUFFICES ASSUME NEW q \in Granted', NEW m \in ReqMetrics
               PROVE  Owner[q] \in lapsed' \/ entry[m][q] = 1 \/ Over(m, Win(m, q))'
    BY <1>1 DEF CountedInv
  <2>1. q \in Granted /\ q \in Rids
    BY <1>1 DEF Granted
  <2>2. q # r
    BY DEF Begins
  <2>3. Win(m, q)' = Win(m, q)
    BY <1>2, <2>1, <2>2 DEF Metrics
  <2>4. Owner[q] \in lapsed \/ entry[m][q] = 1 \/ Over(m, Win(m, q))
    BY <2>1 DEF LedgerInv, CountedInv
  <2> QED  BY <1>1, <2>3, <2>4 DEF Over, Forward
<1>5. RolledBackStaysOut' /\ UnsettledIsRecoverable'
  BY <1>types, <1>1, <1>2 DEF LedgerInv, RolledBackStaysOut, UnsettledIsRecoverable, Forward
<1>6. ASSUME NEW m \in Metrics, NEW w \in Times
      PROVE  total'[m][w] = SumFunctionOnSet(entry'[m], Users(m, w)')
  <2> DEFINE S == Users(m, w)
             T == Users(m, w)'
             f == entry[m]
  <2>1. S \ {r} = T \ {r}
    BY <1>2 DEF Users
  <2>2. /\ f \in [Rids -> Nat] /\ f[r] = 0 /\ S \in SUBSET Rids /\ T \in SUBSET Rids
        /\ IsFiniteSet(S) /\ IsFiniteSet(T) /\ IsFiniteSet(S \ {r}) /\ S \ {r} \in SUBSET Rids
    BY <1>types, <1>2, SetsAssumption, FS_Subset DEF Users
  <2>3. total[m][w] = SumFunctionOnSet(f, S)
    BY DEF LedgerInv, TotalIsSum, Users
  <2> HIDE DEF S, T, f
  <2>4. SumFunctionOnSet(f, S \ {r}) \in Nat
    BY <2>2, SumNat
  <2>5. SumFunctionOnSet(f, S) = SumFunctionOnSet(f, S \ {r})
    <3>1. CASE r \in S
      BY <2>2, <2>4, <3>1, SumSplit
    <3>2. CASE r \notin S
      <4>1. S \ {r} = S
        BY <3>2
      <4> QED  BY <4>1
    <3> QED  BY <3>1, <3>2
  <2>6. SumFunctionOnSet(f, T) = SumFunctionOnSet(f, T \ {r})
    <3>1. CASE r \in T
      <4>1. SumFunctionOnSet(f, T) = f[r] + SumFunctionOnSet(f, T \ {r})
        BY <2>2, <3>1, SumSplit
      <4> QED  BY <2>1, <2>2, <2>4, <4>1
    <3>2. CASE r \notin T
      <4>1. T \ {r} = T
        BY <3>2
      <4> QED  BY <4>1
    <3> QED  BY <3>1, <3>2
  <2> QED  BY <1>1, <2>1, <2>3, <2>5, <2>6 DEF T, f
<1> QED  BY <1>3, <1>4, <1>5, <1>6 DEF LedgerInv, TotalIsSum, Users

\* The expiry that the reserve script leaves in the ledger of m.
Key(m, r) == IF expiry[m][Win(m, r)] # 0 THEN expiry[m][Win(m, r)]
             ELSE now + KeyTTL(m, at[r]) + Grace

LEMMA ReserveEffect ==
    ASSUME TypeOK, NEW r \in Rids, RedisReserve(r)
    PROVE  /\ ~Admits(r) => UNCHANGED ledgers
           /\ Admits(r) =>
                /\ \A m \in Meters(r) :
                    /\ entry'[m] = [entry[m] EXCEPT ![r] = Amount(m)]
                    /\ total'[m] = [total[m] EXCEPT ![Win(m, r)] = Projected(m, r, Amount(m))]
                    /\ expiry'[m] = [expiry[m] EXCEPT ![Win(m, r)] = Key(m, r)]
                /\ \A m \in Metrics \ Meters(r) :
                    UNCHANGED <<entry[m], total[m], expiry[m]>>
                /\ r \notin Probes => /\ index' = index \cup {r}
                                      /\ meta' = [meta EXCEPT ![r] = now + MetaTTL]
                /\ r \in Probes => UNCHANGED <<index, meta>>
<1>1. Meters(r) \subseteq Metrics
  BY DEF Meters, Metrics
<1> QED  BY <1>1 DEF RedisReserve, Key, Tracked, ledgers

\* A reserve script is carried out: the key it makes lasts for the window, and it
\* cannot bring back a ledger whose window is over.
LEMMA ReservesLedger ==
    ASSUME TypeOK, LeaseInv, LedgerInv, Forward, NEW r \in Rids, Reserves(r)
    PROVE  LedgerInv'
<1>types. /\ now \in Times /\ now \in Nat /\ at \in [Rids -> Times] /\ at \in [Rids -> Nat]
          /\ entry \in [Metrics -> [Rids -> Nat]] /\ total \in [Metrics -> [Times -> Nat]]
          /\ expiry \in [Metrics -> [Times -> Nat]] /\ meta \in [Rids -> Nat]
          /\ acked \subseteq Rids /\ index \subseteq Rids
          /\ WinLen \in [Metrics -> Nat] /\ Grace \in Nat /\ MetaTTL \in Nat /\ Times \subseteq Nat
  BY LedgerTypes
<1>1. CASE ~Admits(r)
  <2>1. Rests
    BY <1>1, ReserveEffect DEF Reserves, Rests
  <2> QED  BY <2>1, RestsLedger
<1>2. CASE Admits(r)
  <2>1. /\ \A m \in Meters(r) :
              /\ entry'[m] = [entry[m] EXCEPT ![r] = Amount(m)]
              /\ total'[m] = [total[m] EXCEPT ![Win(m, r)] = Projected(m, r, Amount(m))]
              /\ expiry'[m] = [expiry[m] EXCEPT ![Win(m, r)] = Key(m, r)]
        /\ \A m \in Metrics \ Meters(r) : UNCHANGED <<entry[m], total[m], expiry[m]>>
        /\ r \notin Probes => index' = index \cup {r} /\ meta' = [meta EXCEPT ![r] = now + MetaTTL]
        /\ r \in Probes => UNCHANGED <<index, meta>>
    BY <1>2, ReserveEffect DEF Reserves
  <2>2. /\ UNCHANGED <<now, at, acked>> /\ now <= at[r] + 1 /\ pc[r] # "idle" /\ r \notin acked
        /\ Granted' \subseteq Granted \cup {r}
        /\ \A m, q : Win(m, q)' = Win(m, q)
    BY DEF Reserves, Win
  <2>3. /\ Meters(r) \subseteq Metrics /\ ReqMetrics \subseteq Metrics
        /\ r \in Probes => Meters(r) = {}
        /\ r \notin Probes => ReqMetrics \subseteq Meters(r)
        /\ \A m \in Metrics : Amount(m) \in Nat
        /\ \A m \in ReqMetrics : Amount(m) = 1
    BY NumbersAssumption DEF Meters, Metrics, Amount
  <2>4. \A m \in Metrics, q \in Rids : Win(m, q) \in Times
    BY WinOnClock
  <2>5. ASSUME NEW m \in Metrics
        PROVE  /\ Key(m, r) \in Nat /\ Key(m, r) # 0
               /\ Key(m, r) <= now + WinLen[m] + Grace
               /\ \A t \in Times : WindowId(m, t) = Win(m, r) => t + 1 < Key(m, r)
    <3>1. CASE expiry[m][Win(m, r)] # 0
      BY ZenonT(30), <1>types, <2>4, <3>1 DEF Key, LedgerInv, KeyInv
    <3>2. CASE expiry[m][Win(m, r)] = 0
      <4>1. Key(m, r) = now + KeyTTL(m, at[r]) + Grace
        BY <3>2 DEF Key
      <4>2. KeyTTL(m, at[r]) \in Nat /\ KeyTTL(m, at[r]) > 0 /\ KeyTTL(m, at[r]) <= WinLen[m]
        BY <1>types, WindowEnd
      <4>3. at[r] <= now
        BY DEF LeaseInv, PhaseInv
      <4>4. ASSUME NEW t \in Times, WindowId(m, t) = Win(m, r)
            PROVE  t < at[r] + KeyTTL(m, at[r])
        BY <1>types, <4>4, WindowEnd DEF Win
      <4>5. Grace > 0 /\ WinLen[m] \in Nat /\ at[r] \in Nat
        BY <1>types, LivesAssumption
      <4> QED  BY <1>types, <4>1, <4>2, <4>3, <4>4, <4>5
    <3> QED  BY <3>1, <3>2
  <2>6. ASSUME NEW m \in Metrics, NEW w \in Times
        PROVE  /\ expiry[m][w] # 0 => expiry'[m][w] = expiry[m][w]
               /\ expiry'[m][w] = expiry[m][w] \/ (w = Win(m, r) /\ expiry'[m][w] = Key(m, r))
    <3>1. expiry[m] \in [Times -> Nat]
      BY <1>types
    <3>2. CASE m \in Meters(r)
      <4>1. expiry'[m] = [expiry[m] EXCEPT ![Win(m, r)] = Key(m, r)]
        BY <2>1, <3>2
      <4>2. expiry[m][Win(m, r)] # 0 => Key(m, r) = expiry[m][Win(m, r)]
        BY DEF Key
      <4> QED  BY <3>1, <4>1, <4>2
    <3>3. CASE m \notin Meters(r)
      BY <2>1, <3>3
    <3> QED  BY <3>2, <3>3
  <2>7. ASSUME NEW m \in Metrics, NEW q \in Rids, entry'[m][q] # entry[m][q]
        PROVE  q = r /\ m \in Meters(r) /\ expiry'[m][Win(m, r)] # 0
    <3>1. m \in Meters(r)
      BY <2>1, <2>7
    <3>2. entry[m] \in [Rids -> Nat] /\ expiry[m] \in [Times -> Nat] /\ Win(m, r) \in Times
      BY <1>types, <2>4
    <3>3. /\ entry'[m] = [entry[m] EXCEPT ![r] = Amount(m)]
          /\ expiry'[m] = [expiry[m] EXCEPT ![Win(m, r)] = Key(m, r)]
      BY <2>1, <3>1
    <3> QED  BY <2>5, <2>7, <3>1, <3>2, <3>3
  <2>over. ASSUME NEW m \in Metrics, NEW q \in Rids, Over(m, Win(m, q))
           PROVE  Over(m, Win(m, q))'
    <3>1. Win(m, q) # Win(m, r)
      BY <1>types, <2>2, <2>over DEF Over, Win
    <3> QED  BY <2>2, <2>4, <2>6, <2>over, <3>1 DEF Over
  <2>8. EntryInv'
    BY ZenonT(30), <1>types, <2>2, <2>4, <2>6, <2>7 DEF LedgerInv, EntryInv, Forward
  <2>9. KeyInv'
    BY <2>2, <2>5, <2>6 DEF LedgerInv, KeyInv
  <2>10. CountedInv'
    <3> SUFFICES ASSUME NEW q \in Granted', NEW m \in ReqMetrics
                 PROVE  Owner[q] \in lapsed' \/ entry'[m][q] = 1 \/ Over(m, Win(m, q))'
      BY DEF CountedInv
    <3>1. m \in Metrics /\ q \in Rids /\ q \notin Probes
      BY <2>3 DEF Granted
    <3>2. CASE q = r
      <4>1. m \in Meters(r) /\ Amount(m) = 1 /\ entry[m] \in [Rids -> Nat]
        BY <1>types, <2>3, <3>1, <3>2
      <4>2. entry'[m] = [entry[m] EXCEPT ![r] = Amount(m)]
        BY <2>1, <4>1
      <4> QED  BY <3>2, <4>1, <4>2
    <3>3. CASE q # r
      <4>1. q \in Granted /\ entry'[m][q] = entry[m][q]
        BY <2>2, <2>7, <3>1, <3>3
      <4>2. Owner[q] \in lapsed \/ entry[m][q] = 1 \/ Over(m, Win(m, q))
        BY <4>1 DEF LedgerInv, CountedInv
      <4>3. Over(m, Win(m, q)) => Over(m, Win(m, q))'
        BY <2>over, <3>1
      <4> QED  BY <4>1, <4>2, <4>3 DEF Forward
    <3> QED  BY <3>2, <3>3
  <2>11. RolledBackStaysOut'
    <3>1. \A q \in acked : q \in Rids /\ q # r /\ (q \in index' => q \in index)
      BY <1>types, <2>1, <2>2
    <3> QED  BY <2>2, <2>7, <3>1 DEF LedgerInv, RolledBackStaysOut, Forward
  <2>12. UnsettledIsRecoverable'
    <3> SUFFICES ASSUME NEW q \in Rids, q \notin settled', q \notin cut', NEW m \in Metrics,
                        entry'[m][q] > 0
                 PROVE  q \in index' /\ meta'[q] >= expiry'[m][Win(m, q)]
      BY <2>2 DEF UnsettledIsRecoverable
    <3>1. q \notin settled /\ q \notin cut
      BY DEF Forward
    <3>2. CASE q = r /\ r \notin Probes
      <4>1. q \in index' /\ meta'[q] = now + MetaTTL
        BY <1>types, <2>1, <3>2
      <4>2. expiry'[m][Win(m, q)] \in Nat /\ expiry'[m][Win(m, q)] <= now + WinLen[m] + Grace
        <5>1. Win(m, r) \in Times /\ expiry[m][Win(m, r)] \in Nat
          <6>1. Win(m, r) \in Times
            BY <2>4
          <6>2. expiry[m] \in [Times -> Nat]
            BY <1>types
          <6> QED  BY <6>1, <6>2
        <5>2. expiry[m][Win(m, r)] # 0 => expiry[m][Win(m, r)] <= now + WinLen[m] + Grace
          BY <5>1 DEF LedgerInv, KeyInv
        <5>3. expiry'[m][Win(m, r)] = expiry[m][Win(m, r)] \/ expiry'[m][Win(m, r)] = Key(m, r)
          BY <2>6, <5>1
        <5>4. Key(m, r) \in Nat /\ Key(m, r) <= now + WinLen[m] + Grace
          BY <2>5
        <5>5. now + WinLen[m] + Grace \in Nat
          BY <1>types
        <5> QED  BY <3>2, <5>1, <5>2, <5>3, <5>4, <5>5
      <4>3. WinLen[m] \in Nat /\ WinLen[m] + Grace <= MetaTTL
        BY <1>types, LivesAssumption
      <4> QED  BY <1>types, <4>1, <4>2, <4>3
    <3>3. CASE ~(q = r /\ r \notin Probes)
      <4>1. entry'[m][q] = entry[m][q]
        BY <2>3, <2>7, <3>3
      <4>2. q \in index /\ meta[q] >= expiry[m][Win(m, q)] /\ expiry[m][Win(m, q)] # 0
        BY <3>1, <4>1 DEF LedgerInv, UnsettledIsRecoverable, EntryInv
      <4>3. q \in index' /\ meta'[q] = meta[q]
        BY <1>types, <2>1, <3>3, <4>2
      <4>4. expiry'[m][Win(m, q)] = expiry[m][Win(m, q)]
        BY <2>4, <2>6, <4>2
      <4> QED  BY <4>2, <4>3, <4>4
    <3> QED  BY <3>2, <3>3
  <2>13. ASSUME NEW m \in Metrics, NEW w \in Times
         PROVE  total'[m][w] = SumFunctionOnSet(entry'[m], Users(m, w)')
    <3>1. CASE m \in Meters(r)
      <4>1. /\ entry'[m] = [entry[m] EXCEPT ![r] = Amount(m)]
            /\ total'[m] = [total[m] EXCEPT ![Win(m, r)] = Projected(m, r, Amount(m))]
        BY <2>1, <3>1
      <4>2. Amount(m) \in Nat /\ at' = at /\ TotalIsSum
        BY <2>2, <2>3 DEF LedgerInv
      <4> QED  BY <4>1, <4>2, SumChange
    <3>2. CASE m \notin Meters(r)
      BY <2>1, <2>2, <3>2, SumKept DEF LedgerInv
    <3> QED  BY <3>1, <3>2
  <2> QED  BY <2>8, <2>9, <2>10, <2>11, <2>12, <2>13 DEF LedgerInv, TotalIsSum, Users
<1> QED  BY <1>1, <1>2

\* A rollback takes the request's own amount out and leaves every other one.
LEMMA RollsBackLedger ==
    ASSUME TypeOK, LedgerInv, Forward, NEW r \in Rids, RollsBack(r)
    PROVE  LedgerInv'
<1>types. /\ entry \in [Metrics -> [Rids -> Nat]] /\ meta \in [Rids -> Nat] /\ acked \subseteq Rids
  BY LedgerTypes
<1>1. /\ UNCHANGED <<now, at, expiry>> /\ index' = index \ {r} /\ meta' = [meta EXCEPT ![r] = 0]
      /\ acked' \subseteq acked \cup {r} /\ Granted' \subseteq Granted
      /\ r \in Granted' => Owner[r] \in lapsed
      /\ \A m, q : Win(m, q)' = Win(m, q)
  BY DEF RollsBack, RedisRollback, Win
<1>2. ASSUME NEW m \in Metrics
      PROVE  /\ entry'[m] = [entry[m] EXCEPT ![r] = 0]
             /\ total'[m] = [total[m] EXCEPT ![Win(m, r)] = Projected(m, r, 0)]
  BY DEF RollsBack, RedisRollback
<1>3. ASSUME NEW m \in Metrics, NEW q \in Rids
      PROVE  entry'[m][q] = IF q = r THEN 0 ELSE entry[m][q]
  <2>1. entry[m] \in [Rids -> Nat] /\ m \in Metrics /\ q \in Rids
    BY <1>types, <1>3
  <2>2. entry'[m] = [entry[m] EXCEPT ![r] = 0]
    BY <1>2, <2>1
  <2> QED  BY <2>1, <2>2
<1>4. EntryInv'
  BY <1>1, <1>3 DEF LedgerInv, EntryInv, Forward
<1>5. KeyInv'
  BY <1>1 DEF LedgerInv, KeyInv
<1>6. CountedInv'
  <2> SUFFICES ASSUME NEW q \in Granted', NEW m \in ReqMetrics
               PROVE  Owner[q] \in lapsed' \/ entry'[m][q] = 1 \/ Over(m, Win(m, q))'
    BY DEF CountedInv
  <2>1. q \in Granted /\ q \in Rids /\ m \in Metrics
    BY <1>1 DEF Granted, Metrics
  <2>2. Owner[q] \in lapsed \/ entry[m][q] = 1 \/ Over(m, Win(m, q))
    BY <2>1 DEF LedgerInv, CountedInv
  <2>3. Over(m, Win(m, q)) => Over(m, Win(m, q))'
    BY <1>1 DEF Over
  <2> QED  BY <1>1, <1>3, <2>1, <2>2, <2>3 DEF Forward
<1>7. RolledBackStaysOut'
  BY <1>types, <1>1, <1>3 DEF LedgerInv, RolledBackStaysOut, Forward
<1>8. UnsettledIsRecoverable'
  BY <1>types, <1>1, <1>3 DEF LedgerInv, UnsettledIsRecoverable, Forward
<1>9. ASSUME NEW m \in Metrics, NEW w \in Times
      PROVE  total'[m][w] = SumFunctionOnSet(entry'[m], Users(m, w)')
  BY <1>1, <1>2, SumChange DEF LedgerInv
<1> QED  BY <1>4, <1>5, <1>6, <1>7, <1>8, <1>9 DEF LedgerInv, TotalIsSum, Users

\* A settlement replaces token amounts in ledgers that exist, and no request count.
LEMMA SettlesLedger ==
    ASSUME TypeOK, LedgerInv, Forward, NEW r \in Rids, Settles(r)
    PROVE  LedgerInv'
<1>types. /\ entry \in [Metrics -> [Rids -> Nat]] /\ meta \in [Rids -> Nat] /\ acked \subseteq Rids
  BY LedgerTypes
<1>1. /\ UNCHANGED <<now, at, expiry, acked>> /\ index' = index \ {r}
      /\ meta' = [meta EXCEPT ![r] = 0] /\ Granted' \subseteq Granted
      /\ r \in settled' \cup cut' /\ pc[r] # "idle" /\ (r \in acked => r \in cut)
      /\ \A m, q : Win(m, q)' = Win(m, q)
  BY DEF Settles, RedisFinalize, RedisReconcile, Win
<1>2. ASSUME NEW m \in Metrics
      PROVE  \/ entry'[m] = entry[m] /\ total'[m] = total[m]
             \/ /\ m \in TokMetrics /\ expiry[m][Win(m, r)] # 0
                /\ \E n \in Nat :
                      /\ entry'[m] = [entry[m] EXCEPT ![r] = n]
                      /\ total'[m] = [total[m] EXCEPT ![Win(m, r)] = Projected(m, r, n)]
  BY DEF Settles, RedisFinalize, RedisReconcile, Reconcilable
<1>3. ASSUME NEW m \in Metrics, NEW q \in Rids, entry'[m][q] # entry[m][q]
      PROVE  q = r /\ m \in TokMetrics /\ expiry[m][Win(m, r)] # 0
  <2>1. entry[m] \in [Rids -> Nat] /\ m \in Metrics /\ q \in Rids /\ entry'[m][q] # entry[m][q]
    BY <1>types, <1>3
  <2>2. m \in TokMetrics /\ expiry[m][Win(m, r)] # 0 /\ \E n \in Nat : entry'[m] = [entry[m] EXCEPT ![r] = n]
    BY <1>2, <2>1
  <2> QED  BY <2>1, <2>2
<1>4. EntryInv'
  <2> SUFFICES ASSUME NEW q \in Rids, NEW m \in Metrics
               PROVE  /\ pc'[q] = "idle" => entry'[m][q] = 0
                      /\ entry'[m][q] > 0 => expiry[m][Win(m, q)] # 0
    BY <1>1 DEF EntryInv
  <2> QED  BY <1>1, <1>3 DEF LedgerInv, EntryInv, Forward
<1>5. KeyInv'
  BY <1>1 DEF LedgerInv, KeyInv
<1>6. CountedInv'
  <2> SUFFICES ASSUME NEW q \in Granted', NEW m \in ReqMetrics
               PROVE  Owner[q] \in lapsed' \/ entry'[m][q] = 1 \/ Over(m, Win(m, q))'
    BY DEF CountedInv
  <2>1. q \in Granted /\ q \in Rids /\ m \in Metrics /\ m \notin TokMetrics
    BY <1>1, SetsAssumption DEF Granted, Metrics
  <2>2. Owner[q] \in lapsed \/ entry[m][q] = 1 \/ Over(m, Win(m, q))
    BY <2>1 DEF LedgerInv, CountedInv
  <2>3. Over(m, Win(m, q)) => Over(m, Win(m, q))'
    BY <1>1 DEF Over
  <2> QED  BY <1>3, <2>1, <2>2, <2>3 DEF Forward
<1>7. RolledBackStaysOut'
  BY <1>types, <1>1, <1>3 DEF LedgerInv, RolledBackStaysOut, Forward
<1>8. UnsettledIsRecoverable'
  <2> SUFFICES ASSUME NEW q \in Rids, q \notin settled', q \notin cut', NEW m \in Metrics,
                      entry'[m][q] > 0
               PROVE  q \in index' /\ meta'[q] >= expiry[m][Win(m, q)]
    BY <1>1 DEF UnsettledIsRecoverable
  <2>1. q # r /\ q \notin settled /\ q \notin cut /\ entry[m][q] > 0
    BY <1>1, <1>3 DEF Forward
  <2>2. q \in index /\ meta[q] >= expiry[m][Win(m, q)]
    BY <2>1 DEF LedgerInv, UnsettledIsRecoverable
  <2> QED  BY <1>types, <1>1, <2>1, <2>2
<1>9. ASSUME NEW m \in Metrics, NEW w \in Times
      PROVE  total'[m][w] = SumFunctionOnSet(entry'[m], Users(m, w)')
  <2>1. TotalIsSum /\ at' = at
    BY <1>1 DEF LedgerInv
  <2>2. CASE entry'[m] = entry[m] /\ total'[m] = total[m]
    BY <2>1, <2>2, SumKept
  <2>3. CASE ~(entry'[m] = entry[m] /\ total'[m] = total[m])
    <3>1. PICK n \in Nat :
              /\ entry'[m] = [entry[m] EXCEPT ![r] = n]
              /\ total'[m] = [total[m] EXCEPT ![Win(m, r)] = Projected(m, r, n)]
      BY <1>2, <2>3
    <3> QED  BY <2>1, <3>1, SumChange
  <2> QED  BY <2>2, <2>3
<1> QED  BY <1>4, <1>5, <1>6, <1>7, <1>8, <1>9 DEF LedgerInv, TotalIsSum, Users

\* A ledger that expires is gone for good: its window is over.
LEMMA OverTick ==
    ASSUME TypeOK, LedgerInv, Tick, NEW m \in Metrics, NEW w \in Times,
           Over(m, w) \/ Expired(m, w, now')
    PROVE  Over(m, w)'
<1>1. /\ now \in Nat /\ now' = now + 1 /\ Times \subseteq Nat /\ expiry[m][w] \in Nat
      /\ expiry'[m][w] = IF Expired(m, w, now') THEN 0 ELSE expiry[m][w]
  BY LedgerTypes DEF Tick
<1>2. expiry'[m][w] = 0
  BY <1>1 DEF Over
<1>3. \A t \in Times : WindowId(m, t) = w => t + 1 < now'
  <2>1. CASE Over(m, w)
    BY <1>1, <2>1 DEF Over
  <2>2. CASE Expired(m, w, now')
    <3>1. expiry[m][w] # 0 /\ expiry[m][w] <= now'
      BY <2>2 DEF Expired
    <3>2. \A t \in Times : WindowId(m, t) = w => t + 1 < expiry[m][w]
      BY <3>1 DEF LedgerInv, KeyInv
    <3> QED  BY <1>1, <3>1, <3>2
  <2> QED  BY <2>1, <2>2
<1> QED  BY <1>2, <1>3 DEF Over

\* Keys expire: a ledger with everything in it, once its window is over, and a
\* meta never before the ledgers it is needed for.
LEMMA TickLedger ==
    ASSUME TypeOK, LedgerInv, Tick
    PROVE  LedgerInv'
<1>types. /\ now \in Nat /\ at \in [Rids -> Times] /\ entry \in [Metrics -> [Rids -> Nat]]
          /\ total \in [Metrics -> [Times -> Nat]] /\ expiry \in [Metrics -> [Times -> Nat]]
          /\ meta \in [Rids -> Nat] /\ acked \subseteq Rids /\ Times \subseteq Nat
          /\ WinLen \in [Metrics -> Nat] /\ Grace \in Nat
  BY LedgerTypes
<1>1. /\ now' = now + 1 /\ UNCHANGED <<at, index, acked, settled, cut, pc, fallback>>
      /\ lapsed \subseteq lapsed' /\ Granted' = Granted
      /\ \A m, q : Win(m, q)' = Win(m, q)
  BY DEF Tick, leaseVars, Granted, Win
<1>2. \A m \in Metrics, q \in Rids : Win(m, q) \in Times
  BY WinOnClock
<1>3. ASSUME NEW m \in Metrics, NEW w \in Times
      PROVE  /\ expiry'[m][w] = IF Expired(m, w, now') THEN 0 ELSE expiry[m][w]
             /\ total'[m][w] = IF Expired(m, w, now') THEN 0 ELSE total[m][w]
  BY DEF Tick
<1>4. ASSUME NEW m \in Metrics, NEW q \in Rids
      PROVE  entry'[m][q] = IF Expired(m, Win(m, q), now') THEN 0 ELSE entry[m][q]
  BY DEF Tick
<1>5. EntryInv'
  <2> SUFFICES ASSUME NEW q \in Rids, NEW m \in Metrics
               PROVE  /\ pc[q] = "idle" => entry'[m][q] = 0
                      /\ entry'[m][q] > 0 => expiry'[m][Win(m, q)] # 0
    BY <1>1 DEF EntryInv
  <2> QED  BY <1>2, <1>3, <1>4 DEF LedgerInv, EntryInv
<1>6. KeyInv'
  <2> SUFFICES ASSUME NEW m \in Metrics, NEW w \in Times, expiry'[m][w] # 0
               PROVE  /\ expiry'[m][w] <= now' + WinLen[m] + Grace
                      /\ \A t \in Times : WindowId(m, t) = w => t + 1 < expiry'[m][w]
    BY DEF KeyInv
  <2>1. expiry'[m][w] = expiry[m][w] /\ expiry[m][w] \in Nat /\ WinLen[m] \in Nat
    BY <1>types, <1>3
  <2>2. /\ expiry[m][w] <= now + WinLen[m] + Grace
        /\ \A t \in Times : WindowId(m, t) = w => t + 1 < expiry[m][w]
    BY <2>1 DEF LedgerInv, KeyInv
  <2> QED  BY <1>types, <1>1, <2>1, <2>2
<1>gone. ASSUME NEW m \in Metrics, NEW q \in Rids,
                Over(m, Win(m, q)) \/ Expired(m, Win(m, q), now')
         PROVE  Over(m, Win(m, q))'
  BY <1>1, <1>2, <1>gone, OverTick
<1>7. CountedInv'
  <2> SUFFICES ASSUME NEW q \in Granted', NEW m \in ReqMetrics
               PROVE  Owner[q] \in lapsed' \/ entry'[m][q] = 1 \/ Over(m, Win(m, q))'
    BY DEF CountedInv
  <2>1. q \in Granted /\ q \in Rids /\ m \in Metrics
    BY <1>1 DEF Granted, Metrics
  <2>2. Owner[q] \in lapsed \/ entry[m][q] = 1 \/ Over(m, Win(m, q))
    BY <2>1 DEF LedgerInv, CountedInv
  <2> QED  BY <1>1, <1>4, <1>gone, <2>1, <2>2
<1>8. RolledBackStaysOut'
  <2>1. \A q \in acked, m \in Metrics : entry'[m][q] > 0 => entry[m][q] > 0
    BY <1>types, <1>4
  <2> QED  BY <1>1, <2>1 DEF LedgerInv, RolledBackStaysOut
<1>9. UnsettledIsRecoverable'
  <2> SUFFICES ASSUME NEW q \in Rids \ (settled \cup cut), NEW m \in Metrics, entry'[m][q] > 0
               PROVE  q \in index /\ meta'[q] >= expiry'[m][Win(m, q)]
    BY <1>1 DEF UnsettledIsRecoverable
  <2>1. ~Expired(m, Win(m, q), now') /\ entry[m][q] > 0
    BY <1>4
  <2>2. expiry[m][Win(m, q)] # 0
    BY <2>1 DEF LedgerInv, EntryInv
  <2>3. q \in index /\ meta[q] >= expiry[m][Win(m, q)]
    BY <2>1 DEF LedgerInv, UnsettledIsRecoverable
  <2>4. expiry'[m][Win(m, q)] = expiry[m][Win(m, q)] /\ expiry[m][Win(m, q)] \in Nat
    BY ZenonT(30), <1>types, <1>2, <1>3, <2>1
  <2>5. meta'[q] = IF meta[q] <= now' THEN 0 ELSE meta[q]
    BY DEF Tick, Alive
  <2>6. expiry[m][Win(m, q)] > now' /\ now' \in Nat /\ meta[q] \in Nat
    BY <1>types, <1>1, <2>1, <2>2, <2>4 DEF Expired
  <2> QED  BY <2>3, <2>4, <2>5, <2>6
<1>10. ASSUME NEW m \in Metrics, NEW w \in Times
       PROVE  total'[m][w] = SumFunctionOnSet(entry'[m], Users(m, w)')
  <2> DEFINE S == Users(m, w)
  <2>1. IsFiniteSet(S) /\ S \in SUBSET Rids /\ S = Users(m, w)'
    BY <1>1, UsersFinite DEF Users
  <2>2. \A q \in S : q \in Rids /\ Win(m, q) = w
    BY DEF Users
  <2>3. total[m][w] = SumFunctionOnSet(entry[m], S)
    BY DEF LedgerInv, TotalIsSum, Users
  <2> HIDE DEF S
  <2>4. CASE Expired(m, w, now')
    <3>1. total'[m][w] = 0 /\ \A q \in S : entry'[m][q] = 0
      BY <1>3, <1>4, <2>2, <2>4
    <3> QED  BY <2>1, <3>1, SumZero
  <2>5. CASE ~Expired(m, w, now')
    <3>1. total'[m][w] = total[m][w] /\ \A q \in S : entry[m][q] = entry'[m][q]
      BY <1>3, <1>4, <2>2, <2>5
    <3>2. SumFunctionOnSet(entry[m], S) = SumFunctionOnSet(entry'[m], S)
      BY <2>1, <3>1, SumSame
    <3> QED  BY <2>1, <2>3, <3>1, <3>2
  <2> QED  BY <2>4, <2>5
<1> QED  BY <1>5, <1>6, <1>7, <1>8, <1>9, <1>10 DEF LedgerInv, TotalIsSum, Users

LEMMA LedgerStep ==
    TypeOK /\ LeaseInv /\ ControlInv /\ LedgerInv /\ [Next]_vars => LedgerInv'
<1> SUFFICES ASSUME TypeOK, LeaseInv, ControlInv, LedgerInv, [Next]_vars PROVE LedgerInv'
  OBVIOUS
<1> QED  BY LedgerKinds, TickLedger, RestsLedger, BeginsLedger, ReservesLedger, RollsBackLedger,
            SettlesLedger

LEMMA LedgerCorrect == Spec => []LedgerInv
BY LedgerInit, LedgerStep, TypeCorrect, LeaseCorrect, ControlCorrect, PTL DEF Spec

\* A served request is granted, and while its ledger exists the window is not over.
LEMMA LedgersFollow == TypeOK /\ LedgerInv => LedgersExact
<1> SUFFICES ASSUME TypeOK, LedgerInv,
                    NEW r \in settled \ (fallback \cup Probes), NEW m \in ReqMetrics,
                    Owner[r] \notin lapsed, expiry[m][Win(m, r)] # 0
             PROVE  entry[m][r] = 1
  BY DEF LedgerInv, LedgersExact, ServedStaysCounted
<1>1. r \in Granted
  BY LedgerTypes DEF Granted
<1> QED  BY <1>1 DEF LedgerInv, CountedInv, Over

\* The ledgers are exact for every number of requests, processes, metrics and
\* faults: __total is the sum of the members however often the reserve, rollback
\* and reconcile scripts are repeated, cut off or land late; a request whose
\* rollback was answered stays out of the request ledgers and the index; a served
\* one stays counted for as long as its window's ledger exists.
THEOREM LedgersAreExact == Spec => []LedgersExact
BY LedgerCorrect, TypeCorrect, LedgersFollow, PTL

\* Whatever the interleaving of timed-out calls, late scripts, reapers, crashes and
\* expiries, an amount that no settlement accounts for is in the recovery index, with
\* a meta hash that lives as long as the ledger: reap_orphan_reservations finds it.
THEOREM AllRecoverable == Spec => []UnsettledIsRecoverable
<1>1. LedgerInv => UnsettledIsRecoverable
  BY DEF LedgerInv
<1> QED  BY <1>1, LedgerCorrect, PTL

-----------------------------------------------------------------------------
(* The request limits.  A window at its limit is covered by the freeze, which   *)
(* lasts at least as long as the window's ledger, or the freeze has been ended  *)
(* before its time, which `lifts` counts.                                       *)

\* A ledger that exists has not expired.
LiveInv == \A m \in Metrics, w \in Times : expiry[m][w] # 0 => expiry[m][w] > now

\* A window that is as full as it can get is over before the freeze is.
FrozenInv ==
    \A m \in ReqMetrics, w \in Times :
        /\ total[m][w] <= Limit[m] + lifts
        /\ total[m][w] = Limit[m] + lifts => acctFreeze >= expiry[m][w]

LEMMA LiftSame ==
    ASSUME TypeOK, UNCHANGED freezes
    PROVE  CountLift
BY DEF TypeOK, RedisTypeOK, freezes, CountLift

\* Whatever shortens the freeze is counted, except the passing of its time.
LEMMA LiftCounted ==
    ASSUME TypeOK, [Next]_vars
    PROVE  Tick \/ CountLift
<1>same. ASSUME UNCHANGED redisVars PROVE CountLift
  BY <1>same, LiftSame DEF redisVars
<1>reserve. ASSUME NEW r, RedisReserve(r) PROVE CountLift
  BY <1>reserve, LiftSame DEF RedisReserve
<1>rollback. ASSUME NEW r, RedisRollback(r) PROVE CountLift
  BY <1>rollback, LiftSame DEF RedisRollback
<1>settle. ASSUME NEW r, NEW n, RedisReconcile(r, n) \/ RedisFinalize(r) PROVE CountLift
  BY <1>settle, LiftSame DEF RedisReconcile, RedisFinalize
<1>lease. ASSUME NEW r, NEW t, RedisRelease(r) \/ RedisRenew(r, t) PROVE CountLift
  BY <1>lease, LiftSame DEF RedisRelease, RedisRenew
<1>1. ASSUME NEW r \in Rids, RequestStep(r) PROVE CountLift
  <2>1. CASE Acquire(r) \/ ReserveUncertain(r) \/ ReserveCancelled(r) \/ Succeed(r)
    BY <2>1, <1>same DEF Acquire, ReserveUncertain, ReserveCancelled, Succeed
  <2>2. CASE ReserveAnswered(r)
    BY <2>2, <1>reserve DEF ReserveAnswered
  <2>3. ASSUME NEW n \in Actuals, Settle(r, n) \/ SettleCut(r, n) PROVE CountLift
    BY <2>3, <1>same, <1>settle DEF Settle, SettleCut, GiveUp
  <2>4. CASE Rollback(r) \/ RollbackCut(r)
    BY <2>4, <1>same, <1>rollback DEF Rollback, RollbackCut, GiveUp
  <2>5. CASE Release(r)
    BY <2>5, <1>same, <1>lease DEF Release, GiveUp
  <2>6. ASSUME NEW d \in Cooldowns, Cooldown(r, d) PROVE CountLift
    BY <2>6 DEF Cooldown
  <2> QED  BY <1>1, <2>1, <2>2, <2>3, <2>4, <2>5, <2>6 DEF RequestStep
<1>2. ASSUME NEW r \in Rids, TaskStep(r) PROVE CountLift
  BY <1>2, <1>same, <1>rollback, <1>lease
     DEF TaskStep, CleanupLedger, CleanupLease, RetryRollback, Renew, GiveUp
<1>3. ASSUME NEW p \in Procs, Heartbeat(p) \/ ReapStep(p) \/ Crash(p) PROVE CountLift
  BY <1>3, <1>same, <1>rollback
     DEF Heartbeat, ReapStep, ReapScan, ReapCheck, ReapRollback, Crash, GiveUp
<1>4. ASSUME NEW p \in Procs, Shutdown(p) PROVE CountLift
  BY <1>4, LiftSame DEF Shutdown
<1>5. ASSUME NEW c \in net, Land(c) \/ Lose(c) PROVE CountLift
  <2>1. c.op \in Ops
    BY DEF TypeOK, Commands
  <2>2. CASE Lose(c)
    BY <2>2, <1>same DEF Lose
  <2>3. CASE Land(c) /\ c.op \in {"reserve", "rollback"}
    BY <2>3, <1>reserve, <1>rollback DEF Land
  <2>4. CASE Land(c) /\ c.op \in {"reconcile", "finalize"}
    BY <2>4, <1>settle DEF Land
  <2>5. CASE Land(c) /\ c.op \in {"release", "renew"}
    BY <2>5, <1>lease DEF Land
  <2>6. CASE Land(c) /\ c.op = "thaw"
    BY <2>6 DEF Land, RedisThaw
  <2> QED  BY <1>5, <2>1, <2>2, <2>3, <2>4, <2>5, <2>6 DEF Ops
<1>6. CASE UNCHANGED vars
  BY <1>6, <1>same DEF vars
<1> QED  BY <1>1, <1>2, <1>3, <1>4, <1>5, <1>6 DEF Next, NetStep

LEMMA LiveStep ==
    ASSUME TypeOK, LeaseInv, ControlInv, LiveInv, [Next]_vars
    PROVE  LiveInv'
<1>types. /\ now \in Nat /\ expiry \in [Metrics -> [Times -> Nat]] /\ at \in [Rids -> Nat] /\ Grace \in Nat
  BY LedgerTypes
<1>1. CASE UNCHANGED <<now, expiry>>
  BY <1>1 DEF LiveInv
<1>2. ASSUME NEW r \in Rids, Reserves(r)
      PROVE  LiveInv'
  <2> SUFFICES ASSUME NEW m \in Metrics, NEW w \in Times, expiry'[m][w] # 0
               PROVE  expiry'[m][w] > now
    BY <1>2 DEF Reserves, LiveInv
  <2>1. \/ expiry'[m] = [expiry[m] EXCEPT ![Win(m, r)] = Key(m, r)]
        \/ expiry'[m] = expiry[m]
    BY <1>2, ReserveEffect DEF Reserves, ledgers
  <2>2. CASE expiry'[m][w] = expiry[m][w]
    BY <2>2 DEF LiveInv
  <2>3. CASE expiry'[m][w] # expiry[m][w]
    <3>1. expiry'[m][w] = Key(m, r) /\ w = Win(m, r)
      BY <1>types, <2>1, <2>3
    <3>2. Key(m, r) = now + KeyTTL(m, at[r]) + Grace
      BY <2>3, <3>1 DEF Key
    <3>3. KeyTTL(m, at[r]) \in Nat /\ KeyTTL(m, at[r]) > 0
      BY <1>types, WindowEnd
    <3> QED  BY <1>types, <3>1, <3>2, <3>3
  <2> QED  BY <2>2, <2>3
<1>3. CASE Tick
  <2> SUFFICES ASSUME NEW m \in Metrics, NEW w \in Times, expiry'[m][w] # 0
               PROVE  expiry'[m][w] > now'
    BY DEF LiveInv
  <2>1. expiry'[m][w] = IF Expired(m, w, now') THEN 0 ELSE expiry[m][w]
    BY <1>3 DEF Tick
  <2>2. now' = now + 1 /\ expiry[m][w] \in Nat
    BY <1>types, <1>3 DEF Tick
  <2> QED  BY <1>types, <2>1, <2>2 DEF Expired
<1>4. CASE Rests \/ \E r \in Rids : Begins(r) \/ RollsBack(r) \/ Settles(r)
  <2>1. UNCHANGED <<now, expiry>>
    BY <1>4 DEF Rests, Begins, RollsBack, Settles, ledgers, RedisRollback, RedisReconcile, RedisFinalize
  <2> QED  BY <1>1, <2>1
<1> QED  BY <1>2, <1>3, <1>4, LedgerKinds

\* A ledger that does not exist counts nothing.
LEMMA EmptyLedger ==
    ASSUME TypeOK, LedgerInv, NEW m \in Metrics, NEW w \in Times, expiry[m][w] = 0
    PROVE  total[m][w] = 0
<1>1. \A q \in Users(m, w) : entry[m][q] = 0
  <2> SUFFICES ASSUME NEW q \in Users(m, w) PROVE entry[m][q] = 0
    OBVIOUS
  <2>1. q \in Rids /\ Win(m, q) = w
    BY DEF Users
  <2>2. ~(entry[m][q] > 0) /\ entry[m][q] \in Nat
    BY <2>1, LedgerTypes DEF LedgerInv, EntryInv
  <2> QED  BY <2>2
<1>2. total[m][w] = SumFunctionOnSet(entry[m], Users(m, w))
  BY DEF LedgerInv, TotalIsSum, Users
<1> QED  BY <1>1, <1>2, UsersFinite, SumZero

\* A freeze that is set is at least as long as every one that was asked for.
LEMMA FreezeSet ==
    ASSUME NEW old, NEW S, NEW e \in SetFreeze(old, S)
    PROVE  (S = {} => e = old) /\ \A x \in S : e >= x
BY DEF SetFreeze

LEMMA FrozenTypes ==
    ASSUME TypeOK, TypeOK'
    PROVE  /\ total \in [Metrics -> [Times -> Nat]] /\ entry \in [Metrics -> [Rids -> Nat]]
           /\ expiry \in [Metrics -> [Times -> Nat]] /\ now \in Nat /\ lifts \in Nat /\ acctFreeze \in Nat
           /\ total' \in [Metrics -> [Times -> Nat]] /\ expiry' \in [Metrics -> [Times -> Nat]]
           /\ lifts' \in Nat /\ acctFreeze' \in Nat
           /\ \A m \in ReqMetrics : m \in Metrics /\ m \notin TokMetrics /\ Limit[m] \in Nat \ {0}
<1>1. \A m \in ReqMetrics : m \in Metrics /\ m \notin TokMetrics
  BY SetsAssumption DEF Metrics
<1>2. \A m \in ReqMetrics : Limit[m] \in Nat \ {0}
  BY <1>1, NumbersAssumption
<1>3. now \in Nat
  BY DEF TypeOK, Times
<1> QED  BY <1>1, <1>2, <1>3 DEF TypeOK, RedisTypeOK

\* The freeze changes, or its end is counted; no window of requests gets fuller.
LEMMA FrozenLess ==
    ASSUME TypeOK, TypeOK', FrozenInv, CountLift, expiry' = expiry,
           \A m \in ReqMetrics, w \in Times : total'[m][w] <= total[m][w]
    PROVE  FrozenInv'
<1> SUFFICES ASSUME NEW m \in ReqMetrics, NEW w \in Times
             PROVE  /\ total'[m][w] <= Limit[m] + lifts'
                    /\ total'[m][w] = Limit[m] + lifts' => acctFreeze' >= expiry'[m][w]
  BY DEF FrozenInv
<1>1. /\ total[m][w] \in Nat /\ total'[m][w] \in Nat /\ Limit[m] \in Nat /\ expiry[m][w] \in Nat
      /\ lifts \in Nat /\ acctFreeze \in Nat /\ acctFreeze' \in Nat
  BY FrozenTypes
<1>2. /\ total[m][w] <= Limit[m] + lifts
      /\ total[m][w] = Limit[m] + lifts => acctFreeze >= expiry[m][w]
  BY DEF FrozenInv
<1>3. \/ acctFreeze' < acctFreeze /\ lifts' = lifts + 1
      \/ acctFreeze' >= acctFreeze /\ lifts' = lifts
  BY <1>1 DEF CountLift
<1> QED  BY <1>1, <1>2, <1>3

\* The reserve script admits a request only where no freeze lasts, so that no window is
\* as full as it can get; where it fills one it freezes the account for as long.
LEMMA FrozenReserves ==
    ASSUME TypeOK, TypeOK', LedgerInv, LiveInv, FrozenInv, CountLift,
           NEW r \in Rids, RedisReserve(r), Admits(r), r \notin Probes
    PROVE  FrozenInv'
<1> SUFFICES ASSUME NEW m \in ReqMetrics, NEW w \in Times
             PROVE  /\ total'[m][w] <= Limit[m] + lifts'
                    /\ total'[m][w] = Limit[m] + lifts' => acctFreeze' >= expiry'[m][w]
  BY DEF FrozenInv
<1>types. /\ m \in Metrics /\ m \notin TokMetrics /\ Limit[m] \in Nat \ {0}
          /\ total \in [Metrics -> [Times -> Nat]] /\ entry \in [Metrics -> [Rids -> Nat]]
          /\ expiry \in [Metrics -> [Times -> Nat]] /\ now \in Nat /\ acctFreeze \in Nat
          /\ lifts \in Nat /\ lifts' \in Nat /\ Win(m, r) \in Times
  BY FrozenTypes, WinOnClock
<1>1. acctFreeze <= now /\ m \in Meters(r) /\ Amount(m) = 1
  BY <1>types DEF Admits, Frozen, Meters, Amount
<1>2. /\ total'[m] = [total[m] EXCEPT ![Win(m, r)] = Projected(m, r, Amount(m))]
      /\ expiry'[m] = [expiry[m] EXCEPT ![Win(m, r)] = Key(m, r)]
  BY <1>1, ReserveEffect
<1>3. total[m][w] < Limit[m] + lifts
  <2>1. CASE expiry[m][w] = 0
    <3>1. total[m][w] = 0 /\ Limit[m] \in Nat /\ Limit[m] > 0
      BY <1>types, <2>1, EmptyLedger
    <3> QED  BY <1>types, <3>1
  <2>2. CASE expiry[m][w] # 0
    <3>1. expiry[m][w] > now /\ expiry[m][w] \in Nat /\ total[m][w] \in Nat /\ Limit[m] \in Nat
      BY <1>types, <2>2 DEF LiveInv
    <3>2. /\ total[m][w] <= Limit[m] + lifts
          /\ total[m][w] = Limit[m] + lifts => acctFreeze >= expiry[m][w]
      BY DEF FrozenInv
    <3>3. ~(total[m][w] = Limit[m] + lifts)
      BY <1>types, <1>1, <3>1, <3>2
    <3>4. lifts \in Nat
      BY <1>types
    <3> QED  BY <3>1, <3>2, <3>3, <3>4
  <2> QED  BY <2>1, <2>2
<1>4. lifts <= lifts'
  <2>1. lifts' = lifts \/ lifts' = lifts + 1
    BY DEF CountLift
  <2>2. lifts \in Nat
    BY <1>types
  <2> QED  BY <2>1, <2>2
<1>5. CASE w # Win(m, r)
  <2>1. total'[m][w] = total[m][w] /\ total[m][w] \in Nat /\ Limit[m] \in Nat
    BY <1>types, <1>2, <1>5
  <2> QED  BY <1>types, <1>3, <1>4, <2>1
<1>6. CASE w = Win(m, r)
  <2>1. total'[m][w] = Projected(m, r, 1) /\ expiry'[m][w] = Key(m, r)
    BY <1>types, <1>1, <1>2, <1>6
  <2>2. Projected(m, r, 1) <= total[m][w] + 1 /\ Projected(m, r, 1) \in Nat /\ total[m][w] \in Nat
    <3>1. total[m][w] \in Nat /\ entry[m][r] \in Nat
      BY <1>types
    <3> QED  BY <1>6, <3>1 DEF Projected
  <2>3. Limit[m] \in Nat
    BY <1>types
  <2>4. ASSUME Projected(m, r, 1) >= Limit[m]
        PROVE  acctFreeze' >= Key(m, r)
    <3> DEFINE over == {k \in Meters(r) : Projected(k, r, Amount(k)) >= Limit[k]}
               S == {Key(k, r) : k \in over \ ModelMetrics}
    <3>1. m \in over \ ModelMetrics
      BY <1>types, <1>1, <2>4, SetsAssumption
    <3>2. acctFreeze' \in SetFreeze(acctFreeze, S)
      BY DEF RedisReserve, Key
    <3>3. Key(m, r) \in S
      BY <3>1
    <3> HIDE DEF S
    <3> QED  BY <3>2, <3>3, FreezeSet
  <2>5. Projected(m, r, 1) <= Limit[m] + lifts'
    BY <1>types, <1>3, <1>4, <2>2, <2>3
  <2>6. Projected(m, r, 1) = Limit[m] + lifts' => Projected(m, r, 1) >= Limit[m]
    BY <1>types, <2>2, <2>3
  <2> QED  BY <2>1, <2>4, <2>5, <2>6
<1> QED  BY <1>5, <1>6

LEMMA FrozenStep ==
    ASSUME TypeOK, TypeOK', LeaseInv, ControlInv, LedgerInv, LiveInv, FrozenInv, [Next]_vars
    PROVE  FrozenInv'
<1>types. /\ total \in [Metrics -> [Times -> Nat]] /\ entry \in [Metrics -> [Rids -> Nat]]
          /\ expiry \in [Metrics -> [Times -> Nat]] /\ now \in Nat /\ lifts \in Nat /\ acctFreeze \in Nat
          /\ \A m \in ReqMetrics : m \in Metrics /\ m \notin TokMetrics /\ Limit[m] \in Nat \ {0}
  BY FrozenTypes
<1>1. CASE Tick
  <2> SUFFICES ASSUME NEW m \in ReqMetrics, NEW w \in Times
               PROVE  /\ total'[m][w] <= Limit[m] + lifts
                      /\ total'[m][w] = Limit[m] + lifts => acctFreeze' >= expiry'[m][w]
    BY <1>1 DEF FrozenInv, Tick
  <2>1. /\ expiry'[m][w] = IF Expired(m, w, now') THEN 0 ELSE expiry[m][w]
        /\ total'[m][w] = IF Expired(m, w, now') THEN 0 ELSE total[m][w]
        /\ acctFreeze' = IF acctFreeze <= now' THEN 0 ELSE acctFreeze
        /\ now' = now + 1
    BY <1>types, <1>1 DEF Tick, Alive
  <2>2. /\ total[m][w] <= Limit[m] + lifts
        /\ total[m][w] = Limit[m] + lifts => acctFreeze >= expiry[m][w]
    BY DEF FrozenInv
  <2>3. Limit[m] \in Nat \ {0} /\ expiry[m][w] \in Nat /\ total[m][w] \in Nat
    BY <1>types
  <2> QED  BY <1>types, <2>1, <2>2, <2>3 DEF Expired
<1>2. CASE ~Tick
  <2>count. CountLift
    BY <1>2, LiftCounted
  <2>less. ASSUME expiry' = expiry, \A m \in ReqMetrics : total'[m] = total[m]
           PROVE  FrozenInv'
    <3>1. \A m \in ReqMetrics, w \in Times : total'[m][w] <= total[m][w]
      BY <1>types, <2>less
    <3> QED  BY <2>count, <2>less, <3>1, FrozenLess
  <2>1. CASE Rests \/ \E r \in Rids : Begins(r)
    BY <2>1, <2>less DEF Rests, Begins, ledgers
  <2>2. ASSUME NEW r \in Rids, Reserves(r) PROVE FrozenInv'
    <3>1. CASE ~Admits(r)
      BY <2>2, <2>less, <3>1, ReserveEffect DEF Reserves, ledgers
    <3>2. CASE Admits(r) /\ r \in Probes
      <4>1. Meters(r) = {}
        BY <3>2 DEF Meters
      <4>2. expiry' = expiry /\ total' = total
        BY <1>types, <2>2, <3>2, <4>1 DEF Reserves, RedisReserve
      <4> QED  BY <2>less, <4>2
    <3>3. CASE Admits(r) /\ r \notin Probes
      BY <2>count, <2>2, <3>3, FrozenReserves DEF Reserves
    <3> QED  BY <3>1, <3>2, <3>3
  <2>3. ASSUME NEW r \in Rids, RollsBack(r) PROVE FrozenInv'
    <3>1. expiry' = expiry /\ \A m \in Metrics :
              total'[m] = [total[m] EXCEPT ![Win(m, r)] = Projected(m, r, 0)]
      BY <2>3 DEF RollsBack, RedisRollback, freezes
    <3>2. ASSUME NEW m \in ReqMetrics, NEW w \in Times
          PROVE  total'[m][w] <= total[m][w]
      <4>1. m \in Metrics /\ entry[m][r] \in Nat /\ Win(m, r) \in Times /\ total[m][w] \in Nat
            /\ total[m][Win(m, r)] \in Nat /\ total[m] \in [Times -> Nat]
        BY <1>types, <3>2, WinOnClock
      <4>2. Projected(m, r, 0) <= total[m][Win(m, r)]
        BY <4>1 DEF Projected
      <4>3. total'[m][w] = IF w = Win(m, r) THEN Projected(m, r, 0) ELSE total[m][w]
        BY <3>1, <4>1
      <4>4. total[m][w] <= total[m][w]
        BY <4>1
      <4> QED  BY <4>2, <4>3, <4>4
    <3> QED  BY <2>count, <3>1, <3>2, FrozenLess
  <2>4. ASSUME NEW r \in Rids, Settles(r) PROVE FrozenInv'
    <3>1. expiry' = expiry /\ \A m \in ReqMetrics : total'[m] = total[m]
      BY <1>types, <2>4 DEF Settles, RedisFinalize, RedisReconcile, Reconcilable
    <3> QED  BY <2>less, <3>1
  <2> QED  BY <1>2, <2>1, <2>2, <2>3, <2>4, LedgerKinds
<1> QED  BY <1>1, <1>2

LEMMA FrozenInit == Init => LiveInv /\ FrozenInv
BY NumbersAssumption DEF Init, LiveInv, FrozenInv, Metrics

\* Reaching a request limit freezes the account for as long as the window's ledger exists
\* (the freeze that the reserve script sets), so every request beyond the limit of a window
\* is let in by one end of the freeze before its time: by the success of a request, a
\* cooldown or a settlement that sets a shorter one.  Nothing that is late, lost, repeated
\* or run by a reaper adds to it, for any requests, processes, windows, limits, cooldowns
\* and faults.
THEOREM RequestsAreCapped == Spec => []RequestCap
<1> DEFINE Inv == LiveInv /\ FrozenInv
<1>1. Init => Inv
  BY FrozenInit
<1>2. TypeOK /\ LeaseInv /\ ControlInv /\ LedgerInv /\ Inv /\ [Next]_vars => Inv'
  BY TypeStep, LiveStep, FrozenStep
<1>3. Inv => RequestCap
  BY DEF FrozenInv, RequestCap
<1> HIDE DEF Inv
<1> QED  BY <1>1, <1>2, <1>3, TypeCorrect, LeaseCorrect, ControlCorrect, LedgerCorrect, PTL DEF Spec

=============================================================================
