----------------------------- MODULE AccountSync -----------------------------
(***************************************************************************)
(* The accounts of one channel in the four places a gateway keeps them:    *)
(* the table provider_accounts, the configuration cache in Redis, the      *)
(* snapshot of every instance (server/config_store.py) and the running     *)
(* account pool of every instance, which requests are served from.         *)
(* Administrators and token rotation write (server/admin.py,               *)
(* server/config.py), events tell the other instances, and every minute an *)
(* instance reconciles (server/runtime_handlers.py).                       *)
(*                                                                         *)
(* A row is abstracted to a token, which rotation replaces, and a setting, *)
(* which administrators change.  A step ends where the code awaits; the    *)
(* time stamp of an event and its publication are one step, so the events  *)
(* of one account are never out of order here.                             *)
(***************************************************************************)
EXTENDS Integers, Sequences, FiniteSets

CONSTANTS
    Instances,  \* gateway processes
    Accounts,   \* usernames of the channel
    Bounds      \* bounds: the accounts that exist at first and those written to, the
                \* writes that happen, the instances that write, once each, and that
                \* reconcile, and how many subscriptions break or reads of the table fail

\* What the constants stand for.
SyncAssumption ==
    Bounds \subseteq [initial : SUBSET Accounts, written : SUBSET Accounts,
                      kinds : SUBSET {"add", "update", "rename", "rotate", "delete"},
                      writers : SUBSET Instances, reconcilers : SUBSET Instances,
                      faults : Nat]

\* No row, and the row an account begins with.
None == [token |-> 0, setting |-> 0]
First == [token |-> 1, setting |-> 1]
Seed(initial) == [a \in Accounts |-> IF a \in initial THEN First ELSE None]

\* Nothing cached for the channel.
Empty == <<>>

VARIABLES
    db,       \* provider_accounts: a row for every account, or None
    cache,    \* ai-lubricant:config:provider:{name}, or Empty
    snap,     \* _providers_cache[name] of each instance
    pool,     \* pool.clients of each instance: the row in use, or None
    tasks,    \* writes under way
    inbox,    \* account events to each instance, in the order of Redis
    handler,  \* _on_account_event of each instance
    recon,    \* _reconcile_providers of each instance
    writes,   \* bookkeeping: instances that have written; how many there are numbers
              \* tokens and settings
    faults,   \* bookkeeping: broken subscriptions and failed reads of the table
    gone,     \* bookkeeping: accounts absent from the table at some time since an
              \* instance found accounts to remove
    limits    \* the bounds of this behaviour, which stay as they are

vars == <<db, cache, snap, pool, tasks, inbox, handler, recon, writes, faults, gone, limits>>

Idle == [op |-> "idle"]

Present(config) == {a \in Accounts : config[a] # None}

-----------------------------------------------------------------------------
(* Writes *)

\* A write to account a starts; a rename makes it account b, and a rotation has
\* already changed the provider in the pool.
StartWrite(i, a, b, kind) ==
    /\ a \in limits.written /\ kind \in limits.kinds
    /\ kind = "rename" <=> b # a
    /\ i \in limits.writers \ writes /\ writes' = writes \cup {i}
    /\ kind = "rotate" => pool[i][a] # None
    /\ pool' = IF kind = "rotate" THEN [pool EXCEPT ![i][a].token = Cardinality(writes) + 2] ELSE pool
    /\ tasks' = tasks \cup
          {[at |-> i, account |-> a, to |-> b, kind |-> kind, id |-> Cardinality(writes),
            op |-> "read", row |-> None, carry |-> None, config |-> Empty]}
    /\ UNCHANGED <<db, cache, snap, inbox, handler, recon, faults, gone, limits>>

\* The row a write makes of the one it read.
Merged(k, old) ==
    CASE k.kind = "add" -> [token |-> k.id + 2, setting |-> k.id + 2]
      [] k.kind \in {"update", "rename"} -> [old EXCEPT !.setting = k.id + 2]
      [] k.kind = "rotate" -> [old EXCEPT !.token = k.id + 2]
      [] k.kind = "delete" -> None

Replace(k, new) == tasks' = (tasks \ {k}) \cup new

\* What follows read_provider_async: without the account only "add" goes on.  A
\* rename deletes the old row first and carries the new one.
Continue(k, config) ==
    Replace(k, IF k.kind # "add" /\ config[k.account] = None THEN {}
               ELSE LET new == Merged(k, config[k.account])
                        rename == k.kind = "rename"
                    IN  {[k EXCEPT !.op = "write", !.row = IF rename THEN None ELSE new,
                             !.carry = IF rename THEN new ELSE None, !.config = Empty]})

\* read_provider_async: the cache first, then the table.
ReadCache(k) ==
    /\ k.op = "read"
    /\ IF cache # Empty
       THEN snap' = [snap EXCEPT ![k.at] = cache] /\ Continue(k, cache)
       ELSE Replace(k, {[k EXCEPT !.op = "readTable"]}) /\ UNCHANGED snap
    /\ UNCHANGED <<db, cache, pool, inbox, handler, recon, writes, faults, gone, limits>>

ReadTable(k) ==
    /\ k.op = "readTable"
    /\ snap' = [snap EXCEPT ![k.at] = db]
    /\ Replace(k, {[k EXCEPT !.op = "fill", !.config = db]})
    /\ UNCHANGED <<db, cache, pool, inbox, handler, recon, writes, faults, gone, limits>>

Fill(k) ==
    /\ k.op = "fill"
    /\ cache' = k.config
    /\ Continue(k, k.config)
    /\ UNCHANGED <<db, snap, pool, inbox, handler, recon, writes, faults, gone, limits>>

\* upsert_provider_account and delete_provider_account: the table.
WriteTable(k) ==
    /\ k.op = "write"
    /\ db' = [db EXCEPT ![k.account] = k.row]
    /\ gone' = [i \in Instances |->
                  IF k.row = None /\ recon[i].op \in {"confirm", "remove"}
                  THEN gone[i] \cup {k.account} ELSE gone[i]]
    /\ Replace(k, {[k EXCEPT !.op = "patch"]})
    /\ UNCHANGED <<cache, snap, pool, inbox, handler, recon, writes, faults, limits>>

\* The table has answered: the instance changes its own snapshot, which is what
\* goes to the cache next.
Patch(k) ==
    LET mine == [snap[k.at] EXCEPT ![k.account] = k.row]
    IN  /\ k.op = "patch"
        /\ snap' = [snap EXCEPT ![k.at] = mine]
        /\ Replace(k, {[k EXCEPT !.op = "store", !.config = mine]})
        /\ UNCHANGED <<db, cache, pool, inbox, handler, recon, writes, faults, gone, limits>>

StoreCache(k) ==
    /\ k.op = "store"
    /\ cache' = k.config
    /\ Replace(k, {[k EXCEPT !.op = "publish", !.config = Empty]})
    /\ UNCHANGED <<db, snap, pool, inbox, handler, recon, writes, faults, gone, limits>>

\* _publish_account_event
Publish(k) ==
    /\ k.op = "publish"
    /\ inbox' = [i \in Instances |-> Append(inbox[i], k.account)]
    /\ Replace(k, {[k EXCEPT !.op = "pool"]})
    /\ UNCHANGED <<db, cache, snap, pool, handler, recon, writes, faults, gone, limits>>

\* _reload_account_into_pool, _remove_account_from_pool, and the attributes
\* persist_account_fields sets on the account if it is in the pool.  A rename
\* goes on with the row it carries.
UpdatePool(k) ==
    /\ k.op = "pool"
    /\ pool' = IF k.kind # "rotate" THEN [pool EXCEPT ![k.at][k.account] = k.row]
               ELSE IF pool[k.at][k.account] = None THEN pool
               ELSE [pool EXCEPT ![k.at][k.account].token = k.row.token]
    /\ Replace(k, IF k.carry = None THEN {}
                  ELSE {[k EXCEPT !.op = "write", !.account = k.to, !.row = k.carry, !.carry = None]})
    /\ UNCHANGED <<db, cache, snap, inbox, handler, recon, writes, faults, gone, limits>>

Write(k) == \/ ReadCache(k) \/ ReadTable(k) \/ Fill(k) \/ WriteTable(k)
            \/ Patch(k) \/ StoreCache(k) \/ Publish(k) \/ UpdatePool(k)

-----------------------------------------------------------------------------
(* Events *)

\* The end of _on_account_event: reload the account, or remove it.
HandleWith(i, a, config) ==
    /\ pool' = [pool EXCEPT ![i][a] = config[a]]
    /\ handler' = [handler EXCEPT ![i] = Idle]

Receive(i) ==
    /\ handler[i] = Idle /\ inbox[i] # <<>>
    /\ handler' = [handler EXCEPT ![i] = [op |-> "read", account |-> Head(inbox[i])]]
    /\ inbox' = [inbox EXCEPT ![i] = Tail(@)]
    /\ UNCHANGED <<db, cache, snap, pool, tasks, recon, writes, faults, gone, limits>>

HandlerReadCache(i) ==
    /\ handler[i].op = "read"
    /\ IF cache # Empty
       THEN snap' = [snap EXCEPT ![i] = cache] /\ HandleWith(i, handler[i].account, cache)
       ELSE /\ handler' = [handler EXCEPT ![i].op = "readTable"]
            /\ UNCHANGED <<snap, pool>>
    /\ UNCHANGED <<db, cache, tasks, inbox, recon, writes, faults, gone, limits>>

HandlerReadTable(i) ==
    /\ handler[i].op = "readTable"
    /\ snap' = [snap EXCEPT ![i] = db]
    /\ handler' = [handler EXCEPT ![i] =
            [op |-> "fill", account |-> handler[i].account, config |-> db]]
    /\ UNCHANGED <<db, cache, pool, tasks, inbox, recon, writes, faults, gone, limits>>

HandlerFill(i) ==
    /\ handler[i].op = "fill"
    /\ cache' = handler[i].config
    /\ HandleWith(i, handler[i].account, handler[i].config)
    /\ UNCHANGED <<db, snap, tasks, inbox, recon, writes, faults, gone, limits>>

Handler(i) == Receive(i) \/ HandlerReadCache(i) \/ HandlerReadTable(i) \/ HandlerFill(i)

-----------------------------------------------------------------------------
(* Reconciliation, once a minute *)

\* reload_from_db: list_provider_configs ...
ReconRead(i) ==
    /\ i \in limits.reconcilers /\ recon[i] = Idle
    /\ recon' = [recon EXCEPT ![i] = [op |-> "refresh", config |-> db]]
    /\ UNCHANGED <<db, cache, snap, pool, tasks, inbox, handler, writes, faults, gone, limits>>

\* ... replaces the snapshot, ...
ReconRefresh(i) ==
    /\ recon[i].op = "refresh"
    /\ snap' = [snap EXCEPT ![i] = recon[i].config]
    /\ recon' = [recon EXCEPT ![i].op = "store"]
    /\ UNCHANGED <<db, cache, pool, tasks, inbox, handler, writes, faults, gone, limits>>

\* ... and is put into the cache.
ReconStore(i) ==
    /\ recon[i].op = "store"
    /\ cache' = recon[i].config
    /\ recon' = [recon EXCEPT ![i] = [op |-> "apply"]]
    /\ UNCHANGED <<db, snap, pool, tasks, inbox, handler, writes, faults, gone, limits>>

\* Mutant: nothing is removed, only fields are brought up to date.
StaleNone(i) == {}

\* Accounts that run although the snapshot does not have them.
Stale(i) == Present(pool[i]) \ Present(snap[i])

\* Mutant: what the snapshot does not have is removed without a second look.
ReconApplyTrusting(i) ==
    /\ recon[i].op = "apply"
    /\ pool' = [pool EXCEPT ![i] = [a \in Accounts |->
                    IF snap[i][a] # None THEN snap[i][a] ELSE pool[i][a]]]
    /\ gone' = [gone EXCEPT ![i] = IF Stale(i) = {} THEN {} ELSE Accounts \ Present(db)]
    /\ recon' = [recon EXCEPT ![i] =
            IF Stale(i) = {} THEN Idle ELSE [op |-> "remove", stale |-> Stale(i)]]
    /\ UNCHANGED <<db, cache, snap, tasks, inbox, handler, writes, faults, limits>>

\* Every account of the snapshot is loaded into the pool; the accounts to
\* remove are looked up in the table once more.
ReconApply(i) ==
    /\ recon[i].op = "apply"
    /\ pool' = [pool EXCEPT ![i] = [a \in Accounts |->
                    IF snap[i][a] # None THEN snap[i][a] ELSE pool[i][a]]]
    /\ gone' = [gone EXCEPT ![i] = IF Stale(i) = {} THEN {} ELSE Accounts \ Present(db)]
    /\ recon' = [recon EXCEPT ![i] =
            IF Stale(i) = {} THEN Idle ELSE [op |-> "confirm", stale |-> Stale(i)]]
    /\ UNCHANGED <<db, cache, snap, tasks, inbox, handler, writes, faults, limits>>

ReconConfirm(i) ==
    /\ recon[i].op = "confirm"
    /\ recon' = [recon EXCEPT ![i] =
            [op |-> "remove", stale |-> recon[i].stale \ Present(db)]]
    /\ UNCHANGED <<db, cache, snap, pool, tasks, inbox, handler, writes, faults, gone, limits>>

\* The snapshot cannot be read, and the old one is applied; or the second look
\* fails, and nothing is removed this time.
ReconFails(i) ==
    /\ faults < limits.faults /\ faults' = faults + 1
    /\ \/ /\ i \in limits.reconcilers /\ recon[i] = Idle
          /\ recon' = [recon EXCEPT ![i] = [op |-> "apply"]]
       \/ recon[i].op = "confirm" /\ recon' = [recon EXCEPT ![i] = Idle]
    /\ gone' = [gone EXCEPT ![i] = {}]
    /\ UNCHANGED <<db, cache, snap, pool, tasks, inbox, handler, writes, limits>>

ReconRemove(i) ==
    /\ recon[i].op = "remove"
    /\ pool' = [pool EXCEPT ![i] = [a \in Accounts |->
                    IF a \in recon[i].stale THEN None ELSE pool[i][a]]]
    /\ recon' = [recon EXCEPT ![i] = Idle]
    /\ gone' = [gone EXCEPT ![i] = {}]
    /\ UNCHANGED <<db, cache, snap, tasks, inbox, handler, writes, faults, limits>>

Reconcile(i) == \/ ReconRead(i) \/ ReconRefresh(i) \/ ReconStore(i)
                \/ ReconApply(i) \/ ReconConfirm(i) \/ ReconRemove(i)

-----------------------------------------------------------------------------
(* The environment *)

\* The TTL of the cached configuration passes.
CacheExpires ==
    /\ cache # Empty /\ cache' = Empty
    /\ UNCHANGED <<db, snap, pool, tasks, inbox, handler, recon, writes, faults, gone, limits>>

\* The subscription breaks; what was published meanwhile is lost.
Disconnect(i) ==
    /\ faults < limits.faults /\ faults' = faults + 1
    /\ inbox[i] # <<>> /\ inbox' = [inbox EXCEPT ![i] = <<>>]
    /\ UNCHANGED <<db, cache, snap, pool, tasks, handler, recon, writes, gone, limits>>

Init ==
    /\ limits \in Bounds
    /\ db = Seed(limits.initial) /\ cache = db
    /\ snap = [i \in Instances |-> db] /\ pool = [i \in Instances |-> db]
    /\ tasks = {} /\ inbox = [i \in Instances |-> <<>>]
    /\ handler = [i \in Instances |-> Idle] /\ recon = [i \in Instances |-> Idle]
    /\ writes = {} /\ faults = 0
    /\ gone = [i \in Instances |-> {}]

Next ==
    \/ \E i \in Instances :
          \/ \E a, b \in Accounts, kind \in limits.kinds : StartWrite(i, a, b, kind)
          \/ Handler(i) \/ Reconcile(i) \/ ReconFails(i) \/ Disconnect(i)
    \/ \E k \in tasks : Write(k)
    \/ CacheExpires

Spec == Init /\ [][Next]_vars

\* The event loop runs writes, the subscription and the reconciliation loop.
\* Nothing makes the cache expire, and nobody has to write.
Fairness ==
    /\ WF_vars(\E k \in tasks : Write(k))
    /\ \A i \in Instances : WF_vars(Handler(i)) /\ WF_vars(Reconcile(i))

FairSpec == Spec /\ Fairness

-----------------------------------------------------------------------------
(* Properties *)

\* Reconciliation makes the pools agree with the table in the end, whatever
\* events were lost and whatever the cache and the snapshots went through: no
\* deleted account keeps serving, none is missing, none runs with an old row.
PoolsConverge == <>[](\A i \in limits.reconcilers : pool[i] = db)

\* Reconciliation removes only accounts that were really absent from the table
\* while it decided: an account added between its snapshot and its look at the
\* pool is safe (the comment in _reconcile_providers).
RemovesOnlyDeleted ==
    \A i \in Instances : recon[i].op = "remove" => recon[i].stale \subseteq gone[i]

=============================================================================
