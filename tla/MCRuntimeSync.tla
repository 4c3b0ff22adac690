---------------------------- MODULE MCRuntimeSync ----------------------------
(***************************************************************************)
(* What gateway instances mirror and tell one another: the freezes of an   *)
(* account (FreezeState) and the accounts of a channel (AccountSync).  The *)
(* two share the instances and no state; each is explored by itself, while *)
(* the other one stays in some initial state.                              *)
(***************************************************************************)
EXTENDS FreezeState

CONSTANTS
    i1, i2, m1, a1, a2,
    Accounts, SyncBounds

VARIABLES db, cache, snap, pool, writing, mail, handler, recon, writes, breaks, gone, limits

Sync == INSTANCE AccountSync WITH
    Bounds <- SyncBounds, tasks <- writing, inbox <- mail, faults <- breaks

ASSUME SyncBoundsAssumption == Sync!SyncAssumption

syncVars == <<db, cache, snap, pool, writing, mail, handler, recon, writes, breaks, gone, limits>>
allVars == <<vars, syncVars>>

-----------------------------------------------------------------------------
(* Freezes *)

\* Models only, or the account as well.
BothPolicies == {{"account_model"}, {"account", "account_model"}}
AnyPeriod == {"temp", "perm"}
Bound(f, c, e) == [freezes |-> f, clears |-> c, faults |-> e]

\* Models only: two freezes and a fault or an unfreezing, or a freeze, an
\* unfreezing and a fault; with the account: two freezes, or one with an unfreezing or a fault.
MCBounds == [p \in BothPolicies |->
    IF "account" \in p THEN {Bound(2, 0, 0), Bound(1, 1, 0), Bound(1, 0, 1)}
    ELSE {Bound(2, 0, 1), Bound(1, 1, 1), Bound(2, 1, 0)}]

InitFreezes == Init /\ Sync!Init /\ limits = (CHOOSE l \in SyncBounds : TRUE)

FreezeNext == Next /\ UNCHANGED syncVars

FreezeSpec == InitFreezes /\ [][FreezeNext]_allVars

-----------------------------------------------------------------------------
(* Accounts *)

\* Two instances add or delete an account, in any overlap, while one of them
\* reconciles; one write of any kind but a rename with a fault, while both
\* reconcile; one account renamed while one instance reconciles.
MCSyncBounds ==
    {[initial |-> {}, written |-> {a1}, kinds |-> {"add", "delete"},
      writers |-> {i1, i2}, reconcilers |-> {i1}, faults |-> 0],
     [initial |-> {a1}, written |-> {a1}, kinds |-> {"add", "update", "rotate", "delete"},
      writers |-> {i1}, reconcilers |-> {i1, i2}, faults |-> 1],
     [initial |-> {a1}, written |-> {a1}, kinds |-> {"rename"},
      writers |-> {i1}, reconcilers |-> {i2}, faults |-> 0]}

InitAccounts == Init /\ scopes = (CHOOSE p \in Policies : TRUE) /\ Sync!Init

SyncNext == Sync!Next /\ UNCHANGED vars

\* The fairness of AccountSync.
SyncSpec == InitAccounts /\ [][SyncNext]_allVars /\ Sync!Fairness

\* Reconciliation removes only what was deleted (RemovesOnlyDeleted of AccountSync).
RemovesOnlyDeleted == Sync!RemovesOnlyDeleted

\* The pools agree with the table in the end (PoolsConverge of AccountSync).
PoolsConverge == Sync!PoolsConverge
=============================================================================
