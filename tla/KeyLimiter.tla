----------------------------- MODULE KeyLimiter -----------------------------
(***************************************************************************)
(* The limits of one API key (RateLimiter of src/server/rate_limiter.py    *)
(* over src/limits/backend.py), as the request handlers of src/main.py use *)
(* them.  Requests of several server processes are counted in fixed        *)
(* windows in Redis and take a slot there; a process keeps in memory until *)
(* when the key is blocked, and learns of the blocks of the others from    *)
(* the events of src/server/runtime_sync.py.  Times are what is left.      *)
(***************************************************************************)
EXTENDS Integers, Sequences, FiniteSets, Functions

CONSTANTS
    Requests, Processes,
    RequestFields,    \* the request windows with a limit, in the order of the code
    TokenFields,      \* the token windows with a limit
    Limit,            \* the limit of every window
    Window,           \* the length of every window
    Calendar,         \* the windows that end at midnight
    ConcurrentLimit,  \* the number of slots
    SlotTtl,          \* how long a slot lasts
    MaxTokens,        \* tokens of one answer, at most
    MaxTries,         \* attempts of one request, at most
    Faults,           \* what may fail: "slot", "count", "read" (a Redis call), "handler"
    Restarts,         \* whether a process restarts
    MaxTrouble,       \* bound: how often something goes wrong
    MaxAge,           \* bound: ages that no window outlasts are alike
    LongCalls         \* whether a request may last longer than its slot

Fields == Range(RequestFields) \cup Range(TokenFields)

ASSUME KeyAssumption ==
    /\ IsFiniteSet(Requests) /\ IsFiniteSet(Processes) /\ Processes # {}
    /\ RequestFields \in Seq(Fields) /\ TokenFields \in Seq(Fields)
    /\ Range(RequestFields) \cap Range(TokenFields) = {} /\ Calendar \subseteq Fields
    /\ Len(RequestFields) > 0 /\ Len(TokenFields) > 0
    /\ Limit \in [Fields -> Nat \ {0}] /\ Window \in [Fields -> Nat \ {0}]
    /\ {ConcurrentLimit, SlotTtl, MaxTokens, MaxTries} \subseteq Nat \ {0}
    /\ {Restarts, LongCalls} \subseteq BOOLEAN
    /\ MaxAge \in Nat /\ \A f \in Fields : Window[f] <= MaxAge
    /\ MaxTrouble \in Nat /\ Faults \subseteq {"slot", "count", "read", "handler"}

VARIABLES
    win,      \* Redis: count and time left of every window
    slots,    \* Redis: the time left of every request's slot, 0 if it has none
    blocks,   \* how much longer every process takes a window for full
    pc, proc, \* where a request is, and in which process
    ix,       \* the window it counts next
    tries,    \* its attempts so far
    tokens,   \* the tokens it has used
    age,      \* time since the limiter has read the clock for it
    lease,    \* whether it knows that it has a slot
    sending,  \* events on their way to Redis
    inbox,    \* events on their way to a process
    seen,     \* the version of the last event a process has taken
    reading,  \* the event a process handles, with the time left it has read
    stamp,    \* the next version
    trouble   \* how often something was lost, late, overtaken, cancelled or restarted

redis == <<win, slots>>
request == <<pc, proc, ix, tries, tokens, age, lease>>
bus == <<sending, inbox, seen, reading, stamp>>
vars == <<redis, blocks, request, bus, trouble>>

\* The step is one that goes wrong if b.
Trouble(b) == /\ b => trouble < MaxTrouble
              /\ trouble' = IF b THEN trouble + 1 ELSE trouble

Idle == [f |-> "none", left |-> 0]
Go(r, l) == pc' = [pc EXCEPT ![r] = l]
AtMost(n, m) == IF n > m THEN m ELSE n
Less(n) == IF n > 0 THEN n - 1 ELSE 0

Blocked(p) == \E f \in Fields : blocks[p][f] > 0
Live == {r \in Requests : slots[r] > 0}
Busy == {r \in Requests : pc[r] \notin {"idle", "done"}}
Full(f) == win[f].n >= Limit[f]

\* No limiter call and no event is under way.
Quiet ==
    /\ \A r \in Requests : pc[r] \notin {"slot", "count", "usage"}
    /\ sending = {} /\ \A p \in Processes : inbox[p] = <<>> /\ reading[p] = Idle

-----------------------------------------------------------------------------
(* The windows.                                                            *)

\* How long a new window lasts: up to midnight, or its length.
WindowTtl(f) == IF f \in Calendar THEN 1 .. Window[f] ELSE {Window[f]}

\* incr_window: the window after a count, which opens it if it is not there.
\* Counts above the limit are alike.
Incr(f, n, ttl) ==
    [n |-> AtMost(win[f].n + n, Limit[f] + 1),
     left |-> IF win[f].n = 0 THEN ttl ELSE win[f].left]

\* _set_blocked: from the time the call has begun; an event is on its way.
SetBlocked(p, f, left, a) ==
    /\ blocks' = [blocks EXCEPT ![p][f] = IF left > a THEN left - a ELSE 0]
    /\ sending' = sending \cup {[f |-> f, ver |-> stamp]} /\ stamp' = stamp + 1
    /\ UNCHANGED <<inbox, seen, reading>>

\* Mutant: only a count above the limit blocks the key.
BumpAbove(r, f, n) ==
    \E ttl \in WindowTtl(f) :
        LET w == Incr(f, n, ttl) IN
        /\ win' = [win EXCEPT ![f] = w] /\ UNCHANGED trouble
        /\ IF w.n > Limit[f] THEN SetBlocked(proc[r], f, w.left, age[r])
           ELSE UNCHANGED <<blocks, bus>>

\* A count, and the block of a window that has reached its limit.
Bump(r, f, n) ==
    \E ttl \in WindowTtl(f) :
        LET w == Incr(f, n, ttl) IN
        /\ win' = [win EXCEPT ![f] = w] /\ UNCHANGED trouble
        /\ IF w.n >= Limit[f] THEN SetBlocked(proc[r], f, w.left, age[r])
           ELSE UNCHANGED <<blocks, bus>>

\* A count whose answer is lost: it may have been done, and nothing is blocked.
BumpLost(f, n) ==
    /\ "count" \in Faults
    /\ \/ UNCHANGED win
       \/ \E ttl \in WindowTtl(f) : win' = [win EXCEPT ![f] = Incr(f, n, ttl)]
    /\ Trouble(TRUE) /\ UNCHANGED <<blocks, bus>>

-----------------------------------------------------------------------------
(* A request.                                                              *)

\* acquire: a blocked key is refused at once.
Enter(r, p) ==
    /\ pc[r] = "idle"
    /\ Go(r, IF Blocked(p) THEN "done" ELSE "slot")
    /\ proc' = [proc EXCEPT ![r] = p] /\ age' = [age EXCEPT ![r] = 0]
    /\ UNCHANGED <<redis, blocks, bus, ix, tries, tokens, lease, trouble>>

\* Mutant: the slots are compared with the limit after the fact.
TakeSlotBeyond(r) ==
    /\ pc[r] = "slot"
    /\ IF Cardinality(Live) > ConcurrentLimit
       THEN Go(r, "done") /\ UNCHANGED <<slots, lease, ix>>
       ELSE /\ slots' = [slots EXCEPT ![r] = SlotTtl]
            /\ lease' = [lease EXCEPT ![r] = TRUE]
            /\ ix' = [ix EXCEPT ![r] = 1] /\ Go(r, "count")
    /\ UNCHANGED <<win, blocks, bus, proc, tries, tokens, age, trouble>>

\* acquire_concurrency: a slot unless all are taken by requests that last.
TakeSlot(r) ==
    /\ pc[r] = "slot"
    /\ IF Cardinality(Live) >= ConcurrentLimit
       THEN Go(r, "done") /\ UNCHANGED <<slots, lease, ix>>
       ELSE /\ slots' = [slots EXCEPT ![r] = SlotTtl]
            /\ lease' = [lease EXCEPT ![r] = TRUE]
            /\ ix' = [ix EXCEPT ![r] = 1] /\ Go(r, "count")
    /\ UNCHANGED <<win, blocks, bus, proc, tries, tokens, age, trouble>>

\* The answer is lost: the request goes on, and does not know of its slot.
TakeSlotLost(r) ==
    /\ "slot" \in Faults /\ pc[r] = "slot"
    /\ slots' \in {slots} \cup (IF Cardinality(Live) < ConcurrentLimit
                           THEN {[slots EXCEPT ![r] = SlotTtl]} ELSE {})
    /\ ix' = [ix EXCEPT ![r] = 1] /\ Go(r, "count")
    /\ Trouble(TRUE)
    /\ UNCHANGED <<win, blocks, bus, proc, tries, tokens, age, lease>>

\* The next window of a request, or what comes after the last one.
NextWindow(r, fields, after) ==
    IF ix[r] < Len(fields) THEN ix' = [ix EXCEPT ![r] = @ + 1] /\ UNCHANGED pc
    ELSE ix' = [ix EXCEPT ![r] = 1] /\ Go(r, after)

\* acquire counts the request in one window after the other.
Count(r) ==
    /\ pc[r] = "count"
    /\ Bump(r, RequestFields[ix[r]], 1) \/ BumpLost(RequestFields[ix[r]], 1)
    /\ NextWindow(r, RequestFields, "attempt")
    /\ UNCHANGED <<slots, proc, tries, tokens, age, lease>>

\* An attempt begins: _recheck_api_key_state refuses a key that is blocked by now.
Attempt(r) ==
    /\ pc[r] = "attempt"
    /\ Go(r, IF Blocked(proc[r]) THEN "release" ELSE "call")
    /\ tries' = [tries EXCEPT ![r] = @ + 1]
    /\ UNCHANGED <<redis, blocks, bus, proc, ix, tokens, age, lease, trouble>>

\* The call of an attempt fails: another one follows, or none is left; or the
\* client of a stream goes away.
CallFails(r) ==
    /\ pc[r] = "call"
    /\ \/ Go(r, "release")
       \/ tries[r] < MaxTries /\ Go(r, "attempt")
    /\ UNCHANGED <<redis, blocks, bus, proc, ix, tries, tokens, age, lease, trouble>>

\* The call succeeds; record_usage reads the clock again.
CallSucceeds(r, k) ==
    /\ pc[r] = "call" /\ Go(r, "usage")
    /\ tokens' = [tokens EXCEPT ![r] = k]
    /\ age' = [age EXCEPT ![r] = 0]
    /\ UNCHANGED <<redis, blocks, bus, proc, ix, tries, lease, trouble>>

\* record_usage counts the tokens in one window after the other.
Usage(r) ==
    /\ pc[r] = "usage"
    /\ Bump(r, TokenFields[ix[r]], tokens[r]) \/ BumpLost(TokenFields[ix[r]], tokens[r])
    /\ NextWindow(r, TokenFields, "release")
    /\ UNCHANGED <<slots, proc, tries, tokens, age, lease>>

\* The handler ends: the slot it knows of is given back.
Release(r) ==
    /\ pc[r] = "release" /\ Go(r, "done")
    /\ slots' = IF lease[r] THEN [slots EXCEPT ![r] = 0] ELSE slots
    /\ UNCHANGED <<win, blocks, bus, proc, ix, tries, tokens, age, lease, trouble>>

\* The release fails, or the handler is cancelled where it waits: acquire has
\* not returned the lease, and "except Exception" lets a cancellation pass.
Abandon(r) ==
    /\ "handler" \in Faults /\ pc[r] \in {"slot", "count", "attempt", "call", "usage", "release"}
    /\ Go(r, "done")
    /\ Trouble(TRUE)
    /\ UNCHANGED <<redis, blocks, bus, proc, ix, tries, tokens, age, lease>>

-----------------------------------------------------------------------------
(* The events.                                                             *)

\* A publish task reaches Redis, which hands the event to every process; it
\* may overtake an earlier one.
Send(m) ==
    /\ m \in sending
    /\ Trouble(\E o \in sending : o.ver < m.ver)
    /\ sending' = sending \ {m}
    /\ inbox' = [p \in Processes |-> Append(inbox[p], m)]
    /\ UNCHANGED <<redis, blocks, request, seen, reading, stamp>>

\* What the handler reads of a window: its time left, 0 if there is none or
\* the read fails.
TimeLeft(f) == {win[f].left} \cup (IF "read" \in Faults THEN {0} ELSE {})

\* _dispatch: an event is dropped unless it is newer than the last one; the
\* handler reads the window that the event names.
Hear(p) ==
    /\ inbox[p] # <<>> /\ reading[p] = Idle
    /\ inbox' = [inbox EXCEPT ![p] = Tail(@)]
    /\ LET m == Head(inbox[p]) IN
       IF m.ver <= seen[p] THEN UNCHANGED <<seen, reading, trouble>>
       ELSE /\ seen' = [seen EXCEPT ![p] = m.ver]
            /\ \E l \in TimeLeft(m.f) :
                  /\ reading' = [reading EXCEPT ![p] = [f |-> m.f, left |-> l]]
                  /\ Trouble(l # win[m.f].left)
    /\ UNCHANGED <<redis, blocks, request, sending, stamp>>

\* apply_block_event and clear_block_event: the block lasts as long as the
\* window was read to last; without a window it is cleared.
Apply(p) ==
    /\ reading[p] # Idle
    /\ blocks' = [blocks EXCEPT ![p][reading[p].f] = reading[p].left]
    /\ reading' = [reading EXCEPT ![p] = Idle]
    /\ UNCHANGED <<redis, request, sending, inbox, seen, stamp, trouble>>

\* A process restarts: its requests end, its memory is empty.
Restart(p) ==
    /\ Restarts
    /\ \E r \in Busy : proc[r] = p
    /\ pc' = [r \in Requests |-> IF r \in Busy /\ proc[r] = p THEN "done" ELSE pc[r]]
    /\ blocks' = [blocks EXCEPT ![p] = [f \in Fields |-> 0]]
    /\ inbox' = [inbox EXCEPT ![p] = <<>>] /\ seen' = [seen EXCEPT ![p] = 0]
    /\ reading' = [reading EXCEPT ![p] = Idle]
    /\ Trouble(TRUE)
    /\ UNCHANGED <<redis, proc, ix, tries, tokens, age, lease, sending, stamp>>

-----------------------------------------------------------------------------
(* Time.                                                                   *)

TimePasses ==
    /\ win' = [f \in Fields |-> IF win[f].left <= 1 THEN [n |-> 0, left |-> 0]
                                ELSE [win[f] EXCEPT !.left = @ - 1]]
    /\ blocks' = [p \in Processes |-> [f \in Fields |-> Less(blocks[p][f])]]
    /\ age' = [r \in Requests |-> IF r \in Busy THEN AtMost(age[r] + 1, MaxAge) ELSE age[r]]
    /\ Trouble(~Quiet)
    /\ UNCHANGED <<pc, proc, ix, tries, tokens, lease, bus>>

MayPass ==
    /\ \A p \in Processes : reading[p] = Idle
    /\ LongCalls \/ \A r \in Busy : lease[r] => slots[r] > 1
    /\ \E f \in Fields, p \in Processes, r \in Requests :
           win[f].left + blocks[p][f] + slots[r] > 0

\* Mutant: slots have no time to live.
TickKeeps == MayPass /\ TimePasses /\ UNCHANGED slots

Tick == MayPass /\ TimePasses /\ slots' = [r \in Requests |-> Less(slots[r])]

-----------------------------------------------------------------------------
Init ==
    /\ win = [f \in Fields |-> [n |-> 0, left |-> 0]] /\ slots = [r \in Requests |-> 0]
    /\ blocks = [p \in Processes |-> [f \in Fields |-> 0]]
    /\ pc = [r \in Requests |-> "idle"] /\ proc = [r \in Requests |-> CHOOSE p \in Processes : TRUE]
    /\ ix = [r \in Requests |-> 1] /\ tries = [r \in Requests |-> 0]
    /\ tokens = [r \in Requests |-> 0] /\ age = [r \in Requests |-> 0]
    /\ lease = [r \in Requests |-> FALSE]
    /\ sending = {} /\ inbox = [p \in Processes |-> <<>>] /\ stamp = 1
    /\ seen = [p \in Processes |-> 0] /\ reading = [p \in Processes |-> Idle] /\ trouble = 0

Step(r) ==
    \/ TakeSlot(r)
    \/ TakeSlotLost(r)
    \/ Count(r)
    \/ Attempt(r)
    \/ CallFails(r)
    \/ \E k \in 1 .. MaxTokens : CallSucceeds(r, k)
    \/ Usage(r)
    \/ Release(r)
    \/ Abandon(r)

Next ==
    \/ \E r \in Requests, p \in Processes : Enter(r, p)
    \/ \E r \in Requests : Step(r)
    \/ \E m \in sending : Send(m)
    \/ \E p \in Processes : Hear(p)
    \/ \E p \in Processes : Apply(p)
    \/ \E p \in Processes : Restart(p)
    \/ Tick

Spec == Init /\ [][Next]_vars

\* The clock runs, handlers go on, events are sent and taken.
FairSpec ==
    /\ Spec /\ WF_vars(Tick)
    /\ \A r \in Requests : WF_vars(Step(r))
    /\ WF_vars(\E m \in sending : Send(m))
    /\ \A p \in Processes : WF_vars(Hear(p) \/ Apply(p))

-----------------------------------------------------------------------------
(* The properties.                                                         *)

WindowsOK ==
    /\ win \in [Fields -> [n : Nat, left : Nat]]
    /\ \A f \in Fields : /\ win[f].n <= Limit[f] + 1 /\ win[f].left <= Window[f]
                         /\ win[f].n = 0 <=> win[f].left = 0

RequestsOK ==
    /\ slots \in [Requests -> 0 .. SlotTtl]
    /\ proc \in [Requests -> Processes] /\ lease \in [Requests -> BOOLEAN]
    /\ pc \in [Requests -> {"idle", "slot", "count", "attempt", "call", "usage", "release", "done"}]
    /\ ix \in [Requests -> Nat \ {0}]
    /\ tries \in [Requests -> 0 .. MaxTries] /\ tokens \in [Requests -> 0 .. MaxTokens]
    /\ age \in [Requests -> 0 .. MaxAge]

EventsOK ==
    /\ blocks \in [Processes -> [Fields -> Nat]]
    /\ \A p \in Processes, f \in Fields : blocks[p][f] <= Window[f]
    /\ sending \subseteq [f : Fields, ver : 1 .. stamp - 1]
    /\ inbox \in [Processes -> Seq([f : Fields, ver : 1 .. stamp - 1])]
    /\ seen \in [Processes -> 0 .. stamp - 1]
    /\ reading \in [Processes -> {Idle} \cup [f : Fields, left : Nat]]
    /\ \A p \in Processes : reading[p] # Idle => reading[p].left <= Window[reading[p].f]
    /\ stamp \in Nat \ {0} /\ trouble \in 0 .. MaxTrouble

\* The types of the variables: a window counts no further than one above its
\* limit, nothing lasts longer than it was made to (incr_window,
\* acquire_concurrency, _set_blocked).
TypeOK == WindowsOK /\ RequestsOK /\ EventsOK

\* Never more requests run with a slot than the key has (RateLimiter.acquire,
\* acquire_concurrency): whatever is lost, abandoned or restarted, and in
\* whichever processes the requests are.
RunningWithin == Cardinality({r \in Busy : lease[r]}) <= ConcurrentLimit

\* A process takes the key for blocked only while a window has reached its
\* limit (_set_blocked, _on_apikey_event), as long as no answer, process, request
\* or event is lost or late.
BlockedIsFull ==
    trouble = 0 => \A p \in Processes, f \in Fields : blocks[p][f] > 0 => Full(f)

\* Once the events have arrived, every process blocks the key as long as a
\* window that has reached its limit lasts (_set_blocked, _on_apikey_event), with
\* the same exception.
FullIsBlocked ==
    trouble = 0 /\ Quiet => \A p \in Processes, f \in Fields : Full(f) => blocks[p][f] = win[f].left

\* A request that has ended has no slot (_release_api_key_limit), with the same
\* exception.
SlotReturned == trouble = 0 => \A r \in Requests : pc[r] = "done" => slots[r] = 0

\* A slot comes back in the end, even if its request has lost it
\* (acquire_concurrency drops the slots whose time is over).
SlotsComeBack == \A r \in Requests : slots[r] > 0 ~> slots[r] = 0

\* A request comes to an end (the attempts of a request are bounded).
RequestsEnd == \A r \in Requests : pc[r] = "slot" ~> pc[r] = "done"

\* The slots of the key are exact: of the right length, never given twice, and
\* given back by the requests that have ended.
SlotsExact == TypeOK /\ RunningWithin /\ SlotReturned

\* A process blocks the key exactly while a window is full (RateLimiter.acquire,
\* _set_blocked, _on_apikey_event), as long as nothing is lost or late.
BlockedWhileFull == BlockedIsFull /\ FullIsBlocked

\* Every slot comes back and every request ends, whatever is lost.
KeyEnds == SlotsComeBack /\ RequestsEnd
=============================================================================
