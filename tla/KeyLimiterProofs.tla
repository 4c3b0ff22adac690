-------------------------- MODULE KeyLimiterProofs --------------------------
(***************************************************************************)
(* Theorems about KeyLimiter for every number of requests, processes and   *)
(* windows, and for every choice of limits, lengths and faults.            *)
(***************************************************************************)
EXTENDS KeyLimiter, FiniteSetTheorems, SequenceTheorems, TLAPS

-----------------------------------------------------------------------------
(* Type correctness *)

\* Where a request is in the lists of windows, and what it has to count.
Place(r) ==
    /\ pc[r] = "count" => ix[r] <= Len(RequestFields)
    /\ pc[r] \in {"attempt", "call"} => ix[r] = 1
    /\ pc[r] = "attempt" => tries[r] < MaxTries
    /\ pc[r] \in {"slot", "count", "idle"} => tries[r] = 0
    /\ pc[r] = "usage" => ix[r] <= Len(TokenFields) /\ tokens[r] > 0

Places == \A r \in Requests : Place(r)

KeyTypes == TypeOK /\ Places

LEMMA FieldsType ==
    /\ \A i \in 1 .. Len(RequestFields) : RequestFields[i] \in Fields
    /\ \A i \in 1 .. Len(TokenFields) : TokenFields[i] \in Fields
    /\ \A f \in Fields : Limit[f] \in Nat \ {0} /\ Window[f] \in Nat \ {0}
    /\ Len(RequestFields) \in Nat /\ Len(TokenFields) \in Nat
BY KeyAssumption

LEMMA Numbers ==
    /\ ConcurrentLimit \in Nat \ {0} /\ SlotTtl \in Nat \ {0}
    /\ MaxTokens \in Nat \ {0} /\ MaxTries \in Nat \ {0}
    /\ MaxAge \in Nat /\ MaxTrouble \in Nat
    /\ Len(RequestFields) > 0 /\ Len(TokenFields) > 0
BY KeyAssumption

LEMMA InitTypes == Init => KeyTypes
<1> SUFFICES ASSUME Init PROVE KeyTypes
  OBVIOUS
<1>1. WindowsOK
  BY FieldsType DEF Init, WindowsOK
<1>2. RequestsOK
  BY KeyAssumption DEF Init, RequestsOK
<1>3. EventsOK
  <2>1. sending = {} /\ stamp = 1 /\ seen \in [Processes -> 0 .. stamp - 1]
    BY DEF Init
  <2>2. inbox \in [Processes -> Seq([f : Fields, ver : 1 .. stamp - 1])]
    BY DEF Init
  <2>3. blocks \in [Processes -> [Fields -> Nat]] /\ \A p \in Processes, f \in Fields : blocks[p][f] = 0
    BY DEF Init
  <2>4. trouble \in 0 .. MaxTrouble
    BY KeyAssumption DEF Init
  <2> QED  BY <2>1, <2>2, <2>3, <2>4, FieldsType DEF Init, EventsOK
<1>4. Places
  BY KeyAssumption DEF Init, Places, Place
<1> QED  BY <1>1, <1>2, <1>3, <1>4 DEF KeyTypes, TypeOK

\* A count keeps the window within its bounds, and opens it for good.
LEMMA IncrType ==
    ASSUME WindowsOK, NEW f \in Fields, NEW n \in Nat \ {0}, NEW ttl \in WindowTtl(f)
    PROVE  /\ Incr(f, n, ttl) \in [n : Nat, left : Nat]
           /\ Incr(f, n, ttl).n \in 1 .. Limit[f] + 1 /\ Incr(f, n, ttl).left \in 1 .. Window[f]
           /\ Full(f) => Incr(f, n, ttl).n >= Limit[f] /\ Incr(f, n, ttl).left = win[f].left
<1>1. ttl \in 1 .. Window[f]
  BY FieldsType DEF WindowTtl
<1> QED  BY <1>1, FieldsType DEF Incr, AtMost, WindowsOK, Full

LEMMA IncrWindows ==
    ASSUME WindowsOK, NEW f \in Fields, NEW n \in Nat \ {0}, NEW ttl \in WindowTtl(f),
           win' = [win EXCEPT ![f] = Incr(f, n, ttl)]
    PROVE  WindowsOK'
<1>1. win' \in [Fields -> [n : Nat, left : Nat]] /\ win'[f] = Incr(f, n, ttl)
  BY IncrType DEF WindowsOK
<1>2. \A g \in Fields \ {f} : win'[g] = win[g]
  BY DEF WindowsOK
<1>3. win'[f].n \in 1 .. Limit[f] + 1 /\ win'[f].left \in 1 .. Window[f]
  BY <1>1, IncrType
<1> QED  BY <1>1, <1>2, <1>3 DEF WindowsOK

\* An event takes the next version.
LEMMA SetBlockedTypes ==
    ASSUME EventsOK, NEW p \in Processes, NEW f \in Fields, NEW left \in 1 .. Window[f],
           NEW a \in Nat, SetBlocked(p, f, left, a), UNCHANGED trouble
    PROVE  EventsOK'
<1>1. /\ blocks' = [blocks EXCEPT ![p][f] = IF left > a THEN left - a ELSE 0]
      /\ sending' = sending \cup {[f |-> f, ver |-> stamp]} /\ stamp' = stamp + 1
      /\ inbox' = inbox /\ seen' = seen /\ reading' = reading
  BY DEF SetBlocked
<1>2. stamp \in Nat \ {0} /\ stamp' \in Nat \ {0} /\ 1 .. stamp - 1 \subseteq 1 .. stamp' - 1
      /\ 0 .. stamp - 1 \subseteq 0 .. stamp' - 1 /\ stamp \in 1 .. stamp' - 1
  BY <1>1 DEF EventsOK
<1>3. /\ blocks' \in [Processes -> [Fields -> Nat]]
      /\ \A q \in Processes, g \in Fields : blocks'[q][g] <= Window[g]
  BY SMTT(30), <1>1, FieldsType DEF EventsOK
<1>4. sending' \subseteq [f : Fields, ver : 1 .. stamp' - 1]
  BY <1>1, <1>2 DEF EventsOK
<1>5. inbox' \in [Processes -> Seq([f : Fields, ver : 1 .. stamp' - 1])]
  <2>1. \A q \in Processes : inbox[q] \in Seq([f : Fields, ver : 1 .. stamp - 1])
    BY DEF EventsOK
  <2>2. ASSUME NEW q \in Processes PROVE inbox[q] \in Seq([f : Fields, ver : 1 .. stamp' - 1])
    <3>1. [f : Fields, ver : 1 .. stamp - 1] \subseteq [f : Fields, ver : 1 .. stamp' - 1]
      BY <1>2
    <3> QED  BY <2>1, <3>1, SeqMonotonic
  <2> QED  BY <1>1, <2>2 DEF EventsOK
<1>6. seen' \in [Processes -> 0 .. stamp' - 1]
  BY <1>1, <1>2 DEF EventsOK
<1> QED  BY <1>1, <1>2, <1>3, <1>4, <1>5, <1>6 DEF EventsOK

\* Counting keeps the types of windows, blocks and events.
LEMMA BumpTypes ==
    ASSUME KeyTypes, NEW r \in Requests, NEW f \in Fields, NEW n \in Nat \ {0},
           Bump(r, f, n) \/ BumpLost(f, n)
    PROVE  WindowsOK' /\ EventsOK'
<1>0. WindowsOK /\ EventsOK /\ proc[r] \in Processes /\ age[r] \in Nat
  BY Numbers DEF KeyTypes, TypeOK, RequestsOK
<1>1. ASSUME Bump(r, f, n) PROVE WindowsOK' /\ EventsOK'
  <2>1. PICK ttl \in WindowTtl(f) :
          /\ win' = [win EXCEPT ![f] = Incr(f, n, ttl)] /\ UNCHANGED trouble
          /\ IF Incr(f, n, ttl).n >= Limit[f]
             THEN SetBlocked(proc[r], f, Incr(f, n, ttl).left, age[r])
             ELSE UNCHANGED <<blocks, bus>>
    BY <1>1 DEF Bump
  <2>2. WindowsOK'
    BY <1>0, <2>1, IncrWindows
  <2>3. EventsOK'
    <3>1. Incr(f, n, ttl).left \in 1 .. Window[f]
      BY <1>0, IncrType
    <3>2. CASE Incr(f, n, ttl).n >= Limit[f]
      BY <1>0, <2>1, <3>1, <3>2, SetBlockedTypes
    <3>3. CASE ~(Incr(f, n, ttl).n >= Limit[f])
      BY <1>0, <2>1, <3>3 DEF EventsOK, bus
    <3> QED  BY <3>2, <3>3
  <2> QED  BY <2>2, <2>3
<1>2. ASSUME BumpLost(f, n) PROVE WindowsOK' /\ EventsOK'
  <2>1. WindowsOK'
    BY <1>0, <1>2, IncrWindows DEF BumpLost, WindowsOK
  <2>2. trouble' \in 0 .. MaxTrouble
    BY SMTT(30), <1>0, <1>2, Numbers DEF BumpLost, Trouble, EventsOK
  <2> QED  BY <1>0, <1>2, <2>1, <2>2 DEF BumpLost, EventsOK, bus
<1> QED  BY <1>1, <1>2

\* A step that leaves windows, blocks and events alone.
LEMMA RequestTypes ==
    ASSUME KeyTypes, UNCHANGED <<win, blocks, bus>>, trouble' \in 0 .. MaxTrouble,
           RequestsOK', Places'
    PROVE  KeyTypes'
BY DEF KeyTypes, TypeOK, WindowsOK, EventsOK, bus

LEMMA TroubleType ==
    ASSUME KeyTypes, NEW b \in BOOLEAN, Trouble(b)
    PROVE  trouble' \in 0 .. MaxTrouble
BY Numbers DEF KeyTypes, TypeOK, EventsOK, Trouble

LEMMA CountTypes ==
    ASSUME KeyTypes, NEW r \in Requests, Count(r) \/ Usage(r)
    PROVE  KeyTypes'
<1>0. TypeOK /\ Places /\ RequestsOK
  BY DEF KeyTypes, TypeOK
<1>1. WindowsOK' /\ EventsOK'
  <2>1. ASSUME Count(r) PROVE WindowsOK' /\ EventsOK'
    <3>1. RequestFields[ix[r]] \in Fields
      BY <1>0, <2>1, FieldsType DEF Count, Places, Place, RequestsOK
    <3> QED  BY <2>1, <3>1, BumpTypes DEF Count
  <2>2. ASSUME Usage(r) PROVE WindowsOK' /\ EventsOK'
    <3>1. TokenFields[ix[r]] \in Fields /\ tokens[r] \in Nat \ {0}
      BY <1>0, <2>2, FieldsType, Numbers DEF Usage, Places, Place, RequestsOK
    <3> QED  BY <2>2, <3>1, BumpTypes DEF Usage
  <2> QED  BY <2>1, <2>2
<1>2. /\ pc' = pc \/ pc' = [pc EXCEPT ![r] = "attempt"] \/ pc' = [pc EXCEPT ![r] = "release"]
      /\ ix' = [ix EXCEPT ![r] = @ + 1] \/ ix' = [ix EXCEPT ![r] = 1]
      /\ UNCHANGED <<slots, proc, tries, tokens, age, lease>>
  BY DEF Count, Usage, NextWindow, Go
<1>3. RequestsOK'
  BY <1>0, <1>2 DEF RequestsOK
<1>4. Places'
  <2>1. ASSUME Count(r) PROVE Places'
    <3>1. \/ pc' = pc /\ ix' = [ix EXCEPT ![r] = @ + 1] /\ ix[r] < Len(RequestFields)
          \/ pc' = [pc EXCEPT ![r] = "attempt"] /\ ix' = [ix EXCEPT ![r] = 1]
      BY <2>1 DEF Count, NextWindow, Go
    <3>2. pc[r] = "count"
      BY <2>1 DEF Count
    <3>3. Place(r)'
      BY <1>0, <1>2, <3>1, <3>2, FieldsType, Numbers DEF Place, Places, RequestsOK
    <3>4. \A q \in Requests \ {r} : Place(q)'
      BY <1>0, <1>2 DEF Place, Places, RequestsOK
    <3> QED  BY <3>3, <3>4 DEF Places
  <2>2. ASSUME Usage(r) PROVE Places'
    <3>1. \/ pc' = pc /\ ix' = [ix EXCEPT ![r] = @ + 1] /\ ix[r] < Len(TokenFields)
          \/ pc' = [pc EXCEPT ![r] = "release"] /\ ix' = [ix EXCEPT ![r] = 1]
      BY <2>2 DEF Usage, NextWindow, Go
    <3>2. pc[r] = "usage"
      BY <2>2 DEF Usage
    <3>3. Place(r)'
      BY <1>0, <1>2, <3>1, <3>2, FieldsType, Numbers DEF Place, Places, RequestsOK
    <3>4. \A q \in Requests \ {r} : Place(q)'
      BY <1>0, <1>2 DEF Place, Places, RequestsOK
    <3> QED  BY <3>3, <3>4 DEF Places
  <2> QED  BY <2>1, <2>2
<1> QED  BY <1>1, <1>3, <1>4 DEF KeyTypes, TypeOK

LEMMA StepTypes ==
    ASSUME KeyTypes, NEW r \in Requests, Step(r)
    PROVE  KeyTypes'
<1>0. TypeOK /\ Places /\ RequestsOK /\ trouble \in 0 .. MaxTrouble
  BY DEF KeyTypes, TypeOK, EventsOK
<1> USE DEF Go, RequestsOK, Places, Place
<1>1. ASSUME TakeSlot(r) PROVE KeyTypes'
  <2>0. /\ \/ pc' = [pc EXCEPT ![r] = "done"] /\ UNCHANGED <<ix, slots, lease>>
           \/ /\ pc' = [pc EXCEPT ![r] = "count"] /\ ix' = [ix EXCEPT ![r] = 1]
              /\ slots' = [slots EXCEPT ![r] = SlotTtl] /\ lease' = [lease EXCEPT ![r] = TRUE]
        /\ UNCHANGED <<proc, tries, tokens, age>> /\ pc[r] = "slot"
    BY <1>1 DEF TakeSlot
  <2>1. RequestsOK'
    <3>1. lease' \in [Requests -> BOOLEAN]
      BY <1>0, <2>0
    <3>2. slots' \in [Requests -> 0 .. SlotTtl] /\ ix' \in [Requests -> Nat \ {0}]
      <4>1. SlotTtl \in 0 .. SlotTtl /\ 1 \in Nat \ {0}
        BY Numbers
      <4>2. slots' = slots \/ slots' = [slots EXCEPT ![r] = SlotTtl]
        BY <2>0
      <4>3. ix' = ix \/ ix' = [ix EXCEPT ![r] = 1]
        BY <2>0
      <4>4. slots \in [Requests -> 0 .. SlotTtl] /\ ix \in [Requests -> Nat \ {0}]
        BY <1>0
      <4> QED  BY <4>1, <4>2, <4>3, <4>4
    <3>3. pc' \in [Requests -> {"idle", "slot", "count", "attempt", "call", "usage", "release", "done"}]
      BY <1>0, <2>0
    <3> QED  BY <1>0, <2>0, <3>1, <3>2, <3>3
  <2>2. Places'
    <3>1. Place(r)'
      BY <1>0, <2>0, FieldsType, Numbers
    <3>2. \A q \in Requests \ {r} : Place(q)'
      BY <1>0, <2>0
    <3> QED  BY <3>1, <3>2
  <2>3. UNCHANGED <<win, blocks, bus>> /\ trouble' \in 0 .. MaxTrouble
    BY <1>0, <1>1 DEF TakeSlot
  <2> QED  BY <2>1, <2>2, <2>3, RequestTypes
<1>2. ASSUME TakeSlotLost(r) PROVE KeyTypes'
  <2>1. RequestsOK'
    BY SMTT(30), <1>0, <1>2, Numbers DEF TakeSlotLost
  <2>2. Places'
    BY <1>0, <1>2, FieldsType, Numbers DEF TakeSlotLost
  <2>3. UNCHANGED <<win, blocks, bus>> /\ trouble' \in 0 .. MaxTrouble
    BY <1>0, <1>2, TroubleType DEF TakeSlotLost
  <2> QED  BY <2>1, <2>2, <2>3, RequestTypes
<1>3. ASSUME Attempt(r) PROVE KeyTypes'
  <2>1. RequestsOK'
    BY SMTT(30), <1>0, <1>3, Numbers DEF Attempt, redis
  <2>2. Places'
    BY <1>0, <1>3, FieldsType, Numbers DEF Attempt, redis
  <2>3. UNCHANGED <<win, blocks, bus>> /\ trouble' \in 0 .. MaxTrouble
    BY <1>0, <1>3 DEF Attempt, redis
  <2> QED  BY <2>1, <2>2, <2>3, RequestTypes
<1>4. ASSUME CallFails(r) PROVE KeyTypes'
  <2>1. RequestsOK'
    BY <1>0, <1>4, Numbers DEF CallFails, redis
  <2>2. Places'
    BY <1>0, <1>4, FieldsType, Numbers DEF CallFails, redis
  <2>3. UNCHANGED <<win, blocks, bus>> /\ trouble' \in 0 .. MaxTrouble
    BY <1>0, <1>4 DEF CallFails, redis
  <2> QED  BY <2>1, <2>2, <2>3, RequestTypes
<1>5. ASSUME NEW k \in 1 .. MaxTokens, CallSucceeds(r, k) PROVE KeyTypes'
  <2>1. RequestsOK'
    BY <1>0, <1>5, Numbers DEF CallSucceeds, redis
  <2>2. Places'
    BY <1>0, <1>5, FieldsType, Numbers DEF CallSucceeds, redis
  <2>3. UNCHANGED <<win, blocks, bus>> /\ trouble' \in 0 .. MaxTrouble
    BY <1>0, <1>5 DEF CallSucceeds, redis
  <2> QED  BY <2>1, <2>2, <2>3, RequestTypes
<1>6. ASSUME Release(r) PROVE KeyTypes'
  <2>1. RequestsOK'
    BY <1>0, <1>6, Numbers DEF Release
  <2>2. Places'
    BY <1>0, <1>6, FieldsType, Numbers DEF Release
  <2>3. UNCHANGED <<win, blocks, bus>> /\ trouble' \in 0 .. MaxTrouble
    BY <1>0, <1>6 DEF Release
  <2> QED  BY <2>1, <2>2, <2>3, RequestTypes
<1>7. ASSUME Abandon(r) PROVE KeyTypes'
  <2>1. RequestsOK'
    BY <1>0, <1>7, Numbers DEF Abandon, redis
  <2>2. Places'
    BY <1>0, <1>7, FieldsType, Numbers DEF Abandon, redis
  <2>3. UNCHANGED <<win, blocks, bus>> /\ trouble' \in 0 .. MaxTrouble
    BY <1>0, <1>7, TroubleType DEF Abandon, redis
  <2> QED  BY <2>1, <2>2, <2>3, RequestTypes
<1> QED  BY <1>1, <1>2, <1>3, <1>4, <1>5, <1>6, <1>7, CountTypes DEF Step

LEMMA EnterTypes ==
    ASSUME KeyTypes, NEW r \in Requests, NEW p \in Processes, Enter(r, p)
    PROVE  KeyTypes'
<1>0. RequestsOK /\ Places /\ trouble \in 0 .. MaxTrouble
  BY DEF KeyTypes, TypeOK, EventsOK
<1>1. /\ pc' = [pc EXCEPT ![r] = "done"] \/ pc' = [pc EXCEPT ![r] = "slot"]
      /\ proc' = [proc EXCEPT ![r] = p] /\ age' = [age EXCEPT ![r] = 0] /\ pc[r] = "idle"
      /\ UNCHANGED <<win, slots, blocks, bus, ix, tries, tokens, lease, trouble>>
  BY DEF Enter, Go, redis
<1>2. RequestsOK'
  <2>1. pc' \in [Requests -> {"idle", "slot", "count", "attempt", "call", "usage", "release", "done"}]
    BY <1>0, <1>1 DEF RequestsOK
  <2>2. proc' \in [Requests -> Processes] /\ age' \in [Requests -> 0 .. MaxAge]
    BY <1>0, <1>1, Numbers DEF RequestsOK
  <2> QED  BY <1>0, <1>1, <2>1, <2>2 DEF RequestsOK
<1>3. Places'
  BY <1>0, <1>1 DEF Places, Place, RequestsOK
<1> QED  BY <1>0, <1>1, <1>2, <1>3, RequestTypes

\* A step of the events, which leaves windows and requests alone.
LEMMA EventTypes ==
    ASSUME KeyTypes, UNCHANGED <<redis, request>>, EventsOK'
    PROVE  KeyTypes'
BY DEF KeyTypes, TypeOK, WindowsOK, RequestsOK, Places, Place, redis, request

LEMMA SendTypes ==
    ASSUME KeyTypes, NEW m \in sending, Send(m)
    PROVE  KeyTypes'
<1>0. EventsOK
  BY DEF KeyTypes, TypeOK
<1>1. /\ sending' = sending \ {m} /\ inbox' = [p \in Processes |-> Append(inbox[p], m)]
      /\ UNCHANGED <<blocks, seen, reading, stamp>>
  BY DEF Send
<1>2. trouble' \in 0 .. MaxTrouble
  BY TroubleType DEF Send
<1>3. m \in [f : Fields, ver : 1 .. stamp - 1]
  BY <1>0 DEF EventsOK
<1>4. ASSUME NEW p \in Processes
      PROVE  Append(inbox[p], m) \in Seq([f : Fields, ver : 1 .. stamp - 1])
  BY <1>0, <1>3, AppendProperties DEF EventsOK
<1>5. inbox' \in [Processes -> Seq([f : Fields, ver : 1 .. stamp - 1])]
  BY <1>1, <1>4
<1>6. EventsOK'
  BY <1>0, <1>1, <1>2, <1>5 DEF EventsOK
<1> QED  BY <1>6, EventTypes DEF Send

LEMMA HearTypes ==
    ASSUME KeyTypes, NEW p \in Processes, Hear(p)
    PROVE  KeyTypes'
<1>0. EventsOK /\ WindowsOK
  BY DEF KeyTypes, TypeOK
<1> DEFINE Event == [f : Fields, ver : 1 .. stamp - 1]  m == Head(inbox[p])
<1>1. inbox[p] \in Seq(Event) /\ inbox[p] # <<>>
  BY <1>0 DEF Hear, EventsOK
<1>2. m \in Event /\ Tail(inbox[p]) \in Seq(Event)
  BY <1>1, HeadTailProperties
<1>3. inbox' \in [Processes -> Seq(Event)]
  <2>1. inbox' = [inbox EXCEPT ![p] = Tail(@)] /\ inbox \in [Processes -> Seq(Event)]
    BY <1>0 DEF Hear, EventsOK
  <2> QED  BY <1>2, <2>1
<1>4. m.f \in Fields /\ m.ver \in 1 .. stamp - 1
  BY <1>2
<1>5. CASE m.ver <= seen[p]
  <2>1. UNCHANGED <<blocks, seen, reading, trouble, sending, stamp>>
    BY <1>5 DEF Hear
  <2>2. EventsOK'
    BY <1>0, <1>3, <2>1 DEF EventsOK
  <2> QED  BY <2>2, EventTypes DEF Hear
<1>6. CASE ~(m.ver <= seen[p])
  <2>1. PICK l \in TimeLeft(m.f) :
          /\ reading' = [reading EXCEPT ![p] = [f |-> m.f, left |-> l]]
          /\ Trouble(l # win[m.f].left)
    BY <1>6 DEF Hear
  <2>2. seen' = [seen EXCEPT ![p] = m.ver] /\ UNCHANGED <<blocks, sending, stamp>>
    BY <1>6 DEF Hear
  <2>3. trouble' \in 0 .. MaxTrouble
    BY <2>1, TroubleType
  <2>4. l \in Nat /\ l <= Window[m.f]
    BY <1>0, <1>4, FieldsType DEF TimeLeft, WindowsOK
  <2>5. reading' \in [Processes -> {Idle} \cup [f : Fields, left : Nat]]
    BY <1>0, <1>4, <2>1, <2>4 DEF EventsOK
  <2>6. \A q \in Processes : reading'[q] # Idle => reading'[q].left <= Window[reading'[q].f]
    BY <1>0, <1>4, <2>1, <2>4 DEF EventsOK
  <2>7. seen' \in [Processes -> 0 .. stamp - 1]
    BY <1>0, <1>4, <2>2 DEF EventsOK
  <2>8. EventsOK'
    BY <1>0, <1>3, <2>2, <2>3, <2>5, <2>6, <2>7 DEF EventsOK
  <2> QED  BY <2>8, EventTypes DEF Hear
<1> QED  BY <1>5, <1>6

LEMMA ApplyTypes ==
    ASSUME KeyTypes, NEW p \in Processes, Apply(p)
    PROVE  KeyTypes'
<1>0. EventsOK
  BY DEF KeyTypes, TypeOK
<1>1. reading[p] \in [f : Fields, left : Nat] /\ reading[p].left <= Window[reading[p].f]
  BY <1>0 DEF Apply, EventsOK
<1>2. /\ blocks' = [blocks EXCEPT ![p][reading[p].f] = reading[p].left]
      /\ reading' = [reading EXCEPT ![p] = Idle]
      /\ UNCHANGED <<sending, inbox, seen, stamp, trouble>>
  BY DEF Apply
<1>3. /\ blocks' \in [Processes -> [Fields -> Nat]]
      /\ \A q \in Processes, g \in Fields : blocks'[q][g] <= Window[g]
  BY <1>0, <1>1, <1>2 DEF EventsOK
<1>4. /\ reading' \in [Processes -> {Idle} \cup [f : Fields, left : Nat]]
      /\ \A q \in Processes : reading'[q] # Idle => reading'[q].left <= Window[reading'[q].f]
  BY <1>0, <1>2 DEF EventsOK
<1>5. EventsOK'
  BY <1>0, <1>2, <1>3, <1>4 DEF EventsOK
<1> QED  BY <1>5, EventTypes DEF Apply

LEMMA RestartTypes ==
    ASSUME KeyTypes, NEW p \in Processes, Restart(p)
    PROVE  KeyTypes'
<1>0. WindowsOK /\ RequestsOK /\ EventsOK /\ Places
  BY DEF KeyTypes, TypeOK
<1>1. /\ pc' = [r \in Requests |-> IF r \in Busy /\ proc[r] = p THEN "done" ELSE pc[r]]
      /\ blocks' = [blocks EXCEPT ![p] = [f \in Fields |-> 0]]
      /\ inbox' = [inbox EXCEPT ![p] = <<>>] /\ seen' = [seen EXCEPT ![p] = 0]
      /\ reading' = [reading EXCEPT ![p] = Idle]
      /\ UNCHANGED <<win, slots, proc, ix, tries, tokens, age, lease, sending, stamp>>
  BY DEF Restart, redis
<1>2. trouble' \in 0 .. MaxTrouble
  BY TroubleType DEF Restart
<1>3. WindowsOK'
  BY <1>0, <1>1 DEF WindowsOK
<1>4. RequestsOK'
  BY <1>0, <1>1 DEF RequestsOK
<1>5. Places'
  BY <1>0, <1>1 DEF Places, Place
<1>6. EventsOK'
  <2>1. /\ blocks' \in [Processes -> [Fields -> Nat]]
        /\ \A q \in Processes, g \in Fields : blocks'[q][g] <= Window[g]
    BY <1>0, <1>1, FieldsType DEF EventsOK
  <2>2. /\ reading' \in [Processes -> {Idle} \cup [f : Fields, left : Nat]]
        /\ \A q \in Processes : reading'[q] # Idle => reading'[q].left <= Window[reading'[q].f]
    BY <1>0, <1>1 DEF EventsOK
  <2>3. inbox' \in [Processes -> Seq([f : Fields, ver : 1 .. stamp - 1])]
    <3> DEFINE Inbox == Seq([f : Fields, ver : 1 .. stamp - 1])
    <3>1. inbox \in [Processes -> Inbox]
      BY <1>0 DEF EventsOK
    <3>0. << >> \in Inbox
      OBVIOUS
    <3> HIDE DEF Inbox
    <3>2. inbox' \in [Processes -> Inbox]
      BY <1>1, <3>1, <3>0
    <3> QED  BY <3>2 DEF Inbox
  <2>4. seen' \in [Processes -> 0 .. stamp - 1]
    BY <1>0, <1>1 DEF EventsOK
  <2> QED  BY <1>0, <1>1, <1>2, <2>1, <2>2, <2>3, <2>4 DEF EventsOK
<1> QED  BY <1>3, <1>4, <1>5, <1>6 DEF KeyTypes, TypeOK

LEMMA TickTypes ==
    ASSUME KeyTypes, Tick
    PROVE  KeyTypes'
<1>0. WindowsOK /\ RequestsOK /\ EventsOK /\ Places
  BY DEF KeyTypes, TypeOK
<1>1. WindowsOK'
  <2>1. win' = [f \in Fields |-> IF win[f].left <= 1 THEN [n |-> 0, left |-> 0]
                                 ELSE [win[f] EXCEPT !.left = @ - 1]]
    BY DEF Tick, TimePasses
  <2>2. ASSUME NEW f \in Fields
        PROVE  /\ win'[f] \in [n : Nat, left : Nat]
               /\ win'[f].n <= Limit[f] + 1 /\ win'[f].left <= Window[f]
               /\ win'[f].n = 0 <=> win'[f].left = 0
    BY <1>0, <2>1, FieldsType DEF WindowsOK
  <2>3. win' \in [Fields -> [n : Nat, left : Nat]]
    BY <2>1, <2>2
  <2> QED  BY <2>2, <2>3 DEF WindowsOK
<1>2. RequestsOK'
  <2>1. slots' \in [Requests -> 0 .. SlotTtl]
    BY <1>0, Numbers DEF Tick, Less, RequestsOK
  <2>2. age' \in [Requests -> 0 .. MaxAge]
    BY <1>0, Numbers DEF Tick, TimePasses, AtMost, RequestsOK
  <2> QED  BY <1>0, <2>1, <2>2 DEF Tick, TimePasses, RequestsOK
<1>3. Places'
  BY <1>0 DEF Tick, TimePasses, Places, Place
<1>4. EventsOK'
  <2>1. trouble' \in 0 .. MaxTrouble
    BY TroubleType DEF Tick, TimePasses
  <2>2. /\ blocks' \in [Processes -> [Fields -> Nat]]
        /\ \A q \in Processes, g \in Fields : blocks'[q][g] <= Window[g]
    BY <1>0, FieldsType DEF Tick, TimePasses, Less, EventsOK
  <2> QED  BY <1>0, <2>1, <2>2 DEF Tick, TimePasses, EventsOK, bus
<1> QED  BY <1>1, <1>2, <1>3, <1>4 DEF KeyTypes, TypeOK

LEMMA NextTypes == KeyTypes /\ [Next]_vars => KeyTypes'
<1> SUFFICES ASSUME KeyTypes, [Next]_vars PROVE KeyTypes'
  OBVIOUS
<1>1. CASE UNCHANGED vars
  BY <1>1 DEF vars, redis, request, bus, KeyTypes, TypeOK, WindowsOK, RequestsOK, EventsOK, Places, Place
<1>2. CASE Next
  BY <1>2, EnterTypes, StepTypes, SendTypes, HearTypes, ApplyTypes, RestartTypes, TickTypes DEF Next
<1> QED  BY <1>1, <1>2

-----------------------------------------------------------------------------
(* Slots *)

\* A request that runs with a slot has one, and none before it takes one.
LeaseHasSlot ==
    \A r \in Requests : lease[r] => /\ pc[r] \notin {"idle", "slot"}
                                    /\ pc[r] # "done" => slots[r] > 0

Running == {"count", "attempt", "call", "usage", "release"}

\* Only a request that is under way and knows it has a slot.
SlotIsKnown ==
    trouble = 0 => \A r \in Requests : slots[r] > 0 => lease[r] /\ pc[r] \in Running

SlotInv == KeyTypes /\ Cardinality(Live) <= ConcurrentLimit /\ LeaseHasSlot /\ SlotIsKnown

\* No more slots are taken when none is added, or one where there is room.
LEMMA LiveWithin ==
    ASSUME NEW r \in Requests,
           \/ Live' \subseteq Live /\ Cardinality(Live) <= ConcurrentLimit
           \/ Live' \subseteq Live \cup {r} /\ Cardinality(Live) < ConcurrentLimit
    PROVE  Cardinality(Live') <= ConcurrentLimit
<1>1. IsFiniteSet(Live)
  <2>1. IsFiniteSet(Requests) /\ Live \subseteq Requests
    BY KeyAssumption DEF Live
  <2> QED  BY <2>1, FS_Subset
<1>2. IsFiniteSet(Live \cup {r}) /\ Cardinality(Live \cup {r}) <= Cardinality(Live) + 1
  <2>1. Cardinality(Live) \in Nat
    BY <1>1, FS_CardinalityType
  <2>2. /\ IsFiniteSet(Live \cup {r})
        /\ Cardinality(Live \cup {r}) = IF r \in Live THEN Cardinality(Live) ELSE Cardinality(Live) + 1
    BY <1>1, FS_AddElement
  <2>3. CASE r \in Live
    BY <2>1, <2>2, <2>3
  <2>4. CASE r \notin Live
    BY <2>1, <2>2, <2>4
  <2> QED  BY <2>3, <2>4
<1>3. Cardinality(Live) \in Nat /\ Cardinality(Live \cup {r}) \in Nat
  BY <1>1, <1>2, FS_CardinalityType
<1>4. CASE Live' \subseteq Live /\ Cardinality(Live) <= ConcurrentLimit
  <2>1. Cardinality(Live') <= Cardinality(Live) /\ Cardinality(Live') \in Nat
    BY <1>1, <1>4, FS_Subset, FS_CardinalityType
  <2> QED  BY <1>3, <1>4, <2>1, Numbers
<1>5. CASE Live' \subseteq Live \cup {r} /\ Cardinality(Live) < ConcurrentLimit
  <2>1. Cardinality(Live') <= Cardinality(Live \cup {r}) /\ Cardinality(Live') \in Nat
    BY <1>2, <1>5, FS_Subset, FS_CardinalityType
  <2> QED  BY <1>2, <1>3, <1>5, <2>1, Numbers
<1> QED  BY <1>4, <1>5

\* A step of one request that leaves the slots alone.
LEMMA SlotsAlone ==
    ASSUME SlotInv, NEW r \in Requests, UNCHANGED <<slots, lease>>,
           \A q \in Requests \ {r} : pc'[q] = pc[q],
           \/ pc[r] = "idle" /\ pc'[r] \in {"slot", "done"}
           \/ pc[r] \in Running /\ pc'[r] \in Running
           \/ pc[r] = "slot" /\ pc'[r] = "done"
           \/ pc'[r] = "done" /\ trouble' > 0,
           trouble' = 0 => trouble = 0
    PROVE  Cardinality(Live') <= ConcurrentLimit /\ LeaseHasSlot' /\ SlotIsKnown'
<1>1. Live' = Live
  BY DEF Live
<1>2. LeaseHasSlot'
  BY DEF SlotInv, LeaseHasSlot, Running
<1>3. SlotIsKnown'
  BY DEF SlotInv, SlotIsKnown, Running
<1> QED  BY <1>1, <1>2, <1>3 DEF SlotInv

\* A step that changes neither slots nor requests.
LEMMA SlotsStay ==
    ASSUME SlotInv, UNCHANGED <<slots, lease, pc>>, trouble' = 0 => trouble = 0
    PROVE  Cardinality(Live') <= ConcurrentLimit /\ LeaseHasSlot' /\ SlotIsKnown'
BY DEF SlotInv, Live, LeaseHasSlot, SlotIsKnown

\* Something that goes wrong is never forgotten.
LEMMA TroubleStays ==
    ASSUME KeyTypes, NEW b \in BOOLEAN, Trouble(b)
    PROVE  (trouble' = 0 => trouble = 0 /\ ~b) /\ (b => trouble' > 0)
BY DEF KeyTypes, TypeOK, EventsOK, Trouble

LEMMA CountSlots ==
    ASSUME SlotInv, NEW r \in Requests, Count(r) \/ Usage(r)
    PROVE  Cardinality(Live') <= ConcurrentLimit /\ LeaseHasSlot' /\ SlotIsKnown'
<1>0. KeyTypes /\ pc \in [Requests -> {"idle", "slot", "count", "attempt", "call", "usage", "release", "done"}]
  BY DEF SlotInv, KeyTypes, TypeOK, RequestsOK
<1>1. /\ pc[r] \in Running
      /\ pc' = pc \/ pc' = [pc EXCEPT ![r] = "attempt"] \/ pc' = [pc EXCEPT ![r] = "release"]
      /\ UNCHANGED <<slots, lease>>
  BY DEF Count, Usage, NextWindow, Go, Running
<1>2. trouble' = trouble \/ Trouble(TRUE)
  BY DEF Count, Usage, Bump, BumpLost
<1>3. trouble' = 0 => trouble = 0
  BY <1>0, <1>2, TroubleStays
<1>4. (\A q \in Requests \ {r} : pc'[q] = pc[q]) /\ pc'[r] \in Running
  BY <1>0, <1>1 DEF Running
<1> QED  BY <1>1, <1>3, <1>4, SlotsAlone

LEMMA StepSlots ==
    ASSUME SlotInv, NEW r \in Requests, Step(r)
    PROVE  Cardinality(Live') <= ConcurrentLimit /\ LeaseHasSlot' /\ SlotIsKnown'
<1> DEFINE Kept == Cardinality(Live') <= ConcurrentLimit /\ LeaseHasSlot' /\ SlotIsKnown'
<1>0. /\ KeyTypes /\ RequestsOK /\ LeaseHasSlot /\ SlotIsKnown /\ Cardinality(Live) <= ConcurrentLimit
      /\ pc \in [Requests -> {"idle", "slot", "count", "attempt", "call", "usage", "release", "done"}]
      /\ slots \in [Requests -> 0 .. SlotTtl] /\ lease \in [Requests -> BOOLEAN]
  BY DEF SlotInv, KeyTypes, TypeOK, RequestsOK
<1> DEFINE Taken == /\ pc[r] = "slot" /\ pc' = [pc EXCEPT ![r] = "count"]
                    /\ slots' = [slots EXCEPT ![r] = SlotTtl] /\ Cardinality(Live) < ConcurrentLimit
<1>9. ASSUME Taken, \/ lease' = [lease EXCEPT ![r] = TRUE] /\ trouble' = trouble
                    \/ lease' = lease /\ trouble' > 0
      PROVE  Kept
  <2>1. Live' \subseteq Live \cup {r}
    BY <1>0, <1>9 DEF Live
  <2>2. Cardinality(Live') <= ConcurrentLimit
    BY <1>9, <2>1, LiveWithin
  <2>3. SlotTtl > 0 /\ slots'[r] > 0 /\ pc'[r] = "count"
    BY <1>0, <1>9, Numbers
  <2>4. LeaseHasSlot'
    <3>1. \A q \in Requests \ {r} : slots'[q] = slots[q] /\ pc'[q] = pc[q] /\ lease'[q] = lease[q]
      BY <1>0, <1>9
    <3> QED  BY <1>0, <2>3, <3>1 DEF LeaseHasSlot
  <2>5. SlotIsKnown'
    <3>1. CASE lease' = [lease EXCEPT ![r] = TRUE] /\ trouble' = trouble
      BY <1>0, <1>9, <2>3, <3>1 DEF SlotIsKnown, Running
    <3>2. CASE lease' = lease /\ trouble' > 0
      BY <3>2 DEF SlotIsKnown
    <3> QED  BY <1>9, <3>1, <3>2
  <2> QED  BY <2>2, <2>4, <2>5
<1>1. ASSUME TakeSlot(r) PROVE Kept
  <2>1. CASE Cardinality(Live) >= ConcurrentLimit
    <3>1. pc[r] = "slot" /\ pc' = [pc EXCEPT ![r] = "done"] /\ UNCHANGED <<slots, lease, trouble>>
      BY <1>1, <2>1 DEF TakeSlot, Go
    <3>2. (\A q \in Requests \ {r} : pc'[q] = pc[q]) /\ pc'[r] = "done"
      BY <1>0, <3>1
    <3> QED  BY <3>1, <3>2, SlotsAlone
  <2>2. CASE ~(Cardinality(Live) >= ConcurrentLimit)
    <3>1. Cardinality(Live) \in Nat
      BY KeyAssumption, FS_Subset, FS_CardinalityType DEF Live
    <3>2. Cardinality(Live) < ConcurrentLimit
      BY <2>2, <3>1, Numbers
    <3>3. Taken /\ lease' = [lease EXCEPT ![r] = TRUE] /\ trouble' = trouble
      BY <1>1, <2>2, <3>2 DEF TakeSlot, Go
    <3> QED  BY <1>9, <3>3
  <2> QED  BY <2>1, <2>2
<1>2. ASSUME TakeSlotLost(r) PROVE Kept
  <2>0. trouble' > 0 /\ lease' = lease /\ pc[r] = "slot" /\ pc' = [pc EXCEPT ![r] = "count"]
    BY <1>0, <1>2, TroubleStays DEF TakeSlotLost, Go
  <2>1. CASE slots' = slots
    <3>1. Live' = Live
      BY <2>1 DEF Live
    <3>2. LeaseHasSlot'
      BY <1>0, <2>0, <2>1 DEF LeaseHasSlot
    <3> QED  BY <1>0, <2>0, <3>1, <3>2 DEF SlotIsKnown
  <2>2. CASE slots' # slots
    <3>1. Taken
      BY <1>2, <2>0, <2>2 DEF TakeSlotLost
    <3> QED  BY <1>9, <2>0, <3>1
  <2> QED  BY <2>1, <2>2
<1>3. ASSUME Attempt(r) \/ CallFails(r) \/ \E k \in 1 .. MaxTokens : CallSucceeds(r, k)
      PROVE  Kept
  <2>1. /\ pc[r] \in Running /\ UNCHANGED <<slots, lease, trouble>>
        /\ \E l \in Running : pc' = [pc EXCEPT ![r] = l]
    BY <1>3 DEF Attempt, CallFails, CallSucceeds, Go, redis, Running
  <2>2. (\A q \in Requests \ {r} : pc'[q] = pc[q]) /\ pc'[r] \in Running
    BY <1>0, <2>1
  <2> QED  BY <2>1, <2>2, SlotsAlone
<1>4. ASSUME Release(r) PROVE Kept
  <2>1. /\ pc[r] = "release" /\ pc' = [pc EXCEPT ![r] = "done"] /\ UNCHANGED <<lease, trouble>>
        /\ slots' = IF lease[r] THEN [slots EXCEPT ![r] = 0] ELSE slots
    BY <1>4 DEF Release, Go
  <2>2. /\ \A q \in Requests \ {r} : slots'[q] = slots[q] /\ pc'[q] = pc[q]
        /\ pc'[r] = "done" /\ (lease[r] => slots'[r] = 0) /\ (~lease[r] => slots'[r] = slots[r])
    BY <1>0, <2>1
  <2>3. Live' \subseteq Live
    BY <1>0, <2>2 DEF Live
  <2>4. LeaseHasSlot' /\ SlotIsKnown'
    BY <1>0, <2>1, <2>2 DEF LeaseHasSlot, SlotIsKnown
  <2> QED  BY <1>0, <2>3, <2>4, LiveWithin
<1>5. ASSUME Abandon(r) PROVE Kept
  <2>1. UNCHANGED <<slots, lease>> /\ pc' = [pc EXCEPT ![r] = "done"] /\ trouble' > 0 /\ trouble' # 0
    BY <1>0, <1>5, TroubleStays DEF Abandon, Go, redis
  <2>2. (\A q \in Requests \ {r} : pc'[q] = pc[q]) /\ pc'[r] = "done"
    BY <1>0, <2>1
  <2> QED  BY <2>1, <2>2, SlotsAlone
<1> QED  BY <1>1, <1>2, <1>3, <1>4, <1>5, CountSlots DEF Step

LEMMA NextSlots ==
    ASSUME ~LongCalls
    PROVE  SlotInv /\ [Next]_vars => SlotInv'
<1> SUFFICES ASSUME SlotInv, [Next]_vars PROVE SlotInv'
  OBVIOUS
<1> DEFINE Kept == Cardinality(Live') <= ConcurrentLimit /\ LeaseHasSlot' /\ SlotIsKnown'
<1>0. /\ KeyTypes /\ RequestsOK /\ LeaseHasSlot /\ SlotIsKnown /\ Cardinality(Live) <= ConcurrentLimit
      /\ pc \in [Requests -> {"idle", "slot", "count", "attempt", "call", "usage", "release", "done"}]
      /\ slots \in [Requests -> 0 .. SlotTtl] /\ lease \in [Requests -> BOOLEAN]
  BY DEF SlotInv, KeyTypes, TypeOK, RequestsOK
<1>1. ASSUME NEW r \in Requests, NEW p \in Processes, Enter(r, p) PROVE Kept
  <2>1. /\ pc[r] = "idle" /\ UNCHANGED <<slots, lease, trouble>>
        /\ \E l \in {"slot", "done"} : pc' = [pc EXCEPT ![r] = l]
    BY <1>1 DEF Enter, Go, redis
  <2>2. (\A q \in Requests \ {r} : pc'[q] = pc[q]) /\ pc'[r] \in {"slot", "done"}
    BY <1>0, <2>1
  <2> QED  BY <2>1, <2>2, SlotsAlone
<1>2. ASSUME NEW m \in sending, Send(m) PROVE Kept
  <2>1. UNCHANGED <<slots, lease, pc>> /\ (trouble' = 0 => trouble = 0)
    BY <1>0, <1>2, TroubleStays DEF Send, redis, request
  <2> QED  BY <2>1, SlotsStay
<1>3. ASSUME NEW p \in Processes, Hear(p) PROVE Kept
  <2>1. trouble' = trouble \/ \E b \in BOOLEAN : Trouble(b)
    <3>1. CASE Head(inbox[p]).ver <= seen[p]
      BY <1>3, <3>1 DEF Hear
    <3>2. CASE ~(Head(inbox[p]).ver <= seen[p])
      BY <1>3, <3>2 DEF Hear
    <3> QED  BY <3>1, <3>2
  <2>2. UNCHANGED <<slots, lease, pc>> /\ (trouble' = 0 => trouble = 0)
    BY <1>0, <1>3, <2>1, TroubleStays DEF Hear, redis, request
  <2> QED  BY <2>2, SlotsStay
<1>4. ASSUME NEW p \in Processes, Apply(p) PROVE Kept
  BY <1>4, SlotsStay DEF Apply, redis, request
<1>5. ASSUME NEW p \in Processes, Restart(p) PROVE Kept
  <2>1. /\ trouble' > 0 /\ UNCHANGED <<slots, lease>>
        /\ \A q \in Requests : pc'[q] = "done" \/ pc'[q] = pc[q]
    BY <1>0, <1>5, TroubleStays DEF Restart, redis
  <2>2. Live' = Live
    BY <2>1 DEF Live
  <2> QED  BY <1>0, <2>1, <2>2 DEF LeaseHasSlot, SlotIsKnown
<1>6. ASSUME Tick PROVE Kept
  <2>1. /\ slots' = [r \in Requests |-> Less(slots[r])] /\ UNCHANGED <<lease, pc>>
        /\ trouble' = 0 => trouble = 0
    BY <1>0, <1>6, TroubleStays DEF Tick, TimePasses
  <2>2. \A r \in Requests : slots'[r] > 0 => slots[r] > 0
    BY <1>0, <2>1 DEF Less
  <2>3. \A r \in Requests : pc[r] \notin {"idle", "done"} /\ lease[r] => slots[r] > 1
    BY <1>6 DEF Tick, MayPass, Busy
  <2>4. \A r \in Requests : pc[r] \notin {"idle", "done"} /\ lease[r] => slots'[r] > 0
    BY <1>0, <2>1, <2>3 DEF Less
  <2>5. LeaseHasSlot'
    BY <1>0, <2>1, <2>4 DEF LeaseHasSlot
  <2>6. SlotIsKnown'
    BY <1>0, <2>1, <2>2 DEF SlotIsKnown
  <2>7. PICK r \in Requests : TRUE
    BY <1>6 DEF Tick, MayPass
  <2>8. Live' \subseteq Live
    BY <2>2 DEF Live
  <2> QED  BY <1>0, <2>5, <2>6, <2>8, LiveWithin
<1>7. ASSUME UNCHANGED vars PROVE Kept
  BY <1>7, SlotsStay DEF vars, redis, request
<1>8. Kept
  BY <1>1, <1>2, <1>3, <1>4, <1>5, <1>6, <1>7, StepSlots DEF Next
<1> QED  BY <1>0, <1>8, NextTypes DEF SlotInv

\* The slots of the key (acquire_concurrency, _release_api_key_limit): as long
\* as no request lasts longer than its slot, never more requests run with a
\* slot than the key has, in whichever processes and whatever is lost,
\* abandoned or restarted, and a request that has ended has none unless
\* something went wrong.
THEOREM SlotsAreExact == ~LongCalls => (Spec => []SlotsExact)
<1> SUFFICES ASSUME ~LongCalls PROVE Spec => []SlotsExact
  OBVIOUS
<1>1. Init => SlotInv
  <2> SUFFICES ASSUME Init PROVE SlotInv
    OBVIOUS
  <2>1. Live = {}
    BY DEF Init, Live
  <2>2. Cardinality(Live) <= ConcurrentLimit
    BY <2>1, FS_EmptySet, Numbers
  <2>3. LeaseHasSlot /\ SlotIsKnown
    BY DEF Init, LeaseHasSlot, SlotIsKnown
  <2> QED  BY <2>2, <2>3, InitTypes DEF SlotInv
<1>2. SlotInv /\ [Next]_vars => SlotInv'
  BY NextSlots
<1>3. SlotInv => SlotsExact
  <2> SUFFICES ASSUME SlotInv PROVE SlotsExact
    OBVIOUS
  <2>1. {r \in Busy : lease[r]} \subseteq Live
    BY DEF SlotInv, LeaseHasSlot, Busy, Live
  <2>2. IsFiniteSet(Live) /\ Cardinality(Live) \in Nat /\ Cardinality(Live) <= ConcurrentLimit
    BY KeyAssumption, FS_Subset, FS_CardinalityType DEF Live, SlotInv
  <2>3. /\ Cardinality({r \in Busy : lease[r]}) <= Cardinality(Live)
        /\ Cardinality({r \in Busy : lease[r]}) \in Nat
    BY <2>1, <2>2, FS_Subset, FS_CardinalityType
  <2>4. RunningWithin
    BY <2>2, <2>3, Numbers DEF RunningWithin
  <2>5. SlotReturned
    <3>1. \A r \in Requests : slots[r] \in 0 .. SlotTtl
      BY DEF SlotInv, KeyTypes, TypeOK, RequestsOK
    <3> QED  BY <3>1, Numbers DEF SlotInv, SlotIsKnown, SlotReturned, Running
  <2> QED  BY <2>4, <2>5 DEF SlotInv, KeyTypes, SlotsExact
<1> QED  BY <1>1, <1>2, <1>3, PTL DEF Spec

-----------------------------------------------------------------------------
(* Blocks *)

\* The limiter has just read the clock while it works on a request.
ClockRead == \A r \in Requests : pc[r] \in {"slot", "count", "usage"} => age[r] = 0

\* A block lasts as long as the full window it stands for.
BlocksMatch ==
    \A p \in Processes, f \in Fields : blocks[p][f] > 0 => Full(f) /\ blocks[p][f] = win[f].left

\* An event under way is about a window that is full, and was read right.
EventsTrue ==
    /\ \A m \in sending : Full(m.f)
    /\ \A p \in Processes : \A i \in 1 .. Len(inbox[p]) : Full(inbox[p][i].f)
    /\ \A p \in Processes : reading[p] # Idle =>
           Full(reading[p].f) /\ reading[p].left = win[reading[p].f].left

\* Events come in the order of their versions, and none was taken before.
EventsOrdered ==
    /\ \A m, o \in sending : m.ver = o.ver => m = o
    /\ \A p \in Processes, m \in sending : seen[p] < m.ver
    /\ \A p \in Processes, m \in sending : \A i \in 1 .. Len(inbox[p]) : inbox[p][i].ver < m.ver
    /\ \A p \in Processes : \A i \in 1 .. Len(inbox[p]) : seen[p] < inbox[p][i].ver
    /\ \A p \in Processes : \A i, j \in 1 .. Len(inbox[p]) : i < j => inbox[p][i].ver < inbox[p][j].ver

\* An event about window f is on its way to process p.
Coming(p, f) ==
    \/ \E m \in sending : m.f = f
    \/ \E i \in 1 .. Len(inbox[p]) : inbox[p][i].f = f
    \/ reading[p] # Idle /\ reading[p].f = f

\* A process that does not block a full window will hear of it.
FullIsKnown ==
    \A p \in Processes, f \in Fields : Full(f) => blocks[p][f] = win[f].left \/ Coming(p, f)

\* What holds of blocks and events as long as nothing went wrong.
Sure == BlocksMatch /\ EventsTrue /\ EventsOrdered /\ FullIsKnown

BlockInv == KeyTypes /\ (trouble = 0 => ClockRead /\ Sure)

\* A window that is full is there.
LEMMA FullLasts ==
    ASSUME KeyTypes, NEW f \in Fields, Full(f)
    PROVE  win[f].left \in Nat /\ win[f].left > 0
BY FieldsType DEF KeyTypes, TypeOK, WindowsOK, Full

\* Events name windows, and have versions that were given out.
LEMMA EventFields ==
    ASSUME EventsOK
    PROVE  /\ stamp \in Nat /\ \A m \in sending : m.f \in Fields /\ m.ver \in Nat /\ m.ver < stamp
           /\ \A p \in Processes :
                 /\ seen[p] \in Nat /\ seen[p] < stamp
                 /\ \A i \in 1 .. Len(inbox[p]) :
                       /\ inbox[p][i].f \in Fields
                       /\ inbox[p][i].ver \in Nat /\ inbox[p][i].ver < stamp
                 /\ reading[p] # Idle => reading[p].f \in Fields /\ reading[p].left \in Nat
<1> DEFINE Event == [f : Fields, ver : 1 .. stamp - 1]
<1>1. stamp \in Nat /\ sending \subseteq Event
  BY DEF EventsOK
<1>2. \A m \in Event : m.f \in Fields /\ m.ver \in Nat /\ m.ver < stamp
  BY <1>1
<1>3. ASSUME NEW p \in Processes PROVE seen[p] \in Nat /\ seen[p] < stamp
  BY <1>1 DEF EventsOK
<1>4. ASSUME NEW p \in Processes, NEW i \in 1 .. Len(inbox[p])
      PROVE  inbox[p][i] \in Event
  <2>1. inbox[p] \in Seq(Event)
    BY DEF EventsOK
  <2> HIDE DEF Event
  <2> QED  BY <2>1
<1>5. ASSUME NEW p \in Processes, reading[p] # Idle
      PROVE  reading[p].f \in Fields /\ reading[p].left \in Nat
  <2>1. reading[p] \in {Idle} \cup [f : Fields, left : Nat]
    BY DEF EventsOK
  <2>2. reading[p] \in [f : Fields, left : Nat]
    BY <1>5, <2>1
  <2> QED  BY <2>2
<1> HIDE DEF Event
<1> QED  BY <1>1, <1>2, <1>3, <1>4, <1>5

\* A step that leaves windows, blocks and events alone.
LEMMA SureStays ==
    ASSUME Sure, UNCHANGED <<win, blocks, bus>>
    PROVE  Sure'
BY DEF Sure, BlocksMatch, EventsTrue, EventsOrdered, FullIsKnown, Coming, Full, bus

\* A count: the window it fills is blocked in the process of the request, and
\* an event that is newer than all others goes to the other processes.
LEMMA BumpSure ==
    ASSUME KeyTypes, Sure, NEW r \in Requests, age[r] = 0,
           NEW f \in Fields, NEW n \in Nat \ {0}, Bump(r, f, n)
    PROVE  Sure'
<1>0. /\ WindowsOK /\ EventsOK /\ proc[r] \in Processes
      /\ BlocksMatch /\ EventsTrue /\ EventsOrdered /\ FullIsKnown
  BY DEF KeyTypes, TypeOK, RequestsOK, Sure
<1>1. PICK ttl \in WindowTtl(f) :
        /\ win' = [win EXCEPT ![f] = Incr(f, n, ttl)]
        /\ IF Incr(f, n, ttl).n >= Limit[f]
           THEN SetBlocked(proc[r], f, Incr(f, n, ttl).left, age[r])
           ELSE UNCHANGED <<blocks, bus>>
  BY DEF Bump
<1> DEFINE w == Incr(f, n, ttl)  p == proc[r]
<1>2. /\ w \in [n : Nat, left : Nat] /\ w.left > 0
      /\ Full(f) => w.n >= Limit[f] /\ w.left = win[f].left
  BY <1>0, IncrType, FieldsType
<1> HIDE DEF w
<1>3. win'[f] = w /\ \A g \in Fields \ {f} : win'[g] = win[g]
  BY <1>0, <1>1 DEF WindowsOK, w
<1>4. \A g \in Fields : Full(g) => Full(g)' /\ win'[g].left = win[g].left
  BY <1>2, <1>3 DEF Full
<1>5. CASE w.n >= Limit[f]
  <2>1. /\ blocks' = [blocks EXCEPT ![p][f] = w.left]
        /\ sending' = sending \cup {[f |-> f, ver |-> stamp]}
        /\ UNCHANGED <<inbox, seen, reading>> /\ stamp' = stamp + 1
    BY <1>1, <1>2, <1>5 DEF SetBlocked, w
  <2>2. /\ blocks'[p][f] = w.left
        /\ \A q \in Processes, g \in Fields : q # p \/ g # f => blocks'[q][g] = blocks[q][g]
    BY <1>0, <2>1 DEF EventsOK
  <2>3. Full(f)'
    BY <1>3, <1>5 DEF Full
  <2>4. BlocksMatch'
    <3> SUFFICES ASSUME NEW q \in Processes, NEW g \in Fields, blocks'[q][g] > 0
                 PROVE  Full(g)' /\ blocks'[q][g] = win'[g].left
      BY DEF BlocksMatch
    <3>1. CASE q = p /\ g = f
      BY <1>3, <2>2, <2>3, <3>1
    <3>2. CASE q # p \/ g # f
      BY <1>0, <1>4, <2>2, <3>2 DEF BlocksMatch
    <3> QED  BY <3>1, <3>2
  <2>7. EventsTrue'
    <3>1. \A m \in sending' : Full(m.f)'
      BY <1>0, <1>4, <2>1, <2>3, EventFields DEF EventsTrue
    <3>2. \A q \in Processes : \A i \in 1 .. Len(inbox'[q]) : Full(inbox[q][i].f)'
      BY <1>0, <1>4, <2>1, EventFields DEF EventsTrue
    <3>3. \A q \in Processes : reading'[q] # Idle =>
             Full(reading[q].f)' /\ reading'[q].left = win'[reading'[q].f].left
      BY <1>0, <1>4, <2>1, EventFields DEF EventsTrue
    <3> QED  BY <2>1, <3>1, <3>2, <3>3 DEF EventsTrue
  <2>8. EventsOrdered'
    <3>2. \A m, o \in sending' : m.ver = o.ver => m = o
      BY <1>0, <2>1, EventFields DEF EventsOrdered
    <3>3. \A q \in Processes, m \in sending' : seen[q] < m.ver
      BY <1>0, <2>1, EventFields DEF EventsOrdered
    <3>4. \A q \in Processes, m \in sending' : \A i \in 1 .. Len(inbox[q]) : inbox[q][i].ver < m.ver
      BY <1>0, <2>1, EventFields DEF EventsOrdered
    <3> QED  BY <1>0, <2>1, <3>2, <3>3, <3>4 DEF EventsOrdered
  <2>9. FullIsKnown'
    <3> SUFFICES ASSUME NEW q \in Processes, NEW g \in Fields, Full(g)'
                 PROVE  blocks'[q][g] = win'[g].left \/ Coming(q, g)'
      BY DEF FullIsKnown
    <3>1. CASE g = f
      <4>1. [f |-> f, ver |-> stamp] \in sending' /\ [f |-> f, ver |-> stamp].f = g
        BY <2>1, <3>1
      <4> QED  BY <4>1 DEF Coming
    <3>2. CASE g # f
      <4>1. Full(g) /\ win'[g] = win[g] /\ blocks'[q][g] = blocks[q][g]
        BY <1>3, <2>2, <3>2 DEF Full
      <4>2. Coming(q, g) => Coming(q, g)'
        BY <2>1 DEF Coming
      <4> QED  BY <1>0, <4>1, <4>2 DEF FullIsKnown
    <3> QED  BY <3>1, <3>2
  <2> QED  BY <2>4, <2>7, <2>8, <2>9 DEF Sure
<1>6. CASE ~(w.n >= Limit[f])
  <2>1. UNCHANGED <<blocks, bus>>
    BY <1>1, <1>6 DEF w
  <2>2. ~Full(f) /\ ~Full(f)'
    BY <1>2, <1>3, <1>6 DEF Full
  <2>3. \A g \in Fields : (Full(g) <=> Full(g)') /\ (Full(g) => win'[g].left = win[g].left)
    BY <1>3, <2>2 DEF Full
  <2>6. BlocksMatch'
    BY <1>0, <2>1, <2>3 DEF BlocksMatch
  <2>7. EventsTrue'
    BY <1>0, <2>1, <2>3, EventFields DEF EventsTrue, bus
  <2>8. EventsOrdered'
    BY <1>0, <2>1 DEF EventsOrdered, bus
  <2>9. FullIsKnown'
    BY <1>0, <2>1, <2>3 DEF FullIsKnown, Coming, bus
  <2> QED  BY <2>6, <2>7, <2>8, <2>9 DEF Sure
<1> QED  BY <1>5, <1>6

\* An event goes to every process, behind the earlier ones.
LEMMA SendSure ==
    ASSUME KeyTypes, Sure, NEW m \in sending, Send(m), \A o \in sending : ~(o.ver < m.ver)
    PROVE  Sure'
<1>0. EventsOK /\ BlocksMatch /\ EventsTrue /\ EventsOrdered /\ FullIsKnown
  BY DEF KeyTypes, TypeOK, Sure
<1>1. /\ sending' = sending \ {m} /\ UNCHANGED <<win, blocks, seen, reading>>
      /\ inbox' = [p \in Processes |-> Append(inbox[p], m)]
  BY DEF Send, redis
<1>2. ASSUME NEW p \in Processes
      PROVE  /\ Len(inbox[p]) \in Nat /\ Len(inbox'[p]) = Len(inbox[p]) + 1
             /\ inbox'[p][Len(inbox[p]) + 1] = m
             /\ \A i \in 1 .. Len(inbox[p]) : inbox'[p][i] = inbox[p][i]
  <2> DEFINE Event == [f : Fields, ver : 1 .. stamp - 1]
  <2>1. inbox[p] \in Seq(Event) /\ m \in Event
    BY <1>0 DEF EventsOK
  <2>2. inbox'[p] = Append(inbox[p], m)
    BY <1>1
  <2> HIDE DEF Event
  <2> QED  BY <2>1, <2>2, AppendProperties
<1>3. ASSUME NEW p \in Processes, NEW i \in 1 .. Len(inbox'[p])
      PROVE  \/ i \in 1 .. Len(inbox[p]) /\ inbox'[p][i] = inbox[p][i]
             \/ i = Len(inbox[p]) + 1 /\ inbox'[p][i] = m
  <2>1. Len(inbox[p]) \in Nat /\ i \in 1 .. Len(inbox[p]) + 1
    BY <1>2
  <2>2. i \in 1 .. Len(inbox[p]) \/ i = Len(inbox[p]) + 1
    BY <2>1
  <2> QED  BY <1>2, <2>2
<1>4. \A o \in sending' : m.ver < o.ver
  BY <1>0, <1>1, EventFields DEF EventsOrdered
<1>5. BlocksMatch'
  BY <1>0, <1>1 DEF BlocksMatch, Full
<1>6. EventsTrue'
  <2>1. \A p \in Processes : \A i \in 1 .. Len(inbox'[p]) : Full(inbox[p][i].f)'
    BY <1>0, <1>1, <1>3 DEF EventsTrue, Full
  <2>2. \A o \in sending' : Full(o.f)'
    BY <1>0, <1>1 DEF EventsTrue, Full
  <2> QED  BY <1>0, <1>1, <2>1, <2>2 DEF EventsTrue, Full
<1>7. EventsOrdered'
  <2>1. \A p \in Processes, o \in sending' : \A i \in 1 .. Len(inbox'[p]) : inbox'[p][i].ver < o.ver
    BY <1>0, <1>1, <1>3, <1>4 DEF EventsOrdered
  <2>2. \A p \in Processes : \A i \in 1 .. Len(inbox'[p]) : seen'[p] < inbox'[p][i].ver
    BY <1>0, <1>1, <1>3 DEF EventsOrdered
  <2>3. ASSUME NEW p \in Processes, NEW i \in 1 .. Len(inbox'[p]), NEW j \in 1 .. Len(inbox'[p]), i < j
        PROVE  inbox'[p][i].ver < inbox'[p][j].ver
    <3>1. i \in 1 .. Len(inbox[p]) /\ inbox'[p][i] = inbox[p][i]
      BY <1>2, <2>3
    <3>2. CASE j \in 1 .. Len(inbox[p]) /\ inbox'[p][j] = inbox[p][j]
      BY <1>0, <2>3, <3>1, <3>2 DEF EventsOrdered
    <3>3. CASE j = Len(inbox[p]) + 1 /\ inbox'[p][j] = m
      BY <1>0, <3>1, <3>3 DEF EventsOrdered
    <3> QED  BY <1>3, <3>2, <3>3
  <2> QED  BY <1>0, <1>1, <2>1, <2>2, <2>3 DEF EventsOrdered
<1>8. FullIsKnown'
  <2> SUFFICES ASSUME NEW p \in Processes, NEW f \in Fields, Full(f)'
               PROVE  blocks'[p][f] = win'[f].left \/ Coming(p, f)'
    BY DEF FullIsKnown
  <2>1. Full(f) /\ UNCHANGED <<win, blocks>>
    BY <1>1 DEF Full
  <2>2. ASSUME Coming(p, f) PROVE Coming(p, f)'
    <3>1. CASE m.f = f
      <4>1. Len(inbox[p]) + 1 \in 1 .. Len(inbox'[p]) /\ inbox'[p][Len(inbox[p]) + 1].f = f
        BY <1>2, <3>1
      <4> QED  BY <4>1 DEF Coming
    <3>2. CASE m.f # f /\ \E o \in sending : o.f = f
      BY <1>1, <3>2 DEF Coming
    <3>3. CASE \E i \in 1 .. Len(inbox[p]) : inbox[p][i].f = f
      <4>1. PICK i \in 1 .. Len(inbox[p]) : inbox[p][i].f = f
        BY <3>3
      <4>2. i \in 1 .. Len(inbox'[p]) /\ inbox'[p][i].f = f
        BY <1>2, <4>1
      <4> QED  BY <4>2 DEF Coming
    <3>4. CASE reading[p] # Idle /\ reading[p].f = f
      BY <1>1, <3>4 DEF Coming, Idle
    <3> QED  BY <2>2, <3>1, <3>2, <3>3, <3>4 DEF Coming
  <2> QED  BY <1>0, <2>1, <2>2 DEF FullIsKnown
<1> QED  BY <1>5, <1>6, <1>7, <1>8 DEF Sure

\* A process takes the next event and reads the window.
LEMMA HearSure ==
    ASSUME KeyTypes, Sure, NEW p \in Processes, Hear(p), trouble = 0, trouble' = 0
    PROVE  Sure'
<1>0. EventsOK /\ BlocksMatch /\ EventsTrue /\ EventsOrdered /\ FullIsKnown
  BY DEF KeyTypes, TypeOK, Sure
<1> DEFINE m == Head(inbox[p])
<1>1. /\ Len(inbox[p]) \in Nat \ {0} /\ m = inbox[p][1] /\ Len(Tail(inbox[p])) = Len(inbox[p]) - 1
      /\ \A i \in 1 .. Len(Tail(inbox[p])) : i + 1 \in 1 .. Len(inbox[p]) /\ Tail(inbox[p])[i] = inbox[p][i + 1]
  <2> DEFINE Event == [f : Fields, ver : 1 .. stamp - 1]
  <2>1. inbox[p] \in Seq(Event) /\ inbox[p] # <<>>
    BY <1>0 DEF EventsOK, Hear
  <2> HIDE DEF Event
  <2> QED  BY <2>1, HeadTailProperties
<1>2. m.f \in Fields /\ Full(m.f) /\ seen[p] < m.ver /\ seen[p] \in Nat /\ m.ver \in Nat
  BY <1>0, <1>1, EventFields DEF EventsTrue, EventsOrdered
<1> HIDE DEF m
<1>3. PICK l \in TimeLeft(m.f) :
        /\ reading' = [reading EXCEPT ![p] = [f |-> m.f, left |-> l]]
        /\ Trouble(l # win[m.f].left)
  BY <1>2 DEF Hear, m
<1>4. l = win[m.f].left /\ l > 0
  <2>1. l = win[m.f].left
    BY <1>3, TroubleStays
  <2> QED  BY <1>2, <2>1, FullLasts
<1>5. /\ seen' = [seen EXCEPT ![p] = m.ver] /\ inbox' = [inbox EXCEPT ![p] = Tail(@)]
      /\ UNCHANGED <<win, blocks, sending>> /\ reading[p] = Idle
  BY <1>2 DEF Hear, m, redis
<1>6. /\ inbox'[p] = Tail(inbox[p]) /\ seen'[p] = m.ver
      /\ reading'[p].f = m.f /\ reading'[p].left = l /\ reading'[p] # Idle
      /\ \A q \in Processes \ {p} : inbox'[q] = inbox[q] /\ seen'[q] = seen[q] /\ reading'[q] = reading[q]
  BY <1>0, <1>3, <1>4, <1>5 DEF EventsOK, Idle
<1>7. \A f \in Fields : Full(f)' <=> Full(f)
  BY <1>5 DEF Full
<1>8. BlocksMatch'
  BY <1>0, <1>5 DEF BlocksMatch, Full
<1>9. EventsTrue'
  <2>1. ASSUME NEW q \in Processes, NEW i \in 1 .. Len(inbox'[q]) PROVE Full(inbox[q][i].f)'
    BY <1>0, <1>1, <1>5, <1>6 DEF EventsTrue, Full
  <2>2. ASSUME NEW q \in Processes, reading'[q] # Idle
        PROVE  Full(reading[q].f)' /\ reading'[q].left = win'[reading'[q].f].left
    BY <1>0, <1>2, <1>4, <1>5, <1>6, <2>2 DEF EventsTrue, Full
  <2>3. \A o \in sending' : Full(o.f)'
    BY <1>0, <1>5 DEF EventsTrue, Full
  <2> QED  BY <2>1, <2>2, <2>3 DEF EventsTrue, Idle
<1>10. EventsOrdered'
  <2>1. ASSUME NEW q \in Processes, NEW o \in sending'
        PROVE  seen'[q] < o.ver /\ \A i \in 1 .. Len(inbox'[q]) : inbox'[q][i].ver < o.ver
    BY <1>0, <1>1, <1>5, <1>6 DEF EventsOrdered
  <2>2. ASSUME NEW q \in Processes, NEW i \in 1 .. Len(inbox'[q]) PROVE seen'[q] < inbox'[q][i].ver
    <3>1. CASE q = p
      <4>0. i \in 1 .. Len(Tail(inbox[p]))
        BY <1>6, <3>1
      <4>1. 1 \in 1 .. Len(inbox[p]) /\ i + 1 \in 1 .. Len(inbox[p]) /\ 1 < i + 1 /\ inbox'[p][i] = inbox[p][i + 1]
        BY <1>1, <1>6, <4>0
      <4> QED  BY <1>0, <1>1, <1>6, <3>1, <4>1 DEF EventsOrdered
    <3>2. CASE q # p
      BY <1>0, <1>6, <3>2 DEF EventsOrdered
    <3> QED  BY <3>1, <3>2
  <2>3. ASSUME NEW q \in Processes, NEW i \in 1 .. Len(inbox'[q]), NEW j \in 1 .. Len(inbox'[q]), i < j
        PROVE  inbox'[q][i].ver < inbox'[q][j].ver
    <3>1. CASE q = p
      <4>0. i \in 1 .. Len(Tail(inbox[p])) /\ j \in 1 .. Len(Tail(inbox[p]))
        BY <1>6, <3>1
      <4>1. /\ i + 1 \in 1 .. Len(inbox[p]) /\ j + 1 \in 1 .. Len(inbox[p]) /\ i + 1 < j + 1
            /\ inbox'[p][i] = inbox[p][i + 1] /\ inbox'[p][j] = inbox[p][j + 1]
        BY <1>1, <1>6, <2>3, <4>0
      <4> QED  BY <1>0, <3>1, <4>1 DEF EventsOrdered
    <3>2. CASE q # p
      BY <1>0, <1>6, <2>3, <3>2 DEF EventsOrdered
    <3> QED  BY <3>1, <3>2
  <2> QED  BY <1>0, <1>5, <2>1, <2>2, <2>3 DEF EventsOrdered
<1>11. FullIsKnown'
  <2> SUFFICES ASSUME NEW q \in Processes, NEW f \in Fields, Full(f)'
               PROVE  blocks'[q][f] = win'[f].left \/ Coming(q, f)'
    BY DEF FullIsKnown
  <2>1. Full(f) /\ UNCHANGED <<win, blocks>>
    BY <1>5, <1>7
  <2>2. ASSUME Coming(q, f) PROVE Coming(q, f)'
    <3>1. CASE q # p
      BY <1>5, <1>6, <2>2, <3>1 DEF Coming, Idle
    <3>2. CASE q = p /\ \E o \in sending : o.f = f
      BY <1>5, <3>2 DEF Coming
    <3>3. CASE q = p /\ \E i \in 1 .. Len(inbox[p]) : inbox[p][i].f = f
      <4>1. PICK i \in 1 .. Len(inbox[p]) : inbox[p][i].f = f
        BY <3>3
      <4>2. CASE i = 1
        BY <1>1, <1>6, <3>3, <4>1, <4>2 DEF Coming, Idle
      <4>3. CASE i # 1
        <5>1. i - 1 \in 1 .. Len(inbox'[p]) /\ inbox'[p][i - 1].f = f
          BY <1>1, <1>6, <4>1, <4>3
        <5> QED  BY <3>3, <5>1 DEF Coming
      <4> QED  BY <4>2, <4>3
    <3> QED  BY <1>5, <2>2, <3>1, <3>2, <3>3 DEF Coming
  <2> QED  BY <1>0, <2>1, <2>2 DEF FullIsKnown
<1> QED  BY <1>8, <1>9, <1>10, <1>11 DEF Sure

\* The block of an event lasts as long as the window.
LEMMA ApplySure ==
    ASSUME KeyTypes, Sure, NEW p \in Processes, Apply(p)
    PROVE  Sure'
<1>0. EventsOK /\ BlocksMatch /\ EventsTrue /\ EventsOrdered /\ FullIsKnown
  BY DEF KeyTypes, TypeOK, Sure
<1> DEFINE g == reading[p].f
<1>1. reading[p] # Idle /\ g \in Fields /\ Full(g) /\ reading[p].left = win[g].left
  BY <1>0, EventFields DEF Apply, EventsTrue
<1> HIDE DEF g
<1>2. /\ blocks' = [blocks EXCEPT ![p][g] = reading[p].left] /\ reading' = [reading EXCEPT ![p] = Idle]
      /\ UNCHANGED <<win, sending, inbox, seen>>
  BY DEF Apply, redis, g
<1>3. /\ blocks'[p][g] = win[g].left
      /\ \A q \in Processes, f \in Fields : q # p \/ f # g => blocks'[q][f] = blocks[q][f]
  BY <1>0, <1>1, <1>2 DEF EventsOK
<1>4. reading'[p] = Idle /\ \A q \in Processes \ {p} : reading'[q] = reading[q]
  BY <1>0, <1>2 DEF EventsOK
<1>5. BlocksMatch'
  <2> SUFFICES ASSUME NEW q \in Processes, NEW f \in Fields, blocks'[q][f] > 0
               PROVE  Full(f)' /\ blocks'[q][f] = win'[f].left
    BY DEF BlocksMatch
  <2>1. CASE q = p /\ f = g
    BY <1>1, <1>2, <1>3, <2>1 DEF Full
  <2>2. CASE q # p \/ f # g
    BY <1>0, <1>2, <1>3, <2>2 DEF BlocksMatch, Full
  <2> QED  BY <2>1, <2>2
<1>6. EventsTrue'
  BY <1>0, <1>2, <1>4 DEF EventsTrue, Full, Idle
<1>7. EventsOrdered'
  BY <1>0, <1>2 DEF EventsOrdered
<1>8. FullIsKnown'
  <2> SUFFICES ASSUME NEW q \in Processes, NEW f \in Fields, Full(f)'
               PROVE  blocks'[q][f] = win'[f].left \/ Coming(q, f)'
    BY DEF FullIsKnown
  <2>1. Full(f)
    BY <1>2 DEF Full
  <2>2. CASE q = p /\ f = g
    BY <1>2, <1>3, <2>2
  <2>3. CASE q # p \/ f # g
    <3>1. Coming(q, f) => Coming(q, f)'
      BY <1>2, <1>4, <2>3 DEF Coming, Idle, g
    <3> QED  BY <1>0, <1>2, <1>3, <2>1, <2>3, <3>1 DEF FullIsKnown
  <2> QED  BY <2>2, <2>3
<1> QED  BY <1>5, <1>6, <1>7, <1>8 DEF Sure

\* Time passes for a block as it does for the window it stands for.
LEMMA TickSure ==
    ASSUME KeyTypes, Sure, Tick, Quiet
    PROVE  Sure'
<1>0. WindowsOK /\ EventsOK /\ BlocksMatch /\ EventsTrue /\ EventsOrdered /\ FullIsKnown
  BY DEF KeyTypes, TypeOK, Sure
<1>1. sending = {} /\ \A p \in Processes : inbox[p] = <<>> /\ reading[p] = Idle
  BY DEF Quiet
<1>2. UNCHANGED bus
  BY DEF Tick, TimePasses
<1>3. \A p \in Processes, f \in Fields : Full(f) => blocks[p][f] = win[f].left
  BY <1>0, <1>1 DEF FullIsKnown, Coming
<1>4. ASSUME NEW p \in Processes, NEW f \in Fields
      PROVE  /\ blocks'[p][f] > 0 => Full(f)' /\ blocks'[p][f] = win'[f].left
             /\ Full(f)' => blocks'[p][f] = win'[f].left
  <2>1. /\ win'[f] = IF win[f].left <= 1 THEN [n |-> 0, left |-> 0] ELSE [win[f] EXCEPT !.left = @ - 1]
        /\ blocks'[p][f] = Less(blocks[p][f])
    BY DEF Tick, TimePasses
  <2>2. win[f] \in [n : Nat, left : Nat] /\ blocks[p][f] \in Nat /\ Limit[f] \in Nat \ {0}
    BY <1>0, FieldsType DEF WindowsOK, EventsOK
  <2>3. CASE win[f].left <= 1
    <3>1. win'[f].n = 0 /\ ~Full(f)'
      BY <2>1, <2>2, <2>3 DEF Full
    <3>2. blocks[p][f] <= 1
      BY <1>0, <2>2, <2>3 DEF BlocksMatch
    <3>3. ~(blocks'[p][f] > 0)
      BY <2>1, <2>2, <3>2 DEF Less
    <3> QED  BY <3>1, <3>3
  <2>4. CASE ~(win[f].left <= 1)
    <3>1. win'[f].n = win[f].n /\ win'[f].left = win[f].left - 1
      BY <2>1, <2>2, <2>4
    <3>2. Full(f)' <=> Full(f)
      BY <3>1 DEF Full
    <3>3. blocks'[p][f] > 0 => Full(f) /\ blocks[p][f] = win[f].left
      BY <1>0, <2>1, <2>2 DEF BlocksMatch, Less
    <3>4. Full(f) => blocks'[p][f] = win'[f].left
      BY <1>3, <2>1, <2>2, <2>4, <3>1 DEF Less
    <3> QED  BY <3>2, <3>3, <3>4
  <2> QED  BY <2>3, <2>4
<1>5. BlocksMatch' /\ FullIsKnown'
  BY <1>4 DEF BlocksMatch, FullIsKnown
<1>6. EventsTrue' /\ EventsOrdered'
  BY <1>0, <1>1, <1>2 DEF EventsTrue, EventsOrdered, bus, Idle
<1> QED  BY <1>5, <1>6 DEF Sure

LEMMA NextBlocks == BlockInv /\ [Next]_vars => BlockInv'
<1> SUFFICES ASSUME BlockInv, [Next]_vars, trouble' = 0 PROVE ClockRead' /\ Sure'
  BY NextTypes DEF BlockInv
<1> DEFINE Kept == ClockRead' /\ Sure'
<1>0. KeyTypes /\ (trouble = 0 => ClockRead /\ Sure)
  BY DEF BlockInv
<1>1. RequestsOK
  BY <1>0 DEF KeyTypes, TypeOK
<1>2. ~Trouble(TRUE)
  BY <1>0, TroubleStays
<1>3. ASSUME NEW r \in Requests, NEW p \in Processes, Enter(r, p) PROVE Kept
  <2>1. trouble = 0 /\ UNCHANGED <<win, blocks, bus>>
    BY <1>3 DEF Enter, redis
  <2>2. ClockRead'
    BY <1>0, <1>1, <1>3, <2>1 DEF ClockRead, Enter, Go, RequestsOK
  <2> QED  BY <1>0, <2>1, <2>2, SureStays
<1>4. ASSUME NEW r \in Requests, Step(r) PROVE Kept
  <2>1. ASSUME TakeSlot(r) \/ Attempt(r) \/ CallFails(r) \/ Release(r) PROVE Kept
    <3>1. trouble = 0 /\ UNCHANGED <<win, blocks, bus, age>>
      BY <2>1 DEF TakeSlot, Attempt, CallFails, Release, redis
    <3>2. /\ pc[r] = "slot" \/ pc'[r] \notin {"slot", "count", "usage"}
          /\ \A q \in Requests \ {r} : pc'[q] = pc[q]
      BY <1>1, <2>1 DEF TakeSlot, Attempt, CallFails, Release, Go, RequestsOK
    <3>3. ClockRead'
      BY <1>0, <3>1, <3>2 DEF ClockRead
    <3> QED  BY <1>0, <3>1, <3>3, SureStays
  <2>2. ASSUME NEW k \in 1 .. MaxTokens, CallSucceeds(r, k) PROVE Kept
    <3>1. trouble = 0 /\ UNCHANGED <<win, blocks, bus>>
      BY <2>2 DEF CallSucceeds, redis
    <3>2. ClockRead'
      BY <1>0, <1>1, <2>2, <3>1 DEF ClockRead, CallSucceeds, Go, RequestsOK
    <3> QED  BY <1>0, <3>1, <3>2, SureStays
  <2>3. ASSUME Count(r) \/ Usage(r) PROVE Kept
    <3>1. \E f \in Fields, n \in Nat \ {0} : Bump(r, f, n)
      <4>1. CASE Count(r)
        <5>1. RequestFields[ix[r]] \in Fields
          BY <1>0, <1>1, <4>1, FieldsType DEF Count, KeyTypes, Places, Place, RequestsOK
        <5>2. Bump(r, RequestFields[ix[r]], 1)
          BY <1>2, <4>1 DEF Count, BumpLost
        <5>3. 1 \in Nat \ {0}
          OBVIOUS
        <5> QED  BY <5>1, <5>2, <5>3
      <4>2. CASE Usage(r)
        <5>1. TokenFields[ix[r]] \in Fields /\ tokens[r] \in Nat \ {0}
          BY <1>0, <1>1, <4>2, FieldsType, Numbers DEF Usage, KeyTypes, Places, Place, RequestsOK
        <5> QED  BY <1>2, <4>2, <5>1 DEF Usage, BumpLost
      <4> QED  BY <2>3, <4>1, <4>2
    <3>2. trouble = 0
      BY <3>1 DEF Bump
    <3>3. age[r] = 0
      BY <1>0, <2>3, <3>2 DEF ClockRead, Count, Usage
    <3>4. age' = age /\ \A q \in Requests : pc'[q] = pc[q] \/ pc'[q] \in {"attempt", "release"}
      BY <1>1, <2>3 DEF Count, Usage, NextWindow, Go, RequestsOK
    <3>5. ClockRead'
      BY <1>0, <3>2, <3>4 DEF ClockRead
    <3> QED  BY <1>0, <3>1, <3>2, <3>3, <3>5, BumpSure
  <2> QED  BY <1>2, <1>4, <2>1, <2>2, <2>3 DEF Step, TakeSlotLost, Abandon
<1>5. ASSUME NEW m \in sending, Send(m) PROVE Kept
  <2>1. trouble = 0 /\ \A o \in sending : ~(o.ver < m.ver)
    BY <1>0, <1>5, TroubleStays DEF Send
  <2>2. ClockRead'
    BY <1>0, <1>5, <2>1 DEF Send, request, ClockRead
  <2> QED  BY <1>0, <1>5, <2>1, <2>2, SendSure
<1>6. ASSUME NEW p \in Processes, Hear(p) PROVE Kept
  <2>1. trouble = 0
    <3>1. CASE Head(inbox[p]).ver <= seen[p]
      BY <1>6, <3>1 DEF Hear
    <3>2. CASE ~(Head(inbox[p]).ver <= seen[p])
      BY <1>0, <1>6, <3>2, TroubleStays DEF Hear
    <3> QED  BY <3>1, <3>2
  <2>2. ClockRead'
    BY <1>0, <1>6, <2>1 DEF Hear, request, ClockRead
  <2> QED  BY <1>0, <1>6, <2>1, <2>2, HearSure
<1>7. ASSUME NEW p \in Processes, Apply(p) PROVE Kept
  <2>1. trouble = 0 /\ ClockRead'
    BY <1>0, <1>7 DEF Apply, request, ClockRead
  <2> QED  BY <1>0, <1>7, <2>1, ApplySure
<1>8. ASSUME NEW p \in Processes, Restart(p) PROVE Kept
  BY <1>2, <1>8 DEF Restart
<1>9. ASSUME Tick PROVE Kept
  <2>1. trouble = 0 /\ Quiet
    BY <1>0, <1>9, TroubleStays DEF Tick, TimePasses
  <2>2. ClockRead'
    BY <1>9, <2>1 DEF Tick, TimePasses, Quiet, ClockRead
  <2> QED  BY <1>0, <1>9, <2>1, <2>2, TickSure
<1>10. ASSUME UNCHANGED vars PROVE Kept
  <2>1. trouble = 0 /\ ClockRead' /\ UNCHANGED <<win, blocks, bus>>
    BY <1>0, <1>10 DEF vars, redis, request, ClockRead
  <2> QED  BY <1>0, <2>1, SureStays
<1> QED  BY <1>3, <1>4, <1>5, <1>6, <1>7, <1>8, <1>9, <1>10 DEF Next

\* The blocks of the key (_set_blocked, _on_apikey_event): as long as nothing is
\* lost, late or overtaken, a process takes the key for blocked only while a
\* window is full, and once the events have arrived every process blocks it for
\* exactly as long as that window lasts.
THEOREM BlocksAreExact == Spec => []BlockedWhileFull
<1>1. Init => BlockInv
  <2> SUFFICES ASSUME Init PROVE ClockRead /\ Sure
    BY InitTypes DEF BlockInv
  <2>1. ClockRead
    BY DEF Init, ClockRead
  <2>2. \A f \in Fields : ~Full(f)
    BY FieldsType DEF Init, Full
  <2>3. BlocksMatch /\ FullIsKnown
    BY <2>2 DEF Init, BlocksMatch, FullIsKnown
  <2>4. EventsTrue /\ EventsOrdered
    BY DEF Init, EventsTrue, EventsOrdered
  <2> QED  BY <2>1, <2>3, <2>4 DEF Sure
<1>2. BlockInv /\ [Next]_vars => BlockInv'
  BY NextBlocks
<1>3. BlockInv => BlockedWhileFull
  <2> SUFFICES ASSUME BlockInv PROVE BlockedWhileFull
    OBVIOUS
  <2>1. BlockedIsFull
    BY DEF BlockInv, Sure, BlocksMatch, BlockedIsFull
  <2>2. FullIsBlocked
    BY DEF BlockInv, Sure, FullIsKnown, Coming, Quiet, FullIsBlocked
  <2> QED  BY <2>1, <2>2 DEF BlockedWhileFull
<1> QED  BY <1>1, <1>2, <1>3, PTL DEF Spec
=============================================================================
