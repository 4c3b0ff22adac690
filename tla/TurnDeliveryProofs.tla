------------------------ MODULE TurnDeliveryProofs -------------------------
(***************************************************************************)
(* Theorems about TurnDelivery for every number of senders, processes and  *)
(* attempts, and however often something goes wrong.                       *)
(***************************************************************************)
EXTENDS TurnDelivery, TLAPS

-----------------------------------------------------------------------------
(* What the row says *)

\* An acknowledgement was sent by a turn that has come so far.
AcksTell ==
    \A k \in Attempts, s \in Statuses : <<k, s>> \in acks =>
        /\ turn[k] # None
        /\ s = "completed" => turn[k] = "completed"
        /\ s = "failed" => turn[k] \in {"failed", "completed"}
        /\ s = "cancelled" => turn[k] = "cancelled"

RowTold ==
    /\ row.status \in {"received", "running", "completed"} => turn[row.attempt] # None
    /\ row.status = "completed" => turn[row.attempt] = "completed"

RowInv == TypeOK /\ RowTold /\ AcksTell

\* Another text is only sent by a recovery worker of a task that has one.
OwnText == content # "other" => foreign = {}

-----------------------------------------------------------------------------
(* Type correctness *)

\* The rows there can be.
Rows == [status : {None, "pending", "dispatching"} \cup Statuses,
         attempt : Attempts, stale : BOOLEAN]

\* _transition_message_status keeps the row well formed.
LEMMA MovedType ==
    ASSUME TypeOK, NEW to \in Statuses, NEW n \in Attempts
    PROVE  Moved(to, n) \in Rows
BY DEF TypeOK, Moved, Rows

\* Marking a claim as stale, or as new, keeps the row well formed.
LEMMA StaleType ==
    ASSUME NEW r \in Rows, NEW b \in BOOLEAN
    PROVE  [r EXCEPT !.stale = b] \in Rows
BY DEF Rows

LEMMA InitType == Init => TypeOK
<1> SUFFICES ASSUME Init PROVE TypeOK
  OBVIOUS
<1>1. 1 \in Attempts
  BY DeliveryAssumption DEF Attempts
<1>2. PICK crew \in Crews \cup CalmCrews :
        /\ trouble = IF crew \in Crews THEN 0 ELSE MaxTrouble
        /\ pc = [a \in Actors |-> IF a \in crew THEN "idle" ELSE "ended"]
        /\ row = [status |-> IF crew \cap Creators = {} THEN None ELSE "pending",
                  attempt |-> 1, stale |-> FALSE]
        /\ content \in ContentOf(crew)
  BY DEF Init
<1>6. content \in {"none", "own", "other"}
  BY <1>2 DEF ContentOf
<1>3. trouble \in 0 .. MaxTrouble
  BY <1>2, DeliveryAssumption
<1>4. row \in Rows
  BY <1>1, <1>2 DEF Rows
<1>5. pc \in [Actors -> {"idle", "read", "reread", "second", "last", "stale", "claimed",
                         "sent", "lost", "ended"}]
  BY <1>2
<1> QED  BY <1>1, <1>3, <1>4, <1>5, <1>6 DEF Init, TypeOK, Rows

\* A step of an actor keeps the types.
LEMMA ActType ==
    ASSUME TypeOK, NEW a \in Actors, Act(a)
    PROVE  TypeOK'
<1> USE DEF TypeOK, Go, Sees, runtime, bounds
<1>0. ProcessOf[a] \in Processes /\ (a \in Sends => a \in Sends \cup {None})
  BY DEF Processes
<1>1. ASSUME BeginSend(a) PROVE TypeOK'
  BY <1>0, <1>1 DEF BeginSend
<1>2. ASSUME CreatorDispatched(a) PROVE TypeOK'
  BY <1>0, <1>2 DEF CreatorDispatched
<1>3. ASSUME Recover(a) PROVE TypeOK'
  BY <1>0, <1>3 DEF Recover
<1>4. ASSUME NEW b \in BOOLEAN, CreatorFailed(a, b) PROVE TypeOK'
  BY <1>0, <1>4 DEF CreatorFailed, End, Statuses
<1>5. ASSUME Requeue(a) PROVE TypeOK'
  <2>1. CASE row.status \in {"failed", "cancelled"}
    <3>1. seen[a].attempt + 1 \in Attempts
      BY <1>5, <2>1, DeliveryAssumption DEF Requeue, Attempts
    <3>2. row' = [row EXCEPT !.status = "pending", !.attempt = seen[a].attempt + 1]
      BY <1>5, <2>1 DEF Requeue
    <3>3. row' \in Rows
      BY <3>1, <3>2 DEF Rows
    <3>4. seen' \in [Actors -> [status : {None, "pending", "dispatching"} \cup Statuses,
                                attempt : Attempts]]
      BY <1>5, <2>1, <3>3 DEF Requeue, Rows
    <3>5. unsure' \in BOOLEAN
      BY <1>5, <2>1 DEF Requeue
    <3> QED  BY <1>5, <2>1, <3>3, <3>4, <3>5 DEF Requeue, Rows
  <2>2. CASE row.status \notin {"failed", "cancelled"}
    BY <1>5, <2>2 DEF Requeue
  <2> QED  BY <2>1, <2>2
<1>6. ASSUME Claim(a) PROVE TypeOK'
  BY ZenonT(30), <1>0, <1>6 DEF Claim
<1>7. ASSUME Reread(a) PROVE TypeOK'
  <2>1. pc' \in [Actors -> {"idle", "read", "reread", "second", "last", "stale", "claimed", "sent", "lost", "ended"}]
    BY <1>7 DEF Reread, Returned, End
  <2>2. lock' \in [Processes -> Sends \cup {None}]
    BY <1>7 DEF Reread, Returned, End
  <2>3. seen' \in [Actors -> [status : {None, "pending", "dispatching"} \cup Statuses, attempt : Attempts]]
    BY <1>7 DEF Reread
  <2>4. unsure' \in BOOLEAN
    BY <1>7 DEF Reread
  <2> QED  BY <1>7, <2>1, <2>2, <2>3, <2>4 DEF Reread
<1>8. ASSUME SecondClaim(a) PROVE TypeOK'
  BY <1>0, <1>8 DEF SecondClaim
<1>9. ASSUME Reclaim(a) PROVE TypeOK'
  <2>1. row' \in Rows
    BY <1>9, StaleType DEF Reclaim, Rows
  <2>2. pc' \in [Actors -> {"idle", "read", "reread", "second", "last", "stale", "claimed",
                            "sent", "lost", "ended"}]
    BY <1>9 DEF Reclaim, End
  <2>3. lock' \in [Processes -> Sends \cup {None}]
    BY <1>9 DEF Reclaim, End
  <2> QED  BY <1>9, <2>1, <2>2, <2>3 DEF Reclaim, Rows
<1>10. ASSUME Unprepared(a) PROVE TypeOK'
  BY <1>0, <1>10, MovedType DEF Rows, Unprepared, End, Statuses
<1>11. ASSUME Accepted(a) PROVE TypeOK'
  BY <1>0, <1>11, DeliveryAssumption DEF Accepted, End, Trouble
<1>12. ASSUME Refused(a) PROVE TypeOK'
  BY <1>0, <1>12, MovedType, DeliveryAssumption DEF Rows, Refused, End, Trouble, Statuses
<1>13. ASSUME NotFound(a) PROVE TypeOK'
  BY <1>0, <1>13 DEF NotFound
<1>14. ASSUME NEW b \in BOOLEAN, Transmit(a, b) PROVE TypeOK'
  BY <1>0, <1>14 DEF Transmit
<1> QED  BY <1>1, <1>2, <1>3, <1>4, <1>5, <1>6, <1>7, <1>8, <1>9, <1>10, <1>11, <1>12, <1>13, <1>14 DEF Act

\* So do the clock, crashes and the runtime.
LEMMA OtherType ==
    ASSUME TypeOK, GrowStale \/ Runtime \/ (\E ack \in acks : Acknowledge(ack[1], ack[2]))
                   \/ (\E p \in Processes : Crash(p)) \/ UNCHANGED vars
    PROVE  TypeOK'
<1> USE DEF TypeOK, runtime, bounds
<1>1. ASSUME GrowStale PROVE TypeOK'
  <2>1. trouble' \in 0 .. MaxTrouble
    BY <1>1, DeliveryAssumption DEF GrowStale, Trouble
  <2>2. row' \in Rows
    BY <1>1, StaleType DEF GrowStale, Rows
  <2> QED  BY <1>1, <2>1, <2>2 DEF GrowStale, Rows
<1>2. ASSUME NEW k \in net, Receive(k) PROVE TypeOK'
  BY <1>2 DEF Receive, Statuses
<1>3. ASSUME NEW k \in Attempts, NEW s \in Statuses, Proceed(k, s) PROVE TypeOK'
  BY <1>3 DEF Proceed
<1>4. ASSUME NEW ack \in acks, Acknowledge(ack[1], ack[2]) PROVE TypeOK'
  BY <1>4, MovedType DEF Rows, Acknowledge
<1>5. ASSUME NEW p \in Processes, Crash(p) PROVE TypeOK'
  BY <1>5, DeliveryAssumption DEF Crash, Trouble
<1>6. CASE UNCHANGED vars
  BY <1>6 DEF vars
<1> QED  BY <1>1, <1>2, <1>3, <1>4, <1>5, <1>6 DEF Runtime

-----------------------------------------------------------------------------
(* The row tells the truth *)

\* No actor writes what only the runtime can know.
LEMMA ActRow ==
    ASSUME TypeOK, NEW a \in Actors, Act(a)
    PROVE  /\ UNCHANGED <<turn, acks>>
           /\ \/ row'.status = row.status /\ row'.attempt = row.attempt
              \/ row'.status \in {"pending", "dispatching", "failed", "cancelled"}
<1> USE DEF TypeOK, runtime
<1>1. ASSUME BeginSend(a) \/ CreatorDispatched(a) \/ Recover(a)
             \/ (\E b \in BOOLEAN : CreatorFailed(a, b)) \/ Requeue(a) \/ Claim(a)
             \/ SecondClaim(a)
      PROVE  /\ UNCHANGED <<turn, acks>>
             /\ \/ row' = row
                \/ row'.status \in {"pending", "dispatching", "failed", "cancelled"}
  BY <1>1 DEF BeginSend, CreatorDispatched, Recover, CreatorFailed, Requeue, Claim, SecondClaim
<1>2. ASSUME Reread(a) \/ Accepted(a) \/ NotFound(a) \/ (\E b \in BOOLEAN : Transmit(a, b))
      PROVE  UNCHANGED <<row, turn, acks>>
  BY <1>2 DEF Reread, Accepted, NotFound, Transmit
<1>3. ASSUME Reclaim(a)
      PROVE  UNCHANGED <<turn, acks>> /\ row'.status = row.status /\ row'.attempt = row.attempt
  BY <1>3 DEF Reclaim
<1>4. ASSUME Unprepared(a) \/ Refused(a)
      PROVE  UNCHANGED <<turn, acks>> /\ (row' = row \/ row'.status = "failed")
  BY <1>4 DEF Unprepared, Refused, Moved
<1> QED  BY <1>1, <1>2, <1>3, <1>4 DEF Act

LEMMA ActRowInv ==
    ASSUME RowInv, NEW a \in Actors, Act(a)
    PROVE  RowInv'
<1>1. TypeOK /\ TypeOK'
  BY ActType DEF RowInv
<1>2. RowTold'
  BY <1>1, ActRow DEF RowInv, RowTold
<1>3. AcksTell'
  BY <1>1, ActRow DEF RowInv, AcksTell
<1> QED  BY <1>1, <1>2, <1>3 DEF RowInv

\* A turn only goes on, and its acknowledgements go with it.
LEMMA RuntimeRowInv ==
    ASSUME RowInv, Runtime
    PROVE  RowInv'
<1>0. TypeOK /\ TypeOK' /\ RowTold /\ AcksTell
  BY OtherType DEF RowInv
<1> USE DEF TypeOK
<1>1. ASSUME NEW k \in net, Receive(k) PROVE RowTold' /\ AcksTell'
  <2>1. RowTold'
    BY <1>0, <1>1, DeliveryAssumption DEF Receive, RowTold, Statuses
  <2>2. AcksTell'
    <3>1. CASE turn[k] = None
      <4>1. turn' = [turn EXCEPT ![k] = "received"] /\ acks' = acks \cup {<<k, "received">>}
        BY <1>1, <3>1 DEF Receive
      <4>2. \A t \in Statuses : <<k, t>> \notin acks
        BY <1>0, <3>1 DEF AcksTell
      <4> QED  BY ZenonT(30), <1>0, <4>1, <4>2, DeliveryAssumption DEF AcksTell, Statuses
    <3>2. CASE turn[k] # None
      BY <1>0, <1>1, <3>2 DEF Receive, AcksTell
    <3> QED  BY <3>1, <3>2
  <2> QED  BY <2>1, <2>2
<1>2. ASSUME NEW k \in Attempts, NEW s \in Statuses, Proceed(k, s)
      PROVE  RowTold' /\ AcksTell'
  <2>1. RowTold'
    BY <1>0, <1>2, DeliveryAssumption DEF Proceed, RowTold, Statuses
  <2>2. AcksTell'
    BY ZenonT(30), <1>0, <1>2, DeliveryAssumption DEF Proceed, AcksTell, Statuses
  <2> QED  BY <2>1, <2>2
<1> QED  BY <1>0, <1>1, <1>2 DEF Runtime, RowInv

\* An acknowledgement of another attempt, or one that comes too late, is dropped.
LEMMA AcknowledgeRowInv ==
    ASSUME RowInv, NEW ack \in acks, Acknowledge(ack[1], ack[2])
    PROVE  RowInv'
<1>0. TypeOK /\ TypeOK' /\ RowTold /\ AcksTell
  BY OtherType DEF RowInv
<1>1. PICK k \in Attempts, s \in Statuses : ack = <<k, s>>
  BY <1>0 DEF TypeOK
<1>2. RowTold'
  BY <1>0, <1>1 DEF Acknowledge, Moved, RowTold, AcksTell, TypeOK, runtime
<1>3. AcksTell'
  BY <1>0 DEF Acknowledge, AcksTell, runtime
<1> QED  BY <1>0, <1>2, <1>3 DEF RowInv

LEMMA InitRowInv == Init => RowInv
<1> SUFFICES ASSUME Init PROVE RowTold /\ AcksTell
  BY InitType DEF RowInv
<1> QED  BY DeliveryAssumption DEF Init, RowTold, AcksTell

LEMMA StepRowInv ==
    ASSUME RowInv, [Next]_vars
    PROVE  RowInv'
<1>1. ASSUME GrowStale \/ (\E p \in Processes : Crash(p)) \/ UNCHANGED vars PROVE RowInv'
  <2>1. TypeOK'
    BY <1>1, OtherType DEF RowInv
  <2>2. row'.status = row.status /\ row'.attempt = row.attempt /\ UNCHANGED <<turn, acks>>
    BY <1>1 DEF GrowStale, Crash, vars, runtime, RowInv, TypeOK
  <2> QED  BY <2>1, <2>2 DEF RowInv, RowTold, AcksTell
<1> QED  BY <1>1, ActRowInv, RuntimeRowInv, AcknowledgeRowInv DEF Next

LEMMA StepOwnText == ASSUME OwnText, [Next]_vars PROVE OwnText'
<1>1. ASSUME NEW a \in Actors, Act(a) PROVE UNCHANGED content /\ (foreign' # foreign => content = "other")
  BY <1>1 DEF Act, BeginSend, CreatorDispatched, Recover, CreatorFailed, Requeue, Claim, Reread,
              SecondClaim, Reclaim, Unprepared, Accepted, Refused, NotFound, Transmit, runtime, bounds
<1>2. ASSUME ~\E a \in Actors : Act(a) PROVE UNCHANGED <<content, foreign>>
  BY <1>2 DEF Next, GrowStale, Runtime, Receive, Proceed, Acknowledge, Crash, vars, runtime, bounds
<1> QED  BY <1>1, <1>2 DEF OwnText

\* In every state, the types are kept and the row of the message says
\* nothing of its attempt that the runtime has not done, with the text of the
\* message unless a recovery worker has sent that of its task (RowExact,
\* _transition_message_status, _deliver_pending_first_turn), for any number of senders, processes, attempts,
\* crashes and lost, late or repeated reports.
THEOREM RowTruth == Spec => []RowExact
<1>1. Init => RowInv
  BY InitRowInv
<1>2. RowInv /\ [Next]_vars => RowInv'
  BY StepRowInv
<1>3. RowInv /\ OwnText => RowExact
  BY DEF RowInv, RowTold, OwnText, RowExact, RowTellsTurn
<1>4. Init => OwnText
  BY DEF Init, OwnText
<1>5. OwnText /\ [Next]_vars => OwnText'
  BY StepOwnText
<1> QED  BY <1>1, <1>2, <1>3, <1>4, <1>5, PTL DEF Spec

-----------------------------------------------------------------------------
(* The right to execute the message *)

\* An actor that may still send a frame.
Holds(a) == pc[a] \in {"claimed", "lost"}

\* Frames that will begin a turn, and turns at work.
Flying == {k \in net : turn[k] = None}
Active == {k \in Attempts : turn[k] \in {"received", "running"}}

\* Nothing is known of an attempt that is only queued, or not even that.
Fresh ==
    \A k \in Attempts : k \in net \/ turn[k] # None =>
        k <= row.attempt /\ (row.status \in {None, "pending"} => k < row.attempt)

\* Attempts only grow.
SeenBefore == \A a \in Actors : seen[a].attempt <= row.attempt

\* While a frame may still be sent or arrive, the row is dispatching and
\* nothing has been heard of its attempt.
Dispatched ==
    (Flying # {} \/ \E a \in Actors : Holds(a)) =>
        row.status = "dispatching" /\ turn[row.attempt] = None

\* The right is with one actor, one frame or one turn.
OneHolder ==
    /\ \A a, b \in Actors : Holds(a) /\ Holds(b) => a = b
    /\ \A a \in Actors : Holds(a) => Flying \cup Active = {}
    /\ \A j, k \in Flying \cup Active : j = k

\* A turn at work keeps the row from being queued again.
ActiveKnown ==
    \A k \in Active :
        /\ row.status \in {"dispatching", "received", "running"}
        /\ k # row.attempt => row.status = "dispatching" /\ turn[row.attempt] = None

Right ==
    /\ ~row.stale /\ Fresh /\ SeenBefore
    /\ Dispatched /\ OneHolder /\ ActiveKnown

TurnInv == RowInv /\ (~unsure => Right)

\* Without a delivery in progress nobody has the right.
LEMMA NobodyHolds ==
    ASSUME Right, row.status \notin {"dispatching", "received", "running"}
    PROVE  Flying = {} /\ Active = {} /\ \A a \in Actors : ~Holds(a)
BY DEF Right, Dispatched, ActiveKnown

\* A step that leaves row, frames and turns alone and gives nobody the right.
LEMMA QuietStep ==
    ASSUME Right,
           row'.status = row.status, row'.attempt = row.attempt, row'.stale = row.stale,
           UNCHANGED <<net, turn>>,
           \A a \in Actors : Holds(a)' => Holds(a),
           \A a \in Actors : seen'[a].attempt <= row.attempt
    PROVE  Right'
<1>1. Flying' = Flying /\ Active' = Active
  BY DEF Flying, Active
<1>2. Fresh' /\ SeenBefore'
  BY DEF Right, Fresh, SeenBefore
<1>3. Dispatched'
  BY <1>1 DEF Right, Dispatched
<1>4. OneHolder'
  BY <1>1 DEF Right, OneHolder
<1>5. ActiveKnown'
  BY <1>1 DEF Right, ActiveKnown
<1> QED  BY <1>2, <1>3, <1>4, <1>5 DEF Right

\* A step after which nobody has the right.
LEMMA EmptyStep ==
    ASSUME Flying' = {}, Active' = {}, \A a \in Actors : ~Holds(a)',
           ~row'.stale, Fresh', SeenBefore'
    PROVE  Right'
BY DEF Right, Dispatched, OneHolder, ActiveKnown

-----------------------------------------------------------------------------
(* The row is created, queued again and claimed *)

LEMMA QueueRight ==
    ASSUME RowInv, Right, NEW a \in Actors, ~unsure',
           BeginSend(a) \/ (\E b \in BOOLEAN : CreatorFailed(a, b)) \/ Requeue(a)
    PROVE  Right'
<1> USE DEF Go, Sees, runtime, bounds
<1>0. TypeOK /\ TypeOK'
  BY ActType DEF RowInv, Act
<1>1. CASE row' = row
  <2>1. UNCHANGED <<net, turn>>
    BY DEF BeginSend, CreatorFailed, Requeue
  <2>2. \A b \in Actors : Holds(b)' => Holds(b)
    BY <1>0 DEF BeginSend, CreatorFailed, Requeue, End, Holds, TypeOK
  <2>3. \A b \in Actors : seen'[b].attempt <= row.attempt
    <3>1. \A b \in Actors : seen[b].attempt <= row.attempt
      BY DEF Right, SeenBefore
    <3>2. seen' = seen \/ seen' = [seen EXCEPT ![a] = [status |-> row.status, attempt |-> row.attempt]]
      BY <1>1 DEF BeginSend, CreatorFailed, Requeue
    <3>3. row.attempt <= row.attempt
      BY <1>0, DeliveryAssumption DEF TypeOK, Attempts
    <3> QED  BY <1>0, <3>1, <3>2, <3>3 DEF TypeOK
  <2> QED  BY <1>1, <2>1, <2>2, <2>3, QuietStep
<1>2. CASE row' # row
  <2>1. row.status \notin {"dispatching", "received", "running"}
    BY <1>2, DeliveryAssumption DEF BeginSend, CreatorFailed, Requeue
  <2>2. UNCHANGED <<net, turn>> /\ row'.stale = row.stale
    <3>1. UNCHANGED <<net, turn>>
      BY DEF BeginSend, CreatorFailed, Requeue, runtime
    <3>2. \/ row' = row
          \/ \E st : row' = [row EXCEPT !.status = st]
          \/ \E st, n : row' = [row EXCEPT !.status = st, !.attempt = n]
      BY DEF BeginSend, CreatorFailed, Requeue
    <3> QED  BY <1>0, <3>1, <3>2 DEF TypeOK
  <2>3. /\ row'.attempt \in {row.attempt, row.attempt + 1}
        /\ row'.attempt = row.attempt => row.status \in {None, "pending"}
    <3>1. ASSUME Requeue(a) PROVE row'.attempt = row.attempt + 1
      BY ZenonT(30), <1>0, <1>2, <3>1 DEF Requeue, TypeOK
    <3>2. row.attempt + 1 # row.attempt
      BY <1>0, DeliveryAssumption DEF TypeOK, Attempts
    <3>3. ASSUME BeginSend(a) \/ (\E b \in BOOLEAN : CreatorFailed(a, b))
          PROVE  row'.attempt = row.attempt /\ row.status \in {None, "pending"}
      BY <1>0, <1>2, <3>3 DEF BeginSend, CreatorFailed, TypeOK
    <3> QED  BY <3>1, <3>2, <3>3
  <2>4. \A b \in Actors : ~Holds(b)'
    BY <1>0, <2>1, NobodyHolds DEF BeginSend, CreatorFailed, Requeue, End, Holds, TypeOK
  <2>5. Fresh'
    BY <1>0, <2>2, <2>3, DeliveryAssumption DEF Fresh, Right, TypeOK, Attempts
  <2>6. SeenBefore'
    <3>1. \A b \in Actors : seen[b].attempt <= row'.attempt
      BY <1>0, <2>3, DeliveryAssumption DEF Right, SeenBefore, TypeOK, Attempts
    <3>2. seen' = seen \/ seen' = [seen EXCEPT ![a] = [status |-> row'.status, attempt |-> row'.attempt]]
      BY <1>2 DEF BeginSend, CreatorFailed, Requeue
    <3>3. row'.attempt <= row'.attempt
      BY <1>0, DeliveryAssumption DEF TypeOK, Attempts
    <3> QED  BY <1>0, <3>1, <3>2, <3>3 DEF TypeOK, SeenBefore
  <2>7. Flying' = {} /\ Active' = {}
    BY <2>1, <2>2, NobodyHolds DEF Flying, Active
  <2> QED  BY <2>2, <2>4, <2>5, <2>6, <2>7, EmptyStep DEF Right
<1> QED  BY <1>1, <1>2

LEMMA ClaimRight ==
    ASSUME RowInv, Right, NEW a \in Actors, Claim(a) \/ SecondClaim(a)
    PROVE  Right'
<1> USE DEF Go, runtime, bounds
<1>0. TypeOK
  BY DEF RowInv
<1>1. CASE row.status = "pending"
  <2>1. /\ pc' = [pc EXCEPT ![a] = "claimed"] /\ UNCHANGED <<net, turn, seen>>
        /\ row' = [row EXCEPT !.status = "dispatching", !.stale = FALSE]
    BY <1>1 DEF Claim, SecondClaim
  <2>2. row'.status = "dispatching" /\ row'.attempt = row.attempt /\ row'.stale = FALSE
    BY <1>0, <2>1 DEF TypeOK
  <2>3. Flying' = {} /\ Active' = {} /\ \A b \in Actors : ~Holds(b)
    BY <1>1, <2>1, NobodyHolds DEF Flying, Active
  <2>4. turn[row.attempt] = None
    BY <1>0, <1>1, DeliveryAssumption DEF Right, Fresh, TypeOK, Attempts
  <2>5. \A b \in Actors : Holds(b)' => b = a
    BY <1>0, <2>1, <2>3 DEF Holds, TypeOK
  <2>6. Fresh' /\ SeenBefore'
    BY <2>1, <2>2, DeliveryAssumption DEF Right, Fresh, SeenBefore
  <2> QED  BY <2>1, <2>2, <2>3, <2>4, <2>5, <2>6 DEF Right, Dispatched, OneHolder, ActiveKnown
<1>2. CASE row.status # "pending"
  <2>1. UNCHANGED <<row, net, turn, seen>> /\ \A b \in Actors : Holds(b)' => Holds(b)
    BY <1>0, <1>2 DEF Claim, SecondClaim, Holds, TypeOK
  <2> QED  BY <2>1, QuietStep DEF Right, SeenBefore
<1> QED  BY <1>1, <1>2

\* The actor reads the row, or ends, or dispatches another session.
LEMMA ReadRight ==
    ASSUME RowInv, Right, NEW a \in Actors, ~unsure',
           CreatorDispatched(a) \/ Recover(a) \/ Reread(a) \/ Reclaim(a) \/ Accepted(a)
           \/ NotFound(a)
    PROVE  Right'
<1> USE DEF Go, Sees, runtime, bounds
<1>0. TypeOK /\ ~row.stale
  BY DEF RowInv, Right
<1>1. UNCHANGED <<row, net, turn>>
  BY <1>0 DEF CreatorDispatched, Recover, Reread, Reclaim, Accepted, NotFound
<1>2. \A b \in Actors : Holds(b)' => Holds(b)
  <2>1. ASSUME CreatorDispatched(a) \/ Recover(a) \/ Reclaim(a) \/ Accepted(a) \/ NotFound(a)
        PROVE  \A b \in Actors : Holds(b)' => Holds(b)
    BY <1>0, <2>1 DEF CreatorDispatched, Recover, Reclaim, Accepted, NotFound, End, Holds, TypeOK
  <2>2. ASSUME Reread(a) PROVE \A b \in Actors : Holds(b)' => Holds(b)
    <3>1. pc'[a] # "claimed"
      BY <2>2 DEF Reread
    <3>2. \E p \in {"second", "stale", "claimed", "idle", "ended"} : pc' = [pc EXCEPT ![a] = p]
      BY <2>2 DEF Reread, Returned, End
    <3> QED  BY <1>0, <3>1, <3>2 DEF Holds, TypeOK
  <2> QED  BY <2>1, <2>2
<1>3. \A b \in Actors : seen'[b].attempt <= row.attempt
  <2>1. seen' = seen \/ seen' = [seen EXCEPT ![a] = [status |-> row.status, attempt |-> row.attempt]]
    BY DEF CreatorDispatched, Recover, Reread, Reclaim, Accepted, NotFound
  <2>2. row.attempt <= row.attempt
    BY <1>0, DeliveryAssumption DEF TypeOK, Attempts
  <2> QED  BY <1>0, <2>1, <2>2 DEF Right, SeenBefore, TypeOK
<1> QED  BY <1>1, <1>2, <1>3, QuietStep

-----------------------------------------------------------------------------
(* The frame *)

\* An actor gives up; only with an answer it did not wait for is that unsafe.
LEMMA GiveUpRight ==
    ASSUME RowInv, Right, NEW a \in Actors, ~unsure', Unprepared(a) \/ Refused(a)
    PROVE  Right'
<1> USE DEF Go, runtime, bounds
<1>0. TypeOK
  BY DEF RowInv
<1>1. Holds(a) /\ UNCHANGED <<net, turn, seen>>
  BY DEF Unprepared, Refused, Holds
<1>2. \A b \in Actors : ~Holds(b)'
  <2>1. \A b \in Actors : b # a => ~Holds(b)
    BY <1>1 DEF Right, OneHolder
  <2>2. \E p \in {"idle", "ended"} : pc' = [pc EXCEPT ![a] = p]
    BY DEF Unprepared, Refused, End
  <2> QED  BY <1>0, <2>1, <2>2 DEF Holds, TypeOK
<1>3. Flying' = {} /\ Active' = {}
  BY <1>1 DEF Right, OneHolder, Flying, Active
<1>4. row'.attempt = row.attempt /\ row'.stale = row.stale /\ row'.status \in {row.status, "failed"}
  BY <1>0 DEF Unprepared, Refused, Moved, TypeOK
<1>5. Fresh' /\ SeenBefore'
  BY <1>1, <1>4, DeliveryAssumption DEF Right, Fresh, SeenBefore
<1> QED  BY <1>2, <1>3, <1>4, <1>5, EmptyStep DEF Right

\* The right goes from the actor to its frame, or stays.
LEMMA TransmitRight ==
    ASSUME RowInv, Right, NEW a \in Actors, NEW b \in BOOLEAN, Transmit(a, b)
    PROVE  Right'
<1> USE DEF Go, runtime, bounds
<1>0. TypeOK /\ seen[a].attempt \in Attempts /\ row.attempt \in Attempts
  BY DEF RowInv, TypeOK
<1>1. Holds(a) /\ UNCHANGED <<row, turn, seen>>
  BY DEF Transmit, Holds
<1>2. CASE ~b
  <2>1. UNCHANGED net /\ \A c \in Actors : Holds(c)' => Holds(c)
    BY <1>0, <1>1, <1>2 DEF Transmit, Holds, TypeOK
  <2> QED  BY <1>1, <2>1, QuietStep DEF Right, SeenBefore
<1>3. CASE b
  <2>1. net' = net \cup {seen[a].attempt} /\ pc' = [pc EXCEPT ![a] = "sent"]
    BY <1>3 DEF Transmit
  <2>2. \A c \in Actors : ~Holds(c)'
    BY <1>0, <1>1, <2>1 DEF Right, OneHolder, Holds, TypeOK
  <2>3. Flying' \subseteq {seen[a].attempt} /\ Active' = {}
    BY <1>1, <2>1 DEF Right, OneHolder, Flying, Active
  <2>4. row.status = "dispatching" /\ turn[row.attempt] = None
    BY <1>1 DEF Right, Dispatched
  <2>5. Fresh' /\ SeenBefore'
    BY <1>0, <1>1, <2>1, <2>4, DeliveryAssumption DEF Right, Fresh, SeenBefore
  <2> QED  BY <1>1, <2>2, <2>3, <2>4, <2>5 DEF Right, Dispatched, OneHolder, ActiveKnown
<1> QED  BY <1>2, <1>3

\* The right goes from the frame to the turn it begins.
LEMMA ReceiveRight ==
    ASSUME RowInv, Right, NEW k \in net, Receive(k)
    PROVE  Right'
<1>0. TypeOK /\ k \in Attempts /\ UNCHANGED <<row, pc, seen>> /\ net' = net \ {k}
  BY DEF RowInv, TypeOK, Receive
<1>1. \A a \in Actors : Holds(a)' = Holds(a)
  BY <1>0 DEF Holds
<1>2. CASE turn[k] # None
  <2>1. turn' = turn /\ Flying' = Flying /\ Active' = Active
    BY <1>0, <1>2 DEF Receive, Flying, Active
  <2>2. Fresh' /\ SeenBefore'
    BY <1>0, <2>1 DEF Right, Fresh, SeenBefore
  <2> QED  BY <1>0, <1>1, <2>1, <2>2 DEF Right, Dispatched, OneHolder, ActiveKnown
<1>3. CASE turn[k] = None
  <2>1. turn' = [turn EXCEPT ![k] = "received"] /\ k \in Flying
    BY <1>0, <1>3 DEF Receive, Flying
  <2>2. \A a \in Actors : ~Holds(a)
    BY <2>1 DEF Right, OneHolder
  <2>3. Flying' = {} /\ Active' = {k}
    BY <1>0, <2>1, DeliveryAssumption DEF Right, OneHolder, Flying, Active, TypeOK
  <2>4. row.status = "dispatching" /\ turn[row.attempt] = None
    BY <2>1 DEF Right, Dispatched
  <2>5. Fresh' /\ SeenBefore'
    BY <1>0, <2>1, DeliveryAssumption DEF Right, Fresh, SeenBefore, TypeOK
  <2> QED  BY <1>0, <1>1, <2>1, <2>2, <2>3, <2>4, <2>5
           DEF Right, Dispatched, OneHolder, ActiveKnown, TypeOK
<1> QED  BY <1>2, <1>3

LEMMA ProceedRight ==
    ASSUME RowInv, Right, NEW k \in Attempts, NEW s \in Statuses, Proceed(k, s)
    PROVE  Right'
<1>0. /\ TypeOK /\ UNCHANGED <<row, pc, seen, net>> /\ turn' = [turn EXCEPT ![k] = s]
      /\ turn[k] # None /\ s # None
      /\ s \in {"received", "running"} => turn[k] \in {"received", "running"}
  BY DeliveryAssumption DEF RowInv, Proceed, Statuses
<1>1. \A a \in Actors : Holds(a)' = Holds(a)
  BY <1>0 DEF Holds
<1>2. Flying' = Flying /\ Active' \subseteq Active
  BY <1>0 DEF Flying, Active, TypeOK
<1>3. Fresh' /\ SeenBefore'
  BY <1>0 DEF Right, Fresh, SeenBefore, TypeOK
<1>4. turn[row.attempt] = None => turn'[row.attempt] = None
  BY <1>0 DEF TypeOK
<1>5. Dispatched'
  BY <1>0, <1>1, <1>2, <1>4 DEF Right, Dispatched
<1>6. OneHolder'
  BY <1>1, <1>2 DEF Right, OneHolder
<1>7. ActiveKnown'
  BY <1>0, <1>2, <1>4 DEF Right, ActiveKnown
<1> QED  BY <1>0, <1>3, <1>5, <1>6, <1>7 DEF Right

\* A report moves the row only when nobody may send the attempt any more.
LEMMA AcknowledgeRight ==
    ASSUME RowInv, Right, NEW ack \in acks, Acknowledge(ack[1], ack[2])
    PROVE  Right'
<1>0. TypeOK /\ AcksTell /\ UNCHANGED <<pc, seen, net, turn>>
  BY DEF RowInv, Acknowledge, runtime
<1>1. PICK k \in Attempts, s \in Statuses : ack = <<k, s>>
  BY <1>0 DEF TypeOK
<1>2. row' = Moved(s, k)
  BY <1>1 DEF Acknowledge
<1>3. CASE row' = row
  <2>1. \A a \in Actors : Holds(a)' => Holds(a)
    BY <1>0 DEF Holds
  <2> QED  BY <1>0, <1>3, <2>1, QuietStep DEF Right, SeenBefore
<1>4. CASE row' # row
  <2>1. row.attempt = k /\ <<row.status, s>> \in Transitions /\ row' = [row EXCEPT !.status = s]
    BY <1>2, <1>4 DEF Moved
  <2>2. row'.status = s /\ row'.attempt = row.attempt /\ row'.stale = row.stale
    BY <1>0, <2>1 DEF TypeOK
  <2>3. /\ turn[k] # None
        /\ s \in {"completed", "failed", "cancelled"} => turn[k] \notin {"received", "running"}
    BY <1>0, <1>1 DEF AcksTell
  <2>4. Flying = {} /\ \A a \in Actors : ~Holds(a)
    BY <2>1, <2>3 DEF Right, Dispatched
  <2>5. Flying' = {} /\ Active' = Active /\ \A a \in Actors : ~Holds(a)'
    BY <1>0, <2>4 DEF Flying, Active, Holds
  <2>6. Fresh' /\ SeenBefore'
    BY <1>0, <2>2, DeliveryAssumption DEF Right, Fresh, SeenBefore, Statuses
  <2>7. ActiveKnown'
    <3> SUFFICES ASSUME NEW j \in Active
                 PROVE  j = row.attempt /\ s \in {"received", "running"}
      BY <2>2, <2>5 DEF ActiveKnown
    <3>1. j = k
      BY <2>1, <2>3 DEF Right, ActiveKnown
    <3> QED  BY <1>1, <2>1, <2>3, <3>1 DEF Active, Statuses
  <2> QED  BY <2>2, <2>4, <2>5, <2>6, <2>7 DEF Right, Dispatched, OneHolder
<1> QED  BY <1>3, <1>4

-----------------------------------------------------------------------------

LEMMA StepTurnInv ==
    ASSUME TurnInv, [Next]_vars
    PROVE  TurnInv'
<1>0. RowInv /\ RowInv' /\ TypeOK
  BY StepRowInv DEF TurnInv, RowInv
<1>1. unsure => unsure'
  <2>1. ASSUME NEW a \in Actors, Act(a) PROVE unsure => unsure'
    BY <2>1 DEF Act, BeginSend, CreatorDispatched, Recover, CreatorFailed, Requeue, Claim, Reread,
                SecondClaim, Reclaim, Unprepared, Accepted, Refused, NotFound, Transmit, bounds
  <2> QED  BY <2>1 DEF Next, GrowStale, Runtime, Receive, Proceed, Acknowledge, Crash, vars, bounds
<1> SUFFICES ASSUME ~unsure' PROVE Right'
  BY <1>0 DEF TurnInv
<1>2. Right
  BY <1>1 DEF TurnInv
<1>3. ASSUME NEW a \in Actors, Act(a) PROVE Right'
  BY <1>0, <1>2, <1>3, QueueRight, ClaimRight, ReadRight, GiveUpRight, TransmitRight DEF Act
<1>4. ASSUME Runtime PROVE Right'
  BY <1>0, <1>2, <1>4, ReceiveRight, ProceedRight DEF Runtime
<1>5. ASSUME NEW ack \in acks, Acknowledge(ack[1], ack[2]) PROVE Right'
  BY <1>0, <1>2, <1>5, AcknowledgeRight
<1>6. ASSUME (\E p \in Processes : Crash(p)) \/ UNCHANGED vars PROVE Right'
  <2>1. UNCHANGED <<row, seen, net, turn>>
    BY <1>6 DEF Crash, vars, runtime
  <2>2. \A a \in Actors : Holds(a)' => Holds(a)
    <3>1. \A a \in Actors : pc'[a] = pc[a] \/ pc'[a] \in {"idle", "ended"}
      <4>1. CASE \E p \in Processes : Crash(p)
        BY <4>1 DEF Crash
      <4>2. CASE UNCHANGED vars
        BY <4>2 DEF vars
      <4> QED  BY <1>6, <4>1, <4>2
    <3> QED  BY <2>1, <3>1 DEF Holds
  <2> QED  BY <1>2, <2>1, <2>2, QuietStep DEF Right, SeenBefore
<1>7. ~GrowStale
  BY DEF GrowStale
<1> QED  BY <1>3, <1>4, <1>5, <1>6, <1>7 DEF Next

\* The runtime never works on two attempts of a message at a time
\* (OneTurn, send_task_message and _claim_message_for_dispatch), for any number
\* of senders, processes and attempts, unless one of the four named things has
\* happened: a frame was given up that arrives, a claim grew stale, an attempt
\* was given out twice, or a request delivered without a claim.
THEOREM OneTurnAtATime == Spec => []OneTurn
<1>1. Init => TurnInv
  <2> SUFFICES ASSUME Init PROVE RowInv /\ Right
    BY DEF TurnInv
  <2>1. TypeOK /\ RowInv
    BY InitType, InitRowInv
  <2>2. /\ net = {} /\ turn = [k \in Attempts |-> None] /\ row.attempt = 1 /\ ~row.stale
        /\ \A a \in Actors : pc[a] \in {"idle", "ended"} /\ seen[a].attempt = 1
    <3>1. PICK crew \in Crews \cup CalmCrews :
            /\ pc = [a \in Actors |-> IF a \in crew THEN "idle" ELSE "ended"]
            /\ row = [status |-> IF crew \cap Creators = {} THEN None ELSE "pending",
                      attempt |-> 1, stale |-> FALSE]
      BY DEF Init
    <3> QED  BY <3>1 DEF Init
  <2> QED  BY <2>1, <2>2, DeliveryAssumption
           DEF Right, Fresh, SeenBefore, Dispatched, OneHolder, ActiveKnown, Flying, Active, Holds
<1>2. TurnInv /\ [Next]_vars => TurnInv'
  BY StepTurnInv
<1>3. TurnInv => OneTurn
  BY DEF TurnInv, Right, OneHolder, Active, OneTurn
<1> QED  BY <1>1, <1>2, <1>3, PTL DEF Spec
=============================================================================
