------------------------- MODULE RequestProofs -------------------------
(***************************************************************************)
(* The retry loop of one request, for every number of groups, accounts,    *)
(* attempts, cancellations and changes of the catalogue:                   *)
(*                                                                         *)
(*   KeptApart     the candidates of the request are kept apart            *)
(*   EndsClean     what an ended request leaves behind, and when more      *)
(*   NeverReplays  nothing is sent upstream after output has gone out      *)
(*                                                                         *)
(* ChatInv says, place by place, what the handle of the reservation, the   *)
(* log row and the answer of the last candidate are, and how many turns    *)
(* and upstream requests have been used.                                   *)
(*                                                                         *)
(* And the requests that choose accounts, for every number of requests,    *)
(* accounts, lists, models and failures:                                   *)
(*                                                                         *)
(*   SelectionIsExact   slots and counters are those of the holders, and a *)
(*                      selection comes to an end                          *)
(*   AccountsAreShared  nobody takes another one's mark or parameters      *)
(*                                                                         *)
(* SelectionInv locates every request in its lists; Marked and Routed      *)
(* follow a mark and the parameters from the pick to their use.            *)
(***************************************************************************)
EXTENDS MCRequest, FiniteSetTheorems, TLAPS

\* Before the candidate of a turn is called, and on the way to the next turn.
Ongoing ==
    \/ pc \in {"resolve", "fallback", "recheck", "select", "prepare", "orphan"}
    \/ pc = "finally" /\ next = "recheck"

\* While the candidate is called and until its usage is settled.
Calling == pc \in {"call", "flush", "commit", "keepError", "keepCancel"}

\* The reservation is open exactly where the loop can still close it.
PlaceInv ==
    /\ pc \in {"resolve", "fallback", "select", "orphan"} => handle = "none"
    /\ pc = "prepare" \/ Calling => handle = "open"
    /\ pc = "recheck" => handle # "settled" /\ (handle = "open" => reuse)
    /\ pc = "keyError" => handle # "settled"
    /\ pc \in Ends \ {"keyError"} => handle = "none"
    /\ pc = "finally" => next \in (Ends \ {"keyError"}) \cup {"recheck"}
    /\ pc \notin {"recheck", "keyError"} => ~reuse
    /\ handle # "none" => cand > 0 /\ limit = InnerLimit /\ account \in Accounts
    /\ cut # {} => pc = "cancelled" \/ (pc = "finally" /\ next = "cancelled")

\* What the handle stands for, and candidates that do not exist yet.
HandleInv ==
    \A n \in Candidates :
        /\ slot[n] = "held" => n = cand /\ (handle # "none" \/ n \in cut)
        /\ ledger[n] = "open" => n = cand /\ (handle = "open" \/ n \in cut)
        /\ n = cand /\ handle # "none" => slot[n] = "held"
        /\ n = cand /\ handle = "open" => ledger[n] = "open"
        /\ n > cand => /\ finals[n] = <<>> /\ n \notin started /\ n \notin penalised
                       /\ ledger[n] = "none"

\* Who has answered the client: only the last candidate, and then for good.
AnswerInv ==
    /\ answered \subseteq {cand}
    /\ Ongoing => answered = {} /\ ~sent
    /\ Calling => (cand \in answered <=> sent)
    /\ pc \in {"flush", "keepError", "keepCancel"} => sent
    /\ \A n \in Candidates : ledger[n] = "kept" => n \in answered
    /\ \A n \in answered : n \in cut \/ ledger[n] = "kept" \/ Calling

\* The last candidate is given up: its row is final, unless that was cut short.
Over ==
    \/ pc \in {"resolve", "fallback", "recheck", "select", "orphan"} /\ handle = "none"
    \/ pc = "finally" /\ cand \notin cut
    \/ pc \in Ends \ {"keyError"} /\ cand \notin cut

\* The rows of the request log.
LogInv ==
    /\ \A n \in Candidates : finals[n] = <<>> \/ \E s \in {"ok", "error", "cancelled"} : finals[n] = <<s>>
    /\ \A n \in started : n < cand => finals[n] # <<>>
    /\ handle = "open" /\ pc \in {"recheck", "keyError", "prepare", "call", "flush", "keepError"} =>
          finals[cand] = <<>>
    /\ handle = "open" /\ pc \in {"recheck", "keyError", "prepare", "call", "flush", "commit"} =>
          cand \notin penalised
    /\ pc \in {"commit", "keepCancel"} => finals[cand] # <<>>
    /\ pc \in {"commit", "keepError"} => logged
    /\ pc \in {"select", "prepare", "call", "flush", "orphan"} => ~logged
    /\ Over /\ cand \in started => finals[cand] # <<>>
    /\ \A n \in penalised : finals[n] # <<"ok">>

\* Turns that are over: all of those of the groups before, and `outer' of this one.
Turns == TotalAttempts * (Cardinality(visited) - 1) + outer

\* Between two turns.
Spent == cand <= Turns /\ calls <= InnerLimit * Turns

\* In the turn of the last candidate, with k requests of this inner_index sent.
Trying(k) ==
    /\ cand <= Turns + 1 /\ inner < InnerLimit
    /\ calls <= InnerLimit * Turns + inner + k

BudgetInv ==
    /\ outer < TotalAttempts
    /\ pc = "resolve" => /\ cand <= TotalAttempts * Cardinality(visited)
                         /\ calls <= InnerLimit * (TotalAttempts * Cardinality(visited))
    /\ pc # "resolve" => visited # {}
    /\ pc \in {"fallback", "select", "orphan"} => Spent
    /\ pc = "recheck" /\ handle = "none" => Spent
    /\ pc = "finally" /\ next = "recheck" => Spent
    /\ pc = "prepare" \/ (pc = "recheck" /\ handle = "open") => Trying(0)
    /\ pc \in {"call", "flush"} => Trying(1)
    /\ CallBudget

ChatInv == PlaceInv /\ HandleInv /\ AnswerInv /\ LogInv /\ BudgetInv

Inv == TypeOK /\ ChatInv

-----------------------------------------------------------------------------
(* Turns and requests *)

LEMMA Numbers ==
    ASSUME TypeOK
    PROVE  /\ TotalAttempts \in Nat \ {0} /\ TotalAttempts <= Attempts
           /\ InnerLimit \in Nat \ {0} /\ InnerLimit <= Inner
           /\ Attempts \in Nat /\ Inner \in Nat
           /\ Cardinality(visited) \in Nat /\ Cardinality(Groups) \in Nat
           /\ Cardinality(visited) <= Cardinality(Groups)
           /\ visited # {} => Cardinality(visited) > 0
           /\ IsFiniteSet(visited)
<1>1. IsFiniteSet(visited) /\ IsFiniteSet(Groups) /\ visited \subseteq Groups
  BY ChatAssumption, FS_Subset DEF TypeOK
<1>2. /\ Cardinality(visited) \in Nat /\ Cardinality(Groups) \in Nat
      /\ Cardinality(visited) <= Cardinality(Groups)
  BY <1>1, FS_CardinalityType, FS_Subset
<1>3. visited # {} => Cardinality(visited) > 0
  BY <1>1, <1>2, FS_EmptySet
<1> QED  BY <1>1, <1>2, <1>3, ChatAssumption DEF TotalAttempts, InnerLimit

LEMMA ProductMonotone ==
    ASSUME NEW k \in Nat, NEW a \in Nat, NEW b \in Nat, a <= b
    PROVE  k * a <= k * b /\ a * k <= b * k
<1>1. PICK d \in Nat : b = a + d
  <2>1. b - a \in Nat /\ b = a + (b - a)
    OBVIOUS
  <2> QED  BY <2>1
<1>2. k * b = k * a + k * d /\ b * k = a * k + d * k
  BY <1>1
<1>3. k * d \in Nat /\ d * k \in Nat /\ k * a \in Nat /\ a * k \in Nat
  OBVIOUS
<1> QED  BY <1>2, <1>3

\* The numbers of turns and requests are within the configured ones.
LEMMA TurnsBound ==
    ASSUME TypeOK, visited # {}, outer < TotalAttempts
    PROVE  /\ Turns \in Nat /\ Turns + 1 <= TotalAttempts * Cardinality(visited)
           /\ TotalAttempts * Cardinality(visited) <= Attempts * Cardinality(Groups)
           /\ InnerLimit * Turns \in Nat
           /\ InnerLimit * Turns + InnerLimit <= InnerLimit * (TotalAttempts * Cardinality(visited))
           /\ InnerLimit * (TotalAttempts * Cardinality(visited)) <=
                  TotalAttempts * InnerLimit * Cardinality(Groups)
<1> DEFINE T == TotalAttempts
           L == InnerLimit
           V == Cardinality(visited)
           G == Cardinality(Groups)
<1>1. /\ T \in Nat \ {0} /\ L \in Nat \ {0} /\ V \in Nat \ {0} /\ G \in Nat
      /\ T <= Attempts /\ Attempts \in Nat /\ V <= G /\ outer \in Nat /\ outer < T
      /\ Turns = T * (V - 1) + outer
  BY Numbers DEF TypeOK, Turns
<1> HIDE DEF T, L, V, G
<1>2. PICK v \in Nat : V = v + 1
  BY <1>1
<1>3. T * V = T * v + T /\ T * v \in Nat /\ T * V \in Nat
  BY <1>1, <1>2
<1>4. Turns = T * v + outer
  BY <1>1, <1>2
<1>5. Turns \in Nat /\ Turns + 1 <= T * V
  BY <1>1, <1>3, <1>4
<1>6. T * V <= T * G /\ T * G <= Attempts * G /\ T * G \in Nat /\ Attempts * G \in Nat
  BY <1>1, ProductMonotone
<1>7. L * (Turns + 1) = L * Turns + L /\ L * Turns \in Nat /\ L * (T * V) \in Nat
  BY <1>1, <1>3, <1>5
<1>8. L * (Turns + 1) <= L * (T * V) /\ L * (T * V) <= L * (T * G)
  BY <1>1, <1>3, <1>5, <1>6, ProductMonotone
<1>9. L * (T * G) = T * L * G
  BY <1>1
<1> QED  BY <1>3, <1>5, <1>6, <1>7, <1>8, <1>9 DEF T, L, V, G

-----------------------------------------------------------------------------
(* ChatInv is inductive *)

LEMMA ChatInit == Init => Inv
<1> SUFFICES ASSUME Init PROVE Inv
  OBVIOUS
<1>1. TypeOK
  <2>1. Cardinality(Groups) \in Nat /\ Attempts * Cardinality(Groups) \in Nat
    BY ChatAssumption, FS_CardinalityType
  <2>2. 0 \in 0..(Attempts * Cardinality(Groups))
    BY <2>1
  <2>3. 0 \in 0..(Attempts - 1) /\ 0 \in 0..(Inner - 1) /\ 1 \in 1..Inner
        /\ 0 \in 0..MaxUpdates /\ 0 \in 0..MaxCancels
    BY ChatAssumption
  <2>4. finals \in [Candidates -> Seq({"ok", "error", "cancelled"})]
    BY DEF Init
  <2>5. slot \in [Candidates -> {"free", "held"}] /\ ledger \in [Candidates -> {"none", "open", "kept", "undone"}]
    BY DEF Init
  <2>6. group \in Groups /\ visited \subseteq Groups /\ mode \in Modes
        /\ backup \in [Groups -> Groups \cup {NoGroup}]
    BY ChatAssumption DEF Init
  <2> QED  BY <2>2, <2>3, <2>4, <2>5, <2>6 DEF Init, TypeOK
<1>2. PlaceInv /\ AnswerInv /\ HandleInv
  BY <1>1 DEF Init, PlaceInv, AnswerInv, HandleInv, Ongoing, Calling, Ends, Candidates
<1>3. LogInv
  BY DEF Init, LogInv, Over, Ends
<1>4. BudgetInv
  <2>1. visited = {} /\ Cardinality(visited) = 0
    BY FS_EmptySet DEF Init
  <2>2. TotalAttempts * Cardinality(visited) = 0 /\ InnerLimit * 0 = 0
    BY <1>1, <2>1, Numbers
  <2>3. 0 <= TotalAttempts * InnerLimit * Cardinality(Groups)
    BY <1>1, Numbers
  <2> QED  BY <1>1, <2>1, <2>2, <2>3, Numbers DEF Init, BudgetInv, CallBudget, Ongoing
<1> QED  BY <1>1, <1>2, <1>3, <1>4 DEF Inv, ChatInv

LEMMA Types ==
    ASSUME TypeOK
    PROVE  /\ cand \in Nat /\ inner \in Nat /\ limit \in Nat /\ outer \in Nat /\ calls \in Nat
           /\ cancels \in Nat /\ Candidates \subseteq Nat \ {0}
           /\ cand > 0 => cand \in Candidates
           /\ slot \in [Candidates -> {"free", "held"}]
           /\ ledger \in [Candidates -> {"none", "open", "kept", "undone"}]
           /\ finals \in [Candidates -> Seq({"ok", "error", "cancelled"})]
<1>1. Attempts * Cardinality(Groups) \in Nat /\ Inner \in Nat /\ Attempts \in Nat /\ MaxCancels \in Nat
  BY Numbers, ChatAssumption
<1> QED  BY <1>1 DEF TypeOK, Candidates

\* The rows after _finalize_channel_attempt_log for a candidate whose row is open.
LEMMA FinalizedRows ==
    ASSUME TypeOK, NEW s \in {"ok", "error", "cancelled"}, Finalize(s),
           handle # "none" => cand > 0 /\ finals[cand] = <<>>
    PROVE  /\ finals' \in [Candidates -> Seq({"ok", "error", "cancelled"})]
           /\ \A n \in Candidates :
                finals'[n] = IF n = cand /\ handle # "none" THEN <<s>> ELSE finals[n]
<1>1. finals \in [Candidates -> Seq({"ok", "error", "cancelled"})] /\ (cand > 0 => cand \in Candidates)
  BY Types
<1>2. CASE handle = "none"
  BY <1>1, <1>2 DEF Finalize
<1>3. CASE handle # "none"
  <2>1. finals' = [finals EXCEPT ![cand] = <<s>>]
    BY <1>1, <1>3 DEF Finalize
  <2>2. <<s>> \in Seq({"ok", "error", "cancelled"})
    OBVIOUS
  <2> QED  BY <1>1, <1>3, <2>1, <2>2
<1> QED  BY <1>2, <1>3

\* Steps that leave the turn as it is, or end the loop.
LEMMA BudgetSame ==
    ASSUME TypeOK, BudgetInv, UNCHANGED <<mode, visited, outer, inner, cand, calls>>,
           pc' = "resolve" => pc = "resolve",
           pc = "resolve" => pc' = "resolve" \/ visited # {},
           pc' \in {"fallback", "select", "orphan"} => Spent,
           pc' = "recheck" /\ handle' = "none" => Spent,
           pc' = "finally" /\ next' = "recheck" => Spent,
           pc' = "prepare" \/ (pc' = "recheck" /\ handle' = "open") => Trying(0),
           pc' \in {"call", "flush"} => Trying(1)
    PROVE  BudgetInv'
<1>1. /\ Spent' <=> Spent
      /\ Trying(0)' <=> Trying(0)
      /\ Trying(1)' <=> Trying(1)
      /\ TotalAttempts' = TotalAttempts /\ InnerLimit' = InnerLimit
  BY DEF Spent, Trying, Turns, TotalAttempts, InnerLimit, Single
<1> QED  BY <1>1 DEF BudgetInv, CallBudget

\* A request goes upstream: there was one left for this inner_index.
LEMMA BudgetSend ==
    ASSUME TypeOK, BudgetInv, Trying(0), pc # "resolve", Send, UNCHANGED <<mode, visited, outer, inner, cand>>
    PROVE  BudgetInv'
<1>1. /\ calls \in Nat /\ inner \in Nat /\ cand \in Nat /\ InnerLimit \in Nat
      /\ visited # {} /\ outer < TotalAttempts
  BY Types, Numbers DEF BudgetInv
<1>2. /\ Turns \in Nat /\ InnerLimit * Turns \in Nat
      /\ InnerLimit * Turns + InnerLimit <= InnerLimit * (TotalAttempts * Cardinality(visited))
      /\ InnerLimit * (TotalAttempts * Cardinality(visited)) <= TotalAttempts * InnerLimit * Cardinality(Groups)
  BY <1>1, TurnsBound
<1>3. TotalAttempts * InnerLimit * Cardinality(Groups) \in Nat /\ InnerLimit * (TotalAttempts * Cardinality(visited)) \in Nat
  BY Numbers
<1>4. calls' = calls + 1 /\ pc' = "call"
  BY DEF Send, Go
<1>5. calls + 1 <= InnerLimit * Turns + inner + 1 /\ inner < InnerLimit
  BY <1>1, <1>2 DEF Trying
<1>6. calls + 1 <= TotalAttempts * InnerLimit * Cardinality(Groups)
  BY <1>1, <1>2, <1>3, <1>5
<1>7. TotalAttempts' = TotalAttempts /\ InnerLimit' = InnerLimit /\ Turns' = Turns
  BY DEF Turns, TotalAttempts, InnerLimit, Single
<1>8. Trying(1)'
  BY <1>4, <1>5, <1>7 DEF Trying
<1> QED  BY <1>1, <1>4, <1>6, <1>7, <1>8 DEF BudgetInv, CallBudget

LEMMA ResolveStep == ASSUME Inv, Resolve PROVE Inv'
<1>inv. TypeOK /\ PlaceInv /\ HandleInv /\ AnswerInv /\ LogInv /\ BudgetInv
  BY DEF Inv, ChatInv
<1>types. cand \in Nat /\ calls \in Nat
  BY <1>inv, Types
<1>1. /\ pc = "resolve" /\ handle = "none" /\ ~reuse
      /\ UNCHANGED <<mode, backup, group, updates, handle, slot, ledger, sent, logged, started, finals,
                     penalised, answered, calls, cancels, cut, cand, account, next>>
  BY <1>inv DEF Resolve, reservations, logs, history, PlaceInv, Go, loop
<1>2. CASE group \in visited
  <2>1. pc' = "noAccount" /\ UNCHANGED <<visited, outer, inner, limit, reuse, tried>>
    BY <1>2 DEF Resolve, Go, loop
  <2>2. TypeOK'
    BY <1>inv, <1>1, <2>1 DEF TypeOK, Ends
  <2>3. PlaceInv' /\ HandleInv'
    BY <1>inv, <1>1, <2>1 DEF PlaceInv, HandleInv, Calling, Ends, InnerLimit, Single
  <2>4. AnswerInv' /\ LogInv'
    BY <1>inv, <1>1, <2>1 DEF AnswerInv, LogInv, Ongoing, Calling, Over, Ends
  <2>5. BudgetInv'
    BY <1>inv, <1>1, <1>2, <2>1, BudgetSame
  <2> QED  BY <2>2, <2>3, <2>4, <2>5 DEF Inv, ChatInv
<1>3. CASE group \notin visited
  <2>1. /\ visited' = visited \cup {group} /\ outer' = 0 /\ inner' = 0 /\ limit' = 1
        /\ reuse' = FALSE /\ tried' = {} /\ pc' = "recheck"
    BY <1>3 DEF Resolve, Go
  <2>2. TypeOK'
    <3>1. 0 \in 0..(Attempts - 1) /\ 0 \in 0..(Inner - 1) /\ 1 \in 1..Inner
      BY ChatAssumption
    <3> QED  BY <1>inv, <1>1, <2>1, <3>1 DEF TypeOK
  <2>3. PlaceInv' /\ HandleInv'
    BY <1>inv, <1>1, <2>1 DEF PlaceInv, HandleInv, Calling, Ends
  <2>4. AnswerInv' /\ LogInv'
    BY <1>inv, <1>1, <2>1 DEF AnswerInv, LogInv, Ongoing, Calling, Over, Ends
  <2>5. BudgetInv'
    <3>1. Cardinality(visited') = Cardinality(visited) + 1 /\ visited' # {}
      BY <1>inv, <1>3, <2>1, Numbers, FS_AddElement
    <3>2. /\ TotalAttempts' = TotalAttempts /\ InnerLimit' = InnerLimit
          /\ TotalAttempts \in Nat \ {0} /\ Cardinality(visited) \in Nat
      BY <1>inv, <1>1, Numbers DEF TotalAttempts, InnerLimit, Single
    <3>3. Turns' = TotalAttempts * Cardinality(visited)
      BY <2>1, <3>1, <3>2 DEF Turns
    <3>4. Spent'
      BY <1>inv, <1>1, <3>2, <3>3 DEF BudgetInv, Spent
    <3> QED  BY <1>inv, <1>1, <2>1, <3>1, <3>2, <3>4 DEF BudgetInv, CallBudget
  <2> QED  BY <2>2, <2>3, <2>4, <2>5 DEF Inv, ChatInv
<1> QED  BY <1>2, <1>3

LEMMA FallbackStep == ASSUME Inv, Fallback \/ SelectNothing PROVE Inv'
<1>inv. TypeOK /\ PlaceInv /\ HandleInv /\ AnswerInv /\ LogInv /\ BudgetInv
  BY DEF Inv, ChatInv
<1>types. cand \in Nat /\ calls \in Nat
  BY <1>inv, Types
<1>1. /\ pc \in {"fallback", "select"} /\ handle = "none" /\ ~reuse
      /\ UNCHANGED <<mode, backup, visited, updates, handle, slot, ledger, sent, logged, started, finals,
                     penalised, answered, calls, cancels, cut, next, outer, inner, limit, reuse, tried,
                     cand, account>>
      /\ \/ pc' \in {"noAccount", "fallback"} /\ group' = group
         \/ pc' = "resolve" /\ group' = backup[group] /\ group' \notin visited \cup {NoGroup}
  BY <1>inv DEF Fallback, SelectNothing, catalogue, reservations, logs, history, PlaceInv, Go, loop
<1>2. TypeOK'
  <2>1. group' \in Groups
    BY <1>inv, <1>1 DEF TypeOK
  <2> QED  BY <1>inv, <1>1, <2>1 DEF TypeOK, Ends
<1>3. PlaceInv' /\ HandleInv'
  BY <1>inv, <1>1 DEF PlaceInv, HandleInv, Calling, Ends, InnerLimit, Single
<1>4. AnswerInv' /\ LogInv'
  BY <1>inv, <1>1 DEF AnswerInv, LogInv, Ongoing, Calling, Over, Ends
<1>5. BudgetInv'
  <2>1. Spent /\ visited # {} /\ outer < TotalAttempts
    BY <1>inv, <1>1 DEF BudgetInv
  <2>2. CASE pc' # "resolve"
    BY <1>inv, <1>1, <2>1, <2>2, BudgetSame
  <2>3. CASE pc' = "resolve"
    <3>1. /\ Turns \in Nat /\ InnerLimit * Turns \in Nat /\ InnerLimit \in Nat
          /\ Turns + 1 <= TotalAttempts * Cardinality(visited)
          /\ InnerLimit * Turns + InnerLimit <= InnerLimit * (TotalAttempts * Cardinality(visited))
          /\ TotalAttempts * Cardinality(visited) \in Nat
          /\ InnerLimit * (TotalAttempts * Cardinality(visited)) \in Nat
      BY <1>inv, <2>1, TurnsBound, Numbers
    <3>2. /\ cand <= TotalAttempts * Cardinality(visited)
          /\ calls <= InnerLimit * (TotalAttempts * Cardinality(visited))
      BY <1>types, <2>1, <3>1 DEF Spent
    <3>3. TotalAttempts' = TotalAttempts /\ InnerLimit' = InnerLimit
      BY <1>1 DEF TotalAttempts, InnerLimit, Single
    <3> QED  BY <1>inv, <1>1, <2>3, <3>2, <3>3 DEF BudgetInv, CallBudget
  <2> QED  BY <2>2, <2>3
<1> QED  BY <1>2, <1>3, <1>4, <1>5 DEF Inv, ChatInv

LEMMA RecheckStep == ASSUME Inv, NEW key \in KeyStates, Recheck(key) PROVE Inv'
<1>inv. TypeOK /\ PlaceInv /\ HandleInv /\ AnswerInv /\ LogInv /\ BudgetInv
  BY DEF Inv, ChatInv
<1>types. /\ cand \in Nat /\ calls \in Nat /\ handle \in {"none", "open", "settled"} /\ reuse \in BOOLEAN
          /\ cand > 0 => cand \in Candidates
          /\ Candidates \subseteq Nat
  BY <1>inv, Types DEF TypeOK
<1>1. /\ pc = "recheck" /\ logged' = FALSE
      /\ UNCHANGED <<mode, backup, group, visited, updates, handle, slot, ledger, finals, next,
                     penalised, answered, cancels, cut, outer, inner, limit, tried, cand, account>>
  BY DEF Recheck, catalogue, reservations, Send, Go
<1>2. CASE pc' = "call"
  <2>1. /\ handle = "open" /\ Send /\ reuse' = FALSE
        /\ calls' = calls + 1 /\ sent' = FALSE /\ started' = started \cup {cand}
    BY <1>inv, <1>types, <1>2 DEF Recheck, Send, Go, PlaceInv
  <2>2. TypeOK'
    <3>1. cand \in Candidates
      BY <1>inv, <1>types, <2>1 DEF PlaceInv
    <3>2. started' \subseteq Candidates /\ calls' \in Nat
      BY <1>inv, <1>types, <2>1, <3>1 DEF TypeOK
    <3> QED  BY <1>inv, <1>1, <1>2, <2>1, <3>2 DEF TypeOK
  <2>3. PlaceInv' /\ HandleInv'
    BY <1>inv, <1>types, <1>1, <1>2, <2>1 DEF PlaceInv, HandleInv, Calling, Ends, InnerLimit, Single
  <2>4. AnswerInv' /\ LogInv'
    BY <1>inv, <1>types, <1>1, <1>2, <2>1 DEF AnswerInv, LogInv, Ongoing, Calling, Over, Ends
  <2>5. BudgetInv'
    <3>1. Trying(0)
      BY <1>inv, <1>1, <2>1 DEF BudgetInv
    <3> QED  BY <1>inv, <1>1, <2>1, <3>1, BudgetSend
  <2> QED  BY <2>2, <2>3, <2>4, <2>5 DEF Inv, ChatInv
<1>3. CASE pc' # "call"
  <2>1. /\ UNCHANGED <<sent, calls, started>>
        /\ \/ pc' = "keyError" /\ reuse' = reuse
           \/ pc' = "orphan" /\ handle = "none" /\ reuse' = FALSE
           \/ pc' = "select" /\ ~reuse /\ reuse' = reuse
    BY <1>3, <1>types, ChatAssumption DEF Recheck, Send, Go
  <2>2. pc' # "keyError" => handle = "none"
    BY <1>inv, <1>types, <1>1, <2>1 DEF PlaceInv
  <2>3. TypeOK'
    BY <1>inv, <1>types, <1>1, <2>1 DEF TypeOK, Ends
  <2>4. PlaceInv' /\ HandleInv'
    BY <1>inv, <1>types, <1>1, <2>1, <2>2 DEF PlaceInv, HandleInv, Calling, Ends, InnerLimit, Single
  <2>5. AnswerInv' /\ LogInv'
    BY <1>inv, <1>types, <1>1, <2>1, <2>2 DEF AnswerInv, LogInv, Ongoing, Calling, Over, Ends, PlaceInv
  <2>6. BudgetInv'
    <3>1. pc' # "keyError" => Spent
      BY <1>inv, <1>1, <2>2 DEF BudgetInv
    <3> QED  BY <1>inv, <1>1, <2>1, <3>1, BudgetSame
  <2> QED  BY <2>3, <2>4, <2>5, <2>6 DEF Inv, ChatInv
<1> QED  BY <1>2, <1>3

LEMMA SelectStep == ASSUME Inv, NEW a \in Accounts, Select(a) PROVE Inv'
<1>inv. TypeOK /\ PlaceInv /\ HandleInv /\ AnswerInv /\ LogInv /\ BudgetInv
  BY DEF Inv, ChatInv
<1>types. /\ cand \in Nat /\ calls \in Nat /\ Candidates \subseteq Nat
          /\ slot \in [Candidates -> {"free", "held"}]
          /\ ledger \in [Candidates -> {"none", "open", "kept", "undone"}]
  BY <1>inv, Types
<1>1. /\ pc = "select" /\ handle = "none" /\ ~reuse
      /\ cand' = cand + 1 /\ account' = a /\ inner' = 0 /\ limit' = InnerLimit
      /\ handle' = "open" /\ pc' = "prepare"
      /\ slot' = [slot EXCEPT ![cand + 1] = "held"]
      /\ ledger' = [ledger EXCEPT ![cand + 1] = "open"]
      /\ UNCHANGED <<mode, backup, group, visited, updates, outer, reuse, tried, sent, logged, started,
                     finals, penalised, answered, calls, cancels, cut, next>>
  BY <1>inv DEF Select, catalogue, logs, history, PlaceInv, Go
<1>2. Spent /\ visited # {} /\ outer < TotalAttempts
  BY <1>inv, <1>1 DEF BudgetInv
<1>3. /\ Turns \in Nat /\ Turns + 1 <= TotalAttempts * Cardinality(visited)
      /\ TotalAttempts * Cardinality(visited) <= Attempts * Cardinality(Groups)
      /\ InnerLimit * Turns \in Nat
      /\ TotalAttempts * Cardinality(visited) \in Nat /\ Attempts * Cardinality(Groups) \in Nat
  BY <1>inv, <1>2, TurnsBound, Numbers
<1>4. cand + 1 \in Candidates /\ cand + 1 \in 0..(Attempts * Cardinality(Groups))
  BY <1>types, <1>2, <1>3 DEF Spent, Candidates
<1>5. TypeOK'
  <2>1. 0 \in 0..(Inner - 1) /\ InnerLimit \in 1..Inner
    BY <1>inv, Numbers
  <2>2. /\ slot' \in [Candidates -> {"free", "held"}]
        /\ ledger' \in [Candidates -> {"none", "open", "kept", "undone"}]
    BY <1>types, <1>1
  <2> QED  BY <1>inv, <1>1, <1>4, <2>1, <2>2 DEF TypeOK
<1>6. PlaceInv'
  BY <1>inv, <1>types, <1>1 DEF PlaceInv, Calling, Ends, InnerLimit, Single
<1>7. HandleInv'
  <2> SUFFICES ASSUME NEW n \in Candidates
               PROVE  /\ slot'[n] = "held" <=> n = cand + 1
                      /\ ledger'[n] = "open" <=> n = cand + 1
                      /\ n > cand + 1 => /\ finals[n] = <<>> /\ n \notin started /\ n \notin penalised
                                         /\ ledger'[n] = "none"
    BY <1>1 DEF HandleInv
  <2>1. CASE n = cand + 1
    BY <1>types, <1>1, <2>1
  <2>2. CASE n # cand + 1
    <3>1. slot'[n] = slot[n] /\ ledger'[n] = ledger[n] /\ slot[n] # "held" /\ ledger[n] # "open"
      BY <1>inv, <1>types, <1>1, <2>2 DEF HandleInv, PlaceInv
    <3>2. n > cand + 1 => n > cand
      BY <1>types
    <3> QED  BY <1>inv, <2>2, <3>1, <3>2 DEF HandleInv
  <2> QED  BY <2>1, <2>2
<1>8. AnswerInv'
  BY <1>inv, <1>types, <1>1, <1>4 DEF AnswerInv, Ongoing, Calling, HandleInv
<1>9. LogInv'
  <2>1. finals[cand + 1] = <<>> /\ cand + 1 \notin started /\ cand + 1 \notin penalised
    BY <1>inv, <1>types, <1>4 DEF HandleInv
  <2>2. \A n \in started : n \in Candidates
    BY <1>inv DEF TypeOK
  <2>3. ASSUME NEW n \in started, n < cand + 1 PROVE finals[n] # <<>>
    <3>1. n \in Nat
      BY <1>types, <2>2
    <3>2. n < cand \/ n = cand
      BY <1>types, <2>3, <3>1
    <3> QED  BY <1>inv, <1>1, <2>3, <3>2 DEF LogInv, Over
  <2> QED  BY <1>inv, <1>1, <2>1, <2>3 DEF LogInv, Over, Ends
<1>10. BudgetInv'
  <2>1. TotalAttempts' = TotalAttempts /\ InnerLimit' = InnerLimit /\ Turns' = Turns /\ InnerLimit \in Nat \ {0}
    BY <1>inv, <1>1, Numbers DEF Turns, TotalAttempts, InnerLimit, Single
  <2>2. Trying(0)'
    BY <1>types, <1>1, <1>2, <1>3, <2>1 DEF Spent, Trying
  <2> QED  BY <1>inv, <1>1, <1>2, <2>1, <2>2 DEF BudgetInv, CallBudget
<1> QED  BY <1>5, <1>6, <1>7, <1>8, <1>9, <1>10 DEF Inv, ChatInv

LEMMA PrepareStep == ASSUME Inv, Prepare PROVE Inv'
<1>inv. TypeOK /\ PlaceInv /\ HandleInv /\ AnswerInv /\ LogInv /\ BudgetInv
  BY DEF Inv, ChatInv
<1>types. /\ cand \in Nat /\ calls \in Nat /\ Candidates \subseteq Nat
          /\ cand > 0 => cand \in Candidates
  BY <1>inv, Types
<1>1. /\ pc = "prepare" /\ handle = "open" /\ ~reuse /\ cand \in Candidates
      /\ Send /\ calls' = calls + 1 /\ sent' = FALSE /\ started' = started \cup {cand} /\ pc' = "call"
      /\ UNCHANGED <<mode, backup, group, visited, updates, handle, slot, ledger, finals, next, logged,
                     penalised, answered, cancels, cut, outer, inner, limit, reuse, tried, cand, account>>
  BY <1>inv, <1>types DEF Prepare, catalogue, loop, reservations, Send, Go, PlaceInv
<1>2. TypeOK'
  <2>1. started' \subseteq Candidates /\ calls' \in Nat
    BY <1>inv, <1>types, <1>1 DEF TypeOK
  <2> QED  BY <1>inv, <1>1, <2>1 DEF TypeOK
<1>3. PlaceInv' /\ HandleInv'
  BY <1>inv, <1>types, <1>1 DEF PlaceInv, HandleInv, Calling, Ends, InnerLimit, Single
<1>4. AnswerInv' /\ LogInv'
  BY <1>inv, <1>types, <1>1 DEF AnswerInv, LogInv, Ongoing, Calling, Over, Ends
<1>5. BudgetInv'
  <2>1. Trying(0)
    BY <1>inv, <1>1 DEF BudgetInv
  <2> QED  BY <1>inv, <1>1, <2>1, BudgetSend
<1> QED  BY <1>2, <1>3, <1>4, <1>5 DEF Inv, ChatInv

\* Output goes to the client.
LEMMA OutputStep == ASSUME Inv, Chunk \/ Flush PROVE Inv'
<1>inv. TypeOK /\ PlaceInv /\ HandleInv /\ AnswerInv /\ LogInv /\ BudgetInv
  BY DEF Inv, ChatInv
<1>types. /\ cand \in Nat /\ Candidates \subseteq Nat
          /\ cand > 0 => cand \in Candidates
  BY <1>inv, Types
<1>1. /\ pc = "call" /\ pc' \in {"call", "flush"} /\ handle = "open" /\ ~reuse /\ cand \in Candidates
      /\ ~sent /\ sent' = TRUE /\ answered' = answered \cup {cand}
      /\ UNCHANGED <<mode, backup, group, visited, updates, handle, slot, ledger, finals, next, logged,
                     started, penalised, calls, cancels, cut, outer, inner, limit, reuse, tried, cand, account>>
  BY <1>inv, <1>types DEF Chunk, Flush, catalogue, loop, reservations, logs, Go, PlaceInv, Calling
<1>2. TypeOK'
  <2>1. answered' \subseteq Candidates
    BY <1>inv, <1>1 DEF TypeOK
  <2> QED  BY <1>inv, <1>1, <2>1 DEF TypeOK
<1>3. PlaceInv' /\ HandleInv'
  BY <1>inv, <1>types, <1>1 DEF PlaceInv, HandleInv, Calling, Ends, InnerLimit, Single
<1>4. AnswerInv' /\ LogInv'
  BY <1>inv, <1>types, <1>1 DEF AnswerInv, LogInv, Ongoing, Calling, Over, Ends
<1>5. BudgetInv'
  <2>1. Trying(1)
    BY <1>inv, <1>1 DEF BudgetInv
  <2> QED  BY <1>inv, <1>1, <2>1, BudgetSame
<1> QED  BY <1>2, <1>3, <1>4, <1>5 DEF Inv, ChatInv

LEMMA CompleteStep == ASSUME Inv, Complete PROVE Inv'
<1>inv. TypeOK /\ PlaceInv /\ HandleInv /\ AnswerInv /\ LogInv /\ BudgetInv
  BY DEF Inv, ChatInv
<1>types. /\ cand \in Nat /\ Candidates \subseteq Nat \ {0}
          /\ cand > 0 => cand \in Candidates
  BY <1>inv, Types
<1>1. /\ pc \in {"call", "flush"} /\ pc' = "commit" /\ handle = "open" /\ ~reuse /\ cand \in Candidates
      /\ logged' = TRUE /\ Finalize("ok") /\ finals[cand] = <<>> /\ cand \notin penalised
      /\ UNCHANGED <<mode, backup, group, visited, updates, handle, slot, ledger, next, sent, answered,
                     started, penalised, calls, cancels, cut, outer, inner, limit, reuse, tried, cand, account>>
  BY <1>inv, <1>types DEF Complete, catalogue, loop, reservations, history, Go, PlaceInv, Calling, LogInv
<1>2. /\ finals' \in [Candidates -> Seq({"ok", "error", "cancelled"})]
      /\ \A n \in Candidates : finals'[n] = IF n = cand THEN <<"ok">> ELSE finals[n]
  <2>1. TypeOK /\ Finalize("ok") /\ (handle # "none" => cand > 0 /\ finals[cand] = <<>>)
    <3>1. TypeOK /\ Finalize("ok") /\ finals[cand] = <<>>
      BY <1>inv, <1>1
    <3>2. cand > 0
      BY <1>types, <1>1
    <3> QED  BY <3>1, <3>2
  <2>2. /\ finals' \in [Candidates -> Seq({"ok", "error", "cancelled"})]
        /\ \A n \in Candidates : finals'[n] = IF n = cand /\ handle # "none" THEN <<"ok">> ELSE finals[n]
    BY <2>1, FinalizedRows
  <2>3. handle # "none"
    BY <1>1
  <2> QED  BY <2>2, <2>3
<1>3. TypeOK'
  BY <1>inv, <1>1, <1>2 DEF TypeOK
<1>4. PlaceInv' /\ HandleInv'
  BY <1>inv, <1>types, <1>1, <1>2 DEF PlaceInv, HandleInv, Calling, Ends, InnerLimit, Single
<1>5. AnswerInv'
  BY <1>inv, <1>types, <1>1 DEF AnswerInv, Ongoing, Calling
<1>6. LogInv'
  <2>1. started \subseteq Candidates /\ penalised \subseteq Candidates
    BY <1>inv DEF TypeOK
  <2> QED  BY <1>inv, <1>types, <1>1, <1>2, <2>1 DEF LogInv, Over, Ends
<1>7. BudgetInv'
  BY <1>inv, <1>1, BudgetSame
<1> QED  BY <1>3, <1>4, <1>5, <1>6, <1>7 DEF Inv, ChatInv

\* The usage is settled: after a complete answer, an error or a cancellation.
LEMMA SettleStep == ASSUME Inv, Commit \/ KeepError \/ KeepCancel PROVE Inv'
<1>inv. TypeOK /\ PlaceInv /\ HandleInv /\ AnswerInv /\ LogInv /\ BudgetInv
  BY DEF Inv, ChatInv
<1>types. /\ cand \in Nat /\ Candidates \subseteq Nat \ {0} /\ cancels \in Nat
          /\ cand > 0 => cand \in Candidates
          /\ ledger \in [Candidates -> {"none", "open", "kept", "undone"}]
          /\ finals \in [Candidates -> Seq({"ok", "error", "cancelled"})]
  BY <1>inv, Types
<1>1. /\ handle = "open" /\ ~reuse /\ cand \in Candidates /\ handle' = "settled"
      /\ ledger' = [ledger EXCEPT ![cand] = "kept"] /\ slot' = slot
      /\ pc' = "finally" /\ next' \in {"ok", "streamError", "cancelled"}
      /\ UNCHANGED <<mode, backup, group, visited, updates, sent, logged, started, penalised, calls,
                     cancels, cut, outer, inner, limit, reuse, tried, cand, account>>
      /\ \/ pc = "commit" /\ answered' = answered \cup {cand} /\ finals' = finals
         \/ pc = "keepError" /\ answered' = answered /\ Finalize("error") /\ finals[cand] = <<>>
         \/ pc = "keepCancel" /\ answered' = answered /\ finals' = finals
  BY <1>inv, <1>types DEF Commit, KeepError, KeepCancel, Settle, ThenFinally, catalogue, loop, history,
                          logs, PlaceInv, Calling, LogInv
<1>2. cand \in answered' /\ answered' \subseteq {cand}
  BY <1>inv, <1>1 DEF AnswerInv, Calling
<1>3. /\ finals' \in [Candidates -> Seq({"ok", "error", "cancelled"})]
      /\ \A n \in Candidates : finals'[n] = finals[n] \/ (n = cand /\ finals'[n] = <<"error">>)
      /\ pc = "keepError" => finals'[cand] = <<"error">>
      /\ pc # "keepError" => finals' = finals
  <2>1. CASE pc = "keepError"
    <3>1. TypeOK /\ Finalize("error") /\ (handle # "none" => cand > 0 /\ finals[cand] = <<>>)
      <4>1. TypeOK /\ Finalize("error") /\ finals[cand] = <<>>
        BY <1>inv, <1>1, <2>1
      <4>2. cand > 0
        BY <1>types, <1>1
      <4> QED  BY <4>1, <4>2
    <3>2. /\ finals' \in [Candidates -> Seq({"ok", "error", "cancelled"})]
          /\ \A n \in Candidates : finals'[n] = IF n = cand /\ handle # "none" THEN <<"error">> ELSE finals[n]
      BY <3>1, FinalizedRows
    <3>3. handle # "none" /\ cand \in Candidates
      BY <1>1
    <3> QED  BY <2>1, <3>2, <3>3
  <2>2. CASE pc # "keepError"
    BY <1>types, <1>1, <2>2
  <2> QED  BY <2>1, <2>2
<1>4. TypeOK'
  <2>1. ledger' \in [Candidates -> {"none", "open", "kept", "undone"}] /\ answered' \subseteq Candidates
    BY <1>types, <1>1, <1>2
  <2> QED  BY <1>inv, <1>1, <1>3, <2>1 DEF TypeOK
<1>5. PlaceInv'
  BY <1>inv, <1>1 DEF PlaceInv, Calling, Ends, InnerLimit, Single
<1>6. HandleInv'
  BY <1>inv, <1>types, <1>1, <1>3 DEF HandleInv
<1>7. AnswerInv'
  BY <1>inv, <1>types, <1>1, <1>2 DEF AnswerInv, Ongoing, Calling
<1>8. LogInv'
  <2>1. started \subseteq Candidates /\ penalised \subseteq Candidates
    BY <1>inv DEF TypeOK
  <2>2. pc = "keepCancel" => finals[cand] # <<>>
    BY <1>inv DEF LogInv
  <2>3. pc = "commit" => finals[cand] # <<>>
    BY <1>inv DEF LogInv
  <2> QED  BY SMTT(30), <1>inv, <1>types, <1>1, <1>3, <2>1, <2>2, <2>3 DEF LogInv, Over, Ends
<1>9. BudgetInv'
  BY <1>inv, <1>1, BudgetSame
<1> QED  BY <1>4, <1>5, <1>6, <1>7, <1>8, <1>9 DEF Inv, ChatInv

LEMMA CancelStep == ASSUME Inv, Cancel PROVE Inv'
<1>inv. TypeOK /\ PlaceInv /\ HandleInv /\ AnswerInv /\ LogInv /\ BudgetInv
  BY DEF Inv, ChatInv
<1>types. /\ cand \in Nat /\ Candidates \subseteq Nat \ {0} /\ cancels \in Nat /\ logged \in BOOLEAN
          /\ cand > 0 => cand \in Candidates
          /\ finals \in [Candidates -> Seq({"ok", "error", "cancelled"})]
          /\ cancels < MaxCancels /\ MaxCancels \in Nat
  BY <1>inv, Types, ChatAssumption DEF TypeOK, Cancel
<1>1. /\ cancels' = cancels + 1
      /\ UNCHANGED <<mode, backup, group, visited, updates, handle, slot, ledger, sent, started, penalised,
                     answered, calls, outer, inner, limit, reuse, tried, cand, account>>
      /\ pc \in {"select", "prepare", "call", "flush", "commit", "keepError", "keepCancel"}
      /\ \/ pc' = "keepCancel" /\ sent /\ handle # "none" /\ pc \in {"select", "prepare", "call", "flush", "commit"}
         \/ /\ pc' = "finally" /\ next' = "cancelled"
            /\ pc \in {"keepError", "keepCancel"} \/ ~sent \/ handle = "none"
      /\ \/ UNCHANGED <<logged, finals>> /\ (logged \/ pc \in {"keepError", "keepCancel"})
         \/ /\ ~logged /\ logged' = TRUE /\ Finalize("cancelled")
            /\ pc \in {"select", "prepare", "call", "flush", "commit"}
      /\ IF pc \in {"keepError", "keepCancel"} THEN cut' = cut \cup {cand} /\ pc' = "finally" ELSE cut' = cut
  BY DEF Cancel, Cancelled, Served, ThenFinally, Go, catalogue, loop, reservations, history
<1>2. /\ ~reuse
      /\ pc = "select" => handle = "none"
      /\ pc # "select" => handle = "open" /\ cand \in Candidates
      /\ cut = {}
  BY <1>inv, <1>types, <1>1 DEF PlaceInv, Calling
<1>3. /\ finals' \in [Candidates -> Seq({"ok", "error", "cancelled"})]
      /\ \A n \in Candidates : finals'[n] = finals[n] \/ (n = cand /\ finals'[n] = <<"cancelled">>)
      /\ pc \in {"prepare", "call", "flush", "commit"} => finals'[cand] # <<>>
      /\ pc = "select" => finals' = finals
  <2>1. CASE UNCHANGED <<logged, finals>> /\ (logged \/ pc \in {"keepError", "keepCancel"})
    BY <1>inv, <1>types, <2>1 DEF LogInv
  <2>2. CASE Finalize("cancelled") /\ ~logged /\ pc \in {"select", "prepare", "call", "flush", "commit"}
    <3>1. pc \in {"select", "prepare", "call", "flush"}
      BY <1>inv, <1>1, <2>2 DEF LogInv
    <3>2. handle # "none" => cand > 0 /\ finals[cand] = <<>>
      BY <1>inv, <1>types, <1>2, <3>1 DEF LogInv
    <3>3. CASE pc = "select"
      BY <1>types, <1>2, <2>2, <3>3 DEF Finalize
    <3>4. CASE pc # "select"
      <4>1. /\ finals' \in [Candidates -> Seq({"ok", "error", "cancelled"})]
            /\ \A n \in Candidates : finals'[n] = IF n = cand /\ handle # "none" THEN <<"cancelled">> ELSE finals[n]
        <5>1. TypeOK /\ Finalize("cancelled")
          BY <1>inv, <2>2
        <5> QED  BY <3>2, <5>1, FinalizedRows
      <4>2. <<"cancelled">> # <<>>
        OBVIOUS
      <4> QED  BY <1>2, <3>4, <4>1, <4>2
    <3> QED  BY <3>3, <3>4
  <2> QED  BY <1>1, <2>1, <2>2
<1>4. TypeOK'
  <2>1. cancels' \in 0..MaxCancels
    BY <1>types, <1>1
  <2>2. logged' \in BOOLEAN
    BY <1>types, <1>1
  <2>3. cut' \subseteq Candidates
    BY <1>inv, <1>1, <1>2 DEF TypeOK
  <2> QED  BY <1>inv, <1>1, <1>3, <2>1, <2>2, <2>3 DEF TypeOK
<1>5. PlaceInv'
  BY <1>inv, <1>1, <1>2 DEF PlaceInv, Calling, Ends, InnerLimit, Single
<1>6. HandleInv'
  BY <1>inv, <1>types, <1>1, <1>3 DEF HandleInv
<1>7. AnswerInv'
  BY <1>inv, <1>types, <1>1, <1>2 DEF AnswerInv, Ongoing, Calling
<1>8. LogInv'
  <2>1. started \subseteq Candidates /\ penalised \subseteq Candidates
    BY <1>inv DEF TypeOK
  <2>2. \A n \in started : n < cand => finals'[n] # <<>>
    BY SMTT(30), <1>inv, <1>3, <2>1 DEF LogInv
  <2>3. \A n \in penalised : finals'[n] # <<"ok">>
    BY <1>inv, <1>3, <2>1 DEF LogInv
  <2>4. \A n \in Candidates : finals'[n] = <<>> \/ \E s \in {"ok", "error", "cancelled"} : finals'[n] = <<s>>
    BY <1>inv, <1>3 DEF LogInv
  <2>5. cand \notin cut' /\ cand \in started => finals'[cand] # <<>>
    <3>1. CASE pc = "select"
      BY <1>inv, <1>1, <1>2, <1>3, <3>1 DEF LogInv, Over
    <3>2. CASE pc # "select"
      BY <1>1, <1>3, <3>2
    <3> QED  BY <3>1, <3>2
  <2>6. pc' = "keepCancel" => finals'[cand] # <<>>
    BY <1>1, <1>2, <1>3
  <2> QED  BY <1>1, <2>2, <2>3, <2>4, <2>5, <2>6 DEF LogInv, Over, Ends
<1>9. BudgetInv'
  BY <1>inv, <1>1, BudgetSame
<1> QED  BY <1>4, <1>5, <1>6, <1>7, <1>8, <1>9 DEF Inv, ChatInv

LEMMA FinallyStep == ASSUME Inv, Finally PROVE Inv'
<1>inv. TypeOK /\ PlaceInv /\ HandleInv /\ AnswerInv /\ LogInv /\ BudgetInv
  BY DEF Inv, ChatInv
<1>types. /\ cand \in Nat /\ Candidates \subseteq Nat \ {0} /\ cancels \in Nat
          /\ cand > 0 => cand \in Candidates
          /\ slot \in [Candidates -> {"free", "held"}]
          /\ ledger \in [Candidates -> {"none", "open", "kept", "undone"}]
          /\ handle \in {"none", "open", "settled"}
  BY <1>inv, Types DEF TypeOK
<1>1. /\ pc = "finally" /\ pc' = next /\ next' = next /\ handle' = "none" /\ ~reuse
      /\ next \in (Ends \ {"keyError"}) \cup {"recheck"}
      /\ handle # "none" => cand \in Candidates
      /\ slot' = IF handle = "none" THEN slot ELSE [slot EXCEPT ![cand] = "free"]
      /\ ledger' = IF handle = "open" THEN [ledger EXCEPT ![cand] = "undone"] ELSE ledger
      /\ UNCHANGED <<mode, backup, group, visited, updates, sent, logged, started, finals, penalised,
                     answered, calls, cancels, cut, outer, inner, limit, reuse, tried, cand, account>>
  BY <1>inv, <1>types DEF Finally, catalogue, loop, logs, history, PlaceInv
<1>2. /\ slot' \in [Candidates -> {"free", "held"}]
      /\ ledger' \in [Candidates -> {"none", "open", "kept", "undone"}]
      /\ \A n \in Candidates : slot'[n] = IF n = cand /\ handle # "none" THEN "free" ELSE slot[n]
      /\ \A n \in Candidates : ledger'[n] = IF n = cand /\ handle = "open" THEN "undone" ELSE ledger[n]
  BY <1>types, <1>1
<1>3. TypeOK'
  BY <1>inv, <1>1, <1>2 DEF TypeOK, Ends
<1>4. PlaceInv'
  BY <1>inv, <1>1 DEF PlaceInv, Calling, Ends
<1>5. HandleInv'
  BY <1>inv, <1>types, <1>1, <1>2 DEF HandleInv
<1>6. AnswerInv'
  <2>1. answered \subseteq Candidates
    BY <1>inv DEF TypeOK
  <2>2. ASSUME NEW n \in Candidates, ledger'[n] = "kept" PROVE n \in answered
    BY <1>inv, <1>2, <2>2 DEF AnswerInv
  <2>3. ASSUME NEW n \in answered, n \notin cut PROVE ledger'[n] = "kept"
    <3>1. ledger[n] = "kept" /\ n = cand /\ n \in Candidates
      BY <1>inv, <1>1, <2>1, <2>3 DEF AnswerInv, Calling
    <3>2. handle # "open"
      BY <1>inv, <3>1 DEF HandleInv
    <3> QED  BY <1>2, <3>1, <3>2
  <2> QED  BY <1>inv, <1>1, <2>2, <2>3 DEF AnswerInv, Ongoing, Calling, Ends
<1>7. LogInv'
  BY <1>inv, <1>1 DEF LogInv, Over, Ends, PlaceInv
<1>8. BudgetInv'
  <2>1. next = "recheck" => Spent
    BY <1>inv, <1>1 DEF BudgetInv
  <2> QED  BY <1>inv, <1>1, <2>1, BudgetSame DEF Ends
<1> QED  BY <1>3, <1>4, <1>5, <1>6, <1>7, <1>8 DEF Inv, ChatInv

\* A cancellation while the finally clause waits.
LEMMA CutStep == ASSUME Inv, CutFinally PROVE Inv'
<1>inv. TypeOK /\ PlaceInv /\ HandleInv /\ AnswerInv /\ LogInv /\ BudgetInv
  BY DEF Inv, ChatInv
<1>types. /\ cand \in Nat /\ Candidates \subseteq Nat \ {0} /\ cancels \in Nat
          /\ cand > 0 => cand \in Candidates
          /\ slot \in [Candidates -> {"free", "held"}]
          /\ ledger \in [Candidates -> {"none", "open", "kept", "undone"}]
          /\ MaxCancels \in Nat
  BY <1>inv, Types, ChatAssumption
<1>1. /\ pc = "finally" /\ pc' = "cancelled" /\ next' = next /\ handle # "none" /\ handle' = "none"
      /\ ~reuse /\ cand \in Candidates
      /\ slot' \in {slot, [slot EXCEPT ![cand] = "free"]}
      /\ \/ ledger' = ledger
         \/ handle = "open" /\ ledger' = [ledger EXCEPT ![cand] = "undone"]
      /\ cut' = cut \cup {cand} /\ cancels < MaxCancels /\ cancels' = cancels + 1
      /\ UNCHANGED <<mode, backup, group, visited, updates, sent, logged, started, finals, penalised,
                     answered, calls, outer, inner, limit, reuse, tried, cand, account>>
  BY <1>inv, <1>types DEF CutFinally, Go, catalogue, loop, logs, history, PlaceInv
<1>2. /\ slot' \in [Candidates -> {"free", "held"}]
      /\ ledger' \in [Candidates -> {"none", "open", "kept", "undone"}]
      /\ \A n \in Candidates : slot'[n] = slot[n] \/ slot'[n] = "free"
      /\ \A n \in Candidates : ledger'[n] = ledger[n] \/ (n = cand /\ ledger'[n] = "undone")
  BY <1>types, <1>1
<1>3. TypeOK'
  <2>1. cancels' \in 0..MaxCancels /\ cut' \subseteq Candidates
    BY <1>inv, <1>types, <1>1 DEF TypeOK
  <2> QED  BY <1>inv, <1>1, <1>2, <2>1 DEF TypeOK, Ends
<1>4. PlaceInv'
  BY <1>inv, <1>1 DEF PlaceInv, Calling, Ends
<1>5. HandleInv'
  BY <1>inv, <1>types, <1>1, <1>2 DEF HandleInv
<1>6. AnswerInv'
  BY <1>inv, <1>1, <1>2 DEF AnswerInv, Ongoing, Calling
<1>7. LogInv'
  BY <1>inv, <1>1 DEF LogInv, Over, Ends
<1>8. BudgetInv'
  BY <1>inv, <1>1, BudgetSame
<1> QED  BY <1>3, <1>4, <1>5, <1>6, <1>7, <1>8 DEF Inv, ChatInv

LEMMA UpdateStep == ASSUME Inv, UpdateCatalogue PROVE Inv'
<1>inv. TypeOK /\ PlaceInv /\ HandleInv /\ AnswerInv /\ LogInv /\ BudgetInv
  BY DEF Inv, ChatInv
<1>1. /\ backup' \in [Groups -> Groups \cup {NoGroup}] /\ updates' \in 0..MaxUpdates
      /\ UNCHANGED <<mode, group, visited, pc, next, handle, slot, ledger, sent, logged, started, finals,
                     penalised, answered, calls, cancels, cut, outer, inner, limit, reuse, tried, cand, account>>
  BY <1>inv, ChatAssumption DEF UpdateCatalogue, reservations, loop, logs, history, TypeOK
<1>2. TypeOK'
  BY <1>inv, <1>1 DEF TypeOK
<1>3. PlaceInv' /\ HandleInv'
  BY <1>inv, <1>1 DEF PlaceInv, HandleInv, Calling, InnerLimit, Single
<1>4. AnswerInv' /\ LogInv'
  BY <1>inv, <1>1 DEF AnswerInv, LogInv, Ongoing, Calling, Over
<1>5. BudgetInv'
  BY <1>inv, <1>1 DEF BudgetInv, Spent, Trying, Turns, TotalAttempts, InnerLimit, Single, CallBudget
<1> QED  BY <1>2, <1>3, <1>4, <1>5 DEF Inv, ChatInv

\* What _handle_attempt_failure does to the account of the candidate.
LEMMA PenaliseEffect ==
    ASSUME Inv, NEW why, Penalise(why)
    PROVE  /\ penalised' \subseteq penalised \cup {cand}
           /\ handle = "none" \/ InnerRetry(why) => UNCHANGED <<tried, penalised>>
           /\ tried' \subseteq Accounts /\ penalised' \subseteq Candidates
<1>1. handle # "none" => account \in Accounts /\ cand \in Candidates
  BY Types DEF Inv, ChatInv, PlaceInv
<1> QED  BY <1>1 DEF Penalise, Inv, TypeOK

\* The ways on after a failed attempt.
LEMMA FailCases ==
    ASSUME Inv, NEW why \in Failures, Fail(why)
    PROVE  \/ /\ sent /\ pc = "call" /\ pc' = "keepError" /\ UNCHANGED <<next, outer, inner, reuse, finals>>
           \/ /\ ~sent /\ pc \in {"call", "select"} /\ pc' = "recheck" /\ InnerRetry(why)
              /\ inner' = inner + 1 /\ inner < limit - 1 /\ reuse' = TRUE
              /\ UNCHANGED <<next, outer, finals>>
           \/ /\ ~sent /\ pc' = "finally" /\ next' = "recheck" /\ outer' = outer + 1
              /\ outer < TotalAttempts - 1 /\ Finalize("error") /\ UNCHANGED <<inner, reuse>>
           \/ /\ ~sent /\ pc' = "finally" /\ next' \in {"clientError", "exhausted"}
              /\ Finalize("error") /\ UNCHANGED <<outer, inner, reuse>>
<1>1. sent => pc = "call"
  BY DEF Fail, Inv, ChatInv, AnswerInv, Ongoing
<1>2. \/ sent /\ pc' = "keepError" /\ UNCHANGED <<next, outer, inner, reuse, finals>>
      \/ /\ InnerRetry(why) /\ pc' = "recheck" /\ inner' = inner + 1 /\ reuse' = TRUE
         /\ UNCHANGED <<next, outer, finals>>
      \/ /\ Retryable(why) /\ outer < TotalAttempts - 1
         /\ pc' = "finally" /\ next' = "recheck" /\ outer' = outer + 1 /\ Finalize("error")
         /\ UNCHANGED <<inner, reuse>>
      \/ /\ ~sent /\ pc' = "finally" /\ next' \in {"clientError", "exhausted"}
         /\ Finalize("error") /\ UNCHANGED <<outer, inner, reuse>>
  BY DEF Fail, Go, ThenFinally, Same
<1>3. InnerRetry(why) => ~sent /\ inner < limit - 1 /\ pc \in {"call", "select"}
  BY DEF Fail, InnerRetry
<1>4. Retryable(why) => ~sent
  BY DEF Retryable
<1> QED  BY <1>1, <1>2, <1>3, <1>4

LEMMA FailStep == ASSUME Inv, NEW why \in Failures, Fail(why) PROVE Inv'
<1>inv. TypeOK /\ PlaceInv /\ HandleInv /\ AnswerInv /\ LogInv /\ BudgetInv
  BY DEF Inv, ChatInv
<1>types. /\ cand \in Nat /\ Candidates \subseteq Nat \ {0} /\ cancels \in Nat /\ inner \in Nat
          /\ outer \in Nat /\ limit \in Nat /\ calls \in Nat
          /\ cand > 0 => cand \in Candidates
          /\ finals \in [Candidates -> Seq({"ok", "error", "cancelled"})]
  BY <1>inv, Types
<1>1. /\ pc \in {"call", "prepare", "select", "orphan"} /\ logged' = TRUE /\ Penalise(why)
      /\ UNCHANGED <<mode, backup, group, visited, updates, handle, slot, ledger, sent, started, answered,
                     calls, cancels, cut, limit, cand, account>>
  BY DEF Fail, catalogue, reservations
<1>2. /\ ~reuse
      /\ pc \in {"select", "orphan"} => handle = "none"
      /\ pc \in {"call", "prepare"} => /\ handle = "open" /\ cand \in Candidates /\ limit = InnerLimit
                                       /\ finals[cand] = <<>> /\ cand \notin penalised
  BY <1>inv, <1>types, <1>1 DEF PlaceInv, Calling, LogInv
<1>3. CASE pc' = "keepError"
  <2>1. sent /\ pc = "call" /\ UNCHANGED <<next, outer, inner, reuse, finals>>
    BY <1>3, FailCases
  <2>2. TypeOK'
    BY <1>inv, <1>1, <1>2, <1>3, <2>1, PenaliseEffect DEF TypeOK
  <2>3. PlaceInv' /\ HandleInv'
    BY <1>inv, <1>types, <1>1, <1>2, <1>3, <2>1, PenaliseEffect
       DEF PlaceInv, HandleInv, Calling, Ends, InnerLimit, Single
  <2>4. AnswerInv'
    BY <1>inv, <1>1, <1>3, <2>1 DEF AnswerInv, Ongoing, Calling
  <2>5. LogInv'
    BY <1>inv, <1>1, <1>2, <1>3, <2>1, PenaliseEffect DEF LogInv, Over, Ends
  <2>6. BudgetInv'
    BY <1>inv, <1>1, <1>3, <2>1, BudgetSame
  <2> QED  BY <2>2, <2>3, <2>4, <2>5, <2>6 DEF Inv, ChatInv
<1>4. CASE pc' = "recheck"
  <2>1. /\ ~sent /\ pc \in {"call", "select"} /\ InnerRetry(why) /\ inner' = inner + 1 /\ inner < limit - 1
        /\ reuse' = TRUE /\ UNCHANGED <<next, outer, finals, tried, penalised>>
    BY <1>4, FailCases, PenaliseEffect, <1>1
  <2>2. TypeOK'
    <3>1. inner' \in 0..(Inner - 1)
      <4>1. limit <= Inner /\ Inner \in Nat
        BY <1>inv, ChatAssumption DEF TypeOK
      <4> QED  BY <1>types, <2>1, <4>1
    <3> QED  BY <1>inv, <1>1, <1>4, <2>1, <3>1 DEF TypeOK
  <2>3. PlaceInv' /\ HandleInv'
    BY <1>inv, <1>types, <1>1, <1>2, <1>4, <2>1 DEF PlaceInv, HandleInv, Calling, Ends, InnerLimit, Single
  <2>4. AnswerInv'
    BY <1>inv, <1>1, <1>4, <2>1 DEF AnswerInv, Ongoing, Calling
  <2>5. LogInv'
    BY <1>inv, <1>1, <1>2, <1>4, <2>1 DEF LogInv, Over, Ends
  <2>6. BudgetInv'
    <3>1. TotalAttempts' = TotalAttempts /\ InnerLimit' = InnerLimit /\ Turns' = Turns
      BY <1>1, <2>1 DEF Turns, TotalAttempts, InnerLimit, Single
    <3>2. handle = "none" => Spent
      BY <1>inv, <1>2, <2>1 DEF BudgetInv
    <3>3. handle = "open" => Trying(0)'
      <4> SUFFICES ASSUME handle = "open" PROVE Trying(0)'
        OBVIOUS
      <4>1. Trying(1) /\ limit = InnerLimit
        BY <1>inv, <1>2, <2>1 DEF BudgetInv
      <4>2. visited # {} /\ outer < TotalAttempts
        BY <1>inv, <2>1 DEF BudgetInv
      <4>3. InnerLimit * Turns \in Nat /\ Turns \in Nat
        BY <1>inv, <4>2, TurnsBound
      <4> QED  BY <1>types, <1>1, <2>1, <3>1, <4>1, <4>3 DEF Trying
    <3> QED  BY <1>inv, <1>1, <1>4, <2>1, <3>1, <3>2, <3>3 DEF BudgetInv, CallBudget, Spent
  <2> QED  BY <2>2, <2>3, <2>4, <2>5, <2>6 DEF Inv, ChatInv
<1>5. CASE pc' = "finally"
  <2>1. /\ ~sent /\ Finalize("error") /\ UNCHANGED <<inner, reuse>>
        /\ \/ next' = "recheck" /\ outer' = outer + 1 /\ outer < TotalAttempts - 1
           \/ next' \in {"clientError", "exhausted"} /\ outer' = outer
    BY <1>5, FailCases
  <2>2. /\ finals' \in [Candidates -> Seq({"ok", "error", "cancelled"})]
        /\ \A n \in Candidates : finals'[n] = IF n = cand /\ handle # "none" THEN <<"error">> ELSE finals[n]
    <3>1. TypeOK /\ Finalize("error")
      BY <1>inv, <2>1
    <3>2. handle # "none" => cand > 0 /\ finals[cand] = <<>>
      BY <1>inv, <1>types, <1>1, <1>2, <2>1
    <3> QED  BY <3>1, <3>2, FinalizedRows
  <2>3. TotalAttempts' = TotalAttempts /\ InnerLimit' = InnerLimit
    BY <1>1 DEF TotalAttempts, InnerLimit, Single
  <2>4. TypeOK'
    <3>1. outer' \in 0..(Attempts - 1)
      <4>1. /\ outer \in Nat /\ outer <= Attempts - 1 /\ TotalAttempts \in Nat /\ TotalAttempts <= Attempts
            /\ Attempts \in Nat
        BY <1>inv, <1>types, Numbers DEF TypeOK
      <4>2. outer' = outer \/ (outer' = outer + 1 /\ outer < TotalAttempts - 1)
        BY <2>1
      <4> QED  BY <4>1, <4>2
    <3>2. tried' \subseteq Accounts /\ penalised' \subseteq Candidates
      BY <1>1, PenaliseEffect
    <3> QED  BY <1>inv, <1>1, <1>5, <2>1, <2>2, <3>1, <3>2 DEF TypeOK
  <2>5. PlaceInv'
    BY <1>inv, <1>1, <1>2, <1>5, <2>1, <2>3 DEF PlaceInv, Calling, Ends
  <2>6. HandleInv'
    BY <1>inv, <1>types, <1>1, <1>2, <2>2, PenaliseEffect DEF HandleInv
  <2>7. AnswerInv'
    <3>1. answered = {}
      BY <1>inv, <1>1, <2>1 DEF AnswerInv, Ongoing, Calling
    <3> QED  BY <1>inv, <1>1, <1>5, <2>1, <3>1 DEF AnswerInv, Ongoing, Calling
  <2>8. LogInv'
    <3>1. started \subseteq Candidates /\ penalised \subseteq Candidates
      BY <1>inv DEF TypeOK
    <3>2. \A n \in Candidates : finals'[n] = <<>> \/ \E s \in {"ok", "error", "cancelled"} : finals'[n] = <<s>>
      BY <1>inv, <2>2 DEF LogInv
    <3>3. \A n \in started : n < cand => finals'[n] # <<>>
      BY <1>inv, <2>2, <3>1 DEF LogInv
    <3>4. cand \in started => finals'[cand] # <<>>
      BY <1>inv, <1>1, <1>2, <2>2, <3>1 DEF LogInv, Over
    <3>5. ASSUME NEW n \in penalised' PROVE finals'[n] # <<"ok">>
      <4>1. CASE n = cand /\ handle # "none"
        BY <1>1, <1>2, <2>2, <4>1
      <4>2. CASE ~(n = cand /\ handle # "none")
        <5>1. n \in penalised
          BY <1>1, <3>5, <4>2, PenaliseEffect
        <5> QED  BY <1>inv, <2>2, <3>1, <4>2, <5>1 DEF LogInv
      <4> QED  BY <4>1, <4>2
    <3> QED  BY <1>1, <1>5, <3>2, <3>3, <3>4, <3>5 DEF LogInv, Over, Ends
  <2>9. BudgetInv'
    <3>1. visited # {} /\ outer < TotalAttempts
      BY <1>inv, <1>1 DEF BudgetInv
    <3>2. CASE next' # "recheck"
      BY <1>inv, <1>1, <1>5, <2>1, <3>2, BudgetSame
    <3>3. CASE next' = "recheck"
      <4>1. /\ Turns \in Nat /\ InnerLimit * Turns \in Nat /\ InnerLimit \in Nat
            /\ TotalAttempts \in Nat /\ Cardinality(visited) \in Nat
        BY <1>inv, <3>1, TurnsBound, Numbers
      <4>2. outer' = outer + 1 /\ outer < TotalAttempts - 1
        BY <2>1, <3>3
      <4>3. Turns' = Turns + 1
        BY <1>types, <1>1, <2>3, <4>1, <4>2 DEF Turns
      <4>4. InnerLimit * (Turns + 1) = InnerLimit * Turns + InnerLimit
        BY <4>1
      <4>5. cand <= Turns + 1 /\ calls <= InnerLimit * Turns + InnerLimit
        <5>1. CASE Spent
          BY <1>types, <4>1, <5>1 DEF Spent
        <5>2. CASE Trying(0) \/ Trying(1)
          BY <1>types, <4>1, <5>2 DEF Trying
        <5>3. Spent \/ Trying(0) \/ Trying(1)
          BY <1>inv, <1>1 DEF BudgetInv
        <5> QED  BY <5>1, <5>2, <5>3
      <4>6. Spent'
        BY <1>1, <2>3, <4>3, <4>4, <4>5 DEF Spent
      <4> QED  BY <1>inv, <1>types, <1>1, <1>5, <2>3, <3>1, <4>1, <4>2, <4>6 DEF BudgetInv, CallBudget
    <3> QED  BY <3>2, <3>3
  <2> QED  BY <2>4, <2>5, <2>6, <2>7, <2>8, <2>9 DEF Inv, ChatInv
<1> QED  BY <1>3, <1>4, <1>5, FailCases

LEMMA ChatStep == Inv /\ [Next]_vars => Inv'
<1> SUFFICES ASSUME Inv, [Next]_vars PROVE Inv'
  OBVIOUS
<1>1. CASE UNCHANGED vars
  BY <1>1 DEF vars, catalogue, loop, reservations, logs, history, Inv, TypeOK, ChatInv, PlaceInv, HandleInv,
              AnswerInv, LogInv, BudgetInv, Ongoing, Calling, Over, Spent, Trying, Turns, CallBudget,
              TotalAttempts, InnerLimit, Single
<1>2. CASE Next
  BY <1>2, ResolveStep, FallbackStep, RecheckStep, SelectStep, PrepareStep, OutputStep, CompleteStep,
     SettleStep, FailStep, CancelStep, FinallyStep, CutStep, UpdateStep DEF Next, Progress
<1> QED  BY <1>1, <1>2

LEMMA ChatCorrect == Spec => []Inv
BY ChatInit, ChatStep, PTL DEF Spec

-----------------------------------------------------------------------------
(* What follows *)

LEMMA ApartFollows == Inv => CandidatesApart
<1> SUFFICES ASSUME Inv PROVE CandidatesApart
  OBVIOUS
<1>inv. TypeOK /\ PlaceInv /\ HandleInv /\ AnswerInv /\ LogInv /\ BudgetInv
  BY DEF Inv, ChatInv
<1>types. cand > 0 => cand \in Candidates
  BY <1>inv, Types
<1>1. OneSlot
  BY <1>inv, <1>types DEF OneSlot, HandleInv, PlaceInv, Calling
<1>2. FinalOnce
  <2>1. \A n \in Candidates : Len(finals[n]) <= 1 /\ (finals[n] # <<>> => Len(finals[n]) = 1)
    <3> TAKE n \in Candidates
    <3>1. CASE finals[n] = <<>>
      BY <3>1
    <3>2. CASE finals[n] # <<>>
      <4>1. PICK s \in {"ok", "error", "cancelled"} : finals[n] = <<s>>
        BY <1>inv, <3>2 DEF LogInv
      <4>2. Len(<<s>>) = 1
        OBVIOUS
      <4> QED  BY <4>1, <4>2
    <3> QED  BY <3>1, <3>2
  <2>2. started \subseteq Candidates
    BY <1>inv DEF TypeOK
  <2> QED  BY <1>inv, <2>1, <2>2 DEF FinalOnce, LogInv
<1>3. NotChargedUnserved /\ PenalisedFailed /\ CallBudget
  BY <1>inv DEF NotChargedUnserved, PenalisedFailed, AnswerInv, LogInv, BudgetInv
<1> QED  BY <1>inv, <1>1, <1>2, <1>3 DEF CandidatesApart

LEMMA EndFollows == Inv => CleanEnd
<1> SUFFICES ASSUME Inv PROVE CleanEnd
  OBVIOUS
<1>inv. TypeOK /\ PlaceInv /\ HandleInv /\ AnswerInv /\ LogInv /\ BudgetInv
  BY DEF Inv, ChatInv
<1>types. cand \in Nat /\ Candidates \subseteq Nat /\ started \subseteq Candidates /\ answered \subseteq Candidates
  BY <1>inv, Types DEF TypeOK
<1>1. SlotsFreed
  BY <1>inv DEF SlotsFreed, Done, PlaceInv, HandleInv
<1>2. LedgerTells
  BY <1>inv, <1>types DEF LedgerTells, Done, Ends, AnswerInv, Calling
<1>3. LogsClosed
  <2> SUFFICES ASSUME Done, pc # "keyError", NEW n \in started, n \notin cut PROVE finals[n] # <<>>
    BY DEF LogsClosed
  <2>1. n \in Candidates /\ n \in Nat
    BY <1>types
  <2>2. n <= cand
    BY <1>inv, <1>types, <2>1 DEF HandleInv
  <2>3. CASE n < cand
    BY <1>inv, <2>3 DEF LogInv
  <2>4. CASE n = cand
    BY <1>inv, <2>4 DEF LogInv, Over, Done
  <2> QED  BY <1>types, <2>1, <2>2, <2>3, <2>4
<1> QED  BY <1>1, <1>2, <1>3 DEF CleanEnd

\* However failures, cancellations, retries and fallbacks follow one another: the
\* request holds one slot at a time, finalises every row once, charges only who
\* answered, penalises only who failed, and sends no more requests upstream than
\* configured (_chat_with_retry_for_model, _run_group_fallback_pipeline).
THEOREM KeptApart == Spec => []CandidatesApart
BY ChatCorrect, ApartFollows, PTL

\* When a request ends, cancelled or not, its slot is free, the ledger tells who
\* answered and every started row is final.  The exceptions are named: a key that
\* fails between two requests to a candidate, and a cancellation that arrives
\* while keep_served_usage or the finally clause is waiting.
THEOREM EndsClean == Spec => []CleanEnd
BY ChatCorrect, EndFollows, PTL

\* Once output has reached the client nothing is sent upstream again, by no inner
\* retry, no other candidate and no backup group.
THEOREM NeverReplays == Spec => NoReplay
<1>1. Inv /\ [Next]_vars => [calls' # calls => answered = {}]_vars
  <2> SUFFICES ASSUME Inv, Next, calls' # calls PROVE answered = {}
    BY DEF vars
  <2>1. Prepare \/ \E key \in KeyStates : Recheck(key)
    BY DEF Next, Progress, Resolve, Fallback, SelectNothing, Select, Chunk, Flush, Complete, Commit, Fail,
           KeepError, KeepCancel, Finally, CutFinally, Cancel, UpdateCatalogue, history
  <2>2. pc \in {"prepare", "recheck"}
    BY <2>1 DEF Prepare, Recheck
  <2> QED  BY <2>2 DEF Inv, ChatInv, AnswerInv, Ongoing
<1> QED  BY <1>1, ChatCorrect, PTL DEF Spec, NoReplay

-----------------------------------------------------------------------------
(* The requests of a process that choose and reserve accounts: CandidateSelection *)

LEMMA SameSizes ==
    /\ \A S : Selection!IsFiniteSet(S) <=> IsFiniteSet(S)
    /\ \A S : Selection!Cardinality(S) = Cardinality(S)
BY DEF Selection!IsFiniteSet, IsFiniteSet, Selection!Cardinality, Cardinality

InUse(r) == at[r] \in {"hold", "done"}

\* Another request has been choosing, and one of the two is a test.
Disturbed(r) == \E q \in Requests \ {r} : choice[q] # Selection!Nothing /\ "test" \in {kind[q], kind[r]}

\* Where a request is in its lists, and what it has picked.
Located(r) ==
    /\ at[r] \in {"collect", "select", "reserve"} => node[r] <= Len(lists[r])
    /\ at[r] \in {"select", "reserve"} => node[r] # 0 /\ remaining[r] \subseteq lists[r][node[r]]
    /\ at[r] = "reserve" => choice[r] \in remaining[r]
    /\ at[r] \in {"reserve", "record", "hold", "done"} => choice[r] \in Selection!Candidate

\* What is left of a list and the attempts on it stay within its length; the
\* candidate that is being reserved counts for both.
Room(r) ==
    /\ at[r] = "select" => Cardinality(remaining[r]) + attempts[r] <= Selection!MaxAttempts(r)
    /\ at[r] = "reserve" => Cardinality(remaining[r]) + attempts[r] <= Selection!MaxAttempts(r) + 1

\* A script that was not answered is remembered, or ends the request; there is one,
\* and it leaves one slot.
Doubt(r) ==
    /\ \/ unanswered[r] = 0
       \/ /\ unanswered[r] = 1 /\ (unsure[r] \/ at[r] = "cancelled")
          /\ at[r] \notin {"record", "hold", "done"}
    /\ unanswered[r] = 0 => pending[r] = "none"
    /\ unanswered[r] = 0 \/ pending[r] # "none" => \A a \in Accounts : r \notin strays[a]
    /\ \A a, b \in Accounts : r \in strays[a] /\ r \in strays[b] => a = b

\* Between the pick and the answer a request knows what it is.
Ledger(r) ==
    /\ r \in counted => kind[r] = "normal"
    /\ at[r] = "reserve" => testing[r] = Selection!IsTesting(r)
    /\ at[r] \in {"record", "hold"} /\ kind[r] = "normal" => r \in counted

\* The mark of the account is the request's own, unless the request was disturbed.
Marked(r) ==
    /\ at[r] \in {"collect", "select", "reserve", "record"} => r \notin recorded
    /\ at[r] = "reserve" => isTest[choice[r].account] = Selection!IsTesting(r) \/ Disturbed(r)
    /\ at[r] = "record" => kind[r] = "normal" \/ Disturbed(r)
    /\ at[r] = "hold" => (r \in recorded <=> kind[r] = "normal") \/ Disturbed(r)

\* The route of an account in use is the candidate of a request that uses it.
Routed(r) ==
    /\ ~InUse(r) => sentWith[r] = {}
    /\ at[r] = "hold" => \E q \in Requests : InUse(q) /\ choice[q] = lastRoute[choice[r].account]
    /\ \A c \in sentWith[r] \ {choice[r]} : \E q \in Requests \ {r} : InUse(q) /\ choice[q] = c

Proceeds(r) == Located(r) /\ Room(r) /\ Doubt(r) /\ Ledger(r)
Shares(r) == Marked(r) /\ Routed(r)

SelectionInv ==
    Selection!TypeOK /\ Selection!SlotsOfHolders /\ \A r \in Requests : Proceeds(r) /\ Shares(r)

-----------------------------------------------------------------------------
(* Candidates and their lists *)

LEMMA CandidateIsSome == \A c \in Selection!Candidate : c # Selection!Nothing /\ c.account \in Accounts
BY DEF Selection!Candidate, Selection!Nothing

LEMMA ListsAreFinite ==
    ASSUME Selection!SelectionAssumption, Selection!TypeOK, NEW r \in Requests, node[r] # 0, node[r] <= Len(lists[r])
    PROVE  /\ IsFiniteSet(lists[r][node[r]]) /\ lists[r][node[r]] \subseteq Selection!Candidate
           /\ Selection!MaxAttempts(r) \in Nat
<1>1. lists[r] \in Seq(SUBSET Selection!Candidate) /\ node[r] \in 1 .. Len(lists[r]) /\ lists[r] \in Lists
  BY DEF Selection!SelectionAssumption, Selection!TypeOK
<1>2. IsFiniteSet(lists[r][node[r]]) /\ lists[r][node[r]] \subseteq Selection!Candidate
  BY <1>1, SameSizes DEF Selection!SelectionAssumption
<1> QED  BY <1>2, FS_CardinalityType, SameSizes DEF Selection!MaxAttempts

\* A refusal takes out the candidate, whatever the reason.
LEMMA WithoutShortens ==
    ASSUME NEW R, IsFiniteSet(R), NEW c \in R, NEW reason
    PROVE  /\ Selection!Without(R, c, reason) \subseteq R
           /\ Cardinality(Selection!Without(R, c, reason)) + 1 <= Cardinality(R)
           /\ Cardinality(Selection!Without(R, c, reason)) \in Nat
<1>1. Selection!Without(R, c, reason) \subseteq R \ {c}
  BY DEF Selection!Without
<1>2. IsFiniteSet(R \ {c}) /\ Cardinality(R \ {c}) = Cardinality(R) - 1 /\ Cardinality(R) \in Nat
  BY FS_RemoveElement, FS_CardinalityType
<1>3. /\ IsFiniteSet(Selection!Without(R, c, reason))
      /\ Cardinality(Selection!Without(R, c, reason)) <= Cardinality(R \ {c})
  BY <1>1, <1>2, FS_Subset
<1> QED  BY <1>1, <1>2, <1>3, FS_CardinalityType

-----------------------------------------------------------------------------
(* What a step leaves alone *)

\* A step of s is s's own but for the account objects and the ledgers.
OthersStay(s) ==
    /\ kind' = kind /\ lists' = lists
    /\ \A r \in Requests \ {s} :
          /\ at'[r] = at[r] /\ node'[r] = node[r] /\ remaining'[r] = remaining[r]
          /\ attempts'[r] = attempts[r] /\ choice'[r] = choice[r] /\ testing'[r] = testing[r]
          /\ unsure'[r] = unsure[r] /\ unanswered'[r] = unanswered[r] /\ sentWith'[r] = sentWith[r]
          /\ pending'[r] = pending[r] /\ \A a \in Accounts : r \in strays'[a] <=> r \in strays[a]
          /\ r \in counted' <=> r \in counted
          /\ r \in recorded' <=> r \in recorded

\* s marks an account only for what it is, and leaves its own route on it only.
MarksOwn(s) ==
    /\ \/ isTest' = isTest
       \/ \E b \in BOOLEAN : /\ isTest' = [isTest EXCEPT ![choice'[s].account] = b]
                             /\ b => kind[s] = "test"
                             /\ choice'[s] \in Selection!Candidate
    /\ \/ lastRoute' = lastRoute
       \/ /\ lastRoute' = [lastRoute EXCEPT ![choice'[s].account] = choice'[s]]
          /\ at'[s] = "hold" /\ choice'[s] \in Selection!Candidate
    /\ InUse(s) => at'[s] \in {"hold", "done"} /\ choice'[s] = choice[s]
    /\ choice[s] # Selection!Nothing => choice'[s] # Selection!Nothing

LEMMA OthersKeep ==
    ASSUME SelectionInv, NEW s \in Requests, OthersStay(s), MarksOwn(s)
    PROVE  \A r \in Requests \ {s} : Proceeds(r)' /\ Shares(r)'
<1> SUFFICES ASSUME NEW r \in Requests \ {s} PROVE Proceeds(r)' /\ Shares(r)'
  OBVIOUS
<1>0. Proceeds(r) /\ Shares(r) /\ Selection!TypeOK
  BY DEF SelectionInv
<1>1. Proceeds(r)'
  BY <1>0 DEF OthersStay, Proceeds, Located, Room, Selection!MaxAttempts, Doubt, Ledger, Selection!IsTesting
<1>2. Disturbed(r) => Disturbed(r)'
  <2> SUFFICES ASSUME NEW q \in Requests \ {r}, choice[q] # Selection!Nothing, "test" \in {kind[q], kind[r]}
               PROVE  choice'[q] # Selection!Nothing /\ "test" \in {kind'[q], kind'[r]}
    BY DEF Disturbed
  <2> QED  BY DEF OthersStay, MarksOwn
<1>3. \A q \in Requests : InUse(q) => InUse(q)' /\ choice'[q] = choice[q]
  BY DEF OthersStay, MarksOwn, InUse
<1>4. Marked(r)'
  <2>1. ASSUME at[r] = "reserve" PROVE (isTest[choice[r].account] = Selection!IsTesting(r))' \/ Disturbed(r)'
    <3>0. choice[r] \in Selection!Candidate /\ choice[r].account \in Accounts /\ choice'[r] = choice[r] /\ kind' = kind
      BY <1>0, <2>1, CandidateIsSome DEF Proceeds, Located, OthersStay
    <3>1. CASE isTest' = isTest
      BY <1>0, <1>2, <2>1, <3>0, <3>1 DEF Shares, Marked, Selection!IsTesting
    <3>2. ASSUME NEW b \in BOOLEAN, isTest' = [isTest EXCEPT ![choice'[s].account] = b],
                 b => kind[s] = "test", choice'[s] \in Selection!Candidate
          PROVE  (isTest[choice[r].account] = Selection!IsTesting(r))' \/ Disturbed(r)'
      <4>1. CASE choice'[s].account # choice[r].account
        <5>1. isTest'[choice[r].account] = isTest[choice[r].account]
          BY <1>0, <3>0, <3>2, <4>1 DEF Selection!TypeOK
        <5> QED  BY <1>0, <1>2, <2>1, <3>0, <5>1 DEF Shares, Marked, Selection!IsTesting
      <4>2. CASE choice'[s].account = choice[r].account
        <5>1. isTest'[choice[r].account] = b
          BY <1>0, <3>0, <3>2, <4>2 DEF Selection!TypeOK
        <5>2. CASE "test" \in {kind[s], kind[r]}
          <6>1. choice'[s] # Selection!Nothing /\ s \in Requests \ {r}
            BY <3>2, CandidateIsSome
          <6> QED  BY <3>0, <5>2, <6>1 DEF Disturbed
        <5>3. CASE "test" \notin {kind[s], kind[r]}
          <6>1. b = FALSE /\ ~(kind[r] = "test")
            BY <3>2, <5>3
          <6> QED  BY <3>0, <5>1, <6>1 DEF Selection!IsTesting
        <5> QED  BY <5>2, <5>3
      <4> QED  BY <4>1, <4>2
    <3> QED  BY <3>1, <3>2 DEF MarksOwn
  <2> QED  BY <1>0, <1>2, <2>1 DEF OthersStay, Shares, Marked
<1>5. Routed(r)'
  <2>1. ASSUME at[r] = "hold"
        PROVE  \E q \in Requests : InUse(q)' /\ choice'[q] = lastRoute'[choice'[r].account]
    <3>0. /\ choice[r] \in Selection!Candidate /\ choice[r].account \in Accounts /\ choice'[r] = choice[r]
          /\ \E q \in Requests : InUse(q) /\ choice[q] = lastRoute[choice[r].account]
      BY <1>0, <2>1, CandidateIsSome DEF Proceeds, Located, OthersStay, Shares, Routed
    <3>1. CASE lastRoute'[choice[r].account] = lastRoute[choice[r].account]
      BY <1>3, <3>0, <3>1
    <3>2. CASE lastRoute'[choice[r].account] # lastRoute[choice[r].account]
      <4>1. lastRoute'[choice[r].account] = choice'[s] /\ at'[s] = "hold"
        BY <1>0, <3>0, <3>2 DEF MarksOwn, Selection!TypeOK
      <4> QED  BY <3>0, <4>1 DEF InUse
    <3> QED  BY <3>1, <3>2
  <2>2. \A c \in sentWith'[r] \ {choice'[r]} : \E q \in Requests \ {r} : InUse(q)' /\ choice'[q] = c
    BY <1>0, <1>3 DEF OthersStay, Shares, Routed
  <2> QED  BY <1>0, <2>1, <2>2 DEF OthersStay, Shares, Routed, InUse
<1> QED  BY <1>1, <1>4, <1>5 DEF Shares

\* Without a change of hands the slots stay those of the holders.
LEMMA HoldersStay ==
    ASSUME SelectionInv, NEW s \in Requests, OthersStay(s), UNCHANGED <<slots, inFlight>>,
           at[s] \in {"record", "hold"} <=> at'[s] \in {"record", "hold"},
           at[s] \in {"record", "hold"} => choice'[s] = choice[s]
    PROVE  Selection!SlotsOfHolders'
<1>1. \A a \in Accounts : Selection!Holders(a)' = Selection!Holders(a)
  BY DEF Selection!Holders, OthersStay
<1> QED  BY <1>1 DEF SelectionInv, Selection!SlotsOfHolders

\* A lease is given back.
LEMMA LeaseReturned ==
    ASSUME Selection!SelectionAssumption, SelectionInv, NEW s \in Requests, OthersStay(s), choice' = choice, Selection!Detach(s),
           at[s] \in {"record", "hold"}, at'[s] \notin {"record", "hold"}
    PROVE  Selection!SlotsOfHolders' /\ inFlight' \in [Accounts -> Nat] /\ slots' \in [Accounts -> SUBSET Requests]
<1>0. PICK b \in Accounts : b = choice[s].account
  BY CandidateIsSome DEF SelectionInv, Proceeds, Located
<1>1. /\ Selection!TypeOK /\ Selection!SlotsOfHolders
      /\ inFlight' = [inFlight EXCEPT ![b] = @ - 1] /\ slots' = [slots EXCEPT ![b] = @ \ {s}]
  BY <1>0 DEF SelectionInv, Selection!Detach
<1>2. \A a \in Accounts : IsFiniteSet(Selection!Holders(a))
  BY FS_Subset, SameSizes DEF Selection!SelectionAssumption, Selection!Holders
<1>3. Selection!Holders(b)' = Selection!Holders(b) \ {s} /\ s \in Selection!Holders(b)
  BY <1>0 DEF Selection!Holders, OthersStay
<1>4. \A a \in Accounts \ {b} : Selection!Holders(a)' = Selection!Holders(a)
  BY <1>0 DEF Selection!Holders, OthersStay
<1>5. Cardinality(Selection!Holders(b)') = Cardinality(Selection!Holders(b)) - 1 /\ Cardinality(Selection!Holders(b)') \in Nat
  BY <1>1, <1>2, <1>3, FS_RemoveElement, FS_CardinalityType
<1>6. Selection!SlotsOfHolders'
  <2> SUFFICES ASSUME NEW a \in Accounts PROVE slots'[a] = Selection!Holders(a)' /\ inFlight'[a] = Cardinality(Selection!Holders(a)')
    BY SameSizes DEF Selection!SlotsOfHolders
  <2>1. CASE a = b
    BY <1>1, <1>3, <1>5, <2>1, SameSizes DEF Selection!TypeOK, Selection!SlotsOfHolders
  <2>2. CASE a # b
    BY <1>1, <1>4, <2>2, SameSizes DEF Selection!TypeOK, Selection!SlotsOfHolders
  <2> QED  BY <2>1, <2>2
<1>7. inFlight'[b] = Cardinality(Selection!Holders(b)')
  BY <1>1, <1>6, SameSizes DEF Selection!SlotsOfHolders
<1>8. inFlight' \in [Accounts -> Nat]
  BY <1>1, <1>5, <1>7 DEF Selection!TypeOK
<1> QED  BY <1>1, <1>6, <1>8 DEF Selection!TypeOK

\* A lease is granted.
LEMMA LeaseGranted ==
    ASSUME Selection!SelectionAssumption, SelectionInv, NEW s \in Requests, OthersStay(s), choice' = choice,
           at[s] = "reserve", at'[s] \in {"record", "hold"},
           inFlight' = [inFlight EXCEPT ![choice[s].account] = @ + 1],
           slots' = [slots EXCEPT ![choice[s].account] = @ \cup {s}]
    PROVE  Selection!SlotsOfHolders' /\ inFlight' \in [Accounts -> Nat] /\ slots' \in [Accounts -> SUBSET Requests]
<1>0. PICK b \in Accounts : b = choice[s].account
  BY CandidateIsSome DEF SelectionInv, Proceeds, Located
<1>1. /\ Selection!TypeOK /\ Selection!SlotsOfHolders
      /\ inFlight' = [inFlight EXCEPT ![b] = @ + 1] /\ slots' = [slots EXCEPT ![b] = @ \cup {s}]
  BY <1>0 DEF SelectionInv
<1>2. \A a \in Accounts : IsFiniteSet(Selection!Holders(a))
  BY FS_Subset, SameSizes DEF Selection!SelectionAssumption, Selection!Holders
<1>3. Selection!Holders(b)' = Selection!Holders(b) \cup {s} /\ s \notin Selection!Holders(b)
  BY <1>0 DEF Selection!Holders, OthersStay
<1>4. \A a \in Accounts \ {b} : Selection!Holders(a)' = Selection!Holders(a)
  BY <1>0 DEF Selection!Holders, OthersStay
<1>5. Cardinality(Selection!Holders(b)') = Cardinality(Selection!Holders(b)) + 1
  BY <1>1, <1>2, <1>3, FS_AddElement
<1>6. Selection!SlotsOfHolders'
  <2> SUFFICES ASSUME NEW a \in Accounts PROVE slots'[a] = Selection!Holders(a)' /\ inFlight'[a] = Cardinality(Selection!Holders(a)')
    BY SameSizes DEF Selection!SlotsOfHolders
  <2>1. CASE a = b
    BY <1>1, <1>3, <1>5, <2>1, SameSizes DEF Selection!TypeOK, Selection!SlotsOfHolders
  <2>2. CASE a # b
    BY <1>1, <1>4, <2>2, SameSizes DEF Selection!TypeOK, Selection!SlotsOfHolders
  <2> QED  BY <2>1, <2>2
<1> QED  BY <1>1, <1>6 DEF Selection!TypeOK

\* What a step of s leaves of the marks of the others on s.
LEMMA DisturbanceStays ==
    ASSUME NEW s \in Requests, OthersStay(s), Disturbed(s) PROVE Disturbed(s)'
BY DEF Disturbed, OthersStay

LEMMA StepKeeps ==
    ASSUME SelectionInv, NEW s \in Requests, OthersStay(s), MarksOwn(s),
           Selection!TypeOK', Selection!SlotsOfHolders', Proceeds(s)', Shares(s)'
    PROVE  SelectionInv'
<1>1. \A r \in Requests : Proceeds(r)' /\ Shares(r)'
  BY OthersKeep
<1> QED  BY <1>1 DEF SelectionInv

-----------------------------------------------------------------------------
(* The loop over the candidate lists *)

LEMMA CollectKeeps ==
    ASSUME Selection!SelectionAssumption, SelectionInv, NEW s \in Requests, Selection!Collect(s) PROVE SelectionInv'
<1>0. Selection!TypeOK /\ Proceeds(s) /\ Shares(s) /\ at[s] = "collect" /\ node[s] \in Nat /\ node[s] <= Len(lists[s])
  BY DEF SelectionInv, Selection!Collect, Proceeds, Located, Selection!TypeOK
<1>1. OthersStay(s) /\ MarksOwn(s)
  BY <1>0 DEF Selection!Collect, OthersStay, MarksOwn, InUse, Selection!TypeOK, Selection!account_client, Selection!ledgers, Selection!history
<1>2. lists[s] \in Seq(SUBSET Selection!Candidate) /\ lists[s] \in Lists
  BY <1>0 DEF Selection!TypeOK, Selection!SelectionAssumption
<1>3. CASE node[s] = Len(lists[s])
  <2>1. /\ at' = [at EXCEPT ![s] = "none"] /\ node' = [node EXCEPT ![s] = @ + 1]
        /\ UNCHANGED <<kind, lists, remaining, attempts, choice, testing, unsure, isTest, lastRoute, inFlight,
                       slots, strays, counted, recorded, unanswered, pending, sentWith, resends, breaks>>
    BY <1>3 DEF Selection!Collect, Selection!account_client, Selection!ledgers, Selection!history
  <2>2. Selection!TypeOK' /\ at'[s] = "none"
    BY <1>0, <2>1 DEF Selection!TypeOK
  <2>3. Proceeds(s)'
    BY <1>0, <2>1, <2>2 DEF Proceeds, Located, Room, Doubt, Ledger
  <2>4. Shares(s)'
    BY <1>0, <2>1, <2>2 DEF Shares, Marked, Routed, InUse
  <2>5. Selection!SlotsOfHolders'
    BY <1>0, <1>1, <2>1, <2>2, HoldersStay
  <2> QED  BY <1>1, <2>2, <2>3, <2>4, <2>5, StepKeeps
<1>4. CASE node[s] # Len(lists[s])
  <2>1. /\ at' = [at EXCEPT ![s] = "select"] /\ node' = [node EXCEPT ![s] = @ + 1]
        /\ remaining' = [remaining EXCEPT ![s] = lists[s][node[s] + 1]]
        /\ attempts' = [attempts EXCEPT ![s] = 0]
        /\ UNCHANGED <<kind, lists, choice, testing, unsure, isTest, lastRoute, inFlight,
                       slots, strays, counted, recorded, unanswered, pending, sentWith, resends, breaks>>
    BY <1>4 DEF Selection!Collect, Selection!account_client, Selection!ledgers, Selection!history
  <2>a. node[s] + 1 \in 1 .. Len(lists[s])
    BY <1>0, <1>2, <1>4
  <2>b. lists[s][node[s] + 1] \subseteq Selection!Candidate /\ IsFiniteSet(lists[s][node[s] + 1])
    BY <1>2, <2>a, SameSizes DEF Selection!SelectionAssumption
  <2>2. Selection!TypeOK' /\ at'[s] = "select" /\ node'[s] = node[s] + 1 /\ attempts'[s] = 0
        /\ remaining'[s] = lists'[s][node'[s]] /\ lists'[s] = lists[s]
    BY <1>0, <2>1, <2>b DEF Selection!TypeOK
  <2>c. Cardinality(remaining'[s]) \in Nat /\ Selection!MaxAttempts(s)' = Cardinality(remaining'[s])
    BY <2>b, <2>2, FS_CardinalityType, SameSizes DEF Selection!MaxAttempts
  <2>3. Proceeds(s)'
    BY <1>0, <1>2, <2>1, <2>2, <2>a, <2>c DEF Proceeds, Located, Room, Doubt, Ledger
  <2>4. Shares(s)'
    BY <1>0, <2>1, <2>2 DEF Shares, Marked, Routed, InUse
  <2>5. Selection!SlotsOfHolders'
    BY <1>0, <1>1, <2>1, <2>2, HoldersStay
  <2> QED  BY <1>1, <2>2, <2>3, <2>4, <2>5, StepKeeps
<1> QED  BY <1>3, <1>4

LEMMA GiveUpKeeps ==
    ASSUME Selection!SelectionAssumption, SelectionInv, NEW s \in Requests, Selection!GiveUp(s) PROVE SelectionInv'
<1>0. Selection!TypeOK /\ Proceeds(s) /\ Shares(s) /\ at[s] = "select"
  BY DEF SelectionInv, Selection!GiveUp
<1>1. OthersStay(s) /\ MarksOwn(s)
  BY <1>0 DEF Selection!GiveUp, OthersStay, MarksOwn, InUse, Selection!TypeOK, Selection!account_client, Selection!ledgers, Selection!history, Selection!loop
<1>2. /\ at' = [at EXCEPT ![s] = "collect"]
      /\ UNCHANGED <<kind, lists, node, remaining, attempts, choice, testing, unsure, isTest, lastRoute, inFlight,
                     slots, strays, counted, recorded, unanswered, pending, sentWith, resends, breaks>>
  BY DEF Selection!GiveUp, Selection!account_client, Selection!ledgers, Selection!history, Selection!loop
<1>3. Selection!TypeOK' /\ at'[s] = "collect"
  BY <1>0, <1>2 DEF Selection!TypeOK
<1>4. Proceeds(s)'
  BY <1>0, <1>2, <1>3 DEF Proceeds, Located, Room, Doubt, Ledger
<1>5. Shares(s)'
  BY <1>0, <1>2, <1>3 DEF Shares, Marked, Routed, InUse
<1>6. Selection!SlotsOfHolders'
  BY <1>0, <1>1, <1>2, <1>3, HoldersStay
<1> QED  BY <1>1, <1>3, <1>4, <1>5, <1>6, StepKeeps

LEMMA PickKeeps ==
    ASSUME Selection!SelectionAssumption, SelectionInv, NEW s \in Requests, NEW c \in remaining[s], Selection!Pick(s, c)
    PROVE  SelectionInv'
<1>0. Selection!TypeOK /\ Proceeds(s) /\ Shares(s) /\ at[s] = "select"
  BY DEF SelectionInv, Selection!Pick
<1>1. /\ at' = [at EXCEPT ![s] = "reserve"] /\ attempts' = [attempts EXCEPT ![s] = @ + 1]
      /\ choice' = [choice EXCEPT ![s] = c] /\ isTest' = [isTest EXCEPT ![c.account] = Selection!IsTesting(s)]
      /\ testing' = [testing EXCEPT ![s] = Selection!IsTesting(s)]
      /\ UNCHANGED <<kind, lists, node, remaining, unsure, lastRoute, inFlight,
                     slots, strays, counted, recorded, unanswered, pending, sentWith, resends, breaks>>
  BY DEF Selection!Pick, Selection!ledgers, Selection!history
<1>2. c \in Selection!Candidate /\ c # Selection!Nothing /\ c.account \in Accounts /\ Selection!IsTesting(s) \in BOOLEAN
  BY <1>0, CandidateIsSome DEF Selection!TypeOK, Selection!IsTesting
<1>3. Selection!TypeOK'
  BY <1>0, <1>1, <1>2 DEF Selection!TypeOK
<1>4. /\ at'[s] = "reserve" /\ choice'[s] = c /\ isTest'[c.account] = Selection!IsTesting(s)
      /\ testing'[s] = Selection!IsTesting(s) /\ attempts'[s] = attempts[s] + 1 /\ attempts[s] \in Nat
  BY <1>0, <1>1, <1>2 DEF Selection!TypeOK
<1>5. OthersStay(s)
  BY <1>0, <1>1 DEF OthersStay, Selection!TypeOK
<1>6. MarksOwn(s)
  BY <1>0, <1>1, <1>2, <1>4 DEF MarksOwn, InUse, Selection!IsTesting
<1>7. Proceeds(s)'
  <2>1. /\ IsFiniteSet(lists[s][node[s]]) /\ remaining[s] \subseteq lists[s][node[s]] /\ Selection!MaxAttempts(s) \in Nat
    BY <1>0, ListsAreFinite DEF Proceeds, Located
  <2>2. Cardinality(remaining[s]) \in Nat /\ Selection!MaxAttempts(s)' = Selection!MaxAttempts(s)
    BY <1>1, <2>1, FS_Subset, FS_CardinalityType DEF Selection!MaxAttempts
  <2>3. Room(s)'
    BY <1>0, <1>1, <1>4, <2>1, <2>2 DEF Proceeds, Room
  <2>4. Located(s)' /\ Doubt(s)' /\ Ledger(s)'
    BY <1>0, <1>1, <1>2, <1>4 DEF Proceeds, Located, Doubt, Ledger, Selection!IsTesting
  <2> QED  BY <2>3, <2>4 DEF Proceeds
<1>8. Shares(s)'
  BY <1>0, <1>1, <1>4 DEF Shares, Marked, Routed, InUse, Selection!IsTesting
<1>9. Selection!SlotsOfHolders'
  BY <1>0, <1>1, <1>4, <1>5, HoldersStay
<1> QED  BY <1>3, <1>5, <1>6, <1>7, <1>8, <1>9, StepKeeps

\* A script that was sent is not answered: it is the first one.
LEMMA ScriptUnanswered ==
    ASSUME Selection!TypeOK, NEW s \in Requests, Doubt(s), at[s] = "reserve", choice[s].account \in Accounts,
           Selection!Unanswered(s), strays' = strays,
           \/ unsure' = [unsure EXCEPT ![s] = TRUE] /\ at'[s] = "select"
           \/ unsure' = unsure /\ at'[s] = "cancelled"
    PROVE  /\ unanswered' \in [Requests -> Nat] /\ unsure' \in [Requests -> BOOLEAN]
           /\ pending' \in [Requests -> Accounts \cup {"none"}] /\ Doubt(s)'
           /\ \A r \in Requests \ {s} : /\ unsure'[r] = unsure[r] /\ unanswered'[r] = unanswered[r]
                                        /\ pending'[r] = pending[r]
<1>1. /\ unanswered' = [unanswered EXCEPT ![s] = IF Selection!Asks(s) THEN @ + 1 ELSE @]
      /\ pending' = [pending EXCEPT ![s] = IF Selection!Asks(s) THEN choice[s].account ELSE @]
      /\ unanswered \in [Requests -> Nat] /\ unsure \in [Requests -> BOOLEAN]
      /\ pending \in [Requests -> Accounts \cup {"none"}]
  BY DEF Selection!Unanswered, Selection!TypeOK
<1>2. /\ unanswered' \in [Requests -> Nat] /\ unsure' \in [Requests -> BOOLEAN]
      /\ pending' \in [Requests -> Accounts \cup {"none"}]
      /\ \A r \in Requests \ {s} : /\ unsure'[r] = unsure[r] /\ unanswered'[r] = unanswered[r]
                                   /\ pending'[r] = pending[r]
      /\ at'[s] = "select" => unsure'[s]
  <2>1. CASE unsure' = [unsure EXCEPT ![s] = TRUE] /\ at'[s] = "select"
    BY <1>1, <2>1
  <2>2. CASE unsure' = unsure /\ at'[s] = "cancelled"
    BY <1>1, <2>2
  <2> QED  BY <2>1, <2>2
<1>3. CASE ~unsure[s]
  <2>1. unanswered[s] = 0 /\ unanswered'[s] = 1 /\ \A a \in Accounts : s \notin strays[a]
    BY <1>1, <1>3 DEF Doubt, Selection!Asks
  <2> QED  BY <1>2, <2>1 DEF Doubt
<1>4. CASE unsure[s]
  <2>1. unanswered'[s] = unanswered[s] /\ pending'[s] = pending[s]
    BY <1>1, <1>4 DEF Selection!Asks
  <2> QED  BY <1>2, <2>1 DEF Doubt
<1> QED  BY <1>3, <1>4

\* A candidate is given up: the next one is sought.
LEMMA GivenUpKeeps ==
    ASSUME Selection!SelectionAssumption, SelectionInv, NEW s \in Requests, NEW reason, at[s] = "reserve",
           isTest' = [isTest EXCEPT ![choice[s].account] = FALSE],
           remaining' = [remaining EXCEPT ![s] = Selection!Without(@, choice[s], reason)],
           at' = [at EXCEPT ![s] = "select"],
           \/ UNCHANGED <<unsure, unanswered, pending>>
           \/ unsure' = [unsure EXCEPT ![s] = TRUE] /\ Selection!Unanswered(s),
           UNCHANGED <<kind, lists, node, attempts, choice, testing, lastRoute, inFlight, slots, strays, counted,
                       recorded, sentWith, resends, breaks>>
    PROVE  SelectionInv'
<1>0. Selection!TypeOK /\ Proceeds(s) /\ Shares(s) /\ choice[s] \in remaining[s] /\ choice[s] \in Selection!Candidate
  BY DEF SelectionInv, Proceeds, Located
<1>1. choice[s] # Selection!Nothing /\ choice[s].account \in Accounts
  BY <1>0, CandidateIsSome
<1>2. /\ IsFiniteSet(lists[s][node[s]]) /\ remaining[s] \subseteq lists[s][node[s]] /\ Selection!MaxAttempts(s) \in Nat
      /\ Selection!MaxAttempts(s)' = Selection!MaxAttempts(s)
  BY <1>0, ListsAreFinite DEF Proceeds, Located, Selection!MaxAttempts
<1>3. /\ remaining'[s] = Selection!Without(remaining[s], choice[s], reason) /\ at'[s] = "select"
  BY <1>0 DEF Selection!TypeOK
<1>4. /\ remaining'[s] \subseteq remaining[s] /\ Cardinality(remaining'[s]) + 1 <= Cardinality(remaining[s])
      /\ Cardinality(remaining'[s]) \in Nat /\ Cardinality(remaining[s]) \in Nat
  <2>1. IsFiniteSet(remaining[s])
    BY <1>2, FS_Subset
  <2> QED  BY <1>0, <1>3, <2>1, WithoutShortens, FS_CardinalityType
<1>d. /\ unanswered' \in [Requests -> Nat] /\ unsure' \in [Requests -> BOOLEAN]
      /\ pending' \in [Requests -> Accounts \cup {"none"}] /\ Doubt(s)'
      /\ \A r \in Requests \ {s} : /\ unsure'[r] = unsure[r] /\ unanswered'[r] = unanswered[r]
                                   /\ pending'[r] = pending[r]
  <2>0. Selection!TypeOK /\ Doubt(s)
    BY <1>0 DEF Proceeds
  <2>1. CASE UNCHANGED <<unsure, unanswered, pending>>
    BY <1>3, <2>0, <2>1 DEF Doubt, Selection!TypeOK
  <2>2. CASE unsure' = [unsure EXCEPT ![s] = TRUE] /\ Selection!Unanswered(s)
    BY <1>1, <1>3, <2>0, <2>2, ScriptUnanswered
  <2> QED  BY <2>1, <2>2
<1>5. Selection!TypeOK'
  <2>1. remaining' \in [Requests -> SUBSET Selection!Candidate]
    BY <1>0, <1>3, <1>4 DEF Selection!TypeOK
  <2> QED  BY <1>0, <1>1, <1>d, <2>1 DEF Selection!TypeOK
<1>6. OthersStay(s)
  BY <1>0, <1>d DEF OthersStay, Selection!TypeOK
<1>7. MarksOwn(s)
  BY <1>0 DEF MarksOwn, InUse
<1>8. Proceeds(s)'
  <2>1. Room(s)'
    <3>1. attempts[s] \in Nat /\ attempts'[s] = attempts[s]
      BY <1>0 DEF Selection!TypeOK
    <3> QED  BY <1>0, <1>2, <1>3, <1>4, <3>1 DEF Proceeds, Room
  <2>2. Located(s)' /\ Ledger(s)'
    BY <1>0, <1>3, <1>4 DEF Proceeds, Located, Ledger
  <2> QED  BY <1>d, <2>1, <2>2 DEF Proceeds
<1>9. Shares(s)'
  BY <1>0, <1>3 DEF Shares, Marked, Routed, InUse
<1>10. Selection!SlotsOfHolders'
  BY <1>3, <1>6, HoldersStay
<1> QED  BY <1>5, <1>6, <1>7, <1>8, <1>9, <1>10, StepKeeps

LEMMA RefuseKeeps ==
    ASSUME Selection!SelectionAssumption, SelectionInv, NEW s \in Requests, NEW reason, Selection!Refuse(s, reason)
    PROVE  SelectionInv'
<1>1. /\ at[s] = "reserve" /\ isTest' = [isTest EXCEPT ![choice[s].account] = FALSE]
      /\ remaining' = [remaining EXCEPT ![s] = Selection!Without(@, choice[s], reason)]
      /\ at' = [at EXCEPT ![s] = "select"] /\ UNCHANGED <<unsure, unanswered, pending>>
      /\ UNCHANGED <<kind, lists, node, attempts, choice, testing, lastRoute, inFlight, slots, strays, counted,
                     recorded, sentWith, resends, breaks>>
  BY DEF Selection!Refuse, Selection!ledgers, Selection!history
<1> QED  BY <1>1, GivenUpKeeps

LEMMA UncertainKeeps ==
    ASSUME Selection!SelectionAssumption, SelectionInv, NEW s \in Requests, Selection!Uncertain(s) PROVE SelectionInv'
<1>1. /\ at[s] = "reserve" /\ isTest' = [isTest EXCEPT ![choice[s].account] = FALSE]
      /\ remaining' = [remaining EXCEPT ![s] = Selection!Without(@, choice[s], "account")]
      /\ at' = [at EXCEPT ![s] = "select"] /\ unsure' = [unsure EXCEPT ![s] = TRUE]
      /\ Selection!Unanswered(s)
      /\ UNCHANGED <<kind, lists, node, attempts, choice, testing, lastRoute, inFlight, slots, strays, counted,
                     recorded, sentWith, resends, breaks>>
  BY DEF Selection!Uncertain, Selection!ledgers
<1> QED  BY <1>1, GivenUpKeeps

-----------------------------------------------------------------------------
(* A reservation that succeeds, and the candidate in use *)

\* What Use leaves of the routes: the account has the request's own.
LEMMA OwnRouteTaken ==
    ASSUME SelectionInv, NEW s \in Requests, at[s] \in {"reserve", "record"}, Selection!Use(s), choice' = choice
    PROVE  /\ MarksOwn(s) /\ Routed(s)' /\ at'[s] = "hold"
           /\ sentWith'[s] = {choice[s]} /\ \A r \in Requests \ {s} : sentWith'[r] = sentWith[r]
           /\ sentWith' \in [Requests -> SUBSET (Selection!Candidate \cup {Selection!Nothing})]
           /\ lastRoute' \in [Accounts -> Selection!Candidate \cup {Selection!Nothing}] /\ isTest' \in [Accounts -> BOOLEAN]
<1>0. Selection!TypeOK /\ Shares(s) /\ choice[s] \in Selection!Candidate /\ choice[s].account \in Accounts /\ sentWith[s] = {}
  BY CandidateIsSome DEF SelectionInv, Proceeds, Located, Shares, Routed, InUse
<1>1. /\ isTest' = [isTest EXCEPT ![choice[s].account] = FALSE]
      /\ lastRoute' = [lastRoute EXCEPT ![choice[s].account] = choice[s]]
      /\ sentWith' = [sentWith EXCEPT ![s] = @ \cup {choice[s]}]
      /\ at' = [at EXCEPT ![s] = "hold"]
  BY DEF Selection!Use
<1>2. /\ at'[s] = "hold" /\ sentWith'[s] = {choice[s]} /\ lastRoute'[choice[s].account] = choice[s]
      /\ \A r \in Requests \ {s} : sentWith'[r] = sentWith[r]
  BY <1>0, <1>1 DEF Selection!TypeOK
<1>3. Routed(s)'
  BY <1>2 DEF Routed, InUse
<1>4. MarksOwn(s)
  BY <1>0, <1>1, <1>2 DEF MarksOwn, InUse
<1>5. /\ sentWith' \in [Requests -> SUBSET (Selection!Candidate \cup {Selection!Nothing})]
      /\ lastRoute' \in [Accounts -> Selection!Candidate \cup {Selection!Nothing}] /\ isTest' \in [Accounts -> BOOLEAN]
  BY <1>0, <1>1 DEF Selection!TypeOK
<1> QED  BY <1>2, <1>3, <1>4, <1>5

LEMMA GrantedKeeps ==
    ASSUME Selection!SelectionAssumption, SelectionInv, NEW s \in Requests, Selection!Granted(s) PROVE SelectionInv'
<1>0. /\ Selection!TypeOK /\ Proceeds(s) /\ Shares(s) /\ at[s] = "reserve"
      /\ choice[s] \in Selection!Candidate /\ choice[s].account \in Accounts /\ s \notin recorded
      /\ unanswered[s] = 0
  BY CandidateIsSome DEF SelectionInv, Proceeds, Located, Shares, Marked, Selection!Granted, Doubt, Selection!Asks
<1>1. /\ slots' = [slots EXCEPT ![choice[s].account] = @ \cup {s}]
      /\ counted' = IF Selection!OnLedger(s) THEN counted \cup {s} ELSE counted
      /\ inFlight' = [inFlight EXCEPT ![choice[s].account] = @ + 1]
      /\ UNCHANGED <<kind, lists, node, remaining, attempts, choice, testing, unsure, strays, recorded, unanswered, pending,
                     resends, breaks>>
  BY DEF Selection!Granted, Selection!loop
<1>2. /\ counted' \subseteq Requests /\ \A r \in Requests \ {s} : r \in counted' <=> r \in counted
      /\ s \in counted' <=> kind[s] = "normal"
  <2>1. testing[s] = (kind[s] = "test") /\ kind[s] \in {"normal", "test"} /\ (s \in counted => kind[s] = "normal")
    BY <1>0 DEF Proceeds, Ledger, Selection!IsTesting, Selection!TypeOK
  <2> QED  BY <1>0, <1>1, <2>1 DEF Selection!OnLedger, Selection!TypeOK
<1>3. CASE isTest[choice[s].account]
  <2>1. Selection!Use(s)
    BY <1>3 DEF Selection!Granted
  <2>2. /\ MarksOwn(s) /\ Routed(s)' /\ at'[s] = "hold"
        /\ sentWith'[s] = {choice[s]} /\ \A r \in Requests \ {s} : sentWith'[r] = sentWith[r]
        /\ sentWith' \in [Requests -> SUBSET (Selection!Candidate \cup {Selection!Nothing})]
        /\ lastRoute' \in [Accounts -> Selection!Candidate \cup {Selection!Nothing}] /\ isTest' \in [Accounts -> BOOLEAN]
    BY <1>0, <1>1, <2>1, OwnRouteTaken
  <2>3. at' = [at EXCEPT ![s] = "hold"]
    BY <2>1 DEF Selection!Use
  <2>4. OthersStay(s)
    BY <1>0, <1>1, <1>2, <2>2, <2>3 DEF OthersStay, Selection!TypeOK
  <2>5. Selection!SlotsOfHolders' /\ inFlight' \in [Accounts -> Nat] /\ slots' \in [Accounts -> SUBSET Requests]
    BY <1>0, <1>1, <2>2, <2>4, LeaseGranted
  <2>6. Selection!TypeOK'
    BY <1>0, <1>1, <1>2, <2>2, <2>3, <2>5 DEF Selection!TypeOK
  <2>7. Proceeds(s)'
    BY <1>0, <1>1, <1>2, <2>2 DEF Proceeds, Located, Room, Doubt, Ledger
  <2>8. Marked(s)'
    <3>1. kind[s] = "test" \/ Disturbed(s)'
      BY <1>0, <1>3, <2>4, DisturbanceStays DEF Shares, Marked, Selection!IsTesting
    <3> QED  BY <1>0, <1>1, <2>2, <3>1 DEF Marked
  <2> QED  BY <2>2, <2>4, <2>5, <2>6, <2>7, <2>8, StepKeeps DEF Shares
<1>4. CASE ~isTest[choice[s].account]
  <2>1. at' = [at EXCEPT ![s] = "record"] /\ UNCHANGED <<isTest, lastRoute, sentWith>>
    BY <1>4 DEF Selection!Granted
  <2>2. at'[s] = "record"
    BY <1>0, <2>1 DEF Selection!TypeOK
  <2>3. OthersStay(s)
    BY <1>0, <1>1, <1>2, <2>1 DEF OthersStay, Selection!TypeOK
  <2>4. MarksOwn(s)
    BY <1>0, <1>1, <2>1 DEF MarksOwn, InUse
  <2>5. Selection!SlotsOfHolders' /\ inFlight' \in [Accounts -> Nat] /\ slots' \in [Accounts -> SUBSET Requests]
    BY <1>0, <1>1, <2>2, <2>3, LeaseGranted
  <2>6. Selection!TypeOK'
    BY <1>0, <1>1, <1>2, <2>1, <2>5 DEF Selection!TypeOK
  <2>7. Proceeds(s)'
    BY <1>0, <1>1, <1>2, <2>2 DEF Proceeds, Located, Room, Doubt, Ledger
  <2>8. Marked(s)'
    <3>1. kind[s] = "normal" \/ Disturbed(s)'
      BY <1>0, <1>4, <2>3, DisturbanceStays DEF Shares, Marked, Selection!IsTesting, Selection!TypeOK
    <3> QED  BY <1>0, <1>1, <2>2, <3>1 DEF Marked
  <2>9. Routed(s)'
    BY <1>0, <1>1, <2>1, <2>2 DEF Shares, Routed, InUse
  <2> QED  BY <2>3, <2>4, <2>5, <2>6, <2>7, <2>8, <2>9, StepKeeps DEF Shares
<1> QED  BY <1>3, <1>4

LEMMA RecordKeeps ==
    ASSUME Selection!SelectionAssumption, SelectionInv, NEW s \in Requests, Selection!Record(s) PROVE SelectionInv'
<1>0. Selection!TypeOK /\ Proceeds(s) /\ Shares(s) /\ at[s] = "record"
  BY DEF SelectionInv, Selection!Record
<1>1. /\ recorded' = recorded \cup {s} /\ Selection!Use(s)
      /\ UNCHANGED <<kind, lists, node, remaining, attempts, choice, testing, unsure, inFlight, slots, strays, counted,
                     unanswered, pending, resends, breaks>>
  BY DEF Selection!Record, Selection!loop
<1>2. /\ MarksOwn(s) /\ Routed(s)' /\ at'[s] = "hold"
      /\ sentWith'[s] = {choice[s]} /\ \A r \in Requests \ {s} : sentWith'[r] = sentWith[r]
      /\ sentWith' \in [Requests -> SUBSET (Selection!Candidate \cup {Selection!Nothing})]
      /\ lastRoute' \in [Accounts -> Selection!Candidate \cup {Selection!Nothing}] /\ isTest' \in [Accounts -> BOOLEAN]
  BY <1>0, <1>1, OwnRouteTaken
<1>3. at' = [at EXCEPT ![s] = "hold"]
  BY <1>1 DEF Selection!Use
<1>4. OthersStay(s)
  BY <1>0, <1>1, <1>2, <1>3 DEF OthersStay, Selection!TypeOK
<1>5. Selection!TypeOK'
  BY <1>0, <1>1, <1>2, <1>3 DEF Selection!TypeOK
<1>6. Selection!SlotsOfHolders'
  BY <1>0, <1>1, <1>2, <1>4, HoldersStay
<1>7. Proceeds(s)'
  BY <1>0, <1>1, <1>2 DEF Proceeds, Located, Room, Doubt, Ledger
<1>8. Marked(s)'
  <2>1. kind[s] = "normal" \/ Disturbed(s)'
    BY <1>0, <1>4, DisturbanceStays DEF Shares, Marked
  <2> QED  BY <1>0, <1>1, <1>2, <2>1 DEF Marked
<1> QED  BY <1>2, <1>4, <1>5, <1>6, <1>7, <1>8, StepKeeps DEF Shares

LEMMA BreakKeeps ==
    ASSUME Selection!SelectionAssumption, SelectionInv, NEW s \in Requests, NEW end \in {"failed", "cancelled"},
           Selection!Break(s, end)
    PROVE  SelectionInv'
<1>0. /\ Selection!TypeOK /\ Proceeds(s) /\ Shares(s) /\ at[s] \in {"reserve", "record"} /\ MaxBreaks \in Nat
      /\ choice[s] \in Selection!Candidate /\ choice[s].account \in Accounts
  BY CandidateIsSome DEF SelectionInv, Selection!Break, Proceeds, Located, Selection!SelectionAssumption
<1>1. /\ breaks < MaxBreaks /\ breaks' = breaks + 1
      /\ isTest' = [isTest EXCEPT ![choice[s].account] = FALSE] /\ at' = [at EXCEPT ![s] = end]
      /\ UNCHANGED <<kind, lists, node, remaining, attempts, choice, testing, unsure, lastRoute, counted,
                     strays, recorded, sentWith, resends>>
  BY DEF Selection!Break, Selection!loop
<1>2. at'[s] = end
  BY <1>0, <1>1 DEF Selection!TypeOK
<1>d. /\ unanswered' \in [Requests -> Nat] /\ pending' \in [Requests -> Accounts \cup {"none"}] /\ Doubt(s)'
      /\ \A r \in Requests \ {s} : unanswered'[r] = unanswered[r] /\ pending'[r] = pending[r]
  <2>1. CASE at[s] = "reserve" /\ end = "cancelled"
    <3>1. Selection!Unanswered(s) /\ Doubt(s)
      BY <1>0, <2>1 DEF Selection!Break, Proceeds
    <3> QED  BY <1>0, <1>1, <1>2, <2>1, <3>1, ScriptUnanswered
  <2>2. CASE ~(at[s] = "reserve" /\ end = "cancelled")
    <3>1. UNCHANGED <<unanswered, pending>>
      BY <2>2 DEF Selection!Break
    <3> QED  BY <1>0, <1>1, <1>2, <3>1 DEF Doubt, Proceeds, Selection!TypeOK
  <2> QED  BY <2>1, <2>2
<1>3. OthersStay(s)
  BY <1>0, <1>1, <1>d DEF OthersStay, Selection!TypeOK
<1>4. MarksOwn(s)
  BY <1>0, <1>1 DEF MarksOwn, InUse
<1>5. Selection!SlotsOfHolders' /\ inFlight' \in [Accounts -> Nat] /\ slots' \in [Accounts -> SUBSET Requests]
  <2>1. CASE at[s] = "record"
    BY <1>1, <1>2, <1>3, <2>1, LeaseReturned DEF Selection!Break
  <2>2. CASE at[s] = "reserve"
    <3>1. UNCHANGED <<slots, inFlight>>
      BY <2>2 DEF Selection!Break
    <3>2. Selection!SlotsOfHolders'
      BY <1>1, <1>2, <1>3, <2>2, <3>1, HoldersStay
    <3> QED  BY <1>0, <3>1, <3>2 DEF Selection!TypeOK
  <2> QED  BY <1>0, <2>1, <2>2
<1>6. Selection!TypeOK'
  <2>1. breaks' \in 0 .. MaxBreaks /\ at' \in [Requests -> {"collect", "select", "reserve", "record", "hold", "done",
                                                           "none", "failed", "cancelled"}]
    BY <1>0, <1>1 DEF Selection!TypeOK
  <2> QED  BY <1>0, <1>1, <1>5, <1>d, <2>1 DEF Selection!TypeOK
<1>7. Proceeds(s)'
  BY <1>0, <1>1, <1>2, <1>d DEF Proceeds, Located, Room, Ledger
<1>8. Shares(s)'
  BY <1>0, <1>1, <1>2 DEF Shares, Marked, Routed, InUse
<1> QED  BY <1>3, <1>4, <1>5, <1>6, <1>7, <1>8, StepKeeps

LEMMA ResendKeeps ==
    ASSUME Selection!SelectionAssumption, SelectionInv, NEW s \in Requests, Selection!Resend(s) PROVE SelectionInv'
<1>0. /\ Selection!TypeOK /\ Proceeds(s) /\ Shares(s) /\ at[s] = "hold" /\ MaxResends \in Nat
      /\ choice[s] \in Selection!Candidate /\ choice[s].account \in Accounts
  BY CandidateIsSome DEF SelectionInv, Selection!Resend, Proceeds, Located, Selection!SelectionAssumption
<1>1. /\ resends[s] < MaxResends /\ resends' = [resends EXCEPT ![s] = @ + 1]
      /\ sentWith' = [sentWith EXCEPT ![s] = @ \cup {lastRoute[choice[s].account]}]
      /\ UNCHANGED <<kind, lists, at, node, remaining, attempts, choice, testing, unsure, isTest, lastRoute,
                     inFlight, slots, strays, counted, recorded, unanswered, pending, breaks>>
  BY DEF Selection!Resend, Selection!loop, Selection!account_client, Selection!ledgers
<1>2. sentWith'[s] = sentWith[s] \cup {lastRoute[choice[s].account]}
  BY <1>0, <1>1 DEF Selection!TypeOK
<1>3. OthersStay(s)
  BY <1>0, <1>1 DEF OthersStay, Selection!TypeOK
<1>4. MarksOwn(s)
  BY <1>0, <1>1 DEF MarksOwn, InUse
<1>5. Selection!TypeOK'
  <2>1. resends' \in [Requests -> 0 .. MaxResends]
    BY <1>0, <1>1 DEF Selection!TypeOK
  <2>2. sentWith' \in [Requests -> SUBSET (Selection!Candidate \cup {Selection!Nothing})]
    BY <1>0, <1>1 DEF Selection!TypeOK
  <2> QED  BY <1>0, <1>1, <2>1, <2>2 DEF Selection!TypeOK
<1>6. Selection!SlotsOfHolders'
  BY <1>0, <1>1, <1>3, HoldersStay
<1>7. Proceeds(s)'
  BY <1>0, <1>1 DEF Proceeds, Located, Room, Selection!MaxAttempts, Doubt, Ledger, Selection!IsTesting
<1>8. Marked(s)'
  BY <1>0, <1>1, <1>3, DisturbanceStays DEF Shares, Marked
<1>9. Routed(s)'
  <2>1. PICK q \in Requests : InUse(q) /\ choice[q] = lastRoute[choice[s].account]
    BY <1>0 DEF Shares, Routed
  <2>2. \A c \in sentWith'[s] \ {choice[s]} : \E u \in Requests \ {s} : InUse(u) /\ choice[u] = c
    BY <1>0, <1>2, <2>1 DEF Shares, Routed
  <2> QED  BY <1>0, <1>1, <2>1, <2>2 DEF Routed, InUse
<1> QED  BY <1>3, <1>4, <1>5, <1>6, <1>7, <1>8, <1>9, StepKeeps DEF Shares

LEMMA FinishKeeps ==
    ASSUME Selection!SelectionAssumption, SelectionInv, NEW s \in Requests, Selection!Finish(s) PROVE SelectionInv'
<1>0. Selection!TypeOK /\ Proceeds(s) /\ Shares(s) /\ at[s] = "hold" /\ Selection!Detach(s)
  BY DEF SelectionInv, Selection!Finish
<1>1. /\ at' = [at EXCEPT ![s] = "done"]
      /\ UNCHANGED <<kind, lists, node, remaining, attempts, choice, testing, unsure, isTest, lastRoute,
                     counted, strays, recorded, unanswered, pending, sentWith, resends, breaks>>
  BY DEF Selection!Finish, Selection!loop, Selection!history
<1>2. at'[s] = "done"
  BY <1>0, <1>1 DEF Selection!TypeOK
<1>3. OthersStay(s)
  BY <1>0, <1>1 DEF OthersStay, Selection!TypeOK
<1>4. MarksOwn(s)
  BY <1>0, <1>1, <1>2 DEF MarksOwn, InUse
<1>5. Selection!SlotsOfHolders' /\ inFlight' \in [Accounts -> Nat] /\ slots' \in [Accounts -> SUBSET Requests]
  BY <1>0, <1>1, <1>2, <1>3, LeaseReturned
<1>6. Selection!TypeOK'
  BY <1>0, <1>1, <1>5 DEF Selection!TypeOK
<1>7. Proceeds(s)'
  BY <1>0, <1>1, <1>2 DEF Proceeds, Located, Room, Doubt, Ledger
<1>8. Marked(s)'
  BY <1>2 DEF Marked
<1>9. Routed(s)'
  <2>1. \A q \in Requests \ {s} : InUse(q)' <=> InUse(q)
    BY <1>3 DEF OthersStay, InUse
  <2> QED  BY <1>0, <1>1, <1>2, <2>1 DEF Shares, Routed, InUse
<1> QED  BY <1>3, <1>4, <1>5, <1>6, <1>7, <1>8, <1>9, StepKeeps DEF Shares

\* A script that nobody waits for is carried out, and taken back.
LEMMA StrayKeeps ==
    ASSUME Selection!SelectionAssumption, SelectionInv, NEW s \in Requests,
           Selection!Land(s) \/ \E a \in Accounts : Selection!CleanUp(s, a)
    PROVE  SelectionInv'
<1>0. Selection!TypeOK /\ Proceeds(s) /\ Shares(s) /\ Doubt(s) /\ Ledger(s)
  BY DEF SelectionInv, Proceeds
<1>1. UNCHANGED <<kind, lists, at, node, remaining, attempts, choice, testing, unsure, isTest, lastRoute,
                  inFlight, slots, recorded, unanswered, sentWith, resends, breaks>>
  BY DEF Selection!Land, Selection!CleanUp, Selection!loop, Selection!account_client, Selection!history
<1>2. /\ strays' \in [Accounts -> SUBSET Requests] /\ pending' \in [Requests -> Accounts \cup {"none"}]
      /\ counted' \subseteq Requests /\ Doubt(s)' /\ Ledger(s)'
      /\ \A r \in Requests \ {s} : /\ pending'[r] = pending[r] /\ (r \in counted' <=> r \in counted)
                                   /\ \A a \in Accounts : r \in strays'[a] <=> r \in strays[a]
  <2>1. CASE Selection!Land(s)
    <3>1. PICK a \in Accounts : a = pending[s]
      BY <1>0, <2>1 DEF Selection!Land, Selection!TypeOK
    <3>2. /\ strays' = [strays EXCEPT ![a] = @ \cup {s}] /\ pending' = [pending EXCEPT ![s] = "none"]
          /\ counted' = IF Selection!IsTesting(s) THEN counted ELSE counted \cup {s}
      BY <2>1, <3>1 DEF Selection!Land
    <3>3. \A b \in Accounts : s \in strays'[b] <=> b = a
      BY <1>0, <2>1, <3>1, <3>2 DEF Doubt, Selection!TypeOK, Selection!Land
    <3>4. unanswered[s] # 0 /\ pending'[s] = "none"
      BY <1>0, <2>1, <3>2 DEF Doubt, Selection!TypeOK, Selection!Land
    <3>5. Doubt(s)'
      BY <1>0, <1>1, <3>3, <3>4 DEF Doubt
    <3>6. Ledger(s)'
      BY <1>0, <1>1, <3>2 DEF Ledger, Selection!IsTesting, Selection!TypeOK
    <3> QED  BY <1>0, <3>2, <3>5, <3>6 DEF Selection!TypeOK
  <2>2. ASSUME NEW a \in Accounts, Selection!CleanUp(s, a)
        PROVE  /\ strays' \in [Accounts -> SUBSET Requests] /\ pending' \in [Requests -> Accounts \cup {"none"}]
               /\ counted' \subseteq Requests /\ Doubt(s)' /\ Ledger(s)'
               /\ \A r \in Requests \ {s} : /\ pending'[r] = pending[r] /\ (r \in counted' <=> r \in counted)
                                            /\ \A b \in Accounts : r \in strays'[b] <=> r \in strays[b]
    <3>1. /\ s \in strays[a] /\ strays' = [strays EXCEPT ![a] = @ \ {s}] /\ counted' = counted \ {s}
          /\ pending' = pending
      BY <2>2 DEF Selection!CleanUp, Selection!history
    <3>2. \A b \in Accounts : s \in strays'[b] => s \in strays[b]
      BY <1>0, <3>1 DEF Selection!TypeOK
    <3>3. Doubt(s)' /\ at[s] \notin {"record", "hold"}
      BY <1>0, <1>1, <3>1, <3>2 DEF Doubt
    <3>4. Ledger(s)'
      BY <1>0, <1>1, <3>1, <3>3 DEF Ledger, Selection!IsTesting
    <3> QED  BY <1>0, <3>1, <3>3, <3>4 DEF Selection!TypeOK
  <2> QED  BY <2>1, <2>2
<1>3. OthersStay(s)
  BY <1>1, <1>2 DEF OthersStay
<1>4. MarksOwn(s)
  BY <1>1 DEF MarksOwn, InUse
<1>5. Selection!TypeOK'
  BY <1>0, <1>1, <1>2 DEF Selection!TypeOK
<1>6. Selection!SlotsOfHolders'
  BY <1>1, <1>3, HoldersStay
<1>7. Proceeds(s)'
  BY <1>0, <1>1, <1>2 DEF Proceeds, Located, Room, Selection!MaxAttempts
<1>8. Shares(s)'
  <2>1. Disturbed(s)' <=> Disturbed(s)
    BY <1>1 DEF Disturbed
  <2> QED  BY <1>0, <1>1, <2>1 DEF Shares, Marked, Routed, InUse, Selection!IsTesting
<1> QED  BY <1>3, <1>4, <1>5, <1>6, <1>7, <1>8, StepKeeps

-----------------------------------------------------------------------------
(* The theorems *)

LEMMA SelectionInit == ASSUME Selection!SelectionAssumption, Selection!Init PROVE SelectionInv
<1>1. Selection!TypeOK
  <2>1. 0 \in 0 .. MaxResends /\ 0 \in 0 .. MaxBreaks
    BY DEF Selection!SelectionAssumption
  <2> QED  BY <2>1 DEF Selection!Init, Selection!TypeOK
<1>2. Selection!SlotsOfHolders
  <2>1. \A a \in Accounts : Selection!Holders(a) = {}
    BY DEF Selection!Init, Selection!Holders
  <2> QED  BY <2>1, FS_EmptySet, SameSizes DEF Selection!Init, Selection!SlotsOfHolders
<1>3. \A r \in Requests : Proceeds(r)
  <2>1. \A r \in Requests : lists[r] \in Seq(SUBSET Selection!Candidate)
    BY DEF Selection!Init, Selection!SelectionAssumption
  <2> QED  BY <2>1 DEF Selection!Init, Proceeds, Located, Room, Doubt, Ledger
<1>4. \A r \in Requests : Shares(r)
  BY DEF Selection!Init, Shares, Marked, Routed, InUse
<1> QED  BY <1>1, <1>2, <1>3, <1>4 DEF SelectionInv

LEMMA SelectionStep == ASSUME Selection!SelectionAssumption, SelectionInv, [Selection!Next]_Selection!vars PROVE SelectionInv'
<1>1. CASE UNCHANGED Selection!vars
  <2>1. UNCHANGED <<kind, lists, at, node, remaining, attempts, choice, testing, unsure, isTest, lastRoute,
                    inFlight, slots, strays, counted, recorded, unanswered, pending, sentWith, resends, breaks>>
    BY <1>1 DEF Selection!vars, Selection!loop, Selection!account_client, Selection!ledgers, Selection!history
  <2>2. Selection!TypeOK' /\ Selection!SlotsOfHolders'
    <3>1. Selection!TypeOK'
      BY <2>1 DEF SelectionInv, Selection!TypeOK
    <3>2. \A a \in Accounts : Selection!Holders(a)' = Selection!Holders(a)
      BY <2>1 DEF Selection!Holders
    <3> QED  BY <2>1, <3>1, <3>2 DEF SelectionInv, Selection!SlotsOfHolders
  <2>3. \A r \in Requests : Proceeds(r)'
    BY <2>1 DEF SelectionInv, Proceeds, Located, Room, Selection!MaxAttempts, Doubt, Ledger, Selection!IsTesting
  <2>4. \A r \in Requests : Shares(r)'
    <3> SUFFICES ASSUME NEW r \in Requests PROVE Marked(r)' /\ Routed(r)'
      BY DEF Shares
    <3>0. Marked(r) /\ Routed(r)
      BY DEF SelectionInv, Shares
    <3>1. Disturbed(r)' <=> Disturbed(r)
      BY <2>1 DEF Disturbed
    <3>2. Marked(r)'
      BY <2>1, <3>0, <3>1 DEF Marked, Selection!IsTesting
    <3>3. Routed(r)'
      BY <2>1, <3>0 DEF Routed, InUse
    <3> QED  BY <3>2, <3>3
  <2> QED  BY <2>2, <2>3, <2>4 DEF SelectionInv
<1>2. ASSUME NEW r \in Requests, Selection!Step(r) PROVE SelectionInv'
  BY <1>2, CollectKeeps, GiveUpKeeps, PickKeeps, RefuseKeeps, UncertainKeeps, GrantedKeeps, RecordKeeps,
     FinishKeeps DEF Selection!Step
<1>3. ASSUME NEW r \in Requests, NEW end \in {"failed", "cancelled"}, Selection!Break(r, end) PROVE SelectionInv'
  BY <1>3, BreakKeeps
<1>4. ASSUME NEW r \in Requests, Selection!Resend(r) PROVE SelectionInv'
  BY <1>4, ResendKeeps
<1>5. ASSUME NEW r \in Requests, Selection!Land(r) \/ \E a \in Accounts : Selection!CleanUp(r, a) PROVE SelectionInv'
  BY <1>5, StrayKeeps
<1> QED  BY <1>1, <1>2, <1>3, <1>4, <1>5 DEF Selection!Next

LEMMA InvIsExact == ASSUME Selection!SelectionAssumption, SelectionInv PROVE Selection!SelectionExact
<1>1. Selection!ListShrinks
  <2> SUFFICES ASSUME NEW r \in Requests, at[r] = "select", remaining[r] # {} PROVE attempts[r] < Selection!MaxAttempts(r)
    BY DEF Selection!ListShrinks
  <2>0. Selection!TypeOK /\ Located(r) /\ Room(r)
    BY DEF SelectionInv, Proceeds
  <2>1. IsFiniteSet(lists[r][node[r]]) /\ remaining[r] \subseteq lists[r][node[r]] /\ Selection!MaxAttempts(r) \in Nat
    BY <2>0, ListsAreFinite DEF Located
  <2>2. Cardinality(remaining[r]) \in Nat /\ Cardinality(remaining[r]) # 0
    BY <2>1, FS_Subset, FS_CardinalityType, FS_EmptySet
  <2>3. attempts[r] \in Nat
    BY <2>0 DEF Selection!TypeOK
  <2> QED  BY <2>0, <2>1, <2>2, <2>3 DEF Room
<1>2. Selection!OneUncertain
  <2>1. \A r \in Requests : unanswered[r] <= 1
    BY DEF SelectionInv, Proceeds, Doubt
  <2>2. ASSUME NEW a \in Accounts, NEW r \in strays[a], NEW b \in Accounts
        PROVE  r \notin slots[b] /\ (r \in strays[b] => b = a)
    <3>1. r \in Requests /\ Doubt(r)
      BY DEF SelectionInv, Selection!TypeOK, Proceeds
    <3>2. at[r] \notin {"record", "hold"}
      BY <3>1 DEF Doubt
    <3> QED  BY <3>1, <3>2 DEF SelectionInv, Doubt, Selection!SlotsOfHolders, Selection!Holders
  <2> QED  BY <2>1, <2>2 DEF Selection!OneUncertain
<1> QED  BY <1>1, <1>2 DEF SelectionInv, Selection!SelectionExact

LEMMA InvIsShared == ASSUME SelectionInv PROVE Selection!SharedAccount
<1>1. Selection!CountedAsKind
  BY DEF SelectionInv, Selection!TypeOK, Proceeds, Ledger, Selection!CountedAsKind
<1>2. Selection!RecordedAsKind
  BY DEF SelectionInv, Shares, Marked, Disturbed, Selection!RecordedAsKind
<1>3. Selection!OwnRoute
  BY DEF SelectionInv, Shares, Routed, InUse, Selection!OwnRoute
<1> QED  BY <1>1, <1>2, <1>3 DEF Selection!SharedAccount

\* Selection under contention is exact (_select_and_reserve_candidates): an account
\* has a slot held, and counts one in flight, for exactly the requests that are on
\* it; no list is cut short by the cap on the attempts; and a request leaves at most
\* one script unanswered, with at most one slot that nobody knows of.
THEOREM SelectionIsExact == Selection!Spec => []SelectionExact
<1>1. Selection!Init => SelectionInv
  BY SelectionInit, ListsAssumption
<1>2. SelectionInv /\ [Selection!Next]_Selection!vars => SelectionInv'
  BY SelectionStep, ListsAssumption
<1>3. SelectionInv => SelectionExact
  BY InvIsExact, ListsAssumption DEF SelectionExact
<1> QED  BY <1>1, <1>2, <1>3, PTL DEF Selection!Spec

\* Requests that share an AccountClient are counted as what they are, and take
\* neither the mark nor the parameters of another one for their own, but for the
\* two cases RecordedAsKind and OwnRoute name.
THEOREM AccountsAreShared == Selection!Spec => []SharedAccount
<1>1. Selection!Init => SelectionInv
  BY SelectionInit, ListsAssumption
<1>2. SelectionInv /\ [Selection!Next]_Selection!vars => SelectionInv'
  BY SelectionStep, ListsAssumption
<1>3. SelectionInv => SharedAccount
  BY InvIsShared, ListsAssumption DEF SharedAccount
<1> QED  BY <1>1, <1>2, <1>3, PTL DEF Selection!Spec
=============================================================================
