----------------------------- MODULE QueueProofs -----------------------------
(***************************************************************************)
(* The bounded queues that never make their producer wait, for every size  *)
(* of queue and batch and every number of events and errors:               *)
(*                                                                         *)
(*   PayloadsAreExact  the queue of request payloads    (QueueInv)         *)
(*   FeedsAreExact     the queue of a client's frames   (FeedInv)          *)
(*   LogsAreExact      the buffer of request log events (LogInv)           *)
(*                                                                         *)
(* The first part is about Only: the provers know nothing of a recursive   *)
(* function, and its value is found by a least counterexample.             *)
(***************************************************************************)
EXTENDS MCQueues, FiniteSetTheorems, SequenceTheorems, WellFoundedInduction, TLAPS

\* A property of the numbers up to n that passes from each to the next holds
\* of all of them: the set of those it fails for has no least element.
LEMMA UpTo ==
    ASSUME NEW n \in Nat, NEW P \in SUBSET (0 .. n), 0 \in P,
           \A i \in 1 .. n : i - 1 \in P => i \in P
    PROVE  P = 0 .. n
<1> DEFINE F == (0 .. n) \ P
           T == {0 .. k : k \in F}
<1> SUFFICES ASSUME F # {} PROVE FALSE
  OBVIOUS
<1>1. IsWellFoundedOn(StrictSubsetOrdering(0 .. n), SUBSET (0 .. n))
  <2>1. IsFiniteSet(0 .. n)
    BY FS_Interval
  <2> QED  BY <2>1, FS_StrictSubsetOrderingWellFounded, FS_FiniteSubsetsOfFinite
<1>2. T \subseteq SUBSET (0 .. n) /\ T # {}
  <2>1. \A k \in F : 0 .. k \in SUBSET (0 .. n)
    OBVIOUS
  <2>2. T # {}
    OBVIOUS
  <2> QED  BY <2>1, <2>2
<1>3. PICK t \in T : \A u \in T : ~(<<u, t>> \in StrictSubsetOrdering(0 .. n))
  <2> HIDE DEF T
  <2> QED  BY <1>1, <1>2, WFMin
<1>4. PICK k \in F : t = 0 .. k
  BY <1>3
<1>5. k \in 1 .. n
  BY <1>4
<1>6. k - 1 \in F
  BY <1>4, <1>5
<1>7. 0 .. (k - 1) \in T /\ ~(<<0 .. (k - 1), t>> \in StrictSubsetOrdering(0 .. n))
  BY <1>3, <1>6
<1>8. 0 .. (k - 1) \subseteq 0 .. k /\ 0 .. (k - 1) # 0 .. k
  <2>1. k \in 0 .. k /\ k \notin 0 .. (k - 1)
    BY <1>5
  <2> QED  BY <1>5, <2>1
<1>9. 0 .. (k - 1) \subseteq 0 .. n /\ 0 .. k \subseteq 0 .. n
  BY <1>5
<1> QED  BY <1>4, <1>7, <1>8, <1>9 DEF StrictSubsetOrdering

-----------------------------------------------------------------------------
(* What Only returns *)

\* g is what Only computes for the first n elements of s, element by element.
Selects(g, s, S, n) ==
    g = [i \in 0 .. n |->
            IF i = 0 THEN <<>>
            ELSE IF s[i] \in S THEN Append(g[i - 1], s[i])
            ELSE g[i - 1]]

LEMMA OnlyDef == \A s, S : Only(s, S) = (CHOOSE g : Selects(g, s, S, Len(s)))[Len(s)]
BY DEF Only, Selects

\* The recursion has a solution.
LEMMA SelectsExists ==
    ASSUME NEW s, NEW S, NEW n \in Nat
    PROVE  \E g : Selects(g, s, S, n)
<1> DEFINE P == {i \in 0 .. n : \E g : Selects(g, s, S, i)}
<1>1. 0 \in P
  <2>1. Selects([i \in 0 .. 0 |-> <<>>], s, S, 0)
    BY DEF Selects
  <2> QED  BY <2>1
<1>2. ASSUME NEW i \in 1 .. n, i - 1 \in P PROVE i \in P
  <2>1. PICK g : Selects(g, s, S, i - 1)
    BY <1>2
  <2>d. g = [j \in 0 .. (i - 1) |->
                IF j = 0 THEN <<>>
                ELSE IF s[j] \in S THEN Append(g[j - 1], s[j])
                ELSE g[j - 1]]
    BY <2>1 DEF Selects
  <2> DEFINE x == IF s[i] \in S THEN Append(g[i - 1], s[i]) ELSE g[i - 1]
             h == [j \in 0 .. i |-> IF j = i THEN x ELSE g[j]]
  <2>2. \A j \in 0 .. (i - 1) : h[j] = g[j]
    OBVIOUS
  <2>3. ASSUME NEW j \in 0 .. i
        PROVE  h[j] = IF j = 0 THEN <<>>
                      ELSE IF s[j] \in S THEN Append(h[j - 1], s[j])
                      ELSE h[j - 1]
    <3>1. CASE j = i
      <4>1. h[j] = x /\ j # 0 /\ h[j - 1] = g[j - 1]
        BY <2>2, <3>1
      <4> QED  BY <3>1, <4>1
    <3>2. CASE j # i
      <4>1. j \in 0 .. (i - 1) /\ h[j] = g[j]
        BY <2>2, <3>2
      <4>2. CASE j = 0
        BY <2>d, <4>1, <4>2
      <4>3. CASE j # 0
        <5>1. h[j - 1] = g[j - 1]
          BY <2>2, <4>1, <4>3
        <5>2. g[j] = IF s[j] \in S THEN Append(g[j - 1], s[j]) ELSE g[j - 1]
          BY <2>d, <4>1, <4>3
        <5> QED  BY <4>1, <4>3, <5>1, <5>2
      <4> QED  BY <4>2, <4>3
    <3> QED  BY <3>1, <3>2
  <2>4. Selects(h, s, S, i)
    <3> HIDE DEF x
    <3>1. h = [j \in 0 .. i |-> h[j]]
      OBVIOUS
    <3> HIDE DEF h
    <3>2. [j \in 0 .. i |-> h[j]] = [j \in 0 .. i |-> IF j = 0 THEN <<>>
                      ELSE IF s[j] \in S THEN Append(h[j - 1], s[j])
                      ELSE h[j - 1]]
      BY <2>3
    <3> QED  BY <3>1, <3>2 DEF Selects
  <2> QED  BY <2>4
<1>3. P = 0 .. n
  <2> HIDE DEF P
  <2>1. P \in SUBSET (0 .. n)
    BY DEF P
  <2> QED  BY <1>1, <1>2, <2>1, UpTo
<1> QED  BY <1>3

\* f tells where the elements of r come from: they are those of s that are in S,
\* in the same order.
Picks(f, r, s, S, n) ==
    /\ f \in [1 .. Len(r) -> 1 .. n]
    /\ \A i, j \in 1 .. Len(r) : i < j => f[i] < f[j]
    /\ \A i \in 1 .. Len(r) : r[i] = s[f[i]] /\ r[i] \in S
    /\ \A m \in 1 .. n : s[m] \in S => \E i \in 1 .. Len(r) : f[i] = m

LEMMA OnlyPicks ==
    ASSUME NEW T, NEW s \in Seq(T), NEW S
    PROVE  /\ Only(s, S) \in Seq(T) /\ Len(Only(s, S)) \in 0 .. Len(s)
           /\ \E f : Picks(f, Only(s, S), s, S, Len(s))
<1>1. PICK g : Selects(g, s, S, Len(s)) /\ Only(s, S) = g[Len(s)]
  <2>1. Len(s) \in Nat
    BY LenProperties
  <2> QED  BY <2>1, OnlyDef, SelectsExists
<1>n. Len(s) \in Nat /\ \A i \in 1 .. Len(s) : s[i] \in T
  BY LenProperties, ElementOfSeq
<1>d. \A i \in 0 .. Len(s) : g[i] = IF i = 0 THEN <<>>
            ELSE IF s[i] \in S THEN Append(g[i - 1], s[i])
            ELSE g[i - 1]
  BY <1>1 DEF Selects
<1> DEFINE P == {i \in 0 .. Len(s) : g[i] \in Seq(T) /\ Len(g[i]) \in 0 .. i /\ \E f : Picks(f, g[i], s, S, i)}
<1>2. 0 \in P
  <2>1. g[0] = <<>>
    BY <1>n, <1>d
  <2>2. Picks([i \in {} |-> 0], <<>>, s, S, 0)
    BY DEF Picks
  <2>3. \E f : Picks(f, g[0], s, S, 0)
    BY <2>1, <2>2
  <2>4. g[0] \in Seq(T) /\ Len(g[0]) \in 0 .. 0 /\ 0 \in 0 .. Len(s)
    BY <1>n, <2>1
  <2> QED  BY <2>3, <2>4
<1>3. ASSUME NEW i \in 1 .. Len(s), i - 1 \in P PROVE i \in P
  <2> DEFINE r == g[i - 1]
  <2>1. r \in Seq(T) /\ Len(r) \in 0 .. (i - 1)
    BY <1>3
  <2>2. PICK f : Picks(f, r, s, S, i - 1)
    BY <1>3
  <2>3. i \in 0 .. Len(s) /\ g[i] = IF s[i] \in S THEN Append(r, s[i]) ELSE r
    BY <1>n, <1>d
  <2> HIDE DEF P, r
  <2>4. CASE s[i] \notin S
    <3>1. g[i] = r
      BY <2>3, <2>4
    <3>2. Picks(f, r, s, S, i)
      <4>1. f \in [1 .. Len(r) -> 1 .. i]
        BY <2>1, <2>2, <1>n DEF Picks
      <4>2. ASSUME NEW m \in 1 .. i, s[m] \in S PROVE \E j \in 1 .. Len(r) : f[j] = m
        <5>1. m \in 1 .. (i - 1)
          BY <1>n, <2>4, <4>2
        <5> QED  BY <2>2, <4>2, <5>1 DEF Picks
      <4> QED  BY <2>2, <4>1, <4>2 DEF Picks
    <3> QED  BY <1>n, <2>1, <3>1, <3>2 DEF P
  <2>5. CASE s[i] \in S
    <3> DEFINE q == Append(r, s[i])
               h == [j \in 1 .. Len(r) + 1 |-> IF j = Len(r) + 1 THEN i ELSE f[j]]
    <3>1. /\ q \in Seq(T) /\ Len(q) = Len(r) + 1 /\ q[Len(r) + 1] = s[i]
          /\ \A j \in 1 .. Len(r) : q[j] = r[j]
      BY <1>n, <2>1, AppendProperties
    <3> HIDE DEF q
    <3>2. Picks(h, q, s, S, i)
      <4>1. h \in [1 .. Len(q) -> 1 .. i]
        BY <1>n, <2>1, <2>2, <3>1 DEF Picks
      <4>2. ASSUME NEW j \in 1 .. Len(q), NEW k \in 1 .. Len(q), j < k PROVE h[j] < h[k]
        BY <1>n, <2>1, <2>2, <3>1, <4>2 DEF Picks
      <4>3. ASSUME NEW j \in 1 .. Len(q) PROVE q[j] = s[h[j]] /\ q[j] \in S
        BY <1>n, <2>1, <2>2, <2>5, <3>1, <4>3 DEF Picks
      <4>4. ASSUME NEW m \in 1 .. i, s[m] \in S PROVE \E j \in 1 .. Len(q) : h[j] = m
        <5>1. CASE m = i
          <6>1. Len(r) + 1 \in 1 .. Len(q) /\ h[Len(r) + 1] = m
            BY <2>1, <3>1, <5>1
          <6> QED  BY <6>1
        <5>2. CASE m # i
          <6>1. PICK j \in 1 .. Len(r) : f[j] = m
            BY <1>n, <2>2, <4>4, <5>2 DEF Picks
          <6>2. j \in 1 .. Len(q) /\ h[j] = m
            BY <2>1, <3>1, <6>1
          <6> QED  BY <6>2
        <5> QED  BY <5>1, <5>2
      <4> HIDE DEF h
      <4> QED  BY <4>1, <4>2, <4>3, <4>4 DEF Picks
    <3>3. g[i] = q /\ Len(q) \in 0 .. i
      BY <2>1, <2>3, <2>5, <3>1 DEF q
    <3> HIDE DEF h
    <3> QED  BY <2>3, <3>1, <3>2, <3>3 DEF P
  <2> QED  BY <2>4, <2>5
<1>4. P = 0 .. Len(s)
  <2> HIDE DEF P
  <2>1. P \in SUBSET (0 .. Len(s))
    BY DEF P
  <2> QED  BY <1>n, <1>2, <1>3, <2>1, UpTo
<1>5. Len(s) \in P
  BY <1>n, <1>4
<1> QED  BY <1>1, <1>5

-----------------------------------------------------------------------------
(* The queue of request payloads: PayloadWriter *)

LEMMA SameCardinality == ASSUME NEW S PROVE Payload!Cardinality(S) = Cardinality(S)
BY DEF Payload!Cardinality, Cardinality

Increasing(s) == \A i, j \in 1 .. Len(s) : i < j => s[i] < s[j]

\* Every event is in one place, and what is queued or in hand is in order.
Sorted ==
    /\ Increasing(hand) /\ Increasing(payloads)
    /\ \A x \in Payload!ToSet(hand), y \in Payload!ToSet(payloads) : x < y
Placed ==
    /\ 1 .. produced = Payload!ToSet(hand) \cup Payload!ToSet(payloads) \cup flushed \cup failed \cup dropped
    /\ (Payload!ToSet(hand) \cup Payload!ToSet(payloads)) \cap (flushed \cup failed \cup dropped) = {}
    /\ flushed \cap failed = {} /\ dropped \cap (flushed \cup failed) = {}

\* Only a batch that is being inserted is in hand, unless the task was cut off;
\* and how the task comes to its end.
Worked ==
    /\ task \notin {"flushing", "ended"} => hand = <<>>
    /\ leaving => ~taking
    /\ (task = "ended" \/ stopper # "idle") => leaving
    /\ task \in {"connect", "refusing", "refused"} => flushed \cup failed = {}
    /\ task = "ended" /\ stopper # "expired" => flushed \cup failed = {} \/ (payloads = <<>> /\ hand = <<>>)
    /\ stopper = "returned" => task = "ended"

QueueInv == Payload!TypeOK /\ Sorted /\ Placed /\ Worked /\ Payload!NoLostWakeup

-----------------------------------------------------------------------------
(* Sequences of events *)

LEMMA SetOf ==
    ASSUME NEW S, NEW s \in Seq(S)
    PROVE  /\ Len(s) \in Nat /\ \A i \in 1 .. Len(s) : s[i] \in S /\ s[i] \in Payload!ToSet(s)
           /\ \A x \in Payload!ToSet(s) : x \in S /\ \E i \in 1 .. Len(s) : x = s[i]
           /\ Payload!ToSet(s) \subseteq S /\ s \in [1 .. Len(s) -> Payload!ToSet(s)]
<1>1. Len(s) \in Nat /\ DOMAIN s = 1 .. Len(s) /\ s \in [1 .. Len(s) -> S]
  BY LenProperties
<1>2. Payload!ToSet(s) = {s[i] : i \in 1 .. Len(s)}
  BY <1>1 DEF Payload!ToSet
<1> QED  BY <1>1, <1>2

LEMMA NoEvents == Payload!ToSet(<<>>) = {} /\ Increasing(<<>>) /\ Len(<<>>) = 0
<1>1. Len(<<>>) = 0 /\ DOMAIN <<>> = {}
  OBVIOUS
<1> QED  BY <1>1 DEF Payload!ToSet, Increasing

LEMMA AppendSet ==
    ASSUME NEW S, NEW s \in Seq(S), NEW e \in S
    PROVE  Append(s, e) \in Seq(S) /\ Payload!ToSet(Append(s, e)) = Payload!ToSet(s) \cup {e} /\ Len(Append(s, e)) = Len(s) + 1
<1> DEFINE t == Append(s, e)
<1>1. /\ t \in Seq(S) /\ Len(t) = Len(s) + 1 /\ t[Len(s) + 1] = e /\ Len(s) \in Nat
      /\ \A i \in 1 .. Len(s) : t[i] = s[i]
  BY AppendProperties, LenProperties
<1> HIDE DEF t
<1>2. Payload!ToSet(t) \subseteq Payload!ToSet(s) \cup {e}
  <2> SUFFICES ASSUME NEW x \in Payload!ToSet(t) PROVE x \in Payload!ToSet(s) \cup {e}
    OBVIOUS
  <2>1. PICK i \in 1 .. Len(t) : x = t[i]
    BY <1>1, SetOf
  <2>2. CASE i = Len(s) + 1
    BY <1>1, <2>1, <2>2
  <2>3. CASE i # Len(s) + 1
    <3>1. i \in 1 .. Len(s)
      BY <1>1, <2>3
    <3> QED  BY <1>1, <2>1, <3>1, SetOf
  <2> QED  BY <2>2, <2>3
<1>3. e \in Payload!ToSet(t)
  <2>1. Len(s) + 1 \in 1 .. Len(t)
    BY <1>1
  <2> QED  BY <1>1, <2>1, SetOf
<1>4. Payload!ToSet(s) \subseteq Payload!ToSet(t)
  <2> SUFFICES ASSUME NEW x \in Payload!ToSet(s) PROVE x \in Payload!ToSet(t)
    OBVIOUS
  <2>1. PICK i \in 1 .. Len(s) : x = s[i]
    BY SetOf
  <2>2. i \in 1 .. Len(t)
    BY <1>1
  <2> QED  BY <1>1, <2>1, <2>2, SetOf
<1> QED  BY <1>1, <1>2, <1>3, <1>4 DEF t

LEMMA AppendIncreasing ==
    ASSUME NEW s \in Seq(Nat), NEW e \in Nat, Increasing(s), \A x \in Payload!ToSet(s) : x < e
    PROVE  Increasing(Append(s, e))
<1>1. \A i \in 1 .. Len(s) : s[i] \in Payload!ToSet(s) /\ Append(s, e)[i] = s[i]
  BY SetOf
<1>2. Len(Append(s, e)) = Len(s) + 1 /\ Append(s, e)[Len(s) + 1] = e /\ Len(s) \in Nat
  OBVIOUS
<1> SUFFICES ASSUME NEW i \in 1 .. (Len(s) + 1), NEW j \in 1 .. (Len(s) + 1), i < j
             PROVE  Append(s, e)[i] < Append(s, e)[j]
  BY <1>2 DEF Increasing
<1>3. i \in 1 .. Len(s)
  BY <1>2
<1>4. CASE j = Len(s) + 1
  BY <1>1, <1>2, <1>3, <1>4
<1>5. CASE j # Len(s) + 1
  <2>1. j \in 1 .. Len(s)
    BY <1>2, <1>5
  <2> QED  BY <1>1, <1>3, <2>1 DEF Increasing
<1> QED  BY <1>4, <1>5

\* The first k events and the others.
Splits(s, k, a, b) ==
    /\ a \in Seq(Nat) /\ Len(a) = k /\ \A i \in 1 .. k : a[i] = s[i]
    /\ b \in Seq(Nat) /\ Len(b) = Len(s) - k /\ \A i \in 1 .. (Len(s) - k) : b[i] = s[i + k]

LEMMA SplitAt ==
    ASSUME NEW s \in Seq(Nat), Increasing(s), NEW k \in 0 .. Len(s), NEW a, NEW b, Splits(s, k, a, b)
    PROVE  /\ Payload!ToSet(a) \cup Payload!ToSet(b) = Payload!ToSet(s) /\ Increasing(a) /\ Increasing(b)
           /\ \A x \in Payload!ToSet(a), y \in Payload!ToSet(b) : x < y
<1> USE DEF Splits
<1>0. Len(s) \in Nat /\ k \in Nat
  BY LenProperties
<1>1. \A i \in 1 .. k : i \in 1 .. Len(s)
  BY <1>0
<1>2. \A i \in 1 .. (Len(s) - k) : i + k \in 1 .. Len(s)
  BY <1>0
<1>4. Increasing(a)
  BY <1>1 DEF Increasing
<1>5. Increasing(b)
  <2> SUFFICES ASSUME NEW i \in 1 .. (Len(s) - k), NEW j \in 1 .. (Len(s) - k), i < j PROVE b[i] < b[j]
    BY DEF Increasing
  <2>1. i + k \in 1 .. Len(s) /\ j + k \in 1 .. Len(s) /\ i + k < j + k
    BY <1>0
  <2>2. s[i + k] < s[j + k]
    BY <2>1 DEF Increasing
  <2> QED  BY <2>2
<1>6. ASSUME NEW x \in Payload!ToSet(a), NEW y \in Payload!ToSet(b) PROVE x < y
  <2>1. PICK i \in 1 .. k : x = a[i]
    BY SetOf
  <2>2. PICK j \in 1 .. (Len(s) - k) : y = b[j]
    BY SetOf
  <2>3. i \in 1 .. Len(s) /\ j + k \in 1 .. Len(s) /\ i < j + k
    BY <1>0
  <2>4. s[i] < s[j + k]
    BY <2>3 DEF Increasing
  <2> QED  BY <2>1, <2>2, <2>4
<1>7. ASSUME NEW x \in Payload!ToSet(a) PROVE x \in Payload!ToSet(s)
  <2>1. PICK i \in 1 .. k : x = a[i]
    BY SetOf
  <2> QED  BY <1>1, <2>1, SetOf
<1>8. ASSUME NEW x \in Payload!ToSet(b) PROVE x \in Payload!ToSet(s)
  <2>1. PICK i \in 1 .. (Len(s) - k) : x = b[i]
    BY SetOf
  <2> QED  BY <1>2, <2>1, SetOf
<1>9. ASSUME NEW x \in Payload!ToSet(s) PROVE x \in Payload!ToSet(a) \cup Payload!ToSet(b)
  <2>1. PICK i \in 1 .. Len(s) : x = s[i]
    BY SetOf
  <2>2. CASE i <= k
    <3>1. i \in 1 .. k
      BY <1>0, <2>2
    <3> QED  BY <2>1, <3>1, SetOf
  <2>3. CASE i > k
    <3>1. i - k \in 1 .. (Len(s) - k) /\ (i - k) + k = i
      BY <1>0, <2>3
    <3>2. b[i - k] = s[i]
      BY <3>1
    <3>3. b[i - k] \in Payload!ToSet(b)
      BY <3>1, SetOf
    <3> QED  BY <2>1, <3>2, <3>3
  <2> QED  BY <1>0, <2>2, <2>3
<1> QED  BY <1>4, <1>5, <1>6, <1>7, <1>8, <1>9

\* A batch and what stays behind it.
LEMMA BatchAndRest ==
    ASSUME NEW s \in Seq(Nat), Increasing(s), NEW k \in 0 .. Len(s)
    PROVE  LET a == SubSeq(s, 1, k)
               b == SubSeq(s, k + 1, Len(s))
           IN  /\ Len(a) = k /\ Len(b) = Len(s) - k
               /\ Payload!ToSet(a) \cup Payload!ToSet(b) = Payload!ToSet(s) /\ Increasing(a) /\ Increasing(b)
               /\ \A x \in Payload!ToSet(a), y \in Payload!ToSet(b) : x < y
<1> DEFINE a == SubSeq(s, 1, k)
<1> DEFINE b == SubSeq(s, k + 1, Len(s))
<1>0. Len(s) \in Nat /\ k \in Nat /\ \A i \in 1 .. Len(s) : s[i] \in Nat
  BY LenProperties, ElementOfSeq
<1>1. a \in Seq(Nat) /\ Len(a) = k /\ \A i \in 1 .. k : a[i] = s[i]
  <2>1. \A i \in 1 .. k : s[i] \in Nat
    BY <1>0
  <2>2. /\ a \in Seq(Nat) /\ Len(a) = IF 1 <= k THEN k - 1 + 1 ELSE 0
        /\ \A i \in 1 .. k - 1 + 1 : a[i] = s[1 + i - 1]
    BY <1>0, <2>1, SubSeqProperties
  <2>3. k - 1 + 1 = k /\ \A i \in 1 .. k : 1 + i - 1 = i
    BY <1>0
  <2> HIDE DEF a
  <2> QED  BY <1>0, <2>2, <2>3
<1>2. b \in Seq(Nat) /\ Len(b) = Len(s) - k /\ \A i \in 1 .. (Len(s) - k) : b[i] = s[i + k]
  <2>1. \A i \in k + 1 .. Len(s) : s[i] \in Nat
    BY <1>0
  <2>2. /\ b \in Seq(Nat) /\ Len(b) = IF k + 1 <= Len(s) THEN Len(s) - (k + 1) + 1 ELSE 0
        /\ \A i \in 1 .. Len(s) - (k + 1) + 1 : b[i] = s[(k + 1) + i - 1]
    BY <1>0, <2>1, SubSeqProperties
  <2>3. Len(s) - (k + 1) + 1 = Len(s) - k /\ \A i \in 1 .. (Len(s) - k) : (k + 1) + i - 1 = i + k
    BY <1>0
  <2> HIDE DEF b
  <2>4. Len(b) = Len(s) - k
    BY <1>0, <2>2
  <2>5. \A i \in 1 .. (Len(s) - k) : b[i] = s[i + k]
    BY <2>2, <2>3
  <2> QED  BY <2>2, <2>4, <2>5
<1> HIDE DEF a, b
<1>3. /\ Payload!ToSet(a) \cup Payload!ToSet(b) = Payload!ToSet(s) /\ Increasing(a) /\ Increasing(b)
      /\ \A x \in Payload!ToSet(a), y \in Payload!ToSet(b) : x < y
  <2>1. Splits(s, k, a, b)
    BY <1>1, <1>2 DEF Splits
  <2> QED  BY <2>1, SplitAt
<1> QED  BY <1>1, <1>2, <1>3 DEF a, b

\* The oldest event and the others.
LEMMA HeadAndTail ==
    ASSUME NEW s \in Seq(Nat), Increasing(s), s # <<>>
    PROVE  /\ Len(Tail(s)) = Len(s) - 1 /\ Increasing(Tail(s))
           /\ Payload!ToSet(s) = {Head(s)} \cup Payload!ToSet(Tail(s))
           /\ \A y \in Payload!ToSet(Tail(s)) : Head(s) < y
<1>0. Len(s) \in Nat /\ Len(s) >= 1 /\ 1 \in 0 .. Len(s) /\ Head(s) = s[1]
  BY EmptySeq
<1>1. /\ Head(s) \in Nat /\ Tail(s) \in Seq(Nat) /\ Len(Tail(s)) = Len(s) - 1
      /\ \A i \in 1 .. (Len(s) - 1) : Tail(s)[i] = s[i + 1]
  BY HeadTailProperties
<1> DEFINE h == <<Head(s)>>
<1>2. h \in Seq(Nat) /\ Len(h) = 1 /\ h[1] = s[1]
  BY <1>0, <1>1
<1>3. Payload!ToSet(h) = {Head(s)}
  BY <1>1 DEF Payload!ToSet
<1>4. \A i \in 1 .. 1 : h[i] = s[i]
  BY <1>2
<1> HIDE DEF h
<1>5. /\ Payload!ToSet(h) \cup Payload!ToSet(Tail(s)) = Payload!ToSet(s) /\ Increasing(Tail(s))
      /\ \A x \in Payload!ToSet(h), y \in Payload!ToSet(Tail(s)) : x < y
  <2>1. Splits(s, 1, h, Tail(s))
    BY <1>0, <1>1, <1>2, <1>4 DEF Splits
  <2> QED  BY <1>0, <2>1, SplitAt
<1> QED  BY <1>1, <1>3, <1>5

\* A sequence in order has as many events as places.
LEMMA CountedOnce ==
    ASSUME NEW s \in Seq(Nat), Increasing(s)
    PROVE  IsFiniteSet(Payload!ToSet(s)) /\ Cardinality(Payload!ToSet(s)) = Len(s)
<1>0. Len(s) \in Nat /\ s \in [1 .. Len(s) -> Payload!ToSet(s)] /\ \A i \in 1 .. Len(s) : s[i] \in Nat
  BY SetOf
<1>2. ASSUME NEW i \in 1 .. Len(s), NEW j \in 1 .. Len(s), s[i] = s[j] PROVE i = j
  <2>1. ~(s[i] < s[j]) /\ ~(s[j] < s[i])
    BY <1>0, <1>2
  <2>2. ~(i < j) /\ ~(j < i)
    BY <2>1 DEF Increasing
  <2> QED  BY <1>0, <2>2
<1>3. s \in Injection(1 .. Len(s), Payload!ToSet(s))
  BY <1>0, <1>2 DEF Injection, IsInjective
<1>4. s \in Surjection(1 .. Len(s), Payload!ToSet(s))
  BY <1>0, SetOf DEF Surjection
<1>5. ExistsBijection(1 .. Len(s), Payload!ToSet(s))
  BY <1>3, <1>4 DEF ExistsBijection, Bijection
<1>6. IsFiniteSet(1 .. Len(s)) /\ Cardinality(1 .. Len(s)) = Len(s)
  <2>1. 1 \in Int /\ Len(s) \in Int
    BY <1>0
  <2>2. /\ IsFiniteSet(1 .. Len(s))
        /\ Cardinality(1 .. Len(s)) = IF 1 > Len(s) THEN 0 ELSE Len(s) - 1 + 1
    BY <2>1, FS_Interval
  <2> QED  BY <1>0, <2>2
<1> QED  BY <1>5, <1>6, FS_Bijection

-----------------------------------------------------------------------------
(* The steps *)

LEMMA EventsAreNumbers ==
    ASSUME Payload!TypeOK
    PROVE  /\ payloads \in Seq(Nat) /\ hand \in Seq(Nat)
           /\ Payload!ToSet(payloads) \subseteq 1 .. Produced /\ Payload!ToSet(hand) \subseteq 1 .. Produced
<1>1. payloads \in Seq(1 .. Produced) /\ hand \in Seq(1 .. Produced) /\ 1 .. Produced \subseteq Nat
  BY DEF Payload!TypeOK
<1> QED  BY <1>1, SeqMonotonic, SetOf

\* A new event is larger than all there are.
LEMMA EnqueueKeeps == ASSUME Payload!PayloadAssumption, QueueInv, Payload!Enqueue PROVE QueueInv'
<1> DEFINE e == produced + 1
<1> DEFINE full == Len(payloads) >= MaxPayloads
<1>0. /\ Payload!TypeOK /\ Sorted /\ Placed /\ Worked /\ Payload!NoLostWakeup
      /\ payloads \in Seq(Nat) /\ hand \in Seq(Nat)
  BY EventsAreNumbers DEF QueueInv
<1>1. /\ produced < Produced /\ produced' = e /\ produced \in Nat /\ e \in 1 .. Produced /\ e \in Nat
      /\ UNCHANGED <<taking, leaving, task, stopper, hand, flushed, failed>>
  BY <1>0 DEF Payload!Enqueue, Payload!TypeOK, Payload!PayloadAssumption
<1>2. /\ 1 .. produced' = (1 .. produced) \cup {e} /\ e \notin 1 .. produced
      /\ \A x \in 1 .. produced : x < e
  BY <1>1
<1>3. /\ Payload!ToSet(hand) \subseteq 1 .. produced /\ Payload!ToSet(payloads) \subseteq 1 .. produced
      /\ flushed \subseteq 1 .. produced /\ failed \subseteq 1 .. produced /\ dropped \subseteq 1 .. produced
  BY <1>0 DEF Placed
<1>w. ~taking \/ ~leaving
  BY <1>0 DEF Worked
<1> HIDE DEF e
<1>4. CASE ~taking
  <2>1. dropped' = dropped \cup {e} /\ UNCHANGED <<payloads, wake>>
    BY <1>4 DEF Payload!Enqueue, e
  <2>2. Payload!TypeOK'
    <3>1. produced' \in 0 .. Produced /\ dropped' \subseteq 1 .. Produced
      BY <1>0, <1>1, <2>1 DEF Payload!TypeOK
    <3> QED  BY <1>0, <1>1, <2>1, <3>1 DEF Payload!TypeOK
  <2>3. Sorted'
    BY <1>0, <1>1, <2>1 DEF Sorted
  <2>4. Placed'
    BY <1>0, <1>1, <1>2, <1>3, <2>1 DEF Placed
  <2>5. Worked' /\ Payload!NoLostWakeup'
    BY <1>0, <1>1, <2>1 DEF Worked, Payload!NoLostWakeup
  <2> QED  BY <2>2, <2>3, <2>4, <2>5 DEF QueueInv
<1>5. CASE taking
  <2>1. /\ payloads' = IF full THEN Append(Tail(payloads), e) ELSE Append(payloads, e)
        /\ dropped' = IF full THEN dropped \cup {Head(payloads)} ELSE dropped
        /\ wake' = TRUE
    BY <1>5 DEF Payload!Enqueue, e
  <2>w. task # "ended" /\ stopper = "idle"
    BY <1>0, <1>5 DEF Worked, Payload!TypeOK
  <2>2. CASE ~full
    <3>1. payloads' = Append(payloads, e) /\ dropped' = dropped
      BY <2>1, <2>2
    <3>2. /\ payloads' \in Seq(1 .. Produced) /\ Payload!ToSet(payloads') = Payload!ToSet(payloads) \cup {e}
          /\ Len(payloads') = Len(payloads) + 1
      BY <1>0, <1>1, <3>1, AppendSet DEF Payload!TypeOK
    <3>3. Increasing(payloads')
      <4>1. \A x \in Payload!ToSet(payloads) : x < e
        BY <1>2, <1>3
      <4> QED  BY <1>0, <1>1, <3>1, <4>1, AppendIncreasing DEF Sorted
    <3>4. Len(payloads') <= MaxPayloads
      <4>1. Len(payloads) \in Nat /\ ~(Len(payloads) >= MaxPayloads) /\ MaxPayloads \in Nat
        BY <1>0, <2>2, LenProperties DEF Payload!PayloadAssumption
      <4> QED  BY <3>2, <4>1
    <3>5. Payload!TypeOK'
      <4>1. produced' \in 0 .. Produced
        BY <1>1
      <4> QED  BY <1>0, <1>1, <2>1, <3>1, <3>2, <3>4, <4>1 DEF Payload!TypeOK
    <3>6. Sorted'
      BY <1>0, <1>1, <1>2, <1>3, <3>2, <3>3 DEF Sorted
    <3>7. Placed'
      BY <1>0, <1>1, <1>2, <1>3, <3>1, <3>2 DEF Placed
    <3>8. Worked' /\ Payload!NoLostWakeup'
      BY <1>0, <1>1, <2>1, <2>w DEF Worked, Payload!NoLostWakeup
    <3> QED  BY <3>5, <3>6, <3>7, <3>8 DEF QueueInv
  <2>3. CASE full
    <3>0. payloads # <<>> /\ Len(payloads) \in Nat /\ Len(payloads) <= MaxPayloads /\ MaxPayloads \in Nat
      <4>1. Len(payloads) \in Nat /\ Len(payloads) >= MaxPayloads /\ MaxPayloads \in Nat \ {0}
        BY <1>0, <2>3, LenProperties DEF Payload!PayloadAssumption
      <4> QED  BY <1>0, <4>1, NoEvents DEF Payload!TypeOK
    <3>1. payloads' = Append(Tail(payloads), e) /\ dropped' = dropped \cup {Head(payloads)}
      BY <2>1, <2>3
    <3>2. /\ Len(Tail(payloads)) = Len(payloads) - 1 /\ Increasing(Tail(payloads))
          /\ Payload!ToSet(payloads) = {Head(payloads)} \cup Payload!ToSet(Tail(payloads))
          /\ \A y \in Payload!ToSet(Tail(payloads)) : Head(payloads) < y
      BY <1>0, <3>0, HeadAndTail DEF Sorted
    <3>3. Tail(payloads) \in Seq(1 .. Produced) /\ Tail(payloads) \in Seq(Nat) /\ Head(payloads) \in 1 .. Produced
      BY <1>0, <3>0, HeadTailProperties DEF Payload!TypeOK
    <3>4. /\ payloads' \in Seq(1 .. Produced) /\ Payload!ToSet(payloads') = Payload!ToSet(Tail(payloads)) \cup {e}
          /\ Len(payloads') = Len(Tail(payloads)) + 1
      <4>1. e \in 1 .. Produced /\ Tail(payloads) \in Seq(1 .. Produced)
        BY <1>1, <3>3
      <4>2. PICK S, s : S = 1 .. Produced /\ s = Tail(payloads)
        OBVIOUS
      <4>3. s \in Seq(S) /\ e \in S
        BY <4>1, <4>2
      <4>4. Append(s, e) \in Seq(S) /\ Payload!ToSet(Append(s, e)) = Payload!ToSet(s) \cup {e} /\ Len(Append(s, e)) = Len(s) + 1
        BY ONLY <4>3, AppendSet
      <4> QED  BY <3>1, <4>2, <4>4
    <3>5. Increasing(payloads')
      <4>1. \A x \in Payload!ToSet(Tail(payloads)) : x < e
        BY <1>2, <1>3, <3>2
      <4> QED  BY <1>1, <3>1, <3>2, <3>3, <4>1, AppendIncreasing
    <3>6. Payload!TypeOK'
      <4>1. produced' \in 0 .. Produced /\ dropped' \subseteq 1 .. Produced /\ Len(payloads') <= MaxPayloads
        <5>1. produced' \in 0 .. Produced
          BY <1>1
        <5>2. dropped' \subseteq 1 .. Produced
          BY <1>0, <3>1, <3>3 DEF Payload!TypeOK
        <5>3. Len(payloads') = Len(payloads)
          BY <3>0, <3>2, <3>4
        <5> QED  BY <3>0, <5>1, <5>2, <5>3
      <4> QED  BY <1>0, <1>1, <2>1, <3>4, <4>1 DEF Payload!TypeOK
    <3>7. Sorted'
      BY <1>0, <1>1, <1>2, <1>3, <3>2, <3>4, <3>5 DEF Sorted
    <3>8. Placed'
      <4>1. Head(payloads) \notin Payload!ToSet(Tail(payloads)) /\ Head(payloads) \in Payload!ToSet(payloads) /\ Head(payloads) \in Nat
        <5>1. Head(payloads) \in Nat
          BY <3>3
        <5>2. ~(Head(payloads) < Head(payloads))
          BY <5>1
        <5> QED  BY <3>2, <5>1, <5>2
      <4>2. Head(payloads) \notin Payload!ToSet(hand)
        <5>1. ~(Head(payloads) < Head(payloads))
          BY <4>1
        <5> QED  BY <1>0, <4>1, <5>1 DEF Sorted
      <4>3. Head(payloads) # e
        BY <1>2, <1>3, <4>1
      <4>4. hand' = hand /\ flushed' = flushed /\ failed' = failed
        BY <1>1
      <4> QED  BY <1>0, <1>2, <1>3, <3>1, <3>2, <3>4, <4>1, <4>2, <4>3, <4>4 DEF Placed
    <3>9. Worked' /\ Payload!NoLostWakeup'
      BY <1>0, <1>1, <2>1, <2>w DEF Worked, Payload!NoLostWakeup
    <3> QED  BY <3>6, <3>7, <3>8, <3>9 DEF QueueInv
  <2> QED  BY <2>2, <2>3
<1> QED  BY <1>4, <1>5

LEMMA RefuseEventsKeeps == ASSUME Payload!PayloadAssumption, QueueInv, Payload!RefuseEvents PROVE QueueInv'
<1>0. /\ Payload!TypeOK /\ Sorted /\ Placed /\ Worked /\ Payload!NoLostWakeup /\ task = "refusing"
      /\ UNCHANGED <<taking, leaving, stopper, hand, produced, flushed, failed>>
      /\ Payload!ToSet(payloads) \subseteq 1 .. Produced
  BY EventsAreNumbers DEF QueueInv, Payload!RefuseEvents
<1>1. CASE leaving
  <2>1. task' = "ended" /\ UNCHANGED <<payloads, dropped, wake>>
    BY <1>1 DEF Payload!RefuseEvents
  <2> QED  BY <1>0, <1>1, <2>1 DEF QueueInv, Payload!TypeOK, Sorted, Placed, Worked, Payload!NoLostWakeup
<1>2. CASE ~leaving
  <2>1. payloads' = <<>> /\ dropped' = dropped \cup Payload!ToSet(payloads) /\ wake' = FALSE /\ task' = "refused"
    BY <1>2 DEF Payload!RefuseEvents
  <2>2. Payload!TypeOK'
    <3>1. <<>> \in Seq(1 .. Produced) /\ Len(<<>>) <= MaxPayloads
      BY DEF Payload!PayloadAssumption
    <3> QED  BY <1>0, <2>1, <3>1 DEF Payload!TypeOK
  <2>3. Sorted'
    BY <1>0, <2>1, NoEvents DEF Sorted
  <2>4. Placed'
    <3>1. Payload!ToSet(payloads') = {} /\ Payload!ToSet(hand) = {} /\ hand' = hand
      BY <1>0, <2>1, NoEvents DEF Worked
    <3> QED  BY <1>0, <2>1, <3>1 DEF Placed
  <2>5. Worked' /\ Payload!NoLostWakeup'
    BY <1>0, <1>2, <2>1 DEF Worked, Payload!NoLostWakeup
  <2> QED  BY <2>2, <2>3, <2>4, <2>5 DEF QueueInv
<1> QED  BY <1>1, <1>2

LEMMA TakenIsSome ==
    ASSUME Payload!PayloadAssumption, Payload!TypeOK
    PROVE  Payload!Taken \in 0 .. Len(payloads) /\ Payload!Taken <= PayloadFlush
<1>1. Len(payloads) \in Nat /\ PayloadFlush \in Nat
  BY LenProperties DEF Payload!TypeOK, Payload!PayloadAssumption
<1>2. PICK m \in {PayloadFlush, Len(payloads)} : \A y \in {PayloadFlush, Len(payloads)} : m <= y
  BY <1>1
<1>3. Payload!Taken \in {PayloadFlush, Len(payloads)} /\ \A y \in {PayloadFlush, Len(payloads)} : Payload!Taken <= y
  BY <1>2 DEF Payload!Taken, Payload!Min
<1> QED  BY <1>1, <1>3

LEMMA LoopKeeps == ASSUME Payload!PayloadAssumption, QueueInv, Payload!Loop PROVE QueueInv'
<1>0. /\ Payload!TypeOK /\ Sorted /\ Placed /\ Worked /\ Payload!NoLostWakeup /\ task = "loop" /\ hand = <<>>
      /\ UNCHANGED <<taking, leaving, stopper, produced, flushed, failed, dropped>>
      /\ payloads \in Seq(Nat)
  BY EventsAreNumbers DEF QueueInv, Payload!Loop, Payload!ends, Worked
<1>1. CASE payloads = <<>>
  <2>1. /\ UNCHANGED <<payloads, hand>>
        /\ \/ leaving /\ task' = "ended" /\ wake' = wake
           \/ ~leaving /\ task' = "waiting" /\ wake' = FALSE
    BY <1>1 DEF Payload!Loop
  <2>2. Payload!TypeOK'
    BY <1>0, <2>1 DEF Payload!TypeOK
  <2>3. Sorted' /\ Placed' /\ Worked' /\ Payload!NoLostWakeup'
    BY <1>0, <1>1, <2>1 DEF Sorted, Placed, Worked, Payload!NoLostWakeup
  <2> QED  BY <2>2, <2>3 DEF QueueInv
<1>2. CASE payloads # <<>>
  <2>1. /\ hand' = SubSeq(payloads, 1, Payload!Taken) /\ payloads' = SubSeq(payloads, Payload!Taken + 1, Len(payloads))
        /\ task' = "flushing" /\ wake' = wake
    BY <1>2 DEF Payload!Loop, Payload!CollectBatch
  <2>2. Payload!Taken \in 0 .. Len(payloads) /\ Payload!Taken <= PayloadFlush /\ Len(payloads) \in Nat /\ Payload!Taken \in Nat
    BY <1>0, TakenIsSome, LenProperties
  <2>3. /\ Len(hand') = Payload!Taken /\ Len(payloads') = Len(payloads) - Payload!Taken
        /\ Payload!ToSet(hand') \cup Payload!ToSet(payloads') = Payload!ToSet(payloads) /\ Increasing(hand') /\ Increasing(payloads')
        /\ \A x \in Payload!ToSet(hand'), y \in Payload!ToSet(payloads') : x < y
    BY <1>0, <2>1, <2>2, BatchAndRest DEF Sorted
  <2>4. hand' \in Seq(1 .. Produced) /\ payloads' \in Seq(1 .. Produced)
    <3>1. \A i \in 1 .. Len(payloads) : payloads[i] \in 1 .. Produced
      BY <1>0, ElementOfSeq DEF Payload!TypeOK
    <3>2. \A i \in 1 .. Payload!Taken : payloads[i] \in 1 .. Produced
      BY <2>2, <3>1
    <3>3. \A i \in Payload!Taken + 1 .. Len(payloads) : payloads[i] \in 1 .. Produced
      BY <2>2, <3>1
    <3>4. 1 \in Int /\ Payload!Taken \in Int /\ Payload!Taken + 1 \in Int /\ Len(payloads) \in Int
      BY <2>2
    <3>5. SubSeq(payloads, 1, Payload!Taken) \in Seq(1 .. Produced)
      BY <3>2, <3>4, SubSeqProperties
    <3>6. SubSeq(payloads, Payload!Taken + 1, Len(payloads)) \in Seq(1 .. Produced)
      BY <3>3, <3>4, SubSeqProperties
    <3> QED  BY <2>1, <3>5, <3>6
  <2>5. Payload!TypeOK'
    <3>1. Len(payloads') <= MaxPayloads /\ Len(hand') <= PayloadFlush
      BY <1>0, <2>2, <2>3 DEF Payload!TypeOK, Payload!PayloadAssumption
    <3> QED  BY <1>0, <2>1, <2>4, <3>1 DEF Payload!TypeOK
  <2>6. Sorted'
    BY <2>3 DEF Sorted
  <2>7. Placed'
    <3>1. Payload!ToSet(hand) = {} /\ UNCHANGED <<produced, flushed, failed, dropped>>
      BY <1>0, NoEvents
    <3> QED  BY <1>0, <2>3, <3>1 DEF Placed
  <2>8. Worked' /\ Payload!NoLostWakeup'
    BY <1>0, <2>1 DEF Worked, Payload!NoLostWakeup
  <2> QED  BY <2>5, <2>6, <2>7, <2>8 DEF QueueInv
<1> QED  BY <1>1, <1>2

LEMMA FlushKeeps == ASSUME Payload!PayloadAssumption, QueueInv, NEW ok \in BOOLEAN, Payload!Flush(ok) PROVE QueueInv'
<1>0. /\ Payload!TypeOK /\ Sorted /\ Placed /\ Worked /\ Payload!NoLostWakeup /\ task = "flushing" /\ task' = "pausing"
      /\ hand' = <<>> /\ UNCHANGED <<payloads, wake, taking, leaving, stopper, produced, dropped>>
      /\ payloads \in Seq(Nat) /\ hand \in Seq(Nat) /\ Payload!ToSet(hand) \subseteq 1 .. Produced
  BY EventsAreNumbers DEF QueueInv, Payload!Flush
<1>1. \/ flushed' = flushed \cup Payload!ToSet(hand) /\ failed' = failed
      \/ failed' = failed \cup Payload!ToSet(hand) /\ flushed' = flushed
  BY DEF Payload!Flush
<1>2. Payload!TypeOK'
  <2>1. <<>> \in Seq(1 .. Produced) /\ Len(<<>>) <= PayloadFlush
    BY DEF Payload!PayloadAssumption
  <2>2. flushed' \subseteq 1 .. Produced /\ failed' \subseteq 1 .. Produced
    BY <1>0, <1>1 DEF Payload!TypeOK
  <2> QED  BY <1>0, <2>1, <2>2 DEF Payload!TypeOK
<1>3. Sorted'
  BY <1>0, NoEvents DEF Sorted
<1>4. Placed'
  <2>1. Payload!ToSet(hand') = {} /\ UNCHANGED <<payloads, produced, dropped>>
    BY <1>0, NoEvents
  <2>2. Payload!ToSet(hand) \cap Payload!ToSet(payloads) = {}
    <3> SUFFICES ASSUME NEW x \in Payload!ToSet(hand), x \in Payload!ToSet(payloads) PROVE FALSE
      OBVIOUS
    <3>1. x \in Nat /\ x < x
      BY <1>0, SetOf DEF Sorted
    <3> QED  BY <3>1
  <2>3. CASE flushed' = flushed \cup Payload!ToSet(hand) /\ failed' = failed
    BY <1>0, <2>1, <2>2, <2>3 DEF Placed
  <2>4. CASE failed' = failed \cup Payload!ToSet(hand) /\ flushed' = flushed
    BY <1>0, <2>1, <2>2, <2>4 DEF Placed
  <2> QED  BY <1>1, <2>3, <2>4
<1>5. Worked' /\ Payload!NoLostWakeup'
  BY <1>0 DEF Worked, Payload!NoLostWakeup
<1> QED  BY <1>2, <1>3, <1>4, <1>5 DEF QueueInv

\* The steps that move no event.
LEMMA OtherStepsKeep ==
    ASSUME Payload!PayloadAssumption, QueueInv,
           (\E ok \in BOOLEAN : Payload!Connect(ok)) \/ Payload!Wake \/ Payload!Pause
           \/ Payload!Stop \/ Payload!Stopped \/ Payload!StopTimeout
           \/ UNCHANGED Payload!vars
    PROVE  QueueInv'
<1>0. Payload!TypeOK /\ Sorted /\ Placed /\ Worked /\ Payload!NoLostWakeup
  BY DEF QueueInv
<1>1. UNCHANGED <<payloads, hand, produced, flushed, failed, dropped>>
  BY DEF Payload!Connect, Payload!Wake, Payload!Pause, Payload!Stop, Payload!Stopped, Payload!StopTimeout,
     Payload!vars, Payload!ends
<1>2. Sorted' /\ Placed'
  BY <1>0, <1>1 DEF Sorted, Placed
<1>3. Payload!TypeOK'
  BY <1>0, <1>1 DEF Payload!TypeOK, Payload!Connect, Payload!Wake, Payload!Pause, Payload!Stop,
     Payload!Stopped, Payload!StopTimeout, Payload!vars
<1>4. Worked'
  BY <1>0, <1>1 DEF Worked, Payload!Connect, Payload!Wake, Payload!Pause, Payload!Stop, Payload!Stopped,
     Payload!StopTimeout, Payload!vars, Payload!TypeOK
<1>5. Payload!NoLostWakeup'
  BY <1>0, <1>1 DEF Payload!NoLostWakeup, Payload!Connect, Payload!Wake, Payload!Pause, Payload!Stop,
     Payload!Stopped, Payload!StopTimeout, Payload!vars
<1> QED  BY <1>2, <1>3, <1>4, <1>5 DEF QueueInv

-----------------------------------------------------------------------------
(* The theorem *)

LEMMA QueueInit == ASSUME Payload!PayloadAssumption, Payload!Init PROVE QueueInv
<1>1. /\ <<>> \in Seq(1 .. Produced) /\ Len(<<>>) <= MaxPayloads /\ Len(<<>>) <= PayloadFlush
      /\ 0 \in 0 .. Produced /\ 1 .. 0 = {}
  BY DEF Payload!PayloadAssumption
<1>2. Payload!TypeOK
  BY <1>1 DEF Payload!Init, Payload!TypeOK
<1>3. Sorted /\ Placed
  BY <1>1, NoEvents DEF Payload!Init, Sorted, Placed
<1>4. Worked /\ Payload!NoLostWakeup
  BY DEF Payload!Init, Worked, Payload!NoLostWakeup
<1> QED  BY <1>2, <1>3, <1>4 DEF QueueInv

LEMMA QueueNext == ASSUME Payload!PayloadAssumption, QueueInv, [Payload!Next]_Payload!vars PROVE QueueInv'
BY EnqueueKeeps, RefuseEventsKeeps, LoopKeeps, FlushKeeps, OtherStepsKeep DEF Payload!Next, Payload!TaskStep

LEMMA QueueInvIsExact == ASSUME Payload!PayloadAssumption, QueueInv PROVE Payload!QueueExact
<1>0. /\ Payload!TypeOK /\ Sorted /\ Placed /\ Worked /\ Payload!NoLostWakeup
      /\ payloads \in Seq(Nat) /\ hand \in Seq(Nat) /\ produced \in Nat
  BY EventsAreNumbers DEF QueueInv, Payload!TypeOK
<1> DEFINE all == hand \o payloads
<1>1. /\ all \in Seq(Nat) /\ Len(all) = Len(hand) + Len(payloads) /\ Len(hand) \in Nat /\ Len(payloads) \in Nat
      /\ \A i \in 1 .. Len(hand) + Len(payloads) :
            all[i] = IF i <= Len(hand) THEN hand[i] ELSE payloads[i - Len(hand)]
  BY <1>0, ConcatProperties, LenProperties
<1>2. ASSUME NEW i \in 1 .. Len(all)
      PROVE  \/ i \in 1 .. Len(hand) /\ all[i] = hand[i]
             \/ i > Len(hand) /\ i - Len(hand) \in 1 .. Len(payloads) /\ all[i] = payloads[i - Len(hand)]
  BY <1>1
<1> HIDE DEF all
<1>3. Increasing(all)
  <2> SUFFICES ASSUME NEW i \in 1 .. Len(all), NEW j \in 1 .. Len(all), i < j PROVE all[i] < all[j]
    BY DEF Increasing
  <2>1. CASE j \in 1 .. Len(hand)
    <3>1. i \in 1 .. Len(hand) /\ all[i] = hand[i] /\ all[j] = hand[j]
      BY <1>1, <1>2, <2>1
    <3> QED  BY <1>0, <2>1, <3>1 DEF Sorted, Increasing
  <2>2. CASE i > Len(hand)
    <3>1. /\ i - Len(hand) \in 1 .. Len(payloads) /\ all[i] = payloads[i - Len(hand)]
          /\ j - Len(hand) \in 1 .. Len(payloads) /\ all[j] = payloads[j - Len(hand)]
          /\ i - Len(hand) < j - Len(hand)
      BY <1>1, <1>2, <2>2
    <3> QED  BY <1>0, <3>1 DEF Sorted, Increasing
  <2>3. CASE i \in 1 .. Len(hand) /\ j > Len(hand)
    <3>1. all[i] = hand[i] /\ j - Len(hand) \in 1 .. Len(payloads) /\ all[j] = payloads[j - Len(hand)]
      BY <1>1, <1>2, <2>3
    <3>2. all[i] \in Payload!ToSet(hand) /\ all[j] \in Payload!ToSet(payloads)
      BY <1>0, <2>3, <3>1, SetOf
    <3> QED  BY <1>0, <3>2 DEF Sorted
  <2> QED  BY <1>1, <2>1, <2>2, <2>3
<1>4. Payload!ToSet(all) = Payload!ToSet(hand) \cup Payload!ToSet(payloads)
  <2>1. ASSUME NEW x \in Payload!ToSet(all) PROVE x \in Payload!ToSet(hand) \cup Payload!ToSet(payloads)
    <3>1. PICK i \in 1 .. Len(all) : x = all[i]
      BY <1>1, SetOf
    <3> QED  BY <1>0, <1>2, <3>1, SetOf
  <2>2. ASSUME NEW x \in Payload!ToSet(hand) PROVE x \in Payload!ToSet(all)
    <3>1. PICK i \in 1 .. Len(hand) : x = hand[i]
      BY <1>0, SetOf
    <3>2. i \in 1 .. Len(all) /\ all[i] = hand[i]
      BY <1>1
    <3> QED  BY <1>1, <3>1, <3>2, SetOf
  <2>3. ASSUME NEW x \in Payload!ToSet(payloads) PROVE x \in Payload!ToSet(all)
    <3>1. PICK i \in 1 .. Len(payloads) : x = payloads[i]
      BY <1>0, SetOf
    <3>2. i + Len(hand) \in 1 .. Len(hand) + Len(payloads) /\ ~(i + Len(hand) <= Len(hand))
          /\ (i + Len(hand)) - Len(hand) = i
      BY <1>1
    <3>3. all[i + Len(hand)] = payloads[i]
      BY <1>1, <3>2
    <3> QED  BY <1>1, <3>1, <3>2, <3>3, SetOf
  <2> QED  BY <2>1, <2>2, <2>3
<1>5. IsFiniteSet(Payload!ToSet(all)) /\ Cardinality(Payload!ToSet(all)) = Len(all)
  BY <1>1, <1>3, CountedOnce
<1>6. Cardinality(Payload!ToSet(all)) + Cardinality(flushed) + Cardinality(failed) + Cardinality(dropped) = produced
  <2>1. IsFiniteSet(1 .. produced) /\ Cardinality(1 .. produced) = produced
    <3>1. 1 \in Int /\ produced \in Int
      BY <1>0
    <3>2. /\ IsFiniteSet(1 .. produced)
          /\ Cardinality(1 .. produced) = IF 1 > produced THEN 0 ELSE produced - 1 + 1
      BY <3>1, FS_Interval
    <3> QED  BY <1>0, <3>2
  <2>2. IsFiniteSet(flushed) /\ IsFiniteSet(failed) /\ IsFiniteSet(dropped)
    <3>1. flushed \subseteq 1 .. produced /\ failed \subseteq 1 .. produced /\ dropped \subseteq 1 .. produced
      BY <1>0 DEF Placed
    <3> QED  BY <2>1, <3>1, FS_Subset
  <2> DEFINE A == Payload!ToSet(all) \cup flushed
  <2> DEFINE B == A \cup failed
  <2>3. A \cap failed = {} /\ Payload!ToSet(all) \cap flushed = {} /\ B \cap dropped = {}
    BY <1>0, <1>4 DEF Placed
  <2>u. B \cup dropped = 1 .. produced
    BY <1>0, <1>4 DEF Placed
  <2>4. IsFiniteSet(A) /\ Cardinality(A) = Cardinality(Payload!ToSet(all)) + Cardinality(flushed) - Cardinality({})
    <3>1. IsFiniteSet(Payload!ToSet(all)) /\ IsFiniteSet(flushed) /\ Payload!ToSet(all) \cap flushed = {}
      BY <1>5, <2>2, <2>3
    <3> QED  BY <3>1, FS_Union
  <2> HIDE DEF A
  <2>5. IsFiniteSet(B) /\ Cardinality(B) = Cardinality(A) + Cardinality(failed) - Cardinality({})
    BY <2>2, <2>3, <2>4, FS_Union
  <2> HIDE DEF B
  <2>6. Cardinality(B \cup dropped) = Cardinality(B) + Cardinality(dropped) - Cardinality({})
    BY <2>2, <2>3, <2>5, FS_Union
  <2>7. Cardinality({}) = 0
    BY FS_EmptySet
  <2>8. /\ Cardinality(Payload!ToSet(all)) \in Nat /\ Cardinality(flushed) \in Nat /\ Cardinality(failed) \in Nat
        /\ Cardinality(dropped) \in Nat
    BY <1>5, <2>2, FS_CardinalityType
  <2>9. Cardinality(A) = Cardinality(Payload!ToSet(all)) + Cardinality(flushed) /\ Cardinality(A) \in Nat
    BY <2>4, <2>7, <2>8
  <2>10. Cardinality(B) = Cardinality(A) + Cardinality(failed) /\ Cardinality(B) \in Nat
    BY <2>5, <2>7, <2>8, <2>9
  <2>11. Cardinality(B) + Cardinality(dropped) = produced
    <3>1. Cardinality(B \cup dropped) = produced
      BY <2>1, <2>u
    <3> QED  BY <2>6, <2>7, <2>8, <2>10, <3>1
  <2> QED  BY <2>8, <2>9, <2>10, <2>11
<1>7. Payload!Accounted
  <2>1. 1 .. produced = Payload!ToSet(all) \cup flushed \cup failed \cup dropped
    BY <1>0, <1>4 DEF Placed
  <2>2. \A i, j \in 1 .. Len(all) : i < j => all[i] < all[j]
    BY <1>3 DEF Increasing
  <2>3. /\ Payload!Cardinality(Payload!ToSet(all)) = Cardinality(Payload!ToSet(all))
        /\ Payload!Cardinality(flushed) = Cardinality(flushed) /\ Payload!Cardinality(failed) = Cardinality(failed)
        /\ Payload!Cardinality(dropped) = Cardinality(dropped)
    BY SameCardinality
  <2>4. /\ Payload!Cardinality(Payload!ToSet(all)) = Len(all)
        /\ Payload!Cardinality(Payload!ToSet(all)) + Payload!Cardinality(flushed) + Payload!Cardinality(failed)
             + Payload!Cardinality(dropped) = produced
    BY <1>5, <1>6, <2>3
  <2> QED  BY <2>1, <2>2, <2>4 DEF Payload!Accounted, all
<1>8. Payload!StopDrains
  BY <1>0 DEF Worked, Payload!StopDrains
<1> QED  BY <1>0, <1>7, <1>8 DEF Payload!QueueExact

\* The queue of payloads is exact (enqueue, _collect_batch, _flush and stop of
\* RequestPayloadWriter): every event is in one place and in order, the task does
\* not sleep on work, and a stop that returns in time has drained the queue.
THEOREM PayloadsAreExact == Payload!Spec => []QueueExact
<1>0. Payload!PayloadAssumption
  BY QueuesAssumption
<1>1. Payload!Init => QueueInv
  BY <1>0, QueueInit
<1>2. QueueInv /\ [Payload!Next]_Payload!vars => QueueInv'
  BY <1>0, QueueNext
<1>3. QueueInv => QueueExact
  BY <1>0, QueueInvIsExact DEF QueueExact
<1> QED  BY <1>1, <1>2, <1>3, PTL DEF Payload!Spec

-----------------------------------------------------------------------------
(* The events of a conversation: ConversationHub *)

\* The hub's Only is the same.
LEMMA SameOnly == ASSUME NEW s, NEW S PROVE Hub!Only(s, S) = Only(s, S)
BY DEF Hub!Only, Only

LEMMA SameToSet == ASSUME NEW s PROVE Hub!ToSet(s) = ToSet(s)
BY DEF Hub!ToSet, ToSet

AnyFrame == [kind : {"delta", "terminal", "end", "reset"}, n : Nat]

\* A queue of frames of the events ks, in their order and within the limit.
Proper(q, ks) ==
    /\ q \in Seq(AnyFrame) /\ Len(q) <= QueueSize
    /\ \A i \in 1 .. Len(q) :
          q[i] = Hub!Reset \/ (q[i].n \in 1 .. Len(ks) /\ q[i] = Hub!Frame(ks[q[i].n], q[i].n))
    /\ \A i, j \in 1 .. Len(q) :
          i < j /\ Hub!Reset \notin {q[i], q[j]} => q[i].n < q[j].n

FeedInv ==
    /\ kinds \in Seq(Kinds) /\ Proper(queue, kinds)
    /\ conn \in {"closed", "open", "live"} /\ dirty \in BOOLEAN /\ since \in 0 .. Interval
    /\ known \subseteq 1 .. Len(kinds) /\ muted \in BOOLEAN
    /\ Hub!LatestKept /\ Hub!LossAnnounced

LEMMA FrameType == ASSUME Hub!HubAssumption PROVE
    /\ Hub!Reset \in AnyFrame
    /\ \A k \in Kinds, i \in Nat : Hub!Frame(k, i) \in AnyFrame /\ Hub!Frame(k, i) # Hub!Reset
                                   /\ Hub!Frame(k, i).n = i /\ Hub!Frame(k, i).kind = k
BY DEF Hub!HubAssumption, Hub!Reset, Hub!Frame, AnyFrame

\* What is dropped from a queue leaves the rest in order.
LEMMA ProperPart ==
    ASSUME NEW q, NEW ks, Proper(q, ks), NEW r \in Seq(AnyFrame), Len(r) <= Len(q),
           NEW f \in [1 .. Len(r) -> 1 .. Len(q)],
           \A i, j \in 1 .. Len(r) : i < j => f[i] < f[j],
           \A i \in 1 .. Len(r) : r[i] = q[f[i]],
           QueueSize \in Nat
    PROVE  Proper(r, ks)
<1>1. Len(r) <= QueueSize
  BY LenProperties DEF Proper
<1>2. ASSUME NEW i \in 1 .. Len(r)
      PROVE  r[i] = Hub!Reset \/ (r[i].n \in 1 .. Len(ks) /\ r[i] = Hub!Frame(ks[r[i].n], r[i].n))
  BY DEF Proper
<1>3. ASSUME NEW i \in 1 .. Len(r), NEW j \in 1 .. Len(r), i < j, Hub!Reset \notin {r[i], r[j]}
      PROVE  r[i].n < r[j].n
  <2>1. f[i] \in 1 .. Len(q) /\ f[j] \in 1 .. Len(q) /\ f[i] < f[j] /\ r[i] = q[f[i]] /\ r[j] = q[f[j]]
    BY <1>3
  <2>2. Hub!Reset \notin {q[f[i]], q[f[j]]}
    BY <1>3, <2>1
  <2> QED  BY <2>1, <2>2 DEF Proper
<1> QED  BY <1>1, <1>2, <1>3 DEF Proper

LEMMA ProperTail ==
    ASSUME NEW q, NEW ks, Proper(q, ks), q # <<>>, QueueSize \in Nat
    PROVE  /\ Proper(Tail(q), ks) /\ Len(Tail(q)) = Len(q) - 1 /\ Len(q) \in Nat \ {0}
           /\ \A i \in 1 .. Len(q) - 1 : Tail(q)[i] = q[i + 1]
<1>1. q \in Seq(AnyFrame)
  BY DEF Proper
<1>2. /\ Tail(q) \in Seq(AnyFrame) /\ Len(q) \in Nat \ {0} /\ Len(Tail(q)) = Len(q) - 1
      /\ \A i \in 1 .. Len(q) - 1 : Tail(q)[i] = q[i + 1]
  BY <1>1, LenProperties, HeadTailProperties, EmptySeq
<1> DEFINE r == Tail(q)
           f == [i \in 1 .. Len(r) |-> i + 1]
<1>3. f \in [1 .. Len(r) -> 1 .. Len(q)]
  BY <1>2
<1>4. \A i, j \in 1 .. Len(r) : i < j => f[i] < f[j]
  BY <1>2
<1>5. \A i \in 1 .. Len(r) : r[i] = q[f[i]]
  BY <1>2
<1>6. Len(r) <= Len(q) /\ r \in Seq(AnyFrame)
  BY <1>2
<1> HIDE DEF r, f
<1>7. Proper(r, ks)
  BY <1>3, <1>4, <1>5, <1>6, ProperPart
<1> QED  BY <1>2, <1>7 DEF r

LEMMA ProperKept ==
    ASSUME NEW q, NEW ks, Proper(q, ks), QueueSize \in Nat
    PROVE  Proper(Hub!Kept(q), ks) /\ Len(Hub!Kept(q)) \in 0 .. Len(q)
<1> DEFINE S == {x \in Hub!ToSet(q) : Hub!IsTerminal(x)}
           r == Only(q, S)
<1>1. q \in Seq(AnyFrame)
  BY DEF Proper
<1>2. Hub!Kept(q) = r
  BY SameOnly DEF Hub!Kept
<1> HIDE DEF S
<1>3. r \in Seq(AnyFrame) /\ Len(r) \in 0 .. Len(q) /\ \E f : Picks(f, r, q, S, Len(q))
  BY <1>1, OnlyPicks
<1>4. PICK f : Picks(f, r, q, S, Len(q))
  BY <1>3
<1> HIDE DEF r
<1>5. /\ f \in [1 .. Len(r) -> 1 .. Len(q)]
      /\ \A i, j \in 1 .. Len(r) : i < j => f[i] < f[j]
      /\ \A i \in 1 .. Len(r) : r[i] = q[f[i]]
  BY <1>4 DEF Picks
<1>6. Len(r) <= Len(q)
  BY <1>1, <1>3, LenProperties
<1>7. Proper(r, ks)
  BY <1>3, <1>5, <1>6, ProperPart
<1> QED  BY <1>2, <1>3, <1>7

LEMMA ProperAppend ==
    ASSUME Hub!HubAssumption, NEW q, NEW ks \in Seq(Kinds), Proper(q, ks), Len(q) < QueueSize,
           NEW k \in Kinds
    PROVE  Proper(Append(q, Hub!Frame(k, Len(ks) + 1)), Append(ks, k))
<1> DEFINE f == Hub!Frame(k, Len(ks) + 1)
           r == Append(q, f)
           ls == Append(ks, k)
<1>1. q \in Seq(AnyFrame) /\ Len(ks) \in Nat /\ Len(q) \in Nat /\ QueueSize \in Nat
  BY LenProperties DEF Proper, Hub!HubAssumption
<1>2. f \in AnyFrame /\ f # Hub!Reset /\ f.n = Len(ks) + 1
  BY <1>1, FrameType
<1>3. /\ Len(ls) = Len(ks) + 1 /\ ls[Len(ks) + 1] = k
      /\ \A i \in 1 .. Len(ks) : ls[i] = ks[i]
  BY AppendProperties
<1>f. f = Hub!Frame(k, Len(ks) + 1)
  OBVIOUS
<1> HIDE DEF f, ls
<1>4. /\ r \in Seq(AnyFrame) /\ Len(r) = Len(q) + 1 /\ r[Len(q) + 1] = f
      /\ \A i \in 1 .. Len(q) : r[i] = q[i]
  BY <1>1, <1>2, AppendProperties
<1> HIDE DEF r
<1>5. ASSUME NEW i \in 1 .. Len(r)
      PROVE  r[i] = Hub!Reset \/ (r[i].n \in 1 .. Len(ls) /\ r[i] = Hub!Frame(ls[r[i].n], r[i].n))
  <2>1. CASE i = Len(q) + 1
    BY <1>1, <1>2, <1>3, <1>4, <1>f, <2>1
  <2>2. CASE i # Len(q) + 1
    <3>1. i \in 1 .. Len(q) /\ r[i] = q[i]
      BY <1>1, <1>4, <2>2
    <3>2. q[i] = Hub!Reset \/ (q[i].n \in 1 .. Len(ks) /\ q[i] = Hub!Frame(ks[q[i].n], q[i].n))
      BY <3>1 DEF Proper
    <3> QED  BY <1>1, <1>3, <3>1, <3>2
  <2> QED  BY <2>1, <2>2
<1>6. ASSUME NEW i \in 1 .. Len(r), NEW j \in 1 .. Len(r), i < j, Hub!Reset \notin {r[i], r[j]}
      PROVE  r[i].n < r[j].n
  <2>1. i \in 1 .. Len(q) /\ r[i] = q[i] /\ q[i].n \in 1 .. Len(ks)
    <3>1. i \in 1 .. Len(q) /\ r[i] = q[i]
      BY <1>1, <1>4, <1>6
    <3> QED  BY <1>6, <3>1 DEF Proper
  <2>2. CASE j = Len(q) + 1
    BY <1>1, <1>2, <1>4, <2>1, <2>2
  <2>3. CASE j # Len(q) + 1
    <3>1. j \in 1 .. Len(q) /\ r[j] = q[j]
      BY <1>1, <1>4, <2>3
    <3> QED  BY <1>6, <2>1, <3>1 DEF Proper
  <2> QED  BY <2>2, <2>3
<1>7. Len(r) <= QueueSize
  BY <1>1, <1>4
<1>8. Proper(r, ls)
  BY <1>4, <1>5, <1>6, <1>7 DEF Proper
<1> QED  BY <1>8 DEF r, ls, f

\* Frames of events stay so when another event is published.
LEMMA ProperLater ==
    ASSUME NEW q, NEW ks \in Seq(Kinds), Proper(q, ks), NEW k \in Kinds
    PROVE  Proper(q, Append(ks, k))
<1>1. /\ Len(ks) \in Nat /\ Len(Append(ks, k)) = Len(ks) + 1
      /\ \A i \in 1 .. Len(ks) : Append(ks, k)[i] = ks[i]
  BY LenProperties, AppendProperties
<1>2. ASSUME NEW i \in 1 .. Len(q)
      PROVE  \/ q[i] = Hub!Reset
             \/ q[i].n \in 1 .. Len(Append(ks, k)) /\ q[i] = Hub!Frame(Append(ks, k)[q[i].n], q[i].n)
  <2>1. q[i] = Hub!Reset \/ (q[i].n \in 1 .. Len(ks) /\ q[i] = Hub!Frame(ks[q[i].n], q[i].n))
    BY DEF Proper
  <2> QED  BY <1>1, <2>1
<1> QED  BY <1>2 DEF Proper

LEMMA ProperSqueeze ==
    ASSUME Hub!HubAssumption, NEW q, NEW ks, Proper(q, ks)
    PROVE  /\ Proper(Hub!Squeeze(q), ks)
           /\ \E i \in 1 .. Len(Hub!Squeeze(q)) : Hub!Squeeze(q)[i] = Hub!Reset
<1>0. q \in Seq(AnyFrame) /\ Len(q) \in Nat /\ QueueSize \in Nat /\ QueueSize > 1 /\ Hub!Reset \in AnyFrame
  BY LenProperties, FrameType DEF Proper, Hub!HubAssumption
<1>1. CASE Len(q) < QueueSize
  <2> DEFINE r == Append(q, Hub!Reset)
  <2>1. /\ r \in Seq(AnyFrame) /\ Len(r) = Len(q) + 1 /\ r[Len(q) + 1] = Hub!Reset
        /\ \A i \in 1 .. Len(q) : r[i] = q[i]
    BY <1>0, AppendProperties
  <2>2. Hub!Squeeze(q) = r
    BY <1>1 DEF Hub!Squeeze
  <2> HIDE DEF r
  <2>3. \A i \in 1 .. Len(r) : r[i] = Hub!Reset \/ (i \in 1 .. Len(q) /\ r[i] = q[i])
    BY <1>0, <2>1
  <2>4. ASSUME NEW i \in 1 .. Len(r)
        PROVE  r[i] = Hub!Reset \/ (r[i].n \in 1 .. Len(ks) /\ r[i] = Hub!Frame(ks[r[i].n], r[i].n))
    BY <2>3 DEF Proper
  <2>5. ASSUME NEW i \in 1 .. Len(r), NEW j \in 1 .. Len(r), i < j, Hub!Reset \notin {r[i], r[j]}
        PROVE  r[i].n < r[j].n
    BY <2>3, <2>5 DEF Proper
  <2>6. Proper(r, ks)
    BY <1>0, <1>1, <2>1, <2>4, <2>5 DEF Proper
  <2>7. Len(q) + 1 \in 1 .. Len(r)
    BY <1>0, <2>1
  <2> QED  BY <2>1, <2>2, <2>6, <2>7
<1>2. CASE ~(Len(q) < QueueSize)
  <2> DEFINE p == Hub!Kept(q)
             s == <<Hub!Reset>> \o p
             m == IF Len(s) > QueueSize THEN QueueSize ELSE Len(s)
             r == SubSeq(s, 1, m)
  <2>1. Hub!Squeeze(q) = r
    BY <1>2 DEF Hub!Squeeze
  <2>2. Proper(p, ks) /\ p \in Seq(AnyFrame) /\ Len(p) \in Nat
    <3>1. Proper(p, ks)
      BY <1>0, ProperKept
    <3> QED  BY <3>1, LenProperties DEF Proper
  <2> HIDE DEF p
  <2>3. /\ s \in Seq(AnyFrame) /\ Len(s) = Len(p) + 1 /\ s[1] = Hub!Reset
        /\ \A i \in 2 .. Len(s) : i - 1 \in 1 .. Len(p) /\ s[i] = p[i - 1]
    <3>1. /\ <<Hub!Reset>> \in Seq(AnyFrame) /\ Len(<<Hub!Reset>>) = 1
          /\ <<Hub!Reset>>[1] = Hub!Reset
      BY <1>0
    <3>2. /\ s \in Seq(AnyFrame) /\ Len(s) = 1 + Len(p)
          /\ \A i \in 1 .. 1 + Len(p) : s[i] = IF i <= 1 THEN <<Hub!Reset>>[i] ELSE p[i - 1]
      BY <2>2, <3>1, ConcatProperties
    <3> HIDE DEF s
    <3> QED  BY <2>2, <3>1, <3>2
  <2> HIDE DEF s
  <2>4. m \in 1 .. Len(s) /\ m <= QueueSize
    BY <1>0, <2>2, <2>3
  <2> HIDE DEF m
  <2>5. /\ r \in Seq(AnyFrame) /\ Len(r) = m /\ \A i \in 1 .. Len(r) : r[i] = s[i] /\ i \in 1 .. Len(s)
    <3>1. /\ 1 \in Nat /\ m \in Nat /\ 1 <= m /\ Len(s) \in Nat
      BY <2>2, <2>3, <2>4
    <3>2. /\ r \in Seq(AnyFrame) /\ Len(r) = m /\ \A i \in 1 .. m : r[i] = s[i]
      BY <2>3, <2>4, <3>1, SubSeqProperties
    <3> HIDE DEF r
    <3> QED  BY <2>4, <3>1, <3>2
  <2> HIDE DEF r
  <2>6. ASSUME NEW i \in 1 .. Len(r), r[i] # Hub!Reset
        PROVE  i - 1 \in 1 .. Len(p) /\ r[i] = p[i - 1]
    <3>1. i # 1
      BY <2>3, <2>5, <2>6
    <3> QED  BY <2>2, <2>3, <2>5, <3>1
  <2>7. ASSUME NEW i \in 1 .. Len(r)
        PROVE  r[i] = Hub!Reset \/ (r[i].n \in 1 .. Len(ks) /\ r[i] = Hub!Frame(ks[r[i].n], r[i].n))
    BY <2>2, <2>6 DEF Proper
  <2>8. ASSUME NEW i \in 1 .. Len(r), NEW j \in 1 .. Len(r), i < j, Hub!Reset \notin {r[i], r[j]}
        PROVE  r[i].n < r[j].n
    <3>1. i - 1 \in 1 .. Len(p) /\ r[i] = p[i - 1] /\ j - 1 \in 1 .. Len(p) /\ r[j] = p[j - 1]
      BY <2>6, <2>8
    <3>2. i - 1 < j - 1 /\ Hub!Reset \notin {p[i - 1], p[j - 1]}
      BY <2>4, <2>5, <2>8, <3>1
    <3> QED  BY <2>2, <3>1, <3>2 DEF Proper
  <2>9. Proper(r, ks)
    BY <2>4, <2>5, <2>7, <2>8 DEF Proper
  <2>10. 1 \in 1 .. Len(r) /\ r[1] = Hub!Reset
    BY <2>3, <2>4, <2>5
  <2> QED  BY <2>1, <2>9, <2>10
<1> QED  BY <1>1, <1>2

\* The new frame is in the queue whatever is dropped, and nothing is dropped from
\* a queue that has room.
LEMMA ProperPut ==
    ASSUME Hub!HubAssumption, NEW q, NEW ks \in Seq(Kinds), Proper(q, ks), NEW k \in Kinds
    PROVE  LET f == Hub!Frame(k, Len(ks) + 1) IN
           /\ Proper(Hub!Put(q, f), Append(ks, k))
           /\ \E i \in 1 .. Len(Hub!Put(q, f)) : Hub!Put(q, f)[i] = f
           /\ Len(q) < QueueSize => Hub!Put(q, f) = Append(q, f)
<1> DEFINE f == Hub!Frame(k, Len(ks) + 1)
<1>0. q \in Seq(AnyFrame) /\ Len(q) \in Nat /\ Len(ks) \in Nat /\ QueueSize \in Nat /\ QueueSize > 1 /\ Len(q) <= QueueSize
  BY LenProperties DEF Proper, Hub!HubAssumption
<1>1. f \in AnyFrame
  BY <1>0, FrameType
<1>2. ASSUME NEW p, Proper(p, ks), Len(p) < QueueSize
      PROVE  /\ Proper(Append(p, f), Append(ks, k))
             /\ \E i \in 1 .. Len(Append(p, f)) : Append(p, f)[i] = f
  <2>1. Proper(Append(p, f), Append(ks, k))
    BY <1>2, ProperAppend
  <2>2. p \in Seq(AnyFrame) /\ Len(p) \in Nat
    BY <1>2, LenProperties DEF Proper
  <2> HIDE DEF f
  <2>3. Len(Append(p, f)) = Len(p) + 1 /\ Append(p, f)[Len(p) + 1] = f
    BY <1>1, <2>2, AppendProperties
  <2>4. Len(p) + 1 \in 1 .. Len(Append(p, f))
    BY <2>2, <2>3
  <2> QED  BY <2>1, <2>3, <2>4
<1>3. ASSUME NEW p, Proper(p, ks), ~(Len(p) < QueueSize)
      PROVE  Proper(Tail(p), ks) /\ Len(Tail(p)) < QueueSize
  <2>1. p \in Seq(AnyFrame) /\ Len(p) \in Nat /\ Len(p) <= QueueSize
    BY <1>3, LenProperties DEF Proper
  <2>2. p # <<>>
    BY <1>0, <1>3, <2>1, EmptySeq
  <2> QED  BY <1>0, <1>3, <2>1, <2>2, ProperTail
<1>4. Proper(Hub!Kept(q), ks)
  BY <1>0, ProperKept
<1> DEFINE b == Hub!Put(q, f)
<1> HIDE DEF f
<1>5. \/ Len(q) < QueueSize /\ b = Append(q, f)
      \/ ~(Len(q) < QueueSize) /\ b = Append(Tail(q), f)
      \/ ~(Len(q) < QueueSize) /\ Len(Hub!Kept(q)) < QueueSize /\ b = Append(Hub!Kept(q), f)
      \/ ~(Len(q) < QueueSize) /\ ~(Len(Hub!Kept(q)) < QueueSize) /\ b = Append(Tail(Hub!Kept(q)), f)
  BY DEF Hub!Put
<1>6. PICK p : Proper(p, ks) /\ Len(p) < QueueSize /\ b = Append(p, f)
  BY <1>3, <1>4, <1>5
<1>7. Proper(b, Append(ks, k)) /\ \E i \in 1 .. Len(b) : b[i] = f
  BY <1>2, <1>6
<1>8. Len(q) < QueueSize => b = Append(q, f)
  BY <1>5
<1> QED  BY <1>7, <1>8 DEF f

LEMMA FeedInit == ASSUME Hub!HubAssumption, Hub!Init PROVE FeedInv
<1> USE DEF Hub!Init, Hub!HubAssumption
<1>1. kinds \in Seq(Kinds) /\ Len(kinds) = 0 /\ queue \in Seq(AnyFrame) /\ Len(queue) = 0
  BY EmptySeq
<1>2. Proper(queue, kinds)
  BY <1>1 DEF Proper
<1>3. since \in 0 .. Interval
  OBVIOUS
<1> QED  BY <1>1, <1>2, <1>3 DEF FeedInv, Hub!LatestKept, Hub!LossAnnounced

LEMMA EmptyProper == ASSUME Hub!HubAssumption, NEW ks PROVE Proper(<<>>, ks)
<1>1. <<>> \in Seq(AnyFrame) /\ Len(<<>>) = 0
  BY EmptySeq
<1> QED  BY <1>1 DEF Proper, Hub!HubAssumption

LEMMA PublishKeeps == ASSUME Hub!HubAssumption, FeedInv, NEW k \in Kinds, Hub!Publish(k) PROVE FeedInv'
<1> USE DEF FeedInv
<1>0. /\ Len(kinds) \in Nat /\ kinds' = Append(kinds, k) /\ Len(kinds') = Len(kinds) + 1
      /\ kinds' \in Seq(Kinds) /\ UNCHANGED <<conn, known>>
  BY LenProperties, AppendProperties DEF Hub!Publish
<1>t. known' \subseteq 1 .. Len(kinds')
  BY <1>0
<1>1. CASE conn = "closed"
  <2>1. UNCHANGED <<queue, dirty, since, muted>>
    BY <1>1 DEF Hub!Publish
  <2>2. Proper(queue', kinds')
    BY <1>0, <2>1, ProperLater
  <2> QED  BY <1>0, <1>1, <1>t, <2>1, <2>2 DEF Hub!LatestKept, Hub!LossAnnounced
<1>2. CASE conn # "closed"
  <2> DEFINE f == Hub!Frame(k, Len(kinds) + 1)
             first == dirty /\ since >= Interval
             q == IF first THEN Hub!Squeeze(queue) ELSE queue
             again == since >= Interval /\ (first => Interval = 0)
             full == Len(q) = QueueSize
  <2>1. /\ queue' = Hub!Put(q, f)
        /\ dirty' = ((dirty /\ ~first) \/ (full /\ again))
        /\ since' = IF first THEN 0 ELSE since
        /\ muted' = (muted \/ (full /\ ~again))
    BY <1>2 DEF Hub!Publish, Hub!Deliver, Hub!Mark, Hub!Sent
  <2>2. Proper(q, kinds) /\ (first => \E i \in 1 .. Len(q) : q[i] = Hub!Reset)
    BY ProperSqueeze
  <2>3. /\ Proper(queue', kinds') /\ \E i \in 1 .. Len(queue') : queue'[i] = f
        /\ Len(q) < QueueSize => queue' = Append(q, f)
    <3> HIDE DEF q, f
    <3>1. f = Hub!Frame(k, Len(kinds) + 1)
      BY DEF f
    <3> QED  BY <1>0, <2>1, <2>2, <3>1, ProperPut
  <2>4. f.n = Len(kinds') /\ f.kind = k /\ Len(kinds') \in Nat /\ f \in AnyFrame
    BY <1>0, FrameType
  <2>5. Len(kinds') \in Hub!Queued'
    BY <2>3, <2>4 DEF Hub!Queued
  <2>6. Hub!LatestKept'
    BY <2>5 DEF Hub!LatestKept, Hub!Sent
  <2>7. dirty' \in BOOLEAN /\ muted' \in BOOLEAN /\ since' \in 0 .. Interval
    BY <2>1 DEF Hub!HubAssumption
  <2>8. Hub!LossAnnounced'
    <3>1. CASE full
      <4>1. dirty' \/ muted'
        BY <2>1, <3>1
      <4> QED  BY <4>1 DEF Hub!LossAnnounced
    <3>2. CASE ~full
      <4> HIDE DEF f, q
      <4>1. q \in Seq(AnyFrame) /\ Len(q) \in Nat /\ Len(q) < QueueSize
        BY <2>2, <3>2, LenProperties DEF Proper, Hub!HubAssumption
      <4>2. /\ queue' = Append(q, f) /\ Len(queue') = Len(q) + 1
            /\ \A i \in 1 .. Len(q) : queue'[i] = q[i] /\ i \in 1 .. Len(queue')
        BY <2>3, <2>4, <4>1, AppendProperties
      <4>3. CASE first
        <5>1. PICK i \in 1 .. Len(q) : q[i] = Hub!Reset
          BY <2>2, <4>3
        <5>2. i \in 1 .. Len(queue') /\ queue'[i].kind = "reset"
          BY <4>2, <5>1 DEF Hub!Reset
        <5> QED  BY <5>2 DEF Hub!LossAnnounced
      <4>4. CASE ~first
        <5>1. q = queue /\ (dirty => dirty') /\ (muted => muted')
          BY <2>1, <4>4 DEF q
        <5>2. Hub!Queued \subseteq Hub!Queued'
          BY <4>2, <5>1 DEF Hub!Queued
        <5>3. Hub!Lost' \subseteq Hub!Lost
          BY <1>0, <2>5, <5>2 DEF Hub!Lost, Hub!Sent
        <5>4. ASSUME conn' = "live", Hub!Lost' # {}
              PROVE  dirty' \/ muted' \/ \E i \in 1 .. Len(queue') : queue'[i].kind \in {"reset", "end"}
          <6>1. dirty \/ muted \/ \E i \in 1 .. Len(queue) : queue[i].kind \in {"reset", "end"}
            BY <1>0, <5>3, <5>4 DEF Hub!LossAnnounced
          <6> QED  BY <4>2, <5>1, <6>1
        <5> QED  BY <5>4 DEF Hub!LossAnnounced
      <4> QED  BY <4>3, <4>4
    <3> QED  BY <3>1, <3>2
  <2> HIDE DEF q, f, first, again, full
  <2> QED  BY <1>0, <1>t, <2>3, <2>6, <2>7, <2>8
<1> QED  BY <1>1, <1>2

LEMMA TakeKeeps == ASSUME Hub!HubAssumption, FeedInv, Hub!Take PROVE FeedInv'
<1> USE DEF FeedInv
<1> DEFINE f == Head(queue)
<1>0. /\ queue \in Seq(AnyFrame) /\ queue # <<>> /\ QueueSize \in Nat /\ Interval \in Nat
      /\ kinds' = kinds /\ conn = "live" /\ Len(kinds) \in Nat
  BY LenProperties DEF Proper, Hub!Take, Hub!HubAssumption
<1>1. /\ Proper(Tail(queue), kinds) /\ Len(Tail(queue)) = Len(queue) - 1 /\ Len(queue) \in Nat \ {0}
      /\ \A i \in 1 .. Len(queue) - 1 : Tail(queue)[i] = queue[i + 1]
  BY <1>0, ProperTail
<1>2. f = queue[1] /\ 1 \in 1 .. Len(queue)
  BY <1>0, <1>1, HeadTailProperties
<1>3. /\ known' = IF f = Hub!Reset THEN 1 .. Len(kinds) ELSE known \cup {f.n}
      /\ muted' = (muted /\ f # Hub!Reset)
      /\ IF f.kind = "end"
         THEN conn' = "closed" /\ queue' = <<>> /\ dirty' = FALSE /\ since' = Interval
         ELSE queue' = Tail(queue) /\ UNCHANGED <<conn, dirty, since>>
  BY DEF Hub!Take, Hub!Sent
<1> HIDE DEF f
<1>4. f = Hub!Reset \/ f.n \in 1 .. Len(kinds)
  BY <1>2 DEF Proper
<1>5. known' \subseteq 1 .. Len(kinds') /\ muted' \in BOOLEAN
  BY <1>0, <1>3, <1>4
<1>6. CASE f.kind = "end"
  <2>1. Proper(queue', kinds') /\ since' \in 0 .. Interval
    BY <1>0, <1>3, <1>6, EmptyProper
  <2> QED  BY <1>0, <1>3, <1>5, <1>6, <2>1 DEF Hub!LatestKept, Hub!LossAnnounced
<1>7. CASE f.kind # "end"
  <2>1. queue' = Tail(queue) /\ UNCHANGED <<conn, dirty, since>>
    BY <1>3, <1>7
  <2>2. ASSUME NEW i \in 1 .. Len(queue), i # 1
        PROVE  i - 1 \in 1 .. Len(queue') /\ queue'[i - 1] = queue[i]
    <3>1. i - 1 \in 1 .. Len(queue) - 1 /\ (i - 1) + 1 = i
      BY <1>1, <2>2
    <3>2. Tail(queue)[i - 1] = queue[(i - 1) + 1]
      BY <1>1, <3>1
    <3> QED  BY <1>1, <2>1, <3>1, <3>2
  <2>3. ASSUME f # Hub!Reset PROVE Hub!Queued \subseteq Hub!Queued' \cup known'
    <3> SUFFICES ASSUME NEW i \in 1 .. Len(queue) PROVE queue[i].n \in Hub!Queued' \cup known'
      BY DEF Hub!Queued
    <3>1. CASE i = 1
      BY <1>2, <1>3, <2>3, <3>1
    <3>2. CASE i # 1
      BY <2>2, <3>2 DEF Hub!Queued
    <3> QED  BY <3>1, <3>2
  <2>4. known \subseteq known'
    BY <1>3
  <2>5. Hub!LatestKept'
    <3>1. CASE f = Hub!Reset
      BY <1>0, <1>3, <3>1 DEF Hub!LatestKept, Hub!Sent
    <3>2. CASE f # Hub!Reset
      BY <1>0, <2>3, <2>4, <3>2 DEF Hub!LatestKept, Hub!Sent
    <3> QED  BY <3>1, <3>2
  <2>6. Hub!LossAnnounced'
    <3>1. CASE f = Hub!Reset
      <4>1. Hub!Lost' = {}
        BY <1>0, <1>3, <3>1 DEF Hub!Lost, Hub!Sent
      <4> QED  BY <4>1 DEF Hub!LossAnnounced
    <3>2. CASE f # Hub!Reset
      <4>1. Hub!Lost' \subseteq Hub!Lost
        BY <1>0, <2>3, <2>4, <3>2 DEF Hub!Lost, Hub!Sent
      <4>2. f.kind # "reset"
        <5>1. f.n \in 1 .. Len(kinds) /\ f = Hub!Frame(kinds[f.n], f.n) /\ kinds[f.n] \in Kinds
          BY <1>2, <3>2, ElementOfSeq DEF Proper
        <5>2. f.kind = kinds[f.n]
          BY <1>0, <5>1, FrameType
        <5> QED  BY <5>1, <5>2 DEF Hub!HubAssumption
      <4>3. ASSUME Hub!Lost' # {}
            PROVE  dirty' \/ muted' \/ \E i \in 1 .. Len(queue') : queue'[i].kind \in {"reset", "end"}
        <5>1. dirty \/ muted \/ \E i \in 1 .. Len(queue) : queue[i].kind \in {"reset", "end"}
          BY <1>0, <4>1, <4>3 DEF Hub!LossAnnounced
        <5>2. CASE dirty \/ muted
          BY <1>3, <2>1, <3>2, <5>2
        <5>3. CASE \E i \in 1 .. Len(queue) : queue[i].kind \in {"reset", "end"}
          <6>1. PICK i \in 1 .. Len(queue) : queue[i].kind \in {"reset", "end"}
            BY <5>3
          <6>2. i # 1
            BY <1>2, <1>7, <4>2, <6>1
          <6>3. i - 1 \in 1 .. Len(queue') /\ queue'[i - 1].kind \in {"reset", "end"}
            BY <2>2, <6>1, <6>2
          <6> QED  BY <6>3
        <5> QED  BY <5>1, <5>2, <5>3
      <4> QED  BY <4>3 DEF Hub!LossAnnounced
    <3> QED  BY <3>1, <3>2
  <2>7. Proper(queue', kinds')
    BY <1>0, <1>1, <2>1
  <2> QED  BY <1>0, <1>5, <2>1, <2>5, <2>6, <2>7
<1> QED  BY <1>6, <1>7

LEMMA ClientKeeps ==
    ASSUME Hub!HubAssumption, FeedInv,
           Hub!Subscribe \/ Hub!Snapshot \/ Hub!Disconnect \/ Hub!Tick \/ UNCHANGED Hub!vars
    PROVE  FeedInv'
<1> USE DEF FeedInv
<1>0. Interval \in Nat /\ Len(kinds) \in Nat
  BY LenProperties DEF Hub!HubAssumption
<1>1. CASE Hub!Subscribe \/ Hub!Disconnect
  <2>1. /\ conn' \in {"closed", "open"} /\ queue' = <<>> /\ dirty' = FALSE /\ since' = Interval
        /\ UNCHANGED <<kinds, known, muted>>
    BY <1>1 DEF Hub!Subscribe, Hub!Disconnect
  <2>2. Proper(queue', kinds') /\ since' \in 0 .. Interval
    BY <1>0, <2>1, EmptyProper
  <2> QED  BY <2>1, <2>2 DEF Hub!LatestKept, Hub!LossAnnounced
<1>2. CASE Hub!Snapshot
  <2>1. /\ conn' = "live" /\ known' = 1 .. Len(kinds) /\ muted' = FALSE
        /\ UNCHANGED <<kinds, queue, dirty, since>>
    BY <1>2 DEF Hub!Snapshot, Hub!Sent
  <2>2. Hub!Lost' = {}
    BY <2>1 DEF Hub!Lost, Hub!Sent
  <2>3. Hub!LatestKept'
    BY <1>0, <2>1 DEF Hub!LatestKept, Hub!Sent
  <2> QED  BY <2>1, <2>2, <2>3 DEF Hub!LossAnnounced
<1>3. CASE Hub!Tick
  <2>1. since' \in 0 .. Interval /\ UNCHANGED <<kinds, conn, queue, dirty, known, muted>>
    BY <1>0, <1>3 DEF Hub!Tick
  <2> QED  BY <2>1 DEF Hub!LatestKept, Hub!LossAnnounced, Hub!Lost, Hub!Queued, Hub!Sent
<1>4. CASE UNCHANGED Hub!vars
  BY <1>4 DEF Hub!vars, Hub!LatestKept, Hub!LossAnnounced, Hub!Lost, Hub!Queued, Hub!Sent
<1> QED  BY <1>1, <1>2, <1>3, <1>4

LEMMA FeedNext == ASSUME Hub!HubAssumption, FeedInv, [Hub!Next]_Hub!vars PROVE FeedInv'
BY PublishKeeps, TakeKeeps, ClientKeeps DEF Hub!Next

LEMMA FeedInvIsExact == ASSUME FeedInv PROVE Hub!FeedExact
<1>1. Hub!TypeOK
  BY DEF FeedInv, Proper, Hub!TypeOK, Hub!Sent
<1>2. Hub!InOrder
  BY DEF FeedInv, Proper, Hub!InOrder
<1> QED  BY <1>1, <1>2 DEF FeedInv, Hub!FeedExact

\* What a client is given is exact (_deliver, _mark_overflow and _squeeze_reset of
\* the conversation hub): the queue stays within its size, frames are in the order
\* of their events, the latest event is known or queued, and a client that has
\* lost an event is going to be told, unless it was lost within the interval after
\* a reset.
THEOREM FeedsAreExact == Hub!Spec => []FeedExact
<1>0. Hub!HubAssumption
  BY QueuesAssumption
<1>1. Hub!Init => FeedInv
  BY <1>0, FeedInit
<1>2. FeedInv /\ [Hub!Next]_Hub!vars => FeedInv'
  BY <1>0, FeedNext
<1>3. FeedInv => FeedExact
  BY FeedInvIsExact DEF FeedExact
<1> QED  BY <1>1, <1>2, <1>3, PTL DEF Hub!Spec

-----------------------------------------------------------------------------
(* The log of requests: RequestLogWriter *)

Final == Outcomes \cup {"none"}
EventType == [key : Attempts, kind : {"started", "finalized"}, outcome : Final]
StateType == [started : BOOLEAN, final : Final, inserted : BOOLEAN, due : BOOLEAN]
EntryType == [key : Attempts, final : Final]
Rows == {"none", "requesting", "abandoned"} \cup Outcomes

LogType ==
    /\ events \in Seq(EventType) /\ order \in Seq(Attempts) /\ state \in [Attempts -> StateType]
    /\ pc \in {"wait", "inserting", "finalizing", "closing", "ended"} /\ batch \in Seq(EntryType)
    /\ row \in [Attempts -> Rows]
    /\ charged \in [Attempts -> {0, 1}] /\ outcome \in [Attempts -> Final \cup {"running"}]
    /\ shed \subseteq Attempts /\ closed \subseteq Attempts

Queued(k, kind) == \E i \in 1 .. Len(events) : events[i].key = k /\ events[i].kind = kind
NoEvent(k) == \A i \in 1 .. Len(events) : events[i].key # k

\* The events that are queued tell what the handler knows.
EventsTell ==
    \A i \in 1 .. Len(events) :
        IF events[i].kind = "started" THEN events[i].outcome = "none"
        ELSE events[i].outcome = outcome[events[i].key] /\ events[i].outcome \in Outcomes

\* A state is there for a pending key; its final event was the last event of the
\* attempt.
StateTells ==
    \A k \in Attempts :
        /\ ~Pending(k) => state[k] = Blank
        /\ state[k].final # "none" => state[k].final = outcome[k] /\ NoEvent(k)
        /\ state[k].inserted => row[k] # "none"

\* A final row has the outcome of its attempt; what was acknowledged is final.
RowTells ==
    \A k \in Attempts :
        /\ row[k] \in Outcomes => row[k] = outcome[k]
        /\ k \in closed => row[k] = outcome[k] /\ outcome[k] \in Outcomes

\* An attempt that was charged is over.
ChargeTells ==
    \A k \in Attempts : charged[k] = 1 =>
        row[k] = "cut" /\ outcome[k] = "cut" /\ ~Pending(k) /\ NoEvent(k)

\* What is handed to the update has a row and the attempt's own outcome, and the
\* rows of its result have it too.
BatchTells ==
    /\ pc \in {"finalizing", "closing"} => \A i \in 1 .. Len(batch) :
          /\ batch[i].final = outcome[batch[i].key] /\ batch[i].final \in Outcomes
          /\ row[batch[i].key] # "none"
          /\ pc = "closing" => row[batch[i].key] = batch[i].final
    /\ pc \in {"finalizing", "closing"} => batch # <<>>

\* What was not shed is on its way: the start and the outcome, if it has one.
KeptTells ==
    pc # "ended" => \A k \in Attempts \ shed : outcome[k] # "none" =>
        \/ row[k] = outcome[k]
        \/ /\ Queued(k, "started") \/ (Pending(k) /\ state[k].started)
           /\ outcome[k] \in Outcomes =>
                 Queued(k, "finalized") \/ (Pending(k) /\ state[k].final = outcome[k])

LogInv ==
    /\ LogType /\ Bounded
    /\ EventsTell /\ StateTells /\ RowTells /\ ChargeTells /\ BatchTells /\ KeptTells

\* The elements of a sequence.
LEMMA InSeq ==
    ASSUME NEW T, NEW s \in Seq(T)
    PROVE  /\ Len(s) \in Nat /\ \A i \in 1 .. Len(s) : s[i] \in T /\ s[i] \in ToSet(s)
           /\ \A x : x \in ToSet(s) => x \in T /\ \E i \in 1 .. Len(s) : s[i] = x
<1>1. Len(s) \in Nat /\ DOMAIN s = 1 .. Len(s) /\ s \in [1 .. Len(s) -> T]
  BY LenProperties
<1>2. ToSet(s) = {s[i] : i \in 1 .. Len(s)}
  BY <1>1 DEF ToSet
<1> QED  BY <1>1, <1>2

LEMMA OnlyElements ==
    ASSUME NEW T, NEW s \in Seq(T), NEW S
    PROVE  /\ Only(s, S) \in Seq(T) /\ Len(Only(s, S)) \in 0 .. Len(s)
           /\ \A i \in 1 .. Len(Only(s, S)) :
                 Only(s, S)[i] \in S /\ \E m \in 1 .. Len(s) : Only(s, S)[i] = s[m]
           /\ \A m \in 1 .. Len(s) : s[m] \in S => \E i \in 1 .. Len(Only(s, S)) : Only(s, S)[i] = s[m]
<1>1. Only(s, S) \in Seq(T) /\ Len(Only(s, S)) \in 0 .. Len(s)
  BY OnlyPicks
<1>2. PICK f : Picks(f, Only(s, S), s, S, Len(s))
  BY OnlyPicks
<1> DEFINE r == Only(s, S)
<1> HIDE DEF r
<1>3. /\ f \in [1 .. Len(r) -> 1 .. Len(s)]
      /\ \A i \in 1 .. Len(r) : r[i] = s[f[i]] /\ r[i] \in S
      /\ \A m \in 1 .. Len(s) : s[m] \in S => \E i \in 1 .. Len(r) : f[i] = m
  BY <1>2 DEF Picks, r
<1>4. \A i \in 1 .. Len(r) : r[i] \in S /\ \E m \in 1 .. Len(s) : r[i] = s[m]
  BY <1>3
<1>5. \A m \in 1 .. Len(s) : s[m] \in S => \E i \in 1 .. Len(r) : r[i] = s[m]
  BY <1>3
<1> QED  BY <1>1, <1>4, <1>5 DEF r

LEMMA OnlySet ==
    ASSUME NEW T, NEW s \in Seq(T), NEW S
    PROVE  ToSet(Only(s, S)) = ToSet(s) \cap S
<1> DEFINE r == Only(s, S)
<1>1. /\ r \in Seq(T)
      /\ \A i \in 1 .. Len(r) : r[i] \in S /\ \E m \in 1 .. Len(s) : r[i] = s[m]
      /\ \A m \in 1 .. Len(s) : s[m] \in S => \E i \in 1 .. Len(r) : r[i] = s[m]
  BY OnlyElements
<1> HIDE DEF r
<1>2. ASSUME NEW x \in ToSet(r) PROVE x \in ToSet(s) \cap S
  BY <1>1, InSeq
<1>3. ASSUME NEW x \in ToSet(s) \cap S PROVE x \in ToSet(r)
  <2>1. PICK m \in 1 .. Len(s) : s[m] = x
    BY <1>3, InSeq
  <2>2. PICK i \in 1 .. Len(r) : r[i] = x
    BY <1>1, <1>3, <2>1
  <2> QED  BY <1>1, <2>2, InSeq
<1>4. ToSet(r) = ToSet(s) \cap S
  BY <1>2, <1>3
<1> QED  BY <1>4 DEF r

\* A set of numbers that is bounded has a greatest one.
LEMMA GreatestNumber ==
    ASSUME NEW n \in Nat, NEW S \in SUBSET (1 .. n), S # {}
    PROVE  Max(S) \in S
<1> DEFINE P == {i \in 0 .. n : \E m \in S : \A y \in S : y <= i => y <= m}
<1>1. 0 \in P
  <2>1. PICK m : m \in S
    OBVIOUS
  <2>2. \A y \in S : ~(y <= 0)
    OBVIOUS
  <2> QED  BY <2>1, <2>2
<1>2. ASSUME NEW i \in 1 .. n, i - 1 \in P PROVE i \in P
  <2>1. PICK m \in S : \A y \in S : y <= i - 1 => y <= m
    BY <1>2
  <2>2. CASE i \in S /\ m < i
    <3>1. \A y \in S : y <= i => y <= i
      OBVIOUS
    <3> QED  BY <2>2, <3>1
  <2>3. CASE ~(i \in S /\ m < i)
    <3>1. \A y \in S : y <= i => y <= m
      BY <2>1, <2>3
    <3> QED  BY <3>1
  <2> QED  BY <2>2, <2>3
<1>3. P = 0 .. n
  <2> HIDE DEF P
  <2>1. P \in SUBSET (0 .. n)
    BY DEF P
  <2> QED  BY <1>1, <1>2, <2>1, UpTo
<1>4. PICK m \in S : \A y \in S : y <= n => y <= m
  BY <1>3
<1>5. \A y \in S : m >= y
  BY <1>4
<1> QED  BY <1>5 DEF Max

\* and a least one.
LEMMA FirstNumber ==
    ASSUME NEW n \in Nat, NEW S \in SUBSET (1 .. n), S # {}
    PROVE  \E m \in S : \A y \in S : m <= y
<1> SUFFICES ASSUME ~ \E m \in S : \A y \in S : m <= y PROVE FALSE
  OBVIOUS
<1> DEFINE P == {i \in 0 .. n : \A y \in S : i < y}
<1>1. 0 \in P
  OBVIOUS
<1>2. ASSUME NEW i \in 1 .. n, i - 1 \in P PROVE i \in P
  <2>1. \A y \in S : i <= y
    BY <1>2
  <2>2. i \notin S
    BY <2>1
  <2> QED  BY <2>1, <2>2
<1>3. P = 0 .. n
  <2> HIDE DEF P
  <2>1. P \in SUBSET (0 .. n)
    BY DEF P
  <2> QED  BY <1>1, <1>2, <2>1, UpTo
<1>4. \A y \in S : n < y
  BY <1>3
<1>5. PICK y : y \in S
  OBVIOUS
<1> QED  BY <1>4, <1>5

LEMMA SliceIs ==
    ASSUME NEW ord \in Seq(Attempts), NEW st \in [Attempts -> StateType], NEW S
    PROVE  /\ Slice(ord, st, S) \in Seq(EntryType)
           /\ \A i \in 1 .. Len(Slice(ord, st, S)) :
                 LET x == Slice(ord, st, S)[i] IN x.key \in S /\ x.final = st[x.key].final
<1> DEFINE ks == Only(ord, S)
           m == Least(FlushSize, Len(ks))
           b == [n \in 1 .. m |-> Entry(ks[n], st)]
<1>1. Slice(ord, st, S) = b
  BY DEF Slice
<1>2. ks \in Seq(Attempts) /\ \A i \in 1 .. Len(ks) : ks[i] \in S
  BY OnlyElements
<1> HIDE DEF ks
<1>3. Len(ks) \in Nat /\ \A i \in 1 .. Len(ks) : ks[i] \in Attempts
  BY <1>2, InSeq
<1>4. m \in Nat /\ m <= Len(ks)
  BY <1>3, BoundsAssumption DEF Least
<1> HIDE DEF m
<1>5. \A n \in 1 .. m : ks[n] \in Attempts /\ ks[n] \in S /\ Entry(ks[n], st) \in EntryType
  BY <1>2, <1>3, <1>4 DEF Entry, EntryType, StateType
<1>6. b \in [1 .. m -> EntryType]
  BY <1>5
<1>7. b \in Seq(EntryType) /\ Len(b) = m
  BY <1>4, <1>6, IsASeq, LenProperties
<1>8. \A i \in 1 .. Len(b) : b[i].key \in S /\ b[i].final = st[b[i].key].final
  BY <1>5, <1>7 DEF Entry
<1> HIDE DEF b
<1> QED  BY <1>1, <1>7, <1>8

-----------------------------------------------------------------------------
(* Enqueueing *)

\* What an offered event does to the buffer: the queue keeps what is not shed, no
\* key becomes pending, and a state is kept or forgotten.
Offered(e) ==
    /\ events' \in Seq(EventType) /\ order' \in Seq(Attempts) /\ state' \in [Attempts -> StateType]
    /\ shed \subseteq shed' /\ shed' \subseteq Attempts /\ Bounded'
    /\ \A i \in 1 .. Len(events') : events'[i] = e \/ \E j \in 1 .. Len(events) : events'[i] = events[j]
    /\ \A j \in 1 .. Len(events) : events[j].key \notin shed' => \E i \in 1 .. Len(events') : events'[i] = events[j]
    /\ e.key \notin shed' => \E i \in 1 .. Len(events') : events'[i] = e
    /\ \A k \in Attempts : /\ Pending(k)' => Pending(k)
                           /\ k \notin shed' => (Pending(k) => Pending(k)') /\ state'[k] = state[k]
                           /\ state'[k] \in {Blank, state[k]}
                           /\ ~Pending(k)' => state'[k] = Blank

LEMMA EnqueueEffect ==
    ASSUME LogType, Bounded, StateTells, NEW e \in EventType, Enqueue(e)
    PROVE  Offered(e)
<1> DEFINE evs == Append(events, e)
           gone == DroppedFailed(Len(evs) + Len(order))
           left == Only(order, Attempts \ gone)
           n == DropCount(Len(evs) + Len(left))
           s == Least(n, Len(left))
           cut == SubSeq(left, 1, s)
           rest == SubSeq(left, s + 1, Len(left))
           lost == gone \cup ToSet(cut)
           early == {evs[i].key : i \in 1 .. n - s}
<1>1. /\ order' = rest
      /\ state' = [k \in Attempts |-> IF k \in lost THEN Blank ELSE state[k]]
      /\ events' = SubSeq(evs, n - s + 1, Len(evs))
      /\ shed' = shed \cup lost \cup early
  BY DEF Enqueue
<1>2. /\ evs \in Seq(EventType) /\ Len(evs) = Len(events) + 1 /\ Len(events) \in Nat /\ Len(order) \in Nat
      /\ evs[Len(events) + 1] = e /\ \A i \in 1 .. Len(events) : evs[i] = events[i]
  BY AppendProperties, LenProperties DEF LogType
<1> HIDE DEF evs
<1>3. gone \subseteq Attempts
  <2> DEFINE fs == Only(order, {k \in Attempts : Failed(k)})
             m == Least(DropBatch, Len(fs))
             N == Len(evs) + Len(order)
  <2>1. fs \in Seq(Attempts)
    BY OnlyElements DEF LogType
  <2>2. gone = IF N < Level2 THEN {} ELSE ToSet(SubSeq(fs, 1, m))
    BY DEF DroppedFailed
  <2> HIDE DEF fs, gone, N
  <2>3. Len(fs) \in Nat /\ m \in Nat /\ m <= Len(fs)
    BY <2>1, LenProperties, BoundsAssumption DEF Least
  <2> HIDE DEF m
  <2>4. \A i \in 1 .. m : fs[i] \in Attempts
    BY <2>1, <2>3, InSeq
  <2>5. SubSeq(fs, 1, m) \in Seq(Attempts)
    BY <2>3, <2>4, SubSeqProperties
  <2> QED  BY <2>2, <2>5, InSeq
<1> HIDE DEF gone
<1>4. left \in Seq(Attempts) /\ Len(left) \in 0 .. Len(order) /\ ToSet(left) = ToSet(order) \ gone
  <2>1. left \in Seq(Attempts) /\ Len(left) \in 0 .. Len(order) /\ ToSet(left) = ToSet(order) \cap (Attempts \ gone)
    BY OnlyElements, OnlySet DEF LogType
  <2>2. ToSet(order) \subseteq Attempts
    BY InSeq DEF LogType
  <2> QED  BY <2>1, <2>2
<1> HIDE DEF left
<1>5. /\ n \in Nat /\ n <= Len(evs) + Len(left)
      /\ Len(evs) + Len(left) - n <= MaxEvents
  <2> DEFINE N == Len(evs) + Len(left)
             goal == IF Level2 > MaxEvents - DropBatch THEN Level2 ELSE MaxEvents - DropBatch
  <2>1. N \in Nat /\ N <= MaxEvents + 1
    BY <1>2, <1>4, BoundsAssumption DEF Bounded
  <2>2. n = IF N < MaxEvents \/ N <= goal THEN 0 ELSE Least(DropBatch, N - goal)
    BY DEF DropCount
  <2>3. goal \in 1 .. MaxEvents
    BY BoundsAssumption
  <2> HIDE DEF n, N, goal
  <2>4. n \in Nat /\ n <= N /\ N - n <= MaxEvents
    <3>1. CASE N < MaxEvents \/ N <= goal
      BY <2>1, <2>2, <2>3, <3>1, BoundsAssumption
    <3>2. CASE ~(N < MaxEvents \/ N <= goal)
      BY <2>1, <2>2, <2>3, <3>2, BoundsAssumption DEF Least
    <3> QED  BY <3>1, <3>2
  <2> QED  BY <2>4 DEF N
<1> HIDE DEF n
<1>6. s \in Nat /\ s <= n /\ s <= Len(left) /\ n - s \in Nat /\ n - s <= Len(evs)
  <2>1. Len(left) \in Nat /\ Len(evs) \in Nat
    BY <1>2, <1>4
  <2>2. s = IF n < Len(left) THEN n ELSE Len(left)
    BY DEF Least
  <2> HIDE DEF s
  <2> QED  BY <1>5, <2>1, <2>2
<1> HIDE DEF s
<1>7. \A i \in 1 .. Len(left) : left[i] \in Attempts
  BY <1>4, InSeq
<1>8. cut \in Seq(Attempts) /\ Len(cut) = s /\ \A i \in 1 .. s : cut[i] = left[i]
  <2>1. \A i \in 1 .. s : left[i] \in Attempts
    BY <1>4, <1>6, <1>7
  <2> QED  BY <1>6, <2>1, SubSeqProperties
<1>9. /\ rest \in Seq(Attempts) /\ Len(rest) = Len(left) - s
      /\ \A i \in 1 .. Len(left) - s : rest[i] = left[s + i]
  <2>1. \A i \in s + 1 .. Len(left) : left[i] \in Attempts
    BY <1>4, <1>6, <1>7
  <2>2. s + 1 \in Int /\ Len(left) \in Int
    BY <1>4, <1>6
  <2>3. /\ rest \in Seq(Attempts) /\ Len(rest) = (IF s + 1 <= Len(left) THEN Len(left) - (s + 1) + 1 ELSE 0)
        /\ \A i \in 1 .. Len(left) - (s + 1) + 1 : rest[i] = left[(s + 1) + i - 1]
    BY <2>1, <2>2, SubSeqProperties
  <2> HIDE DEF rest
  <2>4. Len(left) - (s + 1) + 1 = Len(left) - s
    BY <1>4, <1>6
  <2>5. \A i \in 1 .. Len(left) - s : rest[i] = left[s + i]
    <3> SUFFICES ASSUME NEW i \in 1 .. Len(left) - s PROVE rest[i] = left[s + i]
      OBVIOUS
    <3>1. (s + 1) + i - 1 = s + i /\ i \in 1 .. Len(left) - (s + 1) + 1
      BY <1>4, <1>6, <2>4
    <3> QED  BY <2>3, <3>1
  <2>6. Len(rest) = Len(left) - s
    <3>1. Len(rest) = (IF s + 1 <= Len(left) THEN Len(left) - (s + 1) + 1 ELSE 0)
      BY <2>3
    <3>2. Len(left) \in Nat /\ s \in Nat /\ s <= Len(left)
      BY <1>4, <1>6
    <3> QED  BY <3>1, <3>2
  <2> QED  BY <2>3, <2>5, <2>6
<1>10. /\ events' \in Seq(EventType) /\ Len(events') = Len(evs) - (n - s)
       /\ \A i \in 1 .. Len(events') : events'[i] = evs[(n - s) + i]
  <2> DEFINE d == n - s
  <2>0. d \in Nat /\ d <= Len(evs) /\ Len(evs) \in Nat
    BY <1>2, <1>6
  <2>e. events' = SubSeq(evs, d + 1, Len(evs))
    BY <1>1
  <2> HIDE DEF d
  <2>1. \A i \in d + 1 .. Len(evs) : evs[i] \in EventType
    BY <1>2, <2>0, InSeq
  <2>3. /\ events' \in Seq(EventType) /\ Len(events') = (IF d + 1 <= Len(evs) THEN Len(evs) - (d + 1) + 1 ELSE 0)
        /\ \A i \in 1 .. Len(evs) - (d + 1) + 1 : events'[i] = evs[(d + 1) + i - 1]
    BY <2>0, <2>1, <2>e, SubSeqProperties
  <2>4. Len(events') = Len(evs) - d
    BY <2>0, <2>3
  <2>5. \A i \in 1 .. Len(events') : events'[i] = evs[d + i]
    <3> SUFFICES ASSUME NEW i \in 1 .. Len(events') PROVE events'[i] = evs[d + i]
      OBVIOUS
    <3>1. (d + 1) + i - 1 = d + i /\ i \in 1 .. Len(evs) - (d + 1) + 1
      BY <2>0, <2>4
    <3> QED  BY <2>3, <3>1
  <2> QED  BY <2>3, <2>4, <2>5 DEF d
<1>11. ToSet(rest) \subseteq ToSet(left) /\ ToSet(left) \subseteq ToSet(cut) \cup ToSet(rest) /\ ToSet(cut) \subseteq Attempts
  <2> HIDE DEF rest, cut
  <2>1. ASSUME NEW x \in ToSet(rest) PROVE x \in ToSet(left)
    <3>1. PICK i \in 1 .. Len(rest) : rest[i] = x
      BY <1>9, <2>1, InSeq
    <3>2. s + i \in 1 .. Len(left) /\ left[s + i] = x
      BY <1>4, <1>6, <1>9, <3>1
    <3> QED  BY <1>4, <3>2, InSeq
  <2>2. ASSUME NEW x \in ToSet(left) PROVE x \in ToSet(cut) \cup ToSet(rest)
    <3>1. PICK i \in 1 .. Len(left) : left[i] = x
      BY <1>4, <2>2, InSeq
    <3>2. CASE i <= s
      <4>1. i \in 1 .. Len(cut) /\ cut[i] = x
        BY <1>4, <1>6, <1>8, <3>1, <3>2
      <4> QED  BY <1>8, <4>1, InSeq
    <3>3. CASE ~(i <= s)
      <4>1. i - s \in 1 .. Len(left) - s /\ s + (i - s) = i
        BY <1>4, <1>6, <3>3
      <4>2. i - s \in 1 .. Len(rest) /\ rest[i - s] = x
        BY <1>9, <3>1, <4>1
      <4> QED  BY <1>9, <4>2, InSeq
    <3> QED  BY <3>2, <3>3
  <2> QED  BY <1>8, <2>1, <2>2, InSeq
<1> HIDE DEF cut, rest
<1>12. early \subseteq Attempts /\ lost \subseteq Attempts
  <2>1. \A i \in 1 .. n - s : evs[i] \in EventType
    BY <1>2, <1>6, InSeq
  <2> QED  BY <1>3, <1>11, <2>1 DEF EventType
<1>13. state' \in [Attempts -> StateType] /\ Blank \in StateType
  BY <1>1 DEF LogType, Blank, StateType, Final
<1>14. shed \subseteq shed' /\ shed' \subseteq Attempts
  BY <1>1, <1>12 DEF LogType
<1>15. Bounded'
  <2>1. Len(events') + Len(order') = (Len(evs) - (n - s)) + (Len(left) - s) /\ Len(evs) \in Nat /\ Len(left) \in Nat
    BY <1>1, <1>2, <1>4, <1>9, <1>10
  <2>2. Len(events') + Len(order') = (Len(evs) + Len(left)) - n
    BY <1>5, <1>6, <2>1
  <2>3. Len(events') + Len(order') <= MaxEvents
    BY <1>5, <2>2
  <2> QED  BY <2>3 DEF Bounded
<1>16. ASSUME NEW i \in 1 .. Len(events') PROVE events'[i] = e \/ \E j \in 1 .. Len(events) : events'[i] = events[j]
  <2>1. (n - s) + i \in 1 .. Len(events) + 1 /\ events'[i] = evs[(n - s) + i]
    BY <1>2, <1>6, <1>10
  <2> QED  BY <1>2, <2>1
<1>17. ASSUME NEW j \in 1 .. Len(events) + 1, evs[j].key \notin shed'
       PROVE  \E i \in 1 .. Len(events') : events'[i] = evs[j]
  <2>1. ~(j \in 1 .. n - s)
    BY <1>1, <1>17
  <2>2. j - (n - s) \in 1 .. Len(events') /\ (n - s) + (j - (n - s)) = j
    BY <1>2, <1>5, <1>6, <1>10, <2>1
  <2>3. events'[j - (n - s)] = evs[j]
    BY <1>10, <2>2
  <2> QED  BY <2>2, <2>3
<1>18. ASSUME NEW j \in 1 .. Len(events), events[j].key \notin shed'
       PROVE  \E i \in 1 .. Len(events') : events'[i] = events[j]
  <2>1. j \in 1 .. Len(events) + 1 /\ evs[j] = events[j]
    BY <1>2
  <2> QED  BY <1>17, <1>18, <2>1
<1>19. ASSUME e.key \notin shed' PROVE \E i \in 1 .. Len(events') : events'[i] = e
  <2>1. Len(events) + 1 \in 1 .. Len(events) + 1 /\ evs[Len(events) + 1] = e
    BY <1>2
  <2> QED  BY <1>17, <1>19, <2>1
<1>20. ASSUME NEW k \in Attempts
       PROVE  /\ Pending(k)' => Pending(k)
              /\ k \notin shed' => (Pending(k) => Pending(k)') /\ state'[k] = state[k]
              /\ state'[k] \in {Blank, state[k]}
              /\ ~Pending(k)' => state'[k] = Blank
  <2>1. Pending(k)' <=> k \in ToSet(rest)
    BY <1>1 DEF Pending
  <2>2. state'[k] = IF k \in lost THEN Blank ELSE state[k]
    BY <1>1
  <2>3. Pending(k)' => Pending(k)
    BY <1>4, <1>11, <2>1 DEF Pending
  <2>4. k \notin lost /\ Pending(k) => Pending(k)'
    BY <1>4, <1>11, <2>1 DEF Pending
  <2>5. ~Pending(k) => state[k] = Blank
    BY DEF StateTells
  <2>6. k \notin shed' => k \notin lost
    BY <1>1
  <2> HIDE DEF lost
  <2> QED  BY <2>2, <2>3, <2>4, <2>5, <2>6
<1> HIDE DEF early, lost
<1>21. order' \in Seq(Attempts)
  BY <1>1, <1>9
<1> QED  BY <1>10, <1>13, <1>14, <1>15, <1>16, <1>18, <1>19, <1>20, <1>21 DEF Offered

LEMMA OfferEffect ==
    ASSUME LogType, Bounded, StateTells, NEW e \in EventType, Offer(e)
    PROVE  Offered(e)
<1>1. CASE accepting
  BY <1>1, EnqueueEffect DEF Offer
<1>2. CASE ~accepting
  <2>1. shed' = shed \cup {e.key} /\ UNCHANGED <<events, order, state>> /\ e.key \in Attempts
    BY <1>2 DEF Offer, EventType, buffer
  <2> QED  BY <2>1 DEF Offered, LogType, Bounded, Pending, StateTells
<1> QED  BY <1>1, <1>2

LEMMA Keyed ==
    ASSUME LogType
    PROVE  /\ \A i \in 1 .. Len(events) : events[i].key \in Attempts
           /\ \A i \in 1 .. Len(batch) : batch[i].key \in Attempts /\ batch[i].final \in Final
<1>1. \A i \in 1 .. Len(events) : events[i] \in EventType
  BY InSeq DEF LogType
<1>2. \A i \in 1 .. Len(batch) : batch[i] \in EntryType
  BY InSeq DEF LogType
<1> QED  BY <1>1, <1>2 DEF EventType, EntryType

\* The two handlers: what they offer is what they know of the attempt.
LEMMA HandlerKeeps ==
    ASSUME LogInv, NEW k \in Attempts, NEW o \in {"running"} \cup Outcomes, NEW e \in EventType,
           e.key = k, outcome[k] = IF o = "running" THEN "none" ELSE "running",
           IF o = "running" THEN e.kind = "started" /\ e.outcome = "none"
           ELSE e.kind = "finalized" /\ e.outcome = o,
           outcome' = [outcome EXCEPT ![k] = o], Offer(e),
           UNCHANGED <<pc, batch, row, charged, closed>>
    PROVE  LogInv'
<1> USE DEF LogInv
<1>0. Offered(e)
  BY OfferEffect
<1>1. LogType'
  BY <1>0 DEF Offered, LogType, Final
<1>2. Bounded'
  BY <1>0 DEF Offered
<1>o. /\ \A q \in Attempts : outcome'[q] = IF q = k THEN o ELSE outcome[q]
      /\ outcome[k] \notin Outcomes
  BY DEF LogType, Outcomes
<1>f. state[k].final = "none" /\ row[k] \notin Outcomes /\ k \notin closed /\ charged[k] # 1
  <2>1. state[k].final \in Final
    BY DEF LogType, StateType
  <2>2. state[k].final # "none" => state[k].final \in Outcomes /\ state[k].final = outcome[k]
    BY <2>1 DEF Final, StateTells
  <2> QED  BY <1>o, <2>2 DEF RowTells, ChargeTells, Outcomes
<1>3. EventsTell'
  <2> SUFFICES ASSUME NEW i \in 1 .. Len(events')
               PROVE  IF events'[i].kind = "started" THEN events'[i].outcome = "none"
                      ELSE events'[i].outcome = outcome'[events'[i].key] /\ events'[i].outcome \in Outcomes
    BY DEF EventsTell
  <2>1. CASE events'[i] = e
    BY <1>o, <2>1
  <2>2. CASE \E j \in 1 .. Len(events) : events'[i] = events[j]
    <3>1. PICK j \in 1 .. Len(events) : events'[i] = events[j]
      BY <2>2
    <3>2. events[j].key \in Attempts
      BY Keyed
    <3> QED  BY <1>o, <3>1, <3>2 DEF EventsTell
  <2> QED  BY <1>0, <2>1, <2>2 DEF Offered
<1>4. ASSUME NEW q \in Attempts, q # k, NoEvent(q) PROVE NoEvent(q)'
  BY <1>0, <1>4 DEF Offered, NoEvent
<1>5. StateTells'
  <2> SUFFICES ASSUME NEW q \in Attempts
               PROVE  /\ ~Pending(q)' => state'[q] = Blank
                      /\ state'[q].final # "none" => state'[q].final = outcome'[q] /\ NoEvent(q)'
                      /\ state'[q].inserted => row'[q] # "none"
    BY DEF StateTells
  <2>1. state'[q] \in {Blank, state[q]} /\ (~Pending(q)' => state'[q] = Blank)
    BY <1>0 DEF Offered
  <2>2. CASE state'[q] = Blank
    BY <2>1, <2>2 DEF Blank
  <2>3. CASE state'[q] = state[q]
    <3>1. state[q].inserted => row[q] # "none"
      BY DEF StateTells
    <3>2. state[q].final # "none" => q # k /\ state[q].final = outcome[q] /\ NoEvent(q)
      BY <1>f DEF StateTells
    <3> QED  BY <1>4, <1>o, <2>1, <2>3, <3>1, <3>2
  <2> QED  BY <2>1, <2>2, <2>3
<1>6. RowTells'
  BY <1>f, <1>o DEF RowTells
<1>7. ChargeTells'
  <2> SUFFICES ASSUME NEW q \in Attempts, charged'[q] = 1
               PROVE  row'[q] = "cut" /\ outcome'[q] = "cut" /\ ~Pending(q)' /\ NoEvent(q)'
    BY DEF ChargeTells
  <2>1. q # k /\ row[q] = "cut" /\ outcome[q] = "cut" /\ ~Pending(q) /\ NoEvent(q)
    BY <1>f DEF ChargeTells
  <2>2. ~Pending(q)'
    BY <1>0, <2>1 DEF Offered
  <2> QED  BY <1>4, <1>o, <2>1, <2>2
<1>8. BatchTells'
  <2>1. \A i \in 1 .. Len(batch) : batch[i].key \in Attempts
    BY Keyed
  <2> QED  BY <1>o, <2>1 DEF BatchTells
<1>9. KeptTells'
  <2> SUFFICES ASSUME pc # "ended", NEW q \in Attempts \ shed', outcome'[q] # "none"
               PROVE  \/ row'[q] = outcome'[q]
                      \/ /\ Queued(q, "started")' \/ (Pending(q)' /\ state'[q].started)
                         /\ outcome'[q] \in Outcomes =>
                               Queued(q, "finalized")' \/ (Pending(q)' /\ state'[q].final = outcome'[q])
    BY DEF KeptTells
  <2>1. q \in Attempts \ shed /\ state'[q] = state[q] /\ (Pending(q) => Pending(q)')
    BY <1>0 DEF Offered
  <2>2. Queued(q, "started") => Queued(q, "started")'
    BY <1>0 DEF Offered, Queued
  <2>3. Queued(q, "finalized") => Queued(q, "finalized")'
    BY <1>0 DEF Offered, Queued
  <2>4. CASE q # k
    BY <1>o, <2>1, <2>2, <2>3, <2>4 DEF KeptTells
  <2>5. CASE q = k
    <3>1. \E i \in 1 .. Len(events') : events'[i] = e
      BY <1>0, <2>5 DEF Offered
    <3>2. Queued(q, e.kind)'
      BY <2>5, <3>1 DEF Queued
    <3>3. CASE o = "running"
      BY <1>o, <2>5, <3>2, <3>3 DEF Outcomes
    <3>4. CASE o # "running"
      <4>1. row[k] # outcome[k] /\ outcome[k] # "none"
        BY <3>4 DEF LogType, Rows, Outcomes
      <4>2. Queued(q, "started") \/ (Pending(q) /\ state[q].started)
        BY <2>1, <2>5, <4>1 DEF KeptTells
      <4> QED  BY <2>1, <2>2, <2>5, <3>2, <3>4, <4>2
    <3> QED  BY <3>3, <3>4
  <2> QED  BY <2>4, <2>5
<1> QED  BY <1>1, <1>2, <1>3, <1>5, <1>6, <1>7, <1>8, <1>9

LEMMA StartedKeeps == ASSUME LogInv, NEW k \in Attempts, EnqueueStarted(k) PROVE LogInv'
<1> DEFINE e == [key |-> k, kind |-> "started", outcome |-> "none"]
<1>1. e \in EventType /\ e.key = k /\ e.kind = "started" /\ e.outcome = "none"
  BY DEF EventType, Final
<1>2. /\ outcome[k] = "none" /\ outcome' = [outcome EXCEPT ![k] = "running"] /\ Offer(e)
      /\ UNCHANGED <<pc, batch, row, charged, closed>>
  BY DEF EnqueueStarted
<1> HIDE DEF e
<1> QED  BY <1>1, <1>2, HandlerKeeps

LEMMA FinalizedKeeps ==
    ASSUME LogInv, NEW k \in Attempts, NEW o \in Outcomes, EnqueueFinalized(k, o) PROVE LogInv'
<1> DEFINE e == [key |-> k, kind |-> "finalized", outcome |-> o]
<1>1. e \in EventType /\ e.key = k /\ e.kind = "finalized" /\ e.outcome = o /\ o # "running"
  BY DEF EventType, Final, Outcomes
<1>2. /\ outcome[k] = "running" /\ outcome' = [outcome EXCEPT ![k] = o] /\ Offer(e)
      /\ UNCHANGED <<pc, batch, row, charged, closed>>
  BY DEF EnqueueFinalized
<1> HIDE DEF e
<1> QED  BY <1>1, <1>2, HandlerKeeps

-----------------------------------------------------------------------------
(* Consuming *)

LEMMA ConsumedIs ==
    ASSUME LogType, EventsTell
    PROVE  /\ Consumed \in [Attempts -> StateType]
           /\ \A k \in Attempts :
                 /\ Consumed[k].started = (state[k].started \/ Queued(k, "started"))
                 /\ Consumed[k].final = IF Queued(k, "finalized") THEN outcome[k] ELSE state[k].final
                 /\ Consumed[k].inserted = state[k].inserted /\ Consumed[k].due = state[k].due
                 /\ NoEvent(k) => Consumed[k] = state[k]
<1> DEFINE of(k, kind) == {i \in DOMAIN events : events[i].key = k /\ events[i].kind = kind}
           new(k) == [state[k] EXCEPT
                !.started = @ \/ of(k, "started") # {},
                !.final = IF of(k, "finalized") = {} THEN @
                          ELSE events[Max(of(k, "finalized"))].outcome]
<1>1. Consumed = [k \in Attempts |-> new(k)]
  BY DEF Consumed
<1>2. DOMAIN events = 1 .. Len(events) /\ Len(events) \in Nat
  BY LenProperties DEF LogType
<1>3. ASSUME NEW k \in Attempts
      PROVE  /\ new(k) \in StateType
             /\ new(k).started = (state[k].started \/ Queued(k, "started"))
             /\ new(k).final = IF Queued(k, "finalized") THEN outcome[k] ELSE state[k].final
             /\ new(k).inserted = state[k].inserted /\ new(k).due = state[k].due
             /\ NoEvent(k) => new(k) = state[k]
  <2> DEFINE S == of(k, "started")
             F == of(k, "finalized")
             f == IF F = {} THEN state[k].final ELSE events[Max(F)].outcome
  <2>1. S # {} <=> Queued(k, "started")
    BY <1>2 DEF Queued
  <2>2. F # {} <=> Queued(k, "finalized")
    BY <1>2 DEF Queued
  <2>3. F # {} => events[Max(F)].outcome = outcome[k] /\ events[Max(F)].outcome \in Outcomes
    <3> SUFFICES ASSUME F # {} PROVE events[Max(F)].outcome = outcome[k] /\ events[Max(F)].outcome \in Outcomes
      OBVIOUS
    <3>1. F \in SUBSET (1 .. Len(events))
      BY <1>2
    <3>2. Max(F) \in F
      <4> HIDE DEF F
      <4> QED  BY <1>2, <3>1, GreatestNumber
    <3>3. Max(F) \in 1 .. Len(events) /\ events[Max(F)].key = k /\ events[Max(F)].kind = "finalized"
      <4> DEFINE m == Max(F)
      <4>1. m \in F
        BY <3>2
      <4> HIDE DEF m
      <4>2. m \in 1 .. Len(events) /\ events[m].key = k /\ events[m].kind = "finalized"
        BY <1>2, <4>1
      <4> QED  BY <4>2 DEF m
    <3> QED  BY <3>3 DEF EventsTell
  <2>4. state[k] \in StateType
    BY DEF LogType
  <2>5. new(k) = [state[k] EXCEPT !.started = state[k].started \/ S # {}, !.final = f]
    OBVIOUS
  <2>6. f \in Final
    BY <2>3, <2>4 DEF StateType, Final
  <2>7. f = IF Queued(k, "finalized") THEN outcome[k] ELSE state[k].final
    BY <2>2, <2>3
  <2>8. NoEvent(k) => S = {} /\ F = {}
    BY <1>2 DEF NoEvent
  <2> HIDE DEF S, f, F, new
  <2>9. /\ new(k) \in StateType
        /\ new(k).started = (state[k].started \/ S # {}) /\ new(k).final = f
        /\ new(k).inserted = state[k].inserted /\ new(k).due = state[k].due
    BY <2>4, <2>5, <2>6 DEF StateType
  <2>10. NoEvent(k) => new(k) = state[k]
    <3> SUFFICES ASSUME NoEvent(k) PROVE new(k) = state[k]
      OBVIOUS
    <3>1. S = {} /\ f = state[k].final
      BY <2>8 DEF f
    <3>2. /\ new(k).started = state[k].started /\ new(k).final = state[k].final
          /\ new(k).inserted = state[k].inserted /\ new(k).due = state[k].due
      BY <2>4, <2>9, <3>1 DEF StateType
    <3> QED  BY <2>4, <2>9, <3>2 DEF StateType
  <2> QED  BY <2>1, <2>7, <2>9, <2>10
<1> HIDE DEF new
<1> QED  BY <1>1, <1>3

LEMMA ConsumedOrderIs ==
    ASSUME LogType
    PROVE  /\ ConsumedOrder \in Seq(Attempts) /\ Len(ConsumedOrder) <= Len(order) + Len(events)
           /\ \A k \in Attempts : k \in ToSet(ConsumedOrder) <=> Pending(k) \/ ~NoEvent(k)
<1> DEFINE first == {i \in DOMAIN events :
                    /\ ~Pending(events[i].key)
                    /\ \A j \in 1 .. i - 1 : events[j].key # events[i].key}
           all == [i \in DOMAIN events |-> i]
           idx == Only(all, first)
           new == [n \in DOMAIN idx |-> events[idx[n]].key]
<1>1. ConsumedOrder = order \o new
  BY DEF ConsumedOrder
<1>2. DOMAIN events = 1 .. Len(events) /\ Len(events) \in Nat /\ order \in Seq(Attempts) /\ Len(order) \in Nat
  BY LenProperties DEF LogType
<1>3. all \in Seq(1 .. Len(events)) /\ Len(all) = Len(events) /\ \A i \in 1 .. Len(events) : all[i] = i
  <2>1. all \in [1 .. Len(events) -> 1 .. Len(events)]
    BY <1>2
  <2>2. all \in Seq(1 .. Len(events))
    BY <1>2, <2>1, IsASeq
  <2>3. DOMAIN all = 1 .. Len(all) /\ Len(all) \in Nat
    BY <2>2, LenProperties
  <2> QED  BY <1>2, <2>1, <2>2, <2>3
<1> HIDE DEF all, first
<1>4. /\ idx \in Seq(1 .. Len(events)) /\ Len(idx) \in 0 .. Len(events)
      /\ \A m \in 1 .. Len(events) : m \in first => \E i \in 1 .. Len(idx) : idx[i] = m
      /\ \A i \in 1 .. Len(idx) : idx[i] \in 1 .. Len(events)
  <2>1. /\ idx \in Seq(1 .. Len(events)) /\ Len(idx) \in 0 .. Len(all)
        /\ \A m \in 1 .. Len(all) : all[m] \in first => \E i \in 1 .. Len(idx) : idx[i] = all[m]
    BY <1>3, OnlyElements
  <2>2. \A i \in 1 .. Len(idx) : idx[i] \in 1 .. Len(events)
    BY <2>1, InSeq
  <2> QED  BY <1>3, <2>1, <2>2
<1> HIDE DEF idx
<1>5. DOMAIN idx = 1 .. Len(idx) /\ Len(idx) \in Nat
  BY <1>4, LenProperties
<1>6. new \in Seq(Attempts) /\ Len(new) = Len(idx) /\ \A i \in 1 .. Len(new) : new[i] = events[idx[i]].key
  <2>1. \A i \in 1 .. Len(idx) : events[idx[i]].key \in Attempts
    BY <1>4, Keyed
  <2>2. new \in [1 .. Len(idx) -> Attempts]
    BY <1>5, <2>1
  <2>3. new \in Seq(Attempts)
    BY <1>5, <2>2, IsASeq
  <2>4. DOMAIN new = 1 .. Len(new) /\ Len(new) \in Nat
    BY <2>3, LenProperties
  <2> QED  BY <1>5, <2>2, <2>3, <2>4
<1> HIDE DEF new
<1> DEFINE c == order \o new
<1>7. /\ c \in Seq(Attempts) /\ Len(c) = Len(order) + Len(new)
      /\ \A i \in 1 .. Len(order) + Len(new) : c[i] = IF i <= Len(order) THEN order[i] ELSE new[i - Len(order)]
  BY <1>2, <1>6, ConcatProperties
<1> HIDE DEF c
<1>8. ASSUME NEW k \in Attempts, k \in ToSet(c) PROVE Pending(k) \/ ~NoEvent(k)
  <2>1. PICK i \in 1 .. Len(c) : c[i] = k
    BY <1>7, <1>8, InSeq
  <2>2. CASE i <= Len(order)
    <3>1. i \in 1 .. Len(order) /\ order[i] = k
      BY <1>2, <1>6, <1>5, <1>7, <2>1, <2>2
    <3> QED  BY <1>2, <3>1, InSeq DEF Pending
  <2>3. CASE ~(i <= Len(order))
    <3>1. i - Len(order) \in 1 .. Len(new) /\ new[i - Len(order)] = k
      BY <1>2, <1>5, <1>6, <1>7, <2>1, <2>3
    <3>2. i - Len(order) \in 1 .. Len(idx) /\ events[idx[i - Len(order)]].key = k
      BY <1>6, <3>1
    <3> QED  BY <1>4, <3>2 DEF NoEvent
  <2> QED  BY <2>2, <2>3
<1>9. ASSUME NEW k \in Attempts, Pending(k) \/ ~NoEvent(k) PROVE k \in ToSet(c)
  <2>1. CASE Pending(k)
    <3>1. PICK i \in 1 .. Len(order) : order[i] = k
      BY <1>2, <2>1, InSeq DEF Pending
    <3>2. i \in 1 .. Len(c) /\ c[i] = k
      BY <1>2, <1>5, <1>6, <1>7, <3>1
    <3> QED  BY <1>7, <3>2, InSeq
  <2>2. CASE ~Pending(k) /\ ~NoEvent(k)
    <3> DEFINE M == {i \in 1 .. Len(events) : events[i].key = k}
    <3>1. M \in SUBSET (1 .. Len(events)) /\ M # {}
      BY <2>2 DEF NoEvent
    <3>2. PICK m \in M : \A y \in M : m <= y
      <4> HIDE DEF M
      <4> QED  BY <1>2, <3>1, FirstNumber
    <3>3. m \in 1 .. Len(events) /\ events[m].key = k
      BY <3>2
    <3>4. \A j \in 1 .. m - 1 : events[j].key # events[m].key
      <4> SUFFICES ASSUME NEW j \in 1 .. m - 1, events[j].key = k PROVE FALSE
        BY <3>3
      <4>1. j \in M
        BY <1>2, <3>3
      <4> QED  BY <3>2, <3>3, <4>1
    <3>5. m \in first
      BY <1>2, <2>2, <3>3, <3>4 DEF first
    <3>6. PICK i \in 1 .. Len(idx) : idx[i] = m
      BY <1>4, <3>3, <3>5
    <3>7. i \in 1 .. Len(new) /\ new[i] = k
      BY <1>6, <3>3, <3>6
    <3>8. Len(order) + i \in 1 .. Len(c) /\ ~(Len(order) + i <= Len(order)) /\ (Len(order) + i) - Len(order) = i
      BY <1>2, <1>5, <1>6, <1>7, <3>7
    <3>9. c[Len(order) + i] = k
      BY <1>7, <3>7, <3>8
    <3> QED  BY <1>7, <3>8, <3>9, InSeq
  <2> QED  BY <1>9, <2>1, <2>2
<1>10. Len(c) <= Len(order) + Len(events)
  BY <1>2, <1>4, <1>5, <1>6, <1>7
<1> QED  BY <1>1, <1>7, <1>8, <1>9, <1>10 DEF c

-----------------------------------------------------------------------------
(* The worker and the rows *)

\* What may happen to a row: it is written, or gets the outcome of its attempt.
RowMoves ==
    /\ row' \in [Attempts -> Rows]
    /\ \A k \in Attempts :
          \/ row'[k] = row[k]
          \/ row'[k] # "none" /\ row[k] \notin Outcomes /\ (row'[k] \in Outcomes => row'[k] = outcome[k])

LEMMA KeysAre == ASSUME LogType PROVE Keys = {batch[i].key : i \in 1 .. Len(batch)}
<1>1. DOMAIN batch = 1 .. Len(batch)
  BY LenProperties DEF LogType
<1> QED  BY <1>1 DEF Keys

LEMMA InsertedMoves ==
    ASSUME LogInv, row' \in {row, Inserted}
    PROVE  RowMoves /\ (row' = Inserted => \A k \in Keys \cap Attempts : row'[k] # "none")
<1>1. Inserted \in [Attempts -> Rows]
  BY DEF Inserted, LogInv, LogType, Rows
<1>2. \A k \in Attempts : Inserted[k] = IF k \in Keys /\ row[k] = "none" THEN "requesting" ELSE row[k]
  BY DEF Inserted
<1>3. RowMoves
  BY <1>1, <1>2 DEF RowMoves, LogInv, LogType, Outcomes
<1> QED  BY <1>2, <1>3

LEMMA FinalizedMoves ==
    ASSUME LogInv, pc = "finalizing", row' \in {row, Finalized}
    PROVE  /\ RowMoves
           /\ row' = Finalized => \A i \in 1 .. Len(batch) : row'[batch[i].key] = batch[i].final
<1>1. DOMAIN batch = 1 .. Len(batch)
  BY LenProperties DEF LogInv, LogType
<1> DEFINE of(k) == CHOOSE n \in DOMAIN batch : batch[n].key = k
<1>2. \A k \in Attempts :
        Finalized[k] = IF row[k] = "none" \/ k \notin Keys THEN row[k] ELSE batch[of(k)].final
  BY DEF Finalized
<1>3. ASSUME NEW k \in Keys
      PROVE  batch[of(k)].final = outcome[k] /\ batch[of(k)].final \in Outcomes /\ row[k] # "none" /\ k \in Attempts
  <2>1. \E n \in DOMAIN batch : batch[n].key = k
    BY DEF Keys
  <2>2. of(k) \in 1 .. Len(batch) /\ batch[of(k)].key = k
    BY <1>1, <2>1
  <2> HIDE DEF of
  <2> QED  BY <2>2, Keyed DEF LogInv, BatchTells
<1> HIDE DEF of
<1>4. Finalized \in [Attempts -> Rows]
  <2>1. \A k \in Attempts : Finalized[k] \in Rows
    BY <1>2, <1>3 DEF LogInv, LogType, Rows
  <2>2. Finalized = [k \in Attempts |-> Finalized[k]]
    BY DEF Finalized
  <2> QED  BY <2>1, <2>2
<1>5. RowMoves
  <2>1. CASE row' = row
    BY <2>1 DEF RowMoves, LogInv, LogType
  <2>2. CASE row' = Finalized
    <3> SUFFICES ASSUME NEW k \in Attempts, row'[k] # row[k]
                 PROVE  row'[k] # "none" /\ row[k] \notin Outcomes /\ (row'[k] \in Outcomes => row'[k] = outcome[k])
      BY <1>4, <2>2 DEF RowMoves
    <3>1. k \in Keys /\ row'[k] = batch[of(k)].final
      BY <1>2, <2>2
    <3>2. row'[k] = outcome[k] /\ row'[k] \in Outcomes
      BY <1>3, <3>1
    <3> QED  BY <3>2 DEF LogInv, RowTells, Outcomes
  <2> QED  BY <2>1, <2>2
<1>6. ASSUME row' = Finalized, NEW i \in 1 .. Len(batch) PROVE row'[batch[i].key] = batch[i].final
  <2>1. batch[i].key \in Keys
    BY <1>1 DEF Keys
  <2>2. batch[i].final = outcome[batch[i].key]
    BY DEF LogInv, BatchTells
  <2> QED  BY <1>2, <1>3, <1>6, <2>1, <2>2
<1> QED  BY <1>5, <1>6

\* A batch that stays stays true.
LEMMA BatchStays ==
    ASSUME LogInv, RowMoves, UNCHANGED <<batch, outcome>>, pc' \in {pc, "ended"}
    PROVE  BatchTells'
<1>1. CASE pc' \in {"finalizing", "closing"}
  <2>1. pc' = pc
    BY <1>1
  <2>2. ASSUME NEW i \in 1 .. Len(batch)
        PROVE  /\ batch[i].final = outcome[batch[i].key] /\ batch[i].final \in Outcomes
               /\ row'[batch[i].key] # "none"
               /\ pc = "closing" => row'[batch[i].key] = batch[i].final
    <3>1. /\ batch[i].final = outcome[batch[i].key] /\ batch[i].final \in Outcomes
          /\ row[batch[i].key] # "none" /\ batch[i].key \in Attempts
          /\ pc = "closing" => row[batch[i].key] = batch[i].final
      BY <1>1, <2>1, Keyed DEF LogInv, BatchTells
    <3> QED  BY <3>1 DEF RowMoves
  <2> QED  BY <1>1, <2>1, <2>2 DEF LogInv, BatchTells
<1>2. CASE pc' \notin {"finalizing", "closing"}
  BY <1>2 DEF BatchTells
<1> QED  BY <1>1, <1>2

LEMMA ToFinalsTell ==
    ASSUME NEW evs, NEW ord \in Seq(Attempts), NEW st \in [Attempts -> StateType], ToFinals(evs, ord, st),
           \A k \in Attempts : /\ st[k].final # "none" => st[k].final = outcome'[k]
                               /\ st[k].inserted => row'[k] # "none"
    PROVE  batch' \in Seq(EntryType) /\ pc' \in {"finalizing", "wait", "ended"} /\ BatchTells'
<1> DEFINE S == {k \in Attempts : st[k].inserted /\ st[k].final # "none" /\ st[k].due}
<1>1. /\ batch' = Slice(ord, st, S)
      /\ pc' = IF batch' # <<>> THEN "finalizing" ELSE Resume(evs, ord)
  BY DEF ToFinals, Finals
<1>2. /\ batch' \in Seq(EntryType)
      /\ \A i \in 1 .. Len(batch') : batch'[i].key \in S /\ batch'[i].final = st[batch'[i].key].final
  <2> HIDE DEF S
  <2> QED  BY <1>1, SliceIs
<1>3. pc' \in {"finalizing", "wait", "ended"} /\ (pc' = "finalizing" => batch' # <<>>)
  BY <1>1 DEF Resume
<1>4. ASSUME NEW i \in 1 .. Len(batch')
      PROVE  /\ batch'[i].final = outcome'[batch'[i].key] /\ batch'[i].final \in Outcomes
             /\ row'[batch'[i].key] # "none"
  <2> DEFINE k == batch'[i].key
  <2>1. k \in S /\ batch'[i].final = st[k].final
    BY <1>2
  <2> HIDE DEF k
  <2>2. k \in Attempts /\ st[k].inserted /\ st[k].final # "none" /\ st[k].final \in Final
    BY <2>1 DEF StateType
  <2>3. batch'[i].final = outcome'[k] /\ batch'[i].final \in Outcomes /\ row'[k] # "none"
    <3>1. st[k].final \in Outcomes
      BY <2>2 DEF Final
    <3>2. st[k].final = outcome'[k] /\ row'[k] # "none"
      BY <2>2
    <3> QED  BY <2>1, <3>1, <3>2
  <2> QED  BY <2>3 DEF k
<1> QED  BY <1>2, <1>3, <1>4 DEF BatchTells

\* A step that leaves the queue, the order and what the states say of the events.
LEMMA QuietKeeps ==
    ASSUME LogInv, RowMoves, UNCHANGED <<events, order, outcome, charged, shed>>,
           state' \in [Attempts -> StateType],
           \A k \in Attempts :
              /\ state'[k].started = state[k].started /\ state'[k].final = state[k].final
              /\ ~Pending(k) => state'[k] = state[k]
              /\ state'[k].inserted => state[k].inserted \/ row'[k] # "none",
           closed' \subseteq Attempts, \A k \in closed' \ closed : row'[k] = outcome[k] /\ outcome[k] \in Outcomes,
           batch' \in Seq(EntryType), pc' \in {"wait", "inserting", "finalizing", "closing", "ended"},
           pc' # "ended" => pc # "ended", BatchTells'
    PROVE  LogInv'
<1> USE DEF LogInv
<1>1. LogType'
  BY DEF LogType, RowMoves
<1>2. Bounded' /\ EventsTell'
  BY DEF Bounded, EventsTell
<1>p. \A k \in Attempts : /\ Pending(k)' <=> Pending(k)
                          /\ NoEvent(k)' <=> NoEvent(k)
                          /\ Queued(k, "started")' <=> Queued(k, "started")
                          /\ Queued(k, "finalized")' <=> Queued(k, "finalized")
  BY DEF Pending, NoEvent, Queued
<1>r. \A k \in Attempts : /\ row[k] \in Outcomes => row'[k] = row[k]
                          /\ row[k] # "none" => row'[k] # "none"
                          /\ row'[k] \in Outcomes => row'[k] = outcome[k]
  BY DEF RowMoves, RowTells
<1>3. StateTells'
  <2> SUFFICES ASSUME NEW k \in Attempts
               PROVE  /\ ~Pending(k)' => state'[k] = Blank
                      /\ state'[k].final # "none" => state'[k].final = outcome'[k] /\ NoEvent(k)'
                      /\ state'[k].inserted => row'[k] # "none"
    BY DEF StateTells
  <2> QED  BY <1>p, <1>r DEF StateTells
<1>4. RowTells'
  <2> SUFFICES ASSUME NEW k \in Attempts
               PROVE  /\ row'[k] \in Outcomes => row'[k] = outcome'[k]
                      /\ k \in closed' => row'[k] = outcome'[k] /\ outcome'[k] \in Outcomes
    BY DEF RowTells
  <2> QED  BY <1>r DEF RowTells
<1>5. ChargeTells'
  <2> SUFFICES ASSUME NEW k \in Attempts, charged'[k] = 1
               PROVE  row'[k] = "cut" /\ outcome'[k] = "cut" /\ ~Pending(k)' /\ NoEvent(k)'
    BY DEF ChargeTells
  <2>1. row[k] = "cut" /\ outcome[k] = "cut" /\ ~Pending(k) /\ NoEvent(k)
    BY DEF ChargeTells
  <2>2. row'[k] = "cut"
    BY <1>r, <2>1 DEF Outcomes
  <2> QED  BY <1>p, <2>1, <2>2
<1>6. KeptTells'
  <2> SUFFICES ASSUME pc' # "ended", NEW k \in Attempts \ shed, outcome[k] # "none"
               PROVE  \/ row'[k] = outcome[k]
                      \/ /\ Queued(k, "started")' \/ (Pending(k)' /\ state'[k].started)
                         /\ outcome[k] \in Outcomes =>
                               Queued(k, "finalized")' \/ (Pending(k)' /\ state'[k].final = outcome[k])
    BY DEF KeptTells
  <2>1. \/ row[k] = outcome[k]
        \/ /\ Queued(k, "started") \/ (Pending(k) /\ state[k].started)
           /\ outcome[k] \in Outcomes =>
                 Queued(k, "finalized") \/ (Pending(k) /\ state[k].final = outcome[k])
    BY DEF KeptTells
  <2>2. CASE row[k] = outcome[k]
    <3>1. outcome[k] \in Final \cup {"running"} /\ row[k] \in Rows
      BY DEF LogType
    <3>2. row[k] \in Outcomes
      BY <2>2, <3>1 DEF Final, Rows, Outcomes
    <3> QED  BY <1>r, <2>2, <3>2
  <2>3. CASE row[k] # outcome[k]
    BY <1>p, <2>1, <2>3
  <2> QED  BY <2>2, <2>3
<1> QED  BY <1>1, <1>2, <1>3, <1>4, <1>5, <1>6

LEMMA SameRows == ASSUME LogInv, row' = row PROVE RowMoves
BY DEF RowMoves, LogInv, LogType

LEMMA InsertReturnsKeeps == ASSUME LogInv, InsertReturns PROVE LogInv'
<1>0. /\ pc = "inserting" /\ row' = Inserted
      /\ state' = [k \in Attempts |-> IF k \in Keys /\ Pending(k)
                    THEN [state[k] EXCEPT !.inserted = TRUE] ELSE state[k]]
      /\ ToFinals(events, order, state')
      /\ UNCHANGED <<events, order, outcome, charged, shed, closed>>
  BY DEF InsertReturns
<1>1. RowMoves /\ \A k \in Keys \cap Attempts : row'[k] # "none"
  BY <1>0, InsertedMoves
<1>2. /\ state' \in [Attempts -> StateType]
      /\ \A k \in Attempts :
            /\ state'[k].started = state[k].started /\ state'[k].final = state[k].final
            /\ ~Pending(k) => state'[k] = state[k]
            /\ state'[k].inserted => state[k].inserted \/ row'[k] # "none"
  <2>1. ASSUME NEW k \in Attempts
        PROVE  /\ state'[k] \in StateType
               /\ state'[k].started = state[k].started /\ state'[k].final = state[k].final
               /\ ~Pending(k) => state'[k] = state[k]
               /\ state'[k].inserted => state[k].inserted \/ row'[k] # "none"
    <3>1. state[k] \in StateType
      BY DEF LogInv, LogType
    <3>2. CASE k \in Keys /\ Pending(k)
      <4>1. state'[k] = [state[k] EXCEPT !.inserted = TRUE]
        BY <1>0, <3>2
      <4> QED  BY <1>1, <3>1, <3>2, <4>1 DEF StateType
    <3>3. CASE ~(k \in Keys /\ Pending(k))
      <4>1. state'[k] = state[k]
        BY <1>0, <3>3
      <4> QED  BY <3>1, <4>1
    <3> QED  BY <3>2, <3>3
  <2>2. state' = [k \in Attempts |-> state'[k]]
    BY <1>0
  <2> QED  BY <2>1, <2>2
<1>3. \A k \in Attempts : /\ state'[k].final # "none" => state'[k].final = outcome'[k]
                          /\ state'[k].inserted => row'[k] # "none"
  BY <1>0, <1>1, <1>2 DEF LogInv, StateTells, RowMoves
<1>4. batch' \in Seq(EntryType) /\ pc' \in {"finalizing", "wait", "ended"} /\ BatchTells'
  BY <1>0, <1>2, <1>3, ToFinalsTell DEF LogInv, LogType
<1>5. closed' \subseteq Attempts
  BY <1>0 DEF LogInv, LogType
<1> QED  BY <1>0, <1>1, <1>2, <1>4, <1>5, QuietKeeps

LEMMA DeferredKeeps == ASSUME LogInv, InsertFails \/ FinalizeFails PROVE LogInv'
<1>0. /\ pc \in {"inserting", "finalizing"} /\ batch' = <<>> /\ pc' = Resume(events, order)
      /\ state' = [k \in Attempts |-> IF k \in Keys /\ Pending(k)
                    THEN [state[k] EXCEPT !.due = FALSE] ELSE state[k]]
      /\ UNCHANGED <<events, order, outcome, charged, shed, closed>>
  BY DEF InsertFails, FinalizeFails, Deferred
<1>1. RowMoves
  BY InsertedMoves, FinalizedMoves DEF InsertFails, FinalizeFails
<1>2. /\ state' \in [Attempts -> StateType]
      /\ \A k \in Attempts :
            /\ state'[k].started = state[k].started /\ state'[k].final = state[k].final
            /\ ~Pending(k) => state'[k] = state[k]
            /\ state'[k].inserted => state[k].inserted \/ row'[k] # "none"
  <2>1. ASSUME NEW k \in Attempts
        PROVE  /\ state'[k] \in StateType
               /\ state'[k].started = state[k].started /\ state'[k].final = state[k].final
               /\ ~Pending(k) => state'[k] = state[k]
               /\ state'[k].inserted => state[k].inserted
    <3>1. state[k] \in StateType
      BY DEF LogInv, LogType
    <3>2. CASE k \in Keys /\ Pending(k)
      <4>1. state'[k] = [state[k] EXCEPT !.due = FALSE]
        BY <1>0, <3>2
      <4> QED  BY <3>1, <3>2, <4>1 DEF StateType
    <3>3. CASE ~(k \in Keys /\ Pending(k))
      <4>1. state'[k] = state[k]
        BY <1>0, <3>3
      <4> QED  BY <3>1, <4>1
    <3> QED  BY <3>2, <3>3
  <2>2. state' = [k \in Attempts |-> state'[k]]
    BY <1>0
  <2> QED  BY <2>1, <2>2
<1>3. pc' \in {"wait", "ended"}
  BY <1>0 DEF Resume
<1>4. batch' \in Seq(EntryType) /\ BatchTells'
  BY <1>0, <1>3, EmptySeq DEF BatchTells
<1>5. closed' \subseteq Attempts
  BY <1>0 DEF LogInv, LogType
<1> QED  BY <1>0, <1>1, <1>2, <1>3, <1>4, <1>5, QuietKeeps

LEMMA FinalizeReturnsKeeps == ASSUME LogInv, FinalizeReturns PROVE LogInv'
<1>0. /\ pc = "finalizing" /\ row' = Finalized /\ pc' = "closing" /\ closed' = closed \cup Keys
      /\ UNCHANGED <<events, order, state, batch, outcome, charged, shed>>
  BY DEF FinalizeReturns, buffer
<1>1. RowMoves /\ \A i \in 1 .. Len(batch) : row'[batch[i].key] = batch[i].final
  BY <1>0, FinalizedMoves
<1>2. \A i \in 1 .. Len(batch) : /\ batch[i].final = outcome[batch[i].key] /\ batch[i].final \in Outcomes
                                 /\ batch[i].key \in Attempts
  BY <1>0, Keyed DEF LogInv, BatchTells
<1>3. closed' \subseteq Attempts /\ \A k \in closed' \ closed : row'[k] = outcome[k] /\ outcome[k] \in Outcomes
  <2>1. Keys = {batch[i].key : i \in 1 .. Len(batch)} /\ closed \subseteq Attempts
    BY KeysAre DEF LogInv, LogType
  <2>2. ASSUME NEW k \in Keys PROVE k \in Attempts /\ row'[k] = outcome[k] /\ outcome[k] \in Outcomes
    <3>1. PICK i \in 1 .. Len(batch) : k = batch[i].key
      BY <2>1, <2>2
    <3> QED  BY <1>1, <1>2, <3>1
  <2> QED  BY <1>0, <2>1, <2>2
<1>4. BatchTells'
  BY <1>0, <1>1, <1>2 DEF LogInv, BatchTells, Outcomes
<1>5. batch' \in Seq(EntryType) /\ state' \in [Attempts -> StateType]
  BY <1>0 DEF LogInv, LogType
<1> QED  BY <1>0, <1>1, <1>3, <1>4, <1>5, QuietKeeps

\* What happens besides the worker's own steps.
LEMMA AroundKeeps ==
    ASSUME LogInv, (\E k \in Attempts : RetryDue(k)) \/ Reconcile \/ Stop \/ Halt \/ UNCHANGED vars
    PROVE  LogInv'
<1>1. CASE \E k \in Attempts : RetryDue(k)
  <2>1. PICK k \in Attempts : RetryDue(k)
    BY <1>1
  <2>2. /\ pc = "wait" /\ ~state[k].due /\ state' = [state EXCEPT ![k].due = TRUE]
        /\ UNCHANGED <<events, order, outcome, charged, shed, closed, row, pc, batch>>
    BY <2>1 DEF RetryDue
  <2>3. Pending(k)
    BY <2>2 DEF LogInv, StateTells, Blank
  <2>4. /\ state' \in [Attempts -> StateType]
        /\ \A q \in Attempts :
              /\ state'[q].started = state[q].started /\ state'[q].final = state[q].final
              /\ ~Pending(q) => state'[q] = state[q]
              /\ state'[q].inserted => state[q].inserted
    <3>1. state[k] \in StateType /\ state \in [Attempts -> StateType]
      BY DEF LogInv, LogType
    <3> DEFINE x == [state[k] EXCEPT !.due = TRUE]
    <3>2. x \in StateType /\ x.started = state[k].started /\ x.final = state[k].final /\ x.inserted = state[k].inserted
      BY <3>1 DEF StateType
    <3>3. state' = [state EXCEPT ![k] = x]
      BY <2>2
    <3> HIDE DEF x
    <3> QED  BY <2>3, <3>1, <3>2, <3>3
  <2>5. RowMoves /\ BatchTells'
    BY <2>2, SameRows, BatchStays
  <2>6. closed' \subseteq Attempts /\ batch' \in Seq(EntryType)
    BY <2>2 DEF LogInv, LogType
  <2> QED  BY <2>2, <2>4, <2>5, <2>6, QuietKeeps
<1>2. CASE Reconcile \/ Stop \/ Halt \/ UNCHANGED vars
  <2>1. UNCHANGED <<events, order, state, outcome, charged, shed, closed, batch>> /\ pc' \in {pc, "ended"}
    BY <1>2 DEF Reconcile, Stop, Halt, vars, buffer
  <2>2. RowMoves
    <3>1. CASE Reconcile
      <4>1. PICK S \in SUBSET Stale : row' = [k \in Attempts |-> IF k \in S THEN "abandoned" ELSE row[k]]
        BY <3>1 DEF Reconcile
      <4> QED  BY <4>1 DEF RowMoves, Stale, LogInv, LogType, Rows, Outcomes
    <3>2. CASE Halt
      <4>1. row' = row \/ (pc = "inserting" /\ row' = Inserted) \/ (pc = "finalizing" /\ row' = Finalized)
        BY <3>2 DEF Halt
      <4> QED  BY <4>1, InsertedMoves, FinalizedMoves
    <3>3. CASE Stop \/ UNCHANGED vars
      BY <3>3, SameRows DEF Stop, vars
    <3> QED  BY <1>2, <3>1, <3>2, <3>3
  <2>3. BatchTells'
    BY <2>1, <2>2, BatchStays
  <2>4. /\ closed' \subseteq Attempts /\ batch' \in Seq(EntryType) /\ state' \in [Attempts -> StateType]
        /\ pc' \in {"wait", "inserting", "finalizing", "closing", "ended"}
        /\ pc' # "ended" => pc # "ended"
    BY <2>1 DEF LogInv, LogType
  <2> QED  BY <2>1, <2>2, <2>3, <2>4, QuietKeeps
<1> QED  BY <1>1, <1>2

LEMMA LogFlushKeeps == ASSUME LogInv, Flush PROVE LogInv'
<1> USE DEF LogInv
<1>0. /\ pc = "wait" /\ events' = <<>> /\ order' = ConsumedOrder /\ state' = Consumed
      /\ UNCHANGED <<row, charged, outcome, shed, closed>>
  BY DEF Flush
<1>s. /\ state' \in [Attempts -> StateType]
      /\ \A k \in Attempts :
            /\ state'[k].started = (state[k].started \/ Queued(k, "started"))
            /\ state'[k].final = IF Queued(k, "finalized") THEN outcome[k] ELSE state[k].final
            /\ state'[k].inserted = state[k].inserted
            /\ NoEvent(k) => state'[k] = state[k]
  BY <1>0, ConsumedIs
<1>r. /\ order' \in Seq(Attempts) /\ Len(order') <= Len(order) + Len(events)
      /\ \A k \in Attempts : Pending(k)' <=> Pending(k) \/ ~NoEvent(k)
  BY <1>0, ConsumedOrderIs DEF Pending
<1>e. Len(events') = 0 /\ events' \in Seq(EventType)
  BY <1>0, EmptySeq
<1>n. \A k \in Attempts : NoEvent(k)'
  BY <1>e DEF NoEvent
<1>3. StateTells'
  <2> SUFFICES ASSUME NEW k \in Attempts
               PROVE  /\ ~Pending(k)' => state'[k] = Blank
                      /\ state'[k].final # "none" => state'[k].final = outcome'[k] /\ NoEvent(k)'
                      /\ state'[k].inserted => row'[k] # "none"
    BY DEF StateTells
  <2>1. ~Pending(k)' => state'[k] = Blank
    BY <1>r, <1>s DEF StateTells
  <2>2. state'[k].final # "none" => state'[k].final = outcome'[k]
    BY <1>0, <1>s DEF StateTells
  <2> QED  BY <1>0, <1>n, <1>s, <2>1, <2>2 DEF StateTells
<1>b. batch' \in Seq(EntryType) /\ pc' \in {"inserting", "finalizing", "wait", "ended"} /\ BatchTells'
  <2> DEFINE starts == Starts(order', state')
  <2>1. CASE starts # <<>>
    <3>1. pc' = "inserting" /\ batch' = starts
      BY <2>1 DEF Flush
    <3>2. starts \in Seq(EntryType)
      BY <1>r, <1>s, SliceIs DEF Starts
    <3> QED  BY <3>1, <3>2 DEF BatchTells
  <2>2. CASE starts = <<>>
    <3>1. ToFinals(<<>>, order', state')
      BY <2>2 DEF Flush
    <3>2. \A k \in Attempts : /\ state'[k].final # "none" => state'[k].final = outcome'[k]
                              /\ state'[k].inserted => row'[k] # "none"
      BY <1>3 DEF StateTells
    <3> QED  BY <1>r, <1>s, <3>1, <3>2, ToFinalsTell
  <2> QED  BY <2>1, <2>2
<1>1. LogType'
  BY <1>0, <1>s, <1>r, <1>e, <1>b DEF LogType
<1>2. Bounded' /\ EventsTell'
  <2>1. Len(order') \in Nat /\ Len(order) \in Nat /\ Len(events) \in Nat
    BY <1>r, LenProperties DEF LogType
  <2> QED  BY <1>r, <1>e, <2>1, BoundsAssumption DEF Bounded, EventsTell
<1>4. RowTells'
  BY <1>0 DEF RowTells
<1>5. ChargeTells'
  BY <1>0, <1>n, <1>r DEF ChargeTells
<1>6. KeptTells'
  <2> SUFFICES ASSUME NEW k \in Attempts \ shed, outcome[k] # "none", row[k] # outcome[k]
               PROVE  /\ Pending(k)' /\ state'[k].started
                      /\ outcome[k] \in Outcomes => state'[k].final = outcome[k]
    BY <1>0 DEF KeptTells
  <2>1. /\ Queued(k, "started") \/ (Pending(k) /\ state[k].started)
        /\ outcome[k] \in Outcomes =>
              Queued(k, "finalized") \/ (Pending(k) /\ state[k].final = outcome[k])
    BY <1>0 DEF KeptTells
  <2>2. Queued(k, "started") => ~NoEvent(k)
    BY DEF Queued, NoEvent
  <2> QED  BY <1>r, <1>s, <2>1, <2>2
<1> QED  BY <1>1, <1>2, <1>3, <1>4, <1>5, <1>6, <1>b

LEMMA CloseOneKeeps == ASSUME LogInv, CloseOne PROVE LogInv'
<1> USE DEF LogInv
<1> DEFINE k == Head(batch).key
<1>0. /\ pc = "closing" /\ charged' \in {[charged EXCEPT ![k] = c] : c \in Callback(k)}
      /\ order' = Only(order, Attempts \ {k}) /\ state' = [state EXCEPT ![k] = Blank]
      /\ batch' = Tail(batch)
      /\ pc' = IF Tail(batch) # <<>> THEN "closing" ELSE Resume(events, order')
      /\ UNCHANGED <<events, row, outcome, shed, closed>>
  BY DEF CloseOne
<1>h. batch \in Seq(EntryType) /\ batch # <<>>
  BY <1>0 DEF LogType, BatchTells
<1>t. /\ batch' \in Seq(EntryType) /\ Head(batch) = batch[1] /\ 1 \in 1 .. Len(batch)
      /\ \A i \in 1 .. Len(batch') : i + 1 \in 1 .. Len(batch) /\ batch'[i] = batch[i + 1]
  <2>1. Len(batch) \in Nat /\ Len(batch) # 0
    BY <1>h, LenProperties, EmptySeq
  <2>2. Tail(batch) \in Seq(EntryType) /\ Len(Tail(batch)) = Len(batch) - 1
        /\ \A i \in 1 .. Len(Tail(batch)) : Tail(batch)[i] = batch[i + 1]
    BY <1>h, HeadTailProperties
  <2>3. Head(batch) = batch[1]
    BY <1>h
  <2> QED  BY <1>0, <2>1, <2>2, <2>3
<1>k. k \in Attempts /\ row[k] = outcome[k] /\ outcome[k] \in Outcomes
  BY <1>0, <1>t, Keyed DEF BatchTells
<1> HIDE DEF k
<1>r. /\ order' \in Seq(Attempts) /\ Len(order') <= Len(order)
      /\ \A q \in Attempts : Pending(q)' <=> Pending(q) /\ q # k
  <2>1. /\ order' \in Seq(Attempts) /\ Len(order') \in 0 .. Len(order)
        /\ ToSet(order') = ToSet(order) \cap (Attempts \ {k})
    BY <1>0, OnlyElements, OnlySet DEF LogType
  <2>2. Len(order) \in Nat
    BY LenProperties DEF LogType
  <2> QED  BY <2>1, <2>2 DEF Pending
<1>s. /\ state' \in [Attempts -> StateType]
      /\ \A q \in Attempts : state'[q] = IF q = k THEN Blank ELSE state[q]
  BY <1>0, <1>k DEF LogType, Blank, StateType, Final
<1>c. /\ charged' \in [Attempts -> {0, 1}]
      /\ \A q \in Attempts : charged'[q] = charged[q] \/ (q = k /\ Pending(k) /\ state[k].final = "cut")
  <2>1. PICK c \in Callback(k) : charged' = [charged EXCEPT ![k] = c]
    BY <1>0
  <2>2. \/ c = charged[k]
        \/ Pending(k) /\ state[k].final = "cut" /\ c = charged[k] + 1
    BY <2>1 DEF Callback
  <2>3. charged[k] \in {0, 1} /\ (Pending(k) => charged[k] = 0)
    BY <1>k DEF LogType, ChargeTells
  <2>4. c \in {0, 1}
    BY <2>2, <2>3
  <2> QED  BY <2>1, <2>2, <2>4 DEF LogType
<1>n. \A q \in Attempts : NoEvent(q)' <=> NoEvent(q)
  BY <1>0 DEF NoEvent
<1>p. pc' \in {"closing", "wait", "ended"} /\ (pc' = "closing" => batch' # <<>>)
  BY <1>0 DEF Resume
<1>1. LogType'
  BY <1>0, <1>t, <1>r, <1>s, <1>c, <1>p DEF LogType
<1>2. Bounded' /\ EventsTell'
  <2>1. Len(order') \in Nat /\ Len(order) \in Nat /\ Len(events) \in Nat
    BY <1>r, LenProperties DEF LogType
  <2> QED  BY <1>0, <1>r, <2>1, BoundsAssumption DEF Bounded, EventsTell
<1>3. StateTells'
  <2> SUFFICES ASSUME NEW q \in Attempts
               PROVE  /\ ~Pending(q)' => state'[q] = Blank
                      /\ state'[q].final # "none" => state'[q].final = outcome'[q] /\ NoEvent(q)'
                      /\ state'[q].inserted => row'[q] # "none"
    BY DEF StateTells
  <2>1. CASE q = k
    BY <1>s, <2>1 DEF Blank
  <2>2. CASE q # k
    BY <1>0, <1>r, <1>s, <1>n, <2>2 DEF StateTells
  <2> QED  BY <2>1, <2>2
<1>4. RowTells'
  BY <1>0 DEF RowTells
<1>5. ChargeTells'
  <2> SUFFICES ASSUME NEW q \in Attempts, charged'[q] = 1
               PROVE  row'[q] = "cut" /\ outcome'[q] = "cut" /\ ~Pending(q)' /\ NoEvent(q)'
    BY DEF ChargeTells
  <2>1. CASE charged[q] = 1
    BY <1>0, <1>r, <1>n, <2>1 DEF ChargeTells
  <2>2. CASE charged[q] # 1
    <3>1. q = k /\ state[k].final = "cut"
      BY <1>c, <2>2
    <3>2. outcome[k] = "cut" /\ NoEvent(k)
      BY <1>k, <3>1 DEF StateTells
    <3> QED  BY <1>0, <1>k, <1>r, <1>n, <3>1, <3>2
  <2> QED  BY <2>1, <2>2
<1>6. BatchTells'
  <2>1. ASSUME NEW i \in 1 .. Len(batch')
        PROVE  /\ batch'[i].final = outcome[batch'[i].key] /\ batch'[i].final \in Outcomes
               /\ row[batch'[i].key] # "none" /\ row[batch'[i].key] = batch'[i].final
    BY <1>0, <1>t DEF BatchTells
  <2> QED  BY <1>0, <1>p, <2>1 DEF BatchTells
<1>7. KeptTells'
  <2> SUFFICES ASSUME NEW q \in Attempts \ shed, outcome[q] # "none", row[q] # outcome[q]
               PROVE  /\ Queued(q, "started")' \/ (Pending(q)' /\ state'[q].started)
                      /\ outcome[q] \in Outcomes =>
                            Queued(q, "finalized")' \/ (Pending(q)' /\ state'[q].final = outcome[q])
    BY <1>0 DEF KeptTells
  <2>1. q # k
    BY <1>k
  <2>2. /\ Queued(q, "started") \/ (Pending(q) /\ state[q].started)
        /\ outcome[q] \in Outcomes =>
              Queued(q, "finalized") \/ (Pending(q) /\ state[q].final = outcome[q])
    BY <1>0 DEF KeptTells
  <2>3. (Queued(q, "started")' <=> Queued(q, "started")) /\ (Queued(q, "finalized")' <=> Queued(q, "finalized"))
    BY <1>0 DEF Queued
  <2> QED  BY <1>r, <1>s, <2>1, <2>2, <2>3
<1> QED  BY <1>1, <1>2, <1>3, <1>4, <1>5, <1>6, <1>7

-----------------------------------------------------------------------------

LEMMA LogInit == Init => LogInv
<1> SUFFICES ASSUME Init PROVE LogInv
  OBVIOUS
<1> USE DEF Init
<1>1. /\ events \in Seq(EventType) /\ order \in Seq(Attempts) /\ batch \in Seq(EntryType)
      /\ Len(events) = 0 /\ Len(order) = 0
  BY EmptySeq
<1>2. Blank \in StateType
  BY DEF Blank, StateType, Final
<1>3. LogType
  BY <1>1, <1>2 DEF LogType, Rows, Final
<1>4. Bounded /\ EventsTell
  BY <1>1, BoundsAssumption DEF Bounded, EventsTell
<1>5. StateTells
  BY DEF StateTells, Blank
<1>6. RowTells /\ ChargeTells
  BY DEF RowTells, ChargeTells, Outcomes
<1>7. BatchTells /\ KeptTells
  BY DEF BatchTells, KeptTells
<1> QED  BY <1>3, <1>4, <1>5, <1>6, <1>7 DEF LogInv

LEMMA LogNext == LogInv /\ [Next]_vars => LogInv'
BY StartedKeeps, FinalizedKeeps, LogFlushKeeps, InsertReturnsKeeps, DeferredKeeps,
   FinalizeReturnsKeeps, CloseOneKeeps, AroundKeeps DEF Next, WorkerStep

LEMMA LogInvIsExact == LogInv => LogExact
<1> SUFFICES ASSUME LogInv PROVE LogExact
  OBVIOUS
<1> USE DEF LogInv
<1>1. ChargedOnce
  BY DEF LogType, ChargeTells, ChargedOnce
<1>2. ClosedIsFinal
  BY DEF LogType, RowTells, ClosedIsFinal
<1>3. NothingElseLost
  <2> SUFFICES ASSUME pc # "ended", NEW k \in Attempts \ shed, outcome[k] \in Outcomes, row[k] # outcome[k]
               PROVE  \/ \E i \in DOMAIN events : events[i].key = k /\ events[i].outcome = outcome[k]
                      \/ Pending(k) /\ state[k].final = outcome[k] /\ (state[k].started \/ state[k].inserted)
    BY DEF NothingElseLost
  <2>1. outcome[k] # "none" /\ DOMAIN events = 1 .. Len(events)
    BY LenProperties DEF Outcomes, LogType
  <2>2. /\ Queued(k, "started") \/ (Pending(k) /\ state[k].started)
        /\ Queued(k, "finalized") \/ (Pending(k) /\ state[k].final = outcome[k])
    BY <2>1 DEF KeptTells
  <2>3. CASE Queued(k, "finalized")
    <3>1. PICK i \in 1 .. Len(events) : events[i].key = k /\ events[i].kind = "finalized"
      BY <2>3 DEF Queued
    <3>2. events[i].outcome = outcome[k]
      BY <3>1 DEF EventsTell
    <3> QED  BY <2>1, <3>1, <3>2
  <2>4. CASE Pending(k) /\ state[k].final = outcome[k]
    <3>1. NoEvent(k)
      BY <2>1, <2>4 DEF StateTells
    <3>2. ~Queued(k, "started")
      BY <3>1 DEF NoEvent, Queued
    <3> QED  BY <2>2, <2>4, <3>2
  <2> QED  BY <2>2, <2>3, <2>4
<1> QED  BY <1>1, <1>2, <1>3 DEF LogExact

\* The log of requests is bounded and exact (_enqueue, _apply_pressure,
\* _consume_events and _flush of RequestLogWriter with insert_request_log_batch,
\* finalize_request_log_batch and reconcile_stale_request_logs): events and states
\* together stay within max_events, no attempt is charged twice or against its
\* row, a row whose update was acknowledged keeps the attempt's outcome, and only
\* pressure and the end of the process lose an outcome.
THEOREM LogsAreExact == Spec => []LogExact
<1>1. Init => LogInv
  BY LogInit
<1>2. LogInv /\ [Next]_vars => LogInv'
  BY LogNext
<1>3. LogInv => LogExact
  BY LogInvIsExact
<1> QED  BY <1>1, <1>2, <1>3, PTL DEF Spec

=============================================================================
