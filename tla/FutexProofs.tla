---------------------------- MODULE FutexProofs ----------------------------
(***************************************************************************)
(* Why no wake of Atomics.wake is lost, why the ring of waiters survives     *)
(* every order of arrival and departure, and why waiters are woken in the    *)
(* order in which they came: for every number of threads, cells and calls.   *)
(***************************************************************************)
EXTENDS Futex, InductionLemmas

-----------------------------------------------------------------------------
(* The inductive invariant.                                                  *)

Waits == {<<w>> : w \in [offset : Offsets, value : {0, 1}, timed : BOOLEAN]}

TypeInv ==
  /\ mem \in [Offsets -> {0, 1}]
  /\ fx \in [Threads -> FutexStates]
  /\ cond \in [Threads -> {"awake", "asleep", "notified"}]
  /\ waiter \in [Threads -> {<<>>} \cup Waits]
  /\ head \in Threads \cup {NoThread}
  /\ lowerPri \in [Threads -> Threads] /\ back \in [Threads -> Threads]
  /\ toWake \in [Threads -> SUBSET Offsets]
  /\ arrived \in Seq(Threads)

\* No thread is in the ring twice.
OnceInRing == \A j, k \in 1 .. Len(arrived) : arrived[j] = arrived[k] => j = k

\* Whoever waits, asleep or not, will be woken by somebody who has changed its
\* cell, unless the cell holds what it expects: a thread goes back to sleep after
\* an interrupt without looking at the cell again.
WakeInv ==
  \A t \in Threads : IsWaiting(t) =>
    \/ mem[WaitsAt(t)] = waiter[t][1].value
    \/ \E u \in Threads : WaitsAt(t) \in toWake[u]

FInv == TypeInv /\ SleepersAreWaiting /\ RingIsInOrder /\ OnceInRing /\ WakeInv

-----------------------------------------------------------------------------
(* The ring.                                                                 *)

\* The neighbours of a position in the ring.
NextPos(k) == IF k = Len(arrived) THEN 1 ELSE k + 1

\* What the order of the ring says of one position.
LEMMA RingFacts ==
  ASSUME TypeInv, RingIsInOrder
  PROVE  /\ {t \in Threads : InWait(t)} = {arrived[k] : k \in 1 .. Len(arrived)}
         /\ head = IF Len(arrived) = 0 THEN NoThread ELSE arrived[1]
         /\ \A k \in 1 .. Len(arrived) :
              lowerPri[arrived[k]] = arrived[NextPos(k)] /\ back[arrived[NextPos(k)]] = arrived[k]
         /\ Len(arrived) \in Nat /\ \A k \in 1 .. Len(arrived) : arrived[k] \in Threads
  BY DEF RingIsInOrder, NextPos, TypeInv

\* A thread that is not in a wait is linked in behind all others.
LEMMA LinkKeepsRing ==
  ASSUME TypeInv, RingIsInOrder, OnceInRing, NEW t \in Threads, ~InWait(t), Link(t),
         NEW w \in Waits, waiter' = [waiter EXCEPT ![t] = w], arrived' = Append(arrived, t)
  PROVE  /\ head' \in Threads \cup {NoThread}
         /\ lowerPri' \in [Threads -> Threads] /\ back' \in [Threads -> Threads]
         /\ arrived' \in Seq(Threads) /\ RingIsInOrder' /\ OnceInRing'
  <1> DEFINE n == Len(arrived)
  <1>1. /\ {u \in Threads : InWait(u)} = {arrived[k] : k \in 1 .. n}
        /\ head = IF n = 0 THEN NoThread ELSE arrived[1]
        /\ \A k \in 1 .. n : lowerPri[arrived[k]] = arrived[NextPos(k)]
                             /\ back[arrived[NextPos(k)]] = arrived[k]
        /\ n \in Nat /\ \A k \in 1 .. n : arrived[k] \in Threads
    BY RingFacts
  <1>2. /\ arrived' \in Seq(Threads) /\ Len(arrived') = n + 1 /\ arrived'[n + 1] = t
        /\ \A k \in 1 .. n : arrived'[k] = arrived[k]
    BY DEF TypeInv
  <1>3. \A k \in 1 .. n : arrived[k] # t
    BY <1>1
  <1>4. OnceInRing'
    BY <1>1, <1>2, <1>3 DEF OnceInRing
  <1>5. {u \in Threads : InWait(u)}' = {arrived'[k] : k \in 1 .. n + 1}
    <2>1. \A u \in Threads : InWait(u)' <=> InWait(u) \/ u = t
      <3>1. w # <<>>
        BY DEF Waits
      <3> QED
        BY <3>1 DEF InWait, TypeInv
    <2>2. {arrived'[k] : k \in 1 .. n + 1} = {arrived[k] : k \in 1 .. n} \cup {t}
      BY <1>1, <1>2
    <2> QED
      BY <1>1, <2>1, <2>2
  <1>6. CASE n = 0
    <2>1. head' = t /\ lowerPri' = [lowerPri EXCEPT ![t] = t] /\ back' = [back EXCEPT ![t] = t]
      BY <1>1, <1>6 DEF Link
    <2>2. lowerPri' \in [Threads -> Threads] /\ lowerPri'[t] = t
          /\ back' \in [Threads -> Threads] /\ back'[t] = t
      BY <2>1 DEF TypeInv
    <2>3. Len(arrived') = 1 /\ arrived'[1] = t
      BY <1>2, <1>6
    <2>4. RingIsInOrder'
      BY <1>5, <1>6, <2>1, <2>2, <2>3 DEF RingIsInOrder
    <2> QED
      BY <1>2, <1>4, <2>1, <2>2, <2>4
  <1>7. CASE n > 0
    <2>1. head = arrived[1] /\ head \in Threads /\ head # NoThread /\ back[head] = arrived[n]
      BY <1>1, <1>7, ThreadsAreFinite DEF NextPos
    <2>2. /\ lowerPri' = [lowerPri EXCEPT ![t] = head, ![arrived[n]] = t]
          /\ back' = [back EXCEPT ![t] = arrived[n], ![head] = t]
          /\ head' = head
      BY <2>1 DEF Link
    <2>3. /\ lowerPri' \in [Threads -> Threads] /\ back' \in [Threads -> Threads]
          /\ lowerPri'[t] = head /\ lowerPri'[arrived[n]] = t
          /\ \A u \in Threads \ {t, arrived[n]} : lowerPri'[u] = lowerPri[u]
          /\ back'[t] = arrived[n] /\ back'[head] = t
          /\ \A u \in Threads \ {t, head} : back'[u] = back[u]
      <3>1. arrived[n] \in Threads /\ arrived[n] # t /\ head # t
        BY <1>1, <1>3, <1>7, <2>1
      <3> HIDE DEF n
      <3> QED
        BY <2>1, <2>2, <3>1 DEF TypeInv
    <2>4. ASSUME NEW k \in 1 .. n + 1
          PROVE  /\ lowerPri'[arrived'[k]] = arrived'[IF k = n + 1 THEN 1 ELSE k + 1]
                 /\ back'[arrived'[IF k = n + 1 THEN 1 ELSE k + 1]] = arrived'[k]
      <3>0. k = n + 1 \/ k = n \/ k \in 1 .. n - 1
        BY <1>1
      <3>1. CASE k = n + 1
        BY <1>2, <1>7, <2>1, <2>3, <3>1
      <3>2. CASE k = n
        BY <1>2, <1>7, <2>1, <2>3, <3>2
      <3>3. CASE k \in 1 .. n - 1
        <4>1. /\ k \in 1 .. n /\ k + 1 \in 1 .. n /\ NextPos(k) = k + 1
              /\ arrived[k] # arrived[n] /\ arrived[k + 1] # arrived[1]
          BY <1>1, <3>3 DEF NextPos, OnceInRing
        <4>2. lowerPri'[arrived[k]] = lowerPri[arrived[k]] /\ back'[arrived[k + 1]] = back[arrived[k + 1]]
          BY <1>1, <1>3, <2>1, <2>3, <4>1
        <4> QED
          BY <1>1, <1>2, <3>3, <4>1, <4>2
      <3> QED
        BY <3>0, <3>1, <3>2, <3>3
    <2>5. head' = arrived'[1]
      BY <1>2, <1>7, <2>1, <2>2
    <2>6. RingIsInOrder'
      BY <1>1, <1>2, <1>5, <2>4, <2>5 DEF RingIsInOrder
    <2> QED
      BY <1>2, <1>4, <2>1, <2>2, <2>3, <2>6
  <1> QED
    BY <1>1, <1>6, <1>7

\* A thread that leaves, from wherever in the ring, leaves the others in order.
LEMMA UnlinkKeepsRing ==
  ASSUME TypeInv, RingIsInOrder, OnceInRing, NEW t \in Threads, Unlink(t),
         waiter' = [waiter EXCEPT ![t] = <<>>], Depart(t)
  PROVE  /\ head' \in Threads \cup {NoThread}
         /\ lowerPri' \in [Threads -> Threads] /\ back' \in [Threads -> Threads]
         /\ arrived' \in Seq(Threads) /\ RingIsInOrder' /\ OnceInRing'
  <1>0. PICK p \in 1 .. Len(arrived) :
          /\ arrived[p] = t
          /\ arrived' = [k \in 1 .. (Len(arrived) - 1) |-> arrived[IF k < p THEN k ELSE k + 1]]
    BY DEF Depart
  <1> DEFINE n == Len(arrived)
             Old(k) == IF k < p THEN k ELSE k + 1
             Pred == IF p = 1 THEN n ELSE p - 1
             Succ == NextPos(p)
  <1>1. /\ {u \in Threads : InWait(u)} = {arrived[k] : k \in 1 .. n}
        /\ head = IF n = 0 THEN NoThread ELSE arrived[1]
        /\ \A k \in 1 .. n : lowerPri[arrived[k]] = arrived[NextPos(k)]
                             /\ back[arrived[NextPos(k)]] = arrived[k]
        /\ n \in Nat /\ \A k \in 1 .. n : arrived[k] \in Threads
    BY RingFacts
  <1>2. /\ n \in Nat /\ p \in 1 .. n /\ arrived[p] = t /\ head = arrived[1] /\ t \in Threads
        /\ \A k \in 1 .. n - 1 : Old(k) \in (1 .. n) \ {p}
    BY <1>0, <1>1
  <1>3. arrived' \in Seq(Threads) /\ Len(arrived') = n - 1
        /\ \A k \in 1 .. n - 1 : arrived'[k] = arrived[Old(k)]
    <2>1. n - 1 \in Nat /\ arrived' \in [1 .. n - 1 -> Threads]
      BY <1>0, <1>1, <1>2
    <2>2. \A k \in 1 .. n - 1 : arrived'[k] = arrived[Old(k)]
      BY <1>0
    <2> QED
      BY <2>1, <2>2, FunctionIsSequence
  <1>4. OnceInRing'
    <2>1. ASSUME NEW j \in 1 .. n - 1, NEW k \in 1 .. n - 1, arrived'[j] = arrived'[k]
          PROVE  j = k
      <3>1. Old(j) = Old(k)
        BY <1>2, <1>3, <2>1 DEF OnceInRing
      <3> QED
        BY <1>2, <3>1
    <2> QED
      BY <1>3, <2>1 DEF OnceInRing
  <1>5. {u \in Threads : InWait(u)}' = {arrived'[k] : k \in 1 .. n - 1}
    <2>1. \A u \in Threads : InWait(u)' <=> InWait(u) /\ u # t
      BY DEF InWait, TypeInv
    <2>2. ASSUME NEW u, u \in {arrived[k] : k \in 1 .. n}, u # t
          PROVE  u \in {arrived'[k] : k \in 1 .. n - 1}
      <3>1. PICK j \in 1 .. n : u = arrived[j]
        BY <2>2
      <3>2. j # p
        BY <1>2, <2>2, <3>1
      <3>3. \E k \in 1 .. n - 1 : Old(k) = j
        <4>1. CASE j < p
          BY <1>2, <4>1
        <4>2. CASE j > p
          <5>1. j - 1 \in 1 .. n - 1 /\ Old(j - 1) = j
            BY <1>2, <4>2
          <5> QED
            BY <5>1
        <4> QED
          BY <1>2, <3>2, <4>1, <4>2
      <3> QED
        BY <1>3, <3>1, <3>3
    <2>3. ASSUME NEW k \in 1 .. n - 1
          PROVE  arrived'[k] \in {arrived[j] : j \in 1 .. n} /\ arrived'[k] # t
      BY <1>2, <1>3 DEF OnceInRing
    <2>4. \A u \in Threads : InWait(u)' <=> u \in {arrived'[k] : k \in 1 .. n - 1}
      BY <1>1, <2>1, <2>2, <2>3
    <2>5. {arrived'[k] : k \in 1 .. n - 1} \subseteq Threads
      BY <1>1, <2>3
    <2> QED
      BY <2>4, <2>5
  <1>6. CASE n = 1
    <2>1. lowerPri[t] = t
      BY <1>1, <1>2, <1>6 DEF NextPos
    <2>2. head' = NoThread /\ UNCHANGED <<lowerPri, back>>
      BY <2>1 DEF Unlink
    <2>3. RingIsInOrder'
      BY <1>3, <1>5, <1>6, <2>2 DEF RingIsInOrder
    <2> QED
      BY <1>3, <1>4, <2>2, <2>3 DEF TypeInv
  <1>7. CASE n > 1
    <2>0. n \in Nat
      BY <1>2
    <2>1. /\ Pred \in (1 .. n) \ {p} /\ Succ \in (1 .. n) \ {p} /\ NextPos(Pred) = p
      BY <1>2, <1>7 DEF NextPos
    <2>2. /\ lowerPri[t] = arrived[Succ] /\ back[t] = arrived[Pred] /\ lowerPri[t] # t
          /\ arrived[Pred] \in Threads /\ arrived[Succ] \in Threads
      BY <1>1, <1>2, <2>1 DEF OnceInRing
    <2>3. /\ back' = [back EXCEPT ![arrived[Succ]] = arrived[Pred]]
          /\ lowerPri' = [lowerPri EXCEPT ![arrived[Pred]] = arrived[Succ]]
          /\ head' = IF head = t THEN arrived[Succ] ELSE head
      BY <2>2 DEF Unlink, NewHead
    <2>4. head' = arrived'[1]
      <3>1. 1 \in 1 .. n - 1 /\ 1 \in 1 .. n
        BY <1>2, <1>7
      <3>2. head = t <=> p = 1
        <4>1. p \in 1 .. Len(arrived) /\ 1 \in 1 .. Len(arrived)
          BY <1>2, <3>1
        <4>2. arrived[1] = arrived[p] <=> p = 1
          BY <4>1 DEF OnceInRing
        <4> QED
          BY <1>2, <4>2
      <3>3. p = 1 => Succ = 2
        <4>1. n # 1
          <5> HIDE DEF n
          <5> QED
            BY <1>7, <2>0
        <4>2. p = 1 => NextPos(p) = 2
          BY <4>1 DEF NextPos
        <4> QED
          BY <4>2
      <3>4. arrived'[1] = arrived[IF p = 1 THEN 2 ELSE 1]
        <4>1. Old(1) = IF p = 1 THEN 2 ELSE 1
          BY <1>2
        <4> QED
          BY <1>3, <3>1, <4>1
      <3> HIDE DEF Succ, Old, Pred
      <3> QED
        BY <1>2, <2>3, <3>2, <3>3, <3>4
    <2>5. ASSUME NEW k \in 1 .. n - 1
          PROVE  /\ lowerPri'[arrived'[k]] = arrived'[IF k = n - 1 THEN 1 ELSE k + 1]
                 /\ back'[arrived'[IF k = n - 1 THEN 1 ELSE k + 1]] = arrived'[k]
      <3> DEFINE a == Old(k)
                 b == Old(IF k = n - 1 THEN 1 ELSE k + 1)
      <3>1. /\ a \in (1 .. n) \ {p} /\ b \in (1 .. n) \ {p}
            /\ IF a = Pred THEN b = Succ ELSE b = NextPos(a) /\ b # Succ
        BY <1>2, <1>7 DEF NextPos
      <3>2. /\ arrived'[k] = arrived[a] /\ arrived'[IF k = n - 1 THEN 1 ELSE k + 1] = arrived[b]
            /\ arrived[a] \in Threads /\ arrived[b] \in Threads
        <4>1. (IF k = n - 1 THEN 1 ELSE k + 1) \in 1 .. n - 1
          BY <1>2, <1>7
        <4> QED
          BY <1>1, <1>3, <3>1, <4>1
      <3> HIDE DEF a, b, Pred, Succ, Old
      <3>3. CASE a = Pred
        BY <2>2, <2>3, <3>1, <3>2, <3>3 DEF TypeInv
      <3>4. CASE a # Pred
        <4>1. arrived[a] # arrived[Pred] /\ arrived[b] # arrived[Succ]
          BY <2>1, <3>1, <3>4 DEF OnceInRing
        <4>2. lowerPri'[arrived[a]] = lowerPri[arrived[a]] /\ back'[arrived[b]] = back[arrived[b]]
          BY <2>3, <3>2, <4>1 DEF TypeInv
        <4> QED
          BY <1>1, <3>1, <3>2, <3>4, <4>2
      <3> QED
        BY <3>3, <3>4
    <2>6. RingIsInOrder'
      <3> HIDE DEF Old, Pred, Succ
      <3>1. n - 1 \in Nat /\ n - 1 # 0
        BY <1>2, <1>7
      <3> DEFINE m == n - 1
      <3> HIDE DEF m
      <3>2. /\ Len(arrived') = m /\ m # 0 /\ head' = arrived'[1]
            /\ {u \in Threads : InWait(u)}' = {arrived'[k] : k \in 1 .. m}
        BY <1>3, <1>5, <2>4, <3>1 DEF m
      <3>3. \A k \in 1 .. m : /\ lowerPri'[arrived'[k]] = arrived'[IF k = m THEN 1 ELSE k + 1]
                              /\ back'[arrived'[IF k = m THEN 1 ELSE k + 1]] = arrived'[k]
        BY <2>5 DEF m
      <3> QED
        BY <3>2, <3>3 DEF RingIsInOrder
    <2> QED
      <3>1. lowerPri' \in [Threads -> Threads] /\ back' \in [Threads -> Threads]
        BY <2>2, <2>3 DEF TypeInv
      <3>2. head' \in Threads
        BY <1>1, <1>2, <2>2, <2>3
      <3> QED
        BY <1>3, <1>4, <2>6, <3>1, <3>2
  <1>8. n = 1 \/ n > 1
    <2>1. n \in Nat /\ p \in 1 .. n
      BY <1>2
    <2> HIDE DEF n
    <2> QED
      BY <2>1
  <1> QED
    BY <1>6, <1>7, <1>8

\* The ring has no more members than there are threads.
LEMMA RingIsSmall ==
  ASSUME TypeInv, OnceInRing
  PROVE  Len(arrived) \in Nat /\ Cardinality(Threads) \in Nat /\ Len(arrived) <= Cardinality(Threads)
  <1>1. IsFiniteSet(Threads) /\ Cardinality(Threads) \in Nat
    BY ThreadsAreFinite, FS_CardinalityType
  <1>2. Len(arrived) \in Nat /\ arrived \in [1 .. Len(arrived) -> Threads]
    BY DEF TypeInv
  <1>3. arrived \in Injection(1 .. Len(arrived), Threads)
    BY <1>2 DEF OnceInRing, Injection, IsInjective
  <1>4. Cardinality(1 .. Len(arrived)) <= Cardinality(Threads)
    BY <1>1, <1>3, FS_Injection
  <1>5. Cardinality(1 .. Len(arrived)) = Len(arrived)
    BY <1>2, FS_Interval
  <1> QED
    BY <1>1, <1>2, <1>4, <1>5

\* Following the ring from the head.
LEMMA VisitIsDefined ==
  ASSUME TypeInv, head \in Threads
  PROVE  Visit = [k \in 1 .. Cardinality(Threads) |->
                    IF k = 1 THEN head ELSE lowerPri[Visit[k - 1]]]
  <1> DEFINE N == Cardinality(Threads)
             IsPath(f, m) == f[1] = head /\ \A k \in 2 .. m : f[k] = lowerPri[f[k - 1]]
             T == {m \in Nat : \E f \in [1 .. m -> Threads] : IsPath(f, m)}
  <1>1. N \in Nat /\ N >= 1
    BY ThreadsAreFinite, FS_CardinalityType, FS_EmptySet
  <1>2. 1 \in T
    <2>1. [k \in 1 .. 1 |-> head] \in [1 .. 1 -> Threads] /\ IsPath([k \in 1 .. 1 |-> head], 1)
      OBVIOUS
    <2> QED
      BY <2>1
  <1>3. ASSUME NEW m \in 1 .. N, m \in T
        PROVE  m + 1 \in T
    <2>1. PICK f \in [1 .. m -> Threads] : IsPath(f, m)
      BY <1>3
    <2> DEFINE g == [k \in 1 .. m + 1 |-> IF k = m + 1 THEN lowerPri[f[m]] ELSE f[k]]
    <2>2. f[m] \in Threads
      BY <1>1
    <2>3. g \in [1 .. m + 1 -> Threads]
      BY <2>2 DEF TypeInv
    <2>4. g[1] = head
      BY <1>1, <2>1
    <2>5. ASSUME NEW k \in 2 .. m + 1
          PROVE  g[k] = lowerPri[g[k - 1]]
      <3>1. k - 1 \in 1 .. m /\ g[k - 1] = f[k - 1]
        BY <1>1
      <3>2. CASE k = m + 1
        BY <3>1, <3>2
      <3>3. CASE k # m + 1
        <4>1. k \in 2 .. m /\ g[k] = f[k]
          BY <1>1, <3>3
        <4> QED
          BY <2>1, <3>1, <4>1
      <3> QED
        BY <3>2, <3>3
    <2> QED
      BY <1>1, <2>3, <2>4, <2>5
  <1>4. N \in T
    <2> HIDE DEF T, N
    <2>1. 1 .. N \subseteq T
      BY <1>1, <1>2, <1>3, UpTo
    <2> QED
      BY <1>1, <2>1
  <1>5. PICK f \in [1 .. N -> Threads] : IsPath(f, N)
    BY <1>4
  <1>6. f = [k \in 1 .. N |-> IF k = 1 THEN head ELSE lowerPri[f[k - 1]]]
    <2>1. ASSUME NEW k \in 1 .. N
          PROVE  f[k] = IF k = 1 THEN head ELSE lowerPri[f[k - 1]]
      <3>1. k = 1 \/ k \in 2 .. N
        BY <1>1
      <3> QED
        BY <1>5, <3>1
    <2> QED
      BY <2>1
  <1> HIDE DEF IsPath, T
  <1> QED
    BY <1>6 DEF Visit

\* wake visits the waiters in the order in which they came.
LEMMA WalkIsArrival ==
  ASSUME TypeInv, RingIsInOrder, OnceInRing
  PROVE  Walk = arrived
  <1> DEFINE n == Len(arrived)
             N == Cardinality(Threads)
  <1>1. /\ head = IF n = 0 THEN NoThread ELSE arrived[1]
        /\ \A k \in 1 .. n : lowerPri[arrived[k]] = arrived[NextPos(k)]
        /\ n \in Nat /\ \A k \in 1 .. n : arrived[k] \in Threads
    BY RingFacts
  <1>2. N \in Nat /\ n <= N
    BY RingIsSmall
  <1>3. CASE n = 0
    BY <1>1, <1>3 DEF Walk, TypeInv
  <1>4. CASE n > 0
    <2>1. 1 \in 1 .. n /\ n \in 1 .. N /\ head = arrived[1] /\ head \in Threads /\ head # NoThread
      BY <1>1, <1>2, <1>4, ThreadsAreFinite
    <2>2. Visit[1] = head /\ \A k \in 2 .. N : Visit[k] = lowerPri[Visit[k - 1]]
      BY <1>2, <2>1, VisitIsDefined
    <2>3. \A k \in 1 .. n : Visit[k] = arrived[k]
      <3> DEFINE T == {k \in 1 .. n : Visit[k] = arrived[k]}
      <3>1. 1 \in T
        BY <2>1, <2>2
      <3>2. ASSUME NEW k \in 1 .. n, k \in T, k < n
            PROVE  k + 1 \in T
        <4>1. k + 1 \in 2 .. N /\ k + 1 \in 1 .. n /\ (k + 1) - 1 = k /\ NextPos(k) = k + 1
          BY <1>1, <1>2, <3>2 DEF NextPos
        <4>2. Visit[k + 1] = lowerPri[Visit[k]]
          BY <2>2, <4>1
        <4> QED
          BY <1>1, <3>2, <4>1, <4>2
      <3> HIDE DEF T, n
      <3>3. 1 .. n \subseteq T
        BY <1>1, <3>1, <3>2, UpTo
      <3> QED
        BY <3>3 DEF T
    <2>4. \A j \in 1 .. n - 1 : lowerPri[Visit[j]] # head
      <3> TAKE j \in 1 .. n - 1
      <3>1. j \in 1 .. n /\ j + 1 \in 1 .. n /\ j + 1 # 1 /\ NextPos(j) = j + 1
        BY <1>1 DEF NextPos
      <3> QED
        BY <1>1, <2>1, <2>3, <3>1 DEF OnceInRing
    <2>5. lowerPri[Visit[n]] = head
      BY <1>1, <1>4, <2>1, <2>3 DEF NextPos
    <2>6. IsLast(n)
      BY <2>4, <2>5 DEF IsLast
    <2>7. ASSUME NEW m \in 1 .. N, IsLast(m)
          PROVE  m = n
      <3>1. CASE m < n
        <4>1. m \in 1 .. n - 1
          BY <1>1, <1>2, <3>1
        <4> QED
          BY <2>4, <2>7, <4>1 DEF IsLast
      <3>2. CASE n < m
        <4>1. n \in 1 .. (m - 1)
          BY <1>1, <1>2, <2>1, <3>2
        <4> QED
          BY <2>5, <2>7, <4>1 DEF IsLast
      <3> QED
        BY <1>1, <1>2, <3>1, <3>2
    <2>8. (CHOOSE m \in 1 .. N : IsLast(m)) = n
      BY <2>1, <2>6, <2>7
    <2>9. Walk = [k \in 1 .. n |-> Visit[k]]
      BY <2>1, <2>8 DEF Walk
    <2> QED
      BY <2>3, <2>9 DEF TypeInv
  <1> QED
    BY <1>1, <1>3, <1>4

-----------------------------------------------------------------------------
(* Whom a wake chooses.                                                      *)

Eligible(o) == {k \in 1 .. Len(arrived) : WaitsAt(arrived[k]) = o /\ IsWaiting(arrived[k])}

\* The chosen waiters, by their place in the order of arrival.
LEMMA ChosenAre ==
  ASSUME TypeInv, RingIsInOrder, OnceInRing, NEW o, NEW n
  PROVE  Chosen(o, n) = {arrived[k] : k \in {j \in Eligible(o) :
                                               Cardinality(Eligible(o) \cap 1 .. j) <= n}}
  <1>1. Visited(Walk) = arrived
    BY WalkIsArrival DEF Visited
  <1>2. DOMAIN arrived = 1 .. Len(arrived)
    BY DEF TypeInv
  <1> QED
    BY <1>1, <1>2 DEF Chosen, Eligible

\* A waiter is chosen only if it waits at the cell, and never before one that
\* came earlier; a wake of all chooses every waiter of the cell.
LEMMA ChosenFirst ==
  ASSUME TypeInv, RingIsInOrder, OnceInRing, SleepersAreWaiting, NEW o, NEW n \in Nat
  PROVE  /\ \A t \in Chosen(o, n) : t \in Threads /\ WaitsAt(t) = o /\ IsWaiting(t)
         /\ \A j, k \in 1 .. Len(arrived) :
              j < k /\ arrived[k] \in Chosen(o, n) /\ j \in Eligible(o) => arrived[j] \in Chosen(o, n)
         /\ n = Cardinality(Threads) =>
              \A t \in Threads : WaitsAt(t) = o /\ IsWaiting(t) => t \in Chosen(o, n)
  <1>1. Chosen(o, n) = {arrived[k] : k \in {j \in Eligible(o) :
                                              Cardinality(Eligible(o) \cap 1 .. j) <= n}}
    BY ChosenAre
  <1>2. Len(arrived) \in Nat /\ \A k \in 1 .. Len(arrived) : arrived[k] \in Threads
    BY RingFacts
  <1>3. ASSUME NEW j \in 1 .. Len(arrived)
        PROVE  /\ IsFiniteSet(Eligible(o) \cap 1 .. j)
               /\ Cardinality(Eligible(o) \cap 1 .. j) \in Nat
               /\ Cardinality(Eligible(o) \cap 1 .. j) <= j
    <2>1. IsFiniteSet(1 .. j) /\ Cardinality(1 .. j) = j
      BY <1>2, FS_Interval
    <2>2. Eligible(o) \cap 1 .. j \in SUBSET (1 .. j)
      OBVIOUS
    <2> QED
      BY <2>1, <2>2, FS_Subset, FS_CardinalityType
  <1>4. \A t \in Chosen(o, n) : t \in Threads /\ WaitsAt(t) = o /\ IsWaiting(t)
    BY <1>1, <1>2 DEF Eligible
  <1>5. ASSUME NEW j \in 1 .. Len(arrived), NEW k \in 1 .. Len(arrived),
               j < k, arrived[k] \in Chosen(o, n), j \in Eligible(o)
        PROVE  arrived[j] \in Chosen(o, n)
    <2>1. k \in Eligible(o) /\ Cardinality(Eligible(o) \cap 1 .. k) <= n
      BY <1>1, <1>5 DEF OnceInRing, Eligible
    <2>2. Eligible(o) \cap 1 .. j \in SUBSET (Eligible(o) \cap 1 .. k)
      BY <1>2, <1>5
    <2>3. Cardinality(Eligible(o) \cap 1 .. j) <= Cardinality(Eligible(o) \cap 1 .. k)
      BY <1>3, <2>2, FS_Subset
    <2>4. Cardinality(Eligible(o) \cap 1 .. j) <= n
      BY <1>3, <2>1, <2>3
    <2> QED
      BY <1>1, <1>5, <2>4
  <1>6. ASSUME n = Cardinality(Threads), NEW t \in Threads, WaitsAt(t) = o, IsWaiting(t)
        PROVE  t \in Chosen(o, n)
    <2>1. InWait(t)
      BY <1>6 DEF SleepersAreWaiting, IsWaiting
    <2>2. PICK k \in 1 .. Len(arrived) : t = arrived[k]
      BY <2>1, RingFacts
    <2>3. k \in Eligible(o)
      BY <1>6, <2>2 DEF Eligible
    <2>4. Cardinality(Eligible(o) \cap 1 .. k) <= n
      BY <1>2, <1>3, <1>6, RingIsSmall
    <2> QED
      BY <1>1, <2>2, <2>3, <2>4
  <1> QED
    BY <1>4, <1>5, <1>6

-----------------------------------------------------------------------------
(* The steps.                                                                *)

\* The invariant holds at the start: nobody waits.
LEMMA InitFInv == FutexInit => FInv
  <1> SUFFICES ASSUME FutexInit
               PROVE  FInv
    OBVIOUS
  <1>1. TypeInv
    BY DEF FutexInit, TypeInv, FutexStates
  <1>2. arrived = <<>> /\ Len(arrived) = 0 /\ head = NoThread /\ \A t \in Threads : ~InWait(t) /\ fx[t] = "Idle"
    BY DEF FutexInit, InWait
  <1>3. RingIsInOrder /\ OnceInRing
    BY <1>2 DEF RingIsInOrder, OnceInRing
  <1>4. SleepersAreWaiting /\ WakeInv
    BY <1>2 DEF SleepersAreWaiting, WakeInv, IsWaiting, FutexInit
  <1> QED
    BY <1>1, <1>3, <1>4 DEF FInv

\* A thread begins to wait while its cell has the value it expects.
LEMMA BeginWaitFInv ==
  ASSUME FInv, NEW t \in Threads, NEW o \in Offsets, NEW v \in {0, 1}, NEW timed \in BOOLEAN,
         BeginWait(t, o, v, timed)
  PROVE  FInv'
  <1> USE DEF FInv
  <1> DEFINE w == <<[offset |-> o, value |-> v, timed |-> timed]>>
  <1>1. /\ ~InWait(t) /\ mem[o] = v /\ Link(t)
        /\ waiter' = [waiter EXCEPT ![t] = w] /\ arrived' = Append(arrived, t)
        /\ fx' = [fx EXCEPT ![t] = "Waiting"] /\ cond' = [cond EXCEPT ![t] = "asleep"]
        /\ UNCHANGED <<mem, toWake>>
    BY DEF BeginWait, HasValue
  <1>2. w \in Waits /\ w # <<>> /\ w[1].offset = o /\ w[1].value = v
    BY DEF Waits
  <1> HIDE DEF w
  <1>3. /\ head' \in Threads \cup {NoThread}
        /\ lowerPri' \in [Threads -> Threads] /\ back' \in [Threads -> Threads]
        /\ arrived' \in Seq(Threads) /\ RingIsInOrder' /\ OnceInRing'
    BY <1>1, <1>2, LinkKeepsRing
  <1>4. TypeInv'
    BY <1>1, <1>2, <1>3 DEF TypeInv, FutexStates
  <1>5. /\ waiter'[t] = w /\ fx'[t] = "Waiting" /\ cond'[t] = "asleep"
        /\ \A u \in Threads \ {t} : waiter'[u] = waiter[u] /\ fx'[u] = fx[u] /\ cond'[u] = cond[u]
    BY <1>1 DEF TypeInv
  <1>6. SleepersAreWaiting'
    BY <1>2, <1>5 DEF SleepersAreWaiting, InWait
  <1>7. WakeInv'
    BY <1>1, <1>2, <1>5 DEF WakeInv, WaitsAt, IsWaiting
  <1> QED
    BY <1>3, <1>4, <1>6, <1>7

\* A wait is over: by a timeout, a wake, or an interrupt that stops the script.
LEMMA FinishFInv ==
  ASSUME FInv, NEW t \in Threads, Finish(t)
  PROVE  FInv'
  <1> USE DEF FInv
  <1>1. /\ fx' = [fx EXCEPT ![t] = "Idle"] /\ cond' = [cond EXCEPT ![t] = "awake"]
        /\ Unlink(t) /\ waiter' = [waiter EXCEPT ![t] = <<>>] /\ Depart(t)
        /\ UNCHANGED <<mem, toWake>>
    BY DEF Finish
  <1>2. /\ head' \in Threads \cup {NoThread}
        /\ lowerPri' \in [Threads -> Threads] /\ back' \in [Threads -> Threads]
        /\ arrived' \in Seq(Threads) /\ RingIsInOrder' /\ OnceInRing'
    BY <1>1, UnlinkKeepsRing
  <1>3. TypeInv'
    BY <1>1, <1>2 DEF TypeInv, FutexStates
  <1>4. /\ waiter'[t] = <<>> /\ fx'[t] = "Idle" /\ cond'[t] = "awake"
        /\ \A u \in Threads \ {t} : waiter'[u] = waiter[u] /\ fx'[u] = fx[u] /\ cond'[u] = cond[u]
    BY <1>1 DEF TypeInv
  <1>5. SleepersAreWaiting'
    BY <1>4 DEF SleepersAreWaiting, InWait
  <1>6. WakeInv'
    BY <1>1, <1>4 DEF WakeInv, WaitsAt, IsWaiting
  <1> QED
    BY <1>2, <1>3, <1>5, <1>6

\* A step that moves no thread into or out of the ring leaves it as it is.
LEMMA RingStays ==
  ASSUME FInv, UNCHANGED <<waiter, ring, arrived>>
  PROVE  RingIsInOrder' /\ OnceInRing'
  <1>1. UNCHANGED <<waiter, head, lowerPri, back, arrived>>
    BY DEF ring
  <1> QED
    BY <1>1 DEF FInv, RingIsInOrder, OnceInRing, InWait

\* A step that changes only the state and the condition variable of one waiter.
LEMMA OneWaiterFInv ==
  ASSUME FInv, NEW t \in Threads, NEW s \in FutexStates, NEW c \in {"awake", "asleep", "notified"},
         fx' = [fx EXCEPT ![t] = s], cond' = [cond EXCEPT ![t] = c],
         UNCHANGED <<mem, waiter, ring, toWake, arrived>>,
         InWait(t) <=> s # "Idle",
         c = "asleep" => s = "Waiting",
         c = "notified" => s \in {"Woken", "WaitingNotifiedForInterrupt"},
         s \in {"Waiting", "WaitingInterrupted", "WaitingNotifiedForInterrupt"} => IsWaiting(t)
  PROVE  FInv'
  <1>1. RingIsInOrder' /\ OnceInRing'
    BY RingStays
  <1>2. UNCHANGED <<mem, waiter, head, lowerPri, back, toWake, arrived>>
    BY DEF ring
  <1>3. TypeInv'
    BY <1>2 DEF FInv, TypeInv
  <1>4. /\ fx'[t] = s /\ cond'[t] = c
        /\ \A u \in Threads \ {t} : fx'[u] = fx[u] /\ cond'[u] = cond[u]
    BY DEF FInv, TypeInv
  <1>5. SleepersAreWaiting'
    BY <1>2, <1>4 DEF FInv, SleepersAreWaiting, InWait
  <1>6. WakeInv'
    BY <1>2, <1>4 DEF FInv, WakeInv, WaitsAt, IsWaiting
  <1> QED
    BY <1>1, <1>3, <1>5, <1>6 DEF FInv

\* The interrupt handler starts.
LEMMA BeginHandlerFInv ==
  ASSUME FInv, NEW t \in Threads, BeginHandler(t)
  PROVE  FInv'
  <1>1. /\ fx[t] = "WaitingNotifiedForInterrupt"
        /\ fx' = [fx EXCEPT ![t] = "WaitingInterrupted"] /\ cond' = [cond EXCEPT ![t] = "awake"]
        /\ UNCHANGED <<mem, waiter, ring, toWake, arrived>>
    BY DEF BeginHandler
  <1>2. InWait(t) /\ IsWaiting(t) /\ "WaitingInterrupted" \in FutexStates
    BY <1>1 DEF FInv, SleepersAreWaiting, IsWaiting, FutexStates
  <1> QED
    BY <1>1, <1>2, OneWaiterFInv

\* The interrupt handler is done: the wait is over, or the thread sleeps again.
\* It was notified a second time or woken while the handler ran, or not.
LEMMA EndHandlerFInv ==
  ASSUME FInv, NEW t \in Threads, NEW goesOn \in BOOLEAN, EndHandler(t, goesOn)
  PROVE  FInv'
  <1>1. CASE Finish(t)
    BY <1>1, FinishFInv
  <1>2. CASE ~Finish(t)
    <2>1. /\ InWait(t) /\ fx[t] # "Woken"
          /\ fx' = [fx EXCEPT ![t] = "Waiting"] /\ cond' = [cond EXCEPT ![t] = "asleep"]
          /\ UNCHANGED <<mem, waiter, ring, toWake, arrived>>
      BY <1>2 DEF EndHandler, WokenMeanwhile
    <2>2. IsWaiting(t) /\ "Waiting" \in FutexStates
      BY <2>1 DEF FInv, SleepersAreWaiting, IsWaiting, FutexStates, TypeInv
    <2> QED
      BY <2>1, <2>2, OneWaiterFInv
  <1> QED
    BY <1>1, <1>2

\* Whoever changes a cell is bound to wake those who wait at it.
LEMMA StoreFInv ==
  ASSUME FInv, NEW t \in Threads, NEW o \in Offsets, Store(t, o)
  PROVE  FInv'
  <1>1. /\ mem' = [mem EXCEPT ![o] = 1 - @] /\ toWake' = [toWake EXCEPT ![t] = @ \cup {o}]
        /\ UNCHANGED <<fx, cond, waiter, ring, arrived>>
    BY DEF Store
  <1>2. UNCHANGED <<fx, cond, waiter, head, lowerPri, back, arrived>>
    BY <1>1 DEF ring
  <1>3. RingIsInOrder' /\ OnceInRing'
    BY <1>1, RingStays
  <1>4. 1 - mem[o] \in {0, 1}
    BY DEF FInv, TypeInv
  <1>5. TypeInv'
    BY <1>1, <1>2, <1>4 DEF FInv, TypeInv
  <1>6. SleepersAreWaiting'
    BY <1>2 DEF FInv, SleepersAreWaiting, InWait
  <1>7. WakeInv'
    <2>1. /\ \A p \in Offsets \ {o} : mem'[p] = mem[p]
          /\ o \in toWake'[t] /\ \A u \in Threads : toWake[u] \subseteq toWake'[u]
      BY <1>1 DEF FInv, TypeInv
    <2>2. ASSUME NEW u \in Threads, IsWaiting(u)'
          PROVE  \/ mem'[WaitsAt(u)'] = waiter'[u][1].value
                 \/ \E x \in Threads : WaitsAt(u)' \in toWake'[x]
      <3>1. IsWaiting(u) /\ WaitsAt(u)' = WaitsAt(u) /\ waiter'[u] = waiter[u]
        BY <1>2, <2>2 DEF IsWaiting, WaitsAt
      <3>2. InWait(u)
        BY <3>1 DEF FInv, SleepersAreWaiting, IsWaiting
      <3>3. waiter[u] \in Waits
        BY <3>2 DEF FInv, TypeInv, InWait
      <3>4. WaitsAt(u) \in Offsets
        BY <3>3 DEF WaitsAt, Waits
      <3>5. \/ mem[WaitsAt(u)] = waiter[u][1].value
            \/ \E x \in Threads : WaitsAt(u) \in toWake[x]
        BY <3>1 DEF FInv, WakeInv
      <3> QED
        BY <2>1, <3>1, <3>4, <3>5
    <2> QED
      BY <2>2 DEF WakeInv
  <1> QED
    BY <1>3, <1>5, <1>6, <1>7 DEF FInv

\* A wake takes its share of the waiters and leaves the others as they are.
LEMMA WakeAllKeeps ==
  ASSUME FInv, NEW S \in SUBSET Threads, \A t \in S : IsWaiting(t), WakeAll(S),
         UNCHANGED <<waiter, ring, arrived>>
  PROVE  /\ RingIsInOrder' /\ OnceInRing' /\ SleepersAreWaiting'
         /\ fx' \in [Threads -> FutexStates]
         /\ cond' \in [Threads -> {"awake", "asleep", "notified"}]
         /\ \A t \in Threads : IsWaiting(t)' => IsWaiting(t) /\ t \notin S
  <1>1. RingIsInOrder' /\ OnceInRing'
    BY RingStays
  <1>2. /\ \A t \in Threads : fx'[t] = IF t \in S THEN "Woken" ELSE fx[t]
        /\ \A t \in Threads :
             cond'[t] = IF t \in S /\ fx[t] = "Waiting" THEN "notified" ELSE cond[t]
    BY DEF WakeAll
  <1>3. fx' \in [Threads -> FutexStates] /\ cond' \in [Threads -> {"awake", "asleep", "notified"}]
    BY DEF WakeAll, FInv, TypeInv, FutexStates
  <1>4. SleepersAreWaiting'
    BY <1>2 DEF FInv, SleepersAreWaiting, InWait, IsWaiting
  <1>5. \A t \in Threads : IsWaiting(t)' => IsWaiting(t) /\ t \notin S
    BY <1>2 DEF IsWaiting
  <1> QED
    BY <1>1, <1>3, <1>4, <1>5

\* Every waiter of the cell is woken by the thread that has changed it.
LEMMA WakeFInv ==
  ASSUME FInv, NEW t \in Threads, NEW o \in Offsets, Wake(t, o, Cardinality(Threads))
  PROVE  FInv'
  <1> DEFINE S == Chosen(o, Cardinality(Threads))
  <1>1. /\ WakeAll(S) /\ toWake' = [toWake EXCEPT ![t] = @ \ {o}]
        /\ UNCHANGED <<mem, waiter, ring, arrived>>
    BY DEF Wake
  <1>2. Cardinality(Threads) \in Nat
    BY ThreadsAreFinite, FS_CardinalityType
  <1>3. /\ \A u \in S : u \in Threads /\ IsWaiting(u)
        /\ \A u \in Threads : WaitsAt(u) = o /\ IsWaiting(u) => u \in S
    BY <1>2, ChosenFirst DEF FInv
  <1> HIDE DEF S
  <1>4. /\ RingIsInOrder' /\ OnceInRing' /\ SleepersAreWaiting'
        /\ fx' \in [Threads -> FutexStates]
        /\ cond' \in [Threads -> {"awake", "asleep", "notified"}]
        /\ \A u \in Threads : IsWaiting(u)' => IsWaiting(u) /\ u \notin S
    BY <1>1, <1>3, WakeAllKeeps
  <1>5. UNCHANGED <<mem, waiter, head, lowerPri, back, arrived>>
    BY <1>1 DEF ring
  <1>6. TypeInv'
    BY <1>1, <1>4, <1>5 DEF FInv, TypeInv
  <1>7. WakeInv'
    <2>1. \A u \in Threads : \A p \in toWake[u] : p # o => p \in toWake'[u]
      BY <1>1 DEF FInv, TypeInv
    <2>2. \A u \in Threads : IsWaiting(u)' => IsWaiting(u) /\ WaitsAt(u) # o
      BY <1>3, <1>4
    <2>3. \A u \in Threads : WaitsAt(u)' = WaitsAt(u)
      BY <1>5 DEF WaitsAt
    <2> QED
      BY <1>5, <2>1, <2>2, <2>3 DEF FInv, WakeInv
  <1> QED
    BY <1>4, <1>6, <1>7 DEF FInv

\* A wake of one waiter, which need not follow a store.
LEMMA WakeOneFInv ==
  ASSUME FInv, NEW t \in Threads, NEW o \in Offsets, WakeOne(t, o)
  PROVE  FInv'
  <1> DEFINE S == Chosen(o, 1)
  <1>1. WakeAll(S) /\ UNCHANGED <<mem, waiter, ring, toWake, arrived>>
    BY DEF WakeOne
  <1>2. \A u \in S : u \in Threads /\ IsWaiting(u)
    BY ChosenFirst DEF FInv
  <1> HIDE DEF S
  <1>3. /\ RingIsInOrder' /\ OnceInRing' /\ SleepersAreWaiting'
        /\ fx' \in [Threads -> FutexStates]
        /\ cond' \in [Threads -> {"awake", "asleep", "notified"}]
        /\ \A u \in Threads : IsWaiting(u)' => IsWaiting(u)
    BY <1>1, <1>2, WakeAllKeeps
  <1>4. UNCHANGED <<mem, waiter, head, lowerPri, back, toWake, arrived>>
    BY <1>1 DEF ring
  <1>5. TypeInv'
    BY <1>3, <1>4 DEF FInv, TypeInv
  <1>6. WakeInv'
    BY <1>3, <1>4 DEF FInv, WakeInv, WaitsAt
  <1> QED
    BY <1>3, <1>5, <1>6 DEF FInv

\* A wake for an interrupt.
LEMMA WakeForInterruptFInv ==
  ASSUME FInv, NEW t \in Threads, WakeForInterrupt(t)
  PROVE  FInv'
  <1>0. UNCHANGED <<mem, waiter, ring, toWake, arrived>>
    BY DEF WakeForInterrupt
  <1>1. CASE Interruptible(t)
    <2> DEFINE c == IF cond[t] = "asleep" THEN "notified" ELSE cond[t]
    <2>1. /\ fx' = [fx EXCEPT ![t] = "WaitingNotifiedForInterrupt"]
          /\ cond' = [cond EXCEPT ![t] = c]
      BY <1>1 DEF WakeForInterrupt
    <2>2. InWait(t) /\ IsWaiting(t) /\ "WaitingNotifiedForInterrupt" \in FutexStates
      BY <1>1 DEF Interruptible, FInv, SleepersAreWaiting, IsWaiting, FutexStates
    <2>3. c \in {"awake", "asleep", "notified"} /\ c # "asleep"
      BY DEF FInv, TypeInv
    <2> HIDE DEF c
    <2> QED
      BY <1>0, <2>1, <2>2, <2>3, OneWaiterFInv
  <1>2. CASE ~Interruptible(t)
    <2>1. UNCHANGED <<mem, fx, cond, waiter, head, lowerPri, back, toWake, arrived>>
      BY <1>0, <1>2 DEF WakeForInterrupt, ring
    <2> QED
      BY <2>1 DEF FInv, TypeInv, SleepersAreWaiting, RingIsInOrder, OnceInRing, WakeInv, InWait,
                  WaitsAt, IsWaiting
  <1> QED
    BY <1>1, <1>2

\* The invariant says nothing of the interrupt flags and the bounds.
LEMMA OthersFInv ==
  ASSUME FInv, UNCHANGED <<mem, fx, cond, waiter, ring, toWake, arrived>>
  PROVE  FInv'
  <1>1. UNCHANGED <<mem, fx, cond, waiter, head, lowerPri, back, toWake, arrived>>
    BY DEF ring
  <1> QED
    BY <1>1 DEF FInv, TypeInv, SleepersAreWaiting, RingIsInOrder, OnceInRing, WakeInv, InWait,
                WaitsAt, IsWaiting

\* Every step keeps the invariant.
LEMMA StepFInv == FInv /\ [FutexNext]_futexVars => FInv'
  <1> SUFFICES ASSUME FInv, [FutexNext]_futexVars
               PROVE  FInv'
    OBVIOUS
  <1>1. CASE UNCHANGED futexVars
    BY <1>1, OthersFInv DEF futexVars
  <1>2. ASSUME NEW t \in Threads, Proceeds(t)
        PROVE  FInv'
    <2>1. CASE TimesOut(t) \/ ReturnsOK(t)
      BY <2>1, FinishFInv DEF TimesOut, ReturnsOK
    <2>2. CASE BeginHandler(t)
      BY <2>2, BeginHandlerFInv
    <2>3. CASE HandleInterrupt(t)
      BY <2>3, OthersFInv DEF HandleInterrupt
    <2>4. CASE \E goesOn \in BOOLEAN : EndHandler(t, goesOn)
      BY <2>4, EndHandlerFInv
    <2>5. CASE \E o \in Offsets : Wake(t, o, Cardinality(Threads))
      BY <2>5, WakeFInv
    <2> QED
      BY <1>2, <2>1, <2>2, <2>3, <2>4, <2>5 DEF Proceeds
  <1>3. ASSUME NEW t \in Threads, Request(t)
        PROVE  FInv'
    BY <1>3, OthersFInv DEF Request
  <1>4. ASSUME NEW t \in Threads, WakeForInterrupt(t)
        PROVE  FInv'
    BY <1>4, WakeForInterruptFInv
  <1>5. ASSUME NEW t \in Threads, NEW o \in Offsets, Store(t, o) \/ WakeOne(t, o)
        PROVE  FInv'
    BY <1>5, StoreFInv, WakeOneFInv
  <1>6. ASSUME NEW t \in Threads, NEW o \in Offsets, NEW v \in {0, 1}, NEW timed \in BOOLEAN,
               BeginWait(t, o, v, timed)
        PROVE  FInv'
    BY <1>6, BeginWaitFInv
  <1> QED
    BY <1>1, <1>2, <1>3, <1>4, <1>5, <1>6 DEF FutexNext

\* The invariant holds in every state.
LEMMA FInvAlways == FutexSpec => []FInv
  BY InitFInv, StepFInv, PTL DEF FutexSpec

-----------------------------------------------------------------------------
(* What follows.                                                             *)

\* A thread that sleeps is in state Waiting, and one that does not sleep has
\* something left to do, whoever notified it and of what.
THEOREM SleepersAlwaysWait == FutexSpec => []SleepersAreWaiting
  <1>1. FInv => SleepersAreWaiting
    BY DEF FInv
  <1> QED
    BY <1>1, FInvAlways, PTL

\* No wake is lost: whoever sleeps at a cell that has changed is about to be
\* woken by a thread that has changed it.
THEOREM NoWakeIsEverLost == FutexSpec => []NoLostWake
  <1>1. FInv => NoLostWake
    BY DEF FInv, WakeInv, SleepersAreWaiting, IsWaiting, NoLostWake
  <1> QED
    BY <1>1, FInvAlways, PTL

\* The ring holds the waiters in the order in which they came, whatever the
\* order in which they leave.
THEOREM RingIsAlwaysInOrder == FutexSpec => []RingIsInOrder
  <1>1. FInv => RingIsInOrder
    BY DEF FInv
  <1> QED
    BY <1>1, FInvAlways, PTL

\* How a step changes the states: a wake, or one thread that is not woken.
WakesOrNot ==
  \/ \E o, n : n \in Nat /\ WakeAll(Chosen(o, n))
  \/ UNCHANGED fx
  \/ \E t \in Threads, s \in FutexStates \ {"Woken"} : fx' = [fx EXCEPT ![t] = s]

\* A step that wakes a waiter wakes those that came to the cell before it.
LEMMA StepWakesInOrder ==
  ASSUME FInv, FutexNext
  PROVE  \A j, k \in 1 .. Len(arrived) :
           (j < k /\ WaitsAt(arrived[j]) = WaitsAt(arrived[k]) /\ IsWaiting(arrived[j])
              /\ fx[arrived[k]] # "Woken" /\ fx'[arrived[k]] = "Woken") => fx'[arrived[j]] = "Woken"
  <1>0. /\ Len(arrived) \in Nat /\ \A k \in 1 .. Len(arrived) : arrived[k] \in Threads
        /\ fx \in [Threads -> FutexStates]
    BY RingFacts DEF FInv, TypeInv
  <1>1. ASSUME NEW o, NEW n \in Nat, WakeAll(Chosen(o, n))
        PROVE  \A j, k \in 1 .. Len(arrived) :
                 (j < k /\ WaitsAt(arrived[j]) = WaitsAt(arrived[k]) /\ IsWaiting(arrived[j])
                    /\ fx[arrived[k]] # "Woken" /\ fx'[arrived[k]] = "Woken")
                 => fx'[arrived[j]] = "Woken"
    <2> TAKE j, k \in 1 .. Len(arrived)
    <2> HAVE /\ j < k /\ WaitsAt(arrived[j]) = WaitsAt(arrived[k]) /\ IsWaiting(arrived[j])
             /\ fx[arrived[k]] # "Woken" /\ fx'[arrived[k]] = "Woken"
    <2>1. \A t \in Threads : fx'[t] = IF t \in Chosen(o, n) THEN "Woken" ELSE fx[t]
      BY <1>1 DEF WakeAll
    <2>2. arrived[k] \in Chosen(o, n)
      BY <1>0, <2>1
    <2>3. WaitsAt(arrived[k]) = o
      BY <2>2, ChosenFirst DEF FInv
    <2>4. j \in Eligible(o)
      BY <2>3 DEF Eligible
    <2>5. arrived[j] \in Chosen(o, n)
      BY <2>2, <2>4, ChosenFirst DEF FInv
    <2> QED
      BY <1>0, <2>1, <2>5
  <1>2. WakesOrNot
    <2>0. /\ {"Idle", "Waiting", "WaitingInterrupted", "WaitingNotifiedForInterrupt"}
               \subseteq FutexStates \ {"Woken"}
          /\ Cardinality(Threads) \in Nat /\ 1 \in Nat
      BY ThreadsAreFinite, FS_CardinalityType DEF FutexStates
    <2>1. ASSUME NEW t \in Threads, Proceeds(t)
          PROVE  WakesOrNot
      <3>1. ASSUME Finish(t)
            PROVE  \E s \in FutexStates \ {"Woken"} : fx' = [fx EXCEPT ![t] = s]
        BY <2>0, <3>1 DEF Finish
      <3>2. CASE TimesOut(t) \/ ReturnsOK(t)
        BY <3>1, <3>2 DEF TimesOut, ReturnsOK, WakesOrNot
      <3>3. CASE BeginHandler(t) \/ HandleInterrupt(t)
        BY <2>0, <3>3 DEF BeginHandler, HandleInterrupt, WakesOrNot
      <3>4. CASE \E goesOn \in BOOLEAN : EndHandler(t, goesOn)
        BY <2>0, <3>1, <3>4 DEF EndHandler, WakesOrNot
      <3>5. CASE \E o \in Offsets : Wake(t, o, Cardinality(Threads))
        BY <2>0, <3>5 DEF Wake, WakesOrNot
      <3> QED
        BY <2>1, <3>2, <3>3, <3>4, <3>5 DEF Proceeds
    <2>2. ASSUME NEW t \in Threads, Request(t) \/ WakeForInterrupt(t)
          PROVE  WakesOrNot
      BY <2>0, <2>2 DEF Request, WakeForInterrupt, WakesOrNot
    <2>3. ASSUME NEW t \in Threads, NEW o \in Offsets, Store(t, o) \/ WakeOne(t, o)
          PROVE  WakesOrNot
      BY <2>0, <2>3 DEF Store, WakeOne, WakesOrNot
    <2>4. ASSUME NEW t \in Threads, NEW o \in Offsets, NEW v \in {0, 1}, NEW timed \in BOOLEAN,
                 BeginWait(t, o, v, timed)
          PROVE  WakesOrNot
      BY <2>0, <2>4 DEF BeginWait, WakesOrNot
    <2> QED
      BY <2>1, <2>2, <2>3, <2>4 DEF FutexNext
  <1>3. CASE UNCHANGED fx
    BY <1>3
  <1>4. CASE \E t \in Threads, s \in FutexStates \ {"Woken"} : fx' = [fx EXCEPT ![t] = s]
    BY <1>0, <1>4
  <1> QED
    BY <1>1, <1>2, <1>3, <1>4 DEF WakesOrNot

\* Who waits longer at a cell is woken first, in every behaviour.
THEOREM WokenAlwaysInOrder == FutexSpec => WokenInOrder
  <1>1. ASSUME FInv, [FutexNext]_futexVars
        PROVE  [\A j, k \in 1 .. Len(arrived) :
                  LET t == arrived[j]
                      u == arrived[k]
                  IN (j < k /\ WaitsAt(t) = WaitsAt(u) /\ IsWaiting(t)
                        /\ fx[u] # "Woken" /\ fx'[u] = "Woken") => fx'[t] = "Woken"]_futexVars
    BY <1>1, StepWakesInOrder
  <1> QED
    BY <1>1, FInvAlways, PTL DEF FutexSpec, WokenInOrder
=============================================================================
