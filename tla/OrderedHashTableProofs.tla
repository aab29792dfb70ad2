----------------------- MODULE OrderedHashTableProofs -----------------------
(***************************************************************************)
(* Theorems about OrderedHashTable: the counts are exact, keys are found,   *)
(* and the table with its ranges is an ordered set with iterators, whatever *)
(* the keys, the iterators, the hashes and the first number of buckets.     *)
(***************************************************************************)
EXTENDS OrderedHashTable, InductionLemmas

-----------------------------------------------------------------------------
(* Lists: what occurs in them, and once.                                     *)

Occurs(e, s) == \E i \in 1 .. Len(s) : s[i] = e
\* nothing but x is there twice
Once(s, x) == \A i, j \in 1 .. Len(s) : s[i] = s[j] /\ s[i] # x => i = j
Swap(s, k, new) == [j \in DOMAIN s |-> IF s[j] = k THEN new ELSE s[j]]

\* What one more element at the end changes.
LEMMA OneMore ==
  ASSUME NEW T, NEW s \in Seq(T), NEW a \in T
  PROVE  /\ Append(s, a) \in Seq(T) /\ Len(Append(s, a)) = Len(s) + 1 /\ Len(s) \in Nat
         /\ \A i \in 1 .. Len(s) : Append(s, a)[i] = s[i]
         /\ Append(s, a)[Len(s) + 1] = a
  OBVIOUS

\* An element occurs in a longer list if it does before, or is the new one.
LEMMA OccursSteps ==
  ASSUME NEW T, NEW s \in Seq(T), NEW a \in T, NEW e
  PROVE  ~Occurs(e, <<>>) /\ (Occurs(e, Append(s, a)) <=> Occurs(e, s) \/ e = a)
  <1>1. ~Occurs(e, <<>>)
    BY DEF Occurs
  <1> DEFINE u == Append(s, a)
  <1>2. /\ Len(u) = Len(s) + 1 /\ Len(s) \in Nat
        /\ \A i \in 1 .. Len(s) : u[i] = s[i]
        /\ u[Len(s) + 1] = a
    BY OneMore
  <1> HIDE DEF u
  <1>3. ASSUME Occurs(e, u)
        PROVE  Occurs(e, s) \/ e = a
    <2>1. PICK i \in 1 .. Len(s) + 1 : u[i] = e
      BY <1>2, <1>3 DEF Occurs
    <2>2. CASE i = Len(s) + 1
      BY <1>2, <2>1, <2>2
    <2>3. CASE i # Len(s) + 1
      BY <1>2, <2>1, <2>3 DEF Occurs
    <2> QED
      BY <2>2, <2>3
  <1>4. ASSUME Occurs(e, s)
        PROVE  Occurs(e, u)
    <2>1. PICK i \in 1 .. Len(s) : s[i] = e
      BY <1>4 DEF Occurs
    <2>2. i \in 1 .. Len(u) /\ u[i] = e
      BY <1>2, <2>1
    <2> QED
      BY <2>2 DEF Occurs
  <1>5. ASSUME e = a
        PROVE  Occurs(e, u)
    <2>1. Len(s) + 1 \in 1 .. Len(u) /\ u[Len(s) + 1] = e
      BY <1>2, <1>5
    <2> QED
      BY <2>1 DEF Occurs
  <1> QED
    BY <1>1, <1>3, <1>4, <1>5 DEF u

\* A longer list has nothing twice if the list had not and the new element
\* does not occur in it.
LEMMA OnceSteps ==
  ASSUME NEW T, NEW s \in Seq(T), NEW a \in T, NEW x
  PROVE  /\ Once(<<>>, x)
         /\ Once(Append(s, a), x) => Once(s, x) /\ (a # x => ~Occurs(a, s))
         /\ Once(s, x) /\ (a # x => ~Occurs(a, s)) => Once(Append(s, a), x)
  <1>1. Once(<<>>, x)
    BY DEF Once
  <1> DEFINE u == Append(s, a)
             m == Len(s)
  <1>2. /\ Len(u) = m + 1 /\ m \in Nat
        /\ \A i \in 1 .. m : u[i] = s[i]
        /\ u[m + 1] = a
    BY OneMore
  <1> HIDE DEF u, m
  <1>3. ASSUME Once(u, x)
        PROVE  Once(s, x) /\ (a # x => ~Occurs(a, s))
    <2>1. \A i \in 1 .. m : i \in 1 .. m + 1 /\ i # m + 1
      BY <1>2
    <2>2. m + 1 \in 1 .. m + 1
      BY <1>2
    <2>3. \A i, j \in 1 .. m + 1 : u[i] = u[j] /\ u[i] # x => i = j
      BY <1>2, <1>3 DEF Once
    <2>4. Once(s, x)
      BY <1>2, <2>1, <2>3 DEF Once, m
    <2>5. ASSUME a # x, Occurs(a, s) PROVE FALSE
      <3>1. PICK i \in 1 .. m : s[i] = a
        BY <2>5 DEF Occurs, m
      <3> QED
        BY <1>2, <2>1, <2>2, <2>3, <2>5, <3>1
    <2> QED
      BY <2>4, <2>5
  <1>4. ASSUME Once(s, x), a # x => ~Occurs(a, s)
        PROVE  Once(u, x)
    <2> SUFFICES ASSUME NEW i \in 1 .. m + 1, NEW j \in 1 .. m + 1, u[i] = u[j], u[i] # x
                 PROVE  i = j
      BY <1>2 DEF Once
    <2>1. CASE i \in 1 .. m /\ j \in 1 .. m
      BY <1>2, <1>4, <2>1 DEF Once, m
    <2>2. CASE i = m + 1 /\ j \in 1 .. m
      BY <1>2, <1>4, <2>2 DEF Occurs, m
    <2>3. CASE j = m + 1 /\ i \in 1 .. m
      BY <1>2, <1>4, <2>3 DEF Occurs, m
    <2>4. CASE i = m + 1 /\ j = m + 1
      BY <2>4
    <2>5. \A n \in 1 .. m + 1 : n = m + 1 \/ n \in 1 .. m
      BY <1>2
    <2> QED
      BY <2>1, <2>2, <2>3, <2>4, <2>5
  <1> QED
    BY <1>1, <1>3, <1>4 DEF u

\* Putting new for k goes element by element.
LEMMA SwapSteps ==
  ASSUME NEW T, NEW s \in Seq(T), NEW a \in T, NEW k, NEW new \in T
  PROVE  /\ Swap(<<>>, k, new) = <<>>
         /\ Swap(s, k, new) \in Seq(T) /\ Len(Swap(s, k, new)) = Len(s)
         /\ Swap(Append(s, a), k, new) = Append(Swap(s, k, new), IF a = k THEN new ELSE a)
  BY DEF Swap

\* What occurs in a sieved list is what occurred, without x.
LEMMA SieveOccurs ==
  ASSUME NEW T, NEW q \in Seq(T), NEW x, NEW e
  PROVE  Occurs(e, Sieve(q, x)) <=> Occurs(e, q) /\ e # x
  <1> DEFINE Good(s) == Occurs(e, Sieve(s, x)) <=> Occurs(e, s) /\ e # x
             P == {s \in Seq(T) : Good(s)}
  <1>0. SievesUp(T, x)
    BY SieveFacts
  <1>1. <<>> \in P
    <2>1. Sieve(<<>>, x) = <<>> /\ ~Occurs(e, <<>>)
      BY <1>0 DEF SievesUp, Occurs
    <2>2. <<>> \in Seq(T)
      OBVIOUS
    <2> QED
      BY <2>1, <2>2, Zenon
  <1>2. ASSUME NEW s \in Seq(T), NEW a \in T, s \in P
        PROVE  Append(s, a) \in P
    <2> DEFINE u == Append(s, a)
               v == Sieve(s, x)
               w == Append(v, a)
    <2>1. Sieve(u, x) = (IF a = x THEN v ELSE w) /\ v \in Seq(T)
      BY <1>0, Zenon DEF SievesUp
    <2>2. Occurs(e, u) <=> Occurs(e, s) \/ e = a
      BY OccursSteps
    <2>3. u \in Seq(T)
      OBVIOUS
    <2>4. Occurs(e, v) <=> Occurs(e, s) /\ e # x
      BY <1>2, Zenon
    <2> HIDE DEF v
    <2>5. Occurs(e, w) <=> Occurs(e, v) \/ e = a
      BY <2>1, OccursSteps
    <2> HIDE DEF u, w
    <2>6. Good(u)
      BY <2>1, <2>2, <2>4, <2>5
    <2> HIDE DEF Good
    <2> QED
      BY <2>3, <2>6, Zenon DEF u
  <1> HIDE DEF P, Good
  <1>3. Seq(T) \subseteq P
    BY <1>1, <1>2, SequencesBuilt
  <1> QED
    BY <1>3 DEF P, Good

\* Sieving makes nothing occur twice.
LEMMA SieveOnce ==
  ASSUME NEW T, NEW q \in Seq(T), NEW x, Once(q, x)
  PROVE  Once(Sieve(q, x), x)
  <1> DEFINE Good(s) == Once(s, x) => Once(Sieve(s, x), x)
             P == {s \in Seq(T) : Good(s)}
  <1>0. SievesUp(T, x)
    BY SieveFacts
  <1>1. <<>> \in P
    <2>1. Sieve(<<>>, x) = <<>>
      BY <1>0 DEF SievesUp
    <2>2. <<>> \in Seq(T)
      OBVIOUS
    <2> QED
      BY <2>1, <2>2, Zenon
  <1>2. ASSUME NEW s \in Seq(T), NEW a \in T, s \in P
        PROVE  Append(s, a) \in P
    <2> DEFINE u == Append(s, a)
               v == Sieve(s, x)
               w == Append(v, a)
    <2>1. Sieve(u, x) = (IF a = x THEN v ELSE w) /\ v \in Seq(T)
      BY <1>0, Zenon DEF SievesUp
    <2>2. Once(u, x) => Once(s, x) /\ (a # x => ~Occurs(a, s))
      BY OnceSteps
    <2>3. u \in Seq(T)
      OBVIOUS
    <2>4. Once(s, x) => Once(v, x)
      BY <1>2, Zenon
    <2>5. Occurs(a, v) <=> Occurs(a, s) /\ a # x
      BY SieveOccurs
    <2> HIDE DEF v
    <2>6. Once(v, x) /\ (a # x => ~Occurs(a, v)) => Once(w, x)
      BY <2>1, OnceSteps
    <2> HIDE DEF u, w
    <2>7. Good(u)
      BY <2>1, <2>2, <2>4, <2>5, <2>6
    <2> HIDE DEF Good
    <2> QED
      BY <2>3, <2>7, Zenon DEF u
  <1> HIDE DEF P, Good
  <1>3. Seq(T) \subseteq P
    BY <1>1, <1>2, SequencesBuilt
  <1> QED
    BY <1>3 DEF P, Good

\* What does not occur is not taken out.
LEMMA SieveOfOthers ==
  ASSUME NEW T, NEW q \in Seq(T), NEW k, ~Occurs(k, q)
  PROVE  Sieve(q, k) = q
  <1> DEFINE Good(s) == ~Occurs(k, s) => Sieve(s, k) = s
             P == {s \in Seq(T) : Good(s)}
  <1>0. SievesUp(T, k)
    BY SieveFacts
  <1>1. <<>> \in P
    <2>1. Sieve(<<>>, k) = <<>>
      BY <1>0 DEF SievesUp
    <2>2. <<>> \in Seq(T)
      OBVIOUS
    <2> QED
      BY <2>1, <2>2, Zenon
  <1>2. ASSUME NEW s \in Seq(T), NEW a \in T, s \in P
        PROVE  Append(s, a) \in P
    <2> DEFINE u == Append(s, a)
               v == Sieve(s, k)
    <2>1. Sieve(u, k) = (IF a = k THEN v ELSE Append(v, a))
      BY <1>0, Zenon DEF SievesUp
    <2>2. Occurs(k, u) <=> Occurs(k, s) \/ k = a
      BY OccursSteps
    <2>3. u \in Seq(T)
      OBVIOUS
    <2>4. ~Occurs(k, s) => v = s
      BY <1>2, Zenon
    <2> HIDE DEF v
    <2>7. Good(u)
      BY <2>1, <2>2, <2>4, Zenon
    <2> HIDE DEF Good, u
    <2> QED
      BY <2>3, <2>7, Zenon DEF u
  <1> HIDE DEF P, Good
  <1>3. Seq(T) \subseteq P
    BY <1>1, <1>2, SequencesBuilt
  <1> QED
    BY <1>3 DEF P, Good

\* Taking out what is there once makes the list one shorter.
LEMMA SieveCounts ==
  ASSUME NEW T, NEW q \in Seq(T), NEW x, NEW k, k # x, Once(q, x)
  PROVE  Len(Sieve(q, k)) = IF Occurs(k, q) THEN Len(q) - 1 ELSE Len(q)
  <1> DEFINE Good(s) == Once(s, x) => Len(Sieve(s, k)) = IF Occurs(k, s) THEN Len(s) - 1 ELSE Len(s)
             P == {s \in Seq(T) : Good(s)}
  <1>0. SievesUp(T, k)
    BY SieveFacts
  <1>1. <<>> \in P
    <2>1. Sieve(<<>>, k) = <<>> /\ ~Occurs(k, <<>>)
      BY <1>0 DEF SievesUp, Occurs
    <2>2. <<>> \in Seq(T)
      OBVIOUS
    <2> QED
      BY <2>1, <2>2, Zenon
  <1>2. ASSUME NEW s \in Seq(T), NEW a \in T, s \in P
        PROVE  Append(s, a) \in P
    <2> DEFINE u == Append(s, a)
               v == Sieve(s, k)
               w == Append(v, a)
    <2>1. Sieve(u, k) = (IF a = k THEN v ELSE w) /\ v \in Seq(T)
      BY <1>0, Zenon DEF SievesUp
    <2>2. Once(u, x) => Once(s, x) /\ (a # x => ~Occurs(a, s))
      BY OnceSteps
    <2>3. u \in Seq(T) /\ Len(u) = Len(s) + 1 /\ Len(s) \in Nat
      OBVIOUS
    <2>4. Once(s, x) => Len(v) = IF Occurs(k, s) THEN Len(s) - 1 ELSE Len(s)
      BY <1>2, Zenon
    <2>5. Occurs(k, u) <=> Occurs(k, s) \/ k = a
      BY OccursSteps
    <2>6. ~Occurs(k, s) => v = s
      BY SieveOfOthers
    <2> HIDE DEF v
    <2>8. Len(v) \in Nat /\ Len(w) = Len(v) + 1
      BY <2>1, OneMore
    <2> HIDE DEF u, w
    <2>7. Good(u)
      <3> SUFFICES ASSUME Once(u, x)
                   PROVE  Len(Sieve(u, k)) = IF Occurs(k, u) THEN Len(u) - 1 ELSE Len(u)
        OBVIOUS
      <3>1. CASE a = k
        BY <2>1, <2>2, <2>3, <2>4, <2>5, <3>1
      <3>2. CASE a # k
        BY <2>1, <2>2, <2>3, <2>4, <2>5, <2>8, <3>2
      <3> QED
        BY <3>1, <3>2
    <2> HIDE DEF Good
    <2> QED
      BY <2>3, <2>7, Zenon DEF u
  <1> HIDE DEF P, Good
  <1>3. Seq(T) \subseteq P
    BY <1>1, <1>2, SequencesBuilt
  <1> QED
    BY <1>3 DEF P, Good

\* To blank a key and sieve the blanks is to sieve the blanks and take out the
\* key; to rename a key is the same before as after.
LEMMA SieveOfSwap ==
  ASSUME NEW T, NEW q \in Seq(T), NEW x \in T, NEW k, NEW new \in T, k # x, new # x
  PROVE  /\ Sieve(Swap(q, k, x), x) = Sieve(Sieve(q, x), k)
         /\ Sieve(Swap(q, k, new), x) = Swap(Sieve(q, x), k, new)
  <1> DEFINE Good(s) == /\ Sieve(Swap(s, k, x), x) = Sieve(Sieve(s, x), k)
                        /\ Sieve(Swap(s, k, new), x) = Swap(Sieve(s, x), k, new)
             P == {s \in Seq(T) : Good(s)}
  <1>0. SievesUp(T, x) /\ SievesUp(T, k)
    BY SieveFacts
  <1>1. <<>> \in P
    <2>1. Sieve(<<>>, x) = <<>> /\ Sieve(<<>>, k) = <<>>
      BY <1>0 DEF SievesUp
    <2>2. <<>> \in Seq(T) /\ Swap(<<>>, k, x) = <<>> /\ Swap(<<>>, k, new) = <<>>
      BY DEF Swap
    <2> QED
      BY <2>1, <2>2, Zenon
  <1>2. ASSUME NEW s \in Seq(T), NEW a \in T, s \in P
        PROVE  Append(s, a) \in P
    <2> DEFINE u == Append(s, a)
               v == Sieve(s, x)
               w == Append(v, a)
               sx == Swap(s, k, x)
               sn == Swap(s, k, new)
               ax == IF a = k THEN x ELSE a
               an == IF a = k THEN new ELSE a
    <2>1. Sieve(u, x) = (IF a = x THEN v ELSE w) /\ v \in Seq(T)
      BY <1>0, Zenon DEF SievesUp
    <2>2. Swap(u, k, x) = Append(sx, ax) /\ sx \in Seq(T)
      BY SwapSteps
    <2>3. Swap(u, k, new) = Append(sn, an) /\ sn \in Seq(T)
      BY SwapSteps
    <2>4. Sieve(sx, x) = Sieve(v, k) /\ Sieve(sn, x) = Swap(v, k, new)
      BY <1>2, Zenon
    <2>5. u \in Seq(T) /\ ax \in T /\ an \in T
      OBVIOUS
    <2> HIDE DEF v, sx, sn, ax, an
    <2>6. Sieve(Append(sx, ax), x) = IF ax = x THEN Sieve(sx, x) ELSE Append(Sieve(sx, x), ax)
      BY <1>0, <2>2, <2>5, Zenon DEF SievesUp
    <2>7. Sieve(Append(sn, an), x) = IF an = x THEN Sieve(sn, x) ELSE Append(Sieve(sn, x), an)
      BY <1>0, <2>3, <2>5, Zenon DEF SievesUp
    <2>8. Sieve(w, k) = IF a = k THEN Sieve(v, k) ELSE Append(Sieve(v, k), a)
      BY <1>0, <2>1, Zenon DEF SievesUp
    <2>9. Swap(w, k, new) = Append(Swap(v, k, new), an)
      BY <2>1, SwapSteps DEF an
    <2> HIDE DEF u, w
    <2>10. ax = (IF a = k THEN x ELSE a) /\ an = IF a = k THEN new ELSE a
      BY DEF ax, an
    <2>11. Sieve(Swap(u, k, x), x) = Sieve(Sieve(u, x), k)
      <3>1. CASE a = k
        BY <2>1, <2>2, <2>4, <2>6, <2>8, <2>10, <3>1, Zenon
      <3>2. CASE a = x
        BY <2>1, <2>2, <2>4, <2>6, <2>10, <3>2, Zenon
      <3>3. CASE a # k /\ a # x
        BY <2>1, <2>2, <2>4, <2>6, <2>8, <2>10, <3>3, Zenon
      <3> QED
        BY <3>1, <3>2, <3>3
    <2>12. Sieve(Swap(u, k, new), x) = Swap(Sieve(u, x), k, new)
      <3>1. CASE a = x
        BY <2>1, <2>3, <2>4, <2>7, <2>10, <3>1, Zenon
      <3>2. CASE a # x
        <4>1. an # x
          BY <2>10, <3>2, Zenon
        <4> QED
          BY <2>1, <2>3, <2>4, <2>7, <2>9, <3>2, <4>1, Zenon
      <3> QED
        BY <3>1, <3>2
    <2>13. Good(u)
      BY <2>11, <2>12
    <2> HIDE DEF Good
    <2> QED
      BY <2>5, <2>13, Zenon DEF u
  <1> HIDE DEF P, Good
  <1>3. Seq(T) \subseteq P
    BY <1>1, <1>2, SequencesBuilt
  <1> QED
    BY <1>3 DEF P, Good

-----------------------------------------------------------------------------
(* A list cut in two at a place.                                             *)

Before(d, i) == SubSeq(d, 1, i - 1)
From(d, i) == SubSeq(d, i, Len(d))

\* Lists with the same elements in the same places are the same.
LEMMA SameList ==
  ASSUME NEW T, NEW s \in Seq(T), NEW t \in Seq(T), Len(s) = Len(t),
         \A p \in 1 .. Len(t) : s[p] = t[p]
  PROVE  s = t
  OBVIOUS

\* The two parts are the list.
LEMMA Cut ==
  ASSUME NEW T, NEW d \in Seq(T), NEW i \in 1 .. Len(d) + 1
  PROVE  /\ Before(d, i) \in Seq(T) /\ Len(Before(d, i)) = i - 1
         /\ From(d, i) \in Seq(T) /\ Len(From(d, i)) = Len(d) - i + 1
         /\ \A p \in 1 .. i - 1 : Before(d, i)[p] = d[p]
         /\ \A p \in 1 .. Len(d) - i + 1 : From(d, i)[p] = d[i + p - 1]
  BY DEF Before, From

\* So they are in a row.
LEMMA CutInARow ==
  ASSUME NEW T, NEW d \in Seq(T), NEW i \in 1 .. Len(d) + 1
  PROVE  Before(d, i) \o From(d, i) = d
  <1> DEFINE a == Before(d, i)
             b == From(d, i)
  <1>1. /\ a \in Seq(T) /\ Len(a) = i - 1
        /\ b \in Seq(T) /\ Len(b) = Len(d) - i + 1
        /\ \A p \in 1 .. i - 1 : a[p] = d[p]
        /\ \A p \in 1 .. Len(d) - i + 1 : b[p] = d[i + p - 1]
    BY Cut
  <1> HIDE DEF a, b
  <1> DEFINE r == a \o b
  <1>2. /\ r \in Seq(T) /\ Len(r) = Len(a) + Len(b)
        /\ \A p \in 1 .. Len(a) : r[p] = a[p]
        /\ \A p \in 1 .. Len(b) : r[Len(a) + p] = b[p]
    <2>1. a \in Seq(T) /\ b \in Seq(T)
      BY <1>1
    <2> QED
      BY <2>1, InARow
  <1>0. Len(d) \in Nat
    OBVIOUS
  <1> HIDE DEF r
  <1>3. ASSUME NEW p \in 1 .. Len(d)
        PROVE  r[p] = d[p]
    <2>1. CASE p < i
      BY <1>0, <1>1, <1>2, <2>1
    <2>2. CASE p >= i
      <3> DEFINE n == p - i + 1
      <3>1. n \in 1 .. Len(d) - i + 1 /\ Len(a) + n = p /\ i + n - 1 = p
        BY <1>0, <1>1, <2>2
      <3> HIDE DEF n
      <3>2. n \in 1 .. Len(b)
        BY <1>1, <3>1
      <3> QED
        BY <1>1, <1>2, <3>1, <3>2
    <2> QED
      BY <2>1, <2>2
  <1>4. Len(r) = Len(d)
    BY <1>0, <1>1, <1>2
  <1>5. r = d
    BY <1>2, <1>3, <1>4, SameList
  <1> QED
    BY <1>5 DEF a, b, r

\* The ends of the list.
LEMMA CutAtEnds ==
  ASSUME NEW T, NEW d \in Seq(T)
  PROVE  /\ Before(d, 1) = <<>> /\ From(d, 1) = d
         /\ Before(d, Len(d) + 1) = d /\ From(d, Len(d) + 1) = <<>>
  BY DEF Before, From

\* The cut moved one place on.
LEMMA CutNext ==
  ASSUME NEW T, NEW d \in Seq(T), NEW i \in 1 .. Len(d)
  PROVE  /\ Before(d, i + 1) = Append(Before(d, i), d[i])
         /\ From(d, i) = <<d[i]>> \o From(d, i + 1)
  BY DEF Before, From

\* One more element at the end is one more in the second part.
LEMMA CutOneMore ==
  ASSUME NEW T, NEW d \in Seq(T), NEW a \in T, NEW i \in 1 .. Len(d) + 1
  PROVE  /\ Before(Append(d, a), i) = Before(d, i)
         /\ From(Append(d, a), i) = Append(From(d, i), a)
  BY DEF Before, From

\* Swapping elements and cutting are independent.
LEMMA CutSwap ==
  ASSUME NEW T, NEW d \in Seq(T), NEW k, NEW new \in T, NEW i \in 1 .. Len(d) + 1
  PROVE  /\ Before(Swap(d, k, new), i) = Swap(Before(d, i), k, new)
         /\ From(Swap(d, k, new), i) = Swap(From(d, i), k, new)
  BY DEF Before, From, Swap

\* Two lists in a row, cut after the first.
LEMMA CutOfRow ==
  ASSUME NEW T, NEW a \in Seq(T), NEW b \in Seq(T)
  PROVE  /\ Before(a \o b, Len(a) + 1) = a
         /\ From(a \o b, Len(a) + 1) = b
  <1> DEFINE c == a \o b
             m == Len(a)
             n == Len(b)
             u == Before(c, m + 1)
             v == From(c, m + 1)
  <1>1. /\ c \in Seq(T) /\ Len(c) = m + n /\ m \in Nat /\ n \in Nat
        /\ \A p \in 1 .. m : c[p] = a[p]
        /\ \A p \in 1 .. n : c[m + p] = b[p]
    BY InARow
  <1> HIDE DEF c
  <1>2. m + 1 \in 1 .. Len(c) + 1 /\ (m + 1) - 1 = m /\ Len(c) - (m + 1) + 1 = n
    BY <1>1
  <1>3. /\ u \in Seq(T) /\ Len(u) = (m + 1) - 1
        /\ v \in Seq(T) /\ Len(v) = Len(c) - (m + 1) + 1
        /\ \A p \in 1 .. (m + 1) - 1 : u[p] = c[p]
        /\ \A p \in 1 .. Len(c) - (m + 1) + 1 : v[p] = c[(m + 1) + p - 1]
    BY <1>1, <1>2, Cut
  <1> HIDE DEF u, v
  <1>4. u = a
    BY <1>1, <1>2, <1>3, SameList
  <1>5. \A p \in 1 .. n : (m + 1) + p - 1 = m + p
    BY <1>1
  <1>7. Len(v) = Len(b) /\ \A p \in 1 .. Len(b) : v[p] = b[p]
    BY <1>1, <1>2, <1>3, <1>5
  <1>6. v = b
    BY <1>3, <1>7, SameList
  <1> QED
    BY <1>4, <1>6 DEF u, v, c

\* What occurs in the first part.
LEMMA OccursBefore ==
  ASSUME NEW T, NEW d \in Seq(T), NEW i \in 1 .. Len(d) + 1, NEW k
  PROVE  Occurs(k, Before(d, i)) <=> \E p \in 1 .. i - 1 : d[p] = k
  <1> DEFINE a == Before(d, i)
  <1>1. Len(a) = i - 1 /\ \A p \in 1 .. i - 1 : a[p] = d[p]
    BY Cut
  <1> HIDE DEF a
  <1> QED
    BY <1>1 DEF Occurs, a

\* A part has nothing twice that the list has not.
LEMMA OnceBefore ==
  ASSUME NEW T, NEW d \in Seq(T), NEW i \in 1 .. Len(d) + 1, NEW x, Once(d, x)
  PROVE  Once(Before(d, i), x)
  <1> DEFINE a == Before(d, i)
  <1>1. Len(a) = i - 1 /\ \A p \in 1 .. i - 1 : a[p] = d[p]
    BY Cut
  <1>2. \A p \in 1 .. i - 1 : p \in 1 .. Len(d)
    OBVIOUS
  <1> HIDE DEF a
  <1> QED
    BY <1>1, <1>2 DEF Once, a

-----------------------------------------------------------------------------
(* The data vector: keys and blanks.                                         *)

D == Keys \cup {Empty}

\* The live entries of a data vector are a list of keys, no longer than it; a
\* list of keys is live as it is.
LEMMA LiveFacts ==
  ASSUME NEW d \in Seq(D)
  PROVE  /\ Live(d) = Sieve(d, Empty)
         /\ Live(d) \in Seq(Keys) /\ Len(Live(d)) <= Len(d)
         /\ Len(Live(d)) \in Nat /\ Len(d) \in Nat
  <1>1. Live(d) = Sieve(d, Empty)
    BY DEF Live, Sieve
  <1>2. D \ {Empty} = Keys
    BY MarksAreApart DEF D
  <1>3. Sieve(d, Empty) \in Seq(D \ {Empty}) /\ Len(Sieve(d, Empty)) <= Len(d)
    BY SieveLeaves
  <1>4. Sieve(d, Empty) \in Seq(Keys)
    BY <1>2, <1>3
  <1> QED
    BY <1>1, <1>3, <1>4

\* A list of keys has no blanks, and is live as it is.
LEMMA KeysAreLive ==
  ASSUME NEW s \in Seq(Keys)
  PROVE  s \in Seq(D) /\ Live(s) = s /\ \A p \in 1 .. Len(s) : s[p] \in Keys /\ s[p] # Empty
  <1>1. s \in Seq(D)
    BY DEF D
  <1>2. Sieve(s, Empty) = s
    BY MarksAreApart, SieveLeaves
  <1>3. \A p \in 1 .. Len(s) : s[p] \in Keys /\ s[p] # Empty
    BY MarksAreApart
  <1> QED
    BY <1>1, <1>2, <1>3, LiveFacts

\* Nothing is live in nothing.
LEMMA NothingIsLive == Live(<<>>) = <<>>
  <1> DEFINE o == <<>>
  <1>1. o \in Seq(Keys)
    OBVIOUS
  <1> HIDE DEF o
  <1>2. Live(o) = o
    BY <1>1, KeysAreLive
  <1> QED
    BY <1>2 DEF o

\* The live entries of two lists in a row, and of one more element.
LEMMA LiveInARow ==
  ASSUME NEW a \in Seq(D), NEW b \in Seq(D), NEW e \in D
  PROVE  /\ Live(a \o b) = Live(a) \o Live(b)
         /\ Live(Append(a, e)) = IF e = Empty THEN Live(a) ELSE Append(Live(a), e)
         /\ Live(<<e>>) = IF e = Empty THEN <<>> ELSE <<e>>
         /\ Live(<<>>) = <<>>
  <1>1. a \o b \in Seq(D) /\ Append(a, e) \in Seq(D) /\ <<e>> \in Seq(D) /\ <<>> \in Seq(D)
    OBVIOUS
  <1>2. /\ Live(a \o b) = Sieve(a \o b, Empty) /\ Live(a) = Sieve(a, Empty) /\ Live(b) = Sieve(b, Empty)
        /\ Live(Append(a, e)) = Sieve(Append(a, e), Empty) /\ Live(<<e>>) = Sieve(<<e>>, Empty)
        /\ Live(<<>>) = Sieve(<<>>, Empty)
    BY DEF Live, Sieve
  <1>3. Sieve(a \o b, Empty) = Sieve(a, Empty) \o Sieve(b, Empty)
    BY SieveInARow
  <1>4. SievesUp(D, Empty)
    BY SieveFacts
  <1>5. Sieve(Append(a, e), Empty) = IF e = Empty THEN Sieve(a, Empty) ELSE Append(Sieve(a, Empty), e)
    BY <1>4, Zenon DEF SievesUp
  <1>6. Sieve(<<>>, Empty) = <<>>
    BY <1>4, Zenon DEF SievesUp
  <1>7. Sieve(Append(<<>>, e), Empty) = IF e = Empty THEN Sieve(<<>>, Empty) ELSE Append(Sieve(<<>>, Empty), e)
    BY <1>1, <1>4, Zenon DEF SievesUp
  <1>8. Append(<<>>, e) = <<e>>
    OBVIOUS
  <1>9. Sieve(<<e>>, Empty) = IF e = Empty THEN <<>> ELSE <<e>>
    BY <1>6, <1>7, <1>8, Zenon
  <1> QED
    BY <1>2, <1>3, <1>5, <1>6, <1>9, Zenon

\* Before and after a cut the live entries are those of the whole.
LEMMA LiveCut ==
  ASSUME NEW d \in Seq(D), NEW i \in 1 .. Len(d) + 1
  PROVE  /\ Live(d) = Live(Before(d, i)) \o Live(From(d, i))
         /\ Live(Before(d, i)) \in Seq(Keys) /\ Live(From(d, i)) \in Seq(Keys)
         /\ Len(Live(Before(d, i))) \in Nat /\ Len(Live(Before(d, i))) <= i - 1
  <1> DEFINE a == Before(d, i)
             b == From(d, i)
  <1>1. a \in Seq(D) /\ b \in Seq(D) /\ Len(a) = i - 1
    BY Cut
  <1>2. a \o b = d
    BY CutInARow
  <1> HIDE DEF a, b
  <1>3. Live(a \o b) = Live(a) \o Live(b)
    <2>1. Empty \in D
      BY DEF D
    <2> QED
      BY <1>1, <2>1, LiveInARow
  <1>4. /\ Live(a) \in Seq(Keys) /\ Len(Live(a)) <= Len(a) /\ Len(Live(a)) \in Nat
        /\ Live(b) \in Seq(Keys)
    BY <1>1, LiveFacts
  <1> QED
    BY <1>1, <1>2, <1>3, <1>4 DEF a, b

\* The cut moved one place on passes a live entry or a blank.
LEMMA LiveCutNext ==
  ASSUME NEW d \in Seq(D), NEW i \in 1 .. Len(d)
  PROVE  /\ i \in 1 .. Len(d) + 1 /\ i + 1 \in 1 .. Len(d) + 1 /\ d[i] \in D
         /\ Live(Before(d, i + 1)) = IF d[i] = Empty THEN Live(Before(d, i)) ELSE Append(Live(Before(d, i)), d[i])
         /\ Live(From(d, i)) = IF d[i] = Empty THEN Live(From(d, i + 1)) ELSE <<d[i]>> \o Live(From(d, i + 1))
  <1> DEFINE a == Before(d, i)
             b == From(d, i + 1)
             e == d[i]
  <1>1. i \in 1 .. Len(d) + 1 /\ i + 1 \in 1 .. Len(d) + 1 /\ e \in D
    OBVIOUS
  <1>2. a \in Seq(D) /\ b \in Seq(D)
    BY <1>1, Cut
  <1>3. Before(d, i + 1) = Append(a, e) /\ From(d, i) = <<e>> \o b
    BY CutNext
  <1> HIDE DEF a, b, e
  <1>4. Live(Append(a, e)) = IF e = Empty THEN Live(a) ELSE Append(Live(a), e)
    BY <1>1, <1>2, LiveInARow
  <1>5. <<e>> \in Seq(D)
    BY <1>1
  <1>6. Live(<<e>>) = IF e = Empty THEN <<>> ELSE <<e>>
    BY <1>1, <1>2, LiveInARow
  <1>7. Live(<<e>> \o b) = Live(<<e>>) \o Live(b)
    <2> DEFINE o == <<e>>
    <2>1. o \in Seq(D)
      BY <1>5
    <2> HIDE DEF o
    <2>2. Live(o \o b) = Live(o) \o Live(b)
      BY <1>1, <1>2, <2>1, LiveInARow
    <2> QED
      BY <2>2 DEF o
  <1>8. Live(b) \in Seq(Keys)
    BY <1>2, LiveFacts
  <1>9. <<>> \o Live(b) = Live(b)
    <2> DEFINE l == Live(b)
    <2> HIDE DEF l
    <2>1. l \in Seq(Keys) => <<>> \o l = l
      OBVIOUS
    <2> QED
      BY <1>8, <2>1 DEF l
  <1>10. Live(<<e>> \o b) = IF e = Empty THEN Live(b) ELSE <<e>> \o Live(b)
    BY <1>6, <1>7, <1>9, Zenon
  <1> QED
    BY <1>1, <1>3, <1>4, <1>10, Zenon DEF a, b, e

\* Where there are only blanks, it does not matter where the cut is.
LEMMA BlanksDoNotCount ==
  ASSUME NEW d \in Seq(D), NEW i \in 1 .. Len(d) + 1, NEW s \in i .. Len(d) + 1,
         \A p \in i .. s - 1 : d[p] = Empty
  PROVE  /\ Live(Before(d, s)) = Live(Before(d, i))
         /\ Live(From(d, s)) = Live(From(d, i))
  <1> DEFINE Good(n) == /\ Live(Before(d, n)) = Live(Before(d, i))
                        /\ Live(From(d, n)) = Live(From(d, i))
             N == {n \in i .. s : Good(n)}
  <1>1. i \in Nat /\ s \in Nat /\ Len(d) \in Nat /\ i <= s /\ s <= Len(d) + 1 /\ 1 <= i
    OBVIOUS
  <1>2. i \in N
    BY <1>1
  <1>3. ASSUME NEW n \in i .. s, n \in N, n < s
        PROVE  n + 1 \in N
    <2>1. n \in 1 .. Len(d) /\ n \in i .. s - 1 /\ n + 1 \in i .. s
      BY <1>1, <1>3
    <2>2. d[n] = Empty
      BY <2>1
    <2>3. Live(Before(d, n + 1)) = Live(Before(d, n)) /\ Live(From(d, n)) = Live(From(d, n + 1))
      BY <2>1, <2>2, LiveCutNext
    <2>4. Good(n + 1)
      BY <1>3, <2>3, Zenon
    <2> HIDE DEF Good
    <2> QED
      BY <2>1, <2>4
  <1> HIDE DEF N, Good
  <1>4. i .. s \subseteq N
    BY <1>1, <1>2, <1>3, UpTo
  <1>5. s \in N
    BY <1>1, <1>4
  <1> QED
    BY <1>5 DEF N, Good

-----------------------------------------------------------------------------
(* The ranges.                                                               *)

\* seek passes blanks, and stops at an entry or at the end.
LEMMA SeekFacts ==
  ASSUME NEW d \in Seq(D), NEW i \in 1 .. Len(d) + 1
  PROVE  /\ seek(i, d) \in i .. Len(d) + 1
         /\ seek(i, d) <= Len(d) => d[seek(i, d)] # Empty
         /\ \A p \in i .. seek(i, d) - 1 : d[p] = Empty
         /\ (i <= Len(d) => d[i] # Empty) => seek(i, d) = i
  <1> DEFINE S == {j \in i .. (Len(d) + 1) : j > Len(d) \/ d[j] # Empty}
  <1>1. Len(d) \in Nat /\ i \in Nat /\ i <= Len(d) + 1 /\ 1 <= i
    OBVIOUS
  <1>2. Len(d) + 1 \in S
    BY <1>1
  <1>3. S \in SUBSET Nat
    BY <1>1
  <1>4. \E n \in S : \A m \in S : n <= m
    <2> HIDE DEF S
    <2> QED
      BY <1>2, <1>3, LeastNumber
  <1> DEFINE s == seek(i, d)
  <1>5. s \in S /\ \A m \in S : s <= m
    <2>1. s = Min(S)
      BY DEF seek
    <2> HIDE DEF S, s
    <2> QED
      BY <1>4, <2>1, Zenon DEF Min
  <1> HIDE DEF s
  <1>6. s \in i .. Len(d) + 1 /\ (s <= Len(d) => d[s] # Empty)
    BY <1>1, <1>5
  <1>7. ASSUME NEW p \in i .. s - 1
        PROVE  d[p] = Empty
    <2>1. p \in i .. Len(d) + 1 /\ ~(s <= p)
      BY <1>1, <1>6, <1>7
    <2>2. p \notin S
      BY <1>5, <2>1
    <2> QED
      BY <2>1, <2>2
  <1>8. ASSUME i <= Len(d) => d[i] # Empty
        PROVE  s = i
    <2>1. i \in S
      BY <1>1, <1>8
    <2>2. s <= i
      BY <1>5, <2>1
    <2> QED
      BY <1>1, <1>6, <2>2
  <1> QED
    BY <1>6, <1>7, <1>8 DEF s

\* A range stands on an entry or at the end, and has counted the entries before.
RangeFine(r, d) ==
  /\ r \in [i: Nat, count: Nat]
  /\ r.i \in 1 .. Len(d) + 1
  /\ r.i <= Len(d) => d[r.i] # Empty
  /\ r.count = Len(Live(Before(d, r.i)))
\* what it has yet to yield
Rest(r, d) == Live(From(d, r.i))

\* Having sought its place a range is fine, and has passed no entry.
LEMMA SoughtIsFine ==
  ASSUME NEW d \in Seq(D), NEW i \in 1 .. Len(d) + 1, NEW c, c = Len(Live(Before(d, i)))
  PROVE  /\ RangeFine([i |-> seek(i, d), count |-> c], d)
         /\ Rest([i |-> seek(i, d), count |-> c], d) = Live(From(d, i))
  <1> DEFINE s == seek(i, d)
             r == [i |-> s, count |-> c]
  <1>1. /\ s \in i .. Len(d) + 1
        /\ s <= Len(d) => d[s] # Empty
        /\ \A p \in i .. s - 1 : d[p] = Empty
    BY SeekFacts
  <1>2. Live(Before(d, s)) = Live(Before(d, i)) /\ Live(From(d, s)) = Live(From(d, i))
    <2> HIDE DEF s
    <2> QED
      BY <1>1, BlanksDoNotCount
  <1>3. c \in Nat
    BY LiveCut
  <1>4. r.i = s /\ r.count = c
    OBVIOUS
  <1>5. s \in Nat /\ s \in 1 .. Len(d) + 1
    <2> HIDE DEF s
    <2> QED
      BY <1>1
  <1> HIDE DEF s
  <1>6. r \in [i: Nat, count: Nat]
    BY <1>3, <1>5
  <1> HIDE DEF r
  <1>7. RangeFine(r, d)
    BY <1>1, <1>2, <1>4, <1>5, <1>6 DEF RangeFine
  <1>8. Rest(r, d) = Live(From(d, i))
    BY <1>2, <1>4 DEF Rest
  <1> QED
    BY <1>7, <1>8 DEF r, s

\* A fine range that is not at the end is past one entry more when it is moved.
LEMMA NextIsFine ==
  ASSUME NEW d \in Seq(D), NEW r, RangeFine(r, d), r.i <= Len(d)
  PROVE  /\ r.i + 1 \in 1 .. Len(d) + 1 /\ d[r.i] \in Keys
         /\ r.count + 1 = Len(Live(Before(d, r.i + 1)))
         /\ Rest(r, d) = <<d[r.i]>> \o Live(From(d, r.i + 1))
  <1>1. r.i \in 1 .. Len(d) /\ d[r.i] # Empty /\ r.count = Len(Live(Before(d, r.i)))
    BY DEF RangeFine
  <1>2. /\ r.i \in 1 .. Len(d) + 1 /\ r.i + 1 \in 1 .. Len(d) + 1 /\ d[r.i] \in D
        /\ Live(Before(d, r.i + 1)) = Append(Live(Before(d, r.i)), d[r.i])
        /\ Live(From(d, r.i)) = <<d[r.i]>> \o Live(From(d, r.i + 1))
    BY <1>1, LiveCutNext
  <1>3. d[r.i] \in Keys
    BY <1>1, <1>2 DEF D
  <1> DEFINE a == Live(Before(d, r.i))
             e == d[r.i]
  <1>4. a \in Seq(Keys)
    BY <1>2, LiveCut
  <1> HIDE DEF a, e
  <1>5. e \in Keys
    BY <1>3 DEF e
  <1>6. Len(Append(a, e)) = Len(a) + 1
    BY <1>4, <1>5
  <1>7. Len(Live(Before(d, r.i + 1))) = r.count + 1
    BY <1>1, <1>2, <1>6 DEF a, e
  <1> QED
    BY <1>2, <1>3, <1>7 DEF Rest

\* A removal keeps a range fine, and takes the key from what it has yet to yield.
LEMMA RemoveIsFine ==
  ASSUME NEW d \in Seq(D), Once(d, Empty), NEW r, RangeFine(r, d),
         NEW j \in 1 .. Len(d), NEW k \in Keys, d[j] = k
  PROVE  /\ RangeFine(onRemove(r, j, Swap(d, k, Empty)), Swap(d, k, Empty))
         /\ Rest(onRemove(r, j, Swap(d, k, Empty)), Swap(d, k, Empty)) = Sieve(Rest(r, d), k)
  <1> DEFINE e == Swap(d, k, Empty)
             i == r.i
             c == LeftOf(r, j)
             a == Before(d, i)
             b == From(d, i)
  <1>1. Empty \in D /\ k \in D /\ k # Empty
    BY MarksAreApart DEF D
  <1>2. e \in Seq(D) /\ Len(e) = Len(d)
    BY <1>1, SwapSteps
  <1>3. i \in 1 .. Len(d) + 1 /\ i \in Nat /\ r.count = Len(Live(a)) /\ (i <= Len(d) => d[i] # Empty)
    BY DEF RangeFine
  <1> HIDE DEF i
  <1>4. Before(e, i) = Swap(a, k, Empty) /\ From(e, i) = Swap(b, k, Empty)
    BY <1>1, <1>3, CutSwap
  <1>5. a \in Seq(D) /\ b \in Seq(D)
    BY <1>3, Cut
  <1>6. Once(a, Empty)
    BY <1>3, OnceBefore
  <1>7. Occurs(k, a) <=> \E p \in 1 .. i - 1 : d[p] = k
    BY <1>3, OccursBefore
  <1>8. Occurs(k, a) <=> j < i
    <2>1. \A p \in 1 .. i - 1 : p \in 1 .. Len(d)
      BY <1>3
    <2>2. \A p \in 1 .. i - 1 : d[p] = k => p = j
      BY <1>1, <2>1 DEF Once
    <2>3. j < i => j \in 1 .. i - 1
      BY <1>3
    <2>4. j \in 1 .. i - 1 => j < i
      BY <1>3
    <2> QED
      BY <1>7, <2>2, <2>3, <2>4
  <1> HIDE DEF a, b, e
  <1>9. Sieve(Swap(a, k, Empty), Empty) = Sieve(Sieve(a, Empty), k)
    BY <1>1, <1>5, SieveOfSwap
  <1>10. Sieve(Swap(b, k, Empty), Empty) = Sieve(Sieve(b, Empty), k)
    BY <1>1, <1>5, SieveOfSwap
  <1>11. Live(a) = Sieve(a, Empty) /\ Live(a) \in Seq(Keys) /\ Len(Live(a)) \in Nat
    BY <1>5, LiveFacts
  <1>12. Live(b) = Sieve(b, Empty)
    BY <1>5, LiveFacts
  <1>13. /\ Live(Before(e, i)) = Sieve(Swap(a, k, Empty), Empty)
         /\ Live(From(e, i)) = Sieve(Swap(b, k, Empty), Empty)
    BY <1>4 DEF Live, Sieve
  <1>14. Live(Before(e, i)) = Sieve(Live(a), k) /\ Live(From(e, i)) = Sieve(Live(b), k)
    BY <1>9, <1>10, <1>11, <1>12, <1>13, Zenon
  <1>15. Once(Live(a), Empty)
    BY <1>5, <1>6, <1>11, SieveOnce
  <1>16. Occurs(k, Live(a)) <=> Occurs(k, a)
    BY <1>1, <1>5, <1>11, SieveOccurs
  <1>17. Len(Sieve(Live(a), k)) = IF Occurs(k, Live(a)) THEN Len(Live(a)) - 1 ELSE Len(Live(a))
    BY <1>1, <1>11, <1>15, SieveCounts
  <1>18. c = Len(Live(Before(e, i)))
    BY <1>3, <1>8, <1>14, <1>16, <1>17 DEF LeftOf, i
  <1>19. Rest(r, d) = Live(b)
    BY DEF Rest, b, i
  <1> HIDE DEF c
  <1>20. CASE j = i
    <2>1. onRemove(r, j, e) = [i |-> seek(i, e), count |-> c]
      BY <1>20 DEF onRemove, c, i
    <2>2. i \in 1 .. Len(e) + 1
      BY <1>2, <1>3
    <2>3. /\ RangeFine([i |-> seek(i, e), count |-> c], e)
          /\ Rest([i |-> seek(i, e), count |-> c], e) = Live(From(e, i))
      BY <1>2, <1>18, <2>2, SoughtIsFine
    <2> QED
      BY <1>14, <1>19, <2>1, <2>3, Zenon DEF e
  <1>21. CASE j # i
    <2> DEFINE n == onRemove(r, j, e)
    <2>1. n = [i |-> i, count |-> c]
      BY <1>21 DEF onRemove, c, i
    <2>2. c \in Nat
      <3>1. Live(Before(e, i)) \in Seq(Keys) /\ Len(Live(Before(e, i))) \in Nat
        BY <1>2, <1>3, LiveCut
      <3> QED
        BY <1>18, <3>1
    <2>3. n \in [i: Nat, count: Nat] /\ n.i = i /\ n.count = c
      BY <1>3, <2>1, <2>2
    <2>4. ASSUME i <= Len(e) PROVE e[i] # Empty
      <3>1. i \in 1 .. Len(d) /\ i \in DOMAIN d /\ d[i] # Empty
        BY <1>2, <1>3, <2>4
      <3>2. d[i] # k
        BY <1>1, <1>21, <3>1 DEF Once
      <3>3. e[i] = d[i]
        BY <3>1, <3>2 DEF e, Swap
      <3> QED
        BY <3>1, <3>3
    <2> HIDE DEF n
    <2>5. RangeFine(n, e)
      BY <1>2, <1>3, <1>18, <2>3, <2>4 DEF RangeFine
    <2>6. Rest(n, e) = Sieve(Rest(r, d), k)
      BY <1>14, <1>19, <2>3, Zenon DEF Rest
    <2> QED
      BY <2>5, <2>6 DEF n, e
  <1> QED
    BY <1>20, <1>21

\* Moving a key keeps a range fine, and changes the key in what it has yet to yield.
LEMMA RekeyIsFine ==
  ASSUME NEW d \in Seq(D), NEW r, RangeFine(r, d), NEW k \in Keys, NEW new \in Keys
  PROVE  /\ RangeFine(r, Swap(d, k, new))
         /\ Rest(r, Swap(d, k, new)) = Swap(Rest(r, d), k, new)
  <1> DEFINE e == Swap(d, k, new)
             i == r.i
             a == Before(d, i)
             b == From(d, i)
  <1>1. Empty \in D /\ new \in D /\ k # Empty /\ new # Empty
    BY MarksAreApart DEF D
  <1>2. e \in Seq(D) /\ Len(e) = Len(d)
    BY <1>1, SwapSteps
  <1>3. i \in 1 .. Len(d) + 1 /\ i \in Nat /\ r.count = Len(Live(a)) /\ (i <= Len(d) => d[i] # Empty)
    BY DEF RangeFine
  <1> HIDE DEF i
  <1>4. Before(e, i) = Swap(a, k, new) /\ From(e, i) = Swap(b, k, new)
    BY <1>1, <1>3, CutSwap
  <1>5. a \in Seq(D) /\ b \in Seq(D)
    BY <1>3, Cut
  <1> HIDE DEF a, b, e
  <1>9. Sieve(Swap(a, k, new), Empty) = Swap(Sieve(a, Empty), k, new)
    BY <1>1, <1>5, SieveOfSwap
  <1>10. Sieve(Swap(b, k, new), Empty) = Swap(Sieve(b, Empty), k, new)
    BY <1>1, <1>5, SieveOfSwap
  <1>11. Live(a) = Sieve(a, Empty) /\ Live(a) \in Seq(D)
    BY <1>5, LiveFacts, KeysAreLive
  <1>12. Live(b) = Sieve(b, Empty)
    BY <1>5, LiveFacts
  <1>13. /\ Live(Before(e, i)) = Sieve(Swap(a, k, new), Empty)
         /\ Live(From(e, i)) = Sieve(Swap(b, k, new), Empty)
    BY <1>4 DEF Live, Sieve
  <1>14. Live(Before(e, i)) = Swap(Live(a), k, new) /\ Live(From(e, i)) = Swap(Live(b), k, new)
    BY <1>9, <1>10, <1>11, <1>12, <1>13, Zenon
  <1>15. Len(Swap(Live(a), k, new)) = Len(Live(a))
    BY <1>1, <1>11, SwapSteps
  <1>16. ASSUME i <= Len(e) PROVE e[i] # Empty
    <2>1. i \in 1 .. Len(d) /\ i \in DOMAIN d /\ d[i] # Empty
      BY <1>2, <1>3, <1>16
    <2>2. e[i] = IF d[i] = k THEN new ELSE d[i]
      BY <2>1 DEF e, Swap
    <2> QED
      BY <1>1, <2>1, <2>2
  <1>17. r \in [i: Nat, count: Nat]
    BY DEF RangeFine
  <1>18. RangeFine(r, e)
    BY <1>2, <1>3, <1>14, <1>15, <1>16, <1>17 DEF RangeFine, i
  <1>19. Rest(r, e) = Swap(Rest(r, d), k, new)
    BY <1>14 DEF Rest, b, i
  <1> QED
    BY <1>18, <1>19 DEF e

\* A key that is added comes last in what a range has yet to yield.
LEMMA PutIsFine ==
  ASSUME NEW d \in Seq(D), NEW r, RangeFine(r, d), NEW k \in Keys
  PROVE  /\ RangeFine(r, Append(d, k))
         /\ Rest(r, Append(d, k)) = Append(Rest(r, d), k)
  <1> DEFINE e == Append(d, k)
             i == r.i
             b == From(d, i)
  <1>1. k \in D /\ k # Empty
    BY MarksAreApart DEF D
  <1>2. /\ e \in Seq(D) /\ Len(e) = Len(d) + 1 /\ Len(d) \in Nat
        /\ \A p \in 1 .. Len(d) : e[p] = d[p]
        /\ e[Len(d) + 1] = k
    BY <1>1, OneMore
  <1>3. i \in 1 .. Len(d) + 1 /\ i \in Nat /\ r.count = Len(Live(Before(d, i))) /\ (i <= Len(d) => d[i] # Empty)
    BY DEF RangeFine
  <1> HIDE DEF i
  <1>4. Before(e, i) = Before(d, i) /\ From(e, i) = Append(b, k)
    BY <1>1, <1>3, CutOneMore
  <1>5. b \in Seq(D)
    BY <1>3, Cut
  <1> HIDE DEF b, e
  <1>6. Live(Append(b, k)) = Append(Live(b), k)
    BY <1>1, <1>5, LiveInARow
  <1>7. ASSUME i <= Len(e) PROVE e[i] # Empty
    <2>1. CASE i = Len(d) + 1
      BY <1>1, <1>2, <2>1
    <2>2. CASE i # Len(d) + 1
      <3>1. i \in 1 .. Len(d) /\ i <= Len(d)
        BY <1>2, <1>3, <2>2
      <3> QED
        BY <1>2, <1>3, <3>1
    <2> QED
      BY <2>1, <2>2
  <1>8. r \in [i: Nat, count: Nat]
    BY DEF RangeFine
  <1>9. i \in 1 .. Len(e) + 1
    BY <1>2, <1>3
  <1>10. RangeFine(r, e)
    BY <1>3, <1>4, <1>7, <1>8, <1>9 DEF RangeFine, i
  <1>11. Rest(r, e) = Append(Rest(r, d), k)
    BY <1>4, <1>6 DEF Rest, b, i
  <1> QED
    BY <1>10, <1>11 DEF e

\* After compacting a range stands where its count says, before the entries
\* that it had yet to yield and those that are added with the compacting.
LEMMA CompactIsFine ==
  ASSUME NEW d \in Seq(D), NEW r, RangeFine(r, d), NEW more \in Seq(Keys)
  PROVE  /\ RangeFine(onCompact(r), Live(d) \o more)
         /\ Rest(onCompact(r), Live(d) \o more) = Rest(r, d) \o more
  <1> DEFINE i == r.i
             a == Live(Before(d, i))
             b == Live(From(d, i))
             e == Live(d) \o more
             n == onCompact(r)
             m == Len(a)
  <1>1. i \in 1 .. Len(d) + 1 /\ r.count = m /\ r \in [i: Nat, count: Nat]
    BY DEF RangeFine
  <1>2. Live(d) = a \o b /\ a \in Seq(Keys) /\ b \in Seq(Keys) /\ m \in Nat
    BY <1>1, LiveCut
  <1>3. n \in [i: Nat, count: Nat] /\ n.i = m + 1 /\ n.count = m
    <2> HIDE DEF m
    <2>1. m + 1 \in Nat /\ r.count = m
      BY <1>1, <1>2
    <2>2. n = [r EXCEPT !.i = m + 1]
      BY <2>1 DEF onCompact
    <2> HIDE DEF n, i
    <2> QED
      BY <1>1, <2>1, <2>2
  <1>4. Rest(r, d) = b
    BY DEF Rest
  <1> HIDE DEF a, b, n
  <1>5. e = a \o (b \o more) /\ b \o more \in Seq(Keys)
    <2>1. (a \o b) \o more = a \o (b \o more) /\ b \o more \in Seq(Keys)
      BY <1>2, ConcatAssociative
    <2> QED
      BY <1>2, <2>1
  <1> DEFINE f == b \o more
  <1>6. e = a \o f /\ f \in Seq(Keys)
    BY <1>5
  <1>7. e \in Seq(Keys) /\ Len(e) = m + Len(f) /\ Len(f) \in Nat
    <2> HIDE DEF e, f
    <2> QED
      BY <1>2, <1>6, InARow
  <1>8. Before(e, m + 1) = a /\ From(e, m + 1) = f
    <2> HIDE DEF e, f
    <2> QED
      BY <1>2, <1>6, CutOfRow
  <1> HIDE DEF e, f
  <1>9. Live(a) = a /\ Live(f) = f /\ \A p \in 1 .. Len(e) : e[p] # Empty
    BY <1>2, <1>6, <1>7, KeysAreLive
  <1> HIDE DEF m
  <1>10. m + 1 \in 1 .. Len(e) + 1 /\ (m + 1 <= Len(e) => e[m + 1] # Empty)
    BY <1>2, <1>7, <1>9
  <1>11. Len(Live(Before(e, m + 1))) = m
    BY <1>8, <1>9 DEF m
  <1>12. RangeFine(n, e)
    BY <1>3, <1>10, <1>11 DEF RangeFine
  <1>13. Rest(n, e) = f
    BY <1>3, <1>8, <1>9 DEF Rest
  <1> QED
    BY <1>4, <1>12, <1>13 DEF n, e, f

-----------------------------------------------------------------------------
(* The chains.                                                               *)

\* In b buckets each live entry is on the chain that its hash tells.
ChainsFine(ht, d, b) ==
  /\ b \in Nat \ {0}
  /\ ht \in [0 .. b - 1 -> SUBSET (1 .. Len(d))]
  /\ \A j \in 1 .. Len(d) : d[j] # Empty => j \in ht[BucketOf(d[j], b)]

\* The topmost bits of a hash are a bucket.
LEMMA BucketInRange ==
  ASSUME NEW k \in Keys, NEW b \in Nat \ {0}
  PROVE  BucketOf(k, b) \in 0 .. b - 1
  <1> DEFINE h == HashOf[k]
             H == Hashes
             a == h * b
             q == a \div H
  <1>1. h \in Nat /\ H \in Nat \ {0} /\ h <= H - 1
    BY HashAssumption
  <1> HIDE DEF h, H
  <1>2. a \in Nat /\ a < H * b
    <2>1. (H - h) \in Nat /\ H - h >= 1
      BY <1>1
    <2>2. (H - h) * b >= b
      BY <2>1
    <2>3. (H - h) * b = H * b - h * b
      BY <1>1
    <2> QED
      BY <1>1, <2>2, <2>3
  <1> HIDE DEF a
  <1>3. q \in Nat /\ H * q <= a
    BY <1>1, <1>2
  <1> HIDE DEF q
  <1>4. q < b
    <2> SUFFICES ASSUME q >= b PROVE FALSE
      BY <1>3
    <2>1. q - b \in Nat /\ H * (q - b) \in Nat
      BY <1>1, <1>3
    <2>2. H * (q - b) = H * q - H * b
      BY <1>1, <1>3
    <2> QED
      BY <1>1, <1>2, <1>3, <2>1, <2>2
  <1>5. q \in 0 .. b - 1
    BY <1>3, <1>4
  <1> QED
    BY <1>5 DEF BucketOf, q, a, h, H

\* The number of buckets is that of the chains.
LEMMA BucketsCounted ==
  ASSUME NEW b \in Nat, NEW S, NEW ht \in [0 .. b - 1 -> S]
  PROVE  Cardinality(DOMAIN ht) = b
  <1>1. DOMAIN ht = 0 .. b - 1
    OBVIOUS
  <1>2. Cardinality(0 .. b - 1) = b
    <2>1. Cardinality(0 .. b - 1) = IF 0 > b - 1 THEN 0 ELSE (b - 1) - 0 + 1
      BY FS_Interval
    <2> QED
      BY <2>1
  <1> QED
    BY <1>1, <1>2

\* Hashed anew, each key is on its chain.
LEMMA ChainsAreFine ==
  ASSUME NEW q \in Seq(Keys), NEW b \in Nat \ {0}
  PROVE  ChainsFine(Chains(q, b), q, b)
  <1>1. DOMAIN q = 1 .. Len(q) /\ \A j \in 1 .. Len(q) : q[j] \in Keys
    OBVIOUS
  <1>2. \A j \in 1 .. Len(q) : BucketOf(q[j], b) \in 0 .. b - 1
    BY <1>1, BucketInRange
  <1> QED
    BY <1>1, <1>2 DEF Chains, ChainsFine

\* To find the places of a key is to look through its chain.
LEMMA LookupFinds ==
  ASSUME NEW k \in Keys, data \in Seq(D), ChainsFine(hashTable, data, hashBuckets)
  PROVE  Lookup(k) = {p \in 1 .. Len(data) : data[p] = k}
  <1> DEFINE c == BucketOf(k, hashBuckets)
  <1>1. c \in 0 .. hashBuckets - 1
    BY BucketInRange DEF ChainsFine
  <1>2. k # Empty
    BY MarksAreApart
  <1> HIDE DEF c
  <1>3. hashTable[c] \in SUBSET (1 .. Len(data))
    <2> HIDE DEF hashBuckets
    <2> QED
      BY <1>1 DEF ChainsFine
  <1>4. ASSUME NEW p \in 1 .. Len(data), data[p] = k
        PROVE  p \in hashTable[c]
    BY <1>2, <1>4 DEF ChainsFine, c
  <1>5. Lookup(k) = {p \in hashTable[c] : data[p] = k}
    BY DEF Lookup, c
  <1> QED
    BY <1>3, <1>4, <1>5

-----------------------------------------------------------------------------
(* The invariant.                                                            *)

\* Each range that is open is fine.
RangesFine(rs, d) ==
  /\ rs = [it \in Iterators |-> rs[it]]
  /\ \A it \in Iterators : rs[it] = NoRange \/ RangeFine(rs[it], d)

\* The entries are keys and no key is there twice; the live count is exact,
\* there is room, each entry is on its chain, and each range stands where its
\* count says.
TableInv ==
  /\ data \in Seq(D)
  /\ Once(data, Empty)
  /\ liveCount = Len(Live(data))
  /\ Len(data) <= Capacity(hashBuckets)
  /\ ChainsFine(hashTable, data, hashBuckets)
  /\ RangesFine(ranges, data)

\* What each iterator of rs has yet to yield of d, if it is open.
Left(rs, d, it) == IF rs[it] = NoRange THEN NoRange ELSE Rest(rs[it], d)

\* A range is no mark, and what it has yet to yield is a list of keys.
LEMMA OpenIsOpen ==
  ASSUME NEW d \in Seq(D), NEW r, RangeFine(r, d)
  PROVE  r # NoRange /\ Rest(r, d) \in Seq(Keys) /\ Rest(r, d) # NoRange
  <1>1. r \in [i: Nat, count: Nat] /\ r.i \in 1 .. Len(d) + 1
    BY DEF RangeFine
  <1>2. Live(From(d, r.i)) \in Seq(Keys)
    BY <1>1, LiveCut
  <1> QED
    BY <1>1, <1>2, MarksAreApart, Zenon DEF Rest

\* The place of a key, and putting another there.
LEMMA PlaceOfKey ==
  ASSUME NEW d \in Seq(D), Once(d, Empty), NEW k \in Keys, NEW j \in 1 .. Len(d), d[j] = k,
         NEW new \in D
  PROVE  [d EXCEPT ![j] = new] = Swap(d, k, new)
  <1>1. k # Empty
    BY MarksAreApart
  <1>2. \A p \in 1 .. Len(d) : d[p] = k => p = j
    BY <1>1 DEF Once
  <1>3. DOMAIN d = 1 .. Len(d)
    OBVIOUS
  <1> QED
    BY <1>2, <1>3 DEF Swap

\* Blanking a key or giving it another name makes nothing occur twice.
LEMMA OnceSwap ==
  ASSUME NEW d \in Seq(D), Once(d, Empty), NEW k \in Keys, NEW new \in D, ~Occurs(new, d) \/ new = Empty
  PROVE  Once(Swap(d, k, new), Empty)
  <1> DEFINE e == Swap(d, k, new)
  <1>1. Len(e) = Len(d)
    BY SwapSteps
  <1>2. \A p \in 1 .. Len(d) : e[p] = IF d[p] = k THEN new ELSE d[p]
    BY DEF Swap
  <1>3. k # Empty
    BY MarksAreApart
  <1> HIDE DEF e
  <1> SUFFICES ASSUME NEW p \in 1 .. Len(d), NEW s \in 1 .. Len(d), e[p] = e[s], e[p] # Empty
               PROVE  p = s
    BY <1>1 DEF Once, e
  <1>4. new # Empty => d[p] # new /\ d[s] # new
    BY DEF Occurs
  <1>5. d[p] = d[s] /\ d[p] # Empty
    BY <1>2, <1>3, <1>4
  <1> QED
    BY <1>5 DEF Once

-----------------------------------------------------------------------------
(* What the operations do.                                                   *)

\* An operation that makes of every list what the function says: the table is
\* as it should be, and its entries and what each range has left are mapped.
Maps(f) ==
  /\ TableInv'
  /\ Live(data)' = f[Live(data)]
  /\ \A it \in Iterators : Left(ranges, data, it)' =
        IF ranges[it] = NoRange THEN NoRange ELSE f[Left(ranges, data, it)]

\* A rehash of a data vector whose ranges are fine, with room for what is live.
LEMMA RehashKeeps ==
  ASSUME NEW d \in Seq(D), NEW b \in Nat \ {0}, NEW rs, RangesFine(rs, d), NEW more \in Seq(Keys),
         Once(Live(d) \o more, Empty), Len(Live(d) \o more) <= Capacity(b),
         Rehash(d, b, rs, more), liveCount' = Len(Live(d) \o more)
  PROVE  /\ TableInv' /\ data' = Live(d) \o more /\ Live(data)' = data'
         /\ \A it \in Iterators : Left(ranges, data, it)' =
                IF rs[it] = NoRange THEN NoRange ELSE Rest(rs[it], d) \o more
  <1> DEFINE e == Live(d) \o more
  <1>1. e \in Seq(Keys)
    <2>1. Live(d) \in Seq(Keys)
      BY LiveFacts
    <2> DEFINE l == Live(d)
    <2> HIDE DEF l
    <2>2. l \in Seq(Keys) => l \o more \in Seq(Keys)
      OBVIOUS
    <2> QED
      BY <2>1, <2>2 DEF l
  <1>2. data' = e /\ hashTable' = Chains(e, b) /\ ranges' = Update(rs, onCompact)
    BY DEF Rehash
  <1>3. ASSUME NEW it \in Iterators
        PROVE  /\ ranges'[it] = IF rs[it] = NoRange THEN NoRange ELSE onCompact(rs[it])
               /\ rs[it] # NoRange => /\ RangeFine(ranges'[it], e) /\ ranges'[it] # NoRange
                                      /\ Rest(ranges'[it], e) = Rest(rs[it], d) \o more
    <2>1. ranges'[it] = IF rs[it] = NoRange THEN NoRange ELSE onCompact(rs[it])
      BY <1>2 DEF Update
    <2>2. ASSUME rs[it] # NoRange
          PROVE  /\ RangeFine(ranges'[it], e) /\ ranges'[it] # NoRange
                 /\ Rest(ranges'[it], e) = Rest(rs[it], d) \o more
      <3>1. RangeFine(rs[it], d)
        BY <2>2 DEF RangesFine
      <3>2. ranges'[it] = onCompact(rs[it])
        BY <2>1, <2>2
      <3>3. /\ RangeFine(onCompact(rs[it]), e)
            /\ Rest(onCompact(rs[it]), e) = Rest(rs[it], d) \o more
        BY <3>1, CompactIsFine
      <3>4. e \in Seq(D)
        BY <1>1, KeysAreLive
      <3> HIDE DEF e
      <3>5. RangeFine(ranges'[it], e)
        BY <3>2, <3>3
      <3>6. ranges'[it] # NoRange
        BY <3>4, <3>5, OpenIsOpen
      <3> QED
        BY <3>2, <3>3, <3>5, <3>6
    <2> QED
      BY <2>1, <2>2
  <1>4. e \in Seq(D) /\ Live(e) = e
    BY <1>1, KeysAreLive
  <1> HIDE DEF e
  <1>5. ChainsFine(hashTable', data', b)
    BY <1>1, <1>2, ChainsAreFine
  <1>6. hashBuckets' = b
    <2>1. b \in Nat /\ hashTable' \in [0 .. b - 1 -> SUBSET (1 .. Len(data'))]
      BY <1>5 DEF ChainsFine
    <2> QED
      BY <2>1, BucketsCounted DEF hashBuckets
  <1>7. RangesFine(ranges', data')
    <2>1. ranges' = [it \in Iterators |-> ranges'[it]]
      BY <1>2 DEF Update
    <2>2. \A it \in Iterators : ranges'[it] = NoRange \/ RangeFine(ranges'[it], data')
      BY <1>2, <1>3
    <2> QED
      BY <2>1, <2>2 DEF RangesFine
  <1>8. TableInv'
    BY <1>2, <1>4, <1>5, <1>6, <1>7 DEF TableInv, e
  <1>9. ASSUME NEW it \in Iterators
        PROVE  Left(ranges, data, it)' = IF rs[it] = NoRange THEN NoRange ELSE Rest(rs[it], d) \o more
    BY <1>2, <1>3 DEF Left
  <1> QED
    BY <1>2, <1>4, <1>8, <1>9 DEF e

\* A key that is put comes last everywhere.
LEMMA PutMaps ==
  ASSUME TableInv, NEW k \in Keys, Put(k)
  PROVE  ~Occurs(k, data) /\ Maps([s \in Seq(Keys) |-> Append(s, k)])
  <1> DEFINE f == [s \in Seq(Keys) |-> Append(s, k)]
             B == hashBuckets
  <1>0. data \in Seq(D) /\ Once(data, Empty) /\ liveCount = Len(Live(data)) /\ Len(data) <= Capacity(B)
        /\ ChainsFine(hashTable, data, B) /\ RangesFine(ranges, data) /\ B \in Nat \ {0}
    BY DEF TableInv, ChainsFine
  <1>k. k \in D /\ k # Empty
    BY MarksAreApart DEF D
  <1>1. ~Occurs(k, data)
    <2>1. Lookup(k) = {p \in 1 .. Len(data) : data[p] = k}
      BY <1>0, LookupFinds
    <2>2. Lookup(k) = {}
      BY DEF Put
    <2> QED
      BY <2>1, <2>2 DEF Occurs
  <1>2. Live(data) = Sieve(data, Empty) /\ Live(data) \in Seq(Keys) /\ Len(Live(data)) <= Len(data)
        /\ Len(Live(data)) \in Nat /\ Len(data) \in Nat
    BY <1>0, LiveFacts
  <1>3. f[Live(data)] = Append(Live(data), k)
    BY <1>2
  <1>4. ASSUME NEW it \in Iterators, ranges[it] # NoRange
        PROVE  /\ RangeFine(ranges[it], data) /\ Left(ranges, data, it) = Rest(ranges[it], data)
               /\ f[Left(ranges, data, it)] = Append(Rest(ranges[it], data), k)
    <2>1. RangeFine(ranges[it], data)
      BY <1>0, <1>4 DEF RangesFine
    <2>2. Rest(ranges[it], data) \in Seq(Keys)
      BY <1>0, <2>1, OpenIsOpen
    <2>3. Left(ranges, data, it) = Rest(ranges[it], data)
      BY <1>4 DEF Left
    <2> QED
      BY <2>1, <2>2, <2>3
  <1> HIDE DEF f
  <1>5. CASE /\ Len(data) < Capacity(B)
             /\ data' = Append(data, k)
             /\ hashTable' = [hashTable EXCEPT ![BucketOf(k, B)] = @ \cup {Len(data) + 1}]
             /\ UNCHANGED ranges
    <2> DEFINE e == Append(data, k)
               c == BucketOf(k, B)
    <2>1. /\ e \in Seq(D) /\ Len(e) = Len(data) + 1
          /\ \A i \in 1 .. Len(data) : e[i] = data[i]
          /\ e[Len(data) + 1] = k
      BY <1>0, <1>k, OneMore
    <2>2. Once(e, Empty)
      BY <1>0, <1>1, <1>k, OnceSteps
    <2>3. Live(e) = Append(Live(data), k)
      BY <1>0, <1>k, LiveInARow
    <2>4. Len(Live(e)) = Len(Live(data)) + 1
      <3> DEFINE l == Live(data)
      <3>1. l \in Seq(Keys)
        BY <1>2
      <3> HIDE DEF l
      <3>2. Len(Append(l, k)) = Len(l) + 1
        BY <3>1
      <3> QED
        BY <2>3, <3>2 DEF l
    <2>5. \A it \in Iterators : ranges[it] # NoRange =>
             RangeFine(ranges[it], e) /\ Rest(ranges[it], e) = Append(Rest(ranges[it], data), k)
      BY <1>0, <1>4, PutIsFine
    <2>6. c \in 0 .. B - 1
      BY <1>0, BucketInRange
    <2> HIDE DEF e, c
    <2>7. data' = e /\ hashTable' = [hashTable EXCEPT ![c] = @ \cup {Len(data) + 1}] /\ ranges' = ranges
      BY <1>5 DEF e, c
    <2>8. ChainsFine(hashTable', e, B)
      <3> HIDE DEF B
      <3> DEFINE m == Len(data)
      <3>1. hashTable \in [0 .. B - 1 -> SUBSET (1 .. m)] /\ m \in Nat /\ Len(e) = m + 1
        BY <1>0, <1>2, <2>1 DEF ChainsFine
      <3>2. \A j \in 1 .. m : data[j] # Empty => j \in hashTable[BucketOf(data[j], B)]
        BY <1>0 DEF ChainsFine
      <3>3. hashTable' = [hashTable EXCEPT ![c] = hashTable[c] \cup {m + 1}]
        BY <2>7
      <3>4. /\ \A j \in 1 .. m : e[j] = data[j]
            /\ e[m + 1] = k
        BY <2>1
      <3> HIDE DEF m
      <3>5. hashTable' \in [0 .. B - 1 -> SUBSET (1 .. m + 1)]
        <4>1. \A x \in 0 .. B - 1 : hashTable[x] \in SUBSET (1 .. m + 1)
          BY <3>1
        <4>2. hashTable[c] \cup {m + 1} \in SUBSET (1 .. m + 1)
          BY <2>6, <3>1
        <4> QED
          BY <2>6, <3>1, <3>3, <4>1, <4>2
      <3>6. ASSUME NEW j \in 1 .. m + 1, e[j] # Empty
            PROVE  j \in hashTable'[BucketOf(e[j], B)]
        <4>1. CASE j = m + 1
          <5>1. BucketOf(e[j], B) = c
            BY <3>4, <4>1 DEF c
          <5>2. hashTable'[c] = hashTable[c] \cup {m + 1}
            BY <2>6, <3>1, <3>3
          <5> QED
            BY <4>1, <5>1, <5>2
        <4>2. CASE j # m + 1
          <5>1. j \in 1 .. m /\ e[j] = data[j]
            BY <3>1, <3>4, <4>2
          <5> DEFINE x == BucketOf(data[j], B)
          <5>2. j \in hashTable[x]
            BY <3>2, <3>6, <5>1
          <5>3. data[j] \in Keys
            BY <1>0, <3>6, <5>1 DEF D, m
          <5>4. x \in 0 .. B - 1
            BY <1>0, <5>3, BucketInRange
          <5> HIDE DEF x
          <5>5. hashTable[x] \subseteq hashTable'[x]
            BY <2>6, <3>1, <3>3, <5>4
          <5> QED
            BY <5>1, <5>2, <5>5 DEF x
        <4> QED
          BY <4>1, <4>2
      <3> QED
        BY <1>0, <3>1, <3>5, <3>6 DEF ChainsFine
    <2>9. hashBuckets' = B
      <3>1. B \in Nat /\ hashTable' \in [0 .. B - 1 -> SUBSET (1 .. Len(e))]
        BY <2>8 DEF ChainsFine
      <3> HIDE DEF B
      <3> QED
        BY <3>1, BucketsCounted DEF hashBuckets
    <2>10. RangesFine(ranges', e)
      BY <1>0, <2>5, <2>7 DEF RangesFine
    <2>11. liveCount' = Len(Live(e))
      <3>1. liveCount' = liveCount + 1
        BY DEF Put
      <3> QED
        BY <1>0, <2>4, <3>1
    <2>12. Len(e) <= Capacity(B)
      <3>1. Capacity(B) \in Nat
        BY <1>0 DEF Capacity
      <3> QED
        BY <1>2, <1>5, <2>1, <3>1
    <2>13. TableInv'
      BY <2>1, <2>2, <2>7, <2>8, <2>9, <2>10, <2>11, <2>12 DEF TableInv
    <2>14. Live(data)' = f[Live(data)]
      BY <1>3, <2>3, <2>7
    <2>15. ASSUME NEW it \in Iterators
           PROVE  Left(ranges, data, it)' = IF ranges[it] = NoRange THEN NoRange ELSE f[Left(ranges, data, it)]
      BY <1>4, <2>5, <2>7 DEF Left
    <2> QED
      BY <1>1, <2>13, <2>14, <2>15 DEF Maps, f
  <1>6. CASE /\ Len(data) = Capacity(B)
             /\ Rehash(data, IF IsLoaded THEN 2 * B ELSE B, ranges, <<k>>)
    <2> DEFINE b == IF IsLoaded THEN 2 * B ELSE B
               l == Live(data)
               more == <<k>>
    <2>0. l \in Seq(Keys) /\ Len(l) <= Len(data) /\ Len(l) \in Nat /\ liveCount = Len(l)
      BY <1>0, <1>2
    <2>1. l \o more = Append(l, k) /\ more \in Seq(Keys) /\ Len(Append(l, k)) = Len(l) + 1
      <3> HIDE DEF l
      <3> QED
        BY <2>0
    <2>2. b \in Nat \ {0} /\ Len(l) + 1 <= Capacity(b)
      <3> HIDE DEF l, B
      <3>1. CASE 4 * Len(l) >= 3 * Capacity(B)
        <4>1. b = 2 * B
          BY <2>0, <3>1 DEF IsLoaded, B
        <4>2. (8 * (2 * B)) \div 3 >= (8 * B) \div 3 + 1 /\ (8 * B) \div 3 \in Nat
          BY <1>0
        <4> QED
          BY <1>0, <1>2, <1>6, <2>0, <4>1, <4>2 DEF Capacity
      <3>2. CASE ~(4 * Len(l) >= 3 * Capacity(B))
        <4>1. b = B
          BY <2>0, <3>2 DEF IsLoaded, B
        <4>2. Capacity(B) \in Nat
          BY <1>0 DEF Capacity
        <4> QED
          BY <1>0, <2>0, <3>2, <4>1, <4>2
      <3> QED
        BY <3>1, <3>2
    <2>3. Once(l \o more, Empty)
      <3>1. Once(l, Empty)
        BY <1>0, <1>2, SieveOnce
      <3>2. ~Occurs(k, l)
        BY <1>0, <1>1, <1>2, SieveOccurs
      <3>3. l \in Seq(D)
        BY <2>0, KeysAreLive
      <3> HIDE DEF l
      <3>4. Once(Append(l, k), Empty)
        BY <1>k, <3>1, <3>2, <3>3, OnceSteps
      <3> QED
        BY <2>1, <3>4
    <2>4. liveCount' = Len(l \o more)
      <3>1. liveCount' = liveCount + 1
        BY DEF Put
      <3> QED
        BY <2>0, <2>1, <3>1
    <2>5. Rehash(data, b, ranges, more)
      BY <1>6
    <2>6. Len(l \o more) <= Capacity(b)
      BY <2>1, <2>2
    <2> HIDE DEF b, more
    <2>7. /\ TableInv' /\ data' = l \o more /\ Live(data)' = data'
          /\ \A it \in Iterators : Left(ranges, data, it)' =
                IF ranges[it] = NoRange THEN NoRange ELSE Rest(ranges[it], data) \o more
      BY <1>0, <2>1, <2>2, <2>3, <2>4, <2>5, <2>6, RehashKeeps
    <2>8. Live(data)' = f[Live(data)]
      BY <1>3, <2>1, <2>7
    <2>9. ASSUME NEW it \in Iterators
          PROVE  Left(ranges, data, it)' = IF ranges[it] = NoRange THEN NoRange ELSE f[Left(ranges, data, it)]
      <3>1. CASE ranges[it] = NoRange
        BY <2>7, <3>1
      <3>2. CASE ranges[it] # NoRange
        <4> DEFINE q == Rest(ranges[it], data)
        <4>1. q \in Seq(Keys)
          BY <1>0, <1>4, <3>2, OpenIsOpen
        <4>2. f[Left(ranges, data, it)] = Append(q, k)
          BY <1>4, <3>2
        <4>3. Left(ranges, data, it)' = q \o more
          BY <2>7, <3>2
        <4> HIDE DEF q
        <4>4. q \o more = Append(q, k)
          BY <4>1 DEF more
        <4> QED
          BY <3>2, <4>2, <4>3, <4>4
      <3> QED
        BY <3>1, <3>2
    <2> QED
      BY <1>1, <2>7, <2>8, <2>9 DEF Maps, f
  <1> QED
    BY <1>5, <1>6 DEF Put

\* A key that is removed is taken out everywhere.
LEMMA RemoveMaps ==
  ASSUME TableInv, NEW k \in Keys, Remove(k)
  PROVE  Occurs(k, data) /\ Maps([s \in Seq(Keys) |-> Sieve(s, k)])
  <1> DEFINE f == [s \in Seq(Keys) |-> Sieve(s, k)]
             B == hashBuckets
             e == Swap(data, k, Empty)
             After(j) == [it \in Iterators |-> IF ranges[it] = NoRange THEN NoRange ELSE onRemove(ranges[it], j, e)]
  <1>0. data \in Seq(D) /\ Once(data, Empty) /\ liveCount = Len(Live(data)) /\ Len(data) <= Capacity(B)
        /\ ChainsFine(hashTable, data, B) /\ RangesFine(ranges, data) /\ B \in Nat \ {0}
    BY DEF TableInv, ChainsFine
  <1>k. Empty \in D /\ k \in D /\ k # Empty
    BY MarksAreApart DEF D
  <1>l. Lookup(k) = {p \in 1 .. Len(data) : data[p] = k}
    BY <1>0, LookupFinds
  <1> DEFINE At(j, d) == [it \in Iterators |-> IF ranges[it] = NoRange THEN NoRange ELSE onRemove(ranges[it], j, d)]
             Blank(j) == [data EXCEPT ![j] = Empty]
  <1>1. PICK j \in Lookup(k) :
          /\ liveCount' = liveCount - 1
          /\ \/ /\ MayShrink(liveCount - 1)
                /\ Rehash(Blank(j), B \div 2, At(j, Blank(j)), <<>>)
             \/ data' = Blank(j) /\ ranges' = At(j, Blank(j)) /\ hashTable' = hashTable
    <2>1. \E j \in Lookup(k), shrunk \in BOOLEAN :
            /\ liveCount' = Lower(shrunk)
            /\ \/ /\ shrunk /\ MayShrink(liveCount - 1)
                  /\ Rehash(Blank(j), B \div 2, At(j, Blank(j)), <<>>)
               \/ /\ ~shrunk
                  /\ data' = Blank(j) /\ ranges' = At(j, Blank(j))
                  /\ UNCHANGED hashTable
            /\ UNCHANGED result
      BY Zenon DEF Remove, Update
    <2> HIDE DEF At, Blank, B
    <2> QED
      BY <2>1 DEF Lower
  <1>2. j \in 1 .. Len(data) /\ data[j] = k
    BY <1>l
  <1>3. [data EXCEPT ![j] = Empty] = e
    BY <1>0, <1>k, <1>2, PlaceOfKey
  <1> DEFINE rs == After(j)
  <1>4. Blank(j) = e /\ At(j, e) = rs
    BY <1>3
  <1>5. /\ liveCount' = liveCount - 1
        /\ \/ MayShrink(liveCount - 1) /\ Rehash(e, B \div 2, rs, <<>>)
           \/ data' = e /\ ranges' = rs /\ hashTable' = hashTable
    <2> HIDE DEF e, rs, At, Blank, B
    <2> QED
      BY <1>1, <1>4
  <1>6. Occurs(k, data)
    BY <1>2 DEF Occurs
  <1>7. e \in Seq(D) /\ Len(e) = Len(data) /\ Once(e, Empty)
    <2>1. e \in Seq(D) /\ Len(e) = Len(data)
      BY <1>0, <1>k, SwapSteps
    <2>2. Once(e, Empty)
      BY <1>0, <1>k, OnceSwap
    <2> QED
      BY <2>1, <2>2
  <1>8. /\ Live(data) = Sieve(data, Empty) /\ Live(data) \in Seq(Keys)
        /\ Len(Live(data)) \in Nat /\ Len(data) \in Nat
    BY <1>0, LiveFacts
  <1>9. Live(e) = Sieve(Live(data), k)
    <2>1. Sieve(e, Empty) = Sieve(Sieve(data, Empty), k)
      <3>1. /\ Sieve(Swap(data, k, Empty), Empty) = Sieve(Sieve(data, Empty), k)
            /\ Sieve(Swap(data, k, k), Empty) = Swap(Sieve(data, Empty), k, k)
        <4>1. data \in Seq(D)
          BY <1>0
        <4> QED
          BY <1>k, <4>1, SieveOfSwap
      <3> QED
        BY <3>1
    <2> HIDE DEF e
    <2>2. Live(e) = Sieve(e, Empty)
      BY <1>7, LiveFacts
    <2> QED
      BY <1>8, <2>1, <2>2
  <1>10. Len(Live(e)) = liveCount - 1
    <2>1. Once(Live(data), Empty)
      BY <1>0, <1>8, SieveOnce
    <2>2. Occurs(k, Live(data))
      BY <1>0, <1>6, <1>8, <1>k, SieveOccurs
    <2>3. Len(Sieve(Live(data), k)) = Len(Live(data)) - 1
      BY <1>k, <1>8, <2>1, <2>2, SieveCounts
    <2> QED
      BY <1>0, <1>9, <2>3
  <1>11. f[Live(data)] = Live(e)
    BY <1>8, <1>9
  <1>12. ASSUME NEW it \in Iterators, ranges[it] # NoRange
         PROVE  /\ rs[it] # NoRange /\ RangeFine(rs[it], e)
                /\ f[Left(ranges, data, it)] = Rest(rs[it], e)
                /\ Left(rs, e, it) = Rest(rs[it], e)
    <2>1. RangeFine(ranges[it], data)
      BY <1>0, <1>12 DEF RangesFine
    <2>2. Rest(ranges[it], data) \in Seq(Keys)
      BY <1>0, <2>1, OpenIsOpen
    <2>3. Left(ranges, data, it) = Rest(ranges[it], data)
      BY <1>12 DEF Left
    <2>4. f[Left(ranges, data, it)] = Sieve(Rest(ranges[it], data), k)
      BY <2>2, <2>3
    <2>5. rs[it] = onRemove(ranges[it], j, e)
      BY <1>12
    <2>6. /\ RangeFine(onRemove(ranges[it], j, e), e)
          /\ Rest(onRemove(ranges[it], j, e), e) = Sieve(Rest(ranges[it], data), k)
      BY <1>0, <1>2, <2>1, RemoveIsFine
    <2> HIDE DEF f, e, rs
    <2>7. RangeFine(rs[it], e) /\ f[Left(ranges, data, it)] = Rest(rs[it], e)
      BY <2>4, <2>5, <2>6
    <2>8. rs[it] # NoRange
      BY <1>7, <2>7, OpenIsOpen
    <2> QED
      BY <2>7, <2>8 DEF Left
  <1>13. \A it \in Iterators : ranges[it] = NoRange => rs[it] = NoRange
    OBVIOUS
  <1>14. rs = [it \in Iterators |-> rs[it]]
    OBVIOUS
  <1> HIDE DEF f, e, rs
  <1>15. RangesFine(rs, e)
    BY <1>12, <1>13, <1>14 DEF RangesFine
  <1>16. CASE data' = e /\ ranges' = rs /\ hashTable' = hashTable
    <2>1. ChainsFine(hashTable, e, B)
      <3>1. ASSUME NEW p \in 1 .. Len(e), e[p] # Empty PROVE p \in hashTable[BucketOf(e[p], B)]
        <4>1. p \in 1 .. Len(data) /\ p \in DOMAIN data
          BY <1>0, <1>7
        <4>2. e[p] = data[p]
          BY <3>1, <4>1 DEF e, Swap
        <4> QED
          BY <1>0, <3>1, <4>1, <4>2 DEF ChainsFine
      <3> QED
        BY <1>0, <1>7, <3>1 DEF ChainsFine
    <2>2. hashBuckets' = B
      BY <1>16 DEF hashBuckets
    <2>3. TableInv'
      BY <1>0, <1>5, <1>7, <1>10, <1>15, <1>16, <2>1, <2>2 DEF TableInv
    <2>4. Live(data)' = f[Live(data)]
      BY <1>11, <1>16
    <2>5. ASSUME NEW it \in Iterators
          PROVE  Left(ranges, data, it)' = IF ranges[it] = NoRange THEN NoRange ELSE f[Left(ranges, data, it)]
      <3>1. Left(ranges, data, it)' = Left(rs, e, it)
        BY <1>16 DEF Left
      <3> QED
        BY <1>12, <1>13, <3>1 DEF Left
    <2> QED
      BY <1>6, <2>3, <2>4, <2>5 DEF Maps, f
  <1>17. CASE MayShrink(liveCount - 1) /\ Rehash(e, B \div 2, rs, <<>>)
    <2> DEFINE b == B \div 2
               l == Live(e)
               more == <<>>
    <2>1. B > 1 /\ 4 * (liveCount - 1) < Len(data)
      <3>1. B > initialBuckets /\ 4 * (liveCount - 1) < Len(data)
        BY <1>17 DEF MayShrink
      <3>2. initialBuckets \in Nat \ {0}
        BY HashAssumption
      <3> HIDE DEF B
      <3> QED
        BY <1>0, <3>1, <3>2
    <2>2. b \in Nat \ {0}
      BY <1>0, <2>1
    <2>3. liveCount - 1 <= Capacity(b)
      <3> HIDE DEF B
      <3>1. Len(data) <= (8 * B) \div 3
        BY <1>0 DEF Capacity
      <3>2. liveCount - 1 <= (8 * (B \div 2)) \div 3
        BY <1>0, <1>8, <2>1, <3>1
      <3> QED
        BY <3>2 DEF Capacity
    <2>4. l \in Seq(Keys) /\ l = Sieve(e, Empty)
      BY <1>7, LiveFacts
    <2>5. Once(l, Empty)
      BY <1>7, <2>4, SieveOnce
    <2>6. Len(l) = liveCount - 1
      BY <1>10
    <2> HIDE DEF l, b
    <2>7. l \o more = l /\ more \in Seq(Keys)
      BY <2>4
    <2>8. Rehash(e, b, rs, more)
      BY <1>17 DEF b
    <2> HIDE DEF more
    <2>9. /\ Once(Live(e) \o more, Empty) /\ Len(Live(e) \o more) <= Capacity(b)
          /\ liveCount' = Len(Live(e) \o more)
      BY <1>5, <2>3, <2>5, <2>6, <2>7 DEF l
    <2>10. /\ TableInv' /\ data' = Live(e) \o more /\ Live(data)' = data'
           /\ \A it \in Iterators : Left(ranges, data, it)' =
                IF rs[it] = NoRange THEN NoRange ELSE Rest(rs[it], e) \o more
      BY <1>7, <1>15, <2>2, <2>7, <2>8, <2>9, RehashKeeps
    <2>11. Live(data)' = f[Live(data)]
      BY <1>11, <2>7, <2>10 DEF l
    <2>12. ASSUME NEW it \in Iterators
           PROVE  Left(ranges, data, it)' = IF ranges[it] = NoRange THEN NoRange ELSE f[Left(ranges, data, it)]
      <3>1. CASE ranges[it] = NoRange
        BY <1>13, <2>10, <3>1
      <3>2. CASE ranges[it] # NoRange
        <4> DEFINE q == Rest(rs[it], e)
        <4>1. rs[it] # NoRange /\ q \in Seq(Keys)
          BY <1>7, <1>12, <3>2, OpenIsOpen
        <4>2. f[Left(ranges, data, it)] = q
          BY <1>12, <3>2
        <4>3. Left(ranges, data, it)' = q \o more
          BY <2>10, <4>1
        <4> HIDE DEF q
        <4>4. q \o more = q
          BY <4>1 DEF more
        <4> QED
          BY <3>2, <4>2, <4>3, <4>4
      <3> QED
        BY <3>1, <3>2
    <2> QED
      BY <1>6, <2>10, <2>11, <2>12 DEF Maps, f
  <1> QED
    BY <1>5, <1>16, <1>17

\* Clearing leaves nothing anywhere.
LEMMA ClearMaps ==
  ASSUME TableInv, Clear
  PROVE  Maps([s \in Seq(Keys) |-> <<>>])
  <1> DEFINE f == [s \in Seq(Keys) |-> <<>>]
             o == <<>>
             z == [i |-> 1, count |-> 0]
  <1>0. data \in Seq(D) /\ RangesFine(ranges, data)
    BY DEF TableInv
  <1>1. /\ data' = o /\ liveCount' = 0
        /\ hashTable' = [b \in 0 .. (initialBuckets - 1) |-> {}]
        /\ ranges' = Update(ranges, onClear)
    BY DEF Clear
  <1>2. o \in Seq(Keys) /\ Len(o) = 0 /\ o \in Seq(D)
    OBVIOUS
  <1>3. Live(o) = o
    BY <1>2, KeysAreLive
  <1>4. \A it \in Iterators : ranges'[it] = IF ranges[it] = NoRange THEN NoRange ELSE z
    BY <1>1 DEF Update, onClear
  <1>5. RangeFine(z, o) /\ Rest(z, o) = o
    <2>1. Before(o, 1) = o /\ From(o, 1) = o
      <3> HIDE DEF o
      <3>1. Before(o, 1) = <<>> /\ From(o, 1) = o
        BY <1>2, CutAtEnds
      <3> QED
        BY <3>1 DEF o
    <2>2. z \in [i: Nat, count: Nat] /\ z.i = 1 /\ z.count = 0
      OBVIOUS
    <2> HIDE DEF o, z
    <2> QED
      BY <1>2, <1>3, <2>1, <2>2 DEF RangeFine, Rest
  <1>6. z # NoRange
    <2> HIDE DEF o, z
    <2> QED
      BY <1>2, <1>5, OpenIsOpen
  <1>7. \A s \in Seq(Keys) : f[s] = o
    OBVIOUS
  <1> HIDE DEF f, o, z
  <1>8. ASSUME NEW it \in Iterators
        PROVE  Left(ranges, data, it)' = IF ranges[it] = NoRange THEN NoRange ELSE f[Left(ranges, data, it)]
    <2>1. CASE ranges[it] = NoRange
      BY <1>4, <2>1 DEF Left
    <2>2. CASE ranges[it] # NoRange
      <3>1. RangeFine(ranges[it], data)
        BY <1>0, <2>2 DEF RangesFine
      <3>2. Rest(ranges[it], data) \in Seq(Keys)
        BY <1>0, <3>1, OpenIsOpen
      <3>3. f[Left(ranges, data, it)] = o
        BY <1>7, <2>2, <3>2 DEF Left
      <3>4. Left(ranges, data, it)' = o
        BY <1>1, <1>4, <1>5, <1>6, <2>2 DEF Left
      <3> QED
        BY <2>2, <3>3, <3>4
    <2> QED
      BY <2>1, <2>2
  <1>9. Live(data)' = f[Live(data)]
    <2>1. Live(data) \in Seq(Keys)
      BY <1>0, LiveFacts
    <2> QED
      BY <1>1, <1>3, <1>7, <2>1
  <1>10. RangesFine(ranges', o)
    <2>1. ranges' = [it \in Iterators |-> ranges'[it]]
      BY <1>1 DEF Update
    <2> QED
      BY <1>4, <1>5, <2>1 DEF RangesFine
  <1>11. initialBuckets \in Nat \ {0} /\ hashTable' \in [0 .. initialBuckets - 1 -> SUBSET (1 .. Len(o))]
    BY <1>1, HashAssumption
  <1>12. ChainsFine(hashTable', o, initialBuckets)
    BY <1>2, <1>11 DEF ChainsFine
  <1>13. hashBuckets' = initialBuckets
    BY <1>11, BucketsCounted DEF hashBuckets
  <1>14. Once(o, Empty) /\ Len(o) <= Capacity(initialBuckets)
    BY <1>2, <1>11 DEF Once, Capacity
  <1>15. TableInv'
    BY <1>1, <1>2, <1>3, <1>10, <1>12, <1>13, <1>14 DEF TableInv
  <1> QED
    BY <1>8, <1>9, <1>15 DEF Maps, f, o

\* A key whose object has moved is changed everywhere.
LEMMA RekeyMaps ==
  ASSUME TableInv, NEW k \in Keys, NEW new \in Keys, Rekey(k, new)
  PROVE  Occurs(k, data) /\ ~Occurs(new, data) /\ Maps([s \in Seq(Keys) |-> Swap(s, k, new)])
  <1> DEFINE f == [s \in Seq(Keys) |-> Swap(s, k, new)]
             B == hashBuckets
             e == Swap(data, k, new)
             c == BucketOf(new, B)
  <1>0. data \in Seq(D) /\ Once(data, Empty) /\ liveCount = Len(Live(data)) /\ Len(data) <= Capacity(B)
        /\ ChainsFine(hashTable, data, B) /\ RangesFine(ranges, data) /\ B \in Nat \ {0}
    BY DEF TableInv, ChainsFine
  <1>k. Empty \in D /\ k \in D /\ k # Empty /\ new \in D /\ new # Empty
    BY MarksAreApart DEF D
  <1>l. Lookup(k) = {p \in 1 .. Len(data) : data[p] = k}
    BY <1>0, LookupFinds
  <1>1. PICK j \in Lookup(k) :
          /\ \A p \in DOMAIN data : data[p] # new
          /\ data' = [data EXCEPT ![j] = new]
          /\ hashTable' = [b \in DOMAIN hashTable |->
                              (hashTable[b] \ {j}) \cup IF b = c THEN {j} ELSE {}]
          /\ UNCHANGED <<liveCount, ranges, result>>
    BY DEF Rekey
  <1>2. j \in 1 .. Len(data) /\ data[j] = k
    BY <1>l
  <1>3. data' = e
    BY <1>0, <1>k, <1>1, <1>2, PlaceOfKey
  <1>4. DOMAIN data = 1 .. Len(data) /\ Len(data) \in Nat
    BY <1>0
  <1>5. Occurs(k, data) /\ ~Occurs(new, data)
    BY <1>1, <1>2, <1>4 DEF Occurs
  <1>6. e \in Seq(D) /\ Len(e) = Len(data) /\ Once(e, Empty)
    <2>1. e \in Seq(D) /\ Len(e) = Len(data)
      BY <1>0, <1>k, SwapSteps
    <2>2. Once(e, Empty)
      BY <1>0, <1>k, <1>5, OnceSwap
    <2> QED
      BY <2>1, <2>2
  <1>7. Live(data) = Sieve(data, Empty) /\ Live(data) \in Seq(Keys) /\ Len(Live(data)) \in Nat
    BY <1>0, LiveFacts
  <1>8. Live(e) = Swap(Live(data), k, new)
    <2>1. Sieve(e, Empty) = Swap(Sieve(data, Empty), k, new)
      BY <1>0, <1>k, SieveOfSwap
    <2> HIDE DEF e
    <2>2. Live(e) = Sieve(e, Empty)
      BY <1>6, LiveFacts
    <2> QED
      BY <1>7, <2>1, <2>2
  <1>9. Len(Live(e)) = liveCount
    <2>1. Len(Swap(Live(data), k, new)) = Len(Live(data))
      BY <1>7, SwapSteps
    <2> QED
      BY <1>0, <1>8, <2>1
  <1>10. f[Live(data)] = Live(e)
    BY <1>7, <1>8
  <1>11. ASSUME NEW it \in Iterators, ranges[it] # NoRange
         PROVE  RangeFine(ranges[it], e) /\ f[Left(ranges, data, it)] = Rest(ranges[it], e)
    <2>1. RangeFine(ranges[it], data)
      BY <1>0, <1>11 DEF RangesFine
    <2>2. Rest(ranges[it], data) \in Seq(Keys)
      BY <1>0, <2>1, OpenIsOpen
    <2>3. f[Left(ranges, data, it)] = Swap(Rest(ranges[it], data), k, new)
      BY <1>11, <2>2 DEF Left
    <2>4. RangeFine(ranges[it], e) /\ Rest(ranges[it], e) = Swap(Rest(ranges[it], data), k, new)
      BY <1>0, <2>1, RekeyIsFine
    <2> QED
      BY <2>3, <2>4
  <1>12. c \in 0 .. B - 1
    BY <1>0, BucketInRange
  <1>13. \A p \in 1 .. Len(data) : e[p] = IF data[p] = k THEN new ELSE data[p]
    BY <1>4 DEF Swap
  <1> HIDE DEF f, e, c, B
  <1>14. ChainsFine(hashTable', e, B)
    <2> DEFINE m == Len(data)
    <2>1. hashTable \in [0 .. B - 1 -> SUBSET (1 .. m)] /\ m \in Nat /\ Len(e) = m
      BY <1>0, <1>4, <1>6 DEF ChainsFine
    <2>2. \A p \in 1 .. m : data[p] # Empty => p \in hashTable[BucketOf(data[p], B)]
      BY <1>0 DEF ChainsFine
    <2>3. \A x \in 0 .. B - 1 : hashTable'[x] = (hashTable[x] \ {j}) \cup IF x = c THEN {j} ELSE {}
      BY <1>1, <2>1
    <2>4. hashTable' = [x \in 0 .. B - 1 |-> hashTable'[x]]
      BY <1>1, <2>1
    <2>5. j \in 1 .. m
      BY <1>2
    <2> HIDE DEF m
    <2>6. \A x \in 0 .. B - 1 : hashTable'[x] \in SUBSET (1 .. m)
      BY <2>1, <2>3, <2>5
    <2>7. hashTable' \in [0 .. B - 1 -> SUBSET (1 .. m)]
      BY <2>4, <2>6
    <2>8. ASSUME NEW p \in 1 .. m, e[p] # Empty
          PROVE  p \in hashTable'[BucketOf(e[p], B)]
      <3>1. CASE p = j
        <4>1. e[p] = new
          BY <1>2, <1>13, <3>1 DEF m
        <4>2. p \in hashTable'[c]
          BY <1>12, <2>3, <3>1
        <4> QED
          BY <4>1, <4>2 DEF c
      <3>2. CASE p # j
        <4>1. data[p] # k
          BY <1>0, <1>2, <1>k, <3>2 DEF Once, m
        <4>2. e[p] = data[p]
          BY <1>13, <4>1 DEF m
        <4>3. data[p] \in Keys
          BY <1>0, <2>8, <4>2 DEF D, m
        <4> DEFINE x == BucketOf(data[p], B)
        <4>4. x \in 0 .. B - 1
          BY <1>0, <4>3, BucketInRange
        <4>5. p \in hashTable[x]
          BY <2>2, <2>8, <4>2
        <4> HIDE DEF x
        <4>6. p \in hashTable'[x]
          BY <2>3, <3>2, <4>4, <4>5
        <4> QED
          BY <4>2, <4>6 DEF x
      <3> QED
        BY <3>1, <3>2
    <2> QED
      BY <1>0, <2>1, <2>7, <2>8 DEF ChainsFine
  <1>15. hashBuckets' = B
    <2>1. B \in Nat /\ hashTable' \in [0 .. B - 1 -> SUBSET (1 .. Len(e))]
      BY <1>14 DEF ChainsFine
    <2> QED
      BY <2>1, BucketsCounted DEF hashBuckets
  <1>16. RangesFine(ranges', e)
    BY <1>0, <1>1, <1>11 DEF RangesFine
  <1>17. TableInv'
    BY <1>0, <1>1, <1>3, <1>6, <1>9, <1>14, <1>15, <1>16 DEF TableInv
  <1>18. Live(data)' = f[Live(data)]
    BY <1>3, <1>10
  <1>19. ASSUME NEW it \in Iterators
         PROVE  Left(ranges, data, it)' = IF ranges[it] = NoRange THEN NoRange ELSE f[Left(ranges, data, it)]
    BY <1>1, <1>3, <1>11 DEF Left
  <1> QED
    BY <1>5, <1>17, <1>18, <1>19 DEF Maps, f

-----------------------------------------------------------------------------
(* What the iterators do.                                                    *)

\* A step that gives one iterator a fine range or none keeps the invariant.
LEMMA OneRangeKeeps ==
  ASSUME TableInv, NEW it \in Iterators, NEW v, v = NoRange \/ RangeFine(v, data),
         ranges' = [ranges EXCEPT ![it] = v], UNCHANGED <<data, hashTable, liveCount>>
  PROVE  /\ TableInv' /\ Live(data)' = Live(data)
         /\ \A o \in Iterators : Left(ranges, data, o)' =
                IF o # it THEN Left(ranges, data, o) ELSE IF v = NoRange THEN NoRange ELSE Rest(v, data)
  <1>1. ranges = [o \in Iterators |-> ranges[o]] /\ \A o \in Iterators : ranges[o] = NoRange \/ RangeFine(ranges[o], data)
    BY DEF TableInv, RangesFine
  <1>2. /\ ranges' = [o \in Iterators |-> ranges'[o]]
        /\ \A o \in Iterators : ranges'[o] = IF o = it THEN v ELSE ranges[o]
    BY <1>1
  <1>3. RangesFine(ranges', data)
    BY <1>1, <1>2 DEF RangesFine
  <1>4. hashBuckets' = hashBuckets
    BY DEF hashBuckets
  <1>5. TableInv'
    BY <1>3, <1>4 DEF TableInv
  <1>6. \A o \in Iterators : Left(ranges, data, o)' =
            IF o # it THEN Left(ranges, data, o) ELSE IF v = NoRange THEN NoRange ELSE Rest(v, data)
    BY <1>2 DEF Left
  <1> QED
    BY <1>5, <1>6

\* A new range has all entries to yield.
LEMMA OpenGives ==
  ASSUME TableInv, NEW it \in Iterators, Open(it)
  PROVE  /\ TableInv' /\ Live(data)' = Live(data)
         /\ \A o \in Iterators : Left(ranges, data, o)' = IF o # it THEN Left(ranges, data, o) ELSE Live(data)
  <1> DEFINE v == [i |-> seek(1, data), count |-> 0]
  <1>1. data \in Seq(D) /\ Len(data) \in Nat /\ 1 \in 1 .. Len(data) + 1
    BY DEF TableInv
  <1>2. Before(data, 1) = <<>> /\ From(data, 1) = data
    BY <1>1, CutAtEnds
  <1>3. 0 = Len(Live(Before(data, 1)))
    <2>1. Live(<<>>) = <<>>
      BY NothingIsLive
    <2> QED
      BY <1>2, <2>1
  <1>4. RangeFine(v, data) /\ Rest(v, data) = Live(data)
    BY <1>1, <1>2, <1>3, SoughtIsFine
  <1>5. ranges' = [ranges EXCEPT ![it] = v] /\ UNCHANGED <<data, hashTable, liveCount>>
    BY DEF Open
  <1> HIDE DEF v
  <1>6. v # NoRange
    BY <1>1, <1>4, OpenIsOpen
  <1>7. /\ TableInv' /\ Live(data)' = Live(data)
        /\ \A o \in Iterators : Left(ranges, data, o)' =
              IF o # it THEN Left(ranges, data, o) ELSE IF v = NoRange THEN NoRange ELSE Rest(v, data)
    <2>1. v = NoRange \/ RangeFine(v, data)
      BY <1>4
    <2> QED
      BY <1>5, <2>1, OneRangeKeeps
  <1> QED
    BY <1>4, <1>6, <1>7

\* A range at the end has nothing to yield, and is dropped; another yields the
\* first of what it has, and keeps the others.
LEMMA NextGives ==
  ASSUME TableInv, NEW it \in Iterators, Next(it)
  PROVE  /\ TableInv' /\ Live(data)' = Live(data)
         /\ ranges[it] # NoRange /\ Rest(ranges[it], data) \in Seq(Keys)
         /\ \/ /\ Rest(ranges[it], data) = <<>> /\ result' = Done
               /\ \A o \in Iterators : Left(ranges, data, o)' = IF o # it THEN Left(ranges, data, o) ELSE NoRange
            \/ \E e \in Keys, q \in Seq(Keys) :
               /\ Rest(ranges[it], data) = <<e>> \o q /\ result' = e
               /\ \A o \in Iterators : Left(ranges, data, o)' = IF o # it THEN Left(ranges, data, o) ELSE q
  <1> DEFINE r == ranges[it]
  <1>1. data \in Seq(D) /\ r # NoRange /\ UNCHANGED <<data, hashTable, liveCount>>
    BY DEF Next, TableInv
  <1>2. RangeFine(r, data)
    BY <1>1 DEF TableInv, RangesFine
  <1>3. Rest(r, data) \in Seq(Keys)
    BY <1>1, <1>2, OpenIsOpen
  <1>4. CASE r.i > Len(data)
    <2>1. result' = Done /\ ranges' = [ranges EXCEPT ![it] = NoRange]
      BY <1>4 DEF Next
    <2>2. r.i = Len(data) + 1
      BY <1>1, <1>2, <1>4 DEF RangeFine
    <2>3. From(data, r.i) = <<>>
      BY <1>1, <2>2, CutAtEnds
    <2>4. Live(<<>>) = <<>>
      BY NothingIsLive
    <2>5. Rest(r, data) = <<>>
      BY <2>3, <2>4 DEF Rest
    <2>6. /\ TableInv' /\ Live(data)' = Live(data)
          /\ \A o \in Iterators : Left(ranges, data, o)' = IF o # it THEN Left(ranges, data, o) ELSE NoRange
      BY <1>1, <2>1, OneRangeKeeps
    <2> QED
      BY <1>1, <1>3, <2>1, <2>5, <2>6
  <1>5. CASE ~(r.i > Len(data))
    <2> DEFINE v == [i |-> seek(r.i + 1, data), count |-> r.count + 1]
               e == data[r.i]
               q == Live(From(data, r.i + 1))
    <2>1. result' = e /\ ranges' = [ranges EXCEPT ![it] = v]
      BY <1>5 DEF Next
    <2>2. r.i <= Len(data)
      BY <1>1, <1>2, <1>5 DEF RangeFine
    <2>3. /\ r.i + 1 \in 1 .. Len(data) + 1 /\ e \in Keys
          /\ r.count + 1 = Len(Live(Before(data, r.i + 1)))
          /\ Rest(r, data) = <<e>> \o q
      <3> HIDE DEF r
      <3> QED
        BY <1>1, <1>2, <2>2, NextIsFine
    <2>4. RangeFine(v, data) /\ Rest(v, data) = q
      <3> HIDE DEF r
      <3> QED
        BY <1>1, <2>3, SoughtIsFine
    <2>5. q \in Seq(Keys)
      BY <1>1, <2>3, LiveCut
    <2> HIDE DEF v, e, q
    <2>6. v # NoRange
      BY <1>1, <2>4, OpenIsOpen
    <2>7. /\ TableInv' /\ Live(data)' = Live(data)
          /\ \A o \in Iterators : Left(ranges, data, o)' = IF o # it THEN Left(ranges, data, o) ELSE q
      <3>1. v = NoRange \/ RangeFine(v, data)
        BY <2>4
      <3>2. /\ TableInv' /\ Live(data)' = Live(data)
            /\ \A o \in Iterators : Left(ranges, data, o)' =
                  IF o # it THEN Left(ranges, data, o) ELSE IF v = NoRange THEN NoRange ELSE Rest(v, data)
        BY <1>1, <2>1, <3>1, OneRangeKeeps
      <3> QED
        BY <2>4, <2>6, <3>2
    <2> QED
      BY <1>1, <1>3, <2>1, <2>3, <2>5, <2>7
  <1> QED
    BY <1>4, <1>5

\* A finalized iterator has no range.
LEMMA FinalizeGives ==
  ASSUME TableInv, NEW it \in Iterators, Finalize(it)
  PROVE  /\ TableInv' /\ Live(data)' = Live(data) /\ result' = result
         /\ \A o \in Iterators : Left(ranges, data, o)' = IF o # it THEN Left(ranges, data, o) ELSE NoRange
  <1>1. ranges' = [ranges EXCEPT ![it] = NoRange] /\ UNCHANGED <<data, hashTable, liveCount, result>>
    BY DEF Finalize
  <1> QED
    BY <1>1, OneRangeKeeps

-----------------------------------------------------------------------------
(* The theorems.                                                             *)

\* The invariant holds of the empty table.
LEMMA InvAtFirst ==
  ASSUME TableInit
  PROVE  TableInv
  <1>1. /\ data = <<>> /\ liveCount = 0 /\ ranges = [it \in Iterators |-> NoRange]
        /\ hashTable = [b \in 0 .. (initialBuckets - 1) |-> {}]
    BY DEF TableInit
  <1>2. initialBuckets \in Nat \ {0} /\ Len(data) = 0 /\ data \in Seq(D)
    BY <1>1, HashAssumption
  <1>3. hashTable \in [0 .. initialBuckets - 1 -> SUBSET (1 .. Len(data))]
    BY <1>1
  <1>4. hashBuckets = initialBuckets
    BY <1>2, <1>3, BucketsCounted DEF hashBuckets
  <1>5. Live(data) = <<>>
    BY <1>1, NothingIsLive
  <1>6. ChainsFine(hashTable, data, initialBuckets)
    BY <1>2, <1>3 DEF ChainsFine
  <1>7. RangesFine(ranges, data)
    BY <1>1 DEF RangesFine
  <1>8. Once(data, Empty) /\ Len(data) <= Capacity(initialBuckets)
    BY <1>2 DEF Once, Capacity
  <1> QED
    BY <1>1, <1>2, <1>4, <1>5, <1>6, <1>7, <1>8 DEF TableInv

\* Every operation keeps the invariant.
LEMMA InvKept ==
  ASSUME TableInv, [TableNext]_tableVars
  PROVE  TableInv'
  <1>1. CASE Clear
    BY <1>1, ClearMaps DEF Maps
  <1>2. ASSUME NEW k \in Keys, Put(k)
        PROVE  TableInv'
    BY <1>2, PutMaps DEF Maps
  <1>3. ASSUME NEW k \in Keys, Remove(k)
        PROVE  TableInv'
    BY <1>3, RemoveMaps DEF Maps
  <1>4. ASSUME NEW k \in Keys, NEW new \in Keys, Rekey(k, new)
        PROVE  TableInv'
    BY <1>4, RekeyMaps DEF Maps
  <1>5. ASSUME NEW it \in Iterators, Open(it)
        PROVE  TableInv'
    BY <1>5, OpenGives
  <1>6. ASSUME NEW it \in Iterators, Next(it)
        PROVE  TableInv'
    BY <1>6, NextGives
  <1>7. ASSUME NEW it \in Iterators, Finalize(it)
        PROVE  TableInv'
    BY <1>7, FinalizeGives
  <1>8. CASE UNCHANGED tableVars
    <2>1. hashBuckets' = hashBuckets
      BY <1>8 DEF tableVars, hashBuckets
    <2> QED
      BY <1>8, <2>1 DEF tableVars, TableInv
  <1> QED
    BY <1>1, <1>2, <1>3, <1>4, <1>5, <1>6, <1>7, <1>8 DEF TableNext

\* The inductive invariant of the table.
THEOREM InvAlwaysHolds == TableSpec => []TableInv
  <1>1. TableInit => TableInv
    BY InvAtFirst
  <1>2. TableInv /\ [TableNext]_tableVars => TableInv'
    BY InvKept
  <1> QED
    BY <1>1, <1>2, PTL DEF TableSpec

\* The counts of the table and of each range are exact, and there is room for
\* each entry, after whatever puts, removals, failures to shrink, clears and moves.
THEOREM CountsAreAlwaysExact == TableSpec => []CountsAreExact
  <1>1. ASSUME TableInv PROVE CountsAreExact
    <2>1. data \in Seq(D)
      BY <1>1 DEF TableInv
    <2>2. ASSUME NEW it \in Iterators, ranges[it] # NoRange
          PROVE  /\ ranges[it].i = seek(ranges[it].i, data)
                 /\ ranges[it].count = Len(Live(SubSeq(data, 1, ranges[it].i - 1)))
      <3> DEFINE r == ranges[it]
      <3>1. RangeFine(r, data)
        BY <1>1, <2>2 DEF TableInv, RangesFine
      <3> HIDE DEF r
      <3>2. r.i \in 1 .. Len(data) + 1 /\ (r.i <= Len(data) => data[r.i] # Empty)
            /\ r.count = Len(Live(SubSeq(data, 1, r.i - 1)))
        BY <3>1 DEF RangeFine, Before
      <3>3. seek(r.i, data) = r.i
        BY <2>1, <3>2, SeekFacts
      <3> QED
        BY <3>2, <3>3 DEF r
    <2> QED
      BY <1>1, <2>2 DEF TableInv, CountsAreExact
  <1> QED
    BY <1>1, InvAlwaysHolds, PTL

\* Lookup finds each key of the table at its only place.
THEOREM KeysAreAlwaysFound == TableSpec => []KeysAreFound
  <1>1. ASSUME TableInv PROVE KeysAreFound
    <2> SUFFICES ASSUME NEW j \in DOMAIN data, data[j] # Empty
                 PROVE  Lookup(data[j]) = {j}
      BY DEF KeysAreFound
    <2>1. data \in Seq(D) /\ Once(data, Empty) /\ ChainsFine(hashTable, data, hashBuckets)
      BY <1>1 DEF TableInv
    <2>2. j \in 1 .. Len(data)
      BY <2>1
    <2>3. data[j] \in Keys
      BY <2>1, <2>2 DEF D
    <2>4. Lookup(data[j]) = {p \in 1 .. Len(data) : data[p] = data[j]}
      BY <2>1, <2>3, LookupFinds
    <2> QED
      BY <2>1, <2>2, <2>4 DEF Once
  <1> QED
    BY <1>1, InvAlwaysHolds, PTL

-----------------------------------------------------------------------------
(* The table is an ordered set.                                              *)

\* What an iterator has left is a list of keys, or it is closed.
LEMMA RestsAre ==
  ASSUME TableInv
  PROVE  /\ Live(data) \in Seq(Keys)
         /\ rests = [it \in Iterators |-> rests[it]]
         /\ \A it \in Iterators : /\ rests[it] = Left(ranges, data, it)
                                  /\ rests[it] = NoRange <=> ranges[it] = NoRange
                                  /\ rests[it] = NoRange \/ rests[it] \in Seq(Keys)
  <1>1. data \in Seq(D) /\ RangesFine(ranges, data)
    BY DEF TableInv
  <1>2. Live(data) \in Seq(Keys)
    BY <1>1, LiveFacts
  <1>3. ASSUME NEW it \in Iterators
        PROVE  /\ rests[it] = Left(ranges, data, it)
               /\ rests[it] = NoRange <=> ranges[it] = NoRange
               /\ rests[it] = NoRange \/ rests[it] \in Seq(Keys)
    <2>1. rests[it] = Left(ranges, data, it)
      BY DEF rests, Left, Rest, From
    <2>2. CASE ranges[it] = NoRange
      BY <2>1, <2>2 DEF Left
    <2>3. CASE ranges[it] # NoRange
      <3>1. RangeFine(ranges[it], data)
        BY <1>1, <2>3 DEF RangesFine
      <3>2. Rest(ranges[it], data) \in Seq(Keys) /\ Rest(ranges[it], data) # NoRange
        BY <1>1, <3>1, OpenIsOpen
      <3> QED
        BY <2>1, <2>3, <3>2 DEF Left
    <2> QED
      BY <2>2, <2>3, <2>1
  <1>4. rests = [it \in Iterators |-> rests[it]]
    BY DEF rests
  <1> QED
    BY <1>2, <1>3, <1>4

\* What each iterator has left after a step, all together.
LEMMA RestsThen ==
  ASSUME NEW g, \A it \in Iterators : Left(ranges, data, it)' = g[it]
  PROVE  rests' = [it \in Iterators |-> g[it]]
  BY DEF rests, Left, Rest, From

\* An operation that maps the table maps all that the ordered set knows.
LEMMA MapsAll ==
  ASSUME TableInv, NEW f, Maps(f)
  PROVE  /\ Live(data)' = f[Live(data)]
         /\ rests' = [it \in Iterators |-> IF rests[it] = NoRange THEN NoRange ELSE f[rests[it]]]
  <1>1. \A it \in Iterators : rests[it] = Left(ranges, data, it) /\ (rests[it] = NoRange <=> ranges[it] = NoRange)
    BY RestsAre
  <1> DEFINE g == [it \in Iterators |-> IF rests[it] = NoRange THEN NoRange ELSE f[rests[it]]]
  <1>2. \A it \in Iterators : Left(ranges, data, it)' = g[it]
    BY <1>1 DEF Maps
  <1>3. rests' = [it \in Iterators |-> g[it]]
    <2> HIDE DEF g
    <2> QED
      BY <1>2, RestsThen
  <1> QED
    BY <1>3 DEF Maps

\* A key is in the ordered set if it occurs in the data.
LEMMA HoldsIsOccurs ==
  ASSUME TableInv, NEW k \in Keys
  PROVE  Table!Holds(k) <=> Occurs(k, data)
  <1> DEFINE l == Live(data)
  <1>1. data \in Seq(D) /\ k # Empty
    BY MarksAreApart DEF TableInv
  <1>2. l = Sieve(data, Empty) /\ l \in Seq(Keys)
    BY <1>1, LiveFacts
  <1>3. Occurs(k, l) <=> Occurs(k, data)
    BY <1>1, <1>2, SieveOccurs
  <1>4. Table!Holds(k) <=> \E j \in DOMAIN l : l[j] = k
    BY DEF Table!Holds
  <1> HIDE DEF l
  <1>5. DOMAIN l = 1 .. Len(l)
    BY <1>2
  <1> QED
    BY <1>3, <1>4, <1>5 DEF Occurs

\* A put is one of the ordered set.
LEMMA PutIsPut ==
  ASSUME TableInv, NEW k \in Keys, Put(k)
  PROVE  Table!APut(k)
  <1> DEFINE f == [s \in Seq(Keys) |-> Append(s, k)]
  <1>1. ~Table!Holds(k) /\ Maps(f)
    BY PutMaps, HoldsIsOccurs
  <1>2. \A s \in Seq(Keys) : f[s] = Append(s, k)
    OBVIOUS
  <1> HIDE DEF f
  <1>3. /\ Live(data)' = f[Live(data)]
        /\ rests' = [it \in Iterators |-> IF rests[it] = NoRange THEN NoRange ELSE f[rests[it]]]
    BY <1>1, MapsAll
  <1>4. Live(data) \in Seq(Keys) /\ \A it \in Iterators : rests[it] = NoRange \/ rests[it] \in Seq(Keys)
    BY RestsAre
  <1>5. result' = result
    BY DEF Put
  <1> HIDE DEF rests
  <1>6. Live(data)' = Append(Live(data), k)
    BY <1>2, <1>3, <1>4
  <1>7. rests' = [it \in Iterators |-> IF rests[it] = NoRange THEN NoRange ELSE Append(rests[it], k)]
    BY <1>2, <1>3, <1>4
  <1> QED
    BY <1>1, <1>5, <1>6, <1>7, Zenon DEF Table!APut, Table!InAll

\* A removal is one of the ordered set.
LEMMA RemoveIsRemove ==
  ASSUME TableInv, NEW k \in Keys, Remove(k)
  PROVE  Table!ARemove(k)
  <1> DEFINE f == [s \in Seq(Keys) |-> Sieve(s, k)]
  <1>1. Table!Holds(k) /\ Maps(f)
    BY RemoveMaps, HoldsIsOccurs
  <1>w. \A s : Table!Without(s, k) = Sieve(s, k)
    BY DEF Table!Without, Sieve
  <1>2. \A s \in Seq(Keys) : f[s] = Table!Without(s, k)
    BY <1>w
  <1> HIDE DEF f
  <1>3. /\ Live(data)' = f[Live(data)]
        /\ rests' = [it \in Iterators |-> IF rests[it] = NoRange THEN NoRange ELSE f[rests[it]]]
    BY <1>1, MapsAll
  <1>4. Live(data) \in Seq(Keys) /\ \A it \in Iterators : rests[it] = NoRange \/ rests[it] \in Seq(Keys)
    BY RestsAre
  <1>5. result' = result
    BY DEF Remove
  <1> HIDE DEF rests
  <1>6. Live(data)' = Table!Without(Live(data), k)
    BY <1>2, <1>3, <1>4
  <1>7. rests' = [it \in Iterators |-> IF rests[it] = NoRange THEN NoRange ELSE Table!Without(rests[it], k)]
    BY <1>2, <1>3, <1>4
  <1> QED
    BY <1>1, <1>5, <1>6, <1>7, Zenon DEF Table!ARemove, Table!InAll

\* The move of a key is one of the ordered set.
LEMMA RekeyIsRekey ==
  ASSUME TableInv, NEW k \in Keys, NEW new \in Keys, Rekey(k, new)
  PROVE  Table!ARekey(k, new)
  <1> DEFINE f == [s \in Seq(Keys) |-> Swap(s, k, new)]
  <1>1. Table!Holds(k) /\ ~Table!Holds(new) /\ Maps(f)
    BY RekeyMaps, HoldsIsOccurs
  <1>w. \A s : Table!Replace(s, k, new) = Swap(s, k, new)
    BY DEF Table!Replace, Swap
  <1>2. \A s \in Seq(Keys) : f[s] = Table!Replace(s, k, new)
    BY <1>w
  <1> HIDE DEF f
  <1>3. /\ Live(data)' = f[Live(data)]
        /\ rests' = [it \in Iterators |-> IF rests[it] = NoRange THEN NoRange ELSE f[rests[it]]]
    BY <1>1, MapsAll
  <1>4. Live(data) \in Seq(Keys) /\ \A it \in Iterators : rests[it] = NoRange \/ rests[it] \in Seq(Keys)
    BY RestsAre
  <1>5. result' = result
    BY DEF Rekey
  <1> HIDE DEF rests
  <1>6. Live(data)' = Table!Replace(Live(data), k, new)
    BY <1>2, <1>3, <1>4
  <1>7. rests' = [it \in Iterators |-> IF rests[it] = NoRange THEN NoRange ELSE Table!Replace(rests[it], k, new)]
    BY <1>2, <1>3, <1>4
  <1> QED
    BY <1>1, <1>5, <1>6, <1>7, Zenon DEF Table!ARekey, Table!InAll

\* Clearing is clearing the ordered set.
LEMMA ClearIsClear ==
  ASSUME TableInv, Clear
  PROVE  Table!AClear
  <1> DEFINE f == [s \in Seq(Keys) |-> <<>>]
  <1>1. Maps(f)
    BY ClearMaps
  <1>2. \A s \in Seq(Keys) : f[s] = <<>>
    OBVIOUS
  <1> HIDE DEF f
  <1>3. /\ Live(data)' = f[Live(data)]
        /\ rests' = [it \in Iterators |-> IF rests[it] = NoRange THEN NoRange ELSE f[rests[it]]]
    BY <1>1, MapsAll
  <1>4. Live(data) \in Seq(Keys) /\ \A it \in Iterators : rests[it] = NoRange \/ rests[it] \in Seq(Keys)
    BY RestsAre
  <1>5. result' = result
    BY DEF Clear
  <1> HIDE DEF rests
  <1>6. Live(data)' = <<>>
    BY <1>2, <1>3, <1>4
  <1>7. rests' = [it \in Iterators |-> IF rests[it] = NoRange THEN NoRange ELSE <<>>]
    BY <1>2, <1>3, <1>4
  <1> QED
    BY <1>5, <1>6, <1>7, Zenon DEF Table!AClear, Table!InAll

\* A step of one iterator changes what that one has left.
LEMMA OneRestChanges ==
  ASSUME TableInv, NEW it \in Iterators, NEW v,
         \A o \in Iterators : Left(ranges, data, o)' = IF o # it THEN Left(ranges, data, o) ELSE v
  PROVE  rests' = [rests EXCEPT ![it] = v]
  <1>1. rests = [o \in Iterators |-> rests[o]] /\ \A o \in Iterators : rests[o] = Left(ranges, data, o)
    BY RestsAre
  <1> DEFINE g == [rests EXCEPT ![it] = v]
  <1>2. g = [o \in Iterators |-> g[o]] /\ \A o \in Iterators : g[o] = IF o = it THEN v ELSE rests[o]
    <2> HIDE DEF rests
    <2> QED
      BY <1>1
  <1>3. \A o \in Iterators : Left(ranges, data, o)' = g[o]
    BY <1>1, <1>2
  <1>4. rests' = [o \in Iterators |-> g[o]]
    <2> HIDE DEF g
    <2> QED
      BY <1>3, RestsThen
  <1> QED
    BY <1>2, <1>4

\* Iterators are opened as those of the ordered set.
LEMMA OpenIsAOpen ==
  ASSUME TableInv, NEW it \in Iterators, Open(it)
  PROVE  Table!AOpen(it)
  <1>1. rests' = [rests EXCEPT ![it] = Live(data)]
    BY OpenGives, OneRestChanges
  <1>2. Live(data)' = Live(data)
    BY OpenGives
  <1>3. ranges[it] = NoRange /\ result' = result
    BY DEF Open
  <1>4. rests[it] = NoRange
    BY <1>3, RestsAre
  <1> HIDE DEF rests
  <1> QED
    BY <1>1, <1>2, <1>3, <1>4, Zenon DEF Table!AOpen

\* They yield what those of the ordered set yield.
LEMMA NextIsANext ==
  ASSUME TableInv, NEW it \in Iterators, Next(it)
  PROVE  Table!ANext(it)
  <1> DEFINE l == Rest(ranges[it], data)
  <1>1. /\ Live(data)' = Live(data) /\ ranges[it] # NoRange /\ l \in Seq(Keys)
        /\ \/ /\ l = <<>> /\ result' = Done
              /\ \A o \in Iterators : Left(ranges, data, o)' = IF o # it THEN Left(ranges, data, o) ELSE NoRange
           \/ \E e \in Keys, q \in Seq(Keys) :
              /\ l = <<e>> \o q /\ result' = e
              /\ \A o \in Iterators : Left(ranges, data, o)' = IF o # it THEN Left(ranges, data, o) ELSE q
    BY NextGives
  <1>2. rests[it] # NoRange /\ rests[it] = l
    BY <1>1, RestsAre DEF Left
  <1> HIDE DEF l, rests
  <1>3. CASE /\ l = <<>> /\ result' = Done
             /\ \A o \in Iterators : Left(ranges, data, o)' = IF o # it THEN Left(ranges, data, o) ELSE NoRange
    <2>1. rests' = [rests EXCEPT ![it] = NoRange]
      BY <1>3, OneRestChanges
    <2> QED
      BY <1>1, <1>2, <1>3, <2>1, Zenon DEF Table!ANext
  <1>4. ASSUME NEW e \in Keys, NEW q \in Seq(Keys), l = <<e>> \o q, result' = e,
               \A o \in Iterators : Left(ranges, data, o)' = IF o # it THEN Left(ranges, data, o) ELSE q
        PROVE  Table!ANext(it)
    <2>1. rests' = [rests EXCEPT ![it] = q]
      BY <1>4, OneRestChanges
    <2>2. <<e>> \o q # <<>> /\ Head(<<e>> \o q) = e /\ Tail(<<e>> \o q) = q
      OBVIOUS
    <2>3. l # <<>> /\ Head(l) = e /\ Tail(l) = q
      BY <1>4, <2>2
    <2>4. rests' = [rests EXCEPT ![it] = Tail(@)]
      BY <1>2, <2>1, <2>3
    <2>5. result' = Head(rests[it]) /\ rests[it] # <<>>
      BY <1>2, <1>4, <2>3
    <2> QED
      BY <1>1, <1>2, <2>4, <2>5, Zenon DEF Table!ANext
  <1> QED
    BY <1>1, <1>3, <1>4

\* They are dropped as those of the ordered set.
LEMMA FinalizeIsADrop ==
  ASSUME TableInv, NEW it \in Iterators, Finalize(it)
  PROVE  Table!ADrop(it)
  <1>1. Live(data)' = Live(data) /\ result' = result
    BY FinalizeGives
  <1>2. rests' = [rests EXCEPT ![it] = NoRange]
    BY FinalizeGives, OneRestChanges
  <1> HIDE DEF rests
  <1> QED
    BY <1>1, <1>2, Zenon DEF Table!ADrop

\* The keys are kept in the order of insertion, and whatever is put, removed,
\* cleared or moved and however the table grows, shrinks and compacts, an
\* iterator yields each key that is there when its turn comes, once.
THEOREM TableIsOrderedSet == TableSpec => ActsAsOrderedSet
  <1>1. ASSUME TableInit PROVE Table!AInit
    <2>1. Live(data) = <<>>
      BY <1>1, NothingIsLive DEF TableInit
    <2>2. rests = [it \in Iterators |-> NoRange]
      BY <1>1 DEF TableInit, rests
    <2> HIDE DEF rests
    <2> QED
      BY <1>1, <2>1, <2>2 DEF TableInit, Table!AInit
  <1>2. ASSUME TableInv, [TableNext]_tableVars
        PROVE  [Table!ANextStep]_<<Live(data), rests, result>>
    <2>1. CASE Clear
      BY <1>2, <2>1, ClearIsClear DEF Table!ANextStep
    <2>2. ASSUME NEW k \in Keys, Put(k)
          PROVE  Table!ANextStep
      BY <1>2, <2>2, PutIsPut DEF Table!ANextStep
    <2>3. ASSUME NEW k \in Keys, Remove(k)
          PROVE  Table!ANextStep
      BY <1>2, <2>3, RemoveIsRemove DEF Table!ANextStep
    <2>4. ASSUME NEW k \in Keys, NEW new \in Keys, Rekey(k, new)
          PROVE  Table!ANextStep
      BY <1>2, <2>4, RekeyIsRekey DEF Table!ANextStep
    <2>5. ASSUME NEW it \in Iterators, Open(it)
          PROVE  Table!ANextStep
      BY <1>2, <2>5, OpenIsAOpen DEF Table!ANextStep
    <2>6. ASSUME NEW it \in Iterators, Next(it)
          PROVE  Table!ANextStep
      BY <1>2, <2>6, NextIsANext DEF Table!ANextStep
    <2>7. ASSUME NEW it \in Iterators, Finalize(it)
          PROVE  Table!ANextStep
      BY <1>2, <2>7, FinalizeIsADrop DEF Table!ANextStep
    <2>8. CASE UNCHANGED tableVars
      BY <2>8 DEF tableVars, rests
    <2> QED
      BY <1>2, <2>1, <2>2, <2>3, <2>4, <2>5, <2>6, <2>7, <2>8 DEF TableNext
  <1> QED
    BY <1>1, <1>2, InvAlwaysHolds, PTL DEF TableSpec, ActsAsOrderedSet, Table!ASpec
=============================================================================
