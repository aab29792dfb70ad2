--------------------------- MODULE InductionLemmas ---------------------------
(***************************************************************************)
(* Induction over the natural numbers without a predicate parameter: a      *)
(* nonempty set of numbers has a least element.                             *)
(***************************************************************************)
EXTENDS Integers, Sequences, FiniteSets, WellFoundedInduction, FiniteSetTheorems, SequenceTheorems, TLAPS

\* A nonempty set of natural numbers has a least element.
LEMMA LeastNumber ==
  ASSUME NEW T \in SUBSET Nat, T # {}
  PROVE  \E n \in T : \A m \in T : n <= m
  <1> DEFINE R == {ss \in Nat \X Nat : ss[1] < ss[2]}
  <1>1. IsWellFoundedOn(R, Nat)
    BY NatLessThanWellFounded DEF OpToRel
  <1>2. \A x, y \in Nat : y < x => <<y, x>> \in R
    OBVIOUS
  <1> HIDE DEF R
  <1>3. PICK x \in T : \A y \in T : <<y, x>> \notin R
    BY <1>1, WFMin
  <1>4. \A y \in T : ~(y < x)
    BY <1>2, <1>3
  <1> QED
    BY <1>4

\* A function on 1 .. n is a sequence of length n.
LEMMA FunctionIsSequence ==
  ASSUME NEW S, NEW n \in Nat, NEW f \in [1 .. n -> S]
  PROVE  f \in Seq(S) /\ Len(f) = n
  OBVIOUS

\* The elements of two sequences in a row.
LEMMA InARow ==
  ASSUME NEW S, NEW a \in Seq(S), NEW b \in Seq(S)
  PROVE  /\ a \o b \in Seq(S) /\ Len(a \o b) = Len(a) + Len(b)
         /\ \A i \in 1 .. Len(a) : (a \o b)[i] = a[i]
         /\ \A i \in 1 .. Len(b) : (a \o b)[Len(a) + i] = b[i]
         /\ Len(a) \in Nat /\ Len(b) \in Nat
  OBVIOUS

\* A set that holds a number, and with every number from there the next one up
\* to a last one, holds all of them.
LEMMA UpTo ==
  ASSUME NEW a \in Nat, NEW b \in Nat, NEW T, a \in T,
         \A n \in a .. b : n \in T /\ n < b => n + 1 \in T
  PROVE  a .. b \subseteq T
  <1> SUFFICES ASSUME (a .. b) \ T # {}
               PROVE  FALSE
    OBVIOUS
  <1>0. (a .. b) \ T \in SUBSET Nat
    OBVIOUS
  <1>1. PICK n \in (a .. b) \ T : \A m \in (a .. b) \ T : n <= m
    BY <1>0, LeastNumber
  <1>2. n # a /\ n - 1 \in a .. b /\ n - 1 < b
    OBVIOUS
  <1>3. n - 1 \in T
    BY <1>1, <1>2
  <1>4. (n - 1) + 1 \in T
    BY <1>2, <1>3
  <1> QED
    BY <1>4

\* Numbers that are one less than those of another set are as many.
LEMMA OneLess ==
  ASSUME NEW S \in SUBSET Nat, IsFiniteSet(S), NEW T \in SUBSET Nat,
         \A i \in Nat : i \in T <=> i + 1 \in S, 0 \notin S
  PROVE  IsFiniteSet(T) /\ Cardinality(T) = Cardinality(S)
  <1> DEFINE f == [i \in S |-> i - 1]
  <1>1. \A i \in S : f[i] \in T
    <2> TAKE i \in S
    <2>1. i \in Nat /\ i # 0 /\ i - 1 \in Nat /\ (i - 1) + 1 = i
      OBVIOUS
    <2> QED
      BY <2>1
  <1>2. \A i, j \in S : f[i] = f[j] => i = j
    OBVIOUS
  <1>3. \A i \in T : i + 1 \in S /\ f[i + 1] = i
    OBVIOUS
  <1>4. f \in [S -> T]
    BY <1>1
  <1> HIDE DEF f
  <1>5. f \in Bijection(S, T)
    BY <1>2, <1>3, <1>4 DEF Bijection, Injection, Surjection, IsInjective
  <1> QED
    BY <1>5, FS_Bijection DEF ExistsBijection

\* What starts as a and changes in m steps of given kinds is a sequence of
\* values: a function on 0 .. m.
LEMMA Iteration ==
  ASSUME NEW A, NEW a \in A, NEW m \in Nat, NEW G \in [1 .. m -> [A -> A]]
  PROVE  \E f \in [0 .. m -> A] : f[0] = a /\ \A i \in 1 .. m : f[i] = G[i][f[i - 1]]
  <1> DEFINE Up(f, k) == f[0] = a /\ \A i \in 1 .. k : f[i] = G[i][f[i - 1]]
             T == {k \in Nat : \E f \in [0 .. k -> A] : Up(f, k)}
  <1>1. 0 \in T
    <2> DEFINE f == [i \in 0 .. 0 |-> a]
    <2>1. f \in [0 .. 0 -> A] /\ f[0] = a /\ 1 .. 0 = {}
      OBVIOUS
    <2> HIDE DEF f
    <2> QED
      BY <2>1
  <1>2. ASSUME NEW k \in 0 .. m, k \in T, k < m
        PROVE  k + 1 \in T
    <2>1. PICK f \in [0 .. k -> A] : Up(f, k)
      BY <1>2
    <2>2. f[0] = a /\ k \in 0 .. k /\ f[k] \in A
      BY <1>2, <2>1
    <2> DEFINE x == G[k + 1][f[k]]
               g == [i \in 0 .. k + 1 |-> IF i = k + 1 THEN x ELSE f[i]]
    <2>3. x \in A
      <3>1. k + 1 \in 1 .. m
        BY <1>2
      <3>2. G[k + 1] \in [A -> A]
        BY <3>1
      <3> QED
        BY <2>2, <3>2
    <2>4. /\ k + 1 \in Nat /\ k + 1 # 0 /\ k + 1 \in 0 .. k + 1 /\ (k + 1) - 1 = k
          /\ \A i \in 0 .. k + 1 : i # k + 1 => i \in 0 .. k
          /\ \A i \in 0 .. k : i \in 0 .. k + 1 /\ i # k + 1
          /\ \A i \in 1 .. k + 1 : i \in 0 .. k + 1 /\ (i = k + 1 \/ i \in 1 .. k) /\ i - 1 \in 0 .. k
      BY <1>2
    <2> HIDE DEF x
    <2>5. /\ g \in [0 .. k + 1 -> A] /\ g[k + 1] = x
          /\ \A i \in 0 .. k : g[i] = f[i]
      BY <2>1, <2>3, <2>4
    <2> HIDE DEF g
    <2>6. g[0] = a
      BY <1>2, <2>2, <2>5
    <2>7. ASSUME NEW i \in 1 .. k + 1
          PROVE  g[i] = G[i][g[i - 1]]
      <3>1. CASE i = k + 1
        BY <2>4, <2>5, <3>1 DEF x
      <3>2. CASE i # k + 1
        <4>1. i \in 1 .. k /\ i \in 0 .. k /\ i - 1 \in 0 .. k
          BY <2>4, <2>7, <3>2
        <4> QED
          BY <2>1, <2>5, <4>1
      <3> QED
        BY <3>1, <3>2
    <2>8. Up(g, k + 1)
      BY <2>6, <2>7
    <2> HIDE DEF Up
    <2> QED
      BY <2>4, <2>5, <2>8
  <1> HIDE DEF T, Up
  <1>3. 0 .. m \subseteq T
    BY <1>1, <1>2, UpTo
  <1>4. m \in T
    BY <1>3
  <1> QED
    BY <1>4 DEF T, Up

\* the same, with names for what is needed and for what there is then
CanIterate(A, a, m, G) == a \in A /\ m \in Nat /\ G \in [1 .. m -> [A -> A]]
Iterates(f, A, a, m, G) == f \in [0 .. m -> A] /\ f[0] = a /\ \A i \in 1 .. m : f[i] = G[i][f[i - 1]]

LEMMA IterationNamed ==
  ASSUME NEW A, NEW a, NEW m, NEW G, CanIterate(A, a, m, G)
  PROVE  \E f : Iterates(f, A, a, m, G)
  <1>1. a \in A /\ m \in Nat /\ G \in [1 .. m -> [A -> A]]
    BY DEF CanIterate
  <1>2. \E f \in [0 .. m -> A] : f[0] = a /\ \A i \in 1 .. m : f[i] = G[i][f[i - 1]]
    BY <1>1, Iteration
  <1> QED
    BY <1>2 DEF Iterates

\* A set of sequences that holds the empty one, and with every sequence the
\* longer ones by one element, holds all.
LEMMA SequencesBuilt ==
  ASSUME NEW T, NEW P, <<>> \in P,
         \A q \in Seq(T), e \in T : q \in P => Append(q, e) \in P
  PROVE  Seq(T) \subseteq P
  <1> SUFFICES ASSUME NEW s \in Seq(T)
               PROVE  s \in P
    OBVIOUS
  <1> DEFINE m == Len(s)
             pre(n) == SubSeq(s, 1, n)
             N == {n \in 0 .. m : pre(n) \in P}
  <1>1. m \in Nat /\ \A i \in 1 .. m : s[i] \in T
    OBVIOUS
  <1>2. pre(0) = <<>> /\ pre(m) = s
    BY SubSeqEmpty, SubSeqFull
  <1>3. ASSUME NEW n \in 0 .. m, n < m
        PROVE  n + 1 \in 1 .. m /\ s[n + 1] \in T /\ pre(n) \in Seq(T) /\ pre(n + 1) = Append(pre(n), s[n + 1])
    <2>1. n + 1 \in 1 .. m /\ n + 1 \in 1 .. n + 1 /\ 1 \in 1 .. m /\ (n + 1) - 1 = n /\ s[n + 1] \in T
      BY <1>1, <1>3
    <2>2. pre(n) \in Seq(T)
      BY <1>1, <1>3
    <2>3. pre(n + 1) = pre(n) \o <<s[n + 1]>>
      BY <2>1, SubSeqRecursiveSecond
    <2> QED
      BY <2>1, <2>2, <2>3, AppendIsConcat
  <1> HIDE DEF m, pre
  <1>4. 0 \in N
    BY <1>1, <1>2
  <1>5. ASSUME NEW n \in 0 .. m, n \in N, n < m
        PROVE  n + 1 \in N
    <2>1. pre(n + 1) \in P
      BY <1>3, <1>5
    <2> QED
      BY <1>1, <1>3, <1>5, <2>1
  <1> HIDE DEF N
  <1>6. 0 .. m \subseteq N
    BY <1>1, <1>4, <1>5, UpTo
  <1>7. m \in N
    BY <1>1, <1>6
  <1> QED
    BY <1>2, <1>7 DEF N

-----------------------------------------------------------------------------
(* A list without the places that hold x.                                    *)

Sieve(q, x) ==
    LET kept[n \in 0..Len(q)] ==
            IF n = 0 THEN <<>>
            ELSE IF q[n] = x THEN kept[n - 1] ELSE Append(kept[n - 1], q[n])
    IN  kept[Len(q)]

\* f tells what is left of the first n places of q
Sieves(f, q, x) ==
  f[0] = <<>> /\ \A n \in 1 .. Len(q) : f[n] = IF q[n] = x THEN f[n - 1] ELSE Append(f[n - 1], q[n])

\* Its definition has a meaning.
LEMMA SieveSteps ==
  ASSUME NEW T, NEW q \in Seq(T), NEW x
  PROVE  \E f \in [0 .. Len(q) -> Seq(T)] : Sieves(f, q, x) /\ Sieve(q, x) = f[Len(q)]
  <1> DEFINE m == Len(q)
             Body(h, n) == IF n = 0 THEN <<>>
                           ELSE IF q[n] = x THEN h[n - 1] ELSE Append(h[n - 1], q[n])
             kept[n \in 0 .. m] == IF n = 0 THEN <<>>
                           ELSE IF q[n] = x THEN kept[n - 1] ELSE Append(kept[n - 1], q[n])
             G == [n \in 1 .. m |-> [r \in Seq(T) |-> IF q[n] = x THEN r ELSE Append(r, q[n])]]
  <1>1. m \in Nat /\ (\A i \in 1 .. m : q[i] \in T) /\ m \in 0 .. m
    OBVIOUS
  <1>2. Sieve(q, x) = kept[m]
    BY DEF Sieve
  <1>3. Sieves(kept, q, x) <=> kept[0] = <<>> /\ \A n \in 1 .. m : kept[n] = IF q[n] = x THEN kept[n - 1] ELSE Append(kept[n - 1], q[n])
    <2> HIDE DEF kept
    <2> QED
      BY DEF Sieves
  <1> SUFFICES kept \in [0 .. m -> Seq(T)] /\ Sieves(kept, q, x)
    BY <1>2
  <1> HIDE DEF m
  <1>4. G \in [1 .. m -> [Seq(T) -> Seq(T)]]
    BY <1>1
  <1>5. ASSUME NEW n \in 1 .. m, NEW r \in Seq(T)
        PROVE  G[n][r] = IF q[n] = x THEN r ELSE Append(r, q[n])
    OBVIOUS
  <1>6. <<>> \in Seq(T)
    OBVIOUS
  <1> HIDE DEF G
  <1>7. PICK f \in [0 .. m -> Seq(T)] : f[0] = <<>> /\ \A i \in 1 .. m : f[i] = G[i][f[i - 1]]
    <2> DEFINE A == Seq(T)
               a == <<>>
    <2>1. G \in [1 .. m -> [A -> A]] /\ a \in A
      BY <1>4, <1>6
    <2> HIDE DEF A, a
    <2>2. m \in Nat
      BY <1>1
    <2>3. \E f \in [0 .. m -> A] : f[0] = a /\ \A i \in 1 .. m : f[i] = G[i][f[i - 1]]
      BY <2>1, <2>2, Iteration, SMTT(40)
    <2> QED
      BY <2>3 DEF A, a
  <1>8. ASSUME NEW n \in 0 .. m
        PROVE  f[n] = Body(f, n)
    <2>1. CASE n = 0
      BY <1>7, <2>1
    <2>2. CASE n # 0
      <3>1. n \in 1 .. m /\ n - 1 \in 0 .. m
        BY <1>1, <2>2
      <3>2. f[n - 1] \in Seq(T)
        BY <3>1
      <3>3. f[n] = G[n][f[n - 1]]
        BY <1>7, <3>1
      <3>4. G[n][f[n - 1]] = IF q[n] = x THEN f[n - 1] ELSE Append(f[n - 1], q[n])
        BY <1>5, <3>1, <3>2
      <3> QED
        BY <2>2, <3>3, <3>4
    <2> QED
      BY <2>1, <2>2
  <1>9. kept = [n \in 0 .. m |-> Body(kept, n)]
    <2> DEFINE F(h) == [n \in 0 .. m |-> Body(h, n)]
    <2>1. kept = CHOOSE h : h = F(h)
      OBVIOUS
    <2> HIDE DEF kept, Body
    <2>2. f = F(f)
      BY <1>8
    <2> HIDE DEF F
    <2>3. kept = F(kept)
      BY <2>1, <2>2
    <2> QED
      BY <2>3 DEF F
  <1> HIDE DEF kept
  <1>10. ASSUME NEW n \in 0 .. m
         PROVE  kept[n] = Body(kept, n)
    <2> HIDE DEF Body
    <2> QED
      BY <1>9
  <1>11. kept[0] = <<>>
    BY <1>1, <1>10
  <1>12. ASSUME NEW n \in 1 .. m
         PROVE  kept[n] = IF q[n] = x THEN kept[n - 1] ELSE Append(kept[n - 1], q[n])
    <2>1. n \in 0 .. m /\ n # 0
      BY <1>1
    <2> QED
      BY <1>10, <2>1
  <1> HIDE DEF Body
  <1>13. \A n \in 0 .. m : kept[n] \in Seq(T)
    <2> DEFINE N == {n \in 0 .. m : kept[n] \in Seq(T)}
    <2>1. 0 \in N
      <3>1. 0 \in 0 .. m
        BY <1>1
      <3>2. kept[0] \in Seq(T)
        BY <1>6, <1>11, Zenon
      <3> QED
        BY <3>1, <3>2, Zenon
    <2>2. ASSUME NEW n \in 0 .. m, n \in N, n < m
          PROVE  n + 1 \in N
      <3>1. n + 1 \in 1 .. m /\ (n + 1) - 1 = n /\ q[n + 1] \in T /\ n + 1 \in 0 .. m
        BY <1>1, <2>2
      <3>2. kept[n + 1] = IF q[n + 1] = x THEN kept[n] ELSE Append(kept[n], q[n + 1])
        BY <1>12, <3>1
      <3>3. kept[n] \in Seq(T)
        BY <2>2, Zenon
      <3>4. Append(kept[n], q[n + 1]) \in Seq(T)
        <4> DEFINE r == kept[n]
        <4>1. r \in Seq(T)
          BY <3>3
        <4> HIDE DEF r
        <4>2. Append(r, q[n + 1]) \in Seq(T)
          BY <3>1, <4>1
        <4> QED
          BY <4>2 DEF r
      <3>5. kept[n + 1] \in Seq(T)
        BY <3>2, <3>3, <3>4, Zenon
      <3> QED
        BY <3>1, <3>5, Zenon
    <2> HIDE DEF N
    <2>3. 0 .. m \subseteq N
      BY <1>1, <2>1, <2>2, UpTo
    <2> QED
      BY <2>3 DEF N
  <1>14. kept \in [0 .. m -> Seq(T)]
    <2>1. kept = [n \in 0 .. m |-> kept[n]]
      BY <1>9
    <2> QED
      BY <1>13, <2>1
  <1> QED
    BY <1>3, <1>11, <1>12, <1>14

\* It is what these steps lead to.
LEMMA SieveIs ==
  ASSUME NEW T, NEW q \in Seq(T), NEW x, NEW g, Sieves(g, q, x)
  PROVE  Sieve(q, x) = g[Len(q)]
  <1>1. PICK f \in [0 .. Len(q) -> Seq(T)] : Sieves(f, q, x) /\ Sieve(q, x) = f[Len(q)]
    BY SieveSteps
  <1> DEFINE m == Len(q)
             N == {n \in 0 .. m : f[n] = g[n]}
  <1>2. m \in Nat
    OBVIOUS
  <1>3. 0 \in N
    BY <1>1, <1>2 DEF Sieves
  <1>4. ASSUME NEW n \in 0 .. m, n \in N, n < m
        PROVE  n + 1 \in N
    <2>1. n + 1 \in 1 .. m /\ (n + 1) - 1 = n /\ n + 1 \in 0 .. m
      BY <1>2, <1>4
    <2> QED
      BY <1>1, <1>4, <2>1 DEF Sieves
  <1> HIDE DEF N
  <1>5. 0 .. m \subseteq N
    BY <1>2, <1>3, <1>4, UpTo
  <1> QED
    BY <1>1, <1>2, <1>5 DEF N

\* Of nothing nothing is left; a longer list is sieved place by place.
LEMMA SieveSteppedUp ==
  ASSUME NEW T, NEW q \in Seq(T), NEW x, NEW e \in T
  PROVE  /\ Sieve(<<>>, x) = <<>> /\ Sieve(q, x) \in Seq(T)
         /\ Sieve(Append(q, e), x) = IF e = x THEN Sieve(q, x) ELSE Append(Sieve(q, x), e)
  <1>2. Sieve(<<>>, x) = <<>>
    <2> DEFINE o == <<>>
    <2>1. o \in Seq(T) /\ Len(o) = 0
      OBVIOUS
    <2> HIDE DEF o
    <2>2. PICK z \in [0 .. Len(o) -> Seq(T)] : Sieves(z, o, x) /\ Sieve(o, x) = z[Len(o)]
      BY <2>1, SieveSteps
    <2>3. z[0] = <<>>
      BY <2>2 DEF Sieves
    <2>4. Sieve(o, x) = <<>>
      BY <2>1, <2>2, <2>3
    <2> QED
      BY <2>4 DEF o
  <1> DEFINE r == Append(q, e)
             m == Len(q)
  <1>3. r \in Seq(T) /\ Len(r) = m + 1 /\ m \in Nat /\ r[m + 1] = e /\ \A i \in 1 .. m : r[i] = q[i]
    OBVIOUS
  <1> HIDE DEF r
  <1>4. PICK f \in [0 .. Len(r) -> Seq(T)] : Sieves(f, r, x) /\ Sieve(r, x) = f[Len(r)]
    BY <1>3, SieveSteps
  <1>5. Sieves(f, q, x)
    <2>1. \A n \in 1 .. m : n \in 1 .. m + 1
      BY <1>3
    <2> QED
      BY <1>3, <1>4, <2>1 DEF Sieves
  <1>6. Sieve(q, x) = f[m]
    BY <1>5, SieveIs
  <1>7. m + 1 \in 1 .. m + 1 /\ (m + 1) - 1 = m /\ m \in 0 .. m + 1
    BY <1>3
  <1>8. f[m + 1] = IF e = x THEN f[m] ELSE Append(f[m], e)
    BY <1>3, <1>4, <1>7 DEF Sieves
  <1> QED
    BY <1>2, <1>3, <1>4, <1>6, <1>7, <1>8 DEF r

\* the steps for all sequences, as they are used
SievesUp(T, x) ==
  /\ Sieve(<<>>, x) = <<>>
  /\ \A q \in Seq(T) : Sieve(q, x) \in Seq(T)
  /\ \A q \in Seq(T), e \in T :
        Sieve(Append(q, e), x) = IF e = x THEN Sieve(q, x) ELSE Append(Sieve(q, x), e)

\* Sieving goes by these steps.
LEMMA SieveFacts ==
  ASSUME NEW T, NEW x
  PROVE  SievesUp(T, x)
  <1>1. Sieve(<<>>, x) = <<>>
    <2> DEFINE o == <<>>
    <2>1. o \in Seq(T) /\ Len(o) = 0
      OBVIOUS
    <2> HIDE DEF o
    <2>2. PICK z \in [0 .. Len(o) -> Seq(T)] : Sieves(z, o, x) /\ Sieve(o, x) = z[Len(o)]
      BY <2>1, SieveSteps
    <2>3. z[0] = <<>>
      BY <2>2 DEF Sieves
    <2>4. Sieve(o, x) = <<>>
      BY <2>1, <2>2, <2>3
    <2> QED
      BY <2>4 DEF o
  <1>2. ASSUME NEW q \in Seq(T) PROVE Sieve(q, x) \in Seq(T)
    <2>1. PICK f \in [0 .. Len(q) -> Seq(T)] : Sieve(q, x) = f[Len(q)]
      BY SieveSteps
    <2> QED
      BY <2>1
  <1>3. ASSUME NEW q \in Seq(T), NEW e \in T
        PROVE  Sieve(Append(q, e), x) = IF e = x THEN Sieve(q, x) ELSE Append(Sieve(q, x), e)
    BY SieveSteppedUp
  <1> QED
    BY <1>1, <1>2, <1>3 DEF SievesUp

\* What is left has no x, and is no longer; a list without x stays as it is.
LEMMA SieveLeaves ==
  ASSUME NEW T, NEW q \in Seq(T), NEW x
  PROVE  Sieve(q, x) \in Seq(T \ {x}) /\ Len(Sieve(q, x)) <= Len(q) /\ (x \notin T => Sieve(q, x) = q)
  <1> DEFINE Fine(s) == Sieve(s, x) \in Seq(T \ {x}) /\ Len(Sieve(s, x)) <= Len(s) /\ (x \notin T => Sieve(s, x) = s)
             P == {s \in Seq(T) : Fine(s)}
             Q == Seq(T)
  <1>0. /\ Sieve(<<>>, x) = <<>>
        /\ \A r \in Q, e \in T : Sieve(Append(r, e), x) = IF e = x THEN Sieve(r, x) ELSE Append(Sieve(r, x), e)
    <2>1. SievesUp(T, x)
      BY SieveFacts
    <2> QED
      BY <2>1, Zenon DEF SievesUp
  <1>1. <<>> \in P
    <2>1. <<>> \in Seq(T) /\ <<>> \in Seq(T \ {x}) /\ Len(<<>>) <= Len(<<>>)
      OBVIOUS
    <2> HIDE DEF Q
    <2>2. Fine(<<>>)
      BY <1>0, <2>1, Zenon
    <2> HIDE DEF Fine
    <2> QED
      BY <2>1, <2>2, Zenon
  <1>2. ASSUME NEW s \in Seq(T), NEW e \in T, s \in P
        PROVE  Append(s, e) \in P
    <2> DEFINE a == Append(s, e)
               v == Sieve(s, x)
               w == Append(v, e)
    <2>0. v \in Seq(T \ {x}) /\ Len(v) <= Len(s) /\ (x \notin T => v = s)
      BY <1>2, Zenon
    <2>1. Sieve(a, x) = IF e = x THEN v ELSE w
      BY <1>0, Zenon
    <2>2. a \in Seq(T) /\ Len(a) = Len(s) + 1 /\ Len(s) \in Nat
      OBVIOUS
    <2>5. v = s => w = a
      OBVIOUS
    <2> HIDE DEF a, v
    <2>6. Len(v) \in Nat
      BY <2>0
    <2>7. ASSUME e # x PROVE w \in Seq(T \ {x}) /\ Len(w) = Len(v) + 1
      <3>1. e \in T \ {x}
        BY <2>7
      <3> QED
        BY <2>0, <3>1
    <2> HIDE DEF w
    <2>3. CASE e = x
      <3>1. Sieve(a, x) = v /\ x \in T
        BY <2>1, <2>3
      <3>2. Len(v) <= Len(a)
        BY <2>0, <2>2, <2>6
      <3>3. Fine(a)
        BY <2>0, <3>1, <3>2, Zenon
      <3> HIDE DEF Fine
      <3> QED
        BY <2>2, <3>3, Zenon DEF a
    <2>4. CASE e # x
      <3>1. Sieve(a, x) = w
        BY <2>1, <2>4
      <3>2. Len(w) <= Len(a)
        BY <2>0, <2>2, <2>4, <2>6, <2>7
      <3>3. Fine(a)
        BY <2>0, <2>4, <2>5, <2>7, <3>1, <3>2, Zenon
      <3> HIDE DEF Fine
      <3> QED
        BY <2>2, <3>3, Zenon DEF a
    <2> QED
      BY <2>3, <2>4
  <1> HIDE DEF P, Fine
  <1>3. Seq(T) \subseteq P
    BY <1>1, <1>2, SequencesBuilt
  <1> QED
    BY <1>3 DEF P, Fine

\* Two lists in a row are sieved one by one.
LEMMA SieveInARow ==
  ASSUME NEW T, NEW a \in Seq(T), NEW b \in Seq(T), NEW x
  PROVE  Sieve(a \o b, x) = Sieve(a, x) \o Sieve(b, x)
  <1> DEFINE P == {s \in Seq(T) : Sieve(a \o s, x) = Sieve(a, x) \o Sieve(s, x)}
             Q == Seq(T)
             u == Sieve(a, x)
  <1>f. /\ Sieve(<<>>, x) = <<>> /\ \A r \in Q : Sieve(r, x) \in Q
        /\ \A r \in Q, e \in T : Sieve(Append(r, e), x) = IF e = x THEN Sieve(r, x) ELSE Append(Sieve(r, x), e)
    <2>1. SievesUp(T, x)
      BY SieveFacts
    <2> QED
      BY <2>1, Zenon DEF SievesUp
  <1>0. u \in Seq(T)
    BY <1>f, Zenon
  <1> HIDE DEF u
  <1>1. <<>> \in P
    <2>1. a \o <<>> = a /\ u \o <<>> = u /\ <<>> \in Seq(T)
      BY <1>0
    <2> HIDE DEF Q
    <2> QED
      BY <1>f, <2>1, Zenon DEF u
  <1>2. ASSUME NEW s \in Seq(T), NEW e \in T, s \in P
        PROVE  Append(s, e) \in P
    <2> DEFINE as == a \o s
               s1 == Append(s, e)
               v == Sieve(s, x)
    <2>1. a \o s1 = Append(as, e) /\ as \in Seq(T) /\ s1 \in Seq(T)
      OBVIOUS
    <2>2. /\ Sieve(s1, x) = IF e = x THEN v ELSE Append(v, e)
          /\ v \in Seq(T)
      BY <1>f, Zenon
    <2> HIDE DEF as, v, s1
    <2>3. Sieve(Append(as, e), x) = IF e = x THEN Sieve(as, x) ELSE Append(Sieve(as, x), e)
      BY <1>f, <2>1, Zenon
    <2>4. Sieve(as, x) = u \o v
      BY <1>2, Zenon DEF as, u, v
    <2>5. u \o Append(v, e) = Append(u \o v, e)
      BY <1>0, <2>2
    <2>6. Sieve(a \o s1, x) = u \o Sieve(s1, x)
      BY <2>1, <2>2, <2>3, <2>4, <2>5, Zenon
    <2> QED
      BY <2>1, <2>6, Zenon DEF s1, u
  <1> HIDE DEF P
  <1>3. Seq(T) \subseteq P
    BY <1>1, <1>2, SequencesBuilt
  <1> QED
    BY <1>3 DEF P, u

-----------------------------------------------------------------------------
(* Definitions by recursion.                                                 *)

\* What changes a function so that each value depends only on those of less
\* weight leaves some function as it is.
Recurs(Q, D, H, w, N) ==
  /\ H \in [D -> D] /\ N \in Nat /\ w \in [Q -> 0 .. N]
  /\ \A F, G \in D, q \in Q : (\A r \in Q : w[r] < w[q] => F[r] = G[r]) => H[F][q] = H[G][q]
  /\ \A F, G \in D : (\A q \in Q : F[q] = G[q]) => F = G

LEMMA RecursionHasMeaning ==
  ASSUME NEW Q, NEW D, NEW H, NEW w, NEW N, NEW F0 \in D, Recurs(Q, D, H, w, N)
  PROVE  \E F \in D : H[F] = F
  <1>0. /\ H \in [D -> D] /\ N \in Nat /\ w \in [Q -> 0 .. N]
        /\ \A F, G \in D, q \in Q : (\A r \in Q : w[r] < w[q] => F[r] = G[r]) => H[F][q] = H[G][q]
        /\ \A F, G \in D : (\A q \in Q : F[q] = G[q]) => F = G
    BY DEF Recurs
  <1> DEFINE m == N + 1
             K == [i \in 1 .. m |-> H]
  <1>1. m \in Nat /\ K \in [1 .. m -> [D -> D]] /\ \A i \in 1 .. m : K[i] = H
    BY <1>0
  <1> HIDE DEF K, m
  <1>2. PICK f \in [0 .. m -> D] : f[0] = F0 /\ \A i \in 1 .. m : f[i] = K[i][f[i - 1]]
    <2>1. CanIterate(D, F0, m, K)
      BY <1>1 DEF CanIterate
    <2> QED
      BY <2>1, IterationNamed DEF Iterates
  <1>3. \A i \in 1 .. m : f[i] = H[f[i - 1]]
    BY <1>1, <1>2
  <1> DEFINE T == {k \in 0 .. m : \A q \in Q : w[q] < k => f[k][q] = H[f[k]][q]}
  <1>w. \A q \in Q : w[q] \in Nat
    BY <1>0
  <1>4. 0 \in T
    BY <1>1, <1>w
  <1>5. ASSUME NEW k \in 0 .. m, k \in T, k < m
        PROVE  k + 1 \in T
    <2>1. k + 1 \in 0 .. m /\ k + 1 \in 1 .. m /\ (k + 1) - 1 = k
      BY <1>1, <1>5
    <2>2. f[k + 1] = H[f[k]] /\ f[k] \in D /\ f[k + 1] \in D
      BY <1>2, <1>3, <2>1
    <2>3. ASSUME NEW q \in Q, w[q] < k + 1
          PROVE  f[k + 1][q] = H[f[k + 1]][q]
      <3>1. \A r \in Q : w[r] < w[q] => w[r] < k
        BY <1>w, <2>3
      <3>2. \A r \in Q : w[r] < w[q] => f[k][r] = f[k + 1][r]
        BY <1>0, <1>5, <2>2, <3>1
      <3>3. H[f[k]][q] = H[f[k + 1]][q]
        BY <1>0, <2>2, <3>2
      <3> QED
        BY <2>2, <3>3
    <2> QED
      BY <2>1, <2>3
  <1> HIDE DEF T
  <1>6. m \in T
    <2>1. 0 .. m \subseteq T
      BY <1>1, <1>4, <1>5, UpTo
    <2> QED
      BY <1>1, <2>1
  <1>7. \A q \in Q : w[q] < m
    BY <1>0 DEF m
  <1>8. f[m] \in D
    BY <1>1, <1>2
  <1>9. \A q \in Q : H[f[m]][q] = f[m][q]
    BY <1>6, <1>7 DEF T
  <1>10. H[f[m]] \in D
    BY <1>0, <1>8
  <1> QED
    BY <1>0, <1>8, <1>9, <1>10

\* A set that holds an element, and what its elements lead to, in as many steps as
\* there are elements: it is closed, and the least that is.
LEMMA StepsReachAll ==
  ASSUME NEW S, IsFiniteSet(S), NEW T \in [S -> SUBSET S], NEW x \in S, NEW W,
         W[0] = {x}, \A k \in 1 .. Cardinality(S) : W[k] = W[k - 1] \cup UNION {T[p] : p \in W[k - 1]}
  PROVE  LET R == W[Cardinality(S)]
         IN  /\ R \subseteq S /\ x \in R /\ \A p \in R : T[p] \subseteq R
             /\ \A C : x \in C /\ (\A p \in C \cap S : T[p] \subseteq C) => R \subseteq C
  <1> DEFINE N == Cardinality(S)
             Fine(X) == X \subseteq S /\ x \in X
             Shut(X) == \A p \in X : T[p] \subseteq X
             V == {k \in 0 .. N : Fine(W[k]) /\ (Cardinality(W[k]) >= k + 1 \/ Shut(W[k]))}
  <1>1. N \in Nat
    BY FS_CardinalityType
  <1>2. 0 \in V
    <2>1. Cardinality(W[0]) = 1
      BY FS_Singleton
    <2>2. Cardinality(W[0]) >= 0 + 1 /\ 0 \in 0 .. N
      BY <1>1, <2>1
    <2> QED
      BY <2>2
  <1>3. ASSUME NEW k \in 0 .. N, k \in V, k < N
        PROVE  k + 1 \in V
    <2>1. k + 1 \in 0 .. N /\ k + 1 \in 1 .. N /\ (k + 1) - 1 = k
      BY <1>1, <1>3
    <2> DEFINE A == W[k]
               B == W[k + 1]
    <2>2. B = A \cup UNION {T[p] : p \in A} /\ Fine(A)
      BY <1>3, <2>1
    <2>3. Fine(B) /\ A \subseteq B
      BY <2>2
    <2>4. CASE Shut(A)
      <3>1. B = A
        BY <2>2, <2>4
      <3> QED
        BY <2>1, <2>3, <2>4, <3>1
    <2>5. CASE ~Shut(A)
      <3>1. A # B
        BY <2>2, <2>5
      <3>2. IsFiniteSet(A) /\ IsFiniteSet(B)
        BY <2>3, FS_Subset
      <3>3. Cardinality(A) < Cardinality(B)
        <4>1. Cardinality(A) \in Nat /\ Cardinality(B) \in Nat
          BY <3>2, FS_CardinalityType
        <4>2. Cardinality(A) <= Cardinality(B) /\ (Cardinality(A) = Cardinality(B) => A = B)
          BY <2>3, <3>2, FS_Subset
        <4> QED
          BY <3>1, <4>1, <4>2
      <3>4. Cardinality(A) >= k + 1 /\ Cardinality(A) \in Nat /\ Cardinality(B) \in Nat
        BY <1>3, <2>5, <3>2, FS_CardinalityType
      <3>5. Cardinality(B) >= (k + 1) + 1
        BY <3>3, <3>4
      <3> QED
        BY <2>1, <2>3, <3>5
    <2> QED
      BY <2>4, <2>5
  <1> HIDE DEF V, N
  <1>4. N \in V
    BY <1>1, <1>2, <1>3, UpTo
  <1>5. Fine(W[N]) /\ (Cardinality(W[N]) >= N + 1 \/ Shut(W[N]))
    BY <1>4 DEF V
  <1>6. Cardinality(W[N]) <= N /\ Cardinality(W[N]) \in Nat
    BY <1>5, FS_Subset, FS_CardinalityType DEF N
  <1>7. Shut(W[N])
    BY <1>1, <1>5, <1>6
  <1>8. ASSUME NEW C, x \in C, \A p \in C \cap S : T[p] \subseteq C
        PROVE  W[N] \subseteq C
    <2> DEFINE U == {k \in 0 .. N : W[k] \subseteq C /\ W[k] \subseteq S}
    <2>1. 0 \in U
      BY <1>1, <1>8
    <2>2. ASSUME NEW k \in 0 .. N, k \in U, k < N
          PROVE  k + 1 \in U
      <3>1. k + 1 \in 0 .. N /\ k + 1 \in 1 .. N /\ (k + 1) - 1 = k
        BY <1>1, <2>2
      <3>2. W[k + 1] = W[k] \cup UNION {T[p] : p \in W[k]}
        BY <3>1 DEF N
      <3> QED
        BY <1>8, <2>2, <3>1, <3>2
    <2> HIDE DEF U
    <2>3. N \in U
      BY <1>1, <2>1, <2>2, UpTo
    <2> QED
      BY <2>3 DEF U
  <1> QED
    BY <1>5, <1>7, <1>8 DEF N

GrowsBy(S, T, x, W) ==
  W[0] = {x} /\ \A k \in 1 .. Cardinality(S) : W[k] = W[k - 1] \cup UNION {T[p] : p \in W[k - 1]}
\* R holds x and what its elements lead to, and is the least that does.
LeastShut(S, T, x, R) ==
  /\ R \subseteq S /\ x \in R /\ \A p \in R : T[p] \subseteq R
  /\ \A C : x \in C /\ (\A p \in C \cap S : T[p] \subseteq C) => R \subseteq C

LEMMA GrowsToAll ==
  ASSUME NEW S, IsFiniteSet(S), NEW T \in [S -> SUBSET S], NEW x \in S, NEW W, GrowsBy(S, T, x, W)
  PROVE  LeastShut(S, T, x, W[Cardinality(S)])
  <1>1. W[0] = {x} /\ \A k \in 1 .. Cardinality(S) : W[k] = W[k - 1] \cup UNION {T[p] : p \in W[k - 1]}
    BY DEF GrowsBy
  <1> QED
    BY <1>1, StepsReachAll DEF LeastShut
=============================================================================
