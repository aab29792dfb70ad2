--------------------------- MODULE ModulesProofs ---------------------------
(***************************************************************************)
(* Theorems about Modules, for any graphs, modules, names and imports.      *)
(***************************************************************************)
EXTENDS Modules, InductionLemmas

-----------------------------------------------------------------------------
(* ResolveExport and GetExportedNames have a meaning: every call that another *)
(* one makes has seen more.                                                   *)

PairOf(q) == <<q.module, q.name>>
Answers == [value: Binding \cup NoBinding, seen: SUBSET Pairs, stars: SUBSET ModuleIds]
Weight(q) == Cardinality(Pairs \ q.seen)
Resolvers == {F \in [Queries -> Answers] : \A q \in Queries : q.seen \subseteq F[q].seen}
MoreOf(a) == {b \in Answers : a.seen \subseteq b.seen}

Graph(g) == g \in [ModuleIds -> Parsed] /\ \A m \in ModuleIds : Accepted(g, m)

\* What the entries of a module name.
LEMMA EntryTypes ==
  ASSUME NEW g, Graph(g), NEW m \in ModuleIds
  PROVE  /\ g[m] \in Parsed /\ g[m].star \in Seq(ModuleIds)
         /\ \A k \in 1 .. Len(g[m].star) : g[m].star[k] \in ModuleIds
         /\ ToSet(g[m].star) \subseteq ModuleIds
         /\ \A e \in ToSet(g[m].local) : e \in [exported: ExportNames, local: ExportNames]
         /\ \A e \in ToSet(g[m].indirect) : e \in [exported: ExportNames, from: ModuleIds, name: ExportNames]
         /\ Len(g[m].star) \in Nat
  <1>1. g[m] \in Parsed
    BY DEF Graph
  <1> DEFINE s == g[m].star
             l == g[m].local
             i == g[m].indirect
             L == [exported: ExportNames, local: ExportNames]
             I == [exported: ExportNames, from: ModuleIds, name: ExportNames]
  <1>2. s \in Seq(ModuleIds) /\ l \in Seq(L) /\ i \in Seq(I)
    BY <1>1 DEF Parsed
  <1> HIDE DEF s, l, i, L, I
  <1>3. /\ Len(s) \in Nat /\ \A k \in 1 .. Len(s) : s[k] \in ModuleIds
        /\ ToSet(s) \subseteq ModuleIds /\ ToSet(l) \subseteq L /\ ToSet(i) \subseteq I
    BY <1>2 DEF ToSet
  <1> QED
    BY <1>1, <1>2, <1>3 DEF s, l, i, L, I

\* A pair and what it leads to.
LEMMA PairTypes ==
  ASSUME NEW g, Graph(g), NEW p \in Pairs
  PROVE  /\ p[1] \in ModuleIds /\ p[2] \in ExportNames /\ p = <<p[1], p[2]>>
         /\ \A e \in Locals(g, p) : e.local \in ExportNames
         /\ \A e \in Indirects(g, p) : e.from \in ModuleIds /\ e.name \in ExportNames
         /\ \A e, d \in Locals(g, p) : e = d
         /\ \A e, d \in Indirects(g, p) : e = d
         /\ Targets(g, p) \subseteq Pairs
  <1>1. p[1] \in ModuleIds /\ p[2] \in ExportNames /\ p = <<p[1], p[2]>>
    BY DEF Pairs
  <1>2. \A e \in Locals(g, p) : e.local \in ExportNames
    BY <1>1, EntryTypes DEF Locals
  <1>3. \A e \in Indirects(g, p) : e.from \in ModuleIds /\ e.name \in ExportNames
    BY <1>1, EntryTypes DEF Indirects
  <1>4. \A e, d \in Locals(g, p) \cup Indirects(g, p) : e = d
    BY <1>1 DEF Graph, Accepted
  <1>5. ToSet(g[p[1]].star) \X {p[2]} \subseteq Pairs
    BY <1>1, EntryTypes DEF Pairs
  <1>6. {<<e.from, e.name>> : e \in Indirects(g, p)} \subseteq Pairs
    BY <1>3 DEF Pairs
  <1>7. Targets(g, p) \in {{}, {<<e.from, e.name>> : e \in Indirects(g, p)}, ToSet(g[p[1]].star) \X {p[2]}}
    BY DEF Targets
  <1> QED
    BY <1>1, <1>2, <1>3, <1>4, <1>5, <1>6, <1>7

\* There are finitely many pairs of a module and a name.
LEMMA PairsFinite == IsFiniteSet(Pairs) /\ Cardinality(Pairs) \in Nat
  BY NamesAssumption, FS_Product, FS_CardinalityType DEF Pairs

\* A question is a query, and its parts are what it was made of.
LEMMA QueryTypes ==
  ASSUME NEW m \in ModuleIds, NEW n \in ExportNames, NEW S \in SUBSET Pairs, NEW st \in SUBSET ModuleIds
  PROVE  /\ Query(m, n, S, st) \in Queries /\ Query(m, n, S, st).module = m /\ Query(m, n, S, st).name = n
         /\ Query(m, n, S, st).seen = S /\ Query(m, n, S, st).stars = st
         /\ PairOf(Query(m, n, S, st)) = <<m, n>>
  BY DEF Query, Queries, Pairs, PairOf

\* The parts of a query.
LEMMA QueryParts ==
  ASSUME NEW q \in Queries
  PROVE  /\ q.module \in ModuleIds /\ q.name \in ExportNames
         /\ q.seen \subseteq Pairs /\ q.stars \subseteq ModuleIds /\ PairOf(q) \in Pairs
         /\ PairOf(q)[1] = q.module /\ PairOf(q)[2] = q.name
  BY DEF Queries, Pairs, PairOf

\* A query that has seen more weighs less.
LEMMA SeenMore ==
  ASSUME NEW q \in Queries, NEW r \in Queries, q.seen \cup {PairOf(q)} \subseteq r.seen, PairOf(q) \notin q.seen
  PROVE  Weight(r) < Weight(q)
  <1> DEFINE A == Pairs \ r.seen
             B == Pairs \ q.seen
  <1>1. A \subseteq B /\ PairOf(q) \in B /\ PairOf(q) \notin A /\ B \subseteq Pairs
    BY QueryParts
  <1>2. IsFiniteSet(B) /\ IsFiniteSet(A)
    BY <1>1, PairsFinite, FS_Subset
  <1> HIDE DEF A, B
  <1>3. Cardinality(A) <= Cardinality(B) /\ Cardinality(A) # Cardinality(B)
    BY <1>1, <1>2, FS_Subset
  <1>4. Cardinality(A) \in Nat /\ Cardinality(B) \in Nat
    BY <1>2, FS_CardinalityType
  <1> QED
    BY <1>3, <1>4 DEF Weight, A, B

\* There is a bound on how much a query can still see.
LEMMA WeightType ==
  ASSUME NEW q \in Queries
  PROVE  Weight(q) \in 0 .. Cardinality(Pairs)
  <1> DEFINE B == Pairs \ q.seen
  <1>1. IsFiniteSet(B) /\ Cardinality(B) <= Cardinality(Pairs)
    BY PairsFinite, FS_Subset
  <1>2. Cardinality(B) \in Nat
    BY <1>1, FS_CardinalityType
  <1> QED
    BY <1>1, <1>2, PairsFinite DEF Weight

\* What a module is asked for, and what it answers.
LEMMA AskTypes ==
  ASSUME NEW F \in Resolvers, NEW a \in Answers, NEW m \in ModuleIds, NEW n \in ExportNames
  PROVE  /\ Query(m, n, a.seen, a.stars) \in Queries
         /\ Ask(F, m, n, a) \in MoreOf(a)
         /\ Ask(F, m, n, a) = F[Query(m, n, a.seen, a.stars)]
         /\ Query(m, n, a.seen, a.stars).seen = a.seen
  <1>1. a.seen \in SUBSET Pairs /\ a.stars \in SUBSET ModuleIds
    BY DEF Answers
  <1> DEFINE r == Query(m, n, a.seen, a.stars)
  <1>2. r \in Queries /\ r.seen = a.seen
    BY <1>1, QueryTypes
  <1> HIDE DEF r
  <1>3. F[r] \in Answers /\ r.seen \subseteq F[r].seen
    BY <1>2 DEF Resolvers
  <1> QED
    BY <1>2, <1>3 DEF Ask, MoreOf, r

\* What comes of two star exports is a binding or none.
LEMMA CombineTypes ==
  ASSUME NEW a \in Binding \cup NoBinding, NEW b \in Binding \cup NoBinding
  PROVE  CombineStar(a, b) \in Binding \cup NoBinding
  BY DEF CombineStar, Combine, NoBinding

\* One turn of the loop.
LEMMA TurnTypes ==
  ASSUME NEW F \in Resolvers, NEW q \in Queries, NEW m \in ModuleIds, NEW b \in Answers
  PROVE  StarExport(F, q, m, b) \in MoreOf(b)
  <1> DEFINE r == Ask(F, m, q.name, b)
             c == [r EXCEPT !.value = CombineStar(b.value, @)]
  <1>1. r \in Answers /\ b.seen \subseteq r.seen
    BY AskTypes, QueryParts DEF MoreOf
  <1> HIDE DEF r
  <1>2. CombineStar(b.value, r.value) \in Binding \cup NoBinding
    BY <1>1, CombineTypes DEF Answers
  <1>3. c \in Answers /\ c.seen = r.seen
    BY <1>1, <1>2 DEF Answers
  <1>4. StarExport(F, q, m, b) \in {b, c}
    BY DEF StarExport, r
  <1> QED
    BY <1>1, <1>3, <1>4 DEF MoreOf

\* What the loop does, turn by turn.
Turns(g, f, q, a, h) ==
  /\ h[0] = a
  /\ \A k \in 1 .. Len(g[q.module].star) : h[k] = StarExport(f, q, g[q.module].star[k], h[k - 1])

\* The recursive function of the loop is the only one that takes these turns.
LEMMA LoopUnfolds ==
  ASSUME NEW g, NEW f, NEW q, NEW a, Len(g[q.module].star) \in Nat,
         NEW A, NEW h \in [0 .. Len(g[q.module].star) -> A], Turns(g, f, q, a, h)
  PROVE  StarExports(g, f, q, a) = h[Len(g[q.module].star)]
  <1> DEFINE star == g[q.module].star
             n == Len(star)
             Body(x, k) == IF k = 0 THEN a ELSE StarExport(f, q, star[k], x[k - 1])
             after[k \in 0 .. n] == IF k = 0 THEN a ELSE StarExport(f, q, star[k], after[k - 1])
  <1>1. StarExports(g, f, q, a) = after[n]
    BY DEF StarExports
  <1> DEFINE G(x) == [k \in 0 .. n |-> Body(x, k)]
  <1>2. after = CHOOSE x : x = G(x)
    OBVIOUS
  <1> HIDE DEF after
  <1>3. n \in Nat
    OBVIOUS
  <1>4. h = G(h)
    <2>1. ASSUME NEW k \in 0 .. n PROVE h[k] = Body(h, k)
      <3>1. CASE k = 0
        BY <3>1 DEF Turns
      <3>2. CASE k # 0
        <4>1. k \in 1 .. n
          BY <1>3, <3>2
        <4> QED
          BY <3>2, <4>1 DEF Turns
      <3> QED
        BY <3>1, <3>2
    <2> HIDE DEF Body
    <2> QED
      BY <2>1
  <1> HIDE DEF G
  <1>5. after = G(after)
    BY <1>2, <1>4
  <1>6. \A k \in 0 .. n : after[k] = Body(after, k)
    <2> HIDE DEF Body
    <2> QED
      BY <1>5 DEF G
  <1> DEFINE T == {k \in 0 .. n : after[k] = h[k]}
  <1>7. 0 \in T
    BY <1>3, <1>6 DEF Turns
  <1>8. ASSUME NEW k \in 0 .. n, k \in T, k < n
        PROVE  k + 1 \in T
    <2>1. k + 1 \in 0 .. n /\ k + 1 \in 1 .. n /\ (k + 1) - 1 = k /\ k + 1 # 0
      BY <1>3, <1>8
    <2>2. after[k + 1] = Body(after, k + 1)
      BY <1>6, <2>1
    <2>3. after[k + 1] = StarExport(f, q, star[k + 1], after[k])
      BY <2>1, <2>2
    <2>4. h[k + 1] = StarExport(f, q, star[k + 1], h[k])
      BY <2>1 DEF Turns
    <2> QED
      BY <1>8, <2>1, <2>3, <2>4
  <1> HIDE DEF T, n
  <1>9. 0 .. n \subseteq T
    BY <1>3, <1>7, <1>8, UpTo
  <1>10. n \in T
    BY <1>3, <1>9
  <1> QED
    BY <1>1, <1>10 DEF T, n

\* The loop over the star exports takes its turns, and sees ever more.
LEMMA LoopTypes ==
  ASSUME NEW g, Graph(g), NEW F \in Resolvers, NEW q \in Queries, NEW a \in Answers
  PROVE  \E h \in [0 .. Len(g[q.module].star) -> MoreOf(a)] :
            Turns(g, F, q, a, h) /\ StarExports(g, F, q, a) = h[Len(g[q.module].star)]
  <1> DEFINE star == g[q.module].star
             n == Len(star)
             A == MoreOf(a)
             G == [k \in 1 .. n |-> [b \in A |-> StarExport(F, q, star[k], b)]]
  <1>1. n \in Nat /\ \A k \in 1 .. n : star[k] \in ModuleIds
    BY EntryTypes, QueryParts
  <1>2. a \in A
    BY DEF MoreOf
  <1>3. \A k \in 1 .. n, b \in A : StarExport(F, q, star[k], b) \in A
    <2> SUFFICES ASSUME NEW k \in 1 .. n, NEW b \in A
                 PROVE  StarExport(F, q, star[k], b) \in A
      OBVIOUS
    <2>1. star[k] \in ModuleIds /\ b \in Answers /\ a.seen \subseteq b.seen
      BY <1>1 DEF MoreOf
    <2>2. StarExport(F, q, star[k], b) \in MoreOf(b)
      BY <2>1, TurnTypes
    <2> QED
      BY <2>1, <2>2 DEF MoreOf
  <1> HIDE DEF star, n, A
  <1>4. G \in [1 .. n -> [A -> A]] /\ \A k \in 1 .. n, b \in A : G[k][b] = StarExport(F, q, star[k], b)
    BY <1>3
  <1> HIDE DEF G
  <1>5. PICK h \in [0 .. n -> A] : h[0] = a /\ \A k \in 1 .. n : h[k] = G[k][h[k - 1]]
    <2>1. CanIterate(A, a, n, G)
      BY <1>1, <1>2, <1>4 DEF CanIterate
    <2>2. PICK h : Iterates(h, A, a, n, G)
      BY <2>1, IterationNamed
    <2> QED
      BY <2>2 DEF Iterates
  <1>6. \A k \in 1 .. n : h[k] = StarExport(F, q, star[k], h[k - 1])
    <2> TAKE k \in 1 .. n
    <2>1. k - 1 \in 0 .. n
      BY <1>1
    <2> QED
      BY <1>4, <1>5, <2>1
  <1>7. Turns(g, F, q, a, h)
    BY <1>5, <1>6 DEF Turns, star, n
  <1>8. StarExports(g, F, q, a) = h[n]
    BY <1>1, <1>7, LoopUnfolds DEF star, n
  <1> QED
    BY <1>7, <1>8 DEF star, n, A

\* What a query begins with: its pair is seen.
Begun(q) == Answer(Null, [q EXCEPT !.seen = @ \cup {PairOf(q)}])
Marked(q, i) == [i EXCEPT !.stars = @ \cup {q.module}]

\* The answer a call starts from has seen its own pair.
LEMMA BegunTypes ==
  ASSUME NEW q \in Queries
  PROVE  /\ Begun(q) \in Answers /\ Begun(q).seen = q.seen \cup {PairOf(q)}
         /\ Begun(q).value = Null /\ Begun(q).stars = q.stars
  BY QueryParts DEF Begun, Answer, Answers, NoBinding, Queries, Pairs

\* The cases of ResolveExport.
LEMMA ResolvedCases ==
  ASSUME NEW g, NEW f, NEW q \in Queries
  PROVE  LET p == PairOf(q)
             i == IndirectExport(g, f, q, Begun(q))
             r == Resolved(g, f, q)
         IN  /\ p \in q.seen => r = Answer(Null, q)
             /\ p \notin q.seen /\ Locals(g, p) # {} =>
                    \E e \in Locals(g, p) :
                        r = [Begun(q) EXCEPT !.value = Binds(q.module, e.local)]
             /\ p \notin q.seen /\ Locals(g, p) = {} =>
                    /\ i.value # Null => r = i
                    /\ i.value = Null /\ q.name = Default => r = [i EXCEPT !.value = BadDefault]
                    /\ i.value = Null /\ q.name # Default /\ q.module \in i.stars => r = i
                    /\ i.value = Null /\ q.name # Default /\ q.module \notin i.stars =>
                            r = StarExports(g, f, q, Marked(q, i))
  <1> DEFINE p == PairOf(q)
             i == IndirectExport(g, f, q, Begun(q))
             r == Resolved(g, f, q)
             e0 == CHOOSE e \in Locals(g, p) : TRUE
             here == [q EXCEPT !.seen = @ \cup {p}]
  <1>1. r = CASE p \in q.seen -> Answer(Null, q)
              [] p \notin q.seen /\ Locals(g, p) # {} -> Answer(Binds(q.module, e0.local), here)
              [] OTHER -> CASE i.value # Null -> i
                            [] i.value = Null /\ q.name = Default -> [i EXCEPT !.value = BadDefault]
                            [] OTHER -> IF q.module \in i.stars THEN i ELSE StarExports(g, f, q, Marked(q, i))
    BY DEF Resolved, PairOf, Begun, Marked
  <1>2. Locals(g, p) # {} => e0 \in Locals(g, p)
    OBVIOUS
  <1>3. Answer(Binds(q.module, e0.local), here) = [Begun(q) EXCEPT !.value = Binds(q.module, e0.local)]
    BY DEF Answer, Begun
  <1> HIDE DEF e0, i, r, p, here
  <1>4. CASE p \in q.seen
    BY <1>1, <1>4 DEF r, p
  <1>5. CASE p \notin q.seen /\ Locals(g, p) # {}
    BY <1>1, <1>2, <1>3, <1>5 DEF r, p
  <1>6. CASE p \notin q.seen /\ Locals(g, p) = {}
    <2>1. r = CASE i.value # Null -> i
                [] i.value = Null /\ q.name = Default -> [i EXCEPT !.value = BadDefault]
                [] OTHER -> IF q.module \in i.stars THEN i ELSE StarExports(g, f, q, Marked(q, i))
      BY <1>1, <1>6
    <2> QED
      BY <1>6, <2>1 DEF r, p, i
  <1> QED
    BY <1>4, <1>5, <1>6

\* An entry that passes the name on is asked for, if there is one.
LEMMA IndirectCases ==
  ASSUME NEW g, NEW f, NEW q \in Queries, NEW a
  PROVE  LET X == Indirects(g, PairOf(q))
         IN  /\ X = {} => IndirectExport(g, f, q, a) = a
             /\ X # {} => \E e \in X : IndirectExport(g, f, q, a) = Ask(f, e.from, e.name, a)
  <1> DEFINE X == Indirects(g, PairOf(q))
             e0 == CHOOSE e \in X : TRUE
  <1>1. IndirectExport(g, f, q, a) = IF X = {} THEN a ELSE Ask(f, e0.from, e0.name, a)
    BY DEF IndirectExport, PairOf
  <1>2. X # {} => e0 \in X
    OBVIOUS
  <1> HIDE DEF X, e0
  <1> QED
    BY <1>1, <1>2 DEF X

\* f answers as F does, when it is asked by q.
Agrees(f, F, q) == \A r \in Queries : Weight(r) < Weight(q) => f[r] = F[r]

\* Whom q asks has seen q's pair.
LEMMA AsksAgree ==
  ASSUME NEW F \in Resolvers, NEW q \in Queries, PairOf(q) \notin q.seen, NEW f, Agrees(f, F, q),
         NEW a \in Answers, Begun(q).seen \subseteq a.seen, NEW m \in ModuleIds, NEW n \in ExportNames
  PROVE  Ask(f, m, n, a) = Ask(F, m, n, a)
  <1> DEFINE r == Query(m, n, a.seen, a.stars)
  <1>1. r \in Queries /\ r.seen = a.seen
    BY AskTypes
  <1> HIDE DEF r
  <1>2. Weight(r) < Weight(q)
    BY <1>1, SeenMore, BegunTypes
  <1> QED
    BY <1>1, <1>2 DEF Agrees, Ask, r

\* A call returns an answer that has seen at least what its query has.
LEMMA ResolvedTypes ==
  ASSUME NEW g, Graph(g), NEW F \in Resolvers, NEW q \in Queries
  PROVE  Resolved(g, F, q) \in Answers /\ q.seen \subseteq Resolved(g, F, q).seen
  <1> DEFINE p == PairOf(q)
             b == Begun(q)
             i == IndirectExport(g, F, q, b)
             r == Resolved(g, F, q)
  <1>0. b \in Answers /\ q.seen \subseteq b.seen /\ p \in Pairs /\ q.module \in ModuleIds
    BY BegunTypes, QueryParts
  <1>1. i \in MoreOf(b)
    <2>1. CASE Indirects(g, p) = {}
      BY <1>0, <2>1, IndirectCases DEF MoreOf
    <2>2. CASE Indirects(g, p) # {}
      <3>1. PICK e \in Indirects(g, p) : i = Ask(F, e.from, e.name, b)
        BY <2>2, IndirectCases
      <3>2. e.from \in ModuleIds /\ e.name \in ExportNames
        BY <1>0, PairTypes
      <3> QED
        BY <1>0, <3>1, <3>2, AskTypes
    <2> QED
      BY <2>1, <2>2
  <1>2. i \in Answers /\ b.seen \subseteq i.seen
    BY <1>1 DEF MoreOf
  <1>3. CASE p \in q.seen
    <2>1. r = Answer(Null, q)
      BY <1>3, ResolvedCases
    <2> QED
      BY <2>1, QueryParts DEF Answer, Answers, NoBinding
  <1>4. CASE p \notin q.seen /\ Locals(g, p) # {}
    <2>1. PICK e \in Locals(g, p) : r = [b EXCEPT !.value = Binds(q.module, e.local)]
      BY <1>4, ResolvedCases
    <2>2. e.local \in ExportNames
      BY <1>0, PairTypes
    <2>3. Binds(q.module, e.local) \in Binding
      BY <1>0, <2>2 DEF Binds, Binding
    <2> QED
      BY <1>0, <2>1, <2>3 DEF Answers
  <1>5. CASE p \notin q.seen /\ Locals(g, p) = {}
    <2>1. r \in {i, [i EXCEPT !.value = BadDefault], StarExports(g, F, q, Marked(q, i))}
      BY <1>5, ResolvedCases
    <2>2. [i EXCEPT !.value = BadDefault] \in Answers /\ [i EXCEPT !.value = BadDefault].seen = i.seen
      BY <1>2 DEF Answers, NoBinding
    <2>3. Marked(q, i) \in Answers /\ Marked(q, i).seen = i.seen
      BY <1>0, <1>2 DEF Marked, Answers
    <2>4. StarExports(g, F, q, Marked(q, i)) \in MoreOf(Marked(q, i))
      <3>1. PICK h \in [0 .. Len(g[q.module].star) -> MoreOf(Marked(q, i))] :
                    StarExports(g, F, q, Marked(q, i)) = h[Len(g[q.module].star)]
        BY <2>3, LoopTypes
      <3>2. Len(g[q.module].star) \in 0 .. Len(g[q.module].star)
        BY <1>0, EntryTypes
      <3> QED
        BY <3>1, <3>2
    <2> QED
      BY <1>0, <1>2, <2>1, <2>2, <2>3, <2>4 DEF MoreOf
  <1> QED
    BY <1>3, <1>4, <1>5

\* What a call returns depends only on the calls that it makes.
LEMMA ResolvedAgrees ==
  ASSUME NEW g, Graph(g), NEW F \in Resolvers, NEW q \in Queries, NEW f, Agrees(f, F, q)
  PROVE  Resolved(g, f, q) = Resolved(g, F, q)
  <1> DEFINE p == PairOf(q)
             b == Begun(q)
             i == IndirectExport(g, F, q, b)
             e0 == CHOOSE e \in Locals(g, p) : TRUE
  <1>0. b \in Answers /\ q.seen \subseteq b.seen /\ p \in Pairs /\ q.module \in ModuleIds /\ q.name \in ExportNames
    BY BegunTypes, QueryParts
  <1>1. CASE p \in q.seen
    BY <1>1, ResolvedCases
  <1>2. CASE p \notin q.seen /\ Locals(g, p) # {}
    BY <1>2 DEF Resolved, PairOf
  <1>3. CASE p \notin q.seen /\ Locals(g, p) = {}
    <2>1. IndirectExport(g, f, q, b) = i /\ i \in MoreOf(b)
      <3>1. CASE Indirects(g, p) = {}
        BY <1>0, <3>1, IndirectCases DEF MoreOf
      <3>2. CASE Indirects(g, p) # {}
        <4>1. PICK e \in Indirects(g, p) : i = Ask(F, e.from, e.name, b)
          BY <3>2, IndirectCases
        <4>2. PICK d \in Indirects(g, p) : IndirectExport(g, f, q, b) = Ask(f, d.from, d.name, b)
          BY <3>2, IndirectCases
        <4>3. e = d /\ e.from \in ModuleIds /\ e.name \in ExportNames
          BY <1>0, PairTypes
        <4>4. Ask(f, e.from, e.name, b) = Ask(F, e.from, e.name, b)
          BY <1>0, <1>3, <4>3, AsksAgree
        <4> QED
          BY <1>0, <4>1, <4>2, <4>3, <4>4, AskTypes
      <3> QED
        BY <3>1, <3>2
    <2>2. i \in Answers /\ b.seen \subseteq i.seen
      BY <2>1 DEF MoreOf
    <2>3. Marked(q, i) \in Answers /\ Marked(q, i).seen = i.seen
      BY <1>0, <2>2 DEF Marked, Answers
    <2> DEFINE a == Marked(q, i)
               n == Len(g[q.module].star)
    <2>4. StarExports(g, f, q, a) = StarExports(g, F, q, a)
      <3> HIDE DEF a
      <3>1. PICK h \in [0 .. n -> MoreOf(a)] : Turns(g, F, q, a, h) /\ StarExports(g, F, q, a) = h[n]
        BY <2>3, LoopTypes DEF a
      <3>2. n \in Nat /\ \A k \in 1 .. n : g[q.module].star[k] \in ModuleIds
        BY <1>0, EntryTypes
      <3>3. ASSUME NEW k \in 1 .. n
            PROVE  h[k] = StarExport(f, q, g[q.module].star[k], h[k - 1])
        <4> DEFINE m == g[q.module].star[k]
                   c == h[k - 1]
        <4>1. k - 1 \in 0 .. n /\ m \in ModuleIds
          BY <3>2
        <4>2. c \in MoreOf(a)
          BY <3>1, <4>1
        <4>3. c \in Answers /\ b.seen \subseteq c.seen
          BY <2>2, <2>3, <4>2 DEF MoreOf, a
        <4>4. Ask(f, m, q.name, c) = Ask(F, m, q.name, c)
          BY <1>0, <1>3, <4>1, <4>3, AsksAgree
        <4>5. h[k] = StarExport(F, q, m, c)
          BY <3>1 DEF Turns
        <4> QED
          BY <4>4, <4>5 DEF StarExport
      <3>4. Turns(g, f, q, a, h)
        BY <3>1, <3>3 DEF Turns
      <3>5. StarExports(g, f, q, a) = h[n]
        BY <3>2, <3>4, LoopUnfolds
      <3> QED
        BY <3>1, <3>5
    <2> QED
      <3> DEFINE R == Resolved(g, F, q)
                 r == Resolved(g, f, q)
      <3>1. CASE i.value # Null
        <4>1. R = i
          BY <1>3, <3>1, ResolvedCases
        <4>2. r = i
          BY <1>3, <2>1, <3>1, ResolvedCases
        <4> QED
          BY <4>1, <4>2
      <3>2. CASE i.value = Null /\ q.name = Default
        <4>1. R = [i EXCEPT !.value = BadDefault]
          BY <1>3, <3>2, ResolvedCases
        <4>2. r = [i EXCEPT !.value = BadDefault]
          BY <1>3, <2>1, <3>2, ResolvedCases
        <4> QED
          BY <4>1, <4>2
      <3>3. CASE i.value = Null /\ q.name # Default /\ q.module \in i.stars
        <4>1. R = i
          BY <1>3, <3>3, ResolvedCases
        <4>2. r = i
          BY <1>3, <2>1, <3>3, ResolvedCases
        <4> QED
          BY <4>1, <4>2
      <3>4. CASE i.value = Null /\ q.name # Default /\ q.module \notin i.stars
        <4>1. R = StarExports(g, F, q, a)
          BY <1>3, <3>4, ResolvedCases
        <4>2. r = StarExports(g, f, q, a)
          BY <1>3, <2>1, <3>4, ResolvedCases
        <4> QED
          BY <2>4, <4>1, <4>2
      <3> QED
        BY <3>1, <3>2, <3>3, <3>4
  <1> QED
    BY <1>1, <1>2, <1>3

\* ResolveExport is the function its definition describes.
LEMMA ResolveExportIs ==
  ASSUME NEW g, Graph(g)
  PROVE  /\ ResolveExport(g) \in Resolvers
         /\ \A q \in Queries : ResolveExport(g)[q] = Resolved(g, ResolveExport(g), q)
  <1> DEFINE f[q \in Queries] == Resolved(g, f, q)
             B(x) == [q \in Queries |-> Resolved(g, x, q)]
             H == [F \in Resolvers |-> B(F)]
             F0 == [q \in Queries |-> Answer(Null, q)]
             w == [q \in Queries |-> Weight(q)]
             N == Cardinality(Pairs)
  <1>1. ResolveExport(g) = f /\ f = CHOOSE x : x = B(x)
    BY DEF ResolveExport
  <1> HIDE DEF f
  <1>2. \A F \in Resolvers : B(F) \in Resolvers
    BY ResolvedTypes DEF Resolvers
  <1>3. H \in [Resolvers -> Resolvers]
    <2> HIDE DEF B
    <2> QED
      BY <1>2
  <1>4. F0 \in Resolvers
    BY QueryParts DEF Resolvers, Answer, Answers, NoBinding
  <1>5. w \in [Queries -> 0 .. N] /\ N \in Nat
    BY WeightType, PairsFinite
  <1>6. ASSUME NEW F \in Resolvers, NEW G \in Resolvers, NEW q \in Queries,
               \A r \in Queries : w[r] < w[q] => F[r] = G[r]
        PROVE  H[F][q] = H[G][q]
    <2>1. Agrees(F, G, q)
      BY <1>6 DEF Agrees
    <2> QED
      BY <2>1, ResolvedAgrees
  <1>7. ASSUME NEW F \in Resolvers, NEW G \in Resolvers, \A q \in Queries : F[q] = G[q]
        PROVE  F = G
    BY <1>7 DEF Resolvers
  <1>8. \A F \in Resolvers : H[F] = B(F)
    OBVIOUS
  <1> HIDE DEF H, F0, w, N
  <1>9. PICK F \in Resolvers : H[F] = F
    <2>1. Recurs(Queries, Resolvers, H, w, N)
      BY <1>3, <1>5, <1>6, <1>7 DEF Recurs
    <2> QED
      BY <1>4, <2>1, RecursionHasMeaning
  <1>10. F = B(F)
    BY <1>8, <1>9
  <1>11. f = B(f)
    <2> HIDE DEF B
    <2> QED
      BY <1>1, <1>10
  <1>12. \A q \in Queries : f[q] = Resolved(g, f, q)
    BY <1>11
  <1>13. \A q \in Queries : F[q] = Resolved(g, F, q)
    BY <1>10
  <1>14. \A q \in Queries : f[q] = F[q]
    <2> SUFFICES ASSUME \E q \in Queries : f[q] # F[q]
                 PROVE  FALSE
      OBVIOUS
    <2> DEFINE W == {Weight(q) : q \in {x \in Queries : f[x] # F[x]}}
    <2>1. W \in SUBSET Nat /\ W # {}
      <3>1. \A q \in Queries : Weight(q) \in Nat
        BY WeightType
      <3> QED
        BY <3>1
    <2>2. PICK n \in W : \A m \in W : n <= m
      BY <2>1, LeastNumber
    <2>3. PICK q \in Queries : f[q] # F[q] /\ Weight(q) = n
      BY <2>2
    <2>4. ASSUME NEW r \in Queries, Weight(r) < Weight(q)
          PROVE  f[r] = F[r]
      <3>1. Weight(r) \in Nat /\ Weight(q) \in Nat
        BY WeightType
      <3> QED
        BY <2>2, <2>3, <2>4, <3>1
    <2>5. Resolved(g, f, q) = Resolved(g, F, q)
      BY <2>4, ResolvedAgrees DEF Agrees
    <2> QED
      BY <1>12, <1>13, <2>3, <2>5
  <1>15. f = F
    <2>1. f = [q \in Queries |-> f[q]]
      BY <1>11
    <2>2. F = [q \in Queries |-> F[q]]
      BY DEF Resolvers
    <2> QED
      BY <1>14, <2>1, <2>2
  <1> QED
    BY <1>1, <1>12, <1>15

-----------------------------------------------------------------------------
(* What names mean.                                                          *)

\* LedTo is the least set that holds x and what its elements lead to.
LEMMA LedToIs ==
  ASSUME NEW S, IsFiniteSet(S), NEW T \in [S -> SUBSET S], NEW x \in S
  PROVE  LeastShut(S, T, x, LedTo(S, T, x))
  <1> DEFINE N == Cardinality(S)
             Body(W, k) == IF k = 0 THEN {x} ELSE W[k - 1] \cup UNION {T[p] : p \in W[k - 1]}
             Within[k \in 0 .. N] == IF k = 0 THEN {x} ELSE Within[k - 1] \cup UNION {T[p] : p \in Within[k - 1]}
             F(W) == [k \in 0 .. N |-> Body(W, k)]
             A == SUBSET S
             G == [k \in 1 .. N |-> [X \in A |-> X \cup UNION {T[p] : p \in X}]]
             a == {x}
  <1>1. LedTo(S, T, x) = Within[N] /\ Within = CHOOSE W : W = F(W)
    BY DEF LedTo
  <1> HIDE DEF Within
  <1>2. N \in Nat
    BY FS_CardinalityType
  <1> HIDE DEF N
  <1>3. CanIterate(A, a, N, G)
    <2>1. \A X \in A : X \cup UNION {T[p] : p \in X} \in A
      OBVIOUS
    <2> QED
      BY <1>2, <2>1 DEF CanIterate
  <1>4. \A k \in 1 .. N, X \in A : G[k][X] = X \cup UNION {T[p] : p \in X}
    OBVIOUS
  <1> HIDE DEF G, A
  <1>5. PICK h : Iterates(h, A, a, N, G)
    BY <1>3, IterationNamed
  <1>6. \A k \in 0 .. N : h[k] = Body(h, k)
    <2> TAKE k \in 0 .. N
    <2>1. CASE k = 0
      BY <1>5, <2>1 DEF Iterates
    <2>2. CASE k # 0
      <3>1. k \in 1 .. N /\ k - 1 \in 0 .. N
        BY <1>2, <2>2
      <3>2. h[k] = G[k][h[k - 1]] /\ h[k - 1] \in A
        BY <1>5, <3>1 DEF Iterates
      <3> QED
        BY <1>4, <2>2, <3>1, <3>2
    <2> QED
      BY <2>1, <2>2
  <1>7. h = F(h)
    <2> HIDE DEF Body
    <2>1. h = [k \in 0 .. N |-> h[k]]
      BY <1>5 DEF Iterates
    <2> QED
      BY <1>6, <2>1
  <1>8. Within = F(Within)
    <2> HIDE DEF F
    <2> QED
      BY <1>1, <1>7
  <1>9. \A k \in 0 .. N : Within[k] = Body(Within, k)
    <2> HIDE DEF Body
    <2> QED
      BY <1>8
  <1>10. Within[0] = {x}
    <2>1. 0 \in 0 .. N
      BY <1>2
    <2>2. Within[0] = Body(Within, 0)
      BY <1>9, <2>1
    <2> QED
      BY <2>2
  <1>11. \A k \in 1 .. N : Within[k] = Within[k - 1] \cup UNION {T[p] : p \in Within[k - 1]}
    <2> TAKE k \in 1 .. N
    <2>1. k \in 0 .. N /\ k # 0
      BY <1>2
    <2> QED
      BY <1>9, <2>1
  <1>12. GrowsBy(S, T, x, Within)
    BY <1>10, <1>11 DEF GrowsBy, N
  <1> QED
    BY <1>1, <1>12, GrowsToAll DEF N

\* What is reached from a pair is pairs, leads nowhere else, and is all that must be.
LEMMA ReachedIs ==
  ASSUME NEW g, Graph(g), NEW m \in ModuleIds, NEW n \in ExportNames
  PROVE  /\ Reached(g, m, n) \subseteq Pairs /\ <<m, n>> \in Reached(g, m, n)
         /\ \A p \in Reached(g, m, n) : Targets(g, p) \subseteq Reached(g, m, n)
         /\ \A C : <<m, n>> \in C /\ (\A p \in C \cap Pairs : Targets(g, p) \subseteq C) => Reached(g, m, n) \subseteq C
  <1> DEFINE T == [p \in Pairs |-> Targets(g, p)]
             x == <<m, n>>
  <1>1. T \in [Pairs -> SUBSET Pairs] /\ \A p \in Pairs : T[p] = Targets(g, p)
    BY PairTypes
  <1>2. x \in Pairs
    BY DEF Pairs
  <1>3. Reached(g, m, n) = LedTo(Pairs, T, x)
    BY DEF Reached
  <1> HIDE DEF T, x
  <1>4. LET R == LedTo(Pairs, T, x)
        IN  /\ R \subseteq Pairs /\ x \in R /\ \A p \in R : T[p] \subseteq R
            /\ \A C : x \in C /\ (\A p \in C \cap Pairs : T[p] \subseteq C) => R \subseteq C
    BY <1>1, <1>2, PairsFinite, LedToIs DEF LeastShut
  <1>5. \A C : (\A p \in C \cap Pairs : Targets(g, p) \subseteq C) => (\A p \in C \cap Pairs : T[p] \subseteq C)
    BY <1>1
  <1> QED
    BY <1>1, <1>3, <1>4, <1>5 DEF x

\* Two views of what is asked for: by what the name means, or by all that a call
\* may ask for on its behalf, the star exports that it falls back on included.
Views == {"strict", "loose"}
Goes(g, w, p) == IF w = "loose" THEN MayAsk(g, p) ELSE Targets(g, p)
Follows(g, w, p) == IF w = "loose" THEN MayFollow(g, p) ELSE Stars(g, p)
World(g, w, m, n) == IF w = "loose" THEN Visited(g, m, n) ELSE Reached(g, m, n)
Ends(g, w, m, n) == IF w = "loose" THEN Candidates(g, m, n) ELSE Meanings(g, m, n)

\* What a call may ask for: what the pair leads to, and its name in the modules
\* of star exports.
LEMMA GoesTo ==
  ASSUME NEW g, Graph(g), NEW w \in Views, NEW p \in Pairs
  PROVE  /\ Goes(g, w, p) \subseteq Pairs /\ Targets(g, p) \subseteq Goes(g, w, p)
         /\ Follows(g, w, p) => ToSet(g[p[1]].star) \X {p[2]} \subseteq Goes(g, w, p)
         /\ Follows(g, w, p) => Locals(g, p) = {} /\ p[2] # Default
  <1>1. p[1] \in ModuleIds /\ p[2] \in ExportNames /\ Targets(g, p) \subseteq Pairs
    BY PairTypes
  <1> DEFINE S == ToSet(g[p[1]].star) \X {p[2]}
  <1>2. S \subseteq Pairs
    BY <1>1, EntryTypes DEF Pairs
  <1>3. MayAsk(g, p) = Targets(g, p) \cup (IF MayFollow(g, p) THEN S ELSE {})
    BY DEF MayAsk
  <1>4. Stars(g, p) => Targets(g, p) = S /\ Locals(g, p) = {} /\ p[2] # Default
    BY DEF Targets, Stars
  <1>5. MayFollow(g, p) => Locals(g, p) = {} /\ p[2] # Default
    BY DEF MayFollow
  <1> HIDE DEF S
  <1>6. CASE w = "loose"
    BY <1>1, <1>2, <1>3, <1>5, <1>6 DEF Goes, Follows, S
  <1>7. CASE w = "strict"
    BY <1>1, <1>4, <1>7 DEF Goes, Follows, S
  <1> QED
    BY <1>6, <1>7 DEF Views

\* All that is asked for is pairs, leads nowhere else, and is all that must be.
LEMMA VisitedIs ==
  ASSUME NEW g, Graph(g), NEW m \in ModuleIds, NEW n \in ExportNames
  PROVE  /\ Visited(g, m, n) \subseteq Pairs /\ <<m, n>> \in Visited(g, m, n)
         /\ \A p \in Visited(g, m, n) : MayAsk(g, p) \subseteq Visited(g, m, n)
  <1> DEFINE T == [p \in Pairs |-> MayAsk(g, p)]
             x == <<m, n>>
  <1>1. T \in [Pairs -> SUBSET Pairs] /\ \A p \in Pairs : T[p] = MayAsk(g, p)
    <2>1. \A p \in Pairs : MayAsk(g, p) \subseteq Pairs
      <3> TAKE p \in Pairs
      <3>1. Goes(g, "loose", p) \subseteq Pairs
        BY GoesTo DEF Views
      <3> QED
        BY <3>1 DEF Goes
    <2> QED
      BY <2>1
  <1>2. x \in Pairs
    BY DEF Pairs
  <1>3. Visited(g, m, n) = LedTo(Pairs, T, x)
    BY DEF Visited
  <1> HIDE DEF T, x
  <1>4. LET R == LedTo(Pairs, T, x)
        IN  R \subseteq Pairs /\ x \in R /\ \A p \in R : T[p] \subseteq R
    BY <1>1, <1>2, PairsFinite, LedToIs DEF LeastShut
  <1> QED
    BY <1>1, <1>3, <1>4 DEF x

\* And so in either view.
LEMMA WorldIs ==
  ASSUME NEW g, Graph(g), NEW w \in Views, NEW m \in ModuleIds, NEW n \in ExportNames
  PROVE  /\ World(g, w, m, n) \subseteq Pairs /\ <<m, n>> \in World(g, w, m, n)
         /\ \A p \in World(g, w, m, n) : Goes(g, w, p) \subseteq World(g, w, m, n)
  <1>1. CASE w = "loose"
    BY <1>1, VisitedIs DEF World, Goes
  <1>2. CASE w = "strict"
    BY <1>2, ReachedIs DEF World, Goes
  <1> QED
    BY <1>1, <1>2 DEF Views

\* The modules that a module requires, itself included, require no others.
LEMMA RequiredIs ==
  ASSUME NEW g, Graph(g), NEW m \in ModuleIds
  PROVE  /\ Required(g, m) \subseteq ModuleIds /\ m \in Required(g, m)
         /\ \A r \in Required(g, m) : ToSet(g[r].requested) \subseteq Required(g, m)
         /\ \A C : m \in C /\ (\A r \in C \cap ModuleIds : ToSet(g[r].requested) \subseteq C) => Required(g, m) \subseteq C
  <1> DEFINE T == [r \in ModuleIds |-> ToSet(g[r].requested)]
  <1>1. T \in [ModuleIds -> SUBSET ModuleIds] /\ \A r \in ModuleIds : T[r] = ToSet(g[r].requested)
    <2>1. \A r \in ModuleIds : g[r].requested \in Seq(ModuleIds)
      BY EntryTypes DEF Parsed
    <2>2. ASSUME NEW r \in ModuleIds
          PROVE  ToSet(g[r].requested) \subseteq ModuleIds
      <3> DEFINE s == g[r].requested
      <3>1. s \in Seq(ModuleIds)
        BY <2>1
      <3> HIDE DEF s
      <3>2. ToSet(s) \subseteq ModuleIds
        BY <3>1 DEF ToSet
      <3> QED
        BY <3>2 DEF s
    <2> QED
      BY <2>2
  <1>2. Required(g, m) = LedTo(ModuleIds, T, m)
    BY DEF Required
  <1>3. IsFiniteSet(ModuleIds)
    BY NamesAssumption
  <1> HIDE DEF T
  <1>4. LET R == LedTo(ModuleIds, T, m)
        IN  /\ R \subseteq ModuleIds /\ m \in R /\ \A r \in R : T[r] \subseteq R
            /\ \A C : m \in C /\ (\A r \in C \cap ModuleIds : T[r] \subseteq C) => R \subseteq C
    BY <1>1, <1>3, LedToIs DEF LeastShut
  <1>5. \A C : (\A r \in C \cap ModuleIds : ToSet(g[r].requested) \subseteq C) => (\A r \in C \cap ModuleIds : T[r] \subseteq C)
    BY <1>1
  <1> QED
    BY <1>1, <1>2, <1>4, <1>5

\* The meanings of a pair, one by one.
LEMMA MeaningIs ==
  ASSUME NEW g, NEW m, NEW n, NEW b
  PROVE  b \in Meanings(g, m, n) <=>
            \E p \in Reached(g, m, n) : \E e \in Locals(g, p) : b = Binds(p[1], e.local)
  BY DEF Meanings

-----------------------------------------------------------------------------
(* What a call has seen that its caller had not is followed to its end, unless *)
(* a module is asked for two names by star exports; in the strict view a name  *)
(* without such cases resolves to what it means.                               *)

Several(g, w, m, n) == \E b, c \in Ends(g, w, m, n) : b.module # c.module
DeadDefault(g, m, n) ==
  \E p \in Reached(g, m, n) : p[2] = Default /\ Locals(g, p) = {} /\ Indirects(g, p) = {}

\* What is seen is asked for, by what is seen, and the modules that are not
\* followed again have been followed for a name that is seen.
Fed(g, w, m, n, seen, t) == t = <<m, n>> \/ \E p \in seen : t \in Goes(g, w, p)
Sound(g, w, m, n, a) ==
  /\ a.seen \subseteq World(g, w, m, n)
  /\ \A t \in a.seen : Fed(g, w, m, n, a.seen, t)
  /\ \A o \in a.stars : g[o].star = <<>> \/ \E p \in a.seen : p[1] = o /\ Follows(g, w, p)

\* What an answer says of the pairs that are seen now and were not before.
Decides(g, w, m, n, base, a) ==
  /\ w = "strict" \/ AskedOnce(g, m, n) => \A t \in a.seen \ base : Targets(g, t) \subseteq a.seen
  /\ \A t \in a.seen \ base : \A e \in Locals(g, t) : a.value # Null /\ a.value.module = t[1]
  /\ a.value # Null => a.value \in Ends(g, w, m, n)
Holds(g, w, m, n, base, a) ==
  /\ base \subseteq a.seen /\ Sound(g, w, m, n, a)
  /\ a.value = Ambiguous => Several(g, w, m, n)
  /\ a.value = BadDefault => w = "loose" \/ DeadDefault(g, m, n)
  /\ a.value \in Binding \cup {Null} => Decides(g, w, m, n, base, a)

\* A pair that leads straight to a local export, and has not been seen, is bound.
Leads(g, m, n, p) == Straight(g, Reached(g, m, n), p, <<m, n>>)
Asked(g, w, m, n, q) ==
  Sound(g, w, m, n, q) /\ PairOf(q) \in World(g, w, m, n) /\ Fed(g, w, m, n, q.seen, PairOf(q))
Told(g, w, m, n, q, a) ==
  /\ Holds(g, w, m, n, q.seen, a) /\ PairOf(q) \in a.seen
  /\ w = "strict" /\ PairOf(q) \notin q.seen /\ Leads(g, m, n, PairOf(q)) => a.value \in Binding

\* An answer is nothing, a binding or an error.
LEMMA ValueIs ==
  ASSUME NEW a \in Answers
  PROVE  /\ a.value \in Binding \cup {Null} \/ a.value \in {Ambiguous, BadDefault}
         /\ ~(a.value \in Binding \cup {Null} /\ a.value \in {Ambiguous, BadDefault})
         /\ a.value \in Binding => a.value # Null
  BY NamesAssumption DEF Answers, NoBinding

\* One turn of the loop, when the module that is asked tells the truth.
LEMMA TurnHolds ==
  ASSUME NEW g, NEW w, NEW m, NEW n, NEW F \in Resolvers, NEW q \in Queries, NEW o \in ModuleIds,
         NEW b \in Answers, NEW base, Holds(g, w, m, n, base, b),
         Told(g, w, m, n, Query(o, q.name, b.seen, b.stars), Ask(F, o, q.name, b))
  PROVE  LET c == StarExport(F, q, o, b)
         IN  /\ Holds(g, w, m, n, base, c) /\ c \in Answers
             /\ c.value \in Binding \cup {Null} =>
                    b.value \in Binding \cup {Null} /\ b.seen \cup {<<o, q.name>>} \subseteq c.seen
  <1> DEFINE r == Ask(F, o, q.name, b)
             v == CombineStar(b.value, r.value)
             c == [r EXCEPT !.value = CombineStar(b.value, @)]
             s == StarExport(F, q, o, b)
  <1>1. r \in Answers /\ b.seen \subseteq r.seen
    BY AskTypes, QueryParts DEF MoreOf
  <1>2. b.seen \in SUBSET Pairs /\ b.stars \in SUBSET ModuleIds /\ q.name \in ExportNames
    BY QueryParts DEF Answers
  <1>3. Holds(g, w, m, n, b.seen, r) /\ <<o, q.name>> \in r.seen
    BY <1>2, QueryTypes DEF Told
  <1> HIDE DEF r
  <1>4. v \in Binding \cup NoBinding
    BY <1>1, CombineTypes DEF Answers
  <1>5. c \in Answers /\ c.seen = r.seen /\ c.stars = r.stars /\ c.value = v
    BY <1>1, <1>4 DEF Answers
  <1>6. s = IF b.value \in {Ambiguous, BadDefault} THEN b ELSE c
    BY DEF StarExport, r
  <1>t. s \in Answers
    BY <1>5, <1>6
  <1> HIDE DEF c, s, v
  <1>7. CASE b.value \in {Ambiguous, BadDefault}
    BY <1>6, <1>7, ValueIs DEF s
  <1>8. CASE b.value \notin {Ambiguous, BadDefault}
    <2>1. s = c /\ b.value \in Binding \cup {Null}
      BY <1>6, <1>8, ValueIs
    <2>2. Decides(g, w, m, n, base, b) /\ base \subseteq r.seen
      BY <1>1, <2>1 DEF Holds
    <2>3. Sound(g, w, m, n, c)
      BY <1>3, <1>5 DEF Holds, Sound
    <2>4. CASE r.value \in {Ambiguous, BadDefault}
      <3>1. v = r.value
        BY <2>4 DEF v, CombineStar
      <3>2. c.value \notin Binding \cup {Null}
        BY <1>1, <1>5, <2>4, <3>1, ValueIs
      <3> QED
        BY <1>3, <1>5, <1>t, <2>1, <2>2, <2>3, <3>1, <3>2 DEF Holds, s
    <2>5. CASE r.value \notin {Ambiguous, BadDefault}
      <3>1. r.value \in Binding \cup {Null} /\ v = Combine(b.value, r.value)
        BY <1>1, <2>5, ValueIs DEF v, CombineStar
      <3>2. Decides(g, w, m, n, b.seen, r)
        BY <1>3, <3>1 DEF Holds
      <3>a. w = "strict" \/ AskedOnce(g, m, n) => \A t \in r.seen \ base : Targets(g, t) \subseteq r.seen
        BY <1>1, <2>2, <3>2 DEF Decides
      <3>3. CASE b.value = Null
        <4>1. v = r.value
          BY <3>1, <3>3 DEF Combine
        <4>2. Decides(g, w, m, n, base, c)
          BY <1>5, <2>2, <3>2, <3>3, <3>a, <4>1 DEF Decides
        <4> QED
          BY <1>3, <1>5, <1>t, <1>1, <2>1, <2>2, <2>3, <2>5, <4>1, <4>2 DEF Holds, s
      <3>4. CASE b.value # Null /\ r.value = Null
        <4>1. v = b.value
          BY <3>1, <3>4 DEF Combine
        <4>2. Decides(g, w, m, n, base, c)
          BY <1>5, <2>2, <3>2, <3>4, <3>a, <4>1 DEF Decides
        <4> QED
          BY <1>3, <1>5, <1>t, <1>1, <1>8, <2>1, <2>2, <2>3, <4>1, <4>2 DEF Holds, s
      <3>5. CASE b.value # Null /\ r.value # Null /\ b.value.module = r.value.module
        <4>1. v = b.value
          BY <3>1, <3>5 DEF Combine, SameExport
        <4>2. Decides(g, w, m, n, base, c)
          BY <1>5, <2>2, <3>2, <3>5, <3>a, <4>1 DEF Decides
        <4> QED
          BY <1>3, <1>5, <1>t, <1>1, <1>8, <2>1, <2>2, <2>3, <4>1, <4>2 DEF Holds, s
      <3>6. CASE b.value # Null /\ r.value # Null /\ b.value.module # r.value.module
        <4>1. v = Ambiguous
          BY <3>1, <3>6 DEF Combine, SameExport
        <4>2. Several(g, w, m, n)
          BY <2>2, <3>2, <3>6 DEF Decides, Several
        <4>3. c.value = Ambiguous /\ c.value # BadDefault /\ c.value \notin Binding \cup {Null}
          BY <1>5, <4>1, ValueIs, NamesAssumption
        <4> QED
          BY <1>5, <1>t, <2>1, <2>2, <2>3, <4>2, <4>3 DEF Holds, s
      <3> QED
        BY <3>3, <3>4, <3>5, <3>6
    <2> QED
      BY <2>4, <2>5
  <1> QED
    BY <1>7, <1>8

\* Those that have seen more tell the truth.
TrueBelow(g, w, m, n, F, q) ==
  \A x \in Queries : Weight(x) < Weight(q) /\ Asked(g, w, m, n, x) => Told(g, w, m, n, x, F[x])

\* The targets of a pair, by cases.
LEMMA TargetCases ==
  ASSUME NEW g, NEW p
  PROVE  /\ Locals(g, p) # {} => Targets(g, p) = {}
         /\ Locals(g, p) = {} /\ Indirects(g, p) # {} =>
                Targets(g, p) = {<<e.from, e.name>> : e \in Indirects(g, p)}
         /\ Stars(g, p) => Targets(g, p) = ToSet(g[p[1]].star) \X {p[2]}
         /\ Locals(g, p) = {} /\ Indirects(g, p) = {} /\ p[2] = Default => Targets(g, p) = {}
  BY DEF Targets, Stars

\* The answer a call starts from is sound.
LEMMA BegunSound ==
  ASSUME NEW g, NEW w, NEW m, NEW n, NEW q \in Queries, Asked(g, w, m, n, q)
  PROVE  Sound(g, w, m, n, Begun(q))
  <1>1. Begun(q).seen = q.seen \cup {PairOf(q)} /\ Begun(q).stars = q.stars
    BY BegunTypes
  <1> QED
    BY <1>1 DEF Asked, Sound, Fed

\* A module that is asked for what the pair leads to tells the truth.
LEMMA TargetTold ==
  ASSUME NEW g, Graph(g), NEW w \in Views, NEW m \in ModuleIds, NEW n \in ExportNames, NEW F \in Resolvers,
         NEW q \in Queries, PairOf(q) \notin q.seen, TrueBelow(g, w, m, n, F, q), Asked(g, w, m, n, q),
         NEW a \in Answers, Sound(g, w, m, n, a), Begun(q).seen \subseteq a.seen,
         NEW o \in ModuleIds, NEW k \in ExportNames, <<o, k>> \in Goes(g, w, PairOf(q))
  PROVE  Told(g, w, m, n, Query(o, k, a.seen, a.stars), Ask(F, o, k, a))
  <1> DEFINE x == Query(o, k, a.seen, a.stars)
             p == PairOf(q)
  <1>1. x \in Queries /\ x.seen = a.seen /\ x.stars = a.stars /\ PairOf(x) = <<o, k>> /\ Ask(F, o, k, a) = F[x]
    BY AskTypes, QueryTypes DEF Answers
  <1>2. p \in a.seen /\ q.seen \cup {p} \subseteq a.seen
    BY BegunTypes
  <1>3. p \in World(g, w, m, n)
    BY DEF Asked
  <1> HIDE DEF x, p
  <1>4. <<o, k>> \in World(g, w, m, n)
    BY <1>3, WorldIs DEF p
  <1>5. Asked(g, w, m, n, x)
    BY <1>1, <1>2, <1>4 DEF Asked, Sound, Fed, p
  <1>6. Weight(x) < Weight(q)
    BY <1>1, <1>2, SeenMore DEF p
  <1> QED
    BY <1>1, <1>5, <1>6 DEF TrueBelow, x

\* What holds of all that is seen after the pair holds of the pair too.
LEMMA PairToo ==
  ASSUME NEW g, NEW w, NEW m, NEW n, NEW q \in Queries, NEW a, Holds(g, w, m, n, Begun(q).seen, a),
         Locals(g, PairOf(q)) = {},
         a.value \in Binding \cup {Null} => Targets(g, PairOf(q)) \subseteq a.seen,
         w = "strict" /\ PairOf(q) \notin q.seen /\ Leads(g, m, n, PairOf(q)) => a.value \in Binding
  PROVE  Told(g, w, m, n, q, a)
  <1> DEFINE p == PairOf(q)
  <1>1. Begun(q).seen = q.seen \cup {p}
    BY BegunTypes
  <1>2. a.value \in Binding \cup {Null} => Decides(g, w, m, n, q.seen, a)
    BY <1>1 DEF Holds, Decides
  <1> HIDE DEF p
  <1> QED
    BY <1>1, <1>2 DEF Told, Holds, p

\* A pair that leads straight to a local export, and is not seen yet, leads to
\* another one.
LEMMA StraightOn ==
  ASSUME NEW g, Graph(g), NEW m \in ModuleIds, NEW n \in ExportNames,
         NEW q \in Queries, PairOf(q) \notin q.seen, Asked(g, "strict", m, n, q),
         Leads(g, m, n, PairOf(q)), NEW t \in Targets(g, PairOf(q))
  PROVE  t \notin Begun(q).seen /\ Leads(g, m, n, t)
  <1> DEFINE p == PairOf(q)
             R == Reached(g, m, n)
  <1>0. p \in Pairs /\ p = <<p[1], p[2]>> /\ p[1] \in ModuleIds /\ p[2] \in ExportNames
        /\ Begun(q).seen = q.seen \cup {p} /\ p \in R
    BY QueryParts, BegunTypes, PairTypes DEF Asked, World
  <1>1. p \in Reached(g, p[1], p[2])
    BY <1>0, ReachedIs
  <1>2. t # <<m, n>> /\ \A x \in R : t \in Targets(g, x) => x = p
    BY <1>1 DEF Leads, Straight
  <1>3. \A x : Fed(g, "strict", m, n, q.seen, x) => x = <<m, n>> \/ \E y \in q.seen : x \in Targets(g, y)
    BY DEF Fed, Goes
  <1>4. q.seen \subseteq R /\ (\A x \in q.seen : Fed(g, "strict", m, n, q.seen, x)) /\ Fed(g, "strict", m, n, q.seen, p)
    BY DEF Asked, Sound, World
  <1> HIDE DEF p, R
  <1>5. t \notin q.seen /\ t # p
    BY <1>2, <1>3, <1>4 DEF p
  <1>6. t \in Pairs /\ t = <<t[1], t[2]>> /\ t[1] \in ModuleIds /\ t[2] \in ExportNames
    BY <1>0, PairTypes DEF p
  <1>7. Reached(g, t[1], t[2]) \subseteq Reached(g, p[1], p[2])
    <2> DEFINE C == Reached(g, p[1], p[2])
    <2>1. t \in C
      BY <1>0, <1>1, ReachedIs DEF p
    <2>2. \A x \in C \cap Pairs : Targets(g, x) \subseteq C
      BY <1>0, ReachedIs
    <2> HIDE DEF C
    <2>3. Reached(g, t[1], t[2]) \subseteq C
      BY <1>6, <2>1, <2>2, ReachedIs
    <2> QED
      BY <2>3 DEF C
  <1>8. Leads(g, m, n, t)
    BY <1>7 DEF Leads, Straight, p
  <1> QED
    BY <1>0, <1>5, <1>8

\* An entry that may fall back on something else leads straight to a local
\* export, so it need not.
LEMMA NoFallBack ==
  ASSUME NEW g, Graph(g), NEW m \in ModuleIds, NEW n \in ExportNames, PlainName(g, m, n),
         NEW q \in Queries, PairOf(q) \notin q.seen, Asked(g, "strict", m, n, q),
         Locals(g, PairOf(q)) = {}, NEW e \in Indirects(g, PairOf(q)),
         NEW a, Told(g, "strict", m, n, Query(e.from, e.name, Begun(q).seen, Begun(q).stars), a), a.value = Null
  PROVE  g[q.module].star = <<>> /\ q.name # Default /\ ~Leads(g, m, n, PairOf(q))
  <1> DEFINE p == PairOf(q)
             t == <<e.from, e.name>>
  <1>0. p \in Pairs /\ p[1] = q.module /\ p[2] = q.name /\ p \in Reached(g, m, n)
    BY QueryParts DEF Asked, World
  <1>1. t \in Targets(g, p)
    BY TargetCases
  <1>2. PassesOn(g, p)
    BY DEF PassesOn
  <1>3. g[q.module].star # <<>> \/ q.name = Default => Leads(g, m, n, p)
    <2> HIDE DEF p
    <2> QED
      BY <1>0, <1>2 DEF PlainName, Leads
  <1> SUFFICES ASSUME Leads(g, m, n, p)
               PROVE  FALSE
    BY <1>3
  <1>4. t \notin Begun(q).seen /\ Leads(g, m, n, t)
    BY <1>1, StraightOn
  <1>5. e.from \in ModuleIds /\ e.name \in ExportNames
    BY <1>0, PairTypes
  <1>6. Begun(q).seen \in SUBSET Pairs /\ Begun(q).stars \in SUBSET ModuleIds
    BY BegunTypes DEF Answers
  <1>7. a.value \in Binding
    BY <1>4, <1>5, <1>6, QueryTypes DEF Told
  <1> QED
    BY <1>7, NamesAssumption DEF NoBinding

\* The star exports of a module, which are followed for the first time.
LEMMA LoopHolds ==
  ASSUME NEW g, Graph(g), NEW w \in Views, NEW m \in ModuleIds, NEW n \in ExportNames, NEW F \in Resolvers,
         NEW q \in Queries, PairOf(q) \notin q.seen, TrueBelow(g, w, m, n, F, q), Asked(g, w, m, n, q),
         Follows(g, w, PairOf(q)), NEW i \in Answers, i.value = Null,
         Holds(g, w, m, n, Begun(q).seen, i), NEW a \in Answers, a = Marked(q, i)
  PROVE  LET s == StarExports(g, F, q, a)
         IN  /\ Holds(g, w, m, n, Begun(q).seen, s) /\ i.seen \subseteq s.seen
             /\ s.value \in Binding \cup {Null} => ToSet(g[q.module].star) \X {q.name} \subseteq s.seen
  <1> DEFINE p == PairOf(q)
             base == Begun(q).seen
             star == g[q.module].star
             N == Len(star)
             Wanted(k) == <<star[k], q.name>>
             Good(k, c) == /\ c \in Answers /\ Holds(g, w, m, n, base, c)
                           /\ c.value \in Binding \cup {Null} => \A j \in 1 .. k : Wanted(j) \in c.seen
  <1>1. /\ p \in Pairs /\ p[1] = q.module /\ p[2] = q.name /\ q.module \in ModuleIds /\ q.name \in ExportNames
        /\ base = q.seen \cup {p}
    BY QueryParts, BegunTypes
  <1>2. N \in Nat /\ \A k \in 1 .. N : star[k] \in ModuleIds
    BY <1>1, EntryTypes
  <1>3. ToSet(star) \X {q.name} \subseteq Goes(g, w, p)
    BY <1>1, GoesTo
  <1>n. \A k \in 1 .. N : Wanted(k) \in Goes(g, w, p)
    BY <1>3 DEF ToSet
  <1>4. a.seen = i.seen /\ a.stars = i.stars \cup {q.module} /\ a.value = Null
    BY <1>1 DEF Marked, Answers
  <1>5. Sound(g, w, m, n, a)
    <2>1. Sound(g, w, m, n, i) /\ base \subseteq i.seen
      BY DEF Holds
    <2>2. p \in a.seen /\ p[1] = q.module /\ Follows(g, w, p)
      BY <1>1, <1>4, <2>1
    <2> HIDE DEF p, base
    <2> QED
      BY <1>4, <2>1, <2>2 DEF Sound
  <1>6. Good(0, a)
    <2>1. base \subseteq i.seen /\ Decides(g, w, m, n, base, i)
      BY DEF Holds
    <2>2. Decides(g, w, m, n, base, a)
      BY <1>4, <2>1 DEF Decides
    <2>3. a.value # Ambiguous /\ a.value # BadDefault
      BY <1>4, NamesAssumption
    <2> QED
      BY <1>4, <1>5, <2>1, <2>2, <2>3 DEF Holds
  <1>7. PICK h \in [0 .. N -> MoreOf(a)] : Turns(g, F, q, a, h) /\ StarExports(g, F, q, a) = h[N]
    BY LoopTypes
  <1> DEFINE T == {k \in 0 .. N : Good(k, h[k])}
  <1>8. 0 \in T
    BY <1>2, <1>6, <1>7 DEF Turns
  <1>9. ASSUME NEW k \in 0 .. N, k \in T, k < N
        PROVE  k + 1 \in T
    <2> DEFINE b == h[k]
               c == h[k + 1]
               o == star[k + 1]
    <2>1. k + 1 \in 0 .. N /\ k + 1 \in 1 .. N /\ (k + 1) - 1 = k
      BY <1>2, <1>9
    <2>2. Good(k, b) /\ o \in ModuleIds /\ <<o, q.name>> \in Goes(g, w, p)
      BY <1>2, <1>9, <1>n, <2>1
    <2>3. c = StarExport(F, q, o, b)
      BY <1>7, <2>1 DEF Turns
    <2> HIDE DEF b, c, o, T
    <2>4. b \in Answers /\ Holds(g, w, m, n, base, b) /\ base \subseteq b.seen /\ Sound(g, w, m, n, b)
      BY <2>2 DEF Holds
    <2>5. Told(g, w, m, n, Query(o, q.name, b.seen, b.stars), Ask(F, o, q.name, b))
      BY <1>1, <2>2, <2>4, TargetTold
    <2>6. /\ Holds(g, w, m, n, base, c) /\ c \in Answers
          /\ c.value \in Binding \cup {Null} =>
                b.value \in Binding \cup {Null} /\ b.seen \cup {<<o, q.name>>} \subseteq c.seen
      BY <2>2, <2>3, <2>4, <2>5, TurnHolds
    <2>7. \A j \in 1 .. k + 1 : j \in 1 .. k \/ j = k + 1
      BY <1>2
    <2>8. c.value \in Binding \cup {Null} => \A j \in 1 .. k + 1 : Wanted(j) \in c.seen
      <3> SUFFICES ASSUME c.value \in Binding \cup {Null}, NEW j \in 1 .. k + 1
                   PROVE  Wanted(j) \in c.seen
        OBVIOUS
      <3>1. CASE j \in 1 .. k
        <4>1. Wanted(j) \in b.seen
          BY <2>2, <2>6, <3>1
        <4> QED
          BY <2>6, <4>1
      <3>2. CASE j = k + 1
        BY <2>6, <3>2 DEF o
      <3> QED
        BY <2>7, <3>1, <3>2
    <2>9. Good(k + 1, c)
      BY <2>6, <2>8
    <2> HIDE DEF Good
    <2> QED
      BY <2>1, <2>9 DEF T, c
  <1>10. Good(N, h[N]) /\ N \in 0 .. N
    <2> HIDE DEF T, Good
    <2>1. 0 .. N \subseteq T
      <3> HIDE DEF N
      <3> QED
        BY <1>2, <1>8, <1>9, UpTo
    <2>2. N \in 0 .. N
      BY <1>2
    <2> QED
      BY <2>1, <2>2 DEF T
  <1>11. h[N].value \in Binding \cup {Null} => ToSet(star) \X {q.name} \subseteq h[N].seen
    <2> SUFFICES ASSUME h[N].value \in Binding \cup {Null}, NEW t \in ToSet(star) \X {q.name}
                 PROVE  t \in h[N].seen
      OBVIOUS
    <2>1. PICK k \in 1 .. N : t = Wanted(k)
      BY DEF ToSet
    <2> QED
      BY <1>10, <2>1
  <1>12. a.seen \subseteq h[N].seen
    BY <1>7, <1>10 DEF MoreOf
  <1> QED
    BY <1>4, <1>7, <1>10, <1>11, <1>12

\* What can be found, one by one.
LEMMA EndIs ==
  ASSUME NEW g, NEW w, NEW m, NEW n, NEW b
  PROVE  b \in Ends(g, w, m, n) <=>
            \E p \in World(g, w, m, n) : \E e \in Locals(g, p) : b = Binds(p[1], e.local)
  BY DEF Ends, World, Candidates, Meanings

\* A call tells the truth if those that have seen more do.
LEMMA CallHolds ==
  ASSUME NEW g, Graph(g), NEW w \in Views, NEW m \in ModuleIds, NEW n \in ExportNames, w = "loose" \/ PlainName(g, m, n),
         NEW F \in Resolvers, NEW q \in Queries, TrueBelow(g, w, m, n, F, q), Asked(g, w, m, n, q)
  PROVE  Told(g, w, m, n, q, Resolved(g, F, q))
  <1> DEFINE p == PairOf(q)
             b == Begun(q)
             i == IndirectExport(g, F, q, b)
             r == Resolved(g, F, q)
  <1>1. /\ p \in Pairs /\ p[1] = q.module /\ p[2] = q.name /\ q.module \in ModuleIds /\ q.name \in ExportNames
        /\ b.seen = q.seen \cup {p} /\ b \in Answers /\ b.value = Null /\ b.stars = q.stars
    BY QueryParts, BegunTypes
  <1>2. Sound(g, w, m, n, b) /\ p \in World(g, w, m, n) /\ Sound(g, w, m, n, q)
    BY BegunSound DEF Asked
  <1>3. Null # Ambiguous /\ Null # BadDefault /\ Ambiguous # BadDefault
    BY NamesAssumption
  <1>4. CASE p \in q.seen
    <2>1. r = Answer(Null, q)
      BY <1>4, ResolvedCases
    <2>2. r.value = Null /\ r.seen = q.seen /\ r.stars = q.stars
      BY <2>1 DEF Answer
    <2> HIDE DEF r
    <2>3. Sound(g, w, m, n, r) /\ Decides(g, w, m, n, q.seen, r)
      BY <1>2, <2>2 DEF Sound, Decides
    <2> QED
      BY <1>3, <1>4, <2>2, <2>3 DEF Told, Holds, r
  <1>5. CASE p \notin q.seen /\ Locals(g, p) # {}
    <2>1. PICK e \in Locals(g, p) : r = [b EXCEPT !.value = Binds(q.module, e.local)]
      BY <1>5, ResolvedCases
    <2> DEFINE v == Binds(q.module, e.local)
    <2>2. v \in Binding /\ v.module = q.module /\ v = Binds(p[1], e.local)
      <3>1. e.local \in ExportNames
        BY <1>1, PairTypes
      <3> QED
        BY <1>1, <3>1 DEF Binds, Binding
    <2>3. v \in Ends(g, w, m, n)
      BY <1>2, <2>2, EndIs
    <2> HIDE DEF v
    <2>4. r.value = v /\ r.seen = b.seen /\ r.stars = b.stars
      BY <1>1, <2>1 DEF v, Answers
    <2> HIDE DEF r
    <2>5. Sound(g, w, m, n, r)
      BY <1>2, <2>4 DEF Sound
    <2>6. v # Null /\ v # Ambiguous /\ v # BadDefault
      BY <2>2, NamesAssumption DEF NoBinding
    <2>7. Decides(g, w, m, n, q.seen, r)
      <3>1. \A t \in r.seen \ q.seen : t = p
        BY <1>1, <2>4
      <3>2. Targets(g, p) = {}
        BY <1>5, TargetCases
      <3> QED
        BY <1>1, <2>2, <2>3, <2>4, <2>6, <3>1, <3>2 DEF Decides
    <2> QED
      BY <1>1, <2>2, <2>4, <2>5, <2>6, <2>7 DEF Told, Holds, r
  <1>6. CASE p \notin q.seen /\ Locals(g, p) = {} /\ Indirects(g, p) # {}
    <2>1. PICK e \in Indirects(g, p) : i = Ask(F, e.from, e.name, b)
      BY <1>6, IndirectCases
    <2>2. e.from \in ModuleIds /\ e.name \in ExportNames
      BY <1>1, PairTypes
    <2>3. Targets(g, p) = {<<e.from, e.name>>}
      <3>1. \A d \in Indirects(g, p) : d = e
        BY <1>1, PairTypes
      <3>2. Targets(g, p) = {<<d.from, d.name>> : d \in Indirects(g, p)}
        BY <1>6, TargetCases
      <3>3. ASSUME NEW t \in Targets(g, p) PROVE t = <<e.from, e.name>>
        <4>1. PICK d \in Indirects(g, p) : t = <<d.from, d.name>>
          BY <3>2
        <4>2. d = e
          BY <3>1
        <4> QED
          BY <4>1, <4>2
      <3>4. <<e.from, e.name>> \in Targets(g, p)
        BY <3>2
      <3> QED
        BY <3>3, <3>4
    <2>4. Told(g, w, m, n, Query(e.from, e.name, b.seen, b.stars), i)
      <3> HIDE DEF b, i
      <3>1. Begun(q).seen \subseteq b.seen
        BY DEF b
      <3>2. <<e.from, e.name>> \in Goes(g, w, PairOf(q)) /\ PairOf(q) \notin q.seen
        BY <1>1, <1>6, <2>3, GoesTo
      <3>3. Told(g, w, m, n, Query(e.from, e.name, b.seen, b.stars), Ask(F, e.from, e.name, b))
        BY <1>1, <1>2, <2>2, <3>1, <3>2, TargetTold
      <3> QED
        BY <2>1, <3>3
    <2>5. b.seen \in SUBSET Pairs /\ b.stars \in SUBSET ModuleIds
      BY <1>1 DEF Answers
    <2>6. Holds(g, w, m, n, b.seen, i) /\ <<e.from, e.name>> \in i.seen
      BY <2>2, <2>4, <2>5, QueryTypes DEF Told
    <2>7. i \in Answers
      BY <1>1, <2>1, <2>2, AskTypes DEF MoreOf
    <2>8. CASE i.value # Null
      <3>1. r = i
        BY <1>6, <2>8, ResolvedCases
      <3>2. w = "strict" /\ Leads(g, m, n, p) => i.value \in Binding
        <4> SUFFICES ASSUME w = "strict", Leads(g, m, n, p) PROVE i.value \in Binding
          OBVIOUS
        <4> DEFINE t == <<e.from, e.name>>
        <4>1. t \in Targets(g, PairOf(q)) /\ PairOf(q) \notin q.seen
          BY <1>6, <2>3
        <4> HIDE DEF t
        <4>2. t \notin b.seen /\ Leads(g, m, n, t)
          BY <4>1, StraightOn
        <4> HIDE DEF i, b
        <4> QED
          BY <2>2, <2>4, <2>5, <4>2, QueryTypes DEF Told, t
      <3> HIDE DEF r, i
      <3> QED
        BY <1>6, <2>3, <2>6, <3>1, <3>2, PairToo DEF r, i
    <2>9. CASE i.value = Null /\ w = "strict"
      <3>1. g[q.module].star = <<>> /\ q.name # Default /\ ~Leads(g, m, n, p)
        <4> HIDE DEF i
        <4>1. Told(g, "strict", m, n, Query(e.from, e.name, Begun(q).seen, Begun(q).stars), i)
          BY <2>4, <2>9
        <4> QED
          BY <1>6, <2>9, <4>1, NoFallBack
      <3> DEFINE a == Marked(q, i)
      <3>2. a \in Answers /\ a.seen = i.seen /\ a.stars = i.stars \cup {q.module} /\ a.value = Null
        BY <1>1, <2>7, <2>9 DEF Marked, Answers
      <3>3. Sound(g, w, m, n, i) /\ Decides(g, w, m, n, b.seen, i)
        BY <2>6, <2>9 DEF Holds
      <3>4. r = i \/ r = StarExports(g, F, q, a)
        BY <1>6, <2>9, <3>1, ResolvedCases
      <3>5. StarExports(g, F, q, a) = a
        <4> HIDE DEF a
        <4>1. PICK h \in [0 .. Len(g[q.module].star) -> MoreOf(a)] :
                Turns(g, F, q, a, h) /\ StarExports(g, F, q, a) = h[Len(g[q.module].star)]
          BY <3>2, LoopTypes
        <4>2. Len(g[q.module].star) = 0
          BY <3>1
        <4> QED
          BY <4>1, <4>2 DEF Turns
      <3> HIDE DEF a, r, i
      <3>6. Sound(g, w, m, n, a)
        BY <3>1, <3>2, <3>3 DEF Sound
      <3>7. Decides(g, w, m, n, b.seen, a)
        BY <2>9, <3>2, <3>3 DEF Decides
      <3>8. Holds(g, w, m, n, b.seen, a)
        BY <1>3, <2>6, <3>2, <3>6, <3>7 DEF Holds
      <3>9. Holds(g, w, m, n, b.seen, r) /\ <<e.from, e.name>> \in r.seen
        BY <2>6, <3>2, <3>4, <3>5, <3>8
      <3> QED
        BY <1>6, <2>3, <3>1, <3>9, PairToo DEF r
    <2>10. CASE i.value = Null /\ w = "loose"
      <3>1. CASE q.name = Default
        <4>1. r = [i EXCEPT !.value = BadDefault]
          BY <1>6, <2>10, <3>1, ResolvedCases
        <4>2. r.seen = i.seen /\ r.stars = i.stars /\ r.value = BadDefault
          BY <2>7, <4>1 DEF Answers
        <4>3. r.value \notin Binding \cup {Null}
          BY <4>2, NamesAssumption DEF NoBinding
        <4> HIDE DEF r, i
        <4>4. Sound(g, w, m, n, r)
          BY <2>6, <4>2 DEF Sound, Holds
        <4>5. Holds(g, w, m, n, b.seen, r)
          BY <1>3, <2>6, <2>10, <4>2, <4>3, <4>4 DEF Holds
        <4> QED
          BY <1>6, <2>10, <4>3, <4>5, PairToo DEF r
      <3>2. CASE q.name # Default /\ q.module \in i.stars
        <4>1. r = i
          BY <1>6, <2>10, <3>2, ResolvedCases
        <4> HIDE DEF r, i
        <4> QED
          BY <1>6, <2>3, <2>6, <2>10, <4>1, PairToo DEF r
      <3>3. CASE q.name # Default /\ q.module \notin i.stars
        <4> DEFINE a == Marked(q, i)
        <4>1. r = StarExports(g, F, q, a)
          BY <1>6, <2>10, <3>3, ResolvedCases
        <4>2. a \in Answers
          BY <1>1, <2>7 DEF Marked, Answers
        <4>3. Follows(g, w, p)
          BY <1>1, <1>6, <2>10, <3>3 DEF Follows, MayFollow
        <4> HIDE DEF a, r, i
        <4>4. Holds(g, w, m, n, b.seen, r) /\ i.seen \subseteq r.seen
          BY <1>6, <2>6, <2>7, <2>10, <4>1, <4>2, <4>3, LoopHolds DEF a
        <4> QED
          BY <1>6, <2>3, <2>6, <2>10, <4>4, PairToo DEF r
      <3> QED
        BY <3>1, <3>2, <3>3
    <2> QED
      BY <2>8, <2>9, <2>10 DEF Views
  <1>7. CASE p \notin q.seen /\ Locals(g, p) = {} /\ Indirects(g, p) = {}
    <2>1. i = b
      BY <1>7, IndirectCases
    <2>n. w = "strict" => ~Leads(g, m, n, p)
      <3>1. p \in Reached(g, p[1], p[2])
        BY <1>1, PairTypes, ReachedIs
      <3> QED
        BY <1>7, <3>1 DEF Leads, Straight, PassesOn
    <2>2. CASE q.name = Default
      <3>1. r = [b EXCEPT !.value = BadDefault]
        BY <1>1, <1>7, <2>1, <2>2, ResolvedCases
      <3>2. r.seen = b.seen /\ r.stars = b.stars /\ r.value = BadDefault
        BY <1>1, <3>1 DEF Answers
      <3>3. w = "loose" \/ DeadDefault(g, m, n)
        BY <1>1, <1>2, <1>7, <2>2 DEF DeadDefault, World, Views
      <3>4. r.value \notin Binding \cup {Null}
        BY <3>2, NamesAssumption DEF NoBinding
      <3> HIDE DEF r
      <3>5. Sound(g, w, m, n, r)
        BY <1>2, <3>2 DEF Sound
      <3> QED
        BY <1>1, <1>3, <2>n, <3>2, <3>3, <3>4, <3>5 DEF Told, Holds, r
    <2>3. CASE q.name # Default /\ q.module \in b.stars
      <3>1. r = b
        BY <1>1, <1>7, <2>1, <2>3, ResolvedCases
      <3>2. Stars(g, p) /\ Follows(g, w, p)
        BY <1>1, <1>7, <2>3 DEF Stars, Follows, MayFollow
      <3>3. w = "strict" \/ AskedOnce(g, m, n) => g[q.module].star = <<>>
        <4>1. g[q.module].star = <<>> \/ \E x \in q.seen : x[1] = q.module /\ Follows(g, w, x)
          BY <1>1, <1>2, <2>3 DEF Sound
        <4>2. \A x \in q.seen : x \in World(g, w, m, n)
          BY <1>2 DEF Sound
        <4> HIDE DEF p, r, b, i
        <4>3. CASE w = "strict"
          BY <1>1, <1>2, <1>7, <3>2, <4>1, <4>2, <4>3 DEF PlainName, World, Follows
        <4>4. CASE w = "loose"
          BY <1>1, <1>2, <1>7, <3>2, <4>1, <4>2, <4>4 DEF AskedOnce, World, Follows
        <4> QED
          BY <4>3, <4>4 DEF Views
      <3>4. w = "strict" \/ AskedOnce(g, m, n) => Targets(g, p) = {}
        <4>1. Targets(g, p) = ToSet(g[q.module].star) \X {q.name}
          BY <1>1, <3>2, TargetCases
        <4>2. ToSet(<<>>) = {}
          BY DEF ToSet
        <4> QED
          BY <3>3, <4>1, <4>2
      <3>5. Decides(g, w, m, n, q.seen, b)
        <4>1. \A t \in b.seen \ q.seen : t = p
          BY <1>1
        <4> HIDE DEF b, p
        <4> QED
          BY <1>1, <1>7, <3>4, <4>1 DEF Decides
      <3> HIDE DEF r, b, p
      <3> QED
        BY <1>1, <1>2, <1>3, <2>n, <3>1, <3>5 DEF Told, Holds, r, p
    <2>4. CASE q.name # Default /\ q.module \notin b.stars
      <3> DEFINE a == Marked(q, b)
      <3>1. r = StarExports(g, F, q, a)
        BY <1>1, <1>7, <2>1, <2>4, ResolvedCases
      <3>2. Stars(g, p) /\ Follows(g, w, p)
        BY <1>1, <1>7, <2>4 DEF Stars, Follows, MayFollow
      <3>3. a \in Answers
        BY <1>1 DEF Marked, Answers
      <3>4. Targets(g, p) = ToSet(g[q.module].star) \X {q.name}
        BY <1>1, <3>2, TargetCases
      <3>5. Decides(g, w, m, n, b.seen, b)
        BY <1>1 DEF Decides
      <3>6. Holds(g, w, m, n, b.seen, b)
        BY <1>1, <1>2, <1>3, <3>5 DEF Holds
      <3> HIDE DEF a, r
      <3>7. Holds(g, w, m, n, b.seen, r) /\ (r.value \in Binding \cup {Null} => Targets(g, p) \subseteq r.seen)
        BY <1>1, <1>7, <3>1, <3>2, <3>3, <3>4, <3>6, LoopHolds DEF a
      <3> QED
        BY <1>7, <2>n, <3>7, PairToo DEF r
    <2> QED
      BY <2>2, <2>3, <2>4
  <1> QED
    BY <1>4, <1>5, <1>6, <1>7

\* What a call without sets finds, in either view.
LEMMA FirstCallHolds ==
  ASSUME NEW g, Graph(g), NEW w \in Views, NEW m \in ModuleIds, NEW n \in ExportNames,
         w = "loose" \/ PlainName(g, m, n)
  PROVE  /\ Resolve(g, m, n) \in Binding \cup NoBinding
         /\ Resolve(g, m, n) = Ambiguous => Several(g, w, m, n)
         /\ Resolve(g, m, n) = BadDefault => w = "loose" \/ DeadDefault(g, m, n)
         /\ Resolve(g, m, n) \in Binding => Resolve(g, m, n) \in Ends(g, w, m, n)
         /\ Resolve(g, m, n) \in Binding \cup {Null} /\ (w = "strict" \/ AskedOnce(g, m, n)) =>
                \A b \in Meanings(g, m, n) : Resolve(g, m, n) # Null /\ Resolve(g, m, n).module = b.module
  <1> DEFINE F == ResolveExport(g)
             q0 == Query(m, n, {}, {})
             a == F[q0]
             v == Resolve(g, m, n)
  <1>1. F \in Resolvers /\ \A q \in Queries : F[q] = Resolved(g, F, q)
    BY ResolveExportIs
  <1>2. /\ q0 \in Queries /\ q0.seen = {} /\ q0.stars = {} /\ PairOf(q0) = <<m, n>>
        /\ v = a.value /\ a \in Answers
    BY <1>1, QueryTypes DEF Resolve, Resolvers
  <1> HIDE DEF F, q0, a, v
  <1>3. \A q \in Queries : Asked(g, w, m, n, q) => Told(g, w, m, n, q, F[q])
    <2> SUFFICES ASSUME \E q \in Queries : Asked(g, w, m, n, q) /\ ~Told(g, w, m, n, q, F[q])
                 PROVE  FALSE
      OBVIOUS
    <2> DEFINE Bad == {q \in Queries : Asked(g, w, m, n, q) /\ ~Told(g, w, m, n, q, F[q])}
               W == {Weight(q) : q \in Bad}
    <2>1. W \in SUBSET Nat /\ W # {}
      <3>1. \A q \in Queries : Weight(q) \in Nat
        BY WeightType
      <3> QED
        BY <3>1
    <2>2. PICK k \in W : \A j \in W : k <= j
      BY <2>1, LeastNumber
    <2>3. PICK q \in Bad : Weight(q) = k
      BY <2>2
    <2>4. TrueBelow(g, w, m, n, F, q)
      <3> SUFFICES ASSUME NEW x \in Queries, Weight(x) < Weight(q), Asked(g, w, m, n, x), x \in Bad
                   PROVE  FALSE
        BY DEF TrueBelow
      <3>1. Weight(x) \in Nat /\ Weight(q) \in Nat
        BY <2>3, WeightType
      <3> QED
        BY <2>2, <2>3, <3>1
    <2>5. Told(g, w, m, n, q, Resolved(g, F, q))
      BY <1>1, <2>3, <2>4, CallHolds
    <2> QED
      BY <1>1, <2>3, <2>5
  <1>4. Asked(g, w, m, n, q0)
    BY <1>2, WorldIs DEF Asked, Sound, Fed
  <1>5. Holds(g, w, m, n, {}, a) /\ <<m, n>> \in a.seen
    BY <1>2, <1>3, <1>4 DEF Told, a
  <1>6. ASSUME v \in Binding \cup {Null}, w = "strict" \/ AskedOnce(g, m, n), NEW b \in Meanings(g, m, n)
        PROVE  v # Null /\ v.module = b.module
    <2>1. Decides(g, w, m, n, {}, a)
      BY <1>2, <1>5, <1>6 DEF Holds
    <2>2. \A t \in a.seen : Targets(g, t) \subseteq a.seen
      BY <1>6, <2>1 DEF Decides
    <2>3. Reached(g, m, n) \subseteq a.seen
      <3> DEFINE C == a.seen
      <3>1. <<m, n>> \in C /\ \A x \in C \cap Pairs : Targets(g, x) \subseteq C
        BY <1>5, <2>2
      <3> HIDE DEF C
      <3>2. Reached(g, m, n) \subseteq C
        BY <3>1, ReachedIs
      <3> QED
        BY <3>2 DEF C
    <2>4. PICK p \in Reached(g, m, n) : \E e \in Locals(g, p) : b = Binds(p[1], e.local)
      BY MeaningIs
    <2>5. b.module = p[1]
      BY <2>4 DEF Binds
    <2> QED
      BY <1>2, <2>1, <2>3, <2>4, <2>5 DEF Decides
  <1>7. v \in Binding => v \in Ends(g, w, m, n)
    <2> SUFFICES ASSUME v \in Binding PROVE v \in Ends(g, w, m, n)
      OBVIOUS
    <2>1. v # Null
      BY NamesAssumption DEF NoBinding
    <2> QED
      BY <1>2, <1>5, <2>1 DEF Holds, Decides
  <1>8. v \in Binding \cup NoBinding
    BY <1>2 DEF Answers
  <1>9. (v = Ambiguous => Several(g, w, m, n)) /\ (v = BadDefault => w = "loose" \/ DeadDefault(g, m, n))
    BY <1>2, <1>5 DEF Holds
  <1> QED
    BY <1>6, <1>7, <1>8, <1>9 DEF v

\* A plain name resolves to what it means: the meaning, if there is one and only one.
LEMMA ResolutionIsMeaning ==
  ASSUME NEW g, Graph(g), NEW m \in ModuleIds, NEW n \in ExportNames, PlainName(g, m, n)
  PROVE  /\ Resolve(g, m, n) \in Binding \cup NoBinding
         /\ Resolve(g, m, n) = Null => Meanings(g, m, n) = {}
         /\ Resolve(g, m, n) \in Binding => Meanings(g, m, n) = {Resolve(g, m, n)}
         /\ Resolve(g, m, n) = Ambiguous => Several(g, "strict", m, n)
         /\ Resolve(g, m, n) = BadDefault => DeadDefault(g, m, n)
  <1> DEFINE v == Resolve(g, m, n)
             M == Meanings(g, m, n)
  <1>1. /\ v \in Binding \cup NoBinding
        /\ v = Ambiguous => Several(g, "strict", m, n)
        /\ v = BadDefault => DeadDefault(g, m, n)
        /\ v \in Binding => v \in M
        /\ v \in Binding \cup {Null} => \A b \in M : v # Null /\ v.module = b.module
    <2> DEFINE w == "strict"
    <2>1. w \in Views /\ w # "loose" /\ w = "strict" /\ Ends(g, w, m, n) = M
      BY DEF Views, Ends
    <2> HIDE DEF w, M
    <2> QED
      BY <2>1, FirstCallHolds DEF M
  <1>2. \A a, b \in M : a.module = b.module => a = b
    BY DEF PlainName
  <1> HIDE DEF v, M
  <1> QED
    BY <1>1, <1>2 DEF v, M

-----------------------------------------------------------------------------
(* The names a module exports: GetExportedNames.                             *)

NameAnswers == [names: SUBSET ExportNames, stars: SUBSET ModuleIds]
NameWeight(q) == Cardinality(ModuleIds \ q.stars)
NameFinders == {F \in [NameQueries -> NameAnswers] : \A q \in NameQueries : q.stars \subseteq F[q].stars}
MoreNames(a) == {b \in NameAnswers : a.stars \subseteq b.stars}
NameQuery(o, a) == [module |-> o, stars |-> a.stars]
OwnNames(g, q) == [names |-> Owns(g, q.module), stars |-> q.stars \cup {q.module}]

\* A question for names is a query.
LEMMA NameQueryTypes ==
  ASSUME NEW a \in NameAnswers, NEW o \in ModuleIds
  PROVE  NameQuery(o, a) \in NameQueries /\ NameQuery(o, a).module = o /\ NameQuery(o, a).stars = a.stars
  BY DEF NameQuery, NameAnswers, NameQueries

\* The names a module starts from are its own.
LEMMA OwnNamesTypes ==
  ASSUME NEW g, Graph(g), NEW q \in NameQueries
  PROVE  /\ OwnNames(g, q) \in NameAnswers /\ q.module \in ModuleIds /\ q.stars \subseteq ModuleIds
         /\ OwnNames(g, q).stars = q.stars \cup {q.module} /\ OwnNames(g, q).names = Owns(g, q.module)
  <1>1. q.module \in ModuleIds /\ q.stars \subseteq ModuleIds
    BY DEF NameQueries
  <1>2. \A e \in ToSet(g[q.module].local) \cup ToSet(g[q.module].indirect) : e.exported \in ExportNames
    BY <1>1, EntryTypes
  <1>3. Owns(g, q.module) \subseteq ExportNames
    BY <1>2 DEF Owns
  <1> QED
    BY <1>1, <1>3 DEF OwnNames, NameAnswers

\* There is a bound on how many modules a query for names can still visit.
LEMMA NameWeightType ==
  ASSUME NEW q \in NameQueries
  PROVE  NameWeight(q) \in 0 .. Cardinality(ModuleIds) /\ Cardinality(ModuleIds) \in Nat
  <1> DEFINE B == ModuleIds \ q.stars
  <1>0. IsFiniteSet(ModuleIds) /\ Cardinality(ModuleIds) \in Nat
    BY NamesAssumption, FS_CardinalityType
  <1>1. IsFiniteSet(B) /\ Cardinality(B) <= Cardinality(ModuleIds)
    BY <1>0, FS_Subset
  <1>2. Cardinality(B) \in Nat
    BY <1>1, FS_CardinalityType
  <1> QED
    BY <1>0, <1>1, <1>2 DEF NameWeight

\* A query for names that has visited more weighs less.
LEMMA NameSeenMore ==
  ASSUME NEW q \in NameQueries, NEW r \in NameQueries, q.stars \cup {q.module} \subseteq r.stars, q.module \notin q.stars
  PROVE  NameWeight(r) < NameWeight(q)
  <1> DEFINE A == ModuleIds \ r.stars
             B == ModuleIds \ q.stars
  <1>1. A \subseteq B /\ q.module \in B /\ q.module \notin A /\ B \subseteq ModuleIds
    BY DEF NameQueries
  <1>2. IsFiniteSet(B) /\ IsFiniteSet(A)
    BY <1>1, NamesAssumption, FS_Subset
  <1> HIDE DEF A, B
  <1>3. Cardinality(A) <= Cardinality(B) /\ Cardinality(A) # Cardinality(B)
    BY <1>1, <1>2, FS_Subset
  <1>4. Cardinality(A) \in Nat /\ Cardinality(B) \in Nat
    BY <1>2, FS_CardinalityType
  <1> QED
    BY <1>3, <1>4 DEF NameWeight, A, B

\* One turn of the loop.
LEMMA NameTurn ==
  ASSUME NEW f, NEW o \in ModuleIds, NEW b \in NameAnswers, f[NameQuery(o, b)] \in NameAnswers
  PROVE  LET c == NamesFrom(f, o, b)
             r == f[NameQuery(o, b)]
         IN  c \in NameAnswers /\ c.stars = r.stars /\ c.names = b.names \cup (r.names \ {Default})
  <1> DEFINE r == f[NameQuery(o, b)]
             c == [r EXCEPT !.names = b.names \cup StarNames(@)]
  <1>1. NamesFrom(f, o, b) = c
    BY DEF NamesFrom, NameQuery
  <1>2. StarNames(r.names) = r.names \ {Default} /\ b.names \subseteq ExportNames /\ r.names \subseteq ExportNames
    BY DEF StarNames, NameAnswers
  <1> HIDE DEF r
  <1>3. r \in NameAnswers
    BY DEF r
  <1>4. c \in NameAnswers /\ c.stars = r.stars /\ c.names = b.names \cup (r.names \ {Default})
    BY <1>2, <1>3 DEF NameAnswers
  <1> QED
    BY <1>1, <1>4 DEF r

\* A module that is asked for its names answers with names, and visits more.
LEMMA NameAskTypes ==
  ASSUME NEW F \in NameFinders, NEW a \in NameAnswers, NEW o \in ModuleIds
  PROVE  F[NameQuery(o, a)] \in MoreNames(a) /\ NamesFrom(F, o, a) \in MoreNames(a)
  <1>1. NameQuery(o, a) \in NameQueries /\ NameQuery(o, a).stars = a.stars
    BY NameQueryTypes
  <1>2. F[NameQuery(o, a)] \in NameAnswers /\ a.stars \subseteq F[NameQuery(o, a)].stars
    BY <1>1 DEF NameFinders
  <1> QED
    BY <1>2, NameTurn DEF MoreNames

\* What the loop over names does, turn by turn.
NameTurns(g, f, q, h) ==
  /\ h[0] = OwnNames(g, q)
  /\ \A k \in 1 .. Len(g[q.module].star) : h[k] = NamesFrom(f, g[q.module].star[k], h[k - 1])

\* The recursive function of the loop over names is the only one that takes
\* these turns.
LEMMA NameLoopUnfolds ==
  ASSUME NEW g, NEW f, NEW q, q.module \notin q.stars, Len(g[q.module].star) \in Nat,
         NEW A, NEW h \in [0 .. Len(g[q.module].star) -> A], NameTurns(g, f, q, h)
  PROVE  NamesFound(g, f, q) = h[Len(g[q.module].star)]
  <1> DEFINE star == g[q.module].star
             n == Len(star)
             own == [names |-> Owns(g, q.module), stars |-> q.stars \cup {q.module}]
             Body(x, k) == IF k = 0 THEN own ELSE NamesFrom(f, star[k], x[k - 1])
             after[k \in 0 .. n] == IF k = 0 THEN own ELSE NamesFrom(f, star[k], after[k - 1])
  <1>1. NamesFound(g, f, q) = after[n]
    BY DEF NamesFound
  <1> DEFINE G(x) == [k \in 0 .. n |-> Body(x, k)]
  <1>2. after = CHOOSE x : x = G(x)
    OBVIOUS
  <1> HIDE DEF after
  <1>3. n \in Nat
    OBVIOUS
  <1>0. h[0] = own
    BY DEF NameTurns, OwnNames
  <1> HIDE DEF own
  <1>4. h = G(h)
    <2>1. ASSUME NEW k \in 0 .. n PROVE h[k] = Body(h, k)
      <3>1. CASE k = 0
        BY <1>0, <3>1
      <3>2. CASE k # 0
        <4>1. k \in 1 .. n
          BY <1>3, <3>2
        <4> QED
          BY <3>2, <4>1 DEF NameTurns
      <3> QED
        BY <3>1, <3>2
    <2> HIDE DEF Body
    <2> QED
      BY <2>1
  <1> HIDE DEF G
  <1>5. after = G(after)
    BY <1>2, <1>4
  <1>6. \A k \in 0 .. n : after[k] = Body(after, k)
    <2> HIDE DEF Body
    <2> QED
      BY <1>5 DEF G
  <1> DEFINE T == {k \in 0 .. n : after[k] = h[k]}
  <1>7. 0 \in T
    BY <1>0, <1>3, <1>6
  <1>8. ASSUME NEW k \in 0 .. n, k \in T, k < n
        PROVE  k + 1 \in T
    <2>1. k + 1 \in 0 .. n /\ k + 1 \in 1 .. n /\ (k + 1) - 1 = k /\ k + 1 # 0
      BY <1>3, <1>8
    <2>2. after[k + 1] = Body(after, k + 1)
      BY <1>6, <2>1
    <2>3. after[k + 1] = NamesFrom(f, star[k + 1], after[k])
      BY <2>1, <2>2
    <2>4. h[k + 1] = NamesFrom(f, star[k + 1], h[k])
      BY <2>1 DEF NameTurns
    <2> QED
      BY <1>8, <2>1, <2>3, <2>4
  <1> HIDE DEF T, n
  <1>9. 0 .. n \subseteq T
    BY <1>3, <1>7, <1>8, UpTo
  <1>10. n \in T
    BY <1>3, <1>9
  <1> QED
    BY <1>1, <1>10 DEF T, n

\* The loop over the star exports takes its turns, and visits ever more.
LEMMA NameLoopTypes ==
  ASSUME NEW g, Graph(g), NEW F \in NameFinders, NEW q \in NameQueries, q.module \notin q.stars
  PROVE  \E h \in [0 .. Len(g[q.module].star) -> MoreNames(OwnNames(g, q))] :
            NameTurns(g, F, q, h) /\ NamesFound(g, F, q) = h[Len(g[q.module].star)]
  <1> DEFINE star == g[q.module].star
             n == Len(star)
             a == OwnNames(g, q)
             A == MoreNames(a)
             G == [k \in 1 .. n |-> [b \in A |-> NamesFrom(F, star[k], b)]]
  <1>1. n \in Nat /\ (\A k \in 1 .. n : star[k] \in ModuleIds) /\ a \in NameAnswers
    BY EntryTypes, OwnNamesTypes
  <1> HIDE DEF a
  <1>2. a \in A
    BY <1>1 DEF MoreNames
  <1>3. \A k \in 1 .. n, b \in A : NamesFrom(F, star[k], b) \in A
    <2> SUFFICES ASSUME NEW k \in 1 .. n, NEW b \in A
                 PROVE  NamesFrom(F, star[k], b) \in A
      OBVIOUS
    <2>1. star[k] \in ModuleIds /\ b \in NameAnswers /\ a.stars \subseteq b.stars
      BY <1>1 DEF MoreNames
    <2>2. NamesFrom(F, star[k], b) \in MoreNames(b)
      BY <2>1, NameAskTypes
    <2> QED
      BY <2>1, <2>2 DEF MoreNames
  <1> HIDE DEF star, n, A
  <1>4. G \in [1 .. n -> [A -> A]] /\ \A k \in 1 .. n, b \in A : G[k][b] = NamesFrom(F, star[k], b)
    BY <1>3
  <1> HIDE DEF G
  <1>5. PICK h \in [0 .. n -> A] : h[0] = a /\ \A k \in 1 .. n : h[k] = G[k][h[k - 1]]
    <2>1. CanIterate(A, a, n, G)
      BY <1>1, <1>2, <1>4 DEF CanIterate
    <2>2. PICK h : Iterates(h, A, a, n, G)
      BY <2>1, IterationNamed
    <2> QED
      BY <2>2 DEF Iterates
  <1>6. \A k \in 1 .. n : h[k] = NamesFrom(F, star[k], h[k - 1])
    <2> TAKE k \in 1 .. n
    <2>1. k - 1 \in 0 .. n
      BY <1>1
    <2> QED
      BY <1>4, <1>5, <2>1
  <1>7. NameTurns(g, F, q, h)
    BY <1>5, <1>6 DEF NameTurns, star, n, a
  <1>8. NamesFound(g, F, q) = h[n]
    BY <1>1, <1>7, NameLoopUnfolds DEF star, n
  <1> QED
    BY <1>7, <1>8 DEF star, n, A, a

\* A call returns names, and has visited at least what its query has.
LEMMA NamesFoundTypes ==
  ASSUME NEW g, Graph(g), NEW F \in NameFinders, NEW q \in NameQueries
  PROVE  NamesFound(g, F, q) \in NameAnswers /\ q.stars \subseteq NamesFound(g, F, q).stars
  <1> DEFINE r == NamesFound(g, F, q)
  <1>0. OwnNames(g, q) \in NameAnswers /\ q.stars \subseteq OwnNames(g, q).stars /\ q.stars \subseteq ModuleIds
        /\ q.module \in ModuleIds
    BY OwnNamesTypes
  <1>1. CASE q.module \in q.stars
    <2>1. r = [names |-> {}, stars |-> q.stars]
      BY <1>1 DEF NamesFound
    <2> QED
      BY <1>0, <2>1 DEF NameAnswers
  <1>2. CASE q.module \notin q.stars
    <2>1. PICK h \in [0 .. Len(g[q.module].star) -> MoreNames(OwnNames(g, q))] : r = h[Len(g[q.module].star)]
      BY <1>2, NameLoopTypes
    <2>2. Len(g[q.module].star) \in 0 .. Len(g[q.module].star)
      BY <1>0, EntryTypes
    <2>3. r \in MoreNames(OwnNames(g, q))
      BY <2>1, <2>2
    <2> QED
      BY <1>0, <2>3 DEF MoreNames
  <1> QED
    BY <1>1, <1>2

NamesAgree(f, F, q) == \A r \in NameQueries : NameWeight(r) < NameWeight(q) => f[r] = F[r]

\* The names a call returns depend only on the calls that it makes.
LEMMA NamesFoundAgrees ==
  ASSUME NEW g, Graph(g), NEW F \in NameFinders, NEW q \in NameQueries, NEW f, NamesAgree(f, F, q)
  PROVE  NamesFound(g, f, q) = NamesFound(g, F, q)
  <1>1. CASE q.module \in q.stars
    BY <1>1 DEF NamesFound
  <1>2. CASE q.module \notin q.stars
    <2> DEFINE n == Len(g[q.module].star)
               a == OwnNames(g, q)
    <2>1. PICK h \in [0 .. n -> MoreNames(a)] : NameTurns(g, F, q, h) /\ NamesFound(g, F, q) = h[n]
      BY <1>2, NameLoopTypes
    <2>2. /\ n \in Nat /\ \A k \in 1 .. n : g[q.module].star[k] \in ModuleIds
          /\ a.stars = q.stars \cup {q.module}
      BY OwnNamesTypes, EntryTypes
    <2>3. ASSUME NEW k \in 1 .. n
          PROVE  h[k] = NamesFrom(f, g[q.module].star[k], h[k - 1])
      <3> DEFINE m == g[q.module].star[k]
                 c == h[k - 1]
                 r == NameQuery(m, c)
      <3>1. k - 1 \in 0 .. n /\ m \in ModuleIds
        BY <2>2
      <3>2. c \in MoreNames(a)
        BY <2>1, <3>1
      <3>3. c \in NameAnswers /\ q.stars \cup {q.module} \subseteq c.stars
        BY <2>2, <3>2 DEF MoreNames
      <3>4. r \in NameQueries /\ r.stars = c.stars
        BY <3>1, <3>3, NameQueryTypes
      <3>5. h[k] = NamesFrom(F, m, c)
        BY <2>1 DEF NameTurns
      <3> HIDE DEF m, c, r
      <3>6. NameWeight(r) < NameWeight(q)
        BY <1>2, <3>3, <3>4, NameSeenMore
      <3>7. f[r] = F[r]
        BY <3>4, <3>6 DEF NamesAgree
      <3>8. NamesFrom(f, m, c) = NamesFrom(F, m, c)
        BY <3>7 DEF NamesFrom, NameQuery, r
      <3> QED
        BY <3>5, <3>8 DEF m, c
    <2>4. NameTurns(g, f, q, h)
      BY <2>1, <2>3 DEF NameTurns
    <2>5. NamesFound(g, f, q) = h[n]
      BY <1>2, <2>2, <2>4, NameLoopUnfolds
    <2> QED
      BY <2>1, <2>5
  <1> QED
    BY <1>1, <1>2

\* GetExportedNames is the function its definition describes.
LEMMA ExportedNamesIs ==
  ASSUME NEW g, Graph(g)
  PROVE  /\ ExportedNames(g) \in NameFinders
         /\ \A q \in NameQueries : ExportedNames(g)[q] = NamesFound(g, ExportedNames(g), q)
  <1> DEFINE f[q \in NameQueries] == NamesFound(g, f, q)
             B(x) == [q \in NameQueries |-> NamesFound(g, x, q)]
             H == [F \in NameFinders |-> B(F)]
             F0 == [q \in NameQueries |-> [names |-> {}, stars |-> q.stars]]
             w == [q \in NameQueries |-> NameWeight(q)]
             N == Cardinality(ModuleIds)
  <1>1. ExportedNames(g) = f /\ f = CHOOSE x : x = B(x)
    BY DEF ExportedNames
  <1> HIDE DEF f
  <1>2. \A F \in NameFinders : B(F) \in NameFinders
    BY NamesFoundTypes DEF NameFinders
  <1>3. H \in [NameFinders -> NameFinders]
    <2> HIDE DEF B
    <2> QED
      BY <1>2
  <1>4. F0 \in NameFinders
    BY DEF NameFinders, NameAnswers, NameQueries
  <1>5. w \in [NameQueries -> 0 .. N] /\ N \in Nat
    BY NameWeightType, NamesAssumption, FS_CardinalityType
  <1>6. ASSUME NEW F \in NameFinders, NEW G \in NameFinders, NEW q \in NameQueries,
               \A r \in NameQueries : w[r] < w[q] => F[r] = G[r]
        PROVE  H[F][q] = H[G][q]
    <2>1. NamesAgree(F, G, q)
      BY <1>6 DEF NamesAgree
    <2> QED
      BY <2>1, NamesFoundAgrees
  <1>7. ASSUME NEW F \in NameFinders, NEW G \in NameFinders, \A q \in NameQueries : F[q] = G[q]
        PROVE  F = G
    BY <1>7 DEF NameFinders
  <1>8. \A F \in NameFinders : H[F] = B(F)
    OBVIOUS
  <1> HIDE DEF H, F0, w, N
  <1>9. PICK F \in NameFinders : H[F] = F
    <2>1. Recurs(NameQueries, NameFinders, H, w, N)
      BY <1>3, <1>5, <1>6, <1>7 DEF Recurs
    <2> QED
      BY <1>4, <2>1, RecursionHasMeaning
  <1>10. F = B(F)
    BY <1>8, <1>9
  <1>11. f = B(f)
    <2> HIDE DEF B
    <2> QED
      BY <1>1, <1>10
  <1>12. \A q \in NameQueries : f[q] = NamesFound(g, f, q)
    BY <1>11
  <1>13. \A q \in NameQueries : F[q] = NamesFound(g, F, q)
    BY <1>10
  <1>14. \A q \in NameQueries : f[q] = F[q]
    <2> SUFFICES ASSUME \E q \in NameQueries : f[q] # F[q]
                 PROVE  FALSE
      OBVIOUS
    <2> DEFINE W == {NameWeight(q) : q \in {x \in NameQueries : f[x] # F[x]}}
    <2>1. W \in SUBSET Nat /\ W # {}
      <3>1. \A q \in NameQueries : NameWeight(q) \in Nat
        BY NameWeightType
      <3> QED
        BY <3>1
    <2>2. PICK n \in W : \A m \in W : n <= m
      BY <2>1, LeastNumber
    <2>3. PICK q \in NameQueries : f[q] # F[q] /\ NameWeight(q) = n
      BY <2>2
    <2>4. ASSUME NEW r \in NameQueries, NameWeight(r) < NameWeight(q)
          PROVE  f[r] = F[r]
      <3>1. NameWeight(r) \in Nat /\ NameWeight(q) \in Nat
        BY NameWeightType
      <3> QED
        BY <2>2, <2>3, <2>4, <3>1
    <2>5. NamesFound(g, f, q) = NamesFound(g, F, q)
      BY <2>4, NamesFoundAgrees DEF NamesAgree
    <2> QED
      BY <1>12, <1>13, <2>3, <2>5
  <1>15. f = F
    <2>1. f = [q \in NameQueries |-> f[q]]
      BY <1>11
    <2>2. F = [q \in NameQueries |-> F[q]]
      BY DEF NameFinders
    <2> QED
      BY <1>14, <2>1, <2>2
  <1> QED
    BY <1>1, <1>12, <1>15

-----------------------------------------------------------------------------
(* The names that are found are those of the modules that star exports reach. *)

StarShut(g, C) == \A x \in C \cap ModuleIds : ToSet(g[x].star) \subseteq C
Found(g, C, m, n) == \E x \in C : n \in Owns(g, x) /\ (x = m \/ n # Default)

\* A module that is visited has its names taken, and the modules it passes on visited.
Gathered(g, base, a) ==
  \A o \in a.stars \ base : ToSet(g[o].star) \subseteq a.stars /\ Owns(g, o) \ {Default} \subseteq a.names
NamesTold(g, q, a) ==
  /\ q.stars \cup {q.module} \subseteq a.stars /\ Gathered(g, q.stars, a)
  /\ q.module \notin q.stars => Owns(g, q.module) \subseteq a.names
  /\ \A C \in SUBSET ModuleIds : q.module \in C /\ StarShut(g, C) => \A n \in a.names : Found(g, C, q.module, n)

\* If the calls with less left to visit tell the truth about names, so does
\* this one.
LEMMA NamesCallHolds ==
  ASSUME NEW g, Graph(g), NEW F \in NameFinders, NEW q \in NameQueries,
         \A r \in NameQueries : NameWeight(r) < NameWeight(q) => NamesTold(g, r, F[r])
  PROVE  NamesTold(g, q, NamesFound(g, F, q))
  <1> DEFINE star == g[q.module].star
             N == Len(star)
             a == OwnNames(g, q)
             base == q.stars \cup {q.module}
             Fits(c) == \A C \in SUBSET ModuleIds : q.module \in C /\ StarShut(g, C) =>
                            \A n \in c.names : Found(g, C, q.module, n)
             Good(k, c) == /\ c \in NameAnswers /\ base \subseteq c.stars /\ Gathered(g, base, c)
                           /\ Owns(g, q.module) \subseteq c.names /\ Fits(c)
                           /\ \A j \in 1 .. k : star[j] \in c.stars
  <1>1. /\ a \in NameAnswers /\ a.stars = base /\ a.names = Owns(g, q.module)
        /\ q.module \in ModuleIds /\ q.stars \subseteq ModuleIds
    BY OwnNamesTypes
  <1>2. N \in Nat /\ \A k \in 1 .. N : star[k] \in ModuleIds
    BY <1>1, EntryTypes
  <1>3. CASE q.module \in q.stars
    <2>1. NamesFound(g, F, q) = [names |-> {}, stars |-> q.stars]
      BY <1>3 DEF NamesFound
    <2> QED
      BY <1>3, <2>1 DEF NamesTold, Gathered
  <1>4. CASE q.module \notin q.stars
    <2>1. PICK h \in [0 .. N -> MoreNames(a)] : NameTurns(g, F, q, h) /\ NamesFound(g, F, q) = h[N]
      BY <1>4, NameLoopTypes
    <2> HIDE DEF a
    <2> DEFINE T == {k \in 0 .. N : Good(k, h[k])}
    <2>2. 0 \in T
      <3>1. h[0] = a
        BY <2>1 DEF NameTurns, a
      <3>2. Gathered(g, base, a)
        BY <1>1 DEF Gathered
      <3>3. Fits(a)
        BY <1>1 DEF Found
      <3> HIDE DEF Fits, base
      <3> QED
        BY <1>1, <1>2, <3>1, <3>2, <3>3
    <2>3. ASSUME NEW k \in 0 .. N, k \in T, k < N
          PROVE  k + 1 \in T
      <3> DEFINE b == h[k]
                 c == h[k + 1]
                 o == star[k + 1]
                 x == NameQuery(o, b)
                 r == F[x]
      <3>1. k + 1 \in 0 .. N /\ k + 1 \in 1 .. N /\ (k + 1) - 1 = k /\ o \in ModuleIds
        BY <1>2, <2>3
      <3>2. c = NamesFrom(F, o, b)
        BY <2>1, <3>1 DEF NameTurns
      <3>3. Good(k, b)
        BY <2>3
      <3> HIDE DEF Good, b, c, T
      <3>4. b \in NameAnswers
        BY <3>3 DEF Good
      <3>5. x \in NameQueries /\ x.module = o /\ x.stars = b.stars
        BY <3>1, <3>4, NameQueryTypes
      <3>6. r \in NameAnswers /\ c \in NameAnswers /\ c.stars = r.stars /\ c.names = b.names \cup (r.names \ {Default})
        BY <3>1, <3>2, <3>4, NameAskTypes, NameTurn DEF MoreNames
      <3>7. NamesTold(g, x, r)
        <4>1. base \subseteq b.stars
          BY <3>3 DEF Good
        <4>2. NameWeight(x) < NameWeight(q)
          BY <1>4, <3>5, <4>1, NameSeenMore
        <4> QED
          BY <3>5, <4>2
      <3> HIDE DEF x, r, o
      <3>8. b.stars \cup {o} \subseteq c.stars /\ base \subseteq c.stars
        BY <3>3, <3>5, <3>6, <3>7 DEF NamesTold, Good
      <3>9. Gathered(g, base, c)
        <4>1. Gathered(g, b.stars, r) /\ Gathered(g, base, b)
          BY <3>3, <3>5, <3>7 DEF NamesTold, Good
        <4> HIDE DEF base
        <4> QED
          BY <3>6, <3>8, <4>1 DEF Gathered
      <3>10. Fits(c)
        <4> SUFFICES ASSUME NEW C \in SUBSET ModuleIds, q.module \in C, StarShut(g, C), NEW n \in c.names
                     PROVE  Found(g, C, q.module, n)
          OBVIOUS
        <4>1. CASE n \in b.names
          BY <3>3, <4>1 DEF Good
        <4>2. CASE n \in r.names /\ n # Default
          <5>1. o \in C
            <6>1. o \in ToSet(star)
              BY <3>1 DEF ToSet, o
            <6> QED
              BY <1>1, <6>1 DEF StarShut
          <5>2. Found(g, C, o, n)
            BY <3>5, <3>7, <4>2, <5>1 DEF NamesTold
          <5> QED
            BY <4>2, <5>2 DEF Found
        <4> QED
          BY <3>6, <4>1, <4>2
      <3>11. \A j \in 1 .. k + 1 : star[j] \in c.stars
        <4> TAKE j \in 1 .. k + 1
        <4>1. j \in 1 .. k \/ j = k + 1
          BY <1>2
        <4>2. CASE j \in 1 .. k
          BY <3>3, <3>8, <4>2 DEF Good
        <4>3. CASE j = k + 1
          BY <3>8, <4>3 DEF o
        <4> QED
          BY <4>1, <4>2, <4>3
      <3>12. Owns(g, q.module) \subseteq c.names
        BY <3>3, <3>6 DEF Good
      <3>13. Good(k + 1, c)
        BY <3>6, <3>8, <3>9, <3>10, <3>11, <3>12 DEF Good
      <3> QED
        BY <3>1, <3>13 DEF T, c
    <2>4. Good(N, h[N])
      <3> HIDE DEF T, Good
      <3>1. 0 .. N \subseteq T
        <4> HIDE DEF N
        <4> QED
          BY <1>2, <2>2, <2>3, UpTo
      <3>2. N \in 0 .. N
        BY <1>2
      <3> QED
        BY <3>1, <3>2 DEF T
    <2>5. ToSet(star) \subseteq h[N].stars
      BY <2>4 DEF ToSet
    <2>6. Gathered(g, q.stars, h[N])
      BY <2>4, <2>5 DEF Gathered
    <2> QED
      BY <2>1, <2>4, <2>6 DEF NamesTold
  <1> QED
    BY <1>3, <1>4

\* The names of a module: its own, and those of the modules star exports lead to.
Names(g, m) == ExportedNames(g)[[module |-> m, stars |-> {}]].names

\* The names of a module: each is exported where star exports lead to, and all
\* that are exported there, default apart, are among them.
LEMMA NamesAre ==
  ASSUME NEW g, Graph(g), NEW m \in ModuleIds
  PROVE  /\ Names(g, m) \subseteq ExportNames
         /\ \A C \in SUBSET ModuleIds : m \in C /\ StarShut(g, C) => \A n \in Names(g, m) : Found(g, C, m, n)
         /\ \E V \in SUBSET ModuleIds : /\ m \in V /\ StarShut(g, V) /\ Owns(g, m) \subseteq Names(g, m)
                                        /\ \A o \in V : Owns(g, o) \ {Default} \subseteq Names(g, m)
  <1> DEFINE F == ExportedNames(g)
             q0 == [module |-> m, stars |-> {}]
             a == F[q0]
  <1>1. F \in NameFinders /\ \A q \in NameQueries : F[q] = NamesFound(g, F, q)
    BY ExportedNamesIs
  <1>2. q0 \in NameQueries /\ q0.module = m /\ q0.stars = {} /\ Names(g, m) = a.names
    BY DEF NameQueries, Names
  <1> HIDE DEF F, q0
  <1>3. a \in NameAnswers
    BY <1>1, <1>2 DEF NameFinders
  <1>4. \A q \in NameQueries : NamesTold(g, q, F[q])
    <2> SUFFICES ASSUME \E q \in NameQueries : ~NamesTold(g, q, F[q])
                 PROVE  FALSE
      OBVIOUS
    <2> DEFINE Bad == {q \in NameQueries : ~NamesTold(g, q, F[q])}
               W == {NameWeight(q) : q \in Bad}
    <2>1. W \in SUBSET Nat /\ W # {}
      <3>1. \A q \in NameQueries : NameWeight(q) \in Nat
        BY NameWeightType
      <3> QED
        BY <3>1
    <2>2. PICK k \in W : \A j \in W : k <= j
      BY <2>1, LeastNumber
    <2>3. PICK q \in Bad : NameWeight(q) = k
      BY <2>2
    <2>4. ASSUME NEW r \in NameQueries, NameWeight(r) < NameWeight(q)
          PROVE  NamesTold(g, r, F[r])
      <3>1. NameWeight(r) \in Nat /\ NameWeight(q) \in Nat
        BY <2>3, NameWeightType
      <3> QED
        BY <2>2, <2>3, <2>4, <3>1
    <2>5. NamesTold(g, q, NamesFound(g, F, q))
      BY <1>1, <2>3, <2>4, NamesCallHolds
    <2> QED
      BY <1>1, <2>3, <2>5
  <1>5. NamesTold(g, q0, a)
    BY <1>2, <1>4
  <1> HIDE DEF a
  <1>6. /\ m \in a.stars /\ StarShut(g, a.stars) /\ Owns(g, m) \subseteq a.names
        /\ \A o \in a.stars : Owns(g, o) \ {Default} \subseteq a.names
    BY <1>2, <1>5 DEF NamesTold, Gathered, StarShut
  <1>7. a.stars \in SUBSET ModuleIds /\ a.names \subseteq ExportNames
    BY <1>3 DEF NameAnswers
  <1> QED
    BY <1>2, <1>5, <1>6, <1>7 DEF NamesTold

-----------------------------------------------------------------------------
(* What is clear, and what is not.                                           *)

\* There are finitely many bindings.
LEMMA BindingsFinite == IsFiniteSet(Binding)
  <1> DEFINE f == [p \in Pairs |-> Binds(p[1], p[2])]
  <1>1. \A p \in Pairs : Binds(p[1], p[2]) \in Binding
    BY DEF Pairs, Binds, Binding
  <1>2. \A b \in Binding : <<b.module, b.binding>> \in Pairs /\ b = Binds(b.module, b.binding)
    BY DEF Pairs, Binds, Binding
  <1>3. f \in Surjection(Pairs, Binding)
    <2>1. f \in [Pairs -> Binding]
      BY <1>1
    <2>2. \A b \in Binding : \E p \in Pairs : f[p] = b
      BY <1>2
    <2> HIDE DEF f
    <2> QED
      BY <2>1, <2>2 DEF Surjection
  <1> QED
    BY <1>3, PairsFinite, FS_Surjection

\* A name is clear when it has a meaning and no other.
LEMMA ClearIs ==
  ASSUME NEW g, Graph(g), NEW m \in ModuleIds, NEW n \in ExportNames
  PROVE  /\ Clear(g, m, n) <=> \E b : Meanings(g, m, n) = {b}
         /\ Meanings(g, m, n) = {} => ~Clear(g, m, n)
         /\ Several(g, "strict", m, n) => ~Clear(g, m, n)
  <1>1. Meanings(g, m, n) \subseteq Binding
    <2> SUFFICES ASSUME NEW b \in Meanings(g, m, n) PROVE b \in Binding
      OBVIOUS
    <2>1. PICK p \in Reached(g, m, n) : \E e \in Locals(g, p) : b = Binds(p[1], e.local)
      BY MeaningIs
    <2>2. p \in Pairs
      BY ReachedIs
    <2> QED
      BY <2>1, <2>2, PairTypes DEF Binds, Binding
  <1>2. IsFiniteSet(Meanings(g, m, n))
    BY <1>1, BindingsFinite, FS_Subset
  <1> DEFINE M == Meanings(g, m, n)
  <1>3. Cardinality(M) = 1 <=> \E b : M = {b}
    BY <1>2, FS_Singleton
  <1>4. Clear(g, m, n) <=> Cardinality(M) = 1
    BY DEF Clear
  <1>5. Several(g, "strict", m, n) => \E b, c \in M : b # c
    BY DEF Several, Ends
  <1> HIDE DEF M
  <1>6. M = {} \/ (\E b, c \in M : b # c) => ~\E b : M = {b}
    OBVIOUS
  <1> QED
    BY <1>3, <1>4, <1>5, <1>6 DEF M

\* Resolution finds a binding exactly for what is clear.
LEMMA ResolvesClear ==
  ASSUME NEW g, Graph(g), NEW m \in ModuleIds, NEW n \in ExportNames, PlainName(g, m, n)
  PROVE  /\ Resolve(g, m, n) \in Binding \/ Resolve(g, m, n) \in NoBinding
         /\ Resolve(g, m, n) \in Binding => Clear(g, m, n) /\ Meanings(g, m, n) = {Resolve(g, m, n)}
         /\ Resolve(g, m, n) \in {Null, Ambiguous} => ~Clear(g, m, n)
         /\ Resolve(g, m, n) = BadDefault => DeadDefault(g, m, n)
  BY ResolutionIsMeaning, ClearIs

\* Any name resolves to something that it may mean.
LEMMA ResolvesRight ==
  ASSUME NEW g, Graph(g), NEW m \in ModuleIds, NEW n \in ExportNames
  PROVE  /\ Resolve(g, m, n) \in Binding \cup NoBinding
         /\ Resolve(g, m, n) \in Binding =>
                /\ MayMean(g, m, n, Resolve(g, m, n))
                /\ Resolve(g, m, n) \in Candidates(g, m, n)
         /\ Resolve(g, m, n) = Ambiguous => Disputed(g, m, n) /\ Doubtful(g, m, n)
  <1> DEFINE v == Resolve(g, m, n)
  <1>1. /\ v \in Binding \cup NoBinding
        /\ v = Ambiguous => Disputed(g, m, n)
        /\ v \in Binding => v \in Candidates(g, m, n)
        /\ v \in Binding /\ AskedOnce(g, m, n) => \A b \in Meanings(g, m, n) : v.module = b.module
    <2> DEFINE w == "loose"
    <2>1. w \in Views /\ w = "loose" /\ Ends(g, w, m, n) = Candidates(g, m, n)
          /\ (Several(g, w, m, n) <=> Disputed(g, m, n))
      BY DEF Views, Ends, Several, Disputed
    <2> HIDE DEF w
    <2> QED
      BY <2>1, FirstCallHolds
  <1>2. /\ PlainName(g, m, n) /\ v \in Binding => Meanings(g, m, n) = {v}
        /\ PlainName(g, m, n) /\ v = Ambiguous => Several(g, "strict", m, n)
    BY ResolutionIsMeaning
  <1>3. v = Ambiguous => Doubtful(g, m, n)
    BY <1>2, ClearIs DEF Doubtful
  <1> HIDE DEF v
  <1> QED
    BY <1>1, <1>2, <1>3 DEF v, MayMean

\* What is reached from a pair that is reached is reached.
LEMMA ReachedFurther ==
  ASSUME NEW g, Graph(g), NEW m \in ModuleIds, NEW n \in ExportNames, NEW p \in Reached(g, m, n)
  PROVE  /\ p \in Pairs /\ p[1] \in ModuleIds /\ p[2] \in ExportNames
         /\ Reached(g, p[1], p[2]) \subseteq Reached(g, m, n)
         /\ Meanings(g, p[1], p[2]) \subseteq Meanings(g, m, n)
         /\ p[1] \in Required(g, m)
  <1>1. p \in Pairs /\ p[1] \in ModuleIds /\ p[2] \in ExportNames /\ p = <<p[1], p[2]>>
    BY ReachedIs, PairTypes
  <1>2. Reached(g, p[1], p[2]) \subseteq Reached(g, m, n)
    <2> DEFINE C == Reached(g, m, n)
    <2>1. <<p[1], p[2]>> \in C /\ \A x \in C \cap Pairs : Targets(g, x) \subseteq C
      BY <1>1, ReachedIs
    <2> HIDE DEF C
    <2>2. Reached(g, p[1], p[2]) \subseteq C
      BY <1>1, <2>1, ReachedIs
    <2> QED
      BY <2>2 DEF C
  <1>3. Meanings(g, p[1], p[2]) \subseteq Meanings(g, m, n)
    BY <1>2 DEF Meanings
  <1>4. p[1] \in Required(g, m)
    <2> DEFINE Q == Required(g, m)
               C == {x \in Pairs : x[1] \in Q}
    <2>1. <<m, n>> \in C
      BY RequiredIs DEF Pairs
    <2>2. ASSUME NEW x \in C, NEW t \in Targets(g, x)
          PROVE  t \in C
      <3>1. x \in Pairs /\ x[1] \in Q /\ x[1] \in ModuleIds /\ t \in Pairs
        BY <2>2, PairTypes
      <3>2. t[1] \in ToSet(g[x[1]].requested)
        <4>1. /\ {e.from : e \in ToSet(g[x[1]].indirect)} \subseteq ToSet(g[x[1]].requested)
              /\ ToSet(g[x[1]].star) \subseteq ToSet(g[x[1]].requested)
          BY <3>1 DEF Graph, Accepted
        <4>2. CASE \E e \in Indirects(g, x) : t = <<e.from, e.name>>
          BY <4>1, <4>2 DEF Indirects
        <4>3. CASE t \in ToSet(g[x[1]].star) \X {x[2]}
          BY <4>1, <4>3
        <4>4. (\E e \in Indirects(g, x) : t = <<e.from, e.name>>) \/ t \in ToSet(g[x[1]].star) \X {x[2]}
          BY <2>2 DEF Targets
        <4> QED
          BY <4>2, <4>3, <4>4
      <3>3. t[1] \in Q
        BY <3>1, <3>2, RequiredIs
      <3> QED
        BY <3>1, <3>3
    <2> HIDE DEF C
    <2>3. Reached(g, m, n) \subseteq C
      BY <2>1, <2>2, ReachedIs
    <2> QED
      BY <2>3 DEF C
  <1> QED
    BY <1>1, <1>2, <1>3, <1>4

\* A graph whose instantiation may fail, seen from m.
Unclear(g, r) == UnclearImport(g, r) \/ UnclearExport(g, r)
Doomed(g, m) == \E r \in Required(g, m) : Unclear(g, r)

\* A module that requires one whose instantiation may fail may fail.
LEMMA DoomSpreads ==
  ASSUME NEW g, Graph(g), NEW m \in ModuleIds, NEW r \in ToSet(g[m].requested), Doomed(g, r)
  PROVE  Doomed(g, m)
  <1>1. r \in Required(g, m) /\ r \in ModuleIds
    BY RequiredIs
  <1>2. Required(g, r) \subseteq Required(g, m)
    <2> DEFINE C == Required(g, m)
    <2>1. r \in C /\ \A x \in C \cap ModuleIds : ToSet(g[x].requested) \subseteq C
      BY <1>1, RequiredIs
    <2> HIDE DEF C
    <2>2. Required(g, r) \subseteq C
      BY <1>1, <2>1, RequiredIs
    <2> QED
      BY <2>2 DEF C
  <1> QED
    BY <1>2 DEF Doomed

\* An export that passes a name on, and has nothing to pass, is unclear.
LEMMA EmptyForward ==
  ASSUME NEW g, Graph(g), NEW p \in Pairs, Indirects(g, p) # {}, Meanings(g, p[1], p[2]) = {}
  PROVE  UnclearExport(g, p[1])
  <1>1. p[1] \in ModuleIds /\ p[2] \in ExportNames /\ p = <<p[1], p[2]>>
    BY PairTypes
  <1>2. PICK e \in Indirects(g, p) : TRUE
    OBVIOUS
  <1>3. e \in ToSet(g[p[1]].indirect) /\ e.exported = p[2]
    BY DEF Indirects
  <1>4. ~Clear(g, p[1], p[2])
    BY <1>1, ClearIs
  <1> QED
    BY <1>3, <1>4 DEF UnclearExport, Doubtful

\* Who reaches a default export that is not there asks for it, or passes it on.
LEMMA DeadIsUnclear ==
  ASSUME NEW g, Graph(g), NEW m \in ModuleIds, NEW n \in ExportNames, DeadDefault(g, m, n)
  PROVE  \/ n = Default /\ Locals(g, <<m, n>>) = {} /\ Indirects(g, <<m, n>>) = {} /\ Meanings(g, m, n) = {}
         \/ Doomed(g, m)
  <1>1. PICK p \in Reached(g, m, n) : p[2] = Default /\ Locals(g, p) = {} /\ Indirects(g, p) = {}
    BY DEF DeadDefault
  <1>2. p \in Pairs /\ p = <<p[1], p[2]>> /\ p[1] \in ModuleIds
    BY ReachedFurther, PairTypes
  <1>3. Targets(g, p) = {}
    BY <1>1, TargetCases
  <1>4. Reached(g, p[1], p[2]) \subseteq {p}
    <2> DEFINE C == {p}
    <2>1. <<p[1], p[2]>> \in C /\ \A x \in C \cap Pairs : Targets(g, x) \subseteq C
      BY <1>2, <1>3
    <2> HIDE DEF C
    <2>2. Reached(g, p[1], p[2]) \subseteq C
      BY <1>2, <2>1, PairTypes, ReachedIs
    <2> QED
      BY <2>2 DEF C
  <1>5. Meanings(g, p[1], p[2]) = {}
    BY <1>1, <1>4 DEF Meanings
  <1>6. CASE p = <<m, n>>
    BY <1>1, <1>5, <1>6
  <1>7. CASE p # <<m, n>>
    <2>1. PICK x \in Reached(g, m, n) : p \in Targets(g, x)
      <3> DEFINE C == {y \in Reached(g, m, n) : y = <<m, n>> \/ \E x \in Reached(g, m, n) : y \in Targets(g, x)}
      <3>1. <<m, n>> \in C /\ \A y \in C \cap Pairs : Targets(g, y) \subseteq C
        BY ReachedIs
      <3> HIDE DEF C
      <3>2. Reached(g, m, n) \subseteq C
        BY <3>1, ReachedIs
      <3> QED
        BY <1>7, <3>2 DEF C
    <2>2. x \in Pairs /\ x[1] \in ModuleIds /\ x[2] \in ExportNames /\ x[1] \in Required(g, m) /\ x = <<x[1], x[2]>>
      BY ReachedFurther, PairTypes
    <2>3. Locals(g, x) = {} /\ Indirects(g, x) # {}
      <3>1. Locals(g, x) = {}
        BY <2>1 DEF Targets
      <3>2. ASSUME Indirects(g, x) = {} PROVE FALSE
        <4>1. x[2] # Default
          BY <2>1, <3>1, <3>2, TargetCases
        <4>2. p \in ToSet(g[x[1]].star) \X {x[2]}
          BY <2>1, <3>1, <3>2, <4>1, TargetCases DEF Stars
        <4> QED
          BY <1>1, <4>1, <4>2
      <3> QED
        BY <3>1, <3>2
    <2>4. Targets(g, x) = {p}
      <3>1. Targets(g, x) = {<<e.from, e.name>> : e \in Indirects(g, x)}
        BY <2>3, TargetCases
      <3>2. \A e, d \in Indirects(g, x) : e = d
        BY <2>2, PairTypes
      <3>3. \A t \in Targets(g, x) : t = p
        <4> TAKE t \in Targets(g, x)
        <4>1. PICK e \in Indirects(g, x) : t = <<e.from, e.name>>
          BY <3>1
        <4>2. PICK d \in Indirects(g, x) : p = <<d.from, d.name>>
          BY <2>1, <3>1
        <4>3. e = d
          BY <3>2
        <4> QED
          BY <4>1, <4>2, <4>3
      <3> QED
        BY <2>1, <3>3
    <2>5. Reached(g, x[1], x[2]) \subseteq {x, p}
      <3> DEFINE C == {x, p}
      <3>1. <<x[1], x[2]>> \in C /\ \A y \in C \cap Pairs : Targets(g, y) \subseteq C
        BY <1>3, <2>2, <2>4
      <3> HIDE DEF C
      <3>2. Reached(g, x[1], x[2]) \subseteq C
        BY <2>2, <3>1, ReachedIs
      <3> QED
        BY <3>2 DEF C
    <2>6. Meanings(g, x[1], x[2]) = {}
      BY <1>1, <2>3, <2>5 DEF Meanings
    <2>7. UnclearExport(g, x[1])
      BY <2>2, <2>3, <2>6, EmptyForward
    <2> QED
      BY <2>2, <2>7 DEF Doomed, Unclear
  <1> QED
    BY <1>6, <1>7

\* A pair that leads to no local export, while some module it leads to by star
\* exports has an export of its name: an entry passes on what is not there.
LEMMA NamedButNothing ==
  ASSUME NEW g, Graph(g), NEW m \in ModuleIds, NEW n \in Names(g, m), Meanings(g, m, n) = {}
  PROVE  Doomed(g, m)
  <1> DEFINE R == Reached(g, m, n)
             C == {x \in ModuleIds : <<x, n>> \in R}
  <1>1. n \in ExportNames /\ m \in C
    BY NamesAre, ReachedIs
  <1>2. \A p \in R : Locals(g, p) = {}
    <2> SUFFICES ASSUME NEW p \in R, NEW e \in Locals(g, p) PROVE FALSE
      OBVIOUS
    <2>1. Binds(p[1], e.local) \in Meanings(g, m, n)
      <3> DEFINE b == Binds(p[1], e.local)
      <3>1. \E q \in Reached(g, m, n) : \E d \in Locals(g, q) : b = Binds(q[1], d.local)
        OBVIOUS
      <3> HIDE DEF b
      <3>2. b \in Meanings(g, m, n)
        BY <3>1, MeaningIs
      <3> QED
        BY <3>2 DEF b
    <2> QED
      BY <2>1
  <1>3. \E x \in C : n \in Owns(g, x)
    <2> SUFFICES ASSUME \A x \in C : n \notin Owns(g, x)
                 PROVE  FALSE
      OBVIOUS
    <2>1. CASE n = Default
      <3> HIDE DEF C
      <3>1. StarShut(g, ModuleIds)
        BY EntryTypes DEF StarShut
      <3>2. Found(g, ModuleIds, m, n)
        BY <3>1, NamesAre
      <3> QED
        BY <1>1, <2>1, <3>2 DEF Found
    <2>2. CASE n # Default
      <3>1. StarShut(g, C)
        <4> SUFFICES ASSUME NEW x \in C, NEW y \in ToSet(g[x].star)
                     PROVE  y \in C
          BY DEF StarShut
        <4> DEFINE p == <<x, n>>
        <4>1. x \in ModuleIds /\ p \in R /\ y \in ModuleIds
          BY EntryTypes
        <4>2. Locals(g, p) = {} /\ Indirects(g, p) = {}
          <5>1. n \notin Owns(g, x)
            OBVIOUS
          <5> QED
            BY <1>2, <4>1, <5>1 DEF Indirects, Owns
        <4>3. <<y, n>> \in Targets(g, p)
          BY <2>2, <4>2, TargetCases DEF Stars
        <4>4. <<y, n>> \in R
          BY <1>1, <4>1, <4>3, ReachedIs
        <4> QED
          BY <4>1, <4>4
      <3>2. C \in SUBSET ModuleIds /\ m \in C
        BY <1>1
      <3> HIDE DEF C
      <3>3. Found(g, C, m, n)
        BY <3>1, <3>2, NamesAre
      <3> QED
        BY <3>3 DEF Found
    <2> QED
      BY <2>1, <2>2
  <1>4. PICK x \in C : n \in Owns(g, x)
    BY <1>3
  <1> DEFINE p == <<x, n>>
  <1>5. p \in R /\ p \in Pairs /\ p[1] = x /\ p[2] = n /\ x \in Required(g, m) /\ Meanings(g, x, n) \subseteq Meanings(g, m, n)
    BY <1>1, ReachedFurther
  <1>6. Indirects(g, p) # {}
    <2>1. PICK e \in ToSet(g[x].local) \cup ToSet(g[x].indirect) : e.exported = n
      BY <1>4 DEF Owns
    <2>2. e \notin ToSet(g[x].local)
      BY <1>2, <1>5, <2>1 DEF Locals
    <2> QED
      BY <2>1, <2>2 DEF Indirects
  <1>7. UnclearExport(g, x)
    BY <1>5, <1>6, EmptyForward
  <1> QED
    BY <1>5, <1>7 DEF Doomed, Unclear

\* A name that has a meaning is a name of the module.
LEMMA MeantIsNamed ==
  ASSUME NEW g, Graph(g), NEW m \in ModuleIds, NEW n \in ExportNames, Meanings(g, m, n) # {}
  PROVE  n \in Names(g, m)
  <1> SUFFICES ASSUME n \notin Names(g, m)
               PROVE  FALSE
    OBVIOUS
  <1>1. PICK V \in SUBSET ModuleIds : /\ m \in V /\ StarShut(g, V) /\ Owns(g, m) \subseteq Names(g, m)
                                      /\ \A o \in V : Owns(g, o) \ {Default} \subseteq Names(g, m)
    BY NamesAre
  <1> DEFINE C == IF n = Default THEN {<<m, n>>} ELSE V \X {n}
  <1>2. \A p \in C : p[1] \in V /\ p[2] = n /\ p \in Pairs /\ n \notin Owns(g, p[1])
    BY <1>1 DEF Pairs
  <1>3. \A p \in C : Locals(g, p) = {} /\ Indirects(g, p) = {}
    BY <1>2 DEF Locals, Indirects, Owns
  <1>4. ASSUME NEW p \in C
        PROVE  Targets(g, p) \subseteq C
    <2>1. CASE n = Default
      BY <1>2, <1>3, <2>1, TargetCases
    <2>2. CASE n # Default
      <3>1. Targets(g, p) = ToSet(g[p[1]].star) \X {n}
        BY <1>2, <1>3, <2>2, TargetCases DEF Stars
      <3>2. ToSet(g[p[1]].star) \subseteq V
        BY <1>1, <1>2 DEF StarShut
      <3> QED
        BY <2>2, <3>1, <3>2
    <2> QED
      BY <2>1, <2>2
  <1>5. <<m, n>> \in C
    BY <1>1
  <1> HIDE DEF C
  <1>6. Reached(g, m, n) \subseteq C
    BY <1>4, <1>5, ReachedIs
  <1>7. Meanings(g, m, n) = {}
    BY <1>3, <1>6 DEF Meanings
  <1> QED
    BY <1>7

\* The namespace of a module, if there is one, is exact.
Exact(g, m, ns) ==
  /\ ns \in Namespaces
  /\ \A n \in ExportNames :
        IF n \in DOMAIN ns THEN MayMean(g, m, n, ns[n])
        ELSE \/ Meanings(g, m, n) = {}
             \/ Disputed(g, m, n) /\ Doubtful(g, m, n)

\* A namespace is exact, and that there is none has a reason.
LEMMA NamespaceIs ==
  ASSUME NEW g, Graph(g), NEW m \in ModuleIds
  PROVE  /\ Namespace(g, m) = Null \/ Exact(g, m, Namespace(g, m))
         /\ Namespace(g, m) = Null => Doomed(g, m) \/ \E n \in ExportNames : ~PlainName(g, m, n)
  <1> DEFINE names == Names(g, m)
             D == Unambiguous(g, m, names)
             ns == [n \in D |-> Resolve(g, m, n)]
  <1>1. Namespace(g, m) = IF \E n \in names : Resolve(g, m, n) \in {Null, BadDefault} THEN Null ELSE ns
    BY DEF Namespace, Names
  <1>2. names \subseteq ExportNames /\ D = {n \in names : Resolve(g, m, n) # Ambiguous}
    BY NamesAre DEF Unambiguous
  <1> HIDE DEF D, names
  <1>3. CASE \E n \in names : Resolve(g, m, n) \in {Null, BadDefault}
    <2>1. PICK n \in names : Resolve(g, m, n) \in {Null, BadDefault}
      BY <1>3
    <2>2. n \in ExportNames
      BY <1>2
    <2>3. CASE PlainName(g, m, n) /\ Resolve(g, m, n) = Null
      <3>1. Meanings(g, m, n) = {}
        BY <2>2, <2>3, ResolutionIsMeaning
      <3>2. Doomed(g, m)
        BY <3>1, NamedButNothing DEF names
      <3> QED
        BY <1>1, <1>3, <3>2
    <2>4. CASE PlainName(g, m, n) /\ Resolve(g, m, n) = BadDefault
      <3>1. DeadDefault(g, m, n)
        BY <2>2, <2>4, ResolvesClear
      <3>2. Doomed(g, m)
        BY <2>2, <3>1, DeadIsUnclear, NamedButNothing DEF names
      <3> QED
        BY <1>1, <1>3, <3>2
    <2>5. CASE ~PlainName(g, m, n)
      BY <1>1, <1>3, <2>2, <2>5
    <2> QED
      BY <2>1, <2>3, <2>4, <2>5
  <1>4. CASE ~\E n \in names : Resolve(g, m, n) \in {Null, BadDefault}
    <2>1. Namespace(g, m) = ns
      BY <1>1, <1>4
    <2>2. ASSUME NEW n \in D
          PROVE  Resolve(g, m, n) \in Binding /\ MayMean(g, m, n, Resolve(g, m, n)) /\ n \in ExportNames
      <3>1. n \in ExportNames /\ Resolve(g, m, n) \notin {Null, BadDefault, Ambiguous}
        BY <1>2, <1>4
      <3> QED
        BY <3>1, ResolvesRight DEF NoBinding
    <2>3. ASSUME NEW n \in ExportNames, n \notin D
          PROVE  Meanings(g, m, n) = {} \/ (Disputed(g, m, n) /\ Doubtful(g, m, n))
      <3>1. CASE n \in names
        <4>1. Resolve(g, m, n) = Ambiguous
          BY <1>2, <2>3, <3>1
        <4> QED
          BY <4>1, ResolvesRight
      <3>2. CASE n \notin names
        BY <3>2, MeantIsNamed DEF names
      <3> QED
        BY <3>1, <3>2
    <2>4. ns \in [D -> Binding] /\ D \in SUBSET ExportNames /\ DOMAIN ns = D /\ \A n \in D : ns[n] = Resolve(g, m, n)
      BY <2>2
    <2> HIDE DEF ns
    <2>5. ns \in Namespaces
      BY <2>4 DEF Namespaces
    <2>6. Exact(g, m, ns)
      BY <2>2, <2>3, <2>4, <2>5 DEF Exact
    <2>7. Namespace(g, m) # Null
      BY <2>1, <2>5, NamesAssumption DEF NoBinding
    <2> QED
      BY <2>1, <2>6, <2>7
  <1> QED
    BY <1>3, <1>4

\* A module that passes on a name without a binding is, or requires one that is, unclear.
LEMMA BadForward ==
  ASSUME NEW g, Graph(g), NEW m \in ModuleIds, NEW e \in ToSet(g[m].indirect),
         Resolve(g, m, e.exported) \in NoBinding
  PROVE  Doomed(g, m)
  <1> DEFINE n == e.exported
  <1>1. n \in ExportNames /\ e \in Indirects(g, <<m, n>>) /\ m \in Required(g, m)
    BY EntryTypes, RequiredIs DEF Indirects
  <1>2. CASE PlainName(g, m, n) /\ Resolve(g, m, n) = BadDefault
    BY <1>1, <1>2, ResolvesClear, DeadIsUnclear
  <1>3. CASE ~PlainName(g, m, n) \/ Resolve(g, m, n) # BadDefault
    <2>1. Doubtful(g, m, n)
      BY <1>1, <1>3, ResolvesClear DEF NoBinding, Doubtful
    <2> QED
      BY <1>1, <2>1 DEF Doomed, Unclear, UnclearExport
  <1> QED
    BY <1>2, <1>3

\* And so is one that imports a name without a binding.
LEMMA BadImport ==
  ASSUME NEW g, Graph(g), NEW m \in ModuleIds, NEW i \in ToSet(g[m].imports),
         i.name # Star, i.name \in ExportNames, Resolve(g, i.from, i.name) \in NoBinding
  PROVE  Doomed(g, m)
  <1> DEFINE n == i.name
             o == i.from
  <1>1. o \in ToSet(g[m].requested) /\ m \in Required(g, m)
    <2>1. {j.from : j \in ToSet(g[m].imports)} \subseteq ToSet(g[m].requested)
      BY DEF Graph, Accepted
    <2>2. o \in {j.from : j \in ToSet(g[m].imports)}
      OBVIOUS
    <2>3. m \in Required(g, m)
      BY RequiredIs
    <2> QED
      BY <2>1, <2>2, <2>3
  <1>2. o \in ModuleIds
    BY <1>1, RequiredIs
  <1>3. CASE Doubtful(g, o, n)
    BY <1>1, <1>3 DEF Doomed, Unclear, UnclearImport
  <1>4. CASE ~Doubtful(g, o, n)
    <2>1. PlainName(g, o, n) /\ Clear(g, o, n)
      BY <1>4 DEF Doubtful
    <2>2. DeadDefault(g, o, n) /\ Meanings(g, o, n) # {}
      BY <1>2, <2>1, ResolvesClear, ClearIs DEF NoBinding
    <2>3. Doomed(g, o)
      BY <1>2, <2>2, DeadIsUnclear
    <2> QED
      BY <1>1, <2>3, DoomSpreads
  <1> QED
    BY <1>3, <1>4

\* And so is one that imports a namespace that there is not.
LEMMA BadNamespace ==
  ASSUME NEW g, Graph(g), NEW m \in ModuleIds, NEW i \in ToSet(g[m].imports),
         i.name = Star, i.from \in ToSet(g[m].requested), Namespace(g, i.from) = Null
  PROVE  Doomed(g, m)
  <1>1. i.from \in ModuleIds /\ m \in Required(g, m)
    BY RequiredIs
  <1>2. CASE Doomed(g, i.from)
    BY <1>2, DoomSpreads
  <1>3. CASE \E n \in ExportNames : ~PlainName(g, i.from, n)
    BY <1>1, <1>3 DEF Doomed, Unclear, UnclearImport
  <1> QED
    BY <1>1, <1>2, <1>3, NamespaceIs

\* The graph of a run is one that the parser accepts.
LEMMA GraphIs ==
  ASSUME graph \in Graphs
  PROVE  Graph(graph)
  BY GraphsAssumption DEF Graph

\* The requested modules are a list of modules.
LEMMA RequestedTypes ==
  ASSUME graph \in Graphs, NEW m \in ModuleIds
  PROVE  graph[m].requested \in Seq(ModuleIds)
  BY GraphIs, EntryTypes DEF Parsed

-----------------------------------------------------------------------------
(* The calls on the stack.                                                   *)

On(s, fns) == {s[k].module : k \in {j \in 1 .. Len(s) : s[j].fn \in fns}}

\* A module is on the stack if one of the calls is its.
LEMMA OnIs ==
  ASSUME NEW s, NEW fns, NEW m
  PROVE  m \in On(s, fns) <=> \E k \in 1 .. Len(s) : s[k].fn \in fns /\ s[k].module = m
  BY DEF On

\* A call that evaluates a module has set its flag, the body has not run, and
\* those that the walk has passed have their flags.
CallFine(g, c, ev, rn) ==
  c.fn = "evaluate" =>
    /\ c.module \in ev /\ c.module \notin ToSet(rn)
    /\ \A j \in 1 .. Len(g[c.module].requested) : j < c.next => g[c.module].requested[j] \in ev

\* The calls of evaluation: a module with its flag has run, has failed, or is
\* being evaluated, by one call.
Walks(g, s, ev, rn, fl) ==
  /\ s \in Seq(Calls)
  /\ rn \in Seq(ModuleIds) /\ ToSet(rn) \subseteq ev
  /\ \A k \in 1 .. Len(s) : CallFine(g, s[k], ev, rn)
  /\ \A k, l \in 1 .. Len(s) :
        s[k].fn = "evaluate" /\ s[l].fn = "evaluate" /\ s[k].module = s[l].module => k = l
  /\ ev \subseteq ToSet(rn) \cup fl \cup On(s, {"evaluate"})

\* A call of another kind is made.
LEMMA PushOther ==
  ASSUME NEW g, NEW s, NEW ev, NEW rn, NEW fl, Walks(g, s, ev, rn, fl),
         NEW c \in Calls, c.fn # "evaluate"
  PROVE  Walks(g, Append(s, c), ev, rn, fl)
  <1> DEFINE t == Append(s, c)
             n == Len(s)
  <1>1. s \in Seq(Calls)
    BY DEF Walks
  <1>2. /\ t \in Seq(Calls) /\ Len(t) = n + 1 /\ n \in Nat
        /\ \A k \in 1 .. n : t[k] = s[k]
        /\ t[n + 1] = c
    BY <1>1
  <1> HIDE DEF t, n
  <1>3. \A k \in 1 .. n + 1 : k \in 1 .. n \/ k = n + 1
    BY <1>2
  <1>4. \A k \in 1 .. n + 1 : CallFine(g, t[k], ev, rn)
    BY <1>2, <1>3 DEF Walks, CallFine, n
  <1>5. \A k, l \in 1 .. n + 1 :
          t[k].fn = "evaluate" /\ t[l].fn = "evaluate" /\ t[k].module = t[l].module => k = l
    BY <1>2, <1>3 DEF Walks, n
  <1>6. On(s, {"evaluate"}) \subseteq On(t, {"evaluate"})
    <2> SUFFICES ASSUME NEW m \in On(s, {"evaluate"}) PROVE m \in On(t, {"evaluate"})
      OBVIOUS
    <2>1. PICK k \in 1 .. n : s[k].fn \in {"evaluate"} /\ s[k].module = m
      BY OnIs DEF n
    <2>2. k \in 1 .. Len(t) /\ t[k] = s[k]
      BY <1>2
    <2> QED
      BY <2>1, <2>2, OnIs
  <1> QED
    BY <1>2, <1>4, <1>5, <1>6 DEF Walks, t

\* The evaluation of a module without the flag is entered.
LEMMA PushEvaluate ==
  ASSUME NEW g, NEW s, NEW ev, NEW rn, NEW fl, Walks(g, s, ev, rn, fl),
         NEW c \in Calls, c.fn = "evaluate", c.next = 1, c.module \notin ev
  PROVE  Walks(g, Append(s, c), ev \cup {c.module}, rn, fl)
  <1> DEFINE t == Append(s, c)
             n == Len(s)
             e2 == ev \cup {c.module}
  <1>1. s \in Seq(Calls)
    BY DEF Walks
  <1>2. /\ t \in Seq(Calls) /\ Len(t) = n + 1 /\ n \in Nat
        /\ \A k \in 1 .. n : t[k] = s[k]
        /\ t[n + 1] = c
    BY <1>1
  <1> HIDE DEF t, n
  <1>3. \A k \in 1 .. n + 1 : k \in 1 .. n \/ k = n + 1
    BY <1>2
  <1>n. CallFine(g, c, e2, rn)
    BY DEF Walks, CallFine
  <1>4. \A k \in 1 .. n + 1 : CallFine(g, t[k], e2, rn)
    <2>1. \A k \in 1 .. n : CallFine(g, s[k], e2, rn)
      BY DEF Walks, CallFine, n
    <2> HIDE DEF e2
    <2> QED
      BY <1>2, <1>3, <1>n, <2>1
  <1>5. \A k, l \in 1 .. n + 1 :
          t[k].fn = "evaluate" /\ t[l].fn = "evaluate" /\ t[k].module = t[l].module => k = l
    <2>1. \A k \in 1 .. n : s[k].fn = "evaluate" => s[k].module # c.module
      BY DEF Walks, CallFine, n
    <2>2. \A k, l \in 1 .. n :
            s[k].fn = "evaluate" /\ s[l].fn = "evaluate" /\ s[k].module = s[l].module => k = l
      BY DEF Walks, n
    <2> QED
      BY <1>2, <1>3, <2>1, <2>2
  <1>6. On(s, {"evaluate"}) \cup {c.module} \subseteq On(t, {"evaluate"})
    <2>1. ASSUME NEW m \in On(s, {"evaluate"}) PROVE m \in On(t, {"evaluate"})
      <3>1. PICK k \in 1 .. n : s[k].fn \in {"evaluate"} /\ s[k].module = m
        BY OnIs DEF n
      <3>2. k \in 1 .. Len(t) /\ t[k] = s[k]
        BY <1>2
      <3> QED
        BY <3>1, <3>2, OnIs
    <2>2. c.module \in On(t, {"evaluate"})
      <3>1. n + 1 \in 1 .. Len(t) /\ t[n + 1] = c
        BY <1>2
      <3> QED
        BY <3>1, OnIs
    <2> QED
      BY <2>1, <2>2
  <1> QED
    BY <1>2, <1>4, <1>5, <1>6 DEF Walks, t

\* A walk passes a module that has its flag.
LEMMA WalkOn ==
  ASSUME NEW g, NEW s, NEW ev, NEW rn, NEW fl, Walks(g, s, ev, rn, fl),
         NEW t \in Seq(Calls), Len(t) = Len(s), NEW i \in 1 .. Len(s),
         \A k \in 1 .. Len(s) : k # i => t[k] = s[k],
         t[i].fn = s[i].fn, t[i].module = s[i].module, t[i].next = s[i].next + 1,
         s[i].fn = "evaluate" => g[s[i].module].requested[s[i].next] \in ev
  PROVE  Walks(g, t, ev, rn, fl)
  <1> DEFINE n == Len(s)
  <1>1. \A k \in 1 .. n : s[k] \in Calls
    BY DEF Walks
  <1>2. s[i].next \in Nat
    BY <1>1 DEF Calls
  <1>3. CallFine(g, t[i], ev, rn)
    <2>1. CallFine(g, s[i], ev, rn)
      BY DEF Walks
    <2>2. \A j \in 1 .. Len(g[s[i].module].requested) : j < s[i].next + 1 => j < s[i].next \/ j = s[i].next
      BY <1>2
    <2> QED
      BY <2>1, <2>2 DEF CallFine
  <1>4. \A k \in 1 .. n : CallFine(g, t[k], ev, rn)
    BY <1>3 DEF Walks
  <1>5. \A k \in 1 .. n : t[k].fn = s[k].fn /\ t[k].module = s[k].module
    OBVIOUS
  <1>6. \A k, l \in 1 .. n :
          t[k].fn = "evaluate" /\ t[l].fn = "evaluate" /\ t[k].module = t[l].module => k = l
    BY <1>5 DEF Walks
  <1>7. On(s, {"evaluate"}) = On(t, {"evaluate"})
    BY <1>5 DEF On
  <1> QED
    BY <1>4, <1>6, <1>7 DEF Walks

\* A list without its last element.
LEMMA FrontIs ==
  ASSUME NEW T, NEW s \in Seq(T), s # <<>>
  PROVE  /\ Front(s) \in Seq(T) /\ Len(Front(s)) = Len(s) - 1 /\ Len(s) \in Nat /\ Len(s) > 0
         /\ \A k \in 1 .. Len(s) - 1 : Front(s)[k] = s[k]
  <1>1. Len(s) \in Nat /\ Len(s) > 0
    OBVIOUS
  <1> DEFINE n == Len(s) - 1
             u == SubSeq(s, 1, n)
  <1>2. n \in Nat /\ n <= Len(s)
    BY <1>1
  <1>3. Len(u) = n /\ u \in Seq(T) /\ \A k \in 1 .. n : u[k] = s[k]
    <2> HIDE DEF n
    <2> QED
      BY <1>2
  <1> HIDE DEF u
  <1>4. Front(s) = u
    BY DEF Front, u
  <1> QED
    BY <1>1, <1>3, <1>4

\* The top call is gone, and if it was an evaluation it has failed.
LEMMA Pop ==
  ASSUME NEW g, NEW s, NEW ev, NEW rn, NEW fl, Walks(g, s, ev, rn, fl), s # <<>>,
         NEW f2, fl \subseteq f2, s[Len(s)].fn = "evaluate" => s[Len(s)].module \in f2
  PROVE  Walks(g, Front(s), ev, rn, f2)
  <1> DEFINE t == Front(s)
             n == Len(s)
  <1>1. s \in Seq(Calls)
    BY DEF Walks
  <1>2. /\ t \in Seq(Calls) /\ Len(t) = n - 1 /\ n \in Nat /\ n > 0
        /\ \A k \in 1 .. n - 1 : t[k] = s[k]
    BY <1>1, FrontIs
  <1> HIDE DEF t, n
  <1>3. \A k \in 1 .. n - 1 : k \in 1 .. n
    BY <1>2
  <1>4. \A k \in 1 .. n - 1 : CallFine(g, t[k], ev, rn)
    BY <1>2, <1>3 DEF Walks, n
  <1>5. \A k, l \in 1 .. n - 1 :
          t[k].fn = "evaluate" /\ t[l].fn = "evaluate" /\ t[k].module = t[l].module => k = l
    BY <1>2, <1>3 DEF Walks, n
  <1>6. ASSUME NEW m \in On(s, {"evaluate"}), m \notin f2
        PROVE  m \in On(t, {"evaluate"})
    <2>1. PICK k \in 1 .. n : s[k].fn \in {"evaluate"} /\ s[k].module = m
      BY OnIs DEF n
    <2>2. k # n
      BY <1>6, <2>1 DEF n
    <2>3. k \in 1 .. n - 1
      BY <1>2, <2>2
    <2>4. k \in 1 .. Len(t) /\ t[k] = s[k]
      BY <1>2, <2>3
    <2> QED
      BY <2>1, <2>4, OnIs
  <1> QED
    BY <1>2, <1>4, <1>5, <1>6 DEF Walks, t

\* What has run, one more.
LEMMA RanMore ==
  ASSUME NEW rn \in Seq(ModuleIds), NEW m \in ModuleIds
  PROVE  Append(rn, m) \in Seq(ModuleIds) /\ ToSet(Append(rn, m)) = ToSet(rn) \cup {m} /\ Last(Append(rn, m)) = m
  BY DEF ToSet, Last

\* A body runs, once, when the evaluation it ends is the top call.
LEMMA PopToRun ==
  ASSUME NEW g, NEW s, NEW ev, NEW rn, NEW fl, Walks(g, s, ev, rn, fl), s # <<>>,
         s[Len(s)].fn = "evaluate"
  PROVE  Walks(g, Front(s), ev, Append(rn, s[Len(s)].module), fl)
  <1> DEFINE t == Front(s)
             n == Len(s)
             m == s[n].module
             r2 == Append(rn, m)
  <1>1. s \in Seq(Calls)
    BY DEF Walks
  <1>2. /\ t \in Seq(Calls) /\ Len(t) = n - 1 /\ n \in Nat /\ n > 0
        /\ \A k \in 1 .. n - 1 : t[k] = s[k]
    BY <1>1, FrontIs
  <1>m. n \in 1 .. n /\ m \in ModuleIds
    <2>1. n \in 1 .. n /\ s[n] \in Calls
      BY <1>1, <1>2
    <2> QED
      BY <2>1 DEF Calls
  <1>r. r2 \in Seq(ModuleIds) /\ ToSet(r2) = ToSet(rn) \cup {m}
    BY <1>m, RanMore DEF Walks
  <1> HIDE DEF t, n, m, r2
  <1>3. \A k \in 1 .. n - 1 : k \in 1 .. n /\ k # n
    BY <1>2
  <1>4. m \in ev
    BY <1>m DEF Walks, CallFine, n, m
  <1>5. \A k \in 1 .. n : s[k].fn = "evaluate" /\ s[k].module = m => k = n
    BY <1>m DEF Walks, n, m
  <1>6. \A k \in 1 .. n - 1 : CallFine(g, t[k], ev, r2)
    BY <1>2, <1>3, <1>5, <1>r DEF Walks, CallFine, n
  <1>7. \A k, l \in 1 .. n - 1 :
          t[k].fn = "evaluate" /\ t[l].fn = "evaluate" /\ t[k].module = t[l].module => k = l
    BY <1>2, <1>3 DEF Walks, n
  <1>8. ASSUME NEW o \in On(s, {"evaluate"}), o # m
        PROVE  o \in On(t, {"evaluate"})
    <2>1. PICK k \in 1 .. n : s[k].fn \in {"evaluate"} /\ s[k].module = o
      BY OnIs DEF n
    <2>2. k # n
      BY <1>8, <2>1 DEF m
    <2>3. k \in 1 .. n - 1
      BY <1>2, <2>2
    <2>4. k \in 1 .. Len(t) /\ t[k] = s[k]
      BY <1>2, <2>3
    <2> QED
      BY <2>1, <2>4, OnIs
  <1>9. ToSet(rn) \subseteq ev /\ ev \subseteq ToSet(rn) \cup fl \cup On(s, {"evaluate"})
    BY DEF Walks
  <1>10. ToSet(r2) \subseteq ev /\ ev \subseteq ToSet(r2) \cup fl \cup On(t, {"evaluate"})
    BY <1>4, <1>8, <1>9, <1>r
  <1> QED
    BY <1>2, <1>6, <1>7, <1>10, <1>r DEF Walks, t, r2, m, n

-----------------------------------------------------------------------------
(* Each body runs once, and in order.                                        *)

\* The calls of evaluation are as they should be, in one of the graphs.
WalkInv == graph \in Graphs /\ Walks(graph, stack, evaluated, ran, failed)

\* The walk of the top call goes on by one module.
LEMMA AdvancedIs ==
  ASSUME stack \in Seq(Calls), stack # <<>>
  PROVE  /\ Advanced \in Seq(Calls) /\ Len(Advanced) = Len(stack) /\ Len(stack) \in 1 .. Len(stack)
         /\ \A k \in 1 .. Len(stack) : k # Len(stack) => Advanced[k] = stack[k]
         /\ top \in Calls
         /\ Advanced[Len(stack)].fn = top.fn /\ Advanced[Len(stack)].module = top.module
         /\ Advanced[Len(stack)].next = top.next + 1
  <1> DEFINE f == Front(stack)
             n == Len(stack)
             a == [top EXCEPT !.next = top.next + 1]
             t == Append(f, a)
  <1>1. f \in Seq(Calls) /\ Len(f) = n - 1 /\ n \in Nat /\ n > 0 /\ \A k \in 1 .. n - 1 : f[k] = stack[k]
    BY FrontIs
  <1>2. top \in Calls
    BY <1>1 DEF top
  <1>3. a \in Calls /\ a.fn = top.fn /\ a.module = top.module /\ a.next = top.next + 1
    <2> DEFINE c == top
    <2>1. c \in Calls
      BY <1>2
    <2> HIDE DEF c
    <2>2. LET b == [c EXCEPT !.next = c.next + 1]
          IN  b \in Calls /\ b.fn = c.fn /\ b.module = c.module /\ b.next = c.next + 1
      BY <2>1 DEF Calls
    <2> QED
      BY <2>2 DEF c
  <1>4. Advanced = t
    BY DEF Advanced
  <1> HIDE DEF f, a
  <1>5. /\ t \in Seq(Calls) /\ Len(t) = Len(f) + 1
        /\ \A k \in 1 .. Len(f) : t[k] = f[k]
        /\ t[Len(f) + 1] = a
    BY <1>1, <1>3
  <1> HIDE DEF t, n
  <1>6. Len(t) = n /\ t[n] = a /\ \A k \in 1 .. n : k # n => t[k] = stack[k]
    <2>1. Len(f) + 1 = n
      BY <1>1
    <2>2. \A k \in 1 .. n : k # n => k \in 1 .. Len(f) /\ k \in 1 .. n - 1
      BY <1>1
    <2> QED
      BY <1>1, <1>5, <2>1, <2>2
  <1>7. n \in 1 .. n
    BY <1>1
  <1> QED
    BY <1>2, <1>3, <1>4, <1>5, <1>6, <1>7 DEF n

\* The module that a walk has come to is one of the host's.
LEMMA RequiredIsModule ==
  ASSUME graph \in Graphs, stack \in Seq(Calls), stack # <<>>, top.next <= Len(required)
  PROVE  required[top.next] \in ModuleIds /\ required \in Seq(ModuleIds)
  <1>1. top \in Calls
    BY AdvancedIs
  <1>2. top.module \in ModuleIds /\ top.next \in Nat \ {0}
    BY <1>1 DEF Calls
  <1>3. required \in Seq(ModuleIds)
    BY <1>2, RequestedTypes DEF required
  <1> HIDE DEF required
  <1>4. top.next \in 1 .. Len(required)
    BY <1>2, <1>3
  <1> QED
    BY <1>3, <1>4

\* A walk that comes to a module, and enters the instantiation of it or not.
LEMMA EnterInstantiateKeeps ==
  ASSUME WalkInv, stack # <<>>, NEW m \in ModuleIds, EnterInstantiate(m),
         top.fn # "evaluate", UNCHANGED <<graph, evaluated, ran, failed>>
  PROVE  WalkInv'
  <1> DEFINE t == Advanced
             c == Call("instantiate", m, 1)
  <1>1. graph \in Graphs /\ Walks(graph, stack, evaluated, ran, failed) /\ stack \in Seq(Calls)
    BY DEF WalkInv, Walks
  <1>2. /\ t \in Seq(Calls) /\ Len(t) = Len(stack) /\ Len(stack) \in 1 .. Len(stack)
        /\ \A k \in 1 .. Len(stack) : k # Len(stack) => t[k] = stack[k]
        /\ t[Len(stack)].fn = top.fn /\ t[Len(stack)].module = top.module
        /\ t[Len(stack)].next = top.next + 1
    BY <1>1, AdvancedIs
  <1>3. stack' = IF m \in env THEN t ELSE Append(t, c)
    BY DEF EnterInstantiate
  <1>4. c \in Calls /\ c.fn # "evaluate"
    BY DEF Call, Calls
  <1> HIDE DEF t, c
  <1>5. Walks(graph, t, evaluated, ran, failed)
    BY <1>1, <1>2, WalkOn DEF top
  <1>6. Walks(graph, Append(t, c), evaluated, ran, failed)
    BY <1>4, <1>5, PushOther
  <1>7. Walks(graph, stack', evaluated, ran, failed)
    BY <1>3, <1>5, <1>6
  <1> QED
    BY <1>1, <1>7 DEF WalkInv

\* A walk that comes to a module, and enters the evaluation of it or not.
LEMMA EnterEvaluateKeeps ==
  ASSUME WalkInv, stack # <<>>, NEW m \in ModuleIds, EnterEvaluate(m),
         top.fn = "evaluate" => m = required[top.next],
         UNCHANGED <<graph, ran, failed>>
  PROVE  WalkInv'
  <1> DEFINE t == Advanced
             c == Call("evaluate", m, 1)
             n == Len(stack)
             e2 == evaluated \cup {m}
  <1>1. graph \in Graphs /\ Walks(graph, stack, evaluated, ran, failed) /\ stack \in Seq(Calls)
    BY DEF WalkInv, Walks
  <1>2. /\ t \in Seq(Calls) /\ Len(t) = n /\ n \in 1 .. n
        /\ \A k \in 1 .. n : k # n => t[k] = stack[k]
        /\ t[n].fn = top.fn /\ t[n].module = top.module
        /\ t[n].next = top.next + 1
    BY <1>1, AdvancedIs
  <1>3. stack' = (IF m \in evaluated THEN t ELSE Append(t, c)) /\ evaluated' = e2
    BY DEF EnterEvaluate
  <1>4. c \in Calls /\ c.fn = "evaluate" /\ c.next = 1 /\ c.module = m
    BY DEF Call, Calls
  <1>5. top = stack[n]
    BY DEF top
  <1>6. required = graph[stack[n].module].requested
    BY DEF required, top
  <1> HIDE DEF t, c, n, required, e2, top
  <1>7. CASE m \in evaluated
    <2>1. Walks(graph, t, evaluated, ran, failed)
      BY <1>1, <1>2, <1>5, <1>6, <1>7, WalkOn DEF n
    <2>2. evaluated' = evaluated /\ stack' = t
      BY <1>3, <1>7 DEF e2
    <2> QED
      BY <1>1, <2>1, <2>2 DEF WalkInv
  <1>8. CASE m \notin evaluated
    <2> DEFINE s == Append(stack, c)
               u == Append(t, c)
    <2>1. Walks(graph, s, e2, ran, failed)
      BY <1>1, <1>4, <1>8, PushEvaluate DEF e2
    <2>2. /\ s \in Seq(Calls) /\ Len(s) = n + 1 /\ (\A k \in 1 .. n : s[k] = stack[k]) /\ s[n + 1] = c
      BY <1>1, <1>4 DEF n
    <2>3. /\ u \in Seq(Calls) /\ Len(u) = n + 1 /\ (\A k \in 1 .. n : u[k] = t[k]) /\ u[n + 1] = c
      BY <1>2, <1>4
    <2> HIDE DEF s, u
    <2>4. n \in 1 .. n + 1 /\ \A k \in 1 .. n + 1 : k \in 1 .. n \/ k = n + 1
      BY <1>2
    <2>5. \A k \in 1 .. Len(s) : k # n => u[k] = s[k]
      BY <1>2, <2>2, <2>3, <2>4
    <2>6. u[n].fn = s[n].fn /\ u[n].module = s[n].module /\ u[n].next = s[n].next + 1
      BY <1>2, <1>5, <2>2, <2>3
    <2>7. s[n].fn = "evaluate" => graph[s[n].module].requested[s[n].next] \in e2
      BY <1>2, <1>5, <1>6, <2>2 DEF e2
    <2>8. n \in 1 .. Len(s) /\ Len(u) = Len(s)
      BY <2>2, <2>3, <2>4
    <2>9. Walks(graph, u, e2, ran, failed)
      BY <2>1, <2>3, <2>5, <2>6, <2>7, <2>8, WalkOn
    <2>10. evaluated' = e2 /\ stack' = u
      BY <1>3, <1>8 DEF u
    <2> QED
      BY <1>1, <2>9, <2>10 DEF WalkInv
  <1> QED
    BY <1>7, <1>8

\* The top call returns or is thrown out of, and if it evaluates it has failed.
LEMMA PopKeeps ==
  ASSUME WalkInv, stack # <<>>, stack' = Front(stack), failed \subseteq failed',
         top.fn = "evaluate" => top.module \in failed', UNCHANGED <<graph, evaluated, ran>>
  PROVE  WalkInv'
  <1> DEFINE f2 == failed'
  <1>1. Walks(graph, stack, evaluated, ran, failed)
    BY DEF WalkInv
  <1>2. failed \subseteq f2 /\ (stack[Len(stack)].fn = "evaluate" => stack[Len(stack)].module \in f2)
    BY DEF top
  <1> HIDE DEF f2
  <1>3. Walks(graph, Front(stack), evaluated, ran, f2)
    BY <1>1, <1>2, Pop
  <1> QED
    BY <1>3 DEF WalkInv, f2

\* The invariant is kept by every step.
LEMMA WalkInvKept ==
  ASSUME WalkInv, [Next]_vars
  PROVE  WalkInv'
  <1>0. graph \in Graphs /\ Walks(graph, stack, evaluated, ran, failed) /\ stack \in Seq(Calls)
    BY DEF WalkInv, Walks
  <1>1. ASSUME NEW m \in ModuleIds, Import(m)
        PROVE  WalkInv'
    <2> DEFINE c == Call("import", m, 1)
    <2>1. c \in Calls /\ c.fn # "evaluate"
      BY DEF Call, Calls
    <2>2. stack' = Append(stack, c) /\ UNCHANGED <<graph, evaluated, ran, failed>>
      BY <1>1 DEF Import, modState, history
    <2> HIDE DEF c
    <2>3. Walks(graph, Append(stack, c), evaluated, ran, failed)
      BY <1>0, <2>1, PushOther
    <2> QED
      BY <1>0, <2>2, <2>3 DEF WalkInv
  <1>2. CASE ImportInstantiates
    <2>1. stack # <<>> /\ top.fn # "evaluate" /\ EnterInstantiate(top.module)
          /\ UNCHANGED <<graph, evaluated, ran, failed>>
      BY <1>2 DEF ImportInstantiates, Running, history
    <2>2. top.module \in ModuleIds
      <3>1. top \in Calls
        BY <1>0, <2>1, AdvancedIs
      <3> QED
        BY <3>1 DEF Calls
    <2> QED
      BY <2>1, <2>2, EnterInstantiateKeeps
  <1>3. CASE ImportEvaluates
    <2>1. stack # <<>> /\ top.fn # "evaluate" /\ EnterEvaluate(top.module)
          /\ UNCHANGED <<graph, ran, failed>>
      BY <1>3 DEF ImportEvaluates, Running, history
    <2>2. top.module \in ModuleIds
      <3>1. top \in Calls
        BY <1>0, <2>1, AdvancedIs
      <3> QED
        BY <3>1 DEF Calls
    <2> QED
      BY <2>1, <2>2, EnterEvaluateKeeps
  <1>4. CASE ImportReturns
    <2>1. stack # <<>> /\ top.fn # "evaluate" /\ stack' = Front(stack)
          /\ UNCHANGED <<graph, evaluated, ran, failed>>
      BY <1>4 DEF ImportReturns, Running, modState, history
    <2> QED
      BY <2>1, PopKeeps
  <1>5. CASE InstantiateRequired
    <2>1. stack # <<>> /\ top.fn # "evaluate" /\ top.next <= Len(required)
          /\ EnterInstantiate(required[top.next])
          /\ UNCHANGED <<graph, evaluated, ran, failed>>
      BY <1>5 DEF InstantiateRequired, Running, history
    <2>2. required[top.next] \in ModuleIds
      BY <1>0, <2>1, RequiredIsModule
    <2> QED
      BY <2>1, <2>2, EnterInstantiateKeeps
  <1>6. CASE InstantiateBindings
    <2>1. stack # <<>> /\ top.fn # "evaluate" /\ stack' = Front(stack)
          /\ UNCHANGED <<graph, evaluated, ran, failed>>
      BY <1>6 DEF InstantiateBindings, Running
    <2> QED
      BY <2>1, PopKeeps
  <1>7. CASE EvaluateRequired
    <2>1. stack # <<>> /\ top.next <= Len(required)
          /\ EnterEvaluate(required[top.next])
          /\ UNCHANGED <<graph, ran, failed>>
      BY <1>7 DEF EvaluateRequired, Running, history
    <2>2. required[top.next] \in ModuleIds
      BY <1>0, <2>1, RequiredIsModule
    <2> QED
      BY <2>1, <2>2, EnterEvaluateKeeps
  <1>8. CASE EvaluateBody
    <2>1. stack # <<>> /\ top.fn = "evaluate" /\ UNCHANGED <<graph, evaluated>>
      BY <1>8 DEF EvaluateBody, Running, modState
    <2>2. CASE top.module \in env
      <3> DEFINE c == Call("body", top.module, 1)
                 f == Front(stack)
                 r2 == Append(ran, top.module)
      <3>1. stack' = Append(f, c) /\ ran' = r2 /\ failed' = failed
        BY <1>8, <2>2 DEF EvaluateBody
      <3>2. c \in Calls /\ c.fn # "evaluate"
        <4>1. top \in Calls
          BY <1>0, <2>1, AdvancedIs
        <4>2. top.module \in ModuleIds
          BY <4>1 DEF Calls
        <4> QED
          BY <4>2 DEF Call, Calls
      <3>3. Walks(graph, f, evaluated, r2, failed)
        BY <1>0, <2>1, PopToRun DEF top
      <3> HIDE DEF c, f, r2
      <3>4. Walks(graph, Append(f, c), evaluated, r2, failed)
        BY <3>2, <3>3, PushOther
      <3> QED
        BY <1>0, <2>1, <3>1, <3>4 DEF WalkInv
    <2>3. CASE top.module \notin env
      <3>1. stack' = Front(stack) /\ ran' = ran /\ failed' = failed \cup {top.module}
        BY <1>8, <2>3 DEF EvaluateBody
      <3> QED
        BY <2>1, <3>1, PopKeeps
    <2> QED
      BY <2>2, <2>3
  <1>9. CASE BodyReturns
    <2>1. stack # <<>> /\ top.fn # "evaluate" /\ stack' = Front(stack)
          /\ UNCHANGED <<graph, evaluated, ran, failed>>
      BY <1>9 DEF BodyReturns, Running, modState, history
    <2> QED
      BY <2>1, PopKeeps
  <1>10. CASE Unwind
    <2>1. stack # <<>> /\ stack' = Front(stack) /\ UNCHANGED <<graph, evaluated, ran>>
          /\ failed' = IF top.fn \in {"evaluate", "body"} THEN failed \cup {top.module} ELSE failed
      BY <1>10 DEF Unwind, modState
    <2> QED
      BY <2>1, PopKeeps
  <1>11. CASE BodyThrows \/ BodyCatches \/ Reported \/ UNCHANGED vars
    <2>1. UNCHANGED <<graph, stack, evaluated, ran, failed>>
      BY <1>11 DEF BodyThrows, BodyCatches, Reported, vars, modState, history
    <2> QED
      BY <1>0, <2>1 DEF WalkInv
  <1> QED
    BY <1>1, <1>2, <1>3, <1>4, <1>5, <1>6, <1>7, <1>8, <1>9, <1>10, <1>11 DEF Next

\* In every graph the calls of evaluation are as they should be.
LEMMA WalkInvAlways == Spec => []WalkInv
  <1>1. Init => WalkInv
    <2> SUFFICES ASSUME Init PROVE WalkInv
      OBVIOUS
    <2>1. graph \in Graphs /\ evaluated = {} /\ stack = <<>> /\ ran = <<>> /\ failed = {}
      BY DEF Init
    <2>2. Walks(graph, <<>>, {}, <<>>, {})
      BY DEF Walks, ToSet, On
    <2> QED
      BY <2>1, <2>2 DEF WalkInv
  <1> QED
    BY <1>1, WalkInvKept, PTL DEF Spec

\* A body runs at most once, whoever imports the module and when, and only
\* after each module it requires has run, has failed, or is waiting for it, in
\* any graph, with any exceptions and with imports by bodies.
THEOREM BodiesAlwaysRunInOrder == Spec => BodiesRunInOrder
  <1> DEFINE Order ==
        ran' # ran =>
          LET m == Last(ran')
          IN  /\ m \notin ToSet(ran)
              /\ \A r \in ToSet(graph[m].requested) :
                    r \in ToSet(ran') \cup failed \cup OnStack({"evaluate", "body"})
  <1>1. ASSUME WalkInv, [Next]_vars
        PROVE  [Order]_vars
    <2> SUFFICES ASSUME ran' # ran PROVE Order
      OBVIOUS
    <2>1. EvaluateBody
      BY <1>1 DEF Next, Import, ImportInstantiates, ImportEvaluates, ImportReturns, InstantiateRequired,
                  InstantiateBindings, EvaluateRequired, BodyReturns, BodyThrows, BodyCatches, Unwind,
                  Reported, vars, history
    <2> DEFINE n == Len(stack)
               m == top.module
    <2>2. stack # <<>> /\ top.fn = "evaluate" /\ top.next > Len(required) /\ ran' = Append(ran, m)
      BY <2>1 DEF EvaluateBody, Running, WalkIsOver
    <2>3. /\ stack \in Seq(Calls) /\ n \in 1 .. n /\ top = stack[n] /\ top \in Calls
          /\ ran \in Seq(ModuleIds) /\ ToSet(ran) \subseteq evaluated
          /\ CallFine(graph, stack[n], evaluated, ran)
          /\ evaluated \subseteq ToSet(ran) \cup failed \cup On(stack, {"evaluate"})
      <3>1. Walks(graph, stack, evaluated, ran, failed) /\ stack \in Seq(Calls)
        BY <1>1 DEF WalkInv, Walks
      <3>2. n \in 1 .. n /\ top \in Calls
        BY <2>2, <3>1, AdvancedIs
      <3> QED
        BY <3>1, <3>2 DEF Walks, top
    <2>4. m \in ModuleIds /\ top.next \in Nat
      BY <2>3 DEF Calls
    <2>5. ToSet(ran') = ToSet(ran) \cup {m} /\ Last(ran') = m
      BY <2>2, <2>3, <2>4, RanMore
    <2>6. required = graph[m].requested /\ graph[m].requested \in Seq(ModuleIds)
      BY <1>1, <2>4, RequestedTypes DEF required, WalkInv
    <2>7. m \notin ToSet(ran) /\ \A j \in 1 .. Len(required) : required[j] \in evaluated
      BY <2>2, <2>3, <2>4, <2>6 DEF CallFine
    <2>8. On(stack, {"evaluate"}) \subseteq OnStack({"evaluate", "body"})
      BY DEF On, OnStack
    <2>9. ASSUME NEW r \in ToSet(graph[m].requested)
          PROVE  r \in ToSet(ran') \cup failed \cup OnStack({"evaluate", "body"})
      <3>1. PICK j \in 1 .. Len(required) : r = required[j]
        BY <2>6, <2>9 DEF ToSet
      <3>2. r \in evaluated
        BY <2>7, <3>1
      <3> QED
        BY <2>3, <2>5, <2>8, <3>2
    <2> QED
      BY <2>5, <2>7, <2>9
  <1>2. WalkInv /\ [Next]_vars => [Order]_vars
    BY <1>1
  <1> HIDE DEF Order
  <1>3. Spec => [][Order]_vars
    BY <1>2, WalkInvAlways, PTL DEF Spec
  <1> QED
    BY <1>3 DEF BodiesRunInOrder, Order

-----------------------------------------------------------------------------
(* Instantiation: what the calls on the stack are.                           *)

\* A module that is being instantiated waits for one that it requires.
StackFine(g, s) ==
  /\ s \in Seq(Calls)
  /\ \A k \in 1 .. Len(s) - 1 : s[k].fn = "instantiate" =>
        s[k + 1].fn = "instantiate" /\ s[k + 1].module \in ToSet(g[s[k].module].requested)

\* A call that is pushed keeps the order of the stack.
LEMMA PushFine ==
  ASSUME NEW g, NEW s, StackFine(g, s), NEW c \in Calls,
         s # <<>> /\ s[Len(s)].fn = "instantiate" =>
            c.fn = "instantiate" /\ c.module \in ToSet(g[s[Len(s)].module].requested)
  PROVE  /\ StackFine(g, Append(s, c))
         /\ \A F : On(s, F) \subseteq On(Append(s, c), F)
         /\ \A F : c.fn \in F => c.module \in On(Append(s, c), F)
         /\ Append(s, c) # <<>> /\ Append(s, c)[Len(Append(s, c))] = c
  <1> DEFINE t == Append(s, c)
             n == Len(s)
  <1>1. s \in Seq(Calls) /\ n \in Nat /\ (s # <<>> <=> n > 0)
    BY DEF StackFine
  <1>2. /\ t \in Seq(Calls) /\ Len(t) = n + 1 /\ (\A k \in 1 .. n : t[k] = s[k])
        /\ t[n + 1] = c /\ t # <<>> /\ n + 1 \in 1 .. Len(t)
    BY <1>1
  <1> HIDE DEF t
  <1>3. StackFine(g, t)
    <2> SUFFICES ASSUME NEW k \in 1 .. n, t[k].fn = "instantiate"
                 PROVE  t[k + 1].fn = "instantiate" /\ t[k + 1].module \in ToSet(g[t[k].module].requested)
      BY <1>1, <1>2 DEF StackFine
    <2>1. CASE k = n
      BY <1>1, <1>2, <2>1
    <2>2. CASE k # n
      <3>1. k \in 1 .. n - 1 /\ k + 1 \in 1 .. n
        BY <1>1, <2>2
      <3> QED
        BY <1>2, <3>1 DEF StackFine
    <2> QED
      BY <2>1, <2>2
  <1>4. ASSUME NEW F, NEW m \in On(s, F) PROVE m \in On(t, F)
    <2>1. PICK k \in 1 .. n : s[k].fn \in F /\ s[k].module = m
      BY OnIs
    <2>2. k \in 1 .. Len(t) /\ t[k] = s[k]
      BY <1>1, <1>2
    <2> QED
      BY <2>1, <2>2, OnIs
  <1>5. ASSUME NEW F, c.fn \in F PROVE c.module \in On(t, F)
    BY <1>2, <1>5, OnIs
  <1> QED
    BY <1>2, <1>3, <1>4, <1>5 DEF t

\* So does a call that is popped, and it was required by the one below if that
\* instantiates.
LEMMA PopFine ==
  ASSUME NEW g, NEW s, StackFine(g, s), s # <<>>
  PROVE  LET t == Front(s)
             c == s[Len(s)]
         IN  /\ StackFine(g, t) /\ c \in Calls
             /\ \A F : On(s, F) \subseteq On(t, F) \cup {c.module}
             /\ \A F : c.fn \notin F => On(s, F) \subseteq On(t, F)
             /\ t # <<>> /\ t[Len(t)].fn = "instantiate" =>
                    c.fn = "instantiate" /\ c.module \in ToSet(g[t[Len(t)].module].requested)
             /\ t # <<>> => t[Len(t)] \in Calls
  <1> DEFINE t == Front(s)
             n == Len(s)
             c == s[n]
  <1>1. s \in Seq(Calls)
    BY DEF StackFine
  <1>2. /\ t \in Seq(Calls) /\ Len(t) = n - 1 /\ n \in Nat /\ n > 0
        /\ \A k \in 1 .. n - 1 : t[k] = s[k]
    BY <1>1, FrontIs
  <1>3. c \in Calls /\ (t # <<>> => n - 1 \in 1 .. n - 1)
    BY <1>1, <1>2
  <1> HIDE DEF t
  <1>4. StackFine(g, t)
    <2> SUFFICES ASSUME NEW k \in 1 .. (n - 1) - 1, t[k].fn = "instantiate"
                 PROVE  t[k + 1].fn = "instantiate" /\ t[k + 1].module \in ToSet(g[t[k].module].requested)
      BY <1>2 DEF StackFine
    <2>1. k \in 1 .. n - 1 /\ k + 1 \in 1 .. n - 1
      BY <1>2
    <2> QED
      BY <1>2, <2>1 DEF StackFine
  <1>5. ASSUME NEW F, NEW m \in On(s, F) PROVE m \in On(t, F) \/ (c.fn \in F /\ c.module = m)
    <2>1. PICK k \in 1 .. n : s[k].fn \in F /\ s[k].module = m
      BY OnIs
    <2>2. CASE k = n
      BY <2>1, <2>2
    <2>3. CASE k # n
      <3>1. k \in 1 .. Len(t) /\ t[k] = s[k]
        BY <1>2, <2>3
      <3> QED
        BY <2>1, <3>1, OnIs
    <2> QED
      BY <2>2, <2>3
  <1>6. ASSUME t # <<>>, t[Len(t)].fn = "instantiate"
        PROVE  c.fn = "instantiate" /\ c.module \in ToSet(g[t[Len(t)].module].requested)
    <2>1. n - 1 \in 1 .. n - 1 /\ (n - 1) + 1 = n /\ t[n - 1] = s[n - 1] /\ Len(t) = n - 1
      BY <1>2, <1>3, <1>6
    <2> QED
      BY <1>6, <2>1 DEF StackFine
  <1>7. t # <<>> => t[Len(t)] \in Calls
    BY <1>2, <1>3
  <1> QED
    BY <1>3, <1>4, <1>5, <1>6, <1>7 DEF t

\* The walk goes on: the calls are the same.
LEMMA AdvancedFine ==
  ASSUME StackFine(graph, stack), stack # <<>>
  PROVE  /\ StackFine(graph, Advanced) /\ Advanced # <<>>
         /\ \A F : On(Advanced, F) = On(stack, F)
         /\ Advanced[Len(Advanced)].fn = top.fn /\ Advanced[Len(Advanced)].module = top.module
         /\ top \in Calls
  <1> DEFINE t == Advanced
             n == Len(stack)
  <1>1. stack \in Seq(Calls)
    BY DEF StackFine
  <1>2. /\ t \in Seq(Calls) /\ Len(t) = n /\ n \in 1 .. n
        /\ \A k \in 1 .. n : k # n => t[k] = stack[k]
        /\ t[n].fn = top.fn /\ t[n].module = top.module /\ top \in Calls
    BY <1>1, AdvancedIs
  <1>3. top = stack[n]
    BY DEF top
  <1> HIDE DEF t, top
  <1>4. \A k \in 1 .. n : t[k].fn = stack[k].fn /\ t[k].module = stack[k].module
    BY <1>2, <1>3
  <1>5. StackFine(graph, t)
    <2> SUFFICES ASSUME NEW k \in 1 .. n - 1, t[k].fn = "instantiate"
                 PROVE  t[k + 1].fn = "instantiate" /\ t[k + 1].module \in ToSet(graph[t[k].module].requested)
      BY <1>2 DEF StackFine
    <2>1. k \in 1 .. n /\ k + 1 \in 1 .. n
      BY <1>2
    <2> QED
      BY <1>4, <2>1 DEF StackFine
  <1>6. ASSUME NEW F PROVE On(t, F) = On(stack, F)
    <2>1. \A m : m \in On(t, F) <=> \E k \in 1 .. n : stack[k].fn \in F /\ stack[k].module = m
      BY <1>2, <1>4, OnIs
    <2>2. \A m : m \in On(stack, F) <=> \E k \in 1 .. n : stack[k].fn \in F /\ stack[k].module = m
      BY OnIs
    <2> QED
      BY <2>1, <2>2
  <1>7. t # <<>>
    BY <1>2
  <1> QED
    BY <1>2, <1>5, <1>6, <1>7 DEF t

-----------------------------------------------------------------------------
(* What is bound, what is complete, and why instantiation fails.             *)

Inst == {"instantiate"}
Completed(m) ==
  /\ m \in declared /\ Len(bound[m]) = Len(graph[m].imports)
  /\ \A e \in ToSet(graph[m].indirect) :
        \E b \in Candidates(graph, m, e.exported) : MayMean(graph, m, e.exported, b)

\* What is bound is what is meant, and what is there of namespaces is exact.
BindingsFine ==
  /\ DOMAIN bound = ModuleIds /\ bound = [m \in ModuleIds |-> bound[m]]
  /\ ImportsMeanOneThing
  /\ \A m \in ModuleIds : spaces[m] = None \/ Exact(graph, m, spaces[m])
\* Instantiation that has thrown, or will, has a reason.
FailuresFine ==
  /\ \A m \in broken : Doomed(graph, m)
  /\ thrown # None /\ stack # <<>> /\ top.fn = "instantiate" => Doomed(graph, top.module)

\* The inductive invariant: a module whose instantiation is over and has not
\* thrown is complete, what is bound is what is meant, and failures have a reason.
ModInv ==
  /\ graph \in Graphs /\ env \subseteq ModuleIds /\ StackFine(graph, stack) /\ BindingsFine
  /\ \A m \in env \ (On(stack, Inst) \cup broken) : crashed \/ Completed(m)
  /\ FailuresFine

\* A step that binds nothing.
LEMMA QuietStep ==
  ASSUME ModInv, UNCHANGED <<graph, bound, spaces, declared, crashed>>,
         NEW s, s = stack', StackFine(graph, s), env' \subseteq ModuleIds,
         env' \ (On(s, Inst) \cup broken') \subseteq env \ (On(stack, Inst) \cup broken),
         \A m \in broken' : Doomed(graph, m),
         thrown' # None /\ s # <<>> /\ s[Len(s)].fn = "instantiate" => Doomed(graph, s[Len(s)].module)
  PROVE  ModInv'
  <1>1. BindingsFine'
    BY DEF ModInv, BindingsFine, ImportsMeanOneThing
  <1>2. FailuresFine'
    BY DEF FailuresFine, top
  <1>3. \A m : Completed(m)' <=> Completed(m)
    BY DEF Completed
  <1>4. \A m \in env' \ (On(s, Inst) \cup broken') : crashed' \/ Completed(m)'
    BY <1>3 DEF ModInv
  <1> QED
    BY <1>1, <1>2, <1>4 DEF ModInv

\* What the innermost call is.
LEMMA TopIs ==
  ASSUME ModInv, stack # <<>>
  PROVE  /\ top \in Calls /\ top.module \in ModuleIds /\ top.next \in Nat \ {0} /\ top = stack[Len(stack)]
         /\ graph[top.module].requested \in Seq(ModuleIds) /\ required = graph[top.module].requested
         /\ Graph(graph) /\ stack \in Seq(Calls) /\ StackFine(graph, stack)
  <1>1. StackFine(graph, stack) /\ stack \in Seq(Calls) /\ Graph(graph)
    BY GraphIs DEF ModInv, StackFine
  <1>2. top \in Calls
    BY <1>1, AdvancedIs
  <1>3. top.module \in ModuleIds /\ top.next \in Nat \ {0}
    BY <1>2 DEF Calls
  <1>4. graph[top.module].requested \in Seq(ModuleIds)
    BY <1>3, RequestedTypes DEF ModInv
  <1>5. top = stack[Len(stack)]
    BY DEF top
  <1>6. required = graph[top.module].requested
    BY DEF required
  <1> QED
    BY <1>1, <1>2, <1>3, <1>4, <1>5, <1>6

\* The instantiation of a module is entered, or not.
LEMMA EnterInstantiateFine ==
  ASSUME ModInv, stack # <<>>, thrown = None, NEW m \in ModuleIds, EnterInstantiate(m),
         top.fn = "instantiate" => m \in ToSet(graph[top.module].requested),
         UNCHANGED <<graph, bound, spaces, declared, thrown, crashed, broken>>
  PROVE  ModInv'
  <1> DEFINE t == Advanced
             c == Call("instantiate", m, 1)
             s == stack'
  <1>1. /\ StackFine(graph, t) /\ t # <<>> /\ On(t, Inst) = On(stack, Inst)
        /\ t[Len(t)].fn = top.fn /\ t[Len(t)].module = top.module
    BY TopIs, AdvancedFine
  <1>2. s = (IF m \in env THEN t ELSE Append(t, c)) /\ env' = env \cup {m}
    BY DEF EnterInstantiate
  <1>3. c \in Calls /\ c.fn = "instantiate" /\ c.module = m /\ c.fn \in Inst
    BY DEF Call, Calls, Inst
  <1> HIDE DEF t, c, s
  <1>4. StackFine(graph, Append(t, c)) /\ On(t, Inst) \subseteq On(Append(t, c), Inst) /\ m \in On(Append(t, c), Inst)
    BY <1>1, <1>3, PushFine
  <1>5. StackFine(graph, s)
    BY <1>1, <1>2, <1>4
  <1>6. env' \ (On(s, Inst) \cup broken') \subseteq env \ (On(stack, Inst) \cup broken)
    BY <1>1, <1>2, <1>4
  <1>7. \A o \in broken' : Doomed(graph, o)
    BY DEF ModInv, FailuresFine
  <1>8. env' \subseteq ModuleIds
    BY <1>2 DEF ModInv
  <1> QED
    BY <1>5, <1>6, <1>7, <1>8, QuietStep DEF s

\* The evaluation of a module is entered, or not.
LEMMA EnterEvaluateFine ==
  ASSUME ModInv, stack # <<>>, thrown = None, NEW m \in ModuleIds, EnterEvaluate(m), top.fn # "instantiate",
         UNCHANGED <<graph, env, bound, spaces, declared, thrown, crashed, broken>>
  PROVE  ModInv'
  <1> DEFINE t == Advanced
             c == Call("evaluate", m, 1)
             s == stack'
  <1>1. /\ StackFine(graph, t) /\ t # <<>> /\ On(t, Inst) = On(stack, Inst)
        /\ t[Len(t)].fn = top.fn
    BY TopIs, AdvancedFine
  <1>2. s = (IF m \in evaluated THEN t ELSE Append(t, c))
    BY DEF EnterEvaluate
  <1>3. c \in Calls
    BY DEF Call, Calls
  <1> HIDE DEF t, c, s
  <1>4. StackFine(graph, Append(t, c)) /\ On(t, Inst) \subseteq On(Append(t, c), Inst)
    BY <1>1, <1>3, PushFine
  <1>5. StackFine(graph, s)
    BY <1>1, <1>2, <1>4
  <1>6. env' \ (On(s, Inst) \cup broken') \subseteq env \ (On(stack, Inst) \cup broken)
    BY <1>1, <1>2, <1>4
  <1>7. \A o \in broken' : Doomed(graph, o)
    BY DEF ModInv, FailuresFine
  <1>8. env' \subseteq ModuleIds
    BY DEF ModInv
  <1> QED
    BY <1>5, <1>6, <1>7, <1>8, QuietStep DEF s

\* A call that does not instantiate ends.
LEMMA PopOtherFine ==
  ASSUME ModInv, stack # <<>>, top.fn # "instantiate", stack' = Front(stack),
         UNCHANGED <<graph, env, bound, spaces, declared, crashed, broken>>
  PROVE  ModInv'
  <1> DEFINE t == Front(stack)
  <1>1. /\ StackFine(graph, t) /\ On(stack, Inst) \subseteq On(t, Inst)
        /\ t # <<>> => t[Len(t)].fn # "instantiate"
    BY TopIs, PopFine DEF Inst
  <1> HIDE DEF t
  <1>2. t = stack'
    BY DEF t
  <1>3. \A o \in broken' : Doomed(graph, o)
    BY DEF ModInv, FailuresFine
  <1>4. env' \subseteq ModuleIds /\ env' \ (On(t, Inst) \cup broken') \subseteq env \ (On(stack, Inst) \cup broken)
    BY <1>1 DEF ModInv
  <1> QED
    BY <1>1, <1>2, <1>3, <1>4, QuietStep

\* An exception leaves a call.
LEMMA UnwindFine ==
  ASSUME ModInv, Unwind
  PROVE  ModInv'
  <1> DEFINE t == Front(stack)
  <1>1. /\ stack # <<>> /\ thrown # None /\ stack' = t
        /\ broken' = (IF top.fn = "instantiate" THEN broken \cup {top.module} ELSE broken)
        /\ UNCHANGED <<graph, env, bound, spaces, declared, crashed>>
    BY DEF Unwind, modState
  <1>2. CASE top.fn # "instantiate"
    BY <1>1, <1>2, PopOtherFine
  <1>3. CASE top.fn = "instantiate"
    <2>1. Doomed(graph, top.module) /\ top = stack[Len(stack)] /\ Graph(graph)
      BY <1>1, <1>3, TopIs DEF ModInv, FailuresFine
    <2>2. /\ StackFine(graph, t) /\ On(stack, Inst) \subseteq On(t, Inst) \cup {top.module}
          /\ t # <<>> /\ t[Len(t)].fn = "instantiate" => top.module \in ToSet(graph[t[Len(t)].module].requested)
          /\ t # <<>> => t[Len(t)] \in Calls
      BY <1>1, TopIs, PopFine
    <2> HIDE DEF t
    <2>3. t # <<>> /\ t[Len(t)].fn = "instantiate" => Doomed(graph, t[Len(t)].module)
      <3> SUFFICES ASSUME t # <<>>, t[Len(t)].fn = "instantiate" PROVE Doomed(graph, t[Len(t)].module)
        OBVIOUS
      <3>1. t[Len(t)].module \in ModuleIds
        BY <2>2 DEF Calls
      <3> QED
        BY <2>1, <2>2, <3>1, DoomSpreads
    <2>4. \A o \in broken' : Doomed(graph, o)
      BY <1>1, <2>1 DEF ModInv, FailuresFine
    <2>5. env' \subseteq ModuleIds /\ env' \ (On(t, Inst) \cup broken') \subseteq env \ (On(stack, Inst) \cup broken)
      BY <1>1, <1>3, <2>2 DEF ModInv
    <2> QED
      BY <1>1, <2>2, <2>3, <2>4, <2>5, QuietStep
  <1> QED
    BY <1>2, <1>3

\* What Bind does: it binds the entries before the first that cannot be bound.
MeantBy(m) == [k \in 1 .. Len(graph[m].imports) |-> Meant(graph[m].imports[k])]
GoodEntry(m, k) == MeantBy(m)[k] \notin NoBinding /\ HasEnvironment(graph[m].imports[k], MeantBy(m)[k])
Full(m, d) == ~BadExport(m) /\ d = Len(graph[m].imports)
Fails(m, d) == BadExport(m) \/ (~Full(m, d) /\ MeantBy(m)[d + 1] \in NoBinding)
BindsTo(m, d) ==
  /\ d \in 0 .. Len(graph[m].imports)
  /\ \A j \in 1 .. d : GoodEntry(m, j)
  /\ bound' = [bound EXCEPT ![m] = SubSeq(MeantBy(m), 1, d)]
  /\ spaces' = [o \in ModuleIds |->
        IF spaces[o] = None /\ (\E k \in 1 .. d : graph[m].imports[k] = StarOf(o))
        THEN Namespace(graph, o) ELSE spaces[o]]
  /\ declared' = IF Full(m, d) THEN declared \cup {m} ELSE declared
  /\ thrown' = IF Fails(m, d) THEN SyntaxError ELSE None
  /\ broken' = IF Fails(m, d) THEN broken \cup {m} ELSE broken
  /\ crashed' = (~Full(m, d) /\ ~Fails(m, d))

\* The import entries of a module name modules that it requires.
LEMMA ImportTypes ==
  ASSUME NEW g, Graph(g), NEW m \in ModuleIds
  PROVE  /\ Len(g[m].imports) \in Nat
         /\ \A k \in 1 .. Len(g[m].imports) :
                /\ g[m].imports[k] \in ToSet(g[m].imports)
                /\ g[m].imports[k].from \in ModuleIds /\ g[m].imports[k].name \in ExportNames \cup {Star}
                /\ g[m].imports[k].from \in ToSet(g[m].requested)
  <1> DEFINE s == g[m].imports
             I == [from: ModuleIds, name: ExportNames \cup {Star}]
  <1>1. s \in Seq(I)
    BY EntryTypes DEF Parsed
  <1>2. {i.from : i \in ToSet(s)} \subseteq ToSet(g[m].requested)
    BY DEF Graph, Accepted
  <1> HIDE DEF s, I
  <1>3. Len(s) \in Nat /\ \A k \in 1 .. Len(s) : s[k] \in ToSet(s) /\ s[k] \in I
    BY <1>1 DEF ToSet
  <1>4. \A k \in 1 .. Len(s) : s[k].from \in ToSet(g[m].requested)
    BY <1>2, <1>3
  <1> QED
    BY <1>3, <1>4 DEF s, I

\* Binding stops at the first entry that cannot be bound.
LEMMA BindIs ==
  ASSUME graph \in Graphs, NEW m \in ModuleIds, Bind(m)
  PROVE  \E d \in Nat : BindsTo(m, d)
  <1> DEFINE N == Len(graph[m].imports)
             Good(k) == GoodEntry(m, k)
             Stops(k) == (\A j \in 1 .. k : Good(j)) /\ (k = N \/ ~Good(k + 1))
             d == IF BadExport(m) THEN 0 ELSE CHOOSE k \in 0 .. N : Stops(k)
  <1>1. N \in Nat
    BY GraphIs, ImportTypes
  <1>2. \E k \in 0 .. N : Stops(k)
    <2> HIDE DEF N
    <2> DEFINE W == {k \in 0 .. N : k = N \/ ~Good(k + 1)}
    <2>1. N \in W /\ W \in SUBSET Nat
      BY <1>1
    <2>2. PICK k \in W : \A j \in W : k <= j
      BY <2>1, LeastNumber
    <2>3. ASSUME NEW j \in 1 .. k PROVE Good(j)
      <3>1. j - 1 \in 0 .. N /\ j - 1 < k /\ k <= N /\ (j - 1) + 1 = j /\ j - 1 # N
        BY <1>1, <2>2
      <3> HIDE DEF Good
      <3>2. j - 1 \notin W
        <4> HIDE DEF W
        <4>1. \A i \in W : i \in Nat /\ k <= i /\ k \in Nat
          BY <2>1, <2>2
        <4> QED
          BY <3>1, <4>1
      <3> QED
        BY <3>1, <3>2
    <2> HIDE DEF Good
    <2> QED
      BY <2>2, <2>3
  <1>3. d \in 0 .. N /\ (\A j \in 1 .. d : Good(j)) /\ d \in Nat
    <2> HIDE DEF N, Stops, Good
    <2>1. CASE BadExport(m)
      BY <1>1, <2>1
    <2>2. CASE ~BadExport(m)
      <3>1. d \in 0 .. N /\ Stops(d)
        BY <1>2, <2>2
      <3> QED
        BY <1>1, <3>1 DEF Stops
    <2> QED
      BY <2>1, <2>2
  <1>4. BindsTo(m, d)
    <2> DEFINE e == d
    <2>1. d = IF BadExport(m) THEN 0
              ELSE CHOOSE k \in 0 .. Len(graph[m].imports) :
                    /\ \A j \in 1 .. k : GoodEntry(m, j)
                    /\ k = Len(graph[m].imports) \/ ~GoodEntry(m, k + 1)
      OBVIOUS
    <2>2. Bind(m) <=>
            /\ bound' = [bound EXCEPT ![m] = SubSeq(MeantBy(m), 1, d)]
            /\ spaces' = [o \in ModuleIds |->
                  IF spaces[o] = None /\ (\E k \in 1 .. d : graph[m].imports[k] = StarOf(o))
                  THEN Namespace(graph, o) ELSE spaces[o]]
            /\ declared' = IF Full(m, d) THEN declared \cup {m} ELSE declared
            /\ thrown' = IF Fails(m, d) THEN SyntaxError ELSE None
            /\ broken' = IF Fails(m, d) THEN broken \cup {m} ELSE broken
            /\ crashed' = (~Full(m, d) /\ ~Fails(m, d))
      BY DEF Bind, GoodEntry, MeantBy, Full, Fails
    <2> HIDE DEF d
    <2> QED
      BY <1>3, <2>2 DEF BindsTo
  <1> QED
    BY <1>3, <1>4

\* An entry without a binding, for whatever it asks.
LEMMA BadEntry ==
  ASSUME ModInv, NEW m \in ModuleIds, NEW k \in 1 .. Len(graph[m].imports)
  PROVE  LET i == graph[m].imports[k]
         IN  /\ Meant(i) \in NoBinding => Doomed(graph, m)
             /\ Meant(i) \notin NoBinding /\ i.name # Star => MayMean(graph, i.from, i.name, Meant(i))
             /\ i.name = Star /\ spaces[i.from] = None /\ Meant(i) \notin NoBinding =>
                    Exact(graph, i.from, Namespace(graph, i.from))
  <1> DEFINE i == graph[m].imports[k]
             o == i.from
  <1>1. Graph(graph) /\ graph \in Graphs
    BY GraphIs DEF ModInv
  <1>2. o \in ModuleIds /\ i.name \in ExportNames \cup {Star} /\ i \in ToSet(graph[m].imports)
        /\ o \in ToSet(graph[m].requested)
    BY <1>1, ImportTypes
  <1> HIDE DEF i, o
  <1>3. CASE i.name # Star
    <2>1. Meant(i) = Resolve(graph, o, i.name) /\ i.name \in ExportNames
      BY <1>2, <1>3 DEF Meant, o
    <2>3. Meant(i) \in NoBinding => Doomed(graph, m)
      BY <1>1, <1>2, <1>3, <2>1, BadImport DEF o
    <2>4. Meant(i) \notin NoBinding => MayMean(graph, o, i.name, Meant(i))
      BY <1>1, <1>2, <2>1, ResolvesRight
    <2> QED
      BY <1>3, <2>3, <2>4 DEF i, o
  <1>4. CASE i.name = Star
    <2>1. Meant(i) = IF spaces[o] # None THEN spaces[o] ELSE Namespace(graph, o)
      BY <1>4 DEF Meant, o
    <2>2. spaces[o] = None \/ Exact(graph, o, spaces[o])
      BY <1>2 DEF ModInv, BindingsFine
    <2>3. Namespace(graph, o) = Null \/ Exact(graph, o, Namespace(graph, o))
      BY <1>1, <1>2, NamespaceIs
    <2>4. \A ns : Exact(graph, o, ns) => ns \notin NoBinding
      BY NamesAssumption DEF Exact
    <2>5. Meant(i) \in NoBinding => Namespace(graph, o) = Null
      BY <2>1, <2>2, <2>3, <2>4
    <2>6. Namespace(graph, o) = Null => Doomed(graph, m)
      BY <1>1, <1>2, <1>4, BadNamespace DEF o
    <2>7. spaces[o] = None /\ Meant(i) \notin NoBinding => Exact(graph, o, Namespace(graph, o))
      BY <2>1, <2>3 DEF NoBinding
    <2> QED
      BY <1>4, <2>5, <2>6, <2>7 DEF i, o
  <1> QED
    BY <1>3, <1>4

\* A module is bound, or its instantiation fails.
LEMMA BindFine ==
  ASSUME ModInv, InstantiateBindings
  PROVE  ModInv'
  <1> DEFINE m == top.module
             N == Len(graph[m].imports)
             t == Front(stack)
  <1>1. /\ stack # <<>> /\ thrown = None /\ ~crashed /\ top.fn = "instantiate" /\ Bind(m) /\ stack' = t
        /\ UNCHANGED <<graph, env>>
    BY DEF InstantiateBindings, Running
  <1>2. m \in ModuleIds /\ top = stack[Len(stack)] /\ graph \in Graphs /\ Graph(graph)
    BY <1>1, TopIs DEF ModInv
  <1>3. /\ StackFine(graph, t) /\ On(stack, Inst) \subseteq On(t, Inst) \cup {m}
        /\ t # <<>> /\ t[Len(t)].fn = "instantiate" => m \in ToSet(graph[t[Len(t)].module].requested)
        /\ t # <<>> => t[Len(t)] \in Calls
    BY <1>1, <1>2, TopIs, PopFine
  <1>4. PICK d \in Nat : BindsTo(m, d)
    BY <1>1, <1>2, BindIs
  <1>5. N \in Nat /\ d \in 0 .. N
    BY <1>2, <1>4, ImportTypes DEF BindsTo
  <1> HIDE DEF m, t
  <1> DEFINE b == SubSeq(MeantBy(m), 1, d)
  <1>6. Len(b) = d /\ \A k \in 1 .. d : b[k] = Meant(graph[m].imports[k]) /\ k \in 1 .. N /\ Meant(graph[m].imports[k]) \notin NoBinding
    <2>1. \A k \in 1 .. N : MeantBy(m)[k] = Meant(graph[m].imports[k])
      BY DEF MeantBy
    <2>2. Len(b) = d /\ \A k \in 1 .. d : b[k] = MeantBy(m)[k]
      <3> DEFINE s == MeantBy(m)
      <3>1. s \in Seq({Meant(graph[m].imports[k]) : k \in 1 .. N}) /\ Len(s) = N
        BY <1>5 DEF MeantBy
      <3> HIDE DEF s
      <3> QED
        BY <1>5, <3>1 DEF s
    <2>3. \A k \in 1 .. d : k \in 1 .. N /\ MeantBy(m)[k] \notin NoBinding
      BY <1>4, <1>5 DEF BindsTo, GoodEntry
    <2> HIDE DEF b
    <2> QED
      BY <2>1, <2>2, <2>3
  <1> HIDE DEF b, N
  <1>7. Fails(m, d) => Doomed(graph, m)
    <2>1. CASE BadExport(m)
      BY <1>2, <2>1, BadForward DEF BadExport
    <2>2. CASE ~Full(m, d) /\ ~BadExport(m) /\ MeantBy(m)[d + 1] \in NoBinding
      <3>1. d + 1 \in 1 .. N
        BY <1>5, <2>2 DEF Full, N
      <3>2. Meant(graph[m].imports[d + 1]) \in NoBinding
        BY <2>2, <3>1 DEF MeantBy, N
      <3> QED
        BY <1>2, <3>1, <3>2, BadEntry DEF N
    <2> QED
      BY <2>1, <2>2 DEF Fails
  <1>8. BindingsFine'
    <2>1. bound' = [bound EXCEPT ![m] = b] /\ DOMAIN bound = ModuleIds /\ bound = [o \in ModuleIds |-> bound[o]]
      BY <1>4 DEF BindsTo, b, ModInv, BindingsFine
    <2>2. DOMAIN bound' = ModuleIds /\ bound' = [o \in ModuleIds |-> bound'[o]]
      BY <2>1
    <2>3. bound'[m] = b /\ \A o \in ModuleIds : o # m => bound'[o] = bound[o]
      BY <1>2, <2>1
    <2>4. ImportsMeanOneThing'
      <3> SUFFICES ASSUME NEW o \in ModuleIds, NEW k \in 1 .. Len(bound'[o]), graph[o].imports[k].name # Star
                   PROVE  MayMean(graph, graph[o].imports[k].from, graph[o].imports[k].name, bound'[o][k])
        BY <1>1 DEF ImportsMeanOneThing
      <3>1. CASE o = m
        BY <1>2, <1>6, <2>3, <3>1, BadEntry DEF N
      <3>2. CASE o # m
        <4>1. ImportsMeanOneThing /\ k \in 1 .. Len(bound[o])
          BY <2>3, <3>2 DEF ModInv, BindingsFine
        <4> QED
          BY <2>3, <3>2, <4>1 DEF ImportsMeanOneThing
      <3> QED
        BY <3>1, <3>2
    <2>5. \A o \in ModuleIds : spaces'[o] = None \/ Exact(graph, o, spaces'[o])
      <3> TAKE o \in ModuleIds
      <3>1. spaces'[o] = IF spaces[o] = None /\ (\E k \in 1 .. d : graph[m].imports[k] = StarOf(o))
                         THEN Namespace(graph, o) ELSE spaces[o]
        BY <1>4 DEF BindsTo
      <3>2. CASE spaces[o] = None /\ \E k \in 1 .. d : graph[m].imports[k] = StarOf(o)
        <4>1. PICK k \in 1 .. d : graph[m].imports[k] = StarOf(o)
          BY <3>2
        <4>2. graph[m].imports[k].from = o /\ graph[m].imports[k].name = Star
          BY <4>1 DEF StarOf
        <4>3. Exact(graph, o, Namespace(graph, o))
          BY <1>2, <1>6, <3>2, <4>2, BadEntry DEF N
        <4> QED
          BY <3>1, <3>2, <4>3
      <3>3. CASE ~(spaces[o] = None /\ \E k \in 1 .. d : graph[m].imports[k] = StarOf(o))
        BY <3>1, <3>3 DEF ModInv, BindingsFine
      <3> QED
        BY <3>2, <3>3
    <2> QED
      BY <1>1, <2>2, <2>4, <2>5 DEF BindingsFine
  <1>9. FailuresFine'
    <2>1. thrown' = (IF Fails(m, d) THEN SyntaxError ELSE None) /\ broken' = IF Fails(m, d) THEN broken \cup {m} ELSE broken
      BY <1>4 DEF BindsTo
    <2>2. \A o \in broken' : Doomed(graph, o)
      BY <1>7, <2>1 DEF ModInv, FailuresFine
    <2>3. thrown' # None /\ t # <<>> /\ t[Len(t)].fn = "instantiate" => Doomed(graph, t[Len(t)].module)
      <3> SUFFICES ASSUME thrown' # None, t # <<>>, t[Len(t)].fn = "instantiate"
                   PROVE  Doomed(graph, t[Len(t)].module)
        OBVIOUS
      <3>1. t[Len(t)].module \in ModuleIds /\ m \in ToSet(graph[t[Len(t)].module].requested)
        BY <1>3 DEF Calls
      <3>2. Doomed(graph, m)
        BY <1>7, <2>1
      <3> QED
        BY <1>2, <3>1, <3>2, DoomSpreads
    <2> QED
      BY <1>1, <2>2, <2>3 DEF FailuresFine, top
  <1>10. \A o \in env' \ (On(stack', Inst) \cup broken') : crashed' \/ Completed(o)'
    <2> TAKE o \in env' \ (On(stack', Inst) \cup broken')
    <2>0. o \in ModuleIds /\ o \in env /\ o \notin On(t, Inst) /\ o \notin broken'
      BY <1>1 DEF ModInv
    <2>1. CASE o = m
      <3>1. CASE Full(m, d)
        <4>1. declared' = declared \cup {m} /\ bound'[m] = b
          <5>1. bound' = [bound EXCEPT ![m] = b] /\ DOMAIN bound = ModuleIds
            BY <1>4 DEF BindsTo, b, ModInv, BindingsFine
          <5> QED
            BY <1>2, <1>4, <3>1, <5>1 DEF BindsTo
        <4>2. Len(bound'[m]) = Len(graph[m].imports)
          BY <1>6, <3>1, <4>1 DEF Full
        <4>3. ASSUME NEW e \in ToSet(graph[m].indirect)
              PROVE  \E x \in Candidates(graph, m, e.exported) : MayMean(graph, m, e.exported, x)
          <5>1. e.exported \in ExportNames
            BY <1>2, EntryTypes
          <5>2. Resolve(graph, m, e.exported) \notin NoBinding
            BY <3>1 DEF Full, BadExport
          <5> QED
            BY <1>2, <5>1, <5>2, ResolvesRight
        <4> QED
          BY <1>1, <2>1, <4>1, <4>2, <4>3 DEF Completed
      <3>2. CASE ~Full(m, d)
        BY <1>4, <2>0, <2>1, <3>2 DEF BindsTo
      <3> QED
        BY <3>1, <3>2
    <2>2. CASE o # m
      <3>1. broken \subseteq broken' /\ declared \subseteq declared'
        BY <1>4 DEF BindsTo
      <3>2. o \in env \ (On(stack, Inst) \cup broken)
        BY <1>3, <2>0, <2>2, <3>1
      <3>3. Completed(o)
        BY <1>1, <3>2 DEF ModInv
      <3>4. bound'[o] = bound[o]
        <4>1. bound' = [bound EXCEPT ![m] = b] /\ DOMAIN bound = ModuleIds
          BY <1>4 DEF BindsTo, b, ModInv, BindingsFine
        <4> QED
          BY <2>0, <2>2, <4>1
      <3> QED
        BY <1>1, <3>1, <3>3, <3>4 DEF Completed
    <2> QED
      BY <2>1, <2>2
  <1> QED
    BY <1>1, <1>2, <1>3, <1>8, <1>9, <1>10 DEF ModInv

\* The invariant is kept by every step.
LEMMA ModInvKept ==
  ASSUME ModInv, [Next]_vars
  PROVE  ModInv'
  <1>0. /\ graph \in Graphs /\ env \subseteq ModuleIds /\ StackFine(graph, stack)
        /\ \A o \in broken : Doomed(graph, o)
    BY DEF ModInv, FailuresFine
  <1>1. ASSUME NEW m \in ModuleIds, Import(m)
        PROVE  ModInv'
    <2> DEFINE c == Call("import", m, 1)
               s == Append(stack, c)
    <2>1. c \in Calls /\ c.fn = "import"
      BY DEF Call, Calls
    <2>2. /\ stack' = s /\ UNCHANGED <<graph, env, bound, spaces, declared, crashed, thrown, broken>>
          /\ thrown = None /\ (stack # <<>> => top.fn = "body")
      BY <1>1 DEF Import, MayImport, modState, history
    <2>3. stack # <<>> => stack[Len(stack)].fn # "instantiate"
      BY <2>2 DEF top
    <2> HIDE DEF c
    <2>4. StackFine(graph, s) /\ On(stack, Inst) \subseteq On(s, Inst)
      BY <1>0, <2>1, <2>3, PushFine
    <2> HIDE DEF s
    <2>5. env' \subseteq ModuleIds /\ env' \ (On(s, Inst) \cup broken') \subseteq env \ (On(stack, Inst) \cup broken)
      BY <1>0, <2>2, <2>4
    <2> QED
      BY <1>0, <2>2, <2>4, <2>5, QuietStep
  <1>2. CASE ImportInstantiates
    <2>1. /\ stack # <<>> /\ thrown = None /\ top.fn # "instantiate" /\ EnterInstantiate(top.module)
          /\ UNCHANGED <<graph, bound, spaces, declared, thrown, crashed, broken>>
      BY <1>2 DEF ImportInstantiates, Running, history
    <2> QED
      BY <2>1, TopIs, EnterInstantiateFine
  <1>3. CASE ImportEvaluates
    <2>1. /\ stack # <<>> /\ thrown = None /\ top.fn # "instantiate" /\ EnterEvaluate(top.module)
          /\ UNCHANGED <<graph, env, bound, spaces, declared, thrown, crashed, broken>>
      BY <1>3 DEF ImportEvaluates, Running, history
    <2> QED
      BY <2>1, TopIs, EnterEvaluateFine
  <1>4. CASE ImportReturns \/ BodyReturns
    <2>1. /\ stack # <<>> /\ top.fn # "instantiate" /\ stack' = Front(stack)
          /\ UNCHANGED <<graph, env, bound, spaces, declared, crashed, broken>>
      BY <1>4 DEF ImportReturns, BodyReturns, Running, modState, history
    <2> QED
      BY <2>1, PopOtherFine
  <1>5. CASE InstantiateRequired
    <2>1. /\ stack # <<>> /\ thrown = None /\ top.next <= Len(required) /\ EnterInstantiate(required[top.next])
          /\ UNCHANGED <<graph, bound, spaces, declared, thrown, crashed, broken>>
      BY <1>5 DEF InstantiateRequired, Running, history
    <2>2. required[top.next] \in ModuleIds
      BY <1>0, <2>1, RequiredIsModule DEF StackFine
    <2>3. required[top.next] \in ToSet(graph[top.module].requested)
      <3> DEFINE s == graph[top.module].requested
      <3>1. s \in Seq(ModuleIds) /\ required = s /\ top.next \in Nat \ {0}
        BY <2>1, TopIs
      <3> HIDE DEF s, required
      <3>2. top.next \in 1 .. Len(s)
        BY <2>1, <3>1
      <3> QED
        BY <3>1, <3>2 DEF ToSet, s
    <2> QED
      BY <2>1, <2>2, <2>3, EnterInstantiateFine
  <1>6. CASE InstantiateBindings
    BY <1>6, BindFine
  <1>7. CASE EvaluateRequired
    <2>1. /\ stack # <<>> /\ thrown = None /\ top.fn # "instantiate" /\ top.next <= Len(required)
          /\ EnterEvaluate(required[top.next])
          /\ UNCHANGED <<graph, env, bound, spaces, declared, thrown, crashed, broken>>
      BY <1>7 DEF EvaluateRequired, Running, history
    <2>2. required[top.next] \in ModuleIds
      BY <1>0, <2>1, RequiredIsModule DEF StackFine
    <2> QED
      BY <2>1, <2>2, EnterEvaluateFine
  <1>8. CASE EvaluateBody
    <2>1. /\ stack # <<>> /\ top.fn = "evaluate"
          /\ UNCHANGED <<graph, env, bound, spaces, declared, crashed, broken>>
      BY <1>8 DEF EvaluateBody, Running, modState
    <2>2. CASE top.module \in env
      <3> DEFINE c == Call("body", top.module, 1)
                 f == Front(stack)
                 s == Append(f, c)
      <3>1. stack' = s /\ thrown' = thrown /\ thrown = None
        BY <1>8, <2>2 DEF EvaluateBody, Running
      <3>2. c \in Calls
        BY <2>1, TopIs DEF Call, Calls
      <3>3. /\ StackFine(graph, f) /\ On(stack, Inst) \subseteq On(f, Inst)
            /\ f # <<>> => f[Len(f)].fn # "instantiate"
        BY <2>1, TopIs, PopFine DEF Inst
      <3> HIDE DEF c, f
      <3>4. StackFine(graph, s) /\ On(f, Inst) \subseteq On(s, Inst)
        BY <3>2, <3>3, PushFine
      <3> HIDE DEF s
      <3>5. env' \subseteq ModuleIds /\ env' \ (On(s, Inst) \cup broken') \subseteq env \ (On(stack, Inst) \cup broken)
        BY <1>0, <2>1, <3>3, <3>4
      <3> QED
        BY <1>0, <2>1, <3>1, <3>4, <3>5, QuietStep
    <2>3. CASE top.module \notin env
      <3>1. stack' = Front(stack)
        BY <1>8, <2>3 DEF EvaluateBody
      <3> QED
        BY <2>1, <3>1, PopOtherFine
    <2> QED
      BY <2>2, <2>3
  <1>9. CASE Unwind
    BY <1>9, UnwindFine
  <1>10. CASE BodyThrows \/ BodyCatches \/ Reported \/ UNCHANGED vars
    <2>1. UNCHANGED <<graph, stack, env, bound, spaces, declared, crashed, broken>>
      BY <1>10 DEF BodyThrows, BodyCatches, Reported, vars, modState, history
    <2> DEFINE s == stack
    <2>2. thrown' # None /\ s # <<>> /\ s[Len(s)].fn = "instantiate" => Doomed(graph, s[Len(s)].module)
      <3>1. CASE BodyThrows
        BY <3>1 DEF BodyThrows, Running, top
      <3>2. CASE BodyCatches \/ Reported
        BY <3>2 DEF BodyCatches, Reported
      <3>3. CASE UNCHANGED vars
        BY <3>3 DEF vars, ModInv, FailuresFine, top
      <3> QED
        BY <1>10, <3>1, <3>2, <3>3
    <2>3. s = stack' /\ StackFine(graph, s) /\ env' \subseteq ModuleIds
          /\ env' \ (On(s, Inst) \cup broken') \subseteq env \ (On(stack, Inst) \cup broken)
          /\ \A o \in broken' : Doomed(graph, o)
      BY <1>0, <2>1
    <2> HIDE DEF s
    <2> QED
      BY <2>1, <2>2, <2>3, QuietStep
  <1> QED
    BY <1>1, <1>2, <1>3, <1>4, <1>5, <1>6, <1>7, <1>8, <1>9, <1>10 DEF Next

\* The invariant holds in every behaviour.
LEMMA ModInvAlways ==
  Spec => []ModInv
  <1>1. Init => ModInv
    <2> SUFFICES ASSUME Init PROVE ModInv
      OBVIOUS
    <2>1. /\ graph \in Graphs /\ env = {} /\ stack = <<>> /\ broken = {} /\ thrown = None
          /\ bound = [m \in ModuleIds |-> <<>>] /\ spaces = [m \in ModuleIds |-> None]
      BY DEF Init
    <2>2. StackFine(graph, stack)
      BY <2>1 DEF StackFine
    <2>3. BindingsFine
      BY <2>1 DEF BindingsFine, ImportsMeanOneThing
    <2> QED
      BY <2>1, <2>2, <2>3 DEF ModInv, FailuresFine
  <1>2. ModInv /\ [Next]_vars => ModInv'
    BY ModInvKept
  <1> QED
    BY <1>1, <1>2, PTL DEF Spec

\* An import is bound to the only local export it can mean: none is missed,
\* invented or preferred because of the order in which star exports are followed
\* and of the visited sets they share, in any graphs that the parser accepts,
\* however many modules they have and whatever the imports.  A name for which
\* those sets do harm is bound to a local export that the entries lead to, of the
\* right module unless star exports ask a module for two names.
THEOREM ImportsAlwaysMeanOneThing ==
  Spec => []ImportsMeanOneThing
  <1>1. ModInv => ImportsMeanOneThing
    BY DEF ModInv, BindingsFine
  <1> QED
    BY <1>1, ModInvAlways, PTL

\* A namespace holds each name of its module that has one meaning, with that
\* meaning, and leaves a name out only if it has none or if two modules that can
\* be asked for it have it, in any graphs that the parser accepts and whenever
\* the namespace was made.
THEOREM NamespacesAreAlwaysExact ==
  Spec => []NamespacesAreExact
  <1>1. ModInv => NamespacesAreExact
    BY DEF ModInv, BindingsFine, NamespacesAreExact, Exact
  <1> QED
    BY <1>1, ModInvAlways, PTL

\* A module whose instantiation is over and has not thrown has all its imports
\* bound, its functions, and something to mean for each name it passes on, in
\* any graphs that the parser accepts and after any failures of other modules.
THEOREM InstantiationIsAlwaysComplete ==
  Spec => []InstantiationIsComplete
  <1>1. ModInv => InstantiationIsComplete
    BY DEF ModInv, InstantiationIsComplete, Completed, On, OnStack, Inst
  <1> QED
    BY <1>1, ModInvAlways, PTL

\* Instantiation throws only when a module that is required, directly or not,
\* imports or passes on a name that has no meaning or several, or one for which
\* the visited sets can do harm, in any graphs that the parser accepts.
THEOREM OnlyUnclearGraphsEverFail ==
  Spec => []OnlyUnclearGraphsFail
  <1>1. ModInv => OnlyUnclearGraphsFail
    BY DEF ModInv, FailuresFine, OnlyUnclearGraphsFail, Doomed, Unclear
  <1> QED
    BY <1>1, ModInvAlways, PTL
=============================================================================
