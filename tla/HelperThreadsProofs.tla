------------------------ MODULE HelperThreadsProofs ------------------------
(***************************************************************************)
(* Proofs about the helper thread pool, for every number of helpers and of  *)
(* tasks: types, that a task is in one place, that only compilations are    *)
(* paused, that a module's functions are accounted for, that parses stay    *)
(* away from a collection of the atoms zone, and that work is noticed.      *)
(***************************************************************************)
EXTENDS HelperThreads, InductionLemmas

-----------------------------------------------------------------------------
(* The inductive invariant.                                                  *)

\* the tasks of a kind, and the lists of finished tasks
TasksOf(k) == {t \in Tasks \ {None} : KindOf(t) = k}
Finishing == {"ion", "wasm", "parse"}

Elements(q) == {q[i] : i \in DOMAIN q}
Distinct(q) == \A i, j \in DOMAIN q : q[i] = q[j] => i = j

\* Tasks T held by the helpers, work lists W, finished lists D and parked
\* parses P: each holds tasks of its own kind, and no task is in two of them.
Placed(T, W, D, P) ==
    /\ T \in [Helpers -> Tasks \cup {None}]
    /\ DOMAIN W = Kinds /\ \A k \in Kinds : W[k] \in Seq(TasksOf(k))
    /\ DOMAIN D = Finishing /\ \A k \in Finishing : D[k] \subseteq TasksOf(k)
    /\ P \subseteq Parses
    /\ \A k \in Kinds \ {"gchelper"} : Distinct(W[k])
    /\ \A g, h \in Helpers : T[g] = T[h] /\ T[g] \notin {None, GCHelper} => g = h
    /\ \A h \in Helpers, k \in Kinds \ {"gchelper"} : T[h] \notin Elements(W[k])
    /\ \A k \in Finishing : D[k] \cap Elements(W[k]) = {} /\ \A h \in Helpers : T[h] \notin D[k]
    /\ P \cap (Elements(W["parse"]) \cup D["parse"]) = {} /\ \A h \in Helpers : T[h] \notin P

\* where a helper is in its handlers says what it holds
HeldAt(h, pcs, T, p) ==
    /\ pcs[h] \in {"loop", "wait", "gone"} <=> T[h] = None
    /\ pcs[h] \in {"paused", "resume"} => T[h] \in Builders
    /\ pcs[h] \in {"starved", "refill", "refilled"} => T[h] \in Parses
    /\ pcs[h] = "swept" => T[h] = GCHelper
    /\ p[h] => T[h] \in Builders
    /\ pcs[h] = "paused" => p[h]
Held(pcs, T, p) ==
    /\ pcs \in [Helpers -> PCs] /\ p \in [Helpers -> BOOLEAN]
    /\ \A h \in Helpers : HeldAt(h, pcs, T, p)

\* a parallel task that waits or runs is dispatched; those of a sweep only
\* between their start and their join
Dispatched ==
    /\ gcTask \in [GCTasks -> {"NotStarted", "Dispatched", "Finished"}]
    /\ \A t \in GCTasks : t \in Queued("gcparallel") \/ InProgress(t) => gcTask[t] = "Dispatched"
    /\ AtomsTask # None /\ op[Main] \notin {"sweepAtoms", "joinSweep"} => gcTask[AtomsTask] # "Dispatched"
    /\ op[Main] # "joinSweep" => \A t \in SweepTasks : gcTask[t] # "Dispatched"
    /\ op[Main] = "buffers" => BufferTask # None

\* a source is only compressed for a client that has not completed it
Compressed == \A c \in Clients : CompressionInProgress(c) => c \in compressing

\* the one client that is in a module owns it, and its functions are accounted for
InModule == {"generate", "outstanding", "ending", "drain"}
ModuleInv ==
    /\ module \in [owner : Clients \cup {None}, outstanding : 0..Cardinality(WasmTasks)]
    /\ \A c \in Clients : op[c] \in InModule <=> module.owner = c
    /\ failed \in Nat
    /\ ModuleIsAccountedFor

\* what a cancellation matches stays off the work list until it returns
CancelInv == op[Main] \in {"cancel", "cancelAll"} => cancel \cap Queued("ion") = {}

OPs == Blocking \cup {"none", "generate", "compiled", "sweepAtoms", "collect", "minor", "ended"}
RestTypes ==
    /\ terminate \subseteq Helpers /\ compressing \subseteq Clients /\ asleep \subseteq Clients
    /\ cancel \subseteq Builders
    /\ sweeping \in BOOLEAN /\ heapBusy \in BOOLEAN /\ atomsGC \in BOOLEAN
    /\ rank \in [Builders -> 0..MaxRank]
    /\ op \in [Clients -> OPs]

PlacedNow == Placed(task, work, done, parked)
HeldNow == Held(pc, task, pause)
HInv == /\ PlacedNow /\ HeldNow /\ Dispatched /\ Compressed /\ ModuleInv
        /\ ParsesAvoidAtomsGC /\ CancelInv /\ RestTypes

-----------------------------------------------------------------------------
(* Kinds of tasks.                                                           *)

\* The six work lists.
LEMMA KindsAre == Kinds = {"wasm", "ion", "parse", "compress", "gchelper", "gcparallel"}
  <1>1. DOMAIN Order = 1 .. 6
    BY DEF Order
  <1>2. /\ Order[1] = "wasm" /\ Order[2] = "ion" /\ Order[3] = "parse"
        /\ Order[4] = "compress" /\ Order[5] = "gchelper" /\ Order[6] = "gcparallel"
    BY DEF Order
  <1>3. 1 .. 6 = {1, 2, 3, 4, 5, 6}
    OBVIOUS
  <1> QED
    BY <1>1, <1>2, <1>3 DEF Kinds

\* A task is of one class.
LEMMA ClassesAreApart ==
  /\ Builders \cap (WasmTasks \cup Parses \cup Clients \cup GCTasks \cup {GCHelper, None}) = {}
  /\ WasmTasks \cap (Parses \cup Clients \cup GCTasks \cup {GCHelper, None}) = {}
  /\ Parses \cap (Clients \cup GCTasks \cup {GCHelper, None}) = {}
  /\ Clients \cap (GCTasks \cup {GCHelper, None}) = {}
  /\ GCTasks \cap {GCHelper, None} = {} /\ SweepTasks \cap {AtomsTask, AllocTask, BufferTask} = {}
  /\ AtomsTask # None => AtomsTask \notin {AllocTask, BufferTask}
  /\ AllocTask # None => AllocTask \notin {AtomsTask, BufferTask}
  /\ BufferTask # None => BufferTask \notin {AllocTask, AtomsTask}
  <1> DEFINE A == <<Builders, WasmTasks, Parses, Clients, SweepTasks, {AtomsTask} \ {None},
                   {AllocTask} \ {None}, {BufferTask} \ {None}, {GCHelper} \ {None}, {None}>>
  <1>1. \A i, j \in 1 .. 10 : i # j => A[i] \cap A[j] = {}
    BY TasksAreApart
  <1>2. /\ A[1] = Builders /\ A[2] = WasmTasks /\ A[3] = Parses /\ A[4] = Clients
        /\ A[5] = SweepTasks /\ A[6] = {AtomsTask} \ {None} /\ A[7] = {AllocTask} \ {None}
        /\ A[8] = {BufferTask} \ {None} /\ A[9] = {GCHelper} \ {None} /\ A[10] = {None}
    OBVIOUS
  <1> HIDE DEF A
  <1>3. A[10] \cap A[1] = {} /\ A[10] \cap A[2] = {} /\ A[10] \cap A[3] = {}
        /\ A[10] \cap A[4] = {} /\ A[10] \cap A[5] = {}
    BY <1>1
  <1>4. None \notin Builders /\ None \notin WasmTasks /\ None \notin Parses /\ None \notin Clients
        /\ None \notin SweepTasks
    BY <1>2, <1>3
  <1>5. A[9] \cap A[1] = {} /\ A[9] \cap A[2] = {} /\ A[9] \cap A[3] = {} /\ A[9] \cap A[4] = {}
        /\ A[9] \cap A[5] = {} /\ A[9] \cap A[6] = {} /\ A[9] \cap A[7] = {} /\ A[9] \cap A[8] = {}
    BY <1>1
  <1>6. GCHelper \notin Builders /\ GCHelper \notin WasmTasks /\ GCHelper \notin Parses
        /\ GCHelper \notin Clients /\ GCHelper \notin SweepTasks
        /\ GCHelper \notin {AtomsTask, AllocTask, BufferTask} \ {None}
    BY <1>2, <1>4, <1>5
  <1>7. A[6] \cap A[7] = {} /\ A[6] \cap A[8] = {} /\ A[7] \cap A[8] = {}
        /\ A[5] \cap A[6] = {} /\ A[5] \cap A[7] = {} /\ A[5] \cap A[8] = {}
    BY <1>1
  <1>8. /\ AtomsTask # None => AtomsTask \notin {AllocTask, BufferTask} /\ AtomsTask \notin SweepTasks
        /\ AllocTask # None => AllocTask \notin {AtomsTask, BufferTask} /\ AllocTask \notin SweepTasks
        /\ BufferTask # None => BufferTask \notin {AllocTask, AtomsTask} /\ BufferTask \notin SweepTasks
    BY <1>2, <1>7
  <1>9. \A i \in {1, 2, 3, 4} : A[i] \cap GCTasks = {}
    <2> TAKE i \in {1, 2, 3, 4}
    <2>1. A[i] \cap A[5] = {} /\ A[i] \cap A[6] = {} /\ A[i] \cap A[7] = {} /\ A[i] \cap A[8] = {}
      BY <1>1
    <2> QED
      BY <1>2, <2>1 DEF GCTasks
  <1>10. A[1] \cap GCTasks = {} /\ A[2] \cap GCTasks = {} /\ A[3] \cap GCTasks = {} /\ A[4] \cap GCTasks = {}
    BY <1>9
  <1>11. A[1] \cap A[2] = {} /\ A[1] \cap A[3] = {} /\ A[1] \cap A[4] = {}
         /\ A[2] \cap A[3] = {} /\ A[2] \cap A[4] = {} /\ A[3] \cap A[4] = {}
    BY <1>1
  <1>12. GCTasks \cap {GCHelper, None} = {}
    BY <1>4, <1>6 DEF GCTasks
  <1>13. SweepTasks \cap {AtomsTask, AllocTask, BufferTask} = {}
    BY <1>4, <1>8
  <1> QED
    BY <1>2, <1>4, <1>6, <1>8, <1>10, <1>11, <1>12, <1>13

\* The tasks of each kind.
LEMMA KindsOfTasks ==
  /\ TasksOf("ion") = Builders /\ TasksOf("wasm") = WasmTasks /\ TasksOf("parse") = Parses
  /\ TasksOf("compress") = Clients /\ TasksOf("gcparallel") = GCTasks
  /\ TasksOf("gchelper") = {GCHelper} \ {None}
  <1>1. \A t \in Builders : t \in Tasks \ {None} /\ KindOf(t) = "ion"
    BY ClassesAreApart DEF KindOf, Tasks
  <1>2. \A t \in WasmTasks : t \in Tasks \ {None} /\ KindOf(t) = "wasm"
    BY ClassesAreApart DEF KindOf, Tasks
  <1>3. \A t \in Parses : t \in Tasks \ {None} /\ KindOf(t) = "parse"
    BY ClassesAreApart DEF KindOf, Tasks
  <1>4. \A t \in Clients : t \in Tasks \ {None} /\ KindOf(t) = "compress"
    BY ClassesAreApart DEF KindOf, Tasks
  <1>5. \A t \in GCTasks : t \in Tasks \ {None} /\ KindOf(t) = "gcparallel"
    BY ClassesAreApart DEF KindOf, Tasks
  <1>6. GCHelper # None => GCHelper \in Tasks /\ KindOf(GCHelper) = "gchelper"
    BY ClassesAreApart DEF KindOf, Tasks
  <1>7. Tasks \ {None} \subseteq Builders \cup WasmTasks \cup Parses \cup GCTasks \cup Clients \cup ({GCHelper} \ {None})
    BY DEF Tasks
  <1> HIDE DEF Tasks
  <1> QED
    BY <1>1, <1>2, <1>3, <1>4, <1>5, <1>6, <1>7 DEF TasksOf

\* The tasks of two kinds are apart, none of them is None or, but for one kind,
\* the GCHelperState.
LEMMA TasksOfKinds ==
  /\ \A k \in Kinds : TasksOf(k) \subseteq Tasks /\ None \notin TasksOf(k)
  /\ \A k, l \in Kinds : k # l => TasksOf(k) \cap TasksOf(l) = {}
  /\ \A k \in Kinds \ {"gchelper"} : GCHelper \notin TasksOf(k)
  /\ \A t \in Tasks \ {None} : KindOf(t) \in Kinds /\ t \in TasksOf(KindOf(t))
  /\ Finishing \subseteq Kinds \ {"gchelper"}
  <1>1. \A k \in Kinds : TasksOf(k) \subseteq Tasks /\ None \notin TasksOf(k)
    BY DEF TasksOf
  <1>2. \A k, l \in Kinds : k # l => TasksOf(k) \cap TasksOf(l) = {}
    BY DEF TasksOf
  <1>3. \A k \in Kinds \ {"gchelper"} : GCHelper \notin TasksOf(k)
    BY KindsAre, KindsOfTasks, ClassesAreApart
  <1>4. \A t \in Tasks \ {None} : t \in TasksOf(KindOf(t))
    BY DEF TasksOf
  <1>5. \A t \in Tasks \ {None} : KindOf(t) \in Kinds
    BY KindsAre DEF KindOf, Tasks
  <1>6. Finishing \subseteq Kinds \ {"gchelper"}
    BY KindsAre DEF Finishing
  <1> QED
    BY <1>1, <1>2, <1>3, <1>4, <1>5, <1>6

-----------------------------------------------------------------------------
(* The work lists as sequences.                                              *)

\* A list with a task added at its end.
LEMMA Appended ==
  ASSUME NEW S, NEW q \in Seq(S), NEW t \in S
  PROVE  /\ Append(q, t) \in Seq(S) /\ Len(Append(q, t)) = Len(q) + 1
         /\ Elements(Append(q, t)) = Elements(q) \cup {t}
         /\ Distinct(q) /\ t \notin Elements(q) => Distinct(Append(q, t))
  <1>1. /\ Append(q, t) \in Seq(S) /\ DOMAIN q = 1 .. Len(q) /\ DOMAIN Append(q, t) = 1 .. Len(q) + 1
        /\ \A i \in 1 .. Len(q) : Append(q, t)[i] = q[i]
        /\ Append(q, t)[Len(q) + 1] = t /\ Len(q) \in Nat /\ Len(Append(q, t)) = Len(q) + 1
    OBVIOUS
  <1> DEFINE r == Append(q, t)
  <1> HIDE DEF r
  <1>2. Elements(r) = Elements(q) \cup {t}
    BY <1>1 DEF Elements, r
  <1>3. Distinct(q) /\ t \notin Elements(q) => Distinct(r)
    BY <1>1 DEF Elements, Distinct, r
  <1> QED
    BY <1>1, <1>2, <1>3 DEF r

\* A list without its last task.
LEMMA LastTaken ==
  ASSUME NEW S, NEW q \in Seq(S), q # <<>>
  PROVE  LET r == SubSeq(q, 1, Len(q) - 1)
             t == q[Len(q)]
         IN  /\ r \in Seq(S) /\ Len(r) = Len(q) - 1 /\ Len(q) - 1 \in Nat
             /\ t \in Elements(q) /\ t \in S /\ Elements(r) \subseteq Elements(q)
             /\ Distinct(q) => Distinct(r) /\ t \notin Elements(r)
  <1> DEFINE r == SubSeq(q, 1, Len(q) - 1)
  <1>1. /\ DOMAIN q = 1 .. Len(q) /\ Len(q) \in Nat /\ Len(q) \in 1 .. Len(q)
        /\ r \in Seq(S) /\ Len(r) = Len(q) - 1 /\ Len(q) - 1 \in Nat /\ DOMAIN r = 1 .. Len(q) - 1
        /\ \A i \in 1 .. Len(q) - 1 : r[i] = q[i]
    OBVIOUS
  <1> HIDE DEF r
  <1>2. Elements(r) \subseteq Elements(q) /\ q[Len(q)] \in Elements(q) /\ q[Len(q)] \in S
    BY <1>1 DEF Elements
  <1>3. Distinct(q) => Distinct(r) /\ q[Len(q)] \notin Elements(r)
    BY <1>1 DEF Elements, Distinct
  <1> QED
    BY <1>1, <1>2, <1>3 DEF r

\* Two lists in a row.
LEMMA ListsInARow ==
  ASSUME NEW S, NEW q \in Seq(S), NEW r \in Seq(S)
  PROVE  /\ q \o r \in Seq(S) /\ Elements(q \o r) = Elements(q) \cup Elements(r)
         /\ Distinct(q) /\ Distinct(r) /\ Elements(q) \cap Elements(r) = {} => Distinct(q \o r)
  <1> DEFINE b == q \o r
             n == Len(q)
             m == Len(r)
  <1>1. /\ b \in Seq(S) /\ DOMAIN b = 1 .. n + m /\ DOMAIN q = 1 .. n /\ DOMAIN r = 1 .. m
        /\ \A i \in 1 .. n : b[i] = q[i]
        /\ \A i \in 1 .. m : b[n + i] = r[i]
        /\ n \in Nat /\ m \in Nat
    BY InARow
  <1> HIDE DEF b, n, m
  <1>2. \A i \in 1 .. n + m : i \in 1 .. n \/ (i - n \in 1 .. m /\ i = n + (i - n))
    BY <1>1
  <1>3. \A i \in 1 .. n + m : (i \in 1 .. n /\ b[i] = q[i]) \/ (i - n \in 1 .. m /\ b[i] = r[i - n])
    BY <1>1, <1>2
  <1>4. Elements(b) \subseteq Elements(q) \cup Elements(r)
    BY <1>1, <1>3 DEF Elements
  <1>5. \A i \in 1 .. m : n + i \in 1 .. n + m
    BY <1>1
  <1>6. \A i \in 1 .. n : i \in 1 .. n + m
    BY <1>1
  <1>7. Elements(q) \cup Elements(r) \subseteq Elements(b)
    BY <1>1, <1>5, <1>6 DEF Elements
  <1>8. ASSUME Distinct(q), Distinct(r), Elements(q) \cap Elements(r) = {}
        PROVE  Distinct(b)
    <2>1. SUFFICES ASSUME NEW i \in 1 .. n + m, NEW j \in 1 .. n + m, b[i] = b[j]
                   PROVE  i = j
      BY <1>1 DEF Distinct
    <2>2. CASE i \in 1 .. n /\ b[i] = q[i] /\ j \in 1 .. n /\ b[j] = q[j]
      BY <1>1, <1>8, <2>1, <2>2 DEF Distinct
    <2>3. CASE i - n \in 1 .. m /\ b[i] = r[i - n] /\ j - n \in 1 .. m /\ b[j] = r[j - n]
      <3>1. i - n = j - n
        BY <1>1, <1>8, <2>1, <2>3 DEF Distinct
      <3> QED
        BY <1>1, <3>1
    <2>4. \A k \in 1 .. n, l \in 1 .. m : q[k] # r[l]
      BY <1>1, <1>8 DEF Elements
    <2> QED
      BY <1>3, <2>1, <2>2, <2>3, <2>4
  <1> QED
    BY <1>1, <1>4, <1>7, <1>8 DEF b

\* A list without some tasks.
LEMMA Filtered ==
  ASSUME NEW T, NEW q \in Seq(T), NEW S
  PROVE  /\ Without(q, S) \in Seq(T) /\ Elements(Without(q, S)) = Elements(q) \ S
         /\ Distinct(q) => Distinct(Without(q, S))
  <1> DEFINE m == Len(q)
             Body(h, n) == IF n = 0 THEN <<>>
                           ELSE IF q[n] \in S THEN h[n - 1] ELSE Append(h[n - 1], q[n])
             kept[n \in 0 .. m] == IF n = 0 THEN <<>>
                           ELSE IF q[n] \in S THEN kept[n - 1] ELSE Append(kept[n - 1], q[n])
             G == [n \in 1 .. m |-> [r \in Seq(T) |-> IF q[n] \in S THEN r ELSE Append(r, q[n])]]
  <1>1. m \in Nat /\ DOMAIN q = 1 .. m /\ (\A i \in 1 .. m : q[i] \in T) /\ m \in 0 .. m
    OBVIOUS
  <1>2. Without(q, S) = kept[m]
    BY DEF Without
  <1> HIDE DEF m
  <1>3. G \in [1 .. m -> [Seq(T) -> Seq(T)]]
    BY <1>1
  <1>4. ASSUME NEW n \in 1 .. m, NEW r \in Seq(T)
        PROVE  G[n][r] = IF q[n] \in S THEN r ELSE Append(r, q[n])
    OBVIOUS
  <1>5. <<>> \in Seq(T)
    OBVIOUS
  <1> HIDE DEF G
  <1>6. PICK f \in [0 .. m -> Seq(T)] : f[0] = <<>> /\ \A i \in 1 .. m : f[i] = G[i][f[i - 1]]
    <2> DEFINE A == Seq(T)
               a == <<>>
    <2>1. G \in [1 .. m -> [A -> A]] /\ a \in A
      BY <1>3, <1>5
    <2> HIDE DEF A, a
    <2>2. \E f \in [0 .. m -> A] : f[0] = a /\ \A i \in 1 .. m : f[i] = G[i][f[i - 1]]
      BY <1>1, <2>1, Iteration, SMTT(40)
    <2> QED
      BY <2>2 DEF A, a
  <1>7. ASSUME NEW n \in 1 .. m
        PROVE  n \in 0 .. m /\ n - 1 \in 0 .. m /\ n # 0
    BY <1>1
  <1>8. ASSUME NEW n \in 0 .. m
        PROVE  f[n] = Body(f, n)
    <2>1. CASE n = 0
      BY <1>6, <2>1
    <2>2. CASE n # 0
      <3>1. n \in 1 .. m /\ n - 1 \in 0 .. m
        BY <1>1, <2>2
      <3>2. f[n - 1] \in Seq(T)
        BY <3>1
      <3>3. f[n] = G[n][f[n - 1]]
        BY <1>6, <3>1
      <3>4. G[n][f[n - 1]] = IF q[n] \in S THEN f[n - 1] ELSE Append(f[n - 1], q[n])
        BY <1>4, <3>1, <3>2
      <3> QED
        BY <2>2, <3>3, <3>4
    <2> QED
      BY <2>1, <2>2
  <1>9. kept = [n \in 0 .. m |-> Body(kept, n)]
    <2> DEFINE F(h) == [n \in 0 .. m |-> Body(h, n)]
    <2>1. kept = CHOOSE h : h = F(h)
      OBVIOUS
    <2> HIDE DEF kept, Body
    <2>2. f = F(f)
      BY <1>8
    <2> HIDE DEF F
    <2>3. kept = F(kept)
      BY <2>1, <2>2
    <2> QED
      BY <2>3 DEF F
  <1> HIDE DEF kept
  <1>10. ASSUME NEW n \in 0 .. m
         PROVE  kept[n] = Body(kept, n)
    <2> HIDE DEF Body
    <2> QED
      BY <1>9
  <1>11. kept[0] = <<>>
    BY <1>1, <1>10
  <1>12. ASSUME NEW n \in 1 .. m
         PROVE  kept[n] = IF q[n] \in S THEN kept[n - 1] ELSE Append(kept[n - 1], q[n])
    BY <1>7, <1>10
  <1> HIDE DEF Body
  <1> DEFINE Before(n) == {q[i] : i \in 1 .. n}
             Fine(n) == /\ kept[n] \in Seq(T) /\ Elements(kept[n]) = Before(n) \ S
                        /\ Distinct(q) => Distinct(kept[n])
             All == {n \in Nat : Fine(n)}
  <1>13. 0 \in All
    <2>1. Elements(<<>>) = {} /\ Before(0) = {} /\ Distinct(<<>>)
      BY DEF Elements, Distinct
    <2> HIDE DEF Before
    <2> QED
      BY <1>5, <1>11, <2>1
  <1>14. ASSUME NEW k \in 0 .. m, k \in All, k < m
         PROVE  k + 1 \in All
    <2>1. k + 1 \in 1 .. m /\ (k + 1) - 1 = k /\ k + 1 \in Nat /\ q[k + 1] \in T
      BY <1>1, <1>14
    <2>2. kept[k + 1] = IF q[k + 1] \in S THEN kept[k] ELSE Append(kept[k], q[k + 1])
      BY <1>12, <2>1
    <2>3. Before(k + 1) = Before(k) \cup {q[k + 1]}
      <3>1. \A i \in 1 .. k + 1 : i \in 1 .. k \/ i = k + 1
        BY <2>1
      <3>2. \A i \in 1 .. k : i \in 1 .. k + 1
        BY <2>1
      <3>3. k + 1 \in 1 .. k + 1
        BY <2>1
      <3> QED
        BY <3>1, <3>2, <3>3
    <2>4. Distinct(q) => q[k + 1] \notin Before(k)
      <3>1. \A i \in 1 .. k : i \in 1 .. m /\ i # k + 1
        BY <1>1, <2>1
      <3> QED
        BY <1>1, <2>1, <3>1 DEF Distinct
    <2>5. Fine(k)
      BY <1>14
    <2> HIDE DEF Before
    <2>6. CASE q[k + 1] \in S
      BY <2>1, <2>2, <2>3, <2>5, <2>6
    <2>7. CASE q[k + 1] \notin S
      <3> DEFINE r == kept[k]
                 a == Append(r, q[k + 1])
      <3>1. /\ a \in Seq(T) /\ Elements(a) = Elements(r) \cup {q[k + 1]}
            /\ Distinct(r) /\ q[k + 1] \notin Elements(r) => Distinct(a)
        BY <2>1, <2>5, Appended
      <3> HIDE DEF a
      <3>2. kept[k + 1] = a
        BY <2>2, <2>7 DEF a
      <3>3. Elements(a) = Before(k + 1) \ S
        BY <2>3, <2>5, <2>7, <3>1
      <3>4. Distinct(q) => Distinct(a)
        BY <2>4, <2>5, <3>1
      <3> QED
        BY <2>1, <3>1, <3>2, <3>3, <3>4
    <2> QED
      BY <2>6, <2>7
  <1> HIDE DEF All, Fine
  <1>15. 0 .. m \subseteq All
    BY <1>1, <1>13, <1>14, UpTo
  <1>16. m \in All
    BY <1>1, <1>15
  <1>17. Fine(m)
    BY <1>16 DEF All
  <1>18. Before(m) = Elements(q)
    BY <1>1 DEF Elements
  <1> QED
    BY <1>2, <1>17, <1>18 DEF Fine

\* One task is dropped in the way of Remove.
LEMMA OneRemoved ==
  ASSUME NEW T, NEW l \in Seq(T), NEW a \in 1 .. Len(l)
  PROVE  LET r == Popped([list |-> l, at |-> a])
         IN  /\ r \in Seq(T) /\ Len(r) = Len(l) - 1
             /\ \A j \in 1 .. a - 1 : j \in 1 .. Len(l) - 1 => r[j] = l[j]
             /\ Elements(r) \subseteq Elements(l) /\ Elements(l) \ {l[a]} \subseteq Elements(r)
             /\ Distinct(l) => Distinct(r)
  <1> DEFINE r == Popped([list |-> l, at |-> a])
             m == Len(l)
             w == [l EXCEPT ![a] = l[m]]
  <1>1. m \in Nat /\ m \in 1 .. m /\ DOMAIN l = 1 .. m /\ a \in 1 .. m /\ \A i \in 1 .. m : l[i] \in T
    OBVIOUS
  <1>2. w \in Seq(T) /\ Len(w) = m /\ \A i \in 1 .. m : w[i] = IF i = a THEN l[m] ELSE l[i]
    OBVIOUS
  <1>3. r = SubSeq(w, 1, m - 1)
    BY DEF Popped
  <1> HIDE DEF w, r, m
  <1>4. /\ r \in Seq(T) /\ Len(r) = m - 1 /\ DOMAIN r = 1 .. m - 1 /\ m - 1 \in Nat
        /\ \A i \in 1 .. m - 1 : r[i] = w[i]
    BY <1>1, <1>2, <1>3
  <1>5. \A i \in 1 .. m - 1 : i \in 1 .. m /\ i # m /\ r[i] = IF i = a THEN l[m] ELSE l[i]
    BY <1>1, <1>2, <1>4
  <1>6. \A j \in 1 .. a - 1 : j # a
    BY <1>1
  <1>7. Elements(r) \subseteq Elements(l)
    BY <1>1, <1>4, <1>5 DEF Elements
  <1>8. ASSUME NEW i \in 1 .. m, i # a
        PROVE  l[i] \in Elements(r)
    <2>1. CASE i = m
      <3>1. a \in 1 .. m - 1
        BY <1>1, <1>8, <2>1
      <3> QED
        BY <1>4, <1>5, <2>1, <3>1 DEF Elements
    <2>2. CASE i # m
      <3>1. i \in 1 .. m - 1
        BY <1>1, <2>2
      <3> QED
        BY <1>4, <1>5, <1>8, <3>1 DEF Elements
    <2> QED
      BY <2>1, <2>2
  <1>9. Elements(l) \ {l[a]} \subseteq Elements(r)
    BY <1>1, <1>8 DEF Elements
  <1>10. ASSUME Distinct(l)
         PROVE  Distinct(r)
    <2>1. SUFFICES ASSUME NEW i \in 1 .. m - 1, NEW j \in 1 .. m - 1, r[i] = r[j]
                   PROVE  i = j
      BY <1>4 DEF Distinct
    <2>2. \A x, y \in 1 .. m : l[x] = l[y] => x = y
      BY <1>1, <1>10 DEF Distinct
    <2> QED
      BY <1>1, <1>5, <2>1, <2>2
  <1> QED
    BY <1>4, <1>5, <1>6, <1>7, <1>9, <1>10 DEF r, m

\* The loop that removes: what it has looked at and kept is not to go, the rest
\* of the list is still before it, and nothing else is lost.
LEMMA AllRemoved ==
  ASSUME NEW T, NEW q \in Seq(T), NEW S
  PROVE  /\ RemoveAll(q, S) \in Seq(T) /\ Elements(RemoveAll(q, S)) = Elements(q) \ S
         /\ Distinct(q) => Distinct(RemoveAll(q, S))
  <1> DEFINE m == Len(q)
             A == [list : Seq(T), at : Nat \ {0}]
             Visit(v) == IF v.list[v.at] \in S THEN Remove(v) ELSE v
             Step(v) == IF v.at > Len(v.list) THEN v ELSE [Visit(v) EXCEPT !.at = @ + 1]
             start == [list |-> q, at |-> 1]
             Body(h, n) == IF n = 0 THEN start ELSE Step(h[n - 1])
             loop[n \in 0 .. m] == IF n = 0 THEN start ELSE Step(loop[n - 1])
             G == [n \in 1 .. m |-> [v \in A |-> Step(v)]]
  <1>1. m \in Nat /\ DOMAIN q = 1 .. m /\ (\A i \in 1 .. m : q[i] \in T) /\ m \in 0 .. m
    OBVIOUS
  <1>2. RemoveAll(q, S) = loop[m].list
    BY DEF RemoveAll
  <1>3. start \in A /\ start.list = q /\ start.at = 1
    OBVIOUS
  <1>4. ASSUME NEW v \in A, v.at <= Len(v.list)
        PROVE  LET w == Step(v)
               IN  \/ v.list[v.at] \notin S /\ w.list = v.list /\ w.at = v.at + 1 /\ w \in A
                   \/ v.list[v.at] \in S /\ w.list = Popped(v) /\ w.at = v.at /\ w \in A
    <2>1. v.list \in Seq(T) /\ v.at \in Nat \ {0} /\ v.at \in 1 .. Len(v.list)
      BY <1>4
    <2>2. ~(v.at > Len(v.list))
      BY <1>4, <2>1
    <2>3. v = [list |-> v.list, at |-> v.at]
      OBVIOUS
    <2>4. Popped(v) \in Seq(T)
      BY <2>1, <2>3, OneRemoved
    <2>5. CASE v.list[v.at] \in S
      <3>1. Step(v) = [Remove(v) EXCEPT !.at = @ + 1]
        BY <2>2, <2>5
      <3>2. Remove(v) = [list |-> Popped(v), at |-> v.at - 1]
        BY DEF Remove
      <3> HIDE DEF Step
      <3>3. Step(v) = [list |-> Popped(v), at |-> (v.at - 1) + 1]
        BY <3>1, <3>2
      <3>4. (v.at - 1) + 1 = v.at
        BY <2>1
      <3> QED
        BY <2>1, <2>4, <2>5, <3>3, <3>4
    <2>6. CASE v.list[v.at] \notin S
      <3>1. Step(v) = [v EXCEPT !.at = @ + 1]
        BY <2>2, <2>6
      <3> HIDE DEF Step
      <3>2. Step(v) = [list |-> v.list, at |-> v.at + 1]
        BY <2>3, <3>1
      <3> QED
        BY <2>1, <2>6, <3>2
    <2> QED
      BY <2>5, <2>6
  <1>5. ASSUME NEW v \in A
        PROVE  Step(v) \in A
    <2>1. CASE v.at > Len(v.list)
      BY <2>1
    <2>2. CASE ~(v.at > Len(v.list))
      <3>1. v.at <= Len(v.list)
        BY <2>2
      <3> HIDE DEF A, Step
      <3> QED
        BY <1>4, <3>1
    <2> QED
      BY <2>1, <2>2
  <1> HIDE DEF m, A, start, Step
  <1>6. G \in [1 .. m -> [A -> A]]
    BY <1>5
  <1>7. \A n \in 1 .. m, v \in A : G[n][v] = Step(v)
    OBVIOUS
  <1> HIDE DEF G
  <1>8. PICK f \in [0 .. m -> A] : f[0] = start /\ \A i \in 1 .. m : f[i] = G[i][f[i - 1]]
    BY <1>1, <1>3, <1>6, Iteration, SMTT(40)
  <1>9. ASSUME NEW n \in 1 .. m
        PROVE  n \in 0 .. m /\ n - 1 \in 0 .. m /\ n # 0
    BY <1>1
  <1>10. ASSUME NEW n \in 0 .. m
         PROVE  f[n] = Body(f, n)
    <2>1. CASE n = 0
      BY <1>8, <2>1
    <2>2. CASE n # 0
      <3>1. n \in 1 .. m /\ n - 1 \in 0 .. m
        BY <1>1, <2>2
      <3>2. f[n - 1] \in A /\ f[n] = G[n][f[n - 1]]
        BY <1>8, <3>1
      <3> QED
        BY <1>7, <2>2, <3>1, <3>2
    <2> QED
      BY <2>1, <2>2
  <1>11. loop = [n \in 0 .. m |-> Body(loop, n)]
    <2> DEFINE F(h) == [n \in 0 .. m |-> Body(h, n)]
    <2>1. loop = CHOOSE h : h = F(h)
      OBVIOUS
    <2> HIDE DEF loop, Body
    <2>2. f = F(f)
      BY <1>10
    <2> HIDE DEF F
    <2>3. loop = F(loop)
      BY <2>1, <2>2
    <2> QED
      BY <2>3 DEF F
  <1> HIDE DEF loop
  <1>12. ASSUME NEW n \in 0 .. m
         PROVE  loop[n] = Body(loop, n)
    <2> HIDE DEF Body
    <2> QED
      BY <1>11
  <1>13. loop[0] = start
    BY <1>1, <1>12
  <1>14. ASSUME NEW n \in 1 .. m
         PROVE  loop[n] = Step(loop[n - 1])
    BY <1>9, <1>12
  <1> HIDE DEF Body
  <1> DEFINE Fine(n) == LET v == loop[n]
                            l == v.list
                        IN  /\ v \in A /\ l \in Seq(T) /\ v.at \in Nat
                            /\ (v.at - 1) + (m - Len(l)) = n
                            /\ \A j \in 1 .. v.at - 1 : l[j] \notin S
                            /\ Elements(l) \subseteq Elements(q) /\ Elements(q) \ S \subseteq Elements(l)
                            /\ Distinct(q) => Distinct(l)
             All == {n \in Nat : Fine(n)}
  <1>15. 0 \in All
    BY <1>1, <1>3, <1>13 DEF m
  <1>16. ASSUME NEW k \in 0 .. m, k \in All, k < m
         PROVE  k + 1 \in All
    <2> DEFINE v == loop[k]
               l == v.list
               a == v.at
               w == loop[k + 1]
    <2>1. k + 1 \in 1 .. m /\ (k + 1) - 1 = k /\ k + 1 \in Nat /\ k \in Nat
      BY <1>1, <1>16
    <2>2. w = Step(v)
      BY <1>14, <2>1
    <2>3. /\ v \in A /\ l \in Seq(T) /\ a \in Nat /\ (a - 1) + (m - Len(l)) = k
          /\ \A j \in 1 .. a - 1 : l[j] \notin S
          /\ Elements(l) \subseteq Elements(q) /\ Elements(q) \ S \subseteq Elements(l)
          /\ Distinct(q) => Distinct(l)
      BY <1>16
    <2>4. a \in Nat \ {0} /\ v = [list |-> l, at |-> a]
      BY <2>3 DEF A
    <2> HIDE DEF v, l, a, w, All, Fine
    <2>5. Len(l) \in Nat /\ a <= Len(l) /\ a \in 1 .. Len(l)
      BY <1>1, <1>16, <2>1, <2>3, <2>4
    <2>6. v.list = l /\ v.at = a
      BY DEF l, a
    <2>7. \/ l[a] \notin S /\ w.list = l /\ w.at = a + 1 /\ w \in A
          \/ l[a] \in S /\ w.list = Popped(v) /\ w.at = a /\ w \in A
      BY <1>4, <2>2, <2>3, <2>5, <2>6
    <2>8. CASE l[a] \notin S /\ w.list = l /\ w.at = a + 1 /\ w \in A
      <3>1. \A j \in 1 .. (a + 1) - 1 : j \in 1 .. a - 1 \/ j = a
        BY <2>5
      <3>2. \A j \in 1 .. w.at - 1 : l[j] \notin S
        BY <2>3, <2>8, <3>1
      <3>3. a + 1 \in Nat /\ ((a + 1) - 1) + (m - Len(l)) = k + 1
        BY <1>1, <2>1, <2>3, <2>5
      <3>4. Fine(k + 1)
        BY <2>3, <2>8, <3>2, <3>3 DEF Fine, w
      <3> QED
        BY <2>1, <3>4 DEF All
    <2>9. CASE l[a] \in S /\ w.list = Popped(v) /\ w.at = a /\ w \in A
      <3> DEFINE r == w.list
      <3>1. /\ r \in Seq(T) /\ Len(r) = Len(l) - 1
            /\ \A j \in 1 .. a - 1 : j \in 1 .. Len(l) - 1 => r[j] = l[j]
            /\ Elements(r) \subseteq Elements(l) /\ Elements(l) \ {l[a]} \subseteq Elements(r)
            /\ Distinct(l) => Distinct(r)
        BY <2>3, <2>4, <2>5, <2>9, OneRemoved
      <3> HIDE DEF r
      <3>2. \A j \in 1 .. a - 1 : j \in 1 .. Len(l) - 1
        BY <2>5
      <3>3. \A j \in 1 .. a - 1 : r[j] \notin S
        BY <2>3, <3>1, <3>2
      <3>4. (a - 1) + (m - Len(r)) = k + 1
        BY <1>1, <2>1, <2>3, <2>5, <3>1
      <3>5. Elements(r) \subseteq Elements(q) /\ Elements(q) \ S \subseteq Elements(r)
        BY <2>3, <2>9, <3>1
      <3>6. Fine(k + 1)
        BY <2>3, <2>9, <3>1, <3>3, <3>4, <3>5 DEF Fine, w, r
      <3> QED
        BY <2>1, <3>6 DEF All
    <2> QED
      BY <2>7, <2>8, <2>9
  <1> HIDE DEF All, Fine
  <1>17. 0 .. m \subseteq All
    BY <1>1, <1>15, <1>16, UpTo
  <1>18. Fine(m)
    BY <1>1, <1>17 DEF All
  <1> DEFINE l == loop[m].list
             a == loop[m].at
  <1>19. /\ l \in Seq(T) /\ a \in Nat /\ (a - 1) + (m - Len(l)) = m
         /\ \A j \in 1 .. a - 1 : l[j] \notin S
         /\ Elements(l) \subseteq Elements(q) /\ Elements(q) \ S \subseteq Elements(l)
         /\ Distinct(q) => Distinct(l)
    BY <1>18 DEF Fine
  <1> HIDE DEF l, a
  <1>20. DOMAIN l = 1 .. a - 1
    BY <1>1, <1>19
  <1>21. Elements(l) \cap S = {}
    BY <1>19, <1>20 DEF Elements
  <1> QED
    BY <1>2, <1>19, <1>21 DEF l

-----------------------------------------------------------------------------
(* What a step may do with the places of tasks.                              *)

\* A helper that has no task takes one from a list.
LEMMA TakesKeeps ==
  ASSUME NEW T, NEW W, NEW D, NEW P, Placed(T, W, D, P),
         NEW h \in Helpers, T[h] = None, NEW k \in Kinds, NEW t \in Elements(W[k]),
         NEW q \in Seq(TasksOf(k)), Elements(q) \subseteq Elements(W[k]),
         k # "gchelper" => Distinct(q) /\ t \notin Elements(q)
  PROVE  Placed([T EXCEPT ![h] = t], [W EXCEPT ![k] = q], D, P)
  <1> DEFINE U == [T EXCEPT ![h] = t]
             V == [W EXCEPT ![k] = q]
  <1>1. t \in TasksOf(k) /\ t \in Tasks
    BY TasksOfKinds DEF Placed, Elements
  <1>2. /\ U \in [Helpers -> Tasks \cup {None}] /\ U[h] = t
        /\ \A g \in Helpers : g # h => U[g] = T[g]
    BY <1>1 DEF Placed
  <1>3. DOMAIN V = Kinds /\ V[k] = q /\ \A l \in Kinds : l # k => V[l] = W[l]
    BY DEF Placed
  <1> HIDE DEF U, V
  <1>4. \A l \in Kinds : V[l] \in Seq(TasksOf(l)) /\ Elements(V[l]) \subseteq Elements(W[l])
    BY <1>3 DEF Placed
  <1>5. \A l \in Kinds \ {"gchelper"} : Distinct(V[l])
    BY <1>3 DEF Placed
  <1>6. \A l \in Kinds : Elements(W[l]) \subseteq TasksOf(l)
    BY DEF Placed, Elements
  <1>7. t = GCHelper \/ k # "gchelper"
    BY <1>1, KindsOfTasks
  <1>8. ASSUME NEW g \in Helpers, NEW i \in Helpers, U[g] = U[i], U[g] \notin {None, GCHelper}
        PROVE  g = i
    BY <1>2, <1>7, <1>8 DEF Placed
  <1>9. ASSUME NEW g \in Helpers, NEW l \in Kinds \ {"gchelper"}
        PROVE  U[g] \notin Elements(V[l])
    <2>1. CASE g # h
      BY <1>2, <1>4, <2>1 DEF Placed
    <2>2. CASE g = h /\ l = k
      BY <1>2, <1>3, <2>2
    <2>3. CASE g = h /\ l # k
      BY <1>1, <1>2, <1>4, <1>6, <2>3, TasksOfKinds
    <2> QED
      BY <2>1, <2>2, <2>3
  <1>10. ASSUME NEW l \in Finishing
         PROVE  D[l] \cap Elements(V[l]) = {} /\ \A g \in Helpers : U[g] \notin D[l]
    <2>1. D[l] \cap Elements(V[l]) = {}
      BY <1>4, TasksOfKinds DEF Placed
    <2>2. t \notin D[l]
      <3>1. CASE l = k
        BY <3>1 DEF Placed
      <3>2. CASE l # k
        BY <1>1, <3>2, TasksOfKinds DEF Placed
      <3> QED
        BY <3>1, <3>2
    <2> QED
      BY <1>2, <2>1, <2>2 DEF Placed
  <1>11. P \cap (Elements(V["parse"]) \cup D["parse"]) = {} /\ \A g \in Helpers : U[g] \notin P
    <2>1. P \cap (Elements(V["parse"]) \cup D["parse"]) = {}
      BY <1>4, KindsAre DEF Placed
    <2>2. t \notin P
      <3>1. CASE k = "parse"
        BY <3>1 DEF Placed
      <3>2. CASE k # "parse"
        BY <1>1, <3>2, TasksOfKinds, KindsOfTasks, KindsAre DEF Placed
      <3> QED
        BY <3>1, <3>2
    <2> QED
      BY <1>2, <2>1, <2>2 DEF Placed
  <1>12. Placed(U, V, D, P)
    <2>1. DOMAIN D = Finishing /\ (\A l \in Finishing : D[l] \subseteq TasksOf(l)) /\ P \subseteq Parses
      BY DEF Placed
    <2> QED
      BY <1>2, <1>3, <1>4, <1>5, <1>8, <1>9, <1>10, <1>11, <2>1 DEF Placed
  <1> QED
    BY <1>12 DEF U, V

\* A helper lets go of its task.
LEMMA LetsGoKeeps ==
  ASSUME NEW T, NEW W, NEW D, NEW P, Placed(T, W, D, P), NEW h \in Helpers
  PROVE  Placed([T EXCEPT ![h] = None], W, D, P)
  <1> DEFINE U == [T EXCEPT ![h] = None]
  <1>1. /\ U \in [Helpers -> Tasks \cup {None}] /\ U[h] = None
        /\ \A g \in Helpers : g # h => U[g] = T[g]
    BY DEF Placed
  <1> HIDE DEF U
  <1>2. \A k \in Kinds : None \notin Elements(W[k])
    BY TasksOfKinds DEF Placed, Elements
  <1>3. \A k \in Finishing : None \notin D[k]
    BY TasksOfKinds DEF Placed
  <1>4. None \notin P
    BY ClassesAreApart DEF Placed
  <1>5. Placed(U, W, D, P)
    BY <1>1, <1>2, <1>3, <1>4 DEF Placed
  <1> QED
    BY <1>5 DEF U

\* A helper lets go of its task and puts it on its finished list.
LEMMA FinishKeeps ==
  ASSUME NEW T, NEW W, NEW D, NEW P, Placed(T, W, D, P), NEW h \in Helpers,
         NEW k \in Finishing, T[h] \in TasksOf(k)
  PROVE  Placed([T EXCEPT ![h] = None], W, [D EXCEPT ![k] = @ \cup {T[h]}], P)
  <1> DEFINE U == [T EXCEPT ![h] = None]
             E == [D EXCEPT ![k] = @ \cup {T[h]}]
             t == T[h]
  <1>1. Placed(U, W, D, P)
    BY LetsGoKeeps
  <1>2. DOMAIN E = Finishing /\ E[k] = D[k] \cup {t} /\ \A l \in Finishing : l # k => E[l] = D[l]
    BY DEF Placed
  <1>3. t \in TasksOf(k) /\ t \notin Elements(W[k]) /\ t # None /\ t # GCHelper /\ t \notin P
        /\ \A g \in Helpers : g # h => T[g] # t
    BY TasksOfKinds DEF Placed
  <1>4. \A g \in Helpers : U[g] # t
    BY <1>3 DEF Placed
  <1> HIDE DEF U, E, t
  <1>5. \A l \in Finishing : E[l] \subseteq TasksOf(l)
    BY <1>1, <1>2, <1>3 DEF Placed
  <1>6. \A l \in Finishing : E[l] \cap Elements(W[l]) = {} /\ \A g \in Helpers : U[g] \notin E[l]
    BY <1>1, <1>2, <1>3, <1>4, SMTT(40) DEF Placed
  <1>7. P \cap (Elements(W["parse"]) \cup E["parse"]) = {}
    BY <1>1, <1>2, <1>3 DEF Placed, Finishing
  <1>8. Placed(U, W, E, P)
    BY <1>1, <1>2, <1>5, <1>6, <1>7 DEF Placed
  <1> QED
    BY <1>8 DEF U, E, t

\* What may become of the lists of kind k while the helpers hold T: q is its work
\* list, S its finished list (if it has one), Q the parked parses.
Fits(k, q, S, Q, T) ==
    /\ q \in Seq(TasksOf(k)) /\ Distinct(q) /\ S \subseteq TasksOf(k) /\ Q \subseteq Parses
    /\ S \cap Elements(q) = {} /\ (k = "parse" => Q \cap (Elements(q) \cup S) = {})
    /\ \A h \in Helpers : T[h] \notin Elements(q) /\ T[h] \notin S /\ T[h] \notin Q

\* V is W with q at k
Replaced(W, V, k, q) == DOMAIN V = DOMAIN W /\ V[k] = q /\ \A l \in DOMAIN W : l # k => V[l] = W[l]

\* The lists of one kind change, and no task is in two places.
LEMMA ListsKeep ==
  ASSUME NEW T, NEW W, NEW D, NEW P, Placed(T, W, D, P),
         NEW k \in Finishing, NEW q, NEW S, NEW Q, Fits(k, q, S, Q, T),
         k # "parse" => Q = P, NEW V, NEW E, Replaced(W, V, k, q), Replaced(D, E, k, S)
  PROVE  Placed(T, V, E, Q)
  <1>1. DOMAIN V = Kinds /\ V[k] = q /\ \A l \in Kinds : l # k => V[l] = W[l]
    BY DEF Placed, Replaced
  <1>2. DOMAIN E = Finishing /\ E[k] = S /\ \A l \in Finishing : l # k => E[l] = D[l]
    BY DEF Placed, Replaced
  <1>3. \A l \in Kinds : V[l] \in Seq(TasksOf(l))
    BY <1>1, TasksOfKinds DEF Placed, Fits
  <1>4. \A l \in Kinds \ {"gchelper"} : Distinct(V[l]) /\ \A h \in Helpers : T[h] \notin Elements(V[l])
    BY <1>1, TasksOfKinds DEF Placed, Fits
  <1>5. \A l \in Finishing : E[l] \cap Elements(V[l]) = {} /\ E[l] \subseteq TasksOf(l)
                             /\ \A h \in Helpers : T[h] \notin E[l]
    BY <1>1, <1>2, TasksOfKinds DEF Placed, Fits
  <1>6. Q \cap (Elements(V["parse"]) \cup E["parse"]) = {} /\ (\A h \in Helpers : T[h] \notin Q) /\ Q \subseteq Parses
    BY <1>1, <1>2, KindsAre DEF Placed, Fits, Finishing
  <1> QED
    BY <1>1, <1>2, <1>3, <1>4, <1>5, <1>6 DEF Placed

\* A task that is nowhere yet is added to a work list.
LEMMA StartKeeps ==
  ASSUME NEW T, NEW W, NEW D, NEW P, Placed(T, W, D, P),
         NEW k \in Kinds, NEW t \in TasksOf(k), t \notin P,
         k # "gchelper" => t \notin Elements(W[k]) /\ \A h \in Helpers : T[h] # t,
         k \in Finishing => t \notin D[k]
  PROVE  Placed(T, [W EXCEPT ![k] = Append(@, t)], D, P)
  <1> DEFINE V == [W EXCEPT ![k] = Append(@, t)]
             q == W[k]
             a == Append(q, t)
  <1>1. DOMAIN V = Kinds /\ V[k] = a /\ \A l \in Kinds : l # k => V[l] = W[l]
    BY DEF Placed
  <1>2. q \in Seq(TasksOf(k))
    BY DEF Placed
  <1>3. /\ a \in Seq(TasksOf(k)) /\ Elements(a) = Elements(q) \cup {t}
        /\ Distinct(q) /\ t \notin Elements(q) => Distinct(a)
    BY <1>2, Appended
  <1> HIDE DEF a, V
  <1>4. \A l \in Kinds : V[l] \in Seq(TasksOf(l))
    BY <1>1, <1>3 DEF Placed
  <1>5. \A l \in Kinds \ {"gchelper"} : Distinct(V[l]) /\ \A h \in Helpers : T[h] \notin Elements(V[l])
    BY <1>1, <1>3 DEF Placed
  <1>6. \A l \in Finishing : D[l] \cap Elements(V[l]) = {}
    BY <1>1, <1>3, TasksOfKinds DEF Placed
  <1>7. P \cap (Elements(V["parse"]) \cup D["parse"]) = {}
    BY <1>1, <1>3, KindsAre DEF Placed
  <1>8. Placed(T, V, D, P)
    BY <1>1, <1>4, <1>5, <1>6, <1>7 DEF Placed
  <1> QED
    BY <1>8 DEF V

\* Some tasks of a sweep, which are nowhere yet, are added to their list.
LEMMA StartAllKeeps ==
  ASSUME NEW T, NEW W, NEW D, NEW P, Placed(T, W, D, P),
         NEW q \in Seq(GCTasks), Distinct(q), Elements(q) \cap Elements(W["gcparallel"]) = {},
         \A h \in Helpers : T[h] \notin Elements(q)
  PROVE  Placed(T, [W EXCEPT !["gcparallel"] = @ \o q], D, P)
  <1> DEFINE V == [W EXCEPT !["gcparallel"] = @ \o q]
             r == W["gcparallel"]
             b == r \o q
  <1>1. DOMAIN V = Kinds /\ V["gcparallel"] = b /\ \A l \in Kinds : l # "gcparallel" => V[l] = W[l]
    BY KindsAre DEF Placed
  <1>2. r \in Seq(GCTasks) /\ Distinct(r) /\ \A h \in Helpers : T[h] \notin Elements(r)
    BY KindsAre, KindsOfTasks DEF Placed
  <1>3. /\ b \in Seq(GCTasks) /\ Elements(b) = Elements(r) \cup Elements(q) /\ Distinct(b)
    BY <1>2, ListsInARow
  <1> HIDE DEF b, V
  <1>4. \A l \in Kinds : V[l] \in Seq(TasksOf(l))
    BY <1>1, <1>3, KindsOfTasks DEF Placed
  <1>5. \A l \in Kinds \ {"gchelper"} : Distinct(V[l]) /\ \A h \in Helpers : T[h] \notin Elements(V[l])
    BY <1>1, <1>2, <1>3 DEF Placed
  <1>6. \A l \in Finishing : V[l] = W[l]
    BY <1>1, TasksOfKinds, KindsAre DEF Finishing
  <1>7. Placed(T, V, D, P)
    BY <1>1, <1>4, <1>5, <1>6 DEF Placed, Finishing
  <1> QED
    BY <1>7 DEF V

-----------------------------------------------------------------------------
(* What threadLoop does: a helper stops, or it takes a task from a list.     *)

Stops(h, s) ==
    /\ pc' = [s.pc EXCEPT ![h] = IF h \in terminate THEN "gone" ELSE "wait"]
    /\ task' = s.task /\ pause' = s.pause /\ work' = work
    /\ h \in terminate \/ \A k \in Kinds : ~CanStart(k, s)

Takes(h, s, k, t, q) ==
    /\ t \in Elements(work[k]) /\ q \in Seq(TasksOf(k)) /\ Elements(q) \subseteq Elements(work[k])
    /\ k # "gchelper" => Distinct(q) /\ t \notin Elements(q)
    /\ k = "wasm" => Len(q) = Len(work[k]) - 1
    /\ task' = [s.task EXCEPT ![h] = t]
    /\ work' = [work EXCEPT ![k] = q]
    /\ pc' = [s.pc EXCEPT ![h] = "work"]
    /\ \/ pause' = s.pause
       \/ \E other \in Helpers : s.task[other] \in Builders /\ pause' = [s.pause EXCEPT ![other] = TRUE]
    /\ k # "ion" => pause' = s.pause
    /\ First(k, s)

\* Stopping and taking are all a helper does in threadLoop.
LEMMA ThreadLoopDoes ==
  ASSUME NEW h \in Helpers, NEW s, NEW D, NEW P, Placed(s.task, work, D, P), ThreadLoop(h, s)
  PROVE  Stops(h, s) \/ \E k \in Kinds : \E t, q : Takes(h, s, k, t, q)
  <1>1. CASE h \in terminate \/ \A k \in Kinds : ~CanStart(k, s)
    BY <1>1 DEF ThreadLoop, Stop, Stops
  <1>2. CASE PopIon(h, s)
    <2>1. PICK b \in Queued("ion") : work' = [work EXCEPT !["ion"] = Without(@, {b})]
                                    /\ task' = [s.task EXCEPT ![h] = b]
      BY <1>2 DEF PopIon
    <2>2. /\ "ion" \in Kinds /\ work["ion"] \in Seq(TasksOf("ion")) /\ Distinct(work["ion"])
      BY KindsAre DEF Placed
    <2>3. b \in Elements(work["ion"])
      BY DEF Queued, Elements
    <2> DEFINE q == Without(work["ion"], {b})
    <2>4. q \in Seq(TasksOf("ion")) /\ Elements(q) = Elements(work["ion"]) \ {b} /\ Distinct(q)
      BY <2>2, Filtered
    <2>5. work' = [work EXCEPT !["ion"] = q]
      BY <2>1
    <2> HIDE DEF q
    <2>6. pause' = s.pause \/ \E other \in Helpers : s.task[other] \in Builders /\ pause' = [s.pause EXCEPT ![other] = TRUE]
      <3>1. SUFFICES ASSUME NEW other \in Unpaused(s), pause' = [s.pause EXCEPT ![other] = TRUE]
                     PROVE  other \in Helpers /\ s.task[other] \in Builders
        BY <1>2 DEF PopIon
      <3>2. other \in On("ion", s)
        BY DEF Unpaused
      <3>3. other \in Helpers /\ s.task[other] \in Tasks \ {None} /\ KindOf(s.task[other]) = "ion"
        BY <3>2 DEF On, Placed
      <3>4. s.task[other] \in TasksOf("ion")
        BY <3>3 DEF TasksOf
      <3> QED
        BY <3>3, <3>4, KindsOfTasks
    <2>7. Takes(h, s, "ion", b, q)
      BY <1>2, <2>1, <2>3, <2>4, <2>5, <2>6 DEF PopIon, Takes
    <2> QED
      BY <2>2, <2>7
  <1>3. ASSUME NEW k \in Kinds \ {"ion"}, Pop(h, k, s)
        PROVE  \E t, q : Takes(h, s, k, t, q)
    <2> DEFINE t == work[k][Len(work[k])]
               q == SubSeq(work[k], 1, Len(work[k]) - 1)
    <2>1. work[k] \in Seq(TasksOf(k)) /\ work[k] # <<>>
      BY <1>3 DEF Placed, Pop, First, CanStart
    <2>2. /\ q \in Seq(TasksOf(k)) /\ Len(q) = Len(work[k]) - 1
          /\ t \in Elements(work[k]) /\ Elements(q) \subseteq Elements(work[k])
          /\ Distinct(work[k]) => Distinct(q) /\ t \notin Elements(q)
      BY <2>1, LastTaken
    <2>3. task' = [s.task EXCEPT ![h] = t] /\ work' = [work EXCEPT ![k] = q]
          /\ pause' = s.pause /\ pc' = [s.pc EXCEPT ![h] = "work"] /\ First(k, s)
      BY <1>3 DEF Pop
    <2> HIDE DEF t, q
    <2>4. k # "gchelper" => Distinct(work[k])
      BY DEF Placed
    <2> QED
      BY <2>2, <2>3, <2>4 DEF Takes
  <1> QED
    BY <1>1, <1>2, <1>3, KindsAre DEF ThreadLoop

\* After threadLoop no task is in two places.
LEMMA ThreadLoopPlaces ==
  ASSUME NEW h \in Helpers, NEW s, NEW D, NEW P, Placed(s.task, work, D, P),
         s.task[h] = None, ThreadLoop(h, s)
  PROVE  Placed(task', work', D, P)
  <1>1. CASE Stops(h, s)
    BY <1>1 DEF Stops
  <1>2. ASSUME NEW k \in Kinds, NEW t, NEW q, Takes(h, s, k, t, q)
        PROVE  Placed(task', work', D, P)
    <2> DEFINE T == s.task
    <2>1. /\ t \in Elements(work[k]) /\ q \in Seq(TasksOf(k)) /\ Elements(q) \subseteq Elements(work[k])
          /\ k # "gchelper" => Distinct(q) /\ t \notin Elements(q)
          /\ task' = [T EXCEPT ![h] = t] /\ work' = [work EXCEPT ![k] = q] /\ Placed(T, work, D, P) /\ T[h] = None
      BY <1>2 DEF Takes
    <2> HIDE DEF T
    <2>2. Placed([T EXCEPT ![h] = t], [work EXCEPT ![k] = q], D, P)
      BY <2>1, TakesKeeps
    <2> QED
      BY <2>1, <2>2
  <1> QED
    BY <1>1, <1>2, ThreadLoopDoes

\* After threadLoop where each helper is says what it holds, if that was so of
\* the others and this one had let go of its task.
LEMMA ThreadLoopHolds ==
  ASSUME NEW h \in Helpers, NEW s, NEW D, NEW P, Placed(s.task, work, D, P),
         s.task[h] = None, ThreadLoop(h, s),
         s.pc \in [Helpers -> PCs], s.pause \in [Helpers -> BOOLEAN], ~s.pause[h],
         \A g \in Helpers : g # h => HeldAt(g, s.pc, s.task, s.pause)
  PROVE  Held(pc', task', pause')
  <1>1. CASE Stops(h, s)
    <2>1. /\ pc' \in [Helpers -> PCs] /\ pc'[h] \in {"gone", "wait"} /\ \A g \in Helpers : g # h => pc'[g] = s.pc[g]
      BY <1>1 DEF Stops, PCs
    <2>2. task' = s.task /\ pause' = s.pause
      BY <1>1 DEF Stops
    <2> QED
      BY <2>1, <2>2 DEF Held, HeldAt
  <1>2. ASSUME NEW k \in Kinds, NEW t, NEW q, Takes(h, s, k, t, q)
        PROVE  Held(pc', task', pause')
    <2>1. t # None /\ s.task \in [Helpers -> Tasks \cup {None}]
      BY <1>2, TasksOfKinds DEF Placed, Takes, Elements
    <2>2. task'[h] = t /\ \A g \in Helpers : g # h => task'[g] = s.task[g]
      BY <1>2, <2>1 DEF Takes
    <2>3. pc' \in [Helpers -> PCs] /\ pc'[h] = "work" /\ \A g \in Helpers : g # h => pc'[g] = s.pc[g]
      BY <1>2 DEF Takes, PCs
    <2>4. /\ pause' \in [Helpers -> BOOLEAN] /\ ~pause'[h]
          /\ \A g \in Helpers : g # h => pause'[g] = s.pause[g] \/ (s.task[g] \in Builders /\ pause'[g])
      <3>1. CASE pause' = s.pause
        BY <3>1
      <3>2. ASSUME NEW other \in Helpers, s.task[other] \in Builders, pause' = [s.pause EXCEPT ![other] = TRUE]
            PROVE  /\ pause' \in [Helpers -> BOOLEAN] /\ ~pause'[h]
                   /\ \A g \in Helpers : g # h => pause'[g] = s.pause[g] \/ (s.task[g] \in Builders /\ pause'[g])
        <4>1. other # h
          BY <3>2, ClassesAreApart
        <4> QED
          BY <3>2, <4>1
      <3> QED
        BY <1>2, <3>1, <3>2 DEF Takes
    <2>5. ASSUME NEW g \in Helpers
          PROVE  HeldAt(g, pc', task', pause')
      <3>1. CASE g = h
        BY <2>1, <2>2, <2>3, <2>4, <3>1 DEF HeldAt
      <3>2. CASE g # h
        <4>1. HeldAt(g, s.pc, s.task, s.pause)
          BY <3>2
        <4>2. pc'[g] = s.pc[g] /\ task'[g] = s.task[g]
          BY <2>2, <2>3, <3>2
        <4>3. pause'[g] = s.pause[g] \/ (s.task[g] \in Builders /\ pause'[g])
          BY <2>4, <3>2
        <4> QED
          BY <4>1, <4>2, <4>3 DEF HeldAt
      <3> QED
        BY <3>1, <3>2
    <2> QED
      BY <2>3, <2>4, <2>5 DEF Held
  <1> QED
    BY <1>1, <1>2, ThreadLoopDoes

\* In threadLoop tasks move from the lists to the helpers, and nowhere else.
Moves(s) ==
    /\ \A k \in Kinds : Elements(work'[k]) \subseteq Elements(work[k])
    /\ \A g \in Helpers : task'[g] = s.task[g] \/ \E k \in Kinds : task'[g] \in Elements(work[k])

LEMMA ThreadLoopMoves ==
  ASSUME NEW h \in Helpers, NEW s, NEW D, NEW P, Placed(s.task, work, D, P), ThreadLoop(h, s)
  PROVE  Moves(s)
  <1>1. CASE Stops(h, s)
    BY <1>1 DEF Stops, Moves
  <1>2. ASSUME NEW k \in Kinds, NEW t, NEW q, Takes(h, s, k, t, q)
        PROVE  Moves(s)
    <2>1. DOMAIN work = Kinds /\ s.task \in [Helpers -> Tasks \cup {None}]
      BY DEF Placed
    <2>2. t \in Elements(work[k]) /\ Elements(q) \subseteq Elements(work[k])
      BY <1>2 DEF Takes
    <2>3. \A l \in Kinds : work'[l] = IF l = k THEN q ELSE work[l]
      BY <1>2, <2>1 DEF Takes
    <2>4. \A g \in Helpers : task'[g] = IF g = h THEN t ELSE s.task[g]
      BY <1>2, <2>1 DEF Takes
    <2> QED
      BY <2>2, <2>3, <2>4 DEF Moves
  <1> QED
    BY <1>1, <1>2, ThreadLoopDoes

-----------------------------------------------------------------------------
(* No step puts a task in two places.                                        *)

\* The finished tasks of a kind become fewer.
LEMMA DoneKeeps ==
  ASSUME NEW T, NEW W, NEW D, NEW P, Placed(T, W, D, P), NEW k \in Finishing, NEW S \in SUBSET D[k]
  PROVE  Placed(T, W, [D EXCEPT ![k] = S], P)
  <1> DEFINE E == [D EXCEPT ![k] = S]
  <1>1. DOMAIN E = Finishing /\ \A l \in Finishing : E[l] \subseteq D[l]
    BY DEF Placed
  <1> HIDE DEF E
  <1>2. "parse" \in Finishing
    BY DEF Finishing
  <1>3. Placed(T, W, E, P)
    BY <1>1, <1>2 DEF Placed
  <1> QED
    BY <1>3 DEF E

\* A step that only takes finished tasks away.
LEMMA DoneShrinks ==
  ASSUME PlacedNow, NEW k \in Finishing, NEW S \in SUBSET done[k],
         done' = [done EXCEPT ![k] = S], UNCHANGED <<task, work, parked>>
  PROVE  PlacedNow'
  BY DoneKeeps DEF PlacedNow

\* A task a helper works on is of its kind.
LEMMA WorksOn ==
  ASSUME PlacedNow, NEW h \in Helpers, NEW k, Works(h, k)
  PROVE  pc[h] = "work" /\ task[h] \in TasksOf(k) /\ task[h] # None
  BY DEF Works, TasksOf, PlacedNow, Placed

\* A task that is used nowhere is nowhere.
LEMMA UnusedIsNowhere ==
  ASSUME PlacedNow, NEW k \in Kinds, NEW t \in TasksOf(k), Unused(k, t)
  PROVE  t \notin Elements(work[k]) /\ (\A h \in Helpers : task[h] # t)
         /\ (k \in Finishing => t \notin done[k])
  BY DEF Unused, Queued, Elements, InProgress, PlacedNow, Placed

\* What a helper sees when it has let go of its task.
LEMMA ResetState ==
  ASSUME NEW h \in Helpers
  PROVE  /\ Now.task = task /\ Now.pc = pc /\ Now.pause = pause /\ Now.failed = failed
         /\ Reset(h).task = [task EXCEPT ![h] = None] /\ Reset(h).pc = pc
         /\ Reset(h).pause = [pause EXCEPT ![h] = FALSE] /\ Reset(h).failed = failed
  BY DEF Now, Reset

\* Steps of the helpers leave every task in one place.
LEMMA HelpersPlace ==
  ASSUME HInv, NEW h \in Helpers, HelperStep(h)
  PROVE  PlacedNow'
  <1>0. PlacedNow /\ HeldAt(h, pc, task, pause) /\ task \in [Helpers -> Tasks \cup {None}]
    BY DEF HInv, HeldNow, Held, PlacedNow, Placed
  <1>1. ASSUME NEW s, NEW D, NEW P, Placed(s.task, work, D, P), s.task = [task EXCEPT ![h] = None],
               ThreadLoop(h, s), done' = D, parked' = P
        PROVE  PlacedNow'
    <2>1. s.task[h] = None
      BY <1>0, <1>1
    <2>2. Placed(task', work', D, P)
      BY <1>1, <2>1, ThreadLoopPlaces
    <2> QED
      BY <1>1, <2>2 DEF PlacedNow
  <1>2. Placed([task EXCEPT ![h] = None], work, done, parked)
    BY <1>0, LetsGoKeeps DEF PlacedNow
  <1>3. ASSUME NEW k \in Finishing, Works(h, k)
        PROVE  Placed([task EXCEPT ![h] = None], work, [done EXCEPT ![k] = @ \cup {task[h]}], parked)
    <2>1. task[h] \in TasksOf(k)
      BY <1>0, <1>3, WorksOn
    <2> QED
      BY <1>0, <2>1, FinishKeeps DEF PlacedNow
  <1>4. CASE Look(h)
    <2>1. task = [task EXCEPT ![h] = None]
      BY <1>0, <1>4 DEF Look, HeldAt
    <2>2. ThreadLoop(h, Now) /\ done' = done /\ parked' = parked
      BY <1>4 DEF Look
    <2>3. Now.task = [task EXCEPT ![h] = None]
      BY <2>1, ResetState
    <2>4. Placed(Now.task, work, done, parked)
      BY <1>2, <2>3
    <2> QED
      BY <1>1, <2>2, <2>3, <2>4
  <1>5. CASE FinishIon(h)
    <2>1. Works(h, "ion") /\ "ion" \in Finishing /\ parked' = parked
          /\ done' = [done EXCEPT !["ion"] = @ \cup {task[h]}]
      BY <1>5 DEF FinishIon, Finishing
    <2>2. PICK s : s.task = [task EXCEPT ![h] = None] /\ ThreadLoop(h, s)
      <3>1. CASE ThreadLoop(h, Reset(h))
        BY <3>1, ResetState
      <3>2. ASSUME NEW other \in HighestPaused(Reset(h)),
                   ThreadLoop(h, [Reset(h) EXCEPT !.pause[other] = FALSE, !.pc = PausedWoken])
            PROVE  \E s : s.task = [task EXCEPT ![h] = None] /\ ThreadLoop(h, s)
        <4> DEFINE s == [Reset(h) EXCEPT !.pause[other] = FALSE, !.pc = PausedWoken]
        <4>1. s.task = [task EXCEPT ![h] = None]
          BY DEF Reset, Now
        <4> HIDE DEF s
        <4>2. ThreadLoop(h, s)
          BY <3>2 DEF s
        <4> QED
          BY <4>1, <4>2
      <3> QED
        BY <1>5, <3>1, <3>2 DEF FinishIon
    <2>3. Placed(s.task, work, done', parked')
      BY <1>3, <2>1, <2>2
    <2> QED
      BY <1>1, <2>2, <2>3
  <1>6. CASE FinishWasm(h)
    <2>1. Works(h, "wasm") /\ "wasm" \in Finishing /\ parked' = parked
          /\ (done' = [done EXCEPT !["wasm"] = @ \cup {task[h]}] \/ done' = done)
      BY <1>6 DEF FinishWasm, Finishing
    <2> DEFINE s == [Reset(h) EXCEPT !.failed = failed']
    <2>2. s.task = [task EXCEPT ![h] = None]
      BY DEF Reset, Now
    <2>3. ThreadLoop(h, s)
      BY <1>6 DEF FinishWasm
    <2> HIDE DEF s
    <2>4. Placed(s.task, work, done', parked')
      BY <1>2, <1>3, <2>1, <2>2
    <2> QED
      BY <1>1, <2>2, <2>3, <2>4
  <1>7. CASE FinishParse(h)
    <2>1. Works(h, "parse") /\ "parse" \in Finishing /\ parked' = parked
          /\ done' = [done EXCEPT !["parse"] = @ \cup {task[h]}] /\ ThreadLoop(h, Reset(h))
      BY <1>7 DEF FinishParse, Finishing
    <2>2. Placed(Reset(h).task, work, done', parked')
      BY <1>3, <2>1, ResetState
    <2> QED
      BY <1>1, <2>1, <2>2, ResetState
  <1>8. CASE FinishCompression(h) \/ FinishGCTask(h) \/ FinishGCHelper(h)
    <2>1. ThreadLoop(h, Reset(h)) /\ done' = done /\ parked' = parked
      BY <1>8 DEF FinishCompression, FinishGCTask, FinishGCHelper
    <2>2. Reset(h).task = [task EXCEPT ![h] = None]
      BY ResetState
    <2>3. Placed(Reset(h).task, work, done, parked)
      BY <1>2, <2>2
    <2> QED
      BY <1>1, <2>1, <2>2, <2>3
  <1>9. CASE PauseCompile(h) \/ Resume(h) \/ EndSweeping(h) \/ RefillFreeList(h)
    <2>1. UNCHANGED <<task, lists>>
      BY <1>9 DEF PauseCompile, Resume, EndSweeping, RefillFreeList
    <2> QED
      BY <1>0, <2>1 DEF PlacedNow, lists
  <1> QED
    BY <1>4, <1>5, <1>6, <1>7, <1>8, <1>9 DEF HelperStep

\* A parallel task that is not dispatched is nowhere.
LEMMA IdleIsNowhere ==
  ASSUME Dispatched, NEW t \in GCTasks, gcTask[t] # "Dispatched"
  PROVE  t \notin Elements(work["gcparallel"]) /\ \A h \in Helpers : task[h] # t
  BY DEF Dispatched, Queued, Elements, InProgress

\* A parallel task is not a parse.
LEMMA IsNoParse ==
  ASSUME PlacedNow, NEW k \in Kinds \ {"parse"}, NEW t \in TasksOf(k)
  PROVE  t \notin parked
  <1>1. TasksOf(k) \cap TasksOf("parse") = {}
    BY TasksOfKinds, KindsAre
  <1> QED
    BY <1>1, KindsOfTasks DEF PlacedNow, Placed

\* A task is started that is nowhere yet.
LEMMA StartsInPlace ==
  ASSUME PlacedNow, NEW k \in Kinds, NEW t \in TasksOf(k), t \notin parked,
         k # "gchelper" => t \notin Elements(work[k]) /\ \A h \in Helpers : task[h] # t,
         k \in Finishing => t \notin done[k],
         work' = [work EXCEPT ![k] = Append(@, t)], UNCHANGED <<task, done, parked>>
  PROVE  PlacedNow'
  BY StartKeeps DEF PlacedNow

\* An unused task of a kind that finishes is started.
LEMMA UnusedStarts ==
  ASSUME PlacedNow, NEW k \in Finishing, NEW t \in TasksOf(k), Unused(k, t), t \notin parked,
         Start(k, t), UNCHANGED <<task, done, parked>>
  PROVE  PlacedNow'
  <1>1. k \in Kinds /\ k # "gchelper"
    BY TasksOfKinds
  <1>2. t \notin Elements(work[k]) /\ (\A h \in Helpers : task[h] # t) /\ t \notin done[k]
    BY <1>1, UnusedIsNowhere
  <1>3. work' = [work EXCEPT ![k] = Append(@, t)]
    BY DEF Start
  <1> QED
    BY <1>1, <1>2, <1>3, StartsInPlace

\* An idle parallel task is started.
LEMMA IdleStarts ==
  ASSUME PlacedNow, Dispatched, NEW t \in GCTasks, gcTask[t] # "Dispatched",
         work' = [work EXCEPT !["gcparallel"] = Append(@, t)], UNCHANGED <<task, done, parked>>
  PROVE  PlacedNow'
  <1>1. "gcparallel" \in Kinds \ {"parse"} /\ "gcparallel" \notin Finishing /\ t \in TasksOf("gcparallel")
    BY KindsAre, KindsOfTasks DEF Finishing
  <1>2. t \notin Elements(work["gcparallel"]) /\ \A h \in Helpers : task[h] # t
    BY IdleIsNowhere
  <1>3. t \notin parked
    BY <1>1, IsNoParse
  <1> QED
    BY <1>1, <1>2, <1>3, StartsInPlace

\* Steps of the clients leave every task in one place.
LEMMA ClientsPlace ==
  ASSUME HInv, NEW c \in Clients, ClientStep(c)
  PROVE  PlacedNow'
  <1>0. PlacedNow /\ Dispatched /\ Compressed
    BY DEF HInv
  <1>1. CASE StartModule(c) \/ LeaveGenerate(c) \/ EndModule(c) \/ BeginComplete(c)
    <2>1. UNCHANGED <<task, lists>>
      BY <1>1 DEF StartModule, LeaveGenerate, EndModule, BeginComplete
    <2> QED
      BY <1>0, <2>1 DEF PlacedNow, lists
  <1>2. CASE SubmitFunction(c)
    <2>1. PICK t \in WasmTasks : Unused("wasm", t) /\ Start("wasm", t)
      BY <1>2 DEF SubmitFunction
    <2>2. UNCHANGED <<task, done, parked>> /\ t \in TasksOf("wasm") /\ "wasm" \in Finishing /\ "wasm" \in Kinds \ {"parse"}
      BY <1>2, KindsOfTasks, KindsAre DEF SubmitFunction, Finishing
    <2>3. t \notin parked
      BY <1>0, <2>2, IsNoParse
    <2> QED
      BY <1>0, <2>1, <2>2, <2>3, UnusedStarts
  <1>3. CASE FinishOutstanding(c)
    <2>1. CASE UNCHANGED <<task, lists>>
      BY <1>0, <2>1 DEF PlacedNow, lists
    <2>2. ASSUME NEW t \in done["wasm"], done' = [done EXCEPT !["wasm"] = @ \ {t}], UNCHANGED <<task, work, parked>>
          PROVE  PlacedNow'
      <3> DEFINE S == done["wasm"] \ {t}
      <3>1. S \in SUBSET done["wasm"] /\ "wasm" \in Finishing
        BY DEF Finishing
      <3>2. done' = [done EXCEPT !["wasm"] = S]
        BY <2>2
      <3> HIDE DEF S
      <3> QED
        BY <1>0, <2>2, <3>1, <3>2, DoneShrinks
    <2> QED
      BY <1>3, <2>1, <2>2 DEF FinishOutstanding, Sleep
  <1>4. CASE DrainModule(c)
    <2>1. UNCHANGED <<task, parked>> /\ work' = [work EXCEPT !["wasm"] = <<>>] /\ done' = [done EXCEPT !["wasm"] = {}]
      BY <1>4 DEF DrainModule
    <2>2. Fits("wasm", <<>>, {}, parked, task)
      <3>1. <<>> \in Seq(TasksOf("wasm"))
        OBVIOUS
      <3>2. Elements(<<>>) = {} /\ Distinct(<<>>)
        BY DEF Elements, Distinct
      <3>3. parked \subseteq Parses /\ \A h \in Helpers : task[h] \notin parked
        BY <1>0 DEF PlacedNow, Placed
      <3> QED
        BY <3>1, <3>2, <3>3 DEF Fits
    <2> DEFINE q == <<>>
               S == {}
    <2>3. "wasm" \in Finishing /\ Fits("wasm", q, S, parked, task)
          /\ Replaced(work, work', "wasm", q) /\ Replaced(done, done', "wasm", S)
      BY <1>0, <2>1, <2>2, KindsAre DEF Finishing, Replaced, PlacedNow, Placed
    <2> HIDE DEF q, S
    <2>4. Placed(task, work', done', parked)
      BY <1>0, <2>3, ListsKeep DEF PlacedNow
    <2> QED
      BY <2>1, <2>4 DEF PlacedNow
  <1>5. CASE StartOffThreadCompression(c)
    <2>1. Start("compress", c) /\ UNCHANGED <<task, done, parked>> /\ c \notin compressing
      BY <1>5 DEF StartOffThreadCompression
    <2>2. "compress" \in Kinds \ {"parse"} /\ "compress" \notin Finishing /\ c \in TasksOf("compress")
      BY KindsAre, KindsOfTasks DEF Finishing
    <2>3. c \notin Elements(work["compress"]) /\ \A h \in Helpers : task[h] # c
      BY <1>0, <2>1 DEF Compressed, CompressionInProgress, Queued, Elements, InProgress
    <2>4. c \notin parked
      BY <1>0, <2>2, IsNoParse
    <2>5. work' = [work EXCEPT !["compress"] = Append(@, c)]
      BY <2>1 DEF Start
    <2> QED
      BY <1>0, <2>1, <2>2, <2>3, <2>4, <2>5, StartsInPlace
  <1>6. CASE Complete(c)
    <2>1. UNCHANGED <<task, lists>>
      BY <1>6 DEF Complete, Sleep
    <2> QED
      BY <1>0, <2>1 DEF PlacedNow, lists
  <1>7. CASE StartAlloc(c)
    <2>1. UNCHANGED <<task, done, parked>> /\ AllocTask # None /\ AllocTask \in GCTasks
      BY <1>7 DEF StartAlloc, GCTasks
    <2>2. CASE gcTask[AllocTask] = "Dispatched"
      <3>1. work' = work
        BY <1>7, <2>2 DEF StartAlloc
      <3> QED
        BY <1>0, <2>1, <3>1 DEF PlacedNow
    <2>3. CASE gcTask[AllocTask] # "Dispatched"
      <3>1. work' = [work EXCEPT !["gcparallel"] = Append(@, AllocTask)]
        BY <1>7, <2>3 DEF StartAlloc
      <3> QED
        BY <1>0, <2>1, <2>3, <3>1, IdleStarts
    <2> QED
      BY <2>2, <2>3
  <1> QED
    BY <1>1, <1>2, <1>3, <1>4, <1>5, <1>6, <1>7 DEF ClientStep

\* Steps that deal with compilations leave every task in one place.
LEMMA IonPlaces ==
  ASSUME HInv, IonStep
  PROVE  PlacedNow'
  <1>0. PlacedNow
    BY DEF HInv
  <1>a. "ion" \in Finishing /\ "ion" \in Kinds \ {"parse"} /\ TasksOf("ion") = Builders
    BY KindsAre, KindsOfTasks DEF Finishing
  <1>1. ASSUME NEW b \in Builders, WarmUp(b) \/ StartOffThreadIonCompile(b) \/ AttachFinished(b)
        PROVE  PlacedNow'
    <2>1. CASE WarmUp(b)
      BY <1>0, <2>1 DEF WarmUp, PlacedNow, lists
    <2>2. CASE StartOffThreadIonCompile(b)
      <3>1. Unused("ion", b) /\ Start("ion", b) /\ UNCHANGED <<task, done, parked>>
        BY <2>2 DEF StartOffThreadIonCompile
      <3>2. b \notin parked
        BY <1>0, <1>a, IsNoParse
      <3> QED
        BY <1>0, <1>a, <3>1, <3>2, UnusedStarts
    <2>3. CASE AttachFinished(b)
      <3> DEFINE S == done["ion"] \ {b}
      <3>1. S \in SUBSET done["ion"] /\ done' = [done EXCEPT !["ion"] = S] /\ UNCHANGED <<task, work, parked>>
        BY <2>3 DEF AttachFinished
      <3> HIDE DEF S
      <3> QED
        BY <1>0, <1>a, <3>1, DoneShrinks
    <2> QED
      BY <1>1, <2>1, <2>2, <2>3
  <1>2. ASSUME NEW S, NEW o, BeginCancel(S, o)
        PROVE  PlacedNow'
    <2> DEFINE pending == Pending(S)
               q == RemoveAll(work["ion"], pending)
               F == done["ion"] \cup pending
    <2>1. /\ work' = [work EXCEPT !["ion"] = q] /\ done' = [done EXCEPT !["ion"] = F]
          /\ UNCHANGED <<task, parked>>
      BY <1>2 DEF BeginCancel
    <2>2. work["ion"] \in Seq(TasksOf("ion")) /\ Distinct(work["ion"])
      BY <1>0, <1>a, KindsAre DEF PlacedNow, Placed
    <2>3. /\ q \in Seq(TasksOf("ion")) /\ Elements(q) = Elements(work["ion"]) \ pending
          /\ Distinct(q)
      BY <2>2, AllRemoved
    <2>4. pending \subseteq Elements(work["ion"])
      BY DEF Pending, Queued, Elements
    <2> HIDE DEF pending, q
    <2>5. Elements(work["ion"]) \subseteq TasksOf("ion")
      BY <2>2 DEF Elements
    <2>6. F \subseteq TasksOf("ion") /\ F \cap Elements(q) = {}
      BY <1>0, <1>a, <2>3, <2>4, <2>5 DEF PlacedNow, Placed
    <2>7. \A h \in Helpers : task[h] \notin Elements(q) /\ task[h] \notin F
      BY <1>0, <1>a, <2>3, <2>4, KindsAre DEF PlacedNow, Placed
    <2> HIDE DEF F
    <2>8. Fits("ion", q, F, parked, task)
      BY <1>0, <2>3, <2>6, <2>7 DEF Fits, PlacedNow, Placed
    <2>9. Replaced(work, work', "ion", q) /\ Replaced(done, done', "ion", F)
      BY <1>0, <1>a, <2>1 DEF Replaced, PlacedNow, Placed
    <2>10. Placed(task, work', done', parked)
      BY <1>0, <1>a, <2>8, <2>9, ListsKeep DEF PlacedNow
    <2> QED
      BY <2>1, <2>10 DEF PlacedNow
  <1>3. ASSUME NEW h \in Helpers, AwaitCancelled(h)
        PROVE  PlacedNow'
    BY <1>0, <1>3 DEF AwaitCancelled, PlacedNow, lists
  <1>4. CASE EndCancel
    <2> DEFINE S == done["ion"] \ cancel
    <2>1. S \in SUBSET done["ion"] /\ done' = [done EXCEPT !["ion"] = S] /\ UNCHANGED <<task, work, parked>>
      BY <1>4 DEF EndCancel
    <2> HIDE DEF S
    <2> QED
      BY <1>0, <1>a, <2>1, DoneShrinks
  <1>5. CASE AwaitAllThreads
    BY <1>0, <1>5 DEF AwaitAllThreads, Sleep, PlacedNow, lists
  <1> QED
    BY <1>1, <1>2, <1>3, <1>4, <1>5 DEF IonStep, Cancel, WaitForAllThreads

\* A sequence that names every element of a set once.
LEMMA Permutation ==
  ASSUME NEW S, IsFiniteSet(S), NEW q \in [1 .. Cardinality(S) -> S],
         \A i, j \in DOMAIN q : q[i] = q[j] => i = j
  PROVE  q \in Seq(S) /\ Distinct(q) /\ Elements(q) \subseteq S
  <1>1. Cardinality(S) \in Nat
    BY FS_CardinalityType
  <1>2. q \in Seq(S)
    BY <1>1, FunctionIsSequence
  <1> QED
    BY <1>2 DEF Distinct, Elements

\* Steps that deal with parses leave every task in one place.
LEMMA ParsesPlace ==
  ASSUME HInv, ParseStep
  PROVE  PlacedNow'
  <1>0. PlacedNow
    BY DEF HInv
  <1>a. "parse" \in Finishing /\ "parse" \in Kinds /\ TasksOf("parse") = Parses
    BY KindsAre, KindsOfTasks DEF Finishing
  <1>b. /\ task \in [Helpers -> Tasks \cup {None}] /\ DOMAIN work = Kinds /\ DOMAIN done = Finishing
        /\ work["parse"] \in Seq(Parses) /\ Distinct(work["parse"]) /\ done["parse"] \subseteq Parses
        /\ parked \subseteq Parses /\ done["parse"] \cap Elements(work["parse"]) = {}
        /\ parked \cap (Elements(work["parse"]) \cup done["parse"]) = {}
        /\ \A h \in Helpers : task[h] \notin Elements(work["parse"]) /\ task[h] \notin done["parse"] /\ task[h] \notin parked
    BY <1>0, <1>a DEF PlacedNow, Placed
  <1>1. ASSUME NEW p \in Parses, StartParse(p) \/ MergeParse(p)
        PROVE  PlacedNow'
    <2>1. CASE StartParse(p) /\ MustWaitForGC
      <3> DEFINE q == work["parse"]
                 S == done["parse"]
                 Q == parked \cup {p}
      <3>1. Unused("parse", p) /\ parked' = Q /\ UNCHANGED <<task, work, done>>
        BY <2>1 DEF StartParse
      <3>2. p \notin Elements(q) /\ (\A h \in Helpers : task[h] # p) /\ p \notin S
        BY <1>0, <1>a, <3>1, UnusedIsNowhere
      <3>3. Replaced(work, work', "parse", q) /\ Replaced(done, done', "parse", S)
        BY <3>1 DEF Replaced
      <3>4. Fits("parse", q, S, Q, task)
        BY <1>a, <1>b, <3>2 DEF Fits
      <3> HIDE DEF q, S, Q
      <3>5. Placed(task, work', done', Q)
        BY <1>0, <1>a, <3>3, <3>4, ListsKeep DEF PlacedNow
      <3> QED
        BY <3>1, <3>5 DEF PlacedNow
    <2>2. CASE StartParse(p) /\ ~MustWaitForGC
      BY <1>0, <1>a, <2>2, UnusedStarts DEF StartParse
    <2>3. CASE MergeParse(p)
      <3> DEFINE S == done["parse"] \ {p}
      <3>1. S \in SUBSET done["parse"] /\ done' = [done EXCEPT !["parse"] = S] /\ UNCHANGED <<task, work, parked>>
        BY <2>3 DEF MergeParse
      <3> HIDE DEF S
      <3> QED
        BY <1>0, <1>a, <3>1, DoneShrinks
    <2> QED
      BY <1>1, <2>1, <2>2, <2>3
  <1>2. CASE CancelParses \/ BeginAtomsGC
    <2>1. UNCHANGED <<task, lists>>
      BY <1>2 DEF CancelParses, BeginAtomsGC
    <2> QED
      BY <1>0, <2>1 DEF PlacedNow, lists
  <1>3. CASE AwaitParses
    <2>1. CASE UNCHANGED <<task, lists>>
      BY <1>0, <2>1 DEF PlacedNow, lists
    <2>2. CASE done' = [done EXCEPT !["parse"] = {}] /\ UNCHANGED <<task, work, parked>>
      <3> DEFINE S == {}
      <3>1. S \in SUBSET done["parse"] /\ done' = [done EXCEPT !["parse"] = S]
        BY <2>2
      <3> HIDE DEF S
      <3> QED
        BY <1>0, <1>a, <2>2, <3>1, DoneShrinks
    <2> QED
      BY <1>3, <2>1, <2>2 DEF AwaitParses, Sleep
  <1>4. CASE EndAtomsGC
    <2>1. PICK r \in [1 .. Cardinality(parked) -> parked] :
            (\A i, j \in DOMAIN r : r[i] = r[j] => i = j) /\ work' = [work EXCEPT !["parse"] = @ \o r]
      BY <1>4 DEF EndAtomsGC
    <2>2. UNCHANGED <<task, done>> /\ parked' = {}
      BY <1>4 DEF EndAtomsGC
    <2>3. IsFiniteSet(parked)
      BY <1>b, PoolAssumption, FS_Subset
    <2>4. r \in Seq(parked) /\ Distinct(r) /\ Elements(r) \subseteq parked
      BY <2>1, <2>3, Permutation
    <2>5. r \in Seq(Parses)
      BY <1>b, <2>4
    <2> DEFINE q == work["parse"] \o r
               S == done["parse"]
               Q == {}
    <2>6. q \in Seq(Parses) /\ Elements(q) = Elements(work["parse"]) \cup Elements(r)
          /\ (Distinct(work["parse"]) /\ Distinct(r) /\ Elements(work["parse"]) \cap Elements(r) = {} => Distinct(q))
      BY <1>b, <2>5, ListsInARow
    <2>7. Replaced(work, work', "parse", q) /\ Replaced(done, done', "parse", S)
      BY <1>a, <1>b, <2>1, <2>2 DEF Replaced
    <2> HIDE DEF q
    <2>8. Distinct(q)
      BY <1>b, <2>4, <2>6
    <2>9. Fits("parse", q, S, Q, task)
      BY <1>a, <1>b, <2>4, <2>6, <2>8 DEF Fits
    <2> HIDE DEF S, Q
    <2>10. Placed(task, work', done', Q)
      BY <1>0, <1>a, <2>7, <2>9, ListsKeep DEF PlacedNow
    <2>11. parked' = Q
      BY <2>2 DEF Q
    <2> QED
      BY <2>2, <2>10, <2>11 DEF PlacedNow
  <1> QED
    BY <1>1, <1>2, <1>3, <1>4 DEF ParseStep

\* Steps of the collector, and those of the shutdown, leave every task in one place.
LEMMA CollectionsPlace ==
  ASSUME HInv, GCStep \/ ShutdownStep
  PROVE  PlacedNow'
  <1>0. PlacedNow /\ Dispatched
    BY DEF HInv
  <1>1. CASE BeginSession \/ JoinAlloc \/ JoinSweepTasks \/ WaitBackgroundSweepEnd \/ EndSession
    <2>1. UNCHANGED <<task, lists>>
      BY <1>1 DEF BeginSession, JoinAlloc, JoinSweepTasks, Join, Sleep, WaitBackgroundSweepEnd, EndSession
    <2> QED
      BY <1>0, <2>1 DEF PlacedNow, lists
  <1>2. CASE FreeMallocedBuffers
    <2>1. CASE gcTask[BufferTask] = "Dispatched"
      BY <1>0, <1>2, <2>1 DEF FreeMallocedBuffers, Sleep, PlacedNow, lists
    <2>2. CASE gcTask[BufferTask] # "Dispatched"
      <3>1. BufferTask # None
        BY <1>0, <1>2 DEF FreeMallocedBuffers, Dispatched, In
      <3>2. BufferTask \in GCTasks
        BY <3>1 DEF GCTasks
      <3>3. work' = [work EXCEPT !["gcparallel"] = Append(@, BufferTask)] /\ UNCHANGED <<task, done, parked>>
        BY <1>2, <2>2 DEF FreeMallocedBuffers, Start
      <3> QED
        BY <1>0, <2>2, <3>2, <3>3, IdleStarts
    <2> QED
      BY <2>1, <2>2
  <1>3. CASE StartSweepAtoms
    <2>1. AtomsTask \in GCTasks /\ gcTask[AtomsTask] # "Dispatched"
      BY <1>0, <1>3 DEF StartSweepAtoms, GCTasks, Dispatched, In
    <2>2. work' = [work EXCEPT !["gcparallel"] = Append(@, AtomsTask)] /\ UNCHANGED <<task, done, parked>>
      BY <1>3 DEF StartSweepAtoms, Start
    <2> QED
      BY <1>0, <2>1, <2>2, IdleStarts
  <1>4. CASE StartSweepTasks
    <2>1. PICK q \in [1 .. Cardinality(SweepTasks) -> SweepTasks] :
            (\A i, j \in DOMAIN q : q[i] = q[j] => i = j) /\ work' = [work EXCEPT !["gcparallel"] = @ \o q]
      BY <1>4 DEF StartSweepTasks
    <2>2. q \in Seq(SweepTasks) /\ Distinct(q) /\ Elements(q) \subseteq SweepTasks
      BY <2>1, PoolAssumption, Permutation
    <2>3. SweepTasks \subseteq GCTasks
      BY DEF GCTasks
    <2>4. q \in Seq(GCTasks)
      BY <2>2, <2>3
    <2>5. \A t \in SweepTasks : gcTask[t] # "Dispatched"
      BY <1>0, <1>4 DEF StartSweepTasks, Dispatched, In
    <2>6. \A t \in SweepTasks : t \notin Elements(work["gcparallel"]) /\ \A h \in Helpers : task[h] # t
      BY <1>0, <2>3, <2>5, IdleIsNowhere
    <2>7. Elements(q) \cap Elements(work["gcparallel"]) = {} /\ \A h \in Helpers : task[h] \notin Elements(q)
      BY <2>2, <2>6
    <2>8. UNCHANGED <<task, done, parked>>
      BY <1>4 DEF StartSweepTasks
    <2> QED
      BY <1>0, <2>1, <2>2, <2>4, <2>7, <2>8, StartAllKeeps DEF PlacedNow
  <1>5. CASE StartBackgroundSweep
    <2>1. GCHelper # None /\ work' = [work EXCEPT !["gchelper"] = Append(@, GCHelper)] /\ UNCHANGED <<task, done, parked>>
      BY <1>5 DEF StartBackgroundSweep
    <2>2. "gchelper" \in Kinds \ {"parse"} /\ "gchelper" \notin Finishing /\ GCHelper \in TasksOf("gchelper")
      BY <2>1, KindsAre, KindsOfTasks DEF Finishing
    <2>3. GCHelper \notin parked
      BY <1>0, <2>2, IsNoParse
    <2> QED
      BY <1>0, <2>1, <2>2, <2>3, StartsInPlace
  <1>6. CASE ShutdownStep
    <2>1. UNCHANGED <<task, lists>>
      BY <1>6 DEF ShutdownStep, Shutdown, EndShutdown, DestroyHelper
    <2> QED
      BY <1>0, <2>1 DEF PlacedNow, lists
  <1> QED
    BY <1>1, <1>2, <1>3, <1>4, <1>5, <1>6 DEF GCStep

-----------------------------------------------------------------------------
(* Where a helper is says what it holds, and only compilations are paused.   *)

\* Waking helpers changes nothing of that.
LEMMA WakeHolds ==
  ASSUME NEW T, NEW p, Held(pc, T, p), NEW W
  PROVE  Held(Wake(W), T, p)
  <1>1. \A h \in Helpers : Wake(W)[h] = CASE h \in W /\ pc[h] = "wait" -> "loop"
                                          [] h \in W /\ pc[h] = "starved" -> "refill"
                                          [] h \in W /\ pc[h] = "paused" -> "resume"
                                          [] OTHER -> pc[h]
    BY DEF Wake
  <1>2. DOMAIN Wake(W) = Helpers /\ Wake(W) = [h \in Helpers |-> Wake(W)[h]]
    BY DEF Wake
  <1> DEFINE w == Wake(W)
  <1> HIDE DEF w
  <1>3. \A h \in Helpers : w[h] = pc[h] \/ (pc[h] = "wait" /\ w[h] = "loop")
          \/ (pc[h] = "starved" /\ w[h] = "refill") \/ (pc[h] = "paused" /\ w[h] = "resume")
    BY <1>1 DEF w
  <1>4. \A h \in Helpers : w[h] \in PCs
    BY <1>3 DEF PCs, Held
  <1>5. w \in [Helpers -> PCs]
    BY <1>2, <1>4 DEF w
  <1>6. \A h \in Helpers : HeldAt(h, w, T, p)
    BY <1>3 DEF Held, HeldAt
  <1> QED
    BY <1>5, <1>6 DEF Held, w

\* Nor does a flag that is reset when all paused helpers are woken.
LEMMA UnpauseHolds ==
  ASSUME NEW T, NEW p, Held(pc, T, p), NEW other \in Helpers
  PROVE  Held(PausedWoken, T, [p EXCEPT ![other] = FALSE])
  <1> DEFINE w == PausedWoken
             n == [p EXCEPT ![other] = FALSE]
  <1>1. Held(w, T, p)
    BY WakeHolds DEF PausedWoken
  <1>2. \A h \in Helpers : w[h] # "paused"
    BY DEF PausedWoken, PauseWaiters, Wake
  <1>3. n \in [Helpers -> BOOLEAN] /\ \A h \in Helpers : n[h] => p[h]
    BY DEF Held
  <1> HIDE DEF w, n
  <1>4. Held(w, T, n)
    BY <1>1, <1>2, <1>3 DEF Held, HeldAt
  <1> QED
    BY <1>4 DEF w, n

\* One helper moves on, holding what it held.
LEMMA MovesOnHolds ==
  ASSUME NEW T, NEW p, NEW q, Held(q, T, p), NEW h \in Helpers, NEW x \in PCs,
         HeldAt(h, [q EXCEPT ![h] = x], T, p)
  PROVE  Held([q EXCEPT ![h] = x], T, p)
  <1> DEFINE w == [q EXCEPT ![h] = x]
  <1>1. w \in [Helpers -> PCs] /\ (\A g \in Helpers : g # h => w[g] = q[g]) /\ p \in [Helpers -> BOOLEAN]
    BY DEF Held
  <1>2. HeldAt(h, w, T, p)
    OBVIOUS
  <1> HIDE DEF w
  <1>3. Held(w, T, p)
    BY <1>1, <1>2 DEF Held, HeldAt
  <1> QED
    BY <1>3 DEF w

\* Steps of the helpers keep it.
LEMMA HelpersHold ==
  ASSUME HInv, NEW h \in Helpers, HelperStep(h)
  PROVE  HeldNow'
  <1>0. /\ PlacedNow /\ HeldNow /\ HeldAt(h, pc, task, pause) /\ task \in [Helpers -> Tasks \cup {None}]
        /\ pc \in [Helpers -> PCs] /\ pause \in [Helpers -> BOOLEAN]
        /\ \A g \in Helpers : HeldAt(g, pc, task, pause)
    BY DEF HInv, HeldNow, Held, PlacedNow, Placed
  <1> DEFINE T == [task EXCEPT ![h] = None]
             p == [pause EXCEPT ![h] = FALSE]
  <1>1. T[h] = None /\ (\A g \in Helpers : g # h => T[g] = task[g])
        /\ p \in [Helpers -> BOOLEAN] /\ ~p[h] /\ (\A g \in Helpers : g # h => p[g] = pause[g])
    BY <1>0
  <1>2. Placed(T, work, done, parked)
    BY <1>0, LetsGoKeeps DEF PlacedNow
  <1>3. \A g \in Helpers : g # h => HeldAt(g, pc, T, p)
    BY <1>0, <1>1 DEF HeldAt
  <1> HIDE DEF T, p
  <1>4. ASSUME NEW s, s.task = T, ThreadLoop(h, s), s.pc \in [Helpers -> PCs],
               s.pause \in [Helpers -> BOOLEAN], ~s.pause[h],
               \A g \in Helpers : g # h => HeldAt(g, s.pc, s.task, s.pause)
        PROVE  HeldNow'
    <2>1. Placed(s.task, work, done, parked) /\ s.task[h] = None
      BY <1>1, <1>2, <1>4
    <2>2. Held(pc', task', pause')
      BY <1>4, <2>1, ThreadLoopHolds
    <2> QED
      BY <2>2 DEF HeldNow
  <1>5. ASSUME NEW s, s.task = T, s.pc = pc, s.pause = p, ThreadLoop(h, s)
        PROVE  HeldNow'
    <2>1. s.pc \in [Helpers -> PCs] /\ s.pause \in [Helpers -> BOOLEAN] /\ ~s.pause[h]
      BY <1>0, <1>1, <1>5
    <2>2. \A g \in Helpers : g # h => HeldAt(g, s.pc, s.task, s.pause)
      BY <1>3, <1>5
    <2> QED
      BY <1>4, <1>5, <2>1, <2>2
  <1>6. CASE Look(h)
    <2>1. task[h] = None /\ ~pause[h]
      BY <1>0, <1>6, ClassesAreApart DEF Look, HeldAt
    <2>a. T = task
      BY <1>0, <2>1 DEF T
    <2>b. p = pause
      <3>1. pause[h] = FALSE
        BY <1>0, <2>1
      <3> QED
        BY <1>0, <3>1 DEF p
    <2>2. Now.task = T /\ Now.pc = pc /\ Now.pause = p
      BY <2>a, <2>b, ResetState
    <2>3. ThreadLoop(h, Now)
      BY <1>6 DEF Look
    <2> QED
      BY <1>5, <2>2, <2>3
  <1>7. CASE ThreadLoop(h, Reset(h))
    <2>1. Reset(h).task = T /\ Reset(h).pc = pc /\ Reset(h).pause = p
      BY ResetState DEF T, p
    <2> QED
      BY <1>5, <1>7, <2>1
  <1>8. CASE FinishIon(h)
    <2>1. ASSUME NEW other \in HighestPaused(Reset(h)),
                 ThreadLoop(h, [Reset(h) EXCEPT !.pause[other] = FALSE, !.pc = PausedWoken])
          PROVE  HeldNow'
      <3> DEFINE s == [Reset(h) EXCEPT !.pause[other] = FALSE, !.pc = PausedWoken]
                 n == [pause EXCEPT ![other] = FALSE]
      <3>1. s.task = T /\ s.pc = PausedWoken /\ s.pause = [p EXCEPT ![other] = FALSE]
        BY DEF Reset, Now, T, p
      <3>2. other \in Helpers
        BY DEF HighestPaused, On
      <3>3. ThreadLoop(h, s)
        BY <2>1
      <3> HIDE DEF s
      <3>4. Held(PausedWoken, task, n)
        BY <1>0, <3>2, UnpauseHolds DEF HeldNow
      <3>5. s.pause \in [Helpers -> BOOLEAN] /\ ~s.pause[h] /\ \A g \in Helpers : g # h => s.pause[g] = n[g]
        BY <1>0, <1>1, <3>1, <3>2
      <3> HIDE DEF n
      <3>6. s.pc \in [Helpers -> PCs]
        BY <3>1, <3>4 DEF Held
      <3>7. ASSUME NEW g \in Helpers, g # h
            PROVE  HeldAt(g, s.pc, s.task, s.pause)
        <4>1. HeldAt(g, PausedWoken, task, n)
          BY <3>4 DEF Held
        <4>2. s.task[g] = task[g] /\ s.pause[g] = n[g] /\ s.pc = PausedWoken
          BY <1>1, <3>1, <3>5, <3>7
        <4> HIDE DEF PausedWoken
        <4> QED
          BY <4>1, <4>2 DEF HeldAt
      <3> QED
        BY <1>4, <3>1, <3>3, <3>5, <3>6, <3>7
    <2> QED
      BY <1>7, <1>8, <2>1 DEF FinishIon
  <1>9. CASE FinishWasm(h)
    <2> DEFINE s == [Reset(h) EXCEPT !.failed = failed']
    <2>1. s.task = T /\ s.pc = pc /\ s.pause = p
      BY DEF Reset, Now, T, p
    <2>2. ThreadLoop(h, s)
      BY <1>9 DEF FinishWasm
    <2> HIDE DEF s
    <2> QED
      BY <1>5, <2>1, <2>2
  <1>10. CASE FinishParse(h) \/ FinishCompression(h) \/ FinishGCTask(h) \/ FinishGCHelper(h)
    BY <1>7, <1>10 DEF FinishParse, FinishCompression, FinishGCTask, FinishGCHelper
  <1>11. ASSUME NEW x \in PCs, pc' = [pc EXCEPT ![h] = x], UNCHANGED <<task, pause>>,
                HeldAt(h, [pc EXCEPT ![h] = x], task, pause)
         PROVE  HeldNow'
    BY <1>0, <1>11, MovesOnHolds DEF HeldNow
  <1>12. CASE PauseCompile(h)
    <2> DEFINE x == "paused"
    <2>1. pc' = [pc EXCEPT ![h] = x] /\ UNCHANGED <<task, pause>> /\ x \in PCs
      BY <1>12 DEF PauseCompile, PCs
    <2>2. HeldAt(h, [pc EXCEPT ![h] = x], task, pause)
      BY <1>0, <1>12, ClassesAreApart DEF PauseCompile, HeldAt, Works
    <2> HIDE DEF x
    <2> QED
      BY <1>11, <2>1, <2>2
  <1>13. CASE Resume(h)
    <2> DEFINE x == IF pause[h] THEN "paused" ELSE "work"
    <2>1. pc' = [pc EXCEPT ![h] = x] /\ UNCHANGED <<task, pause>> /\ x \in PCs
      BY <1>13 DEF Resume, PCs
    <2>2. HeldAt(h, [pc EXCEPT ![h] = x], task, pause)
      BY <1>0, <1>13, ClassesAreApart DEF Resume, HeldAt
    <2> HIDE DEF x
    <2> QED
      BY <1>11, <2>1, <2>2
  <1>14. CASE EndSweeping(h)
    <2> DEFINE x == "swept"
    <2>1. pc' = [pc EXCEPT ![h] = x] /\ UNCHANGED <<task, pause>> /\ x \in PCs
      BY <1>14 DEF EndSweeping, PCs
    <2>2. task[h] = GCHelper /\ task[h] # None
      BY <1>0, <1>14, WorksOn, KindsOfTasks DEF EndSweeping
    <2>3. HeldAt(h, [pc EXCEPT ![h] = x], task, pause)
      BY <1>0, <2>2, ClassesAreApart DEF HeldAt
    <2> HIDE DEF x
    <2> QED
      BY <1>11, <2>1, <2>3
  <1>15. CASE RefillFreeList(h)
    <2>1. task[h] \in Parses
      BY <1>0, <1>15, WorksOn, KindsOfTasks DEF RefillFreeList, HeldAt
    <2>2. PICK x \in {"starved", "work", "refilled"} : pc' = [pc EXCEPT ![h] = x]
      BY <1>15 DEF RefillFreeList
    <2>3. x \in PCs /\ UNCHANGED <<task, pause>>
      BY <1>15 DEF RefillFreeList, PCs
    <2>4. HeldAt(h, [pc EXCEPT ![h] = x], task, pause)
      BY <1>0, <2>1, ClassesAreApart DEF HeldAt
    <2> QED
      BY <1>11, <2>2, <2>3, <2>4
  <1> QED
    BY <1>6, <1>8, <1>9, <1>10, <1>12, <1>13, <1>14, <1>15 DEF HelperStep

\* The other steps wake helpers, or leave them alone.
LEMMA OthersHold ==
  ASSUME HInv, (\E c \in Clients : ClientStep(c)) \/ IonStep \/ ParseStep \/ GCStep \/ ShutdownStep
  PROVE  HeldNow'
  <1>0. HeldNow /\ PlacedNow
    BY DEF HInv
  <1>1. ASSUME NEW W, pc' = Wake(W), UNCHANGED <<task, pause>>
        PROVE  HeldNow'
    BY <1>0, <1>1, WakeHolds DEF HeldNow
  <1>2. CASE UNCHANGED <<pc, task, pause>>
    BY <1>0, <1>2 DEF HeldNow
  <1>3. ASSUME NEW n, NotifyEach(n), UNCHANGED <<task, pause>>
        PROVE  HeldNow'
    BY <1>1, <1>3 DEF NotifyEach
  <1>4. ASSUME NEW c \in Clients, ClientStep(c)
        PROVE  HeldNow'
    <2>1. CASE StartModule(c) \/ LeaveGenerate(c) \/ EndModule(c) \/ BeginComplete(c) \/ DrainModule(c)
      BY <1>2, <2>1 DEF StartModule, LeaveGenerate, EndModule, BeginComplete, DrainModule
    <2>2. CASE SubmitFunction(c)
      BY <1>3, <2>2 DEF SubmitFunction, Start
    <2>3. CASE FinishOutstanding(c) \/ Complete(c)
      BY <1>2, <2>3 DEF FinishOutstanding, Complete, Sleep
    <2>4. CASE StartOffThreadCompression(c)
      BY <1>3, <2>4 DEF StartOffThreadCompression, Start
    <2>5. CASE StartAlloc(c)
      <3>1. UNCHANGED <<task, pause>>
        BY <2>5 DEF StartAlloc
      <3>2. PICK W : pc' = (IF c = Main THEN pc ELSE [pc EXCEPT ![c] = "work"])
                     \/ pc' = (IF c = Main THEN Wake(W) ELSE [Wake(W) EXCEPT ![c] = "work"])
        BY <2>5 DEF StartAlloc
      <3>3. CASE c = Main
        BY <1>1, <1>2, <3>1, <3>2, <3>3
      <3>4. CASE c # Main
        <4>1. c \in Helpers /\ pc[c] = "refilled"
          BY <2>5, <3>4 DEF StartAlloc, Clients
        <4>2. ASSUME NEW q, Held(q, task, pause)
              PROVE  Held([q EXCEPT ![c] = "work"], task, pause)
          <5> DEFINE x == "work"
          <5>1. task[c] \in Parses /\ x \in PCs
            BY <1>0, <4>1 DEF HeldNow, Held, HeldAt, PCs
          <5>2. HeldAt(c, [q EXCEPT ![c] = x], task, pause)
            BY <4>1, <4>2, <5>1, ClassesAreApart DEF Held, HeldAt
          <5> HIDE DEF x
          <5>3. Held([q EXCEPT ![c] = x], task, pause)
            BY <4>1, <4>2, <5>1, <5>2, MovesOnHolds
          <5> QED
            BY <5>3 DEF x
        <4>3. Held(Wake(W), task, pause) /\ Held(pc, task, pause)
          BY <1>0, WakeHolds DEF HeldNow
        <4>4. Held([Wake(W) EXCEPT ![c] = "work"], task, pause) /\ Held([pc EXCEPT ![c] = "work"], task, pause)
          BY <4>2, <4>3
        <4>5. pc' = [Wake(W) EXCEPT ![c] = "work"] \/ pc' = [pc EXCEPT ![c] = "work"]
          BY <3>2, <3>4
        <4> QED
          BY <3>1, <4>4, <4>5 DEF HeldNow
      <3> QED
        BY <3>3, <3>4
    <2> QED
      BY <1>4, <2>1, <2>2, <2>3, <2>4, <2>5 DEF ClientStep
  <1>5. CASE IonStep
    <2>1. ASSUME NEW b \in Builders, WarmUp(b) \/ AttachFinished(b)
          PROVE  HeldNow'
      BY <1>2, <2>1 DEF WarmUp, AttachFinished
    <2>2. ASSUME NEW b \in Builders, StartOffThreadIonCompile(b)
          PROVE  HeldNow'
      BY <1>3, <2>2 DEF StartOffThreadIonCompile, Start
    <2>3. ASSUME NEW S, NEW o, BeginCancel(S, o)
          PROVE  HeldNow'
      BY <1>2, <2>3 DEF BeginCancel
    <2>4. ASSUME NEW h \in Helpers, AwaitCancelled(h)
          PROVE  HeldNow'
      <3>1. UNCHANGED task
        BY <2>4 DEF AwaitCancelled
      <3>2. CASE pause' = [pause EXCEPT ![h] = FALSE] /\ pc' = PausedWoken
        BY <1>0, <3>1, <3>2, UnpauseHolds DEF HeldNow
      <3> QED
        BY <1>2, <2>4, <3>1, <3>2 DEF AwaitCancelled
    <2>5. CASE EndCancel \/ AwaitAllThreads
      BY <1>2, <2>5 DEF EndCancel, AwaitAllThreads, Sleep
    <2> QED
      BY <1>5, <2>1, <2>2, <2>3, <2>4, <2>5 DEF IonStep, Cancel, WaitForAllThreads
  <1>6. CASE ParseStep
    <2>1. ASSUME NEW p \in Parses, StartParse(p)
          PROVE  HeldNow'
      BY <1>2, <1>3, <2>1 DEF StartParse, Start
    <2>2. ASSUME NEW p \in Parses, MergeParse(p)
          PROVE  HeldNow'
      BY <1>2, <2>2 DEF MergeParse
    <2>3. CASE CancelParses \/ AwaitParses \/ BeginAtomsGC
      BY <1>2, <2>3 DEF CancelParses, AwaitParses, BeginAtomsGC, Sleep
    <2>4. CASE EndAtomsGC
      BY <1>1, <1>2, <2>4 DEF EndAtomsGC, NotifyAllProducers
    <2> QED
      BY <1>6, <2>1, <2>2, <2>3, <2>4 DEF ParseStep
  <1>7. CASE GCStep
    <2>1. CASE BeginSession \/ JoinAlloc \/ JoinSweepTasks \/ WaitBackgroundSweepEnd
      BY <1>2, <2>1 DEF BeginSession, JoinAlloc, JoinSweepTasks, Join, Sleep, WaitBackgroundSweepEnd
    <2>2. CASE FreeMallocedBuffers
      BY <1>2, <1>3, <2>2 DEF FreeMallocedBuffers, Start, Sleep
    <2>3. CASE StartSweepAtoms \/ StartSweepTasks
      BY <1>3, <2>3 DEF StartSweepAtoms, StartSweepTasks, Start
    <2>4. CASE StartBackgroundSweep \/ EndSession
      BY <1>1, <2>4 DEF StartBackgroundSweep, EndSession, NotifyAllProducers
    <2> QED
      BY <1>7, <2>1, <2>2, <2>3, <2>4 DEF GCStep
  <1>8. CASE ShutdownStep
    BY <1>1, <1>2, <1>8 DEF ShutdownStep, Shutdown, EndShutdown, DestroyHelper, NotifyAllProducers
  <1> QED
    BY <1>4, <1>5, <1>6, <1>7, <1>8

-----------------------------------------------------------------------------
(* Types of the other variables.                                             *)

\* An operation of a client is one of those there are.
LEMMA GotoTypes ==
  ASSUME RestTypes, NEW c \in Clients, NEW o \in OPs, Goto(c, o)
  PROVE  op' \in [Clients -> OPs]
  BY DEF RestTypes, Goto

\* Steps of the helpers keep the types.
LEMMA HelpersRest ==
  ASSUME HInv, NEW h \in Helpers, HelperStep(h)
  PROVE  RestTypes'
  <1>0. RestTypes /\ h \in Clients
    BY DEF HInv, Clients
  <1>1. UNCHANGED <<mainOnly, heapBusy, atomsGC>>
    BY DEF HelperStep, Look, PauseCompile, Resume, FinishIon, FinishWasm, FinishParse,
           FinishCompression, FinishGCTask, EndSweeping, FinishGCHelper, RefillFreeList, gc
  <1>2. asleep' = asleep \/ asleep' = {}
    BY DEF HelperStep, Look, PauseCompile, Resume, FinishIon, FinishWasm, FinishParse,
           FinishCompression, FinishGCTask, EndSweeping, FinishGCHelper, RefillFreeList, NotifyAllConsumers
  <1>3. sweeping' = sweeping \/ sweeping' = FALSE
    BY DEF HelperStep, Look, PauseCompile, Resume, FinishIon, FinishWasm, FinishParse,
           FinishCompression, FinishGCTask, EndSweeping, FinishGCHelper, RefillFreeList, gc
  <1>4. op' = op \/ Goto(h, "none")
    BY DEF HelperStep, Look, PauseCompile, Resume, FinishIon, FinishWasm, FinishParse,
           FinishCompression, FinishGCTask, EndSweeping, FinishGCHelper, RefillFreeList, Goto
  <1>5. op' \in [Clients -> OPs]
    <2>1. "none" \in OPs
      BY DEF OPs
    <2> QED
      BY <1>0, <1>4, <2>1, GotoTypes DEF RestTypes
  <1> QED
    BY <1>0, <1>1, <1>2, <1>3, <1>5 DEF RestTypes, mainOnly

\* Steps of the clients keep the types.
LEMMA ClientsRest ==
  ASSUME HInv, NEW c \in Clients, ClientStep(c)
  PROVE  RestTypes'
  <1>0. RestTypes
    BY DEF HInv
  <1>1. UNCHANGED <<terminate, cancel, rank, sweeping, heapBusy, atomsGC>>
    BY DEF ClientStep, StartModule, SubmitFunction, LeaveGenerate, FinishOutstanding, DrainModule, EndModule,
           StartOffThreadCompression, BeginComplete, Complete, StartAlloc, Sleep, gc, mainOnly
  <1>2. asleep' = asleep \/ asleep' = asleep \cup {c}
    BY DEF ClientStep, StartModule, SubmitFunction, LeaveGenerate, FinishOutstanding, DrainModule, EndModule,
           StartOffThreadCompression, BeginComplete, Complete, StartAlloc, Sleep
  <1>3. compressing' = compressing \/ compressing' = compressing \cup {c} \/ compressing' = compressing \ {c}
    BY DEF ClientStep, StartModule, SubmitFunction, LeaveGenerate, FinishOutstanding, DrainModule, EndModule,
           StartOffThreadCompression, BeginComplete, Complete, StartAlloc, Sleep, mainOnly
  <1>4. op' = op \/ \E o \in OPs : Goto(c, o)
    <2>1. {"generate", "outstanding", "ending", "drain", "none", "complete", "compiled"} \subseteq OPs
      BY DEF OPs, Blocking
    <2> QED
      BY <2>1 DEF ClientStep, StartModule, SubmitFunction, LeaveGenerate, FinishOutstanding, DrainModule, EndModule,
           StartOffThreadCompression, BeginComplete, Complete, StartAlloc, Sleep
  <1>5. op' \in [Clients -> OPs]
    BY <1>0, <1>4, GotoTypes DEF RestTypes
  <1> QED
    BY <1>0, <1>1, <1>2, <1>3, <1>5 DEF RestTypes

\* The other steps keep the types.
LEMMA OthersRest ==
  ASSUME HInv, IonStep \/ ParseStep \/ GCStep \/ ShutdownStep
  PROVE  RestTypes'
  <1>0. RestTypes /\ Main \in Clients /\ rank \in [Builders -> 0..MaxRank] /\ MaxRank \in Nat
    BY PoolAssumption DEF HInv, Clients, RestTypes
  <1>1. ASSUME UNCHANGED <<terminate, rank, compressing>>,
               cancel' \subseteq Builders, asleep' = asleep \/ asleep' = asleep \cup {Main},
               op' = op \/ \E o \in OPs : Goto(Main, o),
               sweeping' \in BOOLEAN, heapBusy' \in BOOLEAN, atomsGC' \in BOOLEAN
        PROVE  RestTypes'
    <2>1. op' \in [Clients -> OPs]
      BY <1>0, <1>1, GotoTypes DEF RestTypes
    <2> QED
      BY <1>0, <1>1, <2>1 DEF RestTypes
  <1>2. cancel \subseteq Builders /\ sweeping \in BOOLEAN /\ heapBusy \in BOOLEAN /\ atomsGC \in BOOLEAN
    BY <1>0 DEF RestTypes
  <1>3. {"cancel", "cancelAll", "waitAll", "none", "cancelParses", "buffers", "joinAlloc", "minor", "collect",
         "joinSweep", "sweepAtoms", "sweepEnd", "sweepEndInGC", "shutdown", "ended"} \subseteq OPs
    BY DEF OPs, Blocking
  <1>4. CASE IonStep
    <2>1. ASSUME NEW b \in Builders, WarmUp(b)
          PROVE  RestTypes'
      <3>1. rank' = [rank EXCEPT ![b] = @ + 1] /\ rank[b] < MaxRank
            /\ UNCHANGED <<terminate, cancel, compressing, gc, op, asleep>>
        BY <2>1 DEF WarmUp
      <3>2. rank' \in [Builders -> 0..MaxRank]
        BY <1>0, <3>1
      <3> QED
        BY <1>0, <3>1, <3>2 DEF RestTypes, gc
    <2>2. ASSUME NEW b \in Builders, StartOffThreadIonCompile(b) \/ AttachFinished(b)
          PROVE  RestTypes'
      BY <1>1, <1>2, <2>2 DEF StartOffThreadIonCompile, AttachFinished, mainOnly, gc
    <2>3. ASSUME NEW S \in SUBSET Builders, NEW o \in {"cancel", "cancelAll"}, BeginCancel(S, o)
          PROVE  RestTypes'
      BY <1>1, <1>2, <1>3, <2>3 DEF BeginCancel, gc
    <2>4. ASSUME NEW h \in Helpers, AwaitCancelled(h)
          PROVE  RestTypes'
      BY <1>1, <1>2, <2>4 DEF AwaitCancelled, mainOnly, gc
    <2>5. CASE EndCancel
      BY <1>1, <1>2, <1>3, <2>5 DEF EndCancel, gc
    <2>6. CASE AwaitAllThreads
      BY <1>1, <1>2, <1>3, <2>6 DEF AwaitAllThreads, Sleep, mainOnly, gc
    <2>7. \A S \in CancelTargets : S \in SUBSET Builders
      BY PoolAssumption
    <2> QED
      BY <1>4, <2>1, <2>2, <2>3, <2>4, <2>5, <2>6, <2>7 DEF IonStep, Cancel, WaitForAllThreads
  <1>5. CASE ParseStep
    <2>1. ASSUME NEW p \in Parses, StartParse(p) \/ MergeParse(p)
          PROVE  RestTypes'
      BY <1>1, <1>2, <2>1 DEF StartParse, MergeParse, mainOnly, gc
    <2>2. CASE CancelParses \/ AwaitParses \/ BeginAtomsGC \/ EndAtomsGC
      BY <1>1, <1>2, <1>3, <2>2 DEF CancelParses, AwaitParses, BeginAtomsGC, EndAtomsGC, Sleep, mainOnly, gc
    <2> QED
      BY <1>5, <2>1, <2>2 DEF ParseStep
  <1>6. CASE GCStep
    <2>1. CASE BeginSession \/ FreeMallocedBuffers \/ StartSweepAtoms \/ StartSweepTasks \/ StartBackgroundSweep
      BY <1>1, <1>2, <1>3, <2>1 DEF BeginSession, FreeMallocedBuffers, StartSweepAtoms, StartSweepTasks,
           StartBackgroundSweep, Sleep, mainOnly, gc
    <2>2. CASE JoinAlloc \/ JoinSweepTasks \/ WaitBackgroundSweepEnd \/ EndSession
      BY <1>1, <1>2, <1>3, <2>2 DEF JoinAlloc, JoinSweepTasks, Join, WaitBackgroundSweepEnd, EndSession,
           Sleep, mainOnly, gc
    <2> QED
      BY <1>6, <2>1, <2>2 DEF GCStep
  <1>7. CASE ShutdownStep
    <2>1. CASE Shutdown \/ EndShutdown
      BY <1>1, <1>2, <1>3, <2>1 DEF Shutdown, EndShutdown, mainOnly, gc
    <2>2. ASSUME NEW h \in Helpers, DestroyHelper(h)
          PROVE  RestTypes'
      BY <1>0, <2>2 DEF DestroyHelper, RestTypes, gc
    <2> QED
      BY <1>7, <2>1, <2>2 DEF ShutdownStep
  <1> QED
    BY <1>4, <1>5, <1>6, <1>7

-----------------------------------------------------------------------------
(* Which tasks wait or run after a step of a helper.                         *)

Released(h) ==
    /\ \A k \in Kinds : Elements(work'[k]) \subseteq Elements(work[k])
    /\ \A g \in Helpers : \/ g # h /\ task'[g] = task[g]
                          \/ task'[g] = None
                          \/ \E k \in Kinds : task'[g] \in Elements(work[k])

\* A helper only goes on with its task, or lets go of it and takes another.
LEMMA HelpersRelease ==
  ASSUME HInv, NEW h \in Helpers, HelperStep(h)
  PROVE  UNCHANGED <<task, work>> \/ Released(h)
  <1>0. PlacedNow /\ HeldAt(h, pc, task, pause) /\ task \in [Helpers -> Tasks \cup {None}]
    BY DEF HInv, HeldNow, Held, PlacedNow, Placed
  <1> DEFINE T == [task EXCEPT ![h] = None]
  <1>1. T[h] = None /\ (\A g \in Helpers : g # h => T[g] = task[g])
    BY <1>0
  <1>2. Placed(T, work, done, parked)
    BY <1>0, LetsGoKeeps DEF PlacedNow
  <1> HIDE DEF T
  <1>3. ASSUME NEW s, s.task = T, ThreadLoop(h, s)
        PROVE  Released(h)
    <2>1. Placed(s.task, work, done, parked)
      BY <1>2, <1>3
    <2>2. Moves(s)
      BY <1>3, <2>1, ThreadLoopMoves
    <2> QED
      BY <1>1, <1>3, <2>2 DEF Moves, Released
  <1>4. CASE Look(h)
    <2>1. task[h] = None
      BY <1>0, <1>4 DEF Look, HeldAt
    <2>2. T = task
      BY <1>0, <2>1 DEF T
    <2>3. ThreadLoop(h, Now) /\ Now.task = T
      BY <1>4, <2>2, ResetState DEF Look
    <2> QED
      BY <1>3, <2>3
  <1>5. CASE ThreadLoop(h, Reset(h))
    <2>1. Reset(h).task = T
      BY ResetState DEF T
    <2> QED
      BY <1>3, <1>5, <2>1
  <1>6. CASE FinishIon(h)
    <2>1. ASSUME NEW other \in HighestPaused(Reset(h)),
                 ThreadLoop(h, [Reset(h) EXCEPT !.pause[other] = FALSE, !.pc = PausedWoken])
          PROVE  Released(h)
      <3> DEFINE s == [Reset(h) EXCEPT !.pause[other] = FALSE, !.pc = PausedWoken]
      <3>1. s.task = T
        BY DEF Reset, Now, T
      <3>2. ThreadLoop(h, s)
        BY <2>1
      <3> HIDE DEF s
      <3> QED
        BY <1>3, <3>1, <3>2
    <2> QED
      BY <1>5, <1>6, <2>1 DEF FinishIon
  <1>7. CASE FinishWasm(h)
    <2> DEFINE s == [Reset(h) EXCEPT !.failed = failed']
    <2>1. s.task = T
      BY DEF Reset, Now, T
    <2>2. ThreadLoop(h, s)
      BY <1>7 DEF FinishWasm
    <2> HIDE DEF s
    <2> QED
      BY <1>3, <2>1, <2>2
  <1>8. CASE FinishParse(h) \/ FinishCompression(h) \/ FinishGCTask(h) \/ FinishGCHelper(h)
    BY <1>5, <1>8 DEF FinishParse, FinishCompression, FinishGCTask, FinishGCHelper
  <1>9. CASE PauseCompile(h) \/ Resume(h) \/ EndSweeping(h) \/ RefillFreeList(h)
    BY <1>9 DEF PauseCompile, Resume, EndSweeping, RefillFreeList, lists
  <1> QED
    BY <1>4, <1>6, <1>7, <1>8, <1>9 DEF HelperStep

\* A task that waits or runs then did so before, with another helper if it ran.
LEMMA StaysActive ==
  ASSUME HInv, NEW h \in Helpers, Released(h), NEW k \in Kinds, NEW t \in TasksOf(k),
         t \in Elements(work'[k]) \/ \E g \in Helpers : task'[g] = t
  PROVE  t \in Elements(work[k]) \/ \E g \in Helpers : g # h /\ task[g] = t
  <1>1. CASE t \in Elements(work'[k])
    BY <1>1 DEF Released
  <1>2. ASSUME NEW g \in Helpers, task'[g] = t
        PROVE  t \in Elements(work[k]) \/ \E i \in Helpers : i # h /\ task[i] = t
    <2>1. t # None
      BY TasksOfKinds
    <2>2. ASSUME NEW l \in Kinds, t \in Elements(work[l])
          PROVE  l = k
      <3>1. t \in TasksOf(l)
        BY <2>2 DEF HInv, PlacedNow, Placed, Elements
      <3> QED
        BY <3>1, TasksOfKinds
    <2> QED
      BY <1>2, <2>1, <2>2 DEF Released
  <1> QED
    BY <1>1, <1>2

\* Steps of the helpers keep the parallel tasks accounted for.
LEMMA HelpersDispatch ==
  ASSUME HInv, NEW h \in Helpers, HelperStep(h)
  PROVE  Dispatched'
  <1>0. Dispatched /\ RestTypes /\ PlacedNow
    BY DEF HInv
  <1>a. "gcparallel" \in Kinds \ {"gchelper"} /\ TasksOf("gcparallel") = GCTasks
    BY KindsAre, KindsOfTasks
  <1>1. op'[Main] = op[Main]
    <2>1. op' = op \/ op' = [op EXCEPT ![h] = "none"]
      BY DEF HelperStep, Look, PauseCompile, Resume, FinishIon, FinishWasm, FinishParse,
           FinishCompression, FinishGCTask, EndSweeping, FinishGCHelper, RefillFreeList
    <2> QED
      BY <1>0, <2>1, PoolAssumption DEF RestTypes, Clients
  <1>2. ASSUME NEW t \in GCTasks, (t \in Queued("gcparallel") \/ InProgress(t))'
        PROVE  /\ t \in Queued("gcparallel") \/ InProgress(t)
               /\ Released(h) => t # task[h]
    <2>1. t \in Elements(work'["gcparallel"]) \/ \E g \in Helpers : task'[g] = t
      BY <1>2 DEF Queued, InProgress, Elements
    <2>2. CASE UNCHANGED <<task, work>> /\ ~Released(h)
      BY <2>1, <2>2 DEF Queued, InProgress, Elements
    <2>3. CASE Released(h)
      <3>1. t \in Elements(work["gcparallel"]) \/ \E g \in Helpers : g # h /\ task[g] = t
        BY <1>a, <2>1, <2>3, StaysActive
      <3>2. t \notin {None, GCHelper}
        BY ClassesAreApart
      <3> QED
        BY <1>0, <1>a, <3>1, <3>2 DEF Queued, InProgress, Elements, PlacedNow, Placed
    <2> QED
      BY <2>2, <2>3, HelpersRelease
  <1>3. CASE FinishGCTask(h)
    <2>1. /\ gcTask' = [gcTask EXCEPT ![task[h]] = "Finished"] /\ task[h] \in GCTasks
          /\ ThreadLoop(h, Reset(h))
      BY <1>0, <1>3, <1>a, WorksOn DEF FinishGCTask
    <2>2. Released(h)
      <3>1. Placed(Reset(h).task, work, done, parked)
        <4>1. Reset(h).task = [task EXCEPT ![h] = None]
          BY ResetState
        <4>2. Placed([task EXCEPT ![h] = None], work, done, parked)
          BY <1>0, LetsGoKeeps DEF PlacedNow
        <4> QED
          BY <4>1, <4>2
      <3>2. Moves(Reset(h))
        BY <2>1, <3>1, ThreadLoopMoves
      <3>3. Reset(h).task[h] = None /\ \A g \in Helpers : g # h => Reset(h).task[g] = task[g]
        BY <1>0, ResetState DEF PlacedNow, Placed
      <3> QED
        BY <3>2, <3>3 DEF Moves, Released
    <2>3. /\ gcTask' \in [GCTasks -> {"NotStarted", "Dispatched", "Finished"}]
          /\ \A t \in GCTasks : gcTask'[t] = IF t = task[h] THEN "Finished" ELSE gcTask[t]
      BY <1>0, <2>1 DEF Dispatched
    <2>4. \A t \in GCTasks : (t \in Queued("gcparallel") \/ InProgress(t))' => gcTask'[t] = "Dispatched"
      BY <1>0, <1>2, <2>2, <2>3 DEF Dispatched
    <2>5. AtomsTask # None /\ op'[Main] \notin {"sweepAtoms", "joinSweep"} => gcTask'[AtomsTask] # "Dispatched"
      <3>1. AtomsTask # None => AtomsTask \in GCTasks
        BY DEF GCTasks
      <3> QED
        BY <1>0, <1>1, <2>3, <3>1 DEF Dispatched
    <2>6. op'[Main] # "joinSweep" => \A t \in SweepTasks : gcTask'[t] # "Dispatched"
      <3>1. SweepTasks \subseteq GCTasks
        BY DEF GCTasks
      <3> QED
        BY <1>0, <1>1, <2>3, <3>1 DEF Dispatched
    <2>7. op'[Main] = "buffers" => BufferTask # None
      BY <1>0, <1>1 DEF Dispatched
    <2> QED
      BY <2>3, <2>4, <2>5, <2>6, <2>7 DEF Dispatched
  <1>4. CASE gcTask' = gcTask
    BY <1>0, <1>1, <1>2, <1>4 DEF Dispatched
  <1>5. FinishGCTask(h) \/ gcTask' = gcTask
    BY DEF HelperStep, Look, PauseCompile, Resume, FinishIon, FinishWasm, FinishParse,
           FinishCompression, EndSweeping, FinishGCHelper, RefillFreeList, gc
  <1> QED
    BY <1>3, <1>4, <1>5

\* Steps of the helpers keep the sources that are compressed accounted for.
LEMMA HelpersCompress ==
  ASSUME HInv, NEW h \in Helpers, HelperStep(h)
  PROVE  Compressed'
  <1>0. Compressed
    BY DEF HInv
  <1>a. "compress" \in Kinds /\ TasksOf("compress") = Clients
    BY KindsAre, KindsOfTasks
  <1>1. compressing' = compressing
    BY DEF HelperStep, Look, PauseCompile, Resume, FinishIon, FinishWasm, FinishParse,
           FinishCompression, FinishGCTask, EndSweeping, FinishGCHelper, RefillFreeList, mainOnly
  <1>2. ASSUME NEW c \in Clients, CompressionInProgress(c)'
        PROVE  CompressionInProgress(c)
    <2>1. c \in Elements(work'["compress"]) \/ \E g \in Helpers : task'[g] = c
      BY <1>2 DEF CompressionInProgress, Queued, InProgress, Elements
    <2>2. CASE UNCHANGED <<task, work>>
      BY <2>1, <2>2 DEF CompressionInProgress, Queued, InProgress, Elements
    <2>3. CASE Released(h)
      <3>1. c \in Elements(work["compress"]) \/ \E g \in Helpers : g # h /\ task[g] = c
        BY <1>a, <2>1, <2>3, StaysActive
      <3> QED
        BY <3>1 DEF CompressionInProgress, Queued, InProgress, Elements
    <2> QED
      BY <2>2, <2>3, HelpersRelease
  <1> QED
    BY <1>0, <1>1, <1>2 DEF Compressed

\* Steps of the helpers put nothing back that a cancellation matches.
LEMMA HelpersCancel ==
  ASSUME HInv, NEW h \in Helpers, HelperStep(h)
  PROVE  CancelInv'
  <1>0. CancelInv /\ RestTypes
    BY DEF HInv
  <1>1. cancel' = cancel
    BY DEF HelperStep, Look, PauseCompile, Resume, FinishIon, FinishWasm, FinishParse,
           FinishCompression, FinishGCTask, EndSweeping, FinishGCHelper, RefillFreeList, mainOnly
  <1>2. op'[Main] = op[Main]
    <2>1. op' = op \/ op' = [op EXCEPT ![h] = "none"]
      BY DEF HelperStep, Look, PauseCompile, Resume, FinishIon, FinishWasm, FinishParse,
           FinishCompression, FinishGCTask, EndSweeping, FinishGCHelper, RefillFreeList
    <2> QED
      BY <1>0, <2>1, PoolAssumption DEF RestTypes, Clients
  <1>3. Elements(work'["ion"]) \subseteq Elements(work["ion"])
    BY HelpersRelease, KindsAre DEF Released
  <1> QED
    BY <1>0, <1>1, <1>2, <1>3 DEF CancelInv, Queued, Elements

-----------------------------------------------------------------------------
(* The parallel tasks of the collector, in the steps of the others.          *)

\* the main thread stays out of the sweeping of a zone group, and of buffers
MainMoves == op'[Main] = op[Main] \/ (op[Main] \notin {"sweepAtoms", "joinSweep"} /\ op'[Main] # "buffers")

\* A step that starts no parallel task.
LEMMA NoDispatch ==
  ASSUME Dispatched, UNCHANGED <<gcTask, task>>, MainMoves,
         Elements(work'["gcparallel"]) = Elements(work["gcparallel"])
  PROVE  Dispatched'
  <1>1. \A t \in GCTasks : (t \in Queued("gcparallel") \/ InProgress(t))' => t \in Queued("gcparallel") \/ InProgress(t)
    BY DEF Queued, InProgress, Elements
  <1> QED
    BY <1>1 DEF Dispatched, MainMoves

\* A step that starts some.
LEMMA SomeDispatch ==
  ASSUME Dispatched, NEW S \in SUBSET GCTasks, Dispatch(S), task' = task,
         Elements(work'["gcparallel"]) \subseteq Elements(work["gcparallel"]) \cup S,
         AtomsTask \in S => op'[Main] \in {"sweepAtoms", "joinSweep"},
         op[Main] \in {"sweepAtoms", "joinSweep"} => op'[Main] \in {"sweepAtoms", "joinSweep"},
         S \cap SweepTasks # {} \/ op[Main] = "joinSweep" => op'[Main] = "joinSweep",
         op'[Main] = "buffers" => BufferTask # None
  PROVE  Dispatched'
  <1>1. /\ gcTask' \in [GCTasks -> {"NotStarted", "Dispatched", "Finished"}]
        /\ \A t \in GCTasks : gcTask'[t] = IF t \in S THEN "Dispatched" ELSE gcTask[t]
    BY DEF Dispatch, Dispatched
  <1>2. \A t \in GCTasks : (t \in Queued("gcparallel") \/ InProgress(t))' =>
                           t \in S \/ t \in Queued("gcparallel") \/ InProgress(t)
    BY DEF Queued, InProgress, Elements
  <1>3. \A t \in GCTasks : (t \in Queued("gcparallel") \/ InProgress(t))' => gcTask'[t] = "Dispatched"
    BY <1>1, <1>2 DEF Dispatched
  <1>4. AtomsTask # None => AtomsTask \in GCTasks
    BY DEF GCTasks
  <1>5. SweepTasks \subseteq GCTasks
    BY DEF GCTasks
  <1>6. AtomsTask # None /\ op'[Main] \notin {"sweepAtoms", "joinSweep"} => gcTask'[AtomsTask] # "Dispatched"
    BY <1>1, <1>4 DEF Dispatched
  <1>7. op'[Main] # "joinSweep" => \A t \in SweepTasks : gcTask'[t] # "Dispatched"
    BY <1>1, <1>5 DEF Dispatched
  <1> QED
    BY <1>1, <1>3, <1>6, <1>7 DEF Dispatched

\* A step that joins some.
LEMMA JoinDispatch ==
  ASSUME Dispatched, NEW S \in SUBSET GCTasks, gcTask' = Joined(S), UNCHANGED <<task, work>>,
         \A t \in S : gcTask[t] # "Dispatched",
         \/ op[Main] \notin {"sweepAtoms", "joinSweep"}
         \/ SweepTasks \cup ({AtomsTask} \ {None}) \subseteq S,
         op'[Main] # "buffers"
  PROVE  Dispatched'
  <1>1. /\ gcTask' \in [GCTasks -> {"NotStarted", "Dispatched", "Finished"}]
        /\ \A t \in GCTasks : gcTask'[t] = IF t \in S THEN "NotStarted" ELSE gcTask[t]
    BY DEF Joined, Dispatched
  <1>2. \A t \in GCTasks : (t \in Queued("gcparallel") \/ InProgress(t))' => t \in Queued("gcparallel") \/ InProgress(t)
    BY DEF Queued, InProgress
  <1>3. \A t \in GCTasks : (t \in Queued("gcparallel") \/ InProgress(t))' => gcTask'[t] = "Dispatched"
    BY <1>1, <1>2 DEF Dispatched
  <1>4. SweepTasks \subseteq GCTasks /\ (AtomsTask # None => AtomsTask \in GCTasks)
    BY DEF GCTasks
  <1>5. AtomsTask # None => gcTask'[AtomsTask] # "Dispatched"
    BY <1>1, <1>4 DEF Dispatched
  <1>6. \A t \in SweepTasks : gcTask'[t] # "Dispatched"
    BY <1>1, <1>4 DEF Dispatched
  <1> QED
    BY <1>1, <1>3, <1>5, <1>6 DEF Dispatched

\* What a client does next does not concern the main thread, or it is not sweeping.
LEMMA MainMovesWhen ==
  ASSUME RestTypes, NEW c \in Clients, NEW o, Goto(c, o), op[c] \notin {"sweepAtoms", "joinSweep"}, o # "buffers"
  PROVE  MainMoves
  BY PoolAssumption DEF MainMoves, Goto, RestTypes, Clients

\* Steps of the clients keep the parallel tasks accounted for.
LEMMA ClientsDispatch ==
  ASSUME HInv, NEW c \in Clients, ClientStep(c)
  PROVE  Dispatched'
  <1>0. Dispatched /\ PlacedNow /\ RestTypes /\ DOMAIN work = Kinds /\ "gcparallel" \in Kinds
    BY KindsAre DEF HInv, PlacedNow, Placed
  <1>1. ASSUME UNCHANGED <<gcTask, task>>, work'["gcparallel"] = work["gcparallel"],
               \/ op' = op
               \/ \E o : Goto(c, o) /\ op[c] \notin {"sweepAtoms", "joinSweep"} /\ o # "buffers"
        PROVE  Dispatched'
    <2>1. MainMoves
      BY <1>0, <1>1, MainMovesWhen DEF MainMoves
    <2> QED
      BY <1>0, <1>1, <2>1, NoDispatch
  <1>2. CASE StartModule(c) \/ LeaveGenerate(c) \/ EndModule(c) \/ BeginComplete(c)
    BY <1>1, <1>2 DEF StartModule, LeaveGenerate, EndModule, BeginComplete, In, gc, lists
  <1>3. CASE SubmitFunction(c)
    BY <1>0, <1>1, <1>3 DEF SubmitFunction, Start, gc
  <1>4. CASE FinishOutstanding(c) \/ Complete(c)
    <2>1. UNCHANGED <<gcTask, task, work>>
      BY <1>4 DEF FinishOutstanding, Complete, Sleep, gc, lists
    <2>2. op' = op \/ \E o : Goto(c, o) /\ op[c] \notin {"sweepAtoms", "joinSweep"} /\ o # "buffers"
      BY <1>4 DEF FinishOutstanding, Complete, Sleep, In
    <2> QED
      BY <1>1, <2>1, <2>2
  <1>5. CASE DrainModule(c)
    BY <1>0, <1>1, <1>5 DEF DrainModule, gc
  <1>6. CASE StartOffThreadCompression(c)
    BY <1>0, <1>1, <1>6 DEF StartOffThreadCompression, Start, gc
  <1>7. CASE StartAlloc(c)
    <2>1. AllocTask # None /\ AllocTask \in GCTasks /\ UNCHANGED <<task, op>>
      BY <1>7 DEF StartAlloc, GCTasks
    <2>2. CASE gcTask[AllocTask] = "Dispatched"
      BY <1>1, <1>7, <2>1, <2>2 DEF StartAlloc
    <2>3. CASE gcTask[AllocTask] # "Dispatched"
      <3> DEFINE S == {AllocTask}
                 q == work["gcparallel"]
      <3>1. work' = [work EXCEPT !["gcparallel"] = Append(@, AllocTask)] /\ Dispatch(S)
        BY <1>7, <2>3 DEF StartAlloc
      <3>2. q \in Seq(GCTasks)
        BY <1>0, KindsOfTasks DEF PlacedNow, Placed
      <3>3. Elements(Append(q, AllocTask)) = Elements(q) \cup S
        BY <2>1, <3>2, Appended
      <3>4. Elements(work'["gcparallel"]) = Elements(q) \cup S
        BY <1>0, <3>1, <3>3
      <3>5. S \in SUBSET GCTasks /\ AtomsTask \notin S /\ S \cap SweepTasks = {}
        BY <2>1, ClassesAreApart
      <3> HIDE DEF S
      <3>6. op'[Main] = "buffers" => BufferTask # None
        BY <1>0, <2>1 DEF Dispatched
      <3> QED
        BY <1>0, <2>1, <3>1, <3>4, <3>5, <3>6, SomeDispatch
    <2> QED
      BY <2>2, <2>3
  <1> QED
    BY <1>2, <1>3, <1>4, <1>5, <1>6, <1>7 DEF ClientStep

\* The other steps keep the parallel tasks accounted for.
LEMMA OthersDispatch ==
  ASSUME HInv, IonStep \/ ParseStep \/ GCStep \/ ShutdownStep
  PROVE  Dispatched'
  <1>0. /\ Dispatched /\ PlacedNow /\ RestTypes /\ DOMAIN work = Kinds /\ "gcparallel" \in Kinds /\ Main \in Clients
        /\ work["gcparallel"] \in Seq(GCTasks) /\ op \in [Clients -> OPs]
        /\ op[Main] = "buffers" => BufferTask # None
    BY KindsAre, KindsOfTasks DEF HInv, PlacedNow, Placed, Clients, RestTypes, Dispatched
  <1>1. ASSUME UNCHANGED <<gcTask, task>>, work'["gcparallel"] = work["gcparallel"],
               \/ op' = op
               \/ \E o : Goto(Main, o) /\ op[Main] \notin {"sweepAtoms", "joinSweep"} /\ o # "buffers"
        PROVE  Dispatched'
    <2>1. MainMoves
      BY <1>0, <1>1, MainMovesWhen DEF MainMoves
    <2> QED
      BY <1>0, <1>1, <2>1, NoDispatch
  <1>2. ASSUME NEW t \in GCTasks, work' = [work EXCEPT !["gcparallel"] = Append(@, t)]
        PROVE  Elements(work'["gcparallel"]) = Elements(work["gcparallel"]) \cup {t}
    <2>1. Elements(Append(work["gcparallel"], t)) = Elements(work["gcparallel"]) \cup {t}
      BY <1>0, Appended
    <2> QED
      BY <1>0, <1>2, <2>1
  <1>3. CASE IonStep
    <2>1. ASSUME NEW b \in Builders, WarmUp(b) \/ AttachFinished(b)
          PROVE  Dispatched'
      BY <1>1, <2>1 DEF WarmUp, AttachFinished, gc, lists
    <2>2. ASSUME NEW b \in Builders, StartOffThreadIonCompile(b)
          PROVE  Dispatched'
      BY <1>0, <1>1, <2>2 DEF StartOffThreadIonCompile, Start, gc
    <2>3. ASSUME NEW S, NEW o \in {"cancel", "cancelAll"}, BeginCancel(S, o)
          PROVE  Dispatched'
      BY <1>0, <1>1, <2>3 DEF BeginCancel, gc, In
    <2>4. ASSUME NEW h \in Helpers, AwaitCancelled(h)
          PROVE  Dispatched'
      BY <1>1, <2>4 DEF AwaitCancelled, gc, lists
    <2>5. CASE EndCancel \/ AwaitAllThreads
      BY <1>1, <2>5 DEF EndCancel, AwaitAllThreads, Sleep, gc, lists, In
    <2> QED
      BY <1>3, <2>1, <2>2, <2>3, <2>4, <2>5 DEF IonStep, Cancel, WaitForAllThreads
  <1>4. CASE ParseStep
    <2>1. ASSUME NEW p \in Parses, StartParse(p) \/ MergeParse(p)
          PROVE  Dispatched'
      BY <1>0, <1>1, <2>1 DEF StartParse, MergeParse, Start, gc
    <2>2. CASE CancelParses \/ AwaitParses \/ BeginAtomsGC
      BY <1>1, <2>2 DEF CancelParses, AwaitParses, BeginAtomsGC, Sleep, gc, lists, In
    <2>3. CASE EndAtomsGC
      BY <1>0, <1>1, <2>3 DEF EndAtomsGC
    <2> QED
      BY <1>4, <2>1, <2>2, <2>3 DEF ParseStep
  <1>5. CASE GCStep
    <2>1. CASE BeginSession
      <3>1. UNCHANGED <<gcTask, task, work>>
        BY <2>1 DEF BeginSession, lists
      <3>2. op[Main] \notin {"sweepAtoms", "joinSweep"} /\ (op'[Main] = "buffers" => BufferTask # None)
        BY <1>0, <2>1 DEF BeginSession, In, Goto
      <3> QED
        BY <1>0, <3>1, <3>2 DEF Dispatched, Queued, InProgress
    <2>2. CASE FreeMallocedBuffers
      <3>1. CASE gcTask[BufferTask] = "Dispatched"
        BY <1>1, <2>2, <3>1 DEF FreeMallocedBuffers, Sleep, gc, lists
      <3>2. CASE gcTask[BufferTask] # "Dispatched"
        <4> DEFINE S == {BufferTask}
        <4>1. /\ work' = [work EXCEPT !["gcparallel"] = Append(@, BufferTask)] /\ Dispatch(S)
              /\ task' = task /\ Goto(Main, "minor") /\ op[Main] = "buffers"
          BY <2>2, <3>2 DEF FreeMallocedBuffers, Start, In
        <4>2. BufferTask \in GCTasks
          BY <1>0, <4>1 DEF GCTasks
        <4>3. Elements(work'["gcparallel"]) = Elements(work["gcparallel"]) \cup S
          BY <1>2, <4>1, <4>2
        <4>4. S \in SUBSET GCTasks /\ AtomsTask \notin S /\ S \cap SweepTasks = {}
          BY <1>0, <4>1, <4>2, ClassesAreApart
        <4>5. op'[Main] = "minor"
          BY <1>0, <4>1 DEF Goto
        <4> HIDE DEF S
        <4> QED
          BY <1>0, <4>1, <4>3, <4>4, <4>5, SomeDispatch
      <3> QED
        BY <3>1, <3>2
    <2>3. ASSUME NEW S \in SUBSET GCTasks, NEW o, In(Main, {"joinAlloc", "joinSweep"}), Join(S, o), o \in {"collect"},
                 op[Main] = "joinSweep" => S = SweepTasks \cup ({AtomsTask} \ {None})
          PROVE  Dispatched'
      <3>1. CASE \E t \in S : gcTask[t] = "Dispatched"
        BY <1>1, <2>3, <3>1 DEF Join, Sleep, gc, lists
      <3>2. CASE ~ \E t \in S : gcTask[t] = "Dispatched"
        <4>1. gcTask' = Joined(S) /\ UNCHANGED <<task, work>> /\ Goto(Main, o)
          BY <2>3, <3>2 DEF Join, lists
        <4>2. op[Main] \in {"joinAlloc", "joinSweep"} /\ op'[Main] = "collect"
          BY <1>0, <2>3, <4>1 DEF In, Goto
        <4>3. op[Main] = "joinSweep" => SweepTasks \cup ({AtomsTask} \ {None}) \subseteq S
          BY <2>3
        <4> QED
          BY <1>0, <3>2, <4>1, <4>2, <4>3, JoinDispatch
      <3> QED
        BY <3>1, <3>2
    <2>4. CASE JoinAlloc
      <3>1. {AllocTask} \ {None} \in SUBSET GCTasks
        BY DEF GCTasks
      <3> QED
        BY <2>3, <2>4, <3>1 DEF JoinAlloc, In
    <2>5. CASE JoinSweepTasks
      <3>1. SweepTasks \cup ({AtomsTask} \ {None}) \in SUBSET GCTasks
        BY DEF GCTasks
      <3> QED
        BY <2>3, <2>5, <3>1 DEF JoinSweepTasks, In
    <2>6. CASE StartSweepAtoms
      <3> DEFINE S == {AtomsTask}
      <3>1. /\ work' = [work EXCEPT !["gcparallel"] = Append(@, AtomsTask)] /\ Dispatch(S) /\ AtomsTask # None
            /\ task' = task /\ Goto(Main, "sweepAtoms") /\ op[Main] = "collect"
        BY <2>6 DEF StartSweepAtoms, Start, In
      <3>2. AtomsTask \in GCTasks
        BY <3>1 DEF GCTasks
      <3>3. Elements(work'["gcparallel"]) = Elements(work["gcparallel"]) \cup S
        BY <1>2, <3>1, <3>2
      <3>4. S \in SUBSET GCTasks /\ S \cap SweepTasks = {}
        BY <3>2, ClassesAreApart
      <3>5. op'[Main] = "sweepAtoms"
        BY <1>0, <3>1 DEF Goto
      <3> HIDE DEF S
      <3> QED
        BY <1>0, <3>1, <3>3, <3>4, <3>5, SomeDispatch
    <2>7. CASE StartSweepTasks
      <3>1. PICK q \in [1 .. Cardinality(SweepTasks) -> SweepTasks] :
              (\A i, j \in DOMAIN q : q[i] = q[j] => i = j) /\ work' = [work EXCEPT !["gcparallel"] = @ \o q]
        BY <2>7 DEF StartSweepTasks
      <3>2. q \in Seq(SweepTasks) /\ Elements(q) \subseteq SweepTasks
        BY <3>1, PoolAssumption, Permutation
      <3>3. SweepTasks \in SUBSET GCTasks
        BY DEF GCTasks
      <3>4. q \in Seq(GCTasks)
        BY <3>2, <3>3
      <3>5. Elements(work["gcparallel"] \o q) = Elements(work["gcparallel"]) \cup Elements(q)
        BY <1>0, <3>4, ListsInARow
      <3>6. Elements(work'["gcparallel"]) \subseteq Elements(work["gcparallel"]) \cup SweepTasks
        BY <1>0, <3>1, <3>2, <3>5
      <3>7. Dispatch(SweepTasks) /\ task' = task /\ op'[Main] = "joinSweep"
        BY <1>0, <2>7 DEF StartSweepTasks, Goto
      <3> QED
        BY <1>0, <3>3, <3>6, <3>7, SomeDispatch
    <2>8. CASE StartBackgroundSweep
      BY <1>0, <1>1, <2>8 DEF StartBackgroundSweep
    <2>9. CASE WaitBackgroundSweepEnd \/ EndSession
      <3>1. UNCHANGED <<gcTask, task, work>>
        BY <2>9 DEF WaitBackgroundSweepEnd, EndSession, gc, lists
      <3>2. \E o : Goto(Main, o) /\ op[Main] \notin {"sweepAtoms", "joinSweep"} /\ o # "buffers"
        BY <2>9 DEF WaitBackgroundSweepEnd, EndSession, In
      <3> QED
        BY <1>1, <3>1, <3>2
    <2> QED
      BY <1>5, <2>1, <2>2, <2>4, <2>5, <2>6, <2>7, <2>8, <2>9 DEF GCStep
  <1>6. CASE ShutdownStep
    <2>1. CASE Shutdown \/ EndShutdown
      BY <1>1, <2>1 DEF Shutdown, EndShutdown, In, gc, lists
    <2>2. ASSUME NEW h \in Helpers, DestroyHelper(h)
          PROVE  Dispatched'
      BY <1>1, <2>2 DEF DestroyHelper, gc, lists
    <2> QED
      BY <1>6, <2>1, <2>2 DEF ShutdownStep
  <1> QED
    BY <1>3, <1>4, <1>5, <1>6

-----------------------------------------------------------------------------
(* Compressed sources, cancelled compilations and parses, in the same steps. *)

\* Steps of the clients keep the sources that are compressed accounted for.
LEMMA ClientsCompress ==
  ASSUME HInv, NEW c \in Clients, ClientStep(c)
  PROVE  Compressed'
  <1>0. Compressed /\ PlacedNow /\ DOMAIN work = Kinds /\ "compress" \in Kinds /\ work["compress"] \in Seq(Clients)
    BY KindsAre, KindsOfTasks DEF HInv, PlacedNow, Placed
  <1>1. task' = task
    BY DEF ClientStep, StartModule, SubmitFunction, LeaveGenerate, FinishOutstanding, DrainModule, EndModule,
           StartOffThreadCompression, BeginComplete, Complete, StartAlloc, Sleep
  <1>2. CASE StartOffThreadCompression(c)
    <2>1. Elements(Append(work["compress"], c)) = Elements(work["compress"]) \cup {c}
      BY <1>0, Appended
    <2>2. Elements(work'["compress"]) = Elements(work["compress"]) \cup {c} /\ compressing' = compressing \cup {c}
      BY <1>0, <1>2, <2>1 DEF StartOffThreadCompression, Start
    <2> QED
      BY <1>0, <1>1, <2>2 DEF Compressed, CompressionInProgress, Queued, InProgress, Elements
  <1>3. CASE Complete(c)
    <2>1. work' = work /\ (compressing' = compressing \/ (~CompressionInProgress(c) /\ compressing' = compressing \ {c}))
      BY <1>3 DEF Complete, Sleep, lists, mainOnly
    <2> QED
      BY <1>0, <1>1, <2>1 DEF Compressed, CompressionInProgress, Queued, InProgress
  <1>4. CASE compressing' = compressing /\ work'["compress"] = work["compress"]
    BY <1>0, <1>1, <1>4 DEF Compressed, CompressionInProgress, Queued, InProgress
  <1>5. CASE StartModule(c) \/ LeaveGenerate(c) \/ FinishOutstanding(c) \/ EndModule(c) \/ BeginComplete(c)
    BY <1>4, <1>5 DEF StartModule, LeaveGenerate, FinishOutstanding, EndModule, BeginComplete, Sleep, lists, mainOnly
  <1>6. CASE SubmitFunction(c) \/ DrainModule(c) \/ StartAlloc(c)
    BY <1>0, <1>4, <1>6 DEF SubmitFunction, DrainModule, StartAlloc, Start, mainOnly
  <1> QED
    BY <1>2, <1>3, <1>5, <1>6 DEF ClientStep

\* The other steps leave them alone.
LEMMA OthersCompress ==
  ASSUME HInv, IonStep \/ ParseStep \/ GCStep \/ ShutdownStep
  PROVE  Compressed'
  <1>0. Compressed /\ DOMAIN work = Kinds /\ "compress" \in Kinds
    BY KindsAre DEF HInv, PlacedNow, Placed
  <1>1. ASSUME UNCHANGED <<compressing, task>>, work'["compress"] = work["compress"]
        PROVE  Compressed'
    BY <1>0, <1>1 DEF Compressed, CompressionInProgress, Queued, InProgress
  <1>2. CASE IonStep
    BY <1>0, <1>1, <1>2 DEF IonStep, WarmUp, StartOffThreadIonCompile, AttachFinished, Cancel, WaitForAllThreads,
           BeginCancel, AwaitCancelled, EndCancel, AwaitAllThreads, Sleep, Start, lists, mainOnly
  <1>3. CASE ParseStep
    BY <1>0, <1>1, <1>3 DEF ParseStep, StartParse, MergeParse, CancelParses, AwaitParses, BeginAtomsGC,
           EndAtomsGC, Sleep, Start, lists, mainOnly
  <1>4. CASE GCStep
    BY <1>0, <1>1, <1>4 DEF GCStep, BeginSession, FreeMallocedBuffers, JoinAlloc, StartSweepAtoms, StartSweepTasks,
           JoinSweepTasks, Join, StartBackgroundSweep, WaitBackgroundSweepEnd, EndSession, Sleep, Start, lists, mainOnly
  <1>5. CASE ShutdownStep
    BY <1>1, <1>5 DEF ShutdownStep, Shutdown, EndShutdown, DestroyHelper, lists, mainOnly
  <1> QED
    BY <1>2, <1>3, <1>4, <1>5

\* Steps of the clients put nothing back that a cancellation matches.
LEMMA ClientsCancel ==
  ASSUME HInv, NEW c \in Clients, ClientStep(c)
  PROVE  CancelInv'
  <1>0. CancelInv /\ op \in [Clients -> OPs] /\ DOMAIN work = Kinds /\ "ion" \in Kinds
    BY KindsAre DEF HInv, PlacedNow, Placed, RestTypes
  <1>1. cancel' = cancel
    BY DEF ClientStep, StartModule, SubmitFunction, LeaveGenerate, FinishOutstanding, DrainModule, EndModule,
           StartOffThreadCompression, BeginComplete, Complete, StartAlloc, Sleep, mainOnly
  <1>2. work'["ion"] = work["ion"]
    BY <1>0 DEF ClientStep, StartModule, SubmitFunction, LeaveGenerate, FinishOutstanding, DrainModule, EndModule,
           StartOffThreadCompression, BeginComplete, Complete, StartAlloc, Sleep, Start, lists
  <1>3. op' = op \/ \E o \in {"generate", "outstanding", "ending", "drain", "none", "complete", "compiled"} : Goto(c, o)
    BY DEF ClientStep, StartModule, SubmitFunction, LeaveGenerate, FinishOutstanding, DrainModule, EndModule,
           StartOffThreadCompression, BeginComplete, Complete, StartAlloc, Sleep
  <1>4. op'[Main] = op[Main] \/ op'[Main] \notin {"cancel", "cancelAll"}
    BY <1>0, <1>3 DEF Goto, Clients
  <1> QED
    BY <1>0, <1>1, <1>2, <1>4 DEF CancelInv, Queued

\* Nor do the other steps.
LEMMA OthersCancel ==
  ASSUME HInv, IonStep \/ ParseStep \/ GCStep \/ ShutdownStep
  PROVE  CancelInv'
  <1>0. /\ CancelInv /\ PlacedNow /\ op \in [Clients -> OPs] /\ DOMAIN work = Kinds /\ "ion" \in Kinds
        /\ work["ion"] \in Seq(Builders) /\ Main \in Clients
    BY KindsAre, KindsOfTasks DEF HInv, PlacedNow, Placed, RestTypes, Clients
  <1>1. ASSUME cancel' = cancel, work'["ion"] = work["ion"],
               op' = op \/ \E o : Goto(Main, o) /\ o \notin {"cancel", "cancelAll"}
        PROVE  CancelInv'
    <2>1. op'[Main] = op[Main] \/ op'[Main] \notin {"cancel", "cancelAll"}
      BY <1>0, <1>1 DEF Goto
    <2> QED
      BY <1>0, <1>1, <2>1 DEF CancelInv, Queued
  <1>2. CASE IonStep
    <2>1. ASSUME NEW b \in Builders, StartOffThreadIonCompile(b)
          PROVE  CancelInv'
      <3>1. op'[Main] = "none"
        BY <2>1 DEF StartOffThreadIonCompile, In
      <3> QED
        BY <3>1 DEF CancelInv
    <2>2. ASSUME NEW b \in Builders, WarmUp(b) \/ AttachFinished(b)
          PROVE  CancelInv'
      BY <1>1, <2>2 DEF WarmUp, AttachFinished, mainOnly, lists
    <2>3. ASSUME NEW S, NEW o, BeginCancel(S, o)
          PROVE  CancelInv'
      <3>1. Elements(RemoveAll(work["ion"], Pending(S))) = Elements(work["ion"]) \ Pending(S)
        BY <1>0, AllRemoved
      <3>2. Elements(work'["ion"]) = Elements(work["ion"]) \ Pending(S) /\ cancel' = S
        BY <1>0, <2>3, <3>1 DEF BeginCancel
      <3>3. Queued("ion")' = Elements(work'["ion"]) /\ Queued("ion") = Elements(work["ion"])
        BY DEF Queued, Elements
      <3> QED
        BY <3>2, <3>3 DEF CancelInv, Pending
    <2>4. ASSUME NEW h \in Helpers, AwaitCancelled(h)
          PROVE  CancelInv'
      BY <1>1, <2>4 DEF AwaitCancelled, mainOnly, lists
    <2>5. CASE EndCancel
      <3>1. op'[Main] \in {"waitAll", "none"}
        BY <1>0, <2>5 DEF EndCancel, Goto
      <3> QED
        BY <3>1 DEF CancelInv
    <2>6. CASE AwaitAllThreads
      BY <1>1, <2>6 DEF AwaitAllThreads, Sleep, mainOnly, lists
    <2> QED
      BY <1>2, <2>1, <2>2, <2>3, <2>4, <2>5, <2>6 DEF IonStep, Cancel, WaitForAllThreads
  <1>3. CASE ParseStep
    <2>1. ASSUME NEW p \in Parses, StartParse(p) \/ MergeParse(p)
          PROVE  CancelInv'
      BY <1>0, <1>1, <2>1 DEF StartParse, MergeParse, Start, mainOnly
    <2>2. CASE CancelParses \/ AwaitParses \/ BeginAtomsGC \/ EndAtomsGC
      BY <1>0, <1>1, <2>2 DEF CancelParses, AwaitParses, BeginAtomsGC, EndAtomsGC, Sleep, mainOnly, lists
    <2> QED
      BY <1>3, <2>1, <2>2 DEF ParseStep
  <1>4. CASE GCStep
    <2>1. CASE BeginSession \/ FreeMallocedBuffers \/ StartSweepAtoms \/ StartSweepTasks \/ StartBackgroundSweep
      BY <1>0, <1>1, <2>1 DEF BeginSession, FreeMallocedBuffers, StartSweepAtoms, StartSweepTasks,
           StartBackgroundSweep, Sleep, Start, mainOnly, lists
    <2>2. CASE JoinAlloc \/ JoinSweepTasks \/ WaitBackgroundSweepEnd \/ EndSession
      BY <1>1, <2>2 DEF JoinAlloc, JoinSweepTasks, Join, WaitBackgroundSweepEnd, EndSession, Sleep, mainOnly, lists
    <2> QED
      BY <1>4, <2>1, <2>2 DEF GCStep
  <1>5. CASE ShutdownStep
    BY <1>1, <1>5 DEF ShutdownStep, Shutdown, EndShutdown, DestroyHelper, mainOnly, lists
  <1> QED
    BY <1>2, <1>3, <1>4, <1>5

\* no parse waits, runs or is finished
NoParses(T, W, D) == Elements(W["parse"]) = {} /\ D["parse"] = {} /\ \A h \in Helpers : T[h] \notin Parses

\* That is to say that none is active, before a step and after it.
LEMMA NoActiveParses ==
  ASSUME PlacedNow, PlacedNow'
  PROVE  /\ ActiveParses = {} <=> NoParses(task, work, done)
         /\ (ActiveParses = {})' <=> NoParses(task', work', done')
  <1>1. ASSUME NEW t \in Tasks \cup {None}
        PROVE  (t # None /\ KindOf(t) = "parse") <=> t \in Parses
    <2>1. (t # None /\ KindOf(t) = "parse") <=> t \in TasksOf("parse")
      BY DEF TasksOf
    <2> QED
      BY <2>1, KindsOfTasks
  <1>2. (\A h \in Helpers : task[h] \in Tasks \cup {None}) /\ \A h \in Helpers : task'[h] \in Tasks \cup {None}
    BY DEF PlacedNow, Placed
  <1>3. Running("parse") = {g \in Helpers : task[g] \in Parses}
    BY <1>1, <1>2 DEF Running, On, Now
  <1>4. Running("parse")' = {g \in Helpers : task'[g] \in Parses}
    BY <1>1, <1>2 DEF Running, On, Now
  <1>5. Queued("parse") = Elements(work["parse"]) /\ Queued("parse")' = Elements(work'["parse"])
    BY DEF Queued, Elements
  <1>6. ActiveParses = {} <=> NoParses(task, work, done)
    BY <1>3, <1>5 DEF ActiveParses, NoParses
  <1>7. (ActiveParses = {})' <=> NoParses(task', work', done')
    BY <1>4, <1>5 DEF ActiveParses, NoParses
  <1> QED
    BY <1>6, <1>7

\* Steps of the helpers make no parse active while the atoms zone is collected.
LEMMA HelpersParse ==
  ASSUME HInv, PlacedNow', NEW h \in Helpers, HelperStep(h)
  PROVE  ParsesAvoidAtomsGC'
  <1>0. ParsesAvoidAtomsGC /\ PlacedNow
    BY DEF HInv
  <1>a. "parse" \in Kinds /\ TasksOf("parse") = Parses
    BY KindsAre, KindsOfTasks
  <1>1. atomsGC' = atomsGC
    BY DEF HelperStep, Look, PauseCompile, Resume, FinishIon, FinishWasm, FinishParse,
           FinishCompression, FinishGCTask, EndSweeping, FinishGCHelper, RefillFreeList, gc
  <1>2. SUFFICES ASSUME NoParses(task, work, done)
                 PROVE  NoParses(task', work', done')
    BY <1>0, <1>1, NoActiveParses DEF ParsesAvoidAtomsGC
  <1>3. Elements(work'["parse"]) = {} /\ \A g \in Helpers : task'[g] \notin Parses
    <2>1. CASE UNCHANGED <<task, work>>
      BY <1>2, <2>1 DEF NoParses
    <2>2. CASE Released(h)
      <3>1. Elements(work'["parse"]) = {}
        BY <1>2, <1>a, <2>2 DEF Released, NoParses
      <3>2. ASSUME NEW g \in Helpers, task'[g] \in Parses
            PROVE  FALSE
        <4>1. task'[g] \in TasksOf("parse")
          BY <1>a, <3>2
        <4>2. task'[g] \in Elements(work["parse"]) \/ \E i \in Helpers : i # h /\ task[i] = task'[g]
          BY <1>a, <2>2, <4>1, StaysActive
        <4> QED
          BY <1>2, <3>2, <4>2 DEF NoParses
      <3> QED
        BY <3>1, <3>2
    <2> QED
      BY <2>1, <2>2, HelpersRelease
  <1>4. done'["parse"] = done["parse"]
    <2>1. ~FinishParse(h)
      <3>1. ASSUME Works(h, "parse")
            PROVE  FALSE
        <4>1. task[h] \in Parses
          BY <1>0, <1>a, <3>1, WorksOn
        <4> QED
          BY <1>2, <4>1 DEF NoParses
      <3> QED
        BY <3>1 DEF FinishParse
    <2>2. DOMAIN done = Finishing /\ "parse" \in Finishing
      BY <1>0 DEF PlacedNow, Placed, Finishing
    <2> QED
      BY <2>1, <2>2 DEF HelperStep, Look, PauseCompile, Resume, FinishIon, FinishWasm,
           FinishCompression, FinishGCTask, EndSweeping, FinishGCHelper, RefillFreeList, lists
  <1> QED
    BY <1>2, <1>3, <1>4 DEF NoParses

\* Nor do the other steps.
LEMMA OthersParse ==
  ASSUME HInv, PlacedNow', (\E c \in Clients : ClientStep(c)) \/ IonStep \/ ParseStep \/ GCStep \/ ShutdownStep
  PROVE  ParsesAvoidAtomsGC'
  <1>0. /\ ParsesAvoidAtomsGC /\ PlacedNow /\ DOMAIN work = Kinds /\ "parse" \in Kinds
        /\ DOMAIN done = Finishing /\ "parse" \in Finishing
    BY KindsAre DEF HInv, PlacedNow, Placed, Finishing
  <1>1. ASSUME task' = task, work'["parse"] = work["parse"], done'["parse"] \subseteq done["parse"], atomsGC' = atomsGC
        PROVE  ParsesAvoidAtomsGC'
    BY <1>0, <1>1, NoActiveParses DEF ParsesAvoidAtomsGC, NoParses
  <1>2. ASSUME NEW c \in Clients, ClientStep(c)
        PROVE  ParsesAvoidAtomsGC'
    <2>1. CASE StartModule(c) \/ LeaveGenerate(c) \/ FinishOutstanding(c) \/ EndModule(c) \/ BeginComplete(c) \/ Complete(c)
      BY <1>0, <1>1, <2>1 DEF StartModule, LeaveGenerate, FinishOutstanding, EndModule, BeginComplete,
           Complete, Sleep, lists, gc
    <2>2. CASE SubmitFunction(c) \/ DrainModule(c) \/ StartOffThreadCompression(c) \/ StartAlloc(c)
      BY <1>0, <1>1, <2>2 DEF SubmitFunction, DrainModule, StartOffThreadCompression, StartAlloc, Start, gc
    <2> QED
      BY <1>2, <2>1, <2>2 DEF ClientStep
  <1>3. CASE IonStep
    BY <1>0, <1>1, <1>3 DEF IonStep, WarmUp, StartOffThreadIonCompile, AttachFinished, Cancel, WaitForAllThreads,
           BeginCancel, AwaitCancelled, EndCancel, AwaitAllThreads, Sleep, Start, lists, gc
  <1>4. CASE ParseStep
    <2>1. ASSUME NEW p \in Parses, StartParse(p)
          PROVE  ParsesAvoidAtomsGC'
      <3>1. CASE atomsGC
        BY <1>1, <2>1, <3>1 DEF StartParse, MustWaitForGC, gc
      <3>2. CASE ~atomsGC
        BY <2>1, <3>2 DEF StartParse, ParsesAvoidAtomsGC, gc
      <3> QED
        BY <3>1, <3>2
    <2>2. ASSUME NEW p \in Parses, MergeParse(p)
          PROVE  ParsesAvoidAtomsGC'
      BY <1>0, <1>1, <2>2 DEF MergeParse, gc
    <2>3. CASE CancelParses
      BY <1>1, <2>3 DEF CancelParses, lists, gc
    <2>4. CASE AwaitParses
      BY <1>0, <1>1, <2>4 DEF AwaitParses, Sleep, lists, gc
    <2>5. CASE BeginAtomsGC
      <3>1. UNCHANGED <<task, lists>> /\ ActiveParses = {}
        BY <2>5 DEF BeginAtomsGC
      <3> QED
        BY <1>0, <3>1, NoActiveParses DEF ParsesAvoidAtomsGC, lists
    <2>6. CASE EndAtomsGC
      BY <2>6 DEF EndAtomsGC, ParsesAvoidAtomsGC
    <2> QED
      BY <1>4, <2>1, <2>2, <2>3, <2>4, <2>5, <2>6 DEF ParseStep
  <1>5. CASE GCStep
    BY <1>0, <1>1, <1>5 DEF GCStep, BeginSession, FreeMallocedBuffers, JoinAlloc, StartSweepAtoms, StartSweepTasks,
           JoinSweepTasks, Join, StartBackgroundSweep, WaitBackgroundSweepEnd, EndSession, Sleep, Start, lists, gc
  <1>6. CASE ShutdownStep
    BY <1>1, <1>6 DEF ShutdownStep, Shutdown, EndShutdown, DestroyHelper, lists, gc
  <1> QED
    BY <1>2, <1>3, <1>4, <1>5, <1>6

-----------------------------------------------------------------------------
(* The functions of a module are accounted for.                              *)

\* the helpers that compile a function
Compiling(T) == {h \in Helpers : T[h] \in WasmTasks}

\* the functions that wait, are compiled or finished
Handed(T, W, D) == Len(W["wasm"]) + Cardinality(Compiling(T)) + Cardinality(D["wasm"])

\* Finitely many helpers compile, and finitely many functions are finished.
LEMMA CountsAreNumbers ==
  ASSUME NEW T, NEW W, NEW D, NEW P, Placed(T, W, D, P)
  PROVE  /\ IsFiniteSet(Compiling(T)) /\ Cardinality(Compiling(T)) \in Nat
         /\ IsFiniteSet(D["wasm"]) /\ Cardinality(D["wasm"]) \in Nat
         /\ Len(W["wasm"]) \in Nat /\ W["wasm"] \in Seq(WasmTasks) /\ D["wasm"] \subseteq WasmTasks
         /\ Cardinality(WasmTasks) \in Nat
  <1>1. IsFiniteSet(Helpers) /\ IsFiniteSet(WasmTasks)
    BY PoolAssumption
  <1>2. Compiling(T) \in SUBSET Helpers
    BY DEF Compiling
  <1>3. D["wasm"] \in SUBSET WasmTasks /\ W["wasm"] \in Seq(WasmTasks)
    BY KindsAre, KindsOfTasks DEF Placed, Finishing
  <1>4. IsFiniteSet(Compiling(T)) /\ IsFiniteSet(D["wasm"])
    BY <1>1, <1>2, <1>3, FS_Subset
  <1> QED
    BY <1>1, <1>3, <1>4, FS_CardinalityType

\* A helper compiles a function if that is the kind of its task.
LEMMA RunningCompiles ==
  ASSUME PlacedNow
  PROVE  Running("wasm") = Compiling(task)
  <1>1. ASSUME NEW t \in Tasks \cup {None}
        PROVE  (t # None /\ KindOf(t) = "wasm") <=> t \in WasmTasks
    <2>1. (t # None /\ KindOf(t) = "wasm") <=> t \in TasksOf("wasm")
      BY DEF TasksOf
    <2> QED
      BY <2>1, KindsOfTasks
  <1>2. \A h \in Helpers : task[h] \in Tasks \cup {None}
    BY DEF PlacedNow, Placed
  <1> QED
    BY <1>1, <1>2 DEF Running, On, Now, Compiling

\* What the invariant says of these, before a step and after it.
LEMMA Accounting ==
  ASSUME PlacedNow, PlacedNow'
  PROVE  /\ ModuleIsAccountedFor <=> /\ module.owner = None => module.outstanding = 0
                                     /\ module.outstanding = Handed(task, work, done) + failed
         /\ ModuleIsAccountedFor' <=> /\ module'.owner = None => module'.outstanding = 0
                                      /\ module'.outstanding = Handed(task', work', done') + failed'
  <1>1. ASSUME NEW t \in Tasks \cup {None}
        PROVE  (t # None /\ KindOf(t) = "wasm") <=> t \in WasmTasks
    <2>1. (t # None /\ KindOf(t) = "wasm") <=> t \in TasksOf("wasm")
      BY DEF TasksOf
    <2> QED
      BY <2>1, KindsOfTasks
  <1>2. (\A h \in Helpers : task[h] \in Tasks \cup {None}) /\ \A h \in Helpers : task'[h] \in Tasks \cup {None}
    BY DEF PlacedNow, Placed
  <1>3. Running("wasm") = Compiling(task)
    BY <1>1, <1>2 DEF Running, On, Now, Compiling
  <1>4. Running("wasm")' = Compiling(task')
    BY <1>1, <1>2 DEF Running, On, Now, Compiling
  <1>5. ModuleIsAccountedFor <=> /\ module.owner = None => module.outstanding = 0
                                 /\ module.outstanding = Handed(task, work, done) + failed
    BY <1>3 DEF ModuleIsAccountedFor, Handed
  <1>6. ModuleIsAccountedFor' <=> /\ module'.owner = None => module'.outstanding = 0
                                  /\ module'.outstanding = Handed(task', work', done') + failed'
    BY <1>4 DEF ModuleIsAccountedFor, Handed
  <1> QED
    BY <1>5, <1>6

\* A helper that takes a function from the list compiles it.
LEMMA ThreadLoopCounts ==
  ASSUME NEW h \in Helpers, NEW s, NEW D, NEW P, Placed(s.task, work, D, P),
         s.task[h] = None, ThreadLoop(h, s)
  PROVE  Handed(task', work', D) = Handed(s.task, work, D)
  <1>0. Placed(task', work', D, P)
    BY ThreadLoopPlaces
  <1>1. CASE Stops(h, s)
    BY <1>1 DEF Stops
  <1>2. ASSUME NEW k \in Kinds, NEW t, NEW q, Takes(h, s, k, t, q)
        PROVE  Handed(task', work', D) = Handed(s.task, work, D)
    <2> DEFINE C == Compiling(s.task)
               U == task'
    <2>1. /\ \A g \in Helpers : g # h => U[g] = s.task[g]
          /\ U[h] = t /\ t \in TasksOf(k) /\ DOMAIN work = Kinds
      BY <1>2 DEF Takes, Placed, Elements
    <2>2. IsFiniteSet(C) /\ Cardinality(C) \in Nat /\ h \notin C /\ Len(work["wasm"]) \in Nat
          /\ Cardinality(D["wasm"]) \in Nat
      BY CountsAreNumbers, ClassesAreApart DEF Compiling
    <2>3. CASE k = "wasm"
      <3>1. t \in WasmTasks
        BY <2>1, <2>3, KindsOfTasks
      <3>2. Compiling(U) = C \cup {h}
        BY <2>1, <3>1 DEF Compiling
      <3> HIDE DEF C
      <3>3. Cardinality(Compiling(U)) = Cardinality(C) + 1
        BY <2>2, <3>2, FS_AddElement
      <3>4. Len(work'["wasm"]) = Len(work["wasm"]) - 1
        BY <1>2, <2>1, <2>3 DEF Takes
      <3> QED
        BY <2>2, <3>3, <3>4 DEF Handed, C
    <2>4. CASE k # "wasm"
      <3>1. t \notin WasmTasks
        BY <2>1, <2>4, KindsOfTasks, TasksOfKinds, KindsAre
      <3>2. Compiling(U) = C
        BY <2>1, <2>2, <3>1 DEF Compiling
      <3>3. work'["wasm"] = work["wasm"]
        BY <1>2, <2>1, <2>4, KindsAre DEF Takes
      <3> QED
        BY <3>2, <3>3 DEF Handed
    <2> QED
      BY <2>3, <2>4
  <1> QED
    BY <1>1, <1>2, ThreadLoopDoes

\* A helper that lets go of a function no longer compiles it.
LEMMA LetsGoCounts ==
  ASSUME PlacedNow, NEW h \in Helpers
  PROVE  LET T == [task EXCEPT ![h] = None]
         IN  Cardinality(Compiling(T)) = IF task[h] \in WasmTasks THEN Cardinality(Compiling(task)) - 1
                                                                  ELSE Cardinality(Compiling(task))
  <1> DEFINE T == [task EXCEPT ![h] = None]
             C == Compiling(task)
  <1>1. T[h] = None /\ \A g \in Helpers : g # h => T[g] = task[g]
    BY DEF PlacedNow, Placed
  <1>2. IsFiniteSet(C)
    BY CountsAreNumbers DEF PlacedNow
  <1> HIDE DEF T
  <1>3. Compiling(T) = C \ {h}
    BY <1>1, ClassesAreApart DEF Compiling
  <1>4. h \in C <=> task[h] \in WasmTasks
    BY DEF Compiling
  <1> HIDE DEF C
  <1>5. Cardinality(C \ {h}) = IF h \in C THEN Cardinality(C) - 1 ELSE Cardinality(C)
    BY <1>2, FS_RemoveElement
  <1> QED
    BY <1>3, <1>4, <1>5 DEF T, C

\* Steps of the helpers keep the functions of a module accounted for.
LEMMA HelpersModule ==
  ASSUME HInv, PlacedNow', NEW h \in Helpers, HelperStep(h)
  PROVE  ModuleInv'
  <1>0. /\ ModuleInv /\ PlacedNow /\ RestTypes /\ HeldAt(h, pc, task, pause) /\ h \in Clients
        /\ task \in [Helpers -> Tasks \cup {None}] /\ DOMAIN done = Finishing
    BY DEF HInv, HeldNow, Held, PlacedNow, Placed, Clients
  <1>1. module' = module
    BY DEF HelperStep, Look, PauseCompile, Resume, FinishIon, FinishWasm, FinishParse,
           FinishCompression, FinishGCTask, EndSweeping, FinishGCHelper, RefillFreeList
  <1>2. \A c \in Clients : op'[c] \in InModule <=> op[c] \in InModule
    <2>1. CASE op' = op
      BY <2>1
    <2>2. CASE op' # op
      <3>1. FinishParse(h)
        BY <2>2 DEF HelperStep, Look, PauseCompile, Resume, FinishIon, FinishWasm,
           FinishCompression, FinishGCTask, EndSweeping, FinishGCHelper, RefillFreeList
      <3>2. op' = [op EXCEPT ![h] = "none"] /\ op[h] \notin InModule
        BY <3>1 DEF FinishParse, InModule
      <3> QED
        BY <1>0, <3>2 DEF RestTypes, InModule
    <2> QED
      BY <2>1, <2>2
  <1>3. SUFFICES failed' \in Nat /\ Handed(task', work', done') + failed' = Handed(task, work, done) + failed
    BY <1>0, <1>1, <1>2, Accounting DEF ModuleInv
  <1> DEFINE T == [task EXCEPT ![h] = None]
             n == Len(work["wasm"])
             c == Cardinality(Compiling(task))
             d == Cardinality(done["wasm"])
  <1>4. n \in Nat /\ c \in Nat /\ d \in Nat /\ failed \in Nat /\ IsFiniteSet(done["wasm"])
        /\ Handed(task, work, done) = n + c + d
    BY <1>0, CountsAreNumbers DEF PlacedNow, ModuleInv, Handed
  <1>5. Cardinality(Compiling(T)) = IF task[h] \in WasmTasks THEN c - 1 ELSE c
    BY <1>0, LetsGoCounts
  <1>6. Placed(T, work, done, parked) /\ T[h] = None
    BY <1>0, LetsGoKeeps DEF PlacedNow
  <1> HIDE DEF T, c
  <1>7. ASSUME NEW s, s.task = T, ThreadLoop(h, s), done'["wasm"] = done["wasm"], failed' = failed, task[h] \notin WasmTasks
        PROVE  failed' \in Nat /\ Handed(task', work', done') + failed' = Handed(task, work, done) + failed
    <2>1. Handed(task', work', done) = Handed(s.task, work, done)
      BY <1>6, <1>7, ThreadLoopCounts
    <2>2. Handed(task', work', done') = Handed(task', work', done)
      BY <1>7 DEF Handed
    <2>3. Handed(s.task, work, done) = n + c + d
      BY <1>5, <1>7 DEF Handed
    <2> QED
      BY <1>4, <1>7, <2>1, <2>2, <2>3
  <1>8. ASSUME NEW k \in Kinds \ {"wasm"}, Works(h, k) 
        PROVE  task[h] \notin WasmTasks
    BY <1>0, <1>8, WorksOn, TasksOfKinds, KindsOfTasks, KindsAre
  <1>9. CASE Look(h)
    <2>1. task[h] = None
      BY <1>0, <1>9 DEF Look, HeldAt
    <2>2. T = task
      BY <1>0, <2>1 DEF T
    <2>3. Now.task = T /\ ThreadLoop(h, Now) /\ done' = done /\ failed' = failed
      BY <1>9, <2>2, ResetState DEF Look
    <2>4. task[h] \notin WasmTasks
      BY <2>1, ClassesAreApart
    <2> QED
      BY <1>7, <2>3, <2>4
  <1>10. ASSUME ThreadLoop(h, Reset(h)), done'["wasm"] = done["wasm"], failed' = failed, task[h] \notin WasmTasks
         PROVE  failed' \in Nat /\ Handed(task', work', done') + failed' = Handed(task, work, done) + failed
    <2>1. Reset(h).task = T
      BY ResetState DEF T
    <2> QED
      BY <1>7, <1>10, <2>1
  <1>11. CASE FinishIon(h)
    <2>1. Works(h, "ion") /\ failed' = failed /\ done'["wasm"] = done["wasm"] /\ "ion" \in Kinds \ {"wasm"}
      BY <1>0, <1>11, KindsAre DEF FinishIon, Finishing
    <2>2. ASSUME NEW other \in HighestPaused(Reset(h)),
                 ThreadLoop(h, [Reset(h) EXCEPT !.pause[other] = FALSE, !.pc = PausedWoken])
          PROVE  failed' \in Nat /\ Handed(task', work', done') + failed' = Handed(task, work, done) + failed
      <3> DEFINE s == [Reset(h) EXCEPT !.pause[other] = FALSE, !.pc = PausedWoken]
      <3>1. s.task = T
        BY DEF Reset, Now, T
      <3>2. ThreadLoop(h, s)
        BY <2>2
      <3> HIDE DEF s
      <3> QED
        BY <1>7, <1>8, <2>1, <3>1, <3>2
    <2> QED
      BY <1>8, <1>10, <1>11, <2>1, <2>2 DEF FinishIon
  <1>12. CASE FinishParse(h) \/ FinishCompression(h) \/ FinishGCTask(h)
    <2>1. ThreadLoop(h, Reset(h)) /\ done'["wasm"] = done["wasm"] /\ failed' = failed
      BY <1>0, <1>12 DEF FinishParse, FinishCompression, FinishGCTask, Finishing
    <2>2. \E k \in Kinds \ {"wasm"} : Works(h, k)
      BY <1>12, KindsAre DEF FinishParse, FinishCompression, FinishGCTask
    <2> QED
      BY <1>8, <1>10, <2>1, <2>2
  <1>13. CASE FinishGCHelper(h)
    <2>1. ThreadLoop(h, Reset(h)) /\ done' = done /\ failed' = failed
      BY <1>13 DEF FinishGCHelper
    <2>2. task[h] \notin WasmTasks
      BY <1>0, <1>13, ClassesAreApart DEF FinishGCHelper, HeldAt
    <2> QED
      BY <1>10, <2>1, <2>2
  <1>14. CASE FinishWasm(h)
    <2> DEFINE s == [Reset(h) EXCEPT !.failed = failed']
               t == task[h]
    <2>1. s.task = T
      BY DEF Reset, Now, T
    <2>2. ThreadLoop(h, s) /\ Works(h, "wasm")
      BY <1>14 DEF FinishWasm
    <2> HIDE DEF s
    <2>3. t \in WasmTasks
      BY <1>0, <2>2, WorksOn, KindsOfTasks
    <2>4. Handed(task', work', done) = Handed(T, work, done)
      BY <1>6, <2>1, <2>2, ThreadLoopCounts
    <2>5. Handed(T, work, done) = n + (c - 1) + d
      BY <1>5, <2>3 DEF Handed
    <2>6. Handed(task', work', done) = n + (c - 1) + d
      BY <2>4, <2>5
    <2> DEFINE x == Len(work'["wasm"]) + Cardinality(Compiling(task'))
    <2>7. Handed(task', work', done) = x + d /\ Handed(task', work', done') = x + Cardinality(done'["wasm"]) /\ x \in Nat
      BY CountsAreNumbers DEF Handed, PlacedNow
    <2> HIDE DEF x, n, d
    <2>8. CASE done' = [done EXCEPT !["wasm"] = @ \cup {t}] /\ failed' = failed
      <3>1. t \notin done["wasm"] /\ done'["wasm"] = done["wasm"] \cup {t}
        BY <1>0, <2>8 DEF PlacedNow, Placed, Finishing
      <3>2. Cardinality(done'["wasm"]) = d + 1
        BY <1>4, <3>1, FS_AddElement DEF d
      <3> QED
        BY <1>4, <2>6, <2>7, <2>8, <3>2
    <2>9. CASE done' = done /\ failed' = failed + 1
      BY <1>4, <2>6, <2>7, <2>9 DEF d
    <2> QED
      BY <1>14, <2>8, <2>9 DEF FinishWasm
  <1>15. CASE PauseCompile(h) \/ Resume(h) \/ EndSweeping(h) \/ RefillFreeList(h)
    <2>1. UNCHANGED <<task, lists, failed>>
      BY <1>15 DEF PauseCompile, Resume, EndSweeping, RefillFreeList
    <2> QED
      BY <1>4, <2>1 DEF lists
  <1> QED
    BY <1>9, <1>11, <1>12, <1>13, <1>14, <1>15 DEF HelperStep

\* which clients are in a module is as before
OwnersStay == \A c \in Clients : op'[c] \in InModule <=> op[c] \in InModule

\* A step that touches nothing of a module.
LEMMA ModuleStays ==
  ASSUME ModuleInv, PlacedNow, PlacedNow', UNCHANGED <<module, failed, task>>,
         work'["wasm"] = work["wasm"], done'["wasm"] = done["wasm"], OwnersStay
  PROVE  ModuleInv'
  <1>1. Handed(task', work', done') = Handed(task, work, done)
    BY DEF Handed
  <1> QED
    BY <1>1, Accounting DEF ModuleInv, OwnersStay

\* A client that stays in a module, or stays outside of one.
LEMMA OwnersStayWhen ==
  ASSUME RestTypes, NEW c \in Clients, NEW o,
         op' = op \/ (Goto(c, o) /\ (o \in InModule <=> op[c] \in InModule))
  PROVE  OwnersStay
  BY DEF OwnersStay, Goto, RestTypes

\* Steps of the clients keep the functions of a module accounted for.
LEMMA ClientsModule ==
  ASSUME HInv, PlacedNow', NEW c \in Clients, ClientStep(c)
  PROVE  ModuleInv'
  <1>0. /\ ModuleInv /\ PlacedNow /\ RestTypes /\ op \in [Clients -> OPs]
        /\ DOMAIN work = Kinds /\ DOMAIN done = Finishing /\ "wasm" \in Kinds /\ "wasm" \in Finishing
    BY KindsAre DEF HInv, PlacedNow, Placed, RestTypes, Finishing
  <1> DEFINE n == Len(work["wasm"])
             r == Cardinality(Compiling(task))
             d == Cardinality(done["wasm"])
             m == module.outstanding
             N == Cardinality(WasmTasks)
  <1>1. /\ n \in Nat /\ r \in Nat /\ d \in Nat /\ failed \in Nat /\ N \in Nat /\ m \in 0..N
        /\ m = n + r + d + failed /\ (module.owner = None => m = 0)
        /\ IsFiniteSet(done["wasm"]) /\ work["wasm"] \in Seq(WasmTasks)
    BY <1>0, CountsAreNumbers, Accounting DEF PlacedNow, ModuleInv, Handed
  <1>2. None \notin Clients /\ module.owner \in Clients \cup {None}
    BY <1>0, ClassesAreApart DEF ModuleInv
  <1>3. \A b \in Clients : op[b] \in InModule <=> module.owner = b
    BY <1>0 DEF ModuleInv
  <1>4. ASSUME task' = task, failed' \in Nat, module' \in [owner : Clients \cup {None}, outstanding : 0..N],
               \A b \in Clients : op'[b] \in InModule <=> module'.owner = b,
               module'.owner = None => module'.outstanding = 0,
               module'.outstanding = Len(work'["wasm"]) + r + Cardinality(done'["wasm"]) + failed'
        PROVE  ModuleInv'
    <2>1. module'.outstanding = Handed(task', work', done') + failed'
      BY <1>4 DEF Handed
    <2> QED
      BY <1>0, <1>4, <2>1, Accounting DEF ModuleInv
  <1>5. module \in [owner : Clients \cup {None}, outstanding : 0..N]
    BY <1>0 DEF ModuleInv
  <1> HIDE DEF n, r, d, m, N
  <1>6. CASE StartModule(c)
    <2>1. /\ UNCHANGED <<task, work, done, failed>> /\ module.owner = None /\ op' = [op EXCEPT ![c] = "generate"]
          /\ module' = [owner |-> c, outstanding |-> 0] /\ m = 0
      BY <1>1, <1>6 DEF StartModule, Goto, lists
    <2>2. module'.owner = c /\ module'.outstanding = 0 /\ module' \in [owner : Clients \cup {None}, outstanding : 0..N]
      BY <1>1, <2>1
    <2>3. \A b \in Clients : op'[b] \in InModule <=> module'.owner = b
      BY <1>0, <1>2, <1>3, <2>1, <2>2 DEF InModule
    <2>4. 0 = Len(work'["wasm"]) + r + Cardinality(done'["wasm"]) + failed'
      BY <1>1, <2>1 DEF n, d
    <2> QED
      BY <1>1, <1>2, <1>4, <2>1, <2>2, <2>3, <2>4
  <1>7. ASSUME NEW o \in InModule, op[c] \in InModule, op' = op \/ Goto(c, o), task' = task,
               NEW k \in 0..N, module' = [module EXCEPT !.outstanding = k], failed' \in Nat,
               k = Len(work'["wasm"]) + r + Cardinality(done'["wasm"]) + failed'
        PROVE  ModuleInv'
    <2>1. module'.owner = c /\ module.owner = c /\ module'.outstanding = k
          /\ module' \in [owner : Clients \cup {None}, outstanding : 0..N]
      BY <1>3, <1>5, <1>7
    <2>2. \A b \in Clients : op'[b] \in InModule <=> module'.owner = b
      BY <1>0, <1>3, <1>7, <2>1 DEF Goto
    <2> QED
      BY <1>2, <1>4, <1>7, <2>1, <2>2
  <1>8. CASE SubmitFunction(c)
    <2>1. PICK t \in WasmTasks : work' = [work EXCEPT !["wasm"] = Append(@, t)]
      BY <1>8 DEF SubmitFunction, Start
    <2>2. /\ op[c] = "generate" /\ UNCHANGED <<task, done, failed, op>> /\ m < N
          /\ module' = [module EXCEPT !.outstanding = m + 1]
      BY <1>8 DEF SubmitFunction, In, m, N
    <2>3. Len(work'["wasm"]) = n + 1
      BY <1>0, <1>1, <2>1 DEF n
    <2>4. m + 1 \in 0..N /\ m + 1 = Len(work'["wasm"]) + r + Cardinality(done'["wasm"]) + failed'
      BY <1>1, <2>2, <2>3, SMTT(40) DEF d
    <2>5. "generate" \in InModule
      BY DEF InModule
    <2> QED
      BY <1>1, <1>7, <2>2, <2>4, <2>5
  <1>9. CASE LeaveGenerate(c)
    <2>1. \E o \in InModule : Goto(c, o)
      BY <1>9 DEF LeaveGenerate, InModule
    <2>2. op[c] \in InModule /\ UNCHANGED <<task, work, done, failed, module>>
      BY <1>9 DEF LeaveGenerate, In, InModule, lists
    <2>3. OwnersStay
      BY <1>0, <2>1, <2>2, OwnersStayWhen
    <2> QED
      BY <1>0, <2>2, <2>3, ModuleStays
  <1>10. CASE FinishOutstanding(c)
    <2>1. op[c] \in InModule
      BY <1>10 DEF FinishOutstanding, In, InModule
    <2>2. ASSUME UNCHANGED <<task, work, done, failed, module>>, op' = op \/ Goto(c, "drain")
          PROVE  ModuleInv'
      <3>1. "drain" \in InModule
        BY DEF InModule
      <3>2. OwnersStay
        BY <1>0, <2>1, <2>2, <3>1, OwnersStayWhen
      <3> QED
        BY <1>0, <2>2, <3>2, ModuleStays
    <2>3. ASSUME NEW t \in done["wasm"], done' = [done EXCEPT !["wasm"] = @ \ {t}], UNCHANGED <<task, work, failed>>,
                 module' = [module EXCEPT !.outstanding = m - 1], NEW o \in InModule, Goto(c, o)
          PROVE  ModuleInv'
      <3>1. done'["wasm"] = done["wasm"] \ {t}
        BY <1>0, <2>3
      <3>2. Cardinality(done["wasm"] \ {t}) = d - 1
        BY <1>1, FS_RemoveElement DEF d
      <3>3. d - 1 \in Nat
        <4>1. Cardinality(done'["wasm"]) \in Nat
          BY CountsAreNumbers DEF PlacedNow
        <4> QED
          BY <3>1, <3>2, <4>1
      <3>4. Len(work'["wasm"]) = n /\ Cardinality(done'["wasm"]) = d - 1 /\ failed' = failed
        BY <2>3, <3>1, <3>2 DEF n
      <3>5. m - 1 \in 0..N /\ m - 1 = n + r + (d - 1) + failed
        BY <1>1, <3>3
      <3>6. m - 1 = Len(work'["wasm"]) + r + Cardinality(done'["wasm"]) + failed'
        BY <3>4, <3>5
      <3> QED
        BY <1>1, <1>7, <2>1, <2>3, <3>4, <3>5, <3>6
    <2>4. {"generate", "ending", "drain"} \subseteq InModule
      BY DEF InModule
    <2>5. CASE UNCHANGED module /\ Sleep(c)
      BY <2>2, <2>5 DEF Sleep, lists
    <2>6. CASE UNCHANGED <<pc, task, pause, lists, failed, module, gc, mainOnly, asleep>> /\ Goto(c, "drain")
      BY <2>2, <2>6 DEF lists
    <2>7. CASE /\ \E t \in done["wasm"] : done' = [done EXCEPT !["wasm"] = @ \ {t}]
               /\ module' = [module EXCEPT !.outstanding = @ - 1]
               /\ \E next \in {IF op[c] = "outstanding" THEN "generate" ELSE "ending", "drain"} : Goto(c, next)
               /\ UNCHANGED <<pc, task, pause, work, parked, failed, gc, mainOnly, asleep>>
      <3>1. module' = [module EXCEPT !.outstanding = m - 1]
        BY <2>7 DEF m
      <3>2. \E o \in InModule : Goto(c, o)
        BY <2>4, <2>7
      <3> QED
        BY <2>3, <2>7, <3>1, <3>2
    <2> QED
      BY <1>10, <2>5, <2>6, <2>7 DEF FinishOutstanding
  <1>11. CASE DrainModule(c)
    <2>1. /\ op[c] \in InModule /\ UNCHANGED <<task, op>> /\ failed' = 0
          /\ work'["wasm"] = <<>> /\ done'["wasm"] = {}
          /\ module' = [module EXCEPT !.outstanding = m - n - d - failed]
      BY <1>0, <1>11 DEF DrainModule, In, InModule, LeftOver, m, n, d
    <2>2. Len(work'["wasm"]) = 0 /\ Cardinality(done'["wasm"]) = 0
      BY <2>1, FS_EmptySet
    <2>3. m - n - d - failed = r /\ r \in 0..N
      BY <1>1
    <2>4. r = Len(work'["wasm"]) + r + Cardinality(done'["wasm"]) + failed'
      BY <1>1, <2>1, <2>2
    <2>5. module' = [module EXCEPT !.outstanding = r] /\ failed' \in Nat
      BY <2>1, <2>3
    <2> QED
      BY <1>7, <2>1, <2>3, <2>4, <2>5
  <1>12. CASE EndModule(c)
    <2>1. /\ op[c] \in InModule /\ m = 0 /\ UNCHANGED <<task, work, done, failed>>
          /\ module' = [module EXCEPT !.owner = None] /\ op' = [op EXCEPT ![c] = "none"]
      BY <1>12 DEF EndModule, In, InModule, Goto, lists, m
    <2>2. module'.owner = None /\ module'.outstanding = 0 /\ module' \in [owner : Clients \cup {None}, outstanding : 0..N]
      BY <1>1, <1>5, <2>1 DEF m
    <2>3. \A b \in Clients : op'[b] \in InModule <=> module'.owner = b
      BY <1>0, <1>2, <1>3, <2>1, <2>2 DEF InModule
    <2>4. 0 = Len(work'["wasm"]) + r + Cardinality(done'["wasm"]) + failed'
      BY <1>1, <2>1 DEF n, d
    <2> QED
      BY <1>1, <1>4, <2>1, <2>2, <2>3, <2>4
  <1>13. CASE StartOffThreadCompression(c) \/ BeginComplete(c) \/ Complete(c) \/ StartAlloc(c)
    <2>1. UNCHANGED <<module, failed, task>> /\ work'["wasm"] = work["wasm"] /\ done'["wasm"] = done["wasm"]
      BY <1>0, <1>13 DEF StartOffThreadCompression, BeginComplete, Complete, StartAlloc, Sleep, Start, lists
    <2>2. op' = op \/ \E o \in {"none", "complete", "compiled"} : op[c] \in {"none", "complete"} /\ Goto(c, o)
      BY <1>13 DEF StartOffThreadCompression, BeginComplete, Complete, StartAlloc, Sleep, In
    <2>3. {"none", "complete", "compiled"} \cap InModule = {}
      BY DEF InModule
    <2>4. OwnersStay
      BY <1>0, <2>2, <2>3, OwnersStayWhen
    <2> QED
      BY <1>0, <2>1, <2>4, ModuleStays
  <1> QED
    BY <1>6, <1>8, <1>9, <1>10, <1>11, <1>12, <1>13 DEF ClientStep

\* The other steps leave the module alone.
LEMMA OthersModule ==
  ASSUME HInv, PlacedNow', IonStep \/ ParseStep \/ GCStep \/ ShutdownStep
  PROVE  ModuleInv'
  <1>0. /\ ModuleInv /\ PlacedNow /\ RestTypes /\ op \in [Clients -> OPs] /\ Main \in Clients
        /\ DOMAIN work = Kinds /\ DOMAIN done = Finishing /\ "wasm" \in Kinds /\ "wasm" \in Finishing
    BY KindsAre DEF HInv, PlacedNow, Placed, RestTypes, Finishing, Clients
  <1> DEFINE Outside == {"cancel", "cancelAll", "waitAll", "none", "cancelParses", "buffers", "joinAlloc", "minor",
                         "collect", "joinSweep", "sweepAtoms", "sweepEnd", "sweepEndInGC", "shutdown", "ended"}
  <1>1. Outside \cap InModule = {}
    BY DEF InModule
  <1>2. ASSUME op' = op \/ (op[Main] \in Outside /\ \E o \in Outside : Goto(Main, o)),
               UNCHANGED <<module, failed, task>>, work'["wasm"] = work["wasm"], done'["wasm"] = done["wasm"]
        PROVE  ModuleInv'
    <2>1. OwnersStay
      BY <1>0, <1>1, <1>2, OwnersStayWhen
    <2> QED
      BY <1>0, <1>2, <2>1, ModuleStays
  <1>3. CASE IonStep
    <2>1. ASSUME NEW b \in Builders, WarmUp(b) \/ StartOffThreadIonCompile(b) \/ AttachFinished(b)
          PROVE  ModuleInv'
      BY <1>0, <1>2, <2>1 DEF WarmUp, StartOffThreadIonCompile, AttachFinished, Start, lists
    <2>2. ASSUME NEW S, NEW o \in {"cancel", "cancelAll"}, BeginCancel(S, o)
          PROVE  ModuleInv'
      BY <1>0, <1>2, <2>2 DEF BeginCancel, In
    <2>3. ASSUME NEW h \in Helpers, AwaitCancelled(h)
          PROVE  ModuleInv'
      BY <1>2, <2>3 DEF AwaitCancelled, lists
    <2>4. CASE EndCancel \/ AwaitAllThreads
      BY <1>0, <1>2, <2>4 DEF EndCancel, AwaitAllThreads, Sleep, In, lists
    <2> QED
      BY <1>3, <2>1, <2>2, <2>3, <2>4 DEF IonStep, Cancel, WaitForAllThreads
  <1>4. CASE ParseStep
    <2>1. ASSUME NEW p \in Parses, StartParse(p) \/ MergeParse(p)
          PROVE  ModuleInv'
      BY <1>0, <1>2, <2>1 DEF StartParse, MergeParse, Start
    <2>2. CASE CancelParses \/ AwaitParses \/ BeginAtomsGC \/ EndAtomsGC
      BY <1>0, <1>2, <2>2 DEF CancelParses, AwaitParses, BeginAtomsGC, EndAtomsGC, Sleep, In, lists
    <2> QED
      BY <1>4, <2>1, <2>2 DEF ParseStep
  <1>5. CASE GCStep
    <2>1. CASE BeginSession \/ FreeMallocedBuffers \/ StartSweepAtoms \/ StartSweepTasks \/ StartBackgroundSweep
      BY <1>0, <1>2, <2>1 DEF BeginSession, FreeMallocedBuffers, StartSweepAtoms, StartSweepTasks,
           StartBackgroundSweep, Sleep, Start, In, lists
    <2>2. CASE JoinAlloc \/ JoinSweepTasks \/ WaitBackgroundSweepEnd \/ EndSession
      BY <1>2, <2>2 DEF JoinAlloc, JoinSweepTasks, Join, WaitBackgroundSweepEnd, EndSession, Sleep, In, lists
    <2> QED
      BY <1>5, <2>1, <2>2 DEF GCStep
  <1>6. CASE ShutdownStep
    BY <1>2, <1>6 DEF ShutdownStep, Shutdown, EndShutdown, DestroyHelper, In, lists
  <1> QED
    BY <1>3, <1>4, <1>5, <1>6

-----------------------------------------------------------------------------
(* The invariant holds.                                                      *)

\* The pool starts with empty lists and idle helpers.
LEMMA InitHolds == Init => HInv
  <1> SUFFICES ASSUME Init PROVE HInv
    OBVIOUS
  <1>1. PlacedNow
    <2>1. \A k \in Kinds : work[k] = <<>> /\ Elements(work[k]) = {} /\ work[k] \in Seq(TasksOf(k)) /\ Distinct(work[k])
      BY DEF Init, Elements, Distinct
    <2>2. DOMAIN work = Kinds /\ DOMAIN done = Finishing /\ \A k \in Finishing : done[k] = {}
      BY DEF Init, Finishing
    <2>3. parked = {} /\ task \in [Helpers -> Tasks \cup {None}] /\ \A h \in Helpers : task[h] = None
      BY DEF Init
    <2>4. Finishing \subseteq Kinds /\ "parse" \in Finishing
      BY KindsAre DEF Finishing
    <2> QED
      BY <2>1, <2>2, <2>3, <2>4 DEF PlacedNow, Placed
  <1>2. HeldNow
    BY DEF Init, HeldNow, Held, HeldAt, PCs
  <1>3. Main \in Clients /\ op[Main] = "none" /\ None \notin Clients
    BY ClassesAreApart DEF Init, Clients
  <1>4. \A k \in Kinds : Queued(k) = {}
    BY DEF Init, Queued
  <1>5. \A t : InProgress(t) => t = None
    BY DEF Init, InProgress
  <1>6. Dispatched
    <2>1. None \notin GCTasks /\ "gcparallel" \in Kinds
      BY ClassesAreApart, KindsAre
    <2>2. gcTask = [t \in GCTasks |-> "NotStarted"]
      BY DEF Init
    <2>3. SweepTasks \subseteq GCTasks /\ (AtomsTask # None => AtomsTask \in GCTasks)
      BY DEF GCTasks
    <2> QED
      BY <1>3, <1>4, <1>5, <2>1, <2>2, <2>3 DEF Dispatched
  <1>7. Compressed
    <2>1. "compress" \in Kinds
      BY KindsAre
    <2> QED
      BY <1>3, <1>4, <1>5, <2>1 DEF Compressed, CompressionInProgress
  <1>8. ModuleInv
    <2>1. Cardinality(WasmTasks) \in Nat
      BY PoolAssumption, FS_CardinalityType
    <2>2. module.owner = None /\ module.outstanding = 0 /\ failed = 0
          /\ module \in [owner : Clients \cup {None}, outstanding : 0..Cardinality(WasmTasks)]
      BY <2>1 DEF Init
    <2>3. \A c \in Clients : op[c] \in InModule <=> module.owner = c
      BY <1>3, <2>2 DEF Init, InModule
    <2>4. work["wasm"] = <<>> /\ Len(work["wasm"]) = 0 /\ Cardinality(done["wasm"]) = 0
      BY KindsAre, FS_EmptySet DEF Init
    <2>5. Running("wasm") = {} /\ Cardinality(Running("wasm")) = 0
      BY FS_EmptySet DEF Init, Running, On, Now
    <2>6. ModuleIsAccountedFor
      BY <2>2, <2>4, <2>5 DEF ModuleIsAccountedFor
    <2> QED
      BY <2>2, <2>3, <2>6 DEF ModuleInv
  <1>9. ParsesAvoidAtomsGC /\ CancelInv
    BY <1>3 DEF Init, ParsesAvoidAtomsGC, CancelInv
  <1>10. RestTypes
    BY DEF Init, RestTypes, OPs
  <1> QED
    BY <1>1, <1>2, <1>6, <1>7, <1>8, <1>9, <1>10 DEF HInv

\* Every step keeps it.
LEMMA NextKeeps == HInv /\ [Next]_vars => HInv'
  <1> SUFFICES ASSUME HInv, [Next]_vars PROVE HInv'
    OBVIOUS
  <1>1. ASSUME NEW h \in Helpers, HelperStep(h)
        PROVE  HInv'
    <2>1. PlacedNow'
      BY <1>1, HelpersPlace
    <2> QED
      BY <1>1, <2>1, HelpersHold, HelpersDispatch, HelpersCompress, HelpersModule, HelpersParse,
         HelpersCancel, HelpersRest DEF HInv
  <1>2. ASSUME NEW c \in Clients, ClientStep(c)
        PROVE  HInv'
    <2>1. PlacedNow'
      BY <1>2, ClientsPlace
    <2>2. \E b \in Clients : ClientStep(b)
      BY <1>2
    <2>3. HeldNow' /\ ParsesAvoidAtomsGC'
      BY <2>1, <2>2, OthersHold, OthersParse
    <2> QED
      BY <1>2, <2>1, <2>3, ClientsDispatch, ClientsCompress, ClientsModule, ClientsCancel, ClientsRest DEF HInv
  <1>3. CASE IonStep \/ ParseStep \/ GCStep \/ ShutdownStep
    <2>1. PlacedNow'
      BY <1>3, IonPlaces, ParsesPlace, CollectionsPlace
    <2>2. HeldNow' /\ ParsesAvoidAtomsGC'
      BY <1>3, <2>1, OthersHold, OthersParse
    <2> QED
      BY <1>3, <2>1, <2>2, OthersDispatch, OthersCompress, OthersModule, OthersCancel, OthersRest DEF HInv
  <1>4. CASE UNCHANGED vars
    <2>1. UNCHANGED <<pc, task, pause, work, done, parked, failed, module, gcTask, sweeping, heapBusy, atomsGC,
                      terminate, cancel, rank, compressing, op, asleep>>
      BY <1>4 DEF vars, lists, gc, mainOnly
    <2>2. PlacedNow' /\ HeldNow'
      BY <2>1 DEF HInv, PlacedNow, HeldNow
    <2>3. Dispatched' /\ Compressed' /\ CancelInv'
      BY <2>1 DEF HInv, Dispatched, Compressed, CompressionInProgress, CancelInv, Queued, InProgress
    <2>4. ModuleInv'
      BY <2>1 DEF HInv, ModuleInv, ModuleIsAccountedFor, Running, On, Now
    <2>5. ParsesAvoidAtomsGC'
      BY <2>1 DEF HInv, ParsesAvoidAtomsGC, ActiveParses, Queued, Running, On, Now
    <2>6. RestTypes'
      BY <2>1 DEF HInv, RestTypes
    <2> QED
      BY <2>2, <2>3, <2>4, <2>5, <2>6 DEF HInv
  <1> QED
    BY <1>1, <1>2, <1>3, <1>4 DEF Next

\* The invariant is one.
LEMMA InvariantHolds == Spec => []HInv
  BY InitHolds, NextKeeps, PTL DEF Spec

-----------------------------------------------------------------------------
(* What it implies.                                                          *)

\* All tasks of a kind are tasks.
LEMMA TypesFollow == HInv => TypeOK
  <1> SUFFICES ASSUME HInv PROVE TypeOK
    OBVIOUS
  <1>0. PlacedNow /\ HeldNow /\ Dispatched /\ ModuleInv /\ RestTypes
    BY DEF HInv
  <1>1. \A k \in Kinds : work[k] \in Seq(Tasks)
    <2> SUFFICES ASSUME NEW k \in Kinds PROVE work[k] \in Seq(Tasks)
      OBVIOUS
    <2>1. work[k] \in Seq(TasksOf(k)) /\ TasksOf(k) \subseteq Tasks
      BY <1>0 DEF PlacedNow, Placed, TasksOf
    <2> HIDE DEF TasksOf
    <2> QED
      BY <2>1
  <1>2. \A k \in DOMAIN done : done[k] \subseteq Tasks
    BY <1>0 DEF PlacedNow, Placed, TasksOf
  <1>3. failed \in 0..Cardinality(WasmTasks)
    <2>1. /\ module.outstanding = Handed(task, work, done) + failed
          /\ module.outstanding \in 0..Cardinality(WasmTasks) /\ failed \in Nat
      <3>1. ModuleIsAccountedFor /\ module.outstanding \in 0..Cardinality(WasmTasks) /\ failed \in Nat
        BY <1>0 DEF ModuleInv
      <3>2. Running("wasm") = Compiling(task)
        BY <1>0, RunningCompiles
      <3> QED
        BY <3>1, <3>2 DEF ModuleIsAccountedFor, Handed
    <2>2. Handed(task, work, done) \in Nat /\ Cardinality(WasmTasks) \in Nat
      BY <1>0, CountsAreNumbers DEF PlacedNow, Handed
    <2> QED
      BY <2>1, <2>2
  <1>4. module.owner \in Clients \cup {None} /\ module.outstanding \in 0..Cardinality(WasmTasks)
    BY <1>0 DEF ModuleInv
  <1>5. task \in [Helpers -> Tasks \cup {None}] /\ parked \subseteq Parses
    BY <1>0 DEF PlacedNow, Placed
  <1> QED
    BY <1>0, <1>1, <1>2, <1>3, <1>4, <1>5 DEF TypeOK, HeldNow, Held, Dispatched, RestTypes, OPs

\* A set whose elements are all the same has at most one.
LEMMA AtMostOne ==
  ASSUME NEW S, \A x, y \in S : x = y
  PROVE  Cardinality(S) \in {0, 1} /\ (S = {} => Cardinality(S) = 0)
  <1>1. CASE S = {}
    BY <1>1, FS_EmptySet
  <1>2. CASE S # {}
    <2>1. PICK x : S = {x}
      BY <1>2
    <2> QED
      BY <1>2, <2>1, FS_Singleton
  <1> QED
    BY <1>1, <1>2

\* A task is in one place.
LEMMA PlacesFollow == HInv => EachTaskInOnePlace
  <1> SUFFICES ASSUME HInv, NEW t \in Tasks \ {GCHelper} PROVE Places(t) <= 1
    BY DEF EachTaskInOnePlace
  <1>0. PlacedNow
    BY DEF HInv
  <1> DEFINE H == {h \in Helpers : task[h] = t}
             L == {at \in Kinds \X (1..Cardinality(Tasks)) :
                     at[2] \in DOMAIN work[at[1]] /\ work[at[1]][at[2]] = t}
             D == {k \in DOMAIN done : t \in done[k]}
  <1>1. t \notin {None, GCHelper}
    BY ClassesAreApart DEF Tasks
  <1>2. \A k \in Kinds : t \in TasksOf(k) => k = KindOf(t) /\ k # "gchelper"
    BY <1>1, KindsOfTasks DEF TasksOf
  <1>3. \A k \in Kinds : Elements(work[k]) \subseteq TasksOf(k)
    BY <1>0 DEF PlacedNow, Placed, Elements
  <1>4. \A k \in Finishing : k \in Kinds /\ done[k] \subseteq TasksOf(k)
    BY <1>0, KindsAre DEF PlacedNow, Placed, Finishing
  <1>5. \A at \in L : at[1] \in Kinds /\ t \in Elements(work[at[1]]) /\ at[1] = KindOf(t) /\ at[1] # "gchelper"
    <2> SUFFICES ASSUME NEW at \in L
                 PROVE  at[1] \in Kinds /\ t \in Elements(work[at[1]]) /\ at[1] = KindOf(t) /\ at[1] # "gchelper"
      OBVIOUS
    <2>1. at[1] \in Kinds /\ t \in Elements(work[at[1]])
      BY DEF Elements
    <2> QED
      BY <1>2, <1>3, <2>1
  <1>6. \A k \in D : k \in Finishing /\ k \in Kinds /\ k = KindOf(t)
    BY <1>0, <1>2, <1>4 DEF PlacedNow, Placed
  <1>7. \A g, h \in H : g = h
    BY <1>0, <1>1 DEF PlacedNow, Placed
  <1>8. \A a, b \in L : a = b
    <2> SUFFICES ASSUME NEW a \in L, NEW b \in L PROVE a = b
      OBVIOUS
    <2>1. a[1] = b[1] /\ a[1] \in Kinds \ {"gchelper"}
      BY <1>5
    <2>2. Distinct(work[a[1]])
      BY <1>0, <2>1 DEF PlacedNow, Placed
    <2>3. a[2] = b[2]
      BY <2>1, <2>2 DEF Distinct
    <2>4. a = <<a[1], a[2]>> /\ b = <<b[1], b[2]>>
      OBVIOUS
    <2> QED
      BY <2>1, <2>3, <2>4
  <1>9. \A j, k \in D : j = k
    BY <1>6
  <1>10. H = {} \/ (L = {} /\ D = {})
    <2> SUFFICES ASSUME NEW h \in H PROVE L = {} /\ D = {}
      OBVIOUS
    <2>1. task[h] = t /\ h \in Helpers
      OBVIOUS
    <2>2. ASSUME NEW at \in L PROVE FALSE
      <3>1. at[1] \in Kinds \ {"gchelper"} /\ t \in Elements(work[at[1]])
        BY <1>5
      <3> QED
        BY <1>0, <2>1, <3>1 DEF PlacedNow, Placed
    <2>3. ASSUME NEW k \in D PROVE FALSE
      BY <1>0, <1>6, <2>1 DEF PlacedNow, Placed
    <2> QED
      BY <2>2, <2>3
  <1>11. L = {} \/ D = {}
    <2> SUFFICES ASSUME NEW at \in L, NEW k \in D PROVE FALSE
      OBVIOUS
    <2>1. k = at[1] /\ t \in Elements(work[k]) /\ t \in done[k] /\ k \in Finishing
      BY <1>5, <1>6
    <2> QED
      BY <1>0, <2>1 DEF PlacedNow, Placed
  <1>12. Places(t) = Cardinality(H) + Cardinality(L) + Cardinality(D)
    BY DEF Places
  <1> HIDE DEF H, L, D
  <1>13. /\ Cardinality(H) \in {0, 1} /\ (H = {} => Cardinality(H) = 0)
         /\ Cardinality(L) \in {0, 1} /\ (L = {} => Cardinality(L) = 0)
         /\ Cardinality(D) \in {0, 1} /\ (D = {} => Cardinality(D) = 0)
    BY <1>7, <1>8, <1>9, AtMostOne
  <1> QED
    BY <1>10, <1>11, <1>12, <1>13

\* What is paused holds a compilation.
LEMMA PausesFollow == HInv => OnlyIonIsPaused
  BY DEF HInv, HeldNow, Held, HeldAt, OnlyIonIsPaused

\* Only the end of a cancellation ends it, when nothing it matches is left.
LEMMA CancelEnds ==
  ASSUME HInv, [Next]_vars, op[Main] \in {"cancel", "cancelAll"}, op'[Main] # op[Main]
  PROVE  \A b \in cancel : Unused("ion", b)'
  <1>0. /\ CancelInv /\ Main \in Clients /\ op \in [Clients -> OPs] /\ DOMAIN done = Finishing
        /\ Main \notin Helpers
    BY PoolAssumption DEF HInv, RestTypes, PlacedNow, Placed, Clients
  <1>1. ASSUME NEW h \in Helpers, HelperStep(h)
        PROVE  FALSE
    <2>1. op' = op \/ op' = [op EXCEPT ![h] = "none"]
      BY <1>1 DEF HelperStep, Look, PauseCompile, Resume, FinishIon, FinishWasm, FinishParse,
             FinishCompression, FinishGCTask, EndSweeping, FinishGCHelper, RefillFreeList
    <2> QED
      BY <1>0, <2>1
  <1>2. ASSUME NEW c \in Clients, ClientStep(c)
        PROVE  FALSE
    <2>1. op' = op \/ (op[c] \notin {"cancel", "cancelAll"} /\ \E o : op' = [op EXCEPT ![c] = o])
      BY <1>2 DEF ClientStep, StartModule, SubmitFunction, LeaveGenerate, FinishOutstanding, DrainModule, EndModule,
             StartOffThreadCompression, BeginComplete, Complete, StartAlloc, Sleep, In, Goto
    <2> QED
      BY <1>0, <2>1
  <1>3. CASE ParseStep \/ GCStep \/ ShutdownStep
    <2>1. op' = op \/ op[Main] \notin {"cancel", "cancelAll"}
      BY <1>3 DEF ParseStep, StartParse, MergeParse, CancelParses, AwaitParses, BeginAtomsGC, EndAtomsGC, GCStep,
           BeginSession, FreeMallocedBuffers, JoinAlloc, StartSweepAtoms, StartSweepTasks, JoinSweepTasks, Join,
           StartBackgroundSweep, WaitBackgroundSweepEnd, EndSession, ShutdownStep, Shutdown, EndShutdown, DestroyHelper, In
    <2> QED
      BY <2>1
  <1>4. CASE IonStep
    <2>1. EndCancel
      BY <1>4 DEF IonStep, WarmUp, StartOffThreadIonCompile, AttachFinished, Cancel, WaitForAllThreads,
           BeginCancel, AwaitCancelled, AwaitAllThreads, In
    <2>2. /\ \A h \in Helpers : task[h] \notin cancel
          /\ UNCHANGED <<task, work>> /\ done'["ion"] = done["ion"] \ cancel
      BY <1>0, <2>1 DEF EndCancel, Finishing
    <2>3. cancel \cap Queued("ion") = {}
      BY <1>0 DEF CancelInv
    <2> QED
      BY <2>2, <2>3 DEF Unused, Queued, InProgress
  <1>5. CASE UNCHANGED vars
    BY <1>5 DEF vars
  <1> QED
    BY <1>1, <1>2, <1>3, <1>4, <1>5 DEF Next

-----------------------------------------------------------------------------
(* Waiting work is noticed.                                                  *)

\* A compilation is paused, and there is no other one whose end would unpause it.
AllPaused(T, p) == (\E h \in Helpers : p[h]) /\ \A h \in Helpers : T[h] \in Builders => p[h]
Stranded == AllPaused(task, pause)

\* The helpers that will look at the lists again without being woken: they are
\* about to, or hold a task that does not wait for other helpers.  While
\* compilations are stranded, those that are paused do not count.
Engaged == {h \in Helpers : pc[h] = "loop" \/ task[h] \notin Parses \cup {None}}
Able == {h \in Engaged : Stranded => ~pause[h]}

\* Work that may start: of the kinds without a limit, a parse, and what threadLoop
\* looks for first.
LowKinds == {"compress", "gchelper", "gcparallel"}
LowWork == \E k \in LowKinds : work[k] # <<>>
ParseMayStart == work["parse"] # <<>> /\ \A h \in Helpers : task[h] \notin Parses
HighWork == work["ion"] # <<>> \/ (work["wasm"] # <<>> /\ failed = 0)

\* While the heap is busy a parse that waits for it may use up a notification; all
\* are notified again when the session ends.
HeapAwaited == heapBusy /\ \E h \in Helpers : pc[h] \in {"starved", "refill"}

\* Compilations are stranded for the time in which functions of the main thread's
\* module are compiled; a compilation waits that comes next.
MainCompiles ==
    /\ Stranded /\ op[Main] \in InModule /\ work["ion"] # <<>>
    /\ \E h \in Helpers : task[h] \in WasmTasks

\* When a helper sleeps although there is work that may start, another one will
\* look at the lists; and yet another one, if that one may take up a parse.
Served ==
    (\E h \in Helpers : pc[h] = "wait") /\ ~HeapAwaited =>
        /\ LowWork \/ ParseMayStart \/ HighWork => Able # {}
        /\ LowWork /\ ParseMayStart /\ ~MainCompiles => \E g, h \in Able : g # h

\* Stranded compilations leave two helpers, one of which is not in a parse.
TwoAreLeft == Stranded => MainCompiles \/ \E g, h \in Helpers : g # h /\ ~pause[g] /\ ~pause[h]

OneParse == \A g, h \in Helpers : task[g] \in Parses /\ task[h] \in Parses => g = h
StarvedInv == \A h \in Helpers : pc[h] = "starved" => heapBusy
ClientsParse == \A h \in Helpers : h \in asleep \/ op[h] \in InModule => task[h] \in Parses

\* Once the pool is being shut down there is nothing left to do.
Over == op[Main] \in {"shutdown", "ended"}
OverInv ==
    /\ Over => (\A k \in Kinds : work[k] = <<>>) /\ \A h \in Helpers : task[h] = None
    /\ terminate # {} \/ (\E h \in Helpers : pc[h] = "gone") => Over

NoticeInv == Served /\ TwoAreLeft /\ OneParse /\ StarvedInv /\ ClientsParse /\ OverInv

\* The helpers that run a task of a kind.
LEMMA OnIs ==
  ASSUME NEW T \in [Helpers -> Tasks \cup {None}], NEW s, s.task = T, NEW k \in Kinds
  PROVE  On(k, s) = {h \in Helpers : T[h] \in TasksOf(k)}
  <1>1. \A h \in Helpers : T[h] \in Tasks \cup {None}
    OBVIOUS
  <1> QED
    BY <1>1, TasksOfKinds DEF On, TasksOf

\* What keeps a task from being started.
LEMMA WhyNotStarted ==
  ASSUME NEW s, NEW D, NEW P, Placed(s.task, work, D, P)
  PROVE  /\ ~CanStart("ion", s) /\ work["ion"] # <<>> =>
              \E h \in Helpers : s.task[h] \in Builders /\ ~s.pause[h]
         /\ ~CanStart("wasm", s) /\ work["wasm"] # <<>> /\ s.failed = 0 =>
              \E h \in Helpers : s.task[h] \in WasmTasks
         /\ CanStart("parse", s) <=> work["parse"] # <<>> /\ \A h \in Helpers : s.task[h] \notin Parses
         /\ \A k \in LowKinds : CanStart(k, s) <=> work[k] # <<>>
  <1>0. /\ s.task \in [Helpers -> Tasks \cup {None}] /\ \A k \in Kinds : work[k] \in Seq(TasksOf(k))
    BY DEF Placed
  <1>1. Cardinality(Helpers) \in Nat /\ Cardinality(Helpers) > 1 /\ Cardinality(WasmTasks) \in Nat
    BY PoolAssumption, FS_CardinalityType
  <1>2. \A k \in {"ion"} \cup LowKinds : BelowLimit(k, s)
    BY <1>1 DEF BelowLimit, MaxThreads, LowKinds
  <1>3. ASSUME ~CanStart("ion", s), work["ion"] # <<>>
        PROVE  \E h \in Helpers : s.task[h] \in Builders /\ ~s.pause[h]
    <2>1. ~SufficientPriority(s)
      BY <1>2, <1>3 DEF CanStart
    <2>2. LowestUnpaused(s) # {}
      BY <2>1 DEF SufficientPriority
    <2>3. Unpaused(s) # {}
      BY <2>2 DEF LowestUnpaused
    <2>4. On("ion", s) = {h \in Helpers : s.task[h] \in Builders}
      BY <1>0, OnIs, KindsAre, KindsOfTasks
    <2> QED
      BY <2>3, <2>4 DEF Unpaused
  <1>4. ASSUME ~CanStart("wasm", s), work["wasm"] # <<>>, s.failed = 0
        PROVE  \E h \in Helpers : s.task[h] \in WasmTasks
    <2>1. ~BelowLimit("wasm", s)
      BY <1>4 DEF CanStart
    <2>2. On("wasm", s) = {h \in Helpers : s.task[h] \in WasmTasks}
      BY <1>0, OnIs, KindsAre, KindsOfTasks
    <2>3. SUFFICES ASSUME On("wasm", s) = {}
                   PROVE  FALSE
      BY <2>2
    <2>4. work["wasm"] \in Seq(WasmTasks)
      BY <1>0, KindsAre, KindsOfTasks
    <2>5. WasmTasks # {}
      BY <1>4, <2>4
    <2>6. Cardinality(WasmTasks) # 0 /\ Cardinality({}) = 0
      BY <2>5, PoolAssumption, FS_EmptySet
    <2> QED
      BY <1>1, <2>1, <2>3, <2>6 DEF BelowLimit, MaxThreads
  <1>5. CanStart("parse", s) <=> work["parse"] # <<>> /\ \A h \in Helpers : s.task[h] \notin Parses
    <2>1. On("parse", s) = {h \in Helpers : s.task[h] \in Parses}
      BY <1>0, OnIs, KindsAre, KindsOfTasks
    <2>2. IsFiniteSet(On("parse", s))
      BY <2>1, PoolAssumption, FS_Subset
    <2>3. Cardinality(On("parse", s)) \in Nat /\ (Cardinality(On("parse", s)) = 0 <=> On("parse", s) = {})
      BY <2>2, FS_CardinalityType, FS_EmptySet
    <2>4. BelowLimit("parse", s) <=> On("parse", s) = {}
      BY <1>1, <2>3 DEF BelowLimit, MaxThreads
    <2> QED
      BY <2>1, <2>4 DEF CanStart
  <1>6. \A k \in LowKinds : CanStart(k, s) <=> work[k] # <<>>
    BY <1>2 DEF CanStart, LowKinds
  <1> QED
    BY <1>3, <1>4, <1>5, <1>6

\* What threadLoop sees when a helper is through with its task: nothing else has
\* changed, unless it unpaused a compilation; and when the end of a compilation
\* leaves others stranded, one waits that comes before them.
Leaves(h, s) ==
    /\ pc[h] \in {"loop", "work", "swept"}
    /\ s.task = [task EXCEPT ![h] = None]
    /\ s.pause \in [Helpers -> BOOLEAN] /\ ~s.pause[h] /\ \A g \in Helpers : s.pause[g] => pause[g]
    /\ task[h] \notin Builders => \A g \in Helpers : g # h => s.pause[g] = pause[g]
    /\ task[h] \in Builders /\ AllPaused(s.task, s.pause) => work["ion"] # <<>>
    /\ s.pc \in [Helpers -> PCs]
    /\ \A g \in Helpers : g # h => s.pc[g] = pc[g] \/ (pc[g] = "paused" /\ s.pc[g] = "resume")
    /\ s.failed = failed'

\* Of some helpers that compile, one does so with the highest priority.
LEMMA SomeHighest ==
  ASSUME RestTypes, NEW T \in [Helpers -> Tasks \cup {None}],
         NEW S \in SUBSET {h \in Helpers : T[h] \in Builders}, S # {}
  PROVE  \E h \in S : \A g \in S : ~Higher(T[g], T[h])
  <1> DEFINE below(h) == MaxRank - rank[T[h]]
             N == {below(h) : h \in S}
  <1>1. \A h \in S : rank[T[h]] \in 0 .. MaxRank /\ MaxRank \in Nat
    BY PoolAssumption DEF RestTypes
  <1>2. N \in SUBSET Nat /\ N # {}
    BY <1>1
  <1>3. PICK n \in N : \A m \in N : n <= m
    BY <1>2, LeastNumber
  <1>4. PICK h \in S : n = below(h)
    OBVIOUS
  <1>5. ASSUME NEW g \in S
        PROVE  ~Higher(T[g], T[h])
    <2>1. below(h) <= below(g)
      BY <1>3, <1>4
    <2> QED
      BY <1>1, <2>1 DEF Higher
  <1> QED
    BY <1>5

\* The end of a compilation (handleIonWorkload).
LEMMA FinishIonLeaves ==
  ASSUME HInv, NEW h \in Helpers, FinishIon(h)
  PROVE  \E s : Leaves(h, s) /\ ThreadLoop(h, s)
  <1>0. /\ PlacedNow /\ HeldNow /\ RestTypes
        /\ task \in [Helpers -> Tasks \cup {None}] /\ pause \in [Helpers -> BOOLEAN] /\ pc \in [Helpers -> PCs]
        /\ \A g \in Helpers : pause[g] => task[g] \in Builders
    BY DEF HInv, HeldNow, Held, HeldAt, PlacedNow, Placed
  <1>1. pc[h] = "work" /\ failed' = failed
    BY DEF FinishIon, Works
  <1> DEFINE r == Reset(h)
             paused == {g \in On("ion", r) : r.pause[g]}
  <1>2. /\ r.task = [task EXCEPT ![h] = None] /\ r.pc = pc /\ r.pause = [pause EXCEPT ![h] = FALSE] /\ r.failed = failed
        /\ r.task \in [Helpers -> Tasks \cup {None}]
    BY <1>0, ResetState
  <1> HIDE DEF r
  <1>3. On("ion", r) = {g \in Helpers : r.task[g] \in Builders}
    <2> DEFINE T == r.task
    <2>1. T \in [Helpers -> Tasks \cup {None}] /\ r.task = T /\ "ion" \in Kinds
      BY <1>2, KindsAre
    <2> HIDE DEF T
    <2>2. On("ion", r) = {g \in Helpers : T[g] \in TasksOf("ion")}
      BY <2>1, OnIs
    <2> QED
      BY <2>1, <2>2, KindsOfTasks
  <1>4. /\ HighestPaused(r) = {g \in paused : \A i \in paused : ~Higher(r.task[i], r.task[g])}
        /\ \A g \in paused : g \in Helpers /\ r.task[g] \in Builders /\ g # h
    BY <1>2, <1>3, ClassesAreApart DEF HighestPaused
  <1>7. paused # {} => HighestPaused(r) # {}
    <2> DEFINE T == r.task
    <2>1. T \in [Helpers -> Tasks \cup {None}] /\ paused \in SUBSET {g \in Helpers : T[g] \in Builders}
      BY <1>2, <1>3
    <2> HIDE DEF T, paused
    <2>2. paused # {} => \E g \in paused : \A i \in paused : ~Higher(T[i], T[g])
      BY <1>0, <2>1, SomeHighest
    <2> QED
      BY <1>4, <2>2 DEF T
  <1>5. CASE /\ \A other \in HighestPaused(r) : ~MayUnpause(other)
             /\ ThreadLoop(h, r)
    <2>1. ASSUME AllPaused(r.task, r.pause)
          PROVE  work["ion"] # <<>>
      <3>1. PICK g \in Helpers : r.pause[g]
        BY <2>1 DEF AllPaused
      <3>2. g # h /\ pause[g]
        BY <1>0, <1>2, <3>1
      <3>3. r.task[g] \in Builders
        BY <1>0, <1>2, <3>2
      <3>4. g \in paused /\ paused \in SUBSET {i \in Helpers : r.task[i] \in Builders}
        BY <1>3, <3>1, <3>3
      <3>5. HighestPaused(r) # {}
        BY <1>7, <3>4
      <3>6. PICK b \in HighestPending : TRUE
        BY <1>5, <3>5 DEF MayUnpause
      <3> QED
        BY <3>6 DEF HighestPending
    <2>2. Leaves(h, r)
      BY <1>0, <1>1, <1>2, <2>1 DEF Leaves
    <2> QED
      BY <1>5, <2>2
  <1>6. ASSUME NEW other \in HighestPaused(r),
               ThreadLoop(h, [r EXCEPT !.pause[other] = FALSE, !.pc = PausedWoken])
        PROVE  \E s : Leaves(h, s) /\ ThreadLoop(h, s)
    <2> DEFINE s == [r EXCEPT !.pause[other] = FALSE, !.pc = PausedWoken]
    <2>1. /\ s.task = r.task /\ s.pause = [r.pause EXCEPT ![other] = FALSE]
          /\ s.pc = PausedWoken /\ s.failed = failed
      BY DEF r, Reset, Now
    <2>2. ThreadLoop(h, s)
      BY <1>6
    <2> HIDE DEF s
    <2>3. other \in Helpers /\ s.task[other] \in Builders /\ ~s.pause[other]
      <3>1. other \in Helpers /\ r.task[other] \in Builders
        BY <1>4
      <3> HIDE DEF paused
      <3>2. r.pause \in [Helpers -> BOOLEAN]
        BY <1>0, <1>2
      <3> QED
        BY <2>1, <3>1, <3>2
    <2>4. ~AllPaused(s.task, s.pause)
      BY <2>3 DEF AllPaused
    <2>5. /\ s.pc \in [Helpers -> PCs]
          /\ \A g \in Helpers : s.pc[g] = pc[g] \/ (pc[g] = "paused" /\ s.pc[g] = "resume")
      <3>1. Held(PausedWoken, task, pause)
        BY <1>0, WakeHolds DEF HeldNow, PausedWoken
      <3>2. \A g \in Helpers : PausedWoken[g] = IF pc[g] = "paused" THEN "resume" ELSE pc[g]
        BY DEF PausedWoken, PauseWaiters, Wake
      <3> QED
        BY <2>1, <3>1, <3>2 DEF Held
    <2>6. s.pause \in [Helpers -> BOOLEAN] /\ ~s.pause[h] /\ \A g \in Helpers : s.pause[g] => pause[g]
      BY <1>0, <1>2, <2>1
    <2>7. task[h] \in Builders
      BY <1>0, KindsAre, KindsOfTasks, WorksOn DEF FinishIon
    <2>8. Leaves(h, s)
      BY <1>1, <1>2, <2>1, <2>4, <2>5, <2>6, <2>7 DEF Leaves
    <2> QED
      BY <2>2, <2>8
  <1> QED
    BY <1>5, <1>6 DEF FinishIon, r

\* A step of a helper, unless it only moves on with its task, ends in threadLoop.
Quiet(h) == PauseCompile(h) \/ Resume(h) \/ EndSweeping(h) \/ RefillFreeList(h)

LEMMA HelpersLeave ==
  ASSUME HInv, NEW h \in Helpers, HelperStep(h), ~Quiet(h)
  PROVE  \E s : Leaves(h, s) /\ ThreadLoop(h, s)
  <1>0. /\ PlacedNow /\ task \in [Helpers -> Tasks \cup {None}] /\ HeldAt(h, pc, task, pause)
        /\ pause \in [Helpers -> BOOLEAN] /\ pc \in [Helpers -> PCs]
    BY DEF HInv, HeldNow, Held, PlacedNow, Placed
  <1>1. ASSUME NEW s, s.task = [task EXCEPT ![h] = None], s.pause = [pause EXCEPT ![h] = FALSE], s.pc = pc,
               s.failed = failed', pc[h] \in {"loop", "work", "swept"}, task[h] \notin Builders
        PROVE  Leaves(h, s)
    BY <1>0, <1>1 DEF Leaves
  <1>2. CASE Look(h)
    <2>1. pc[h] = "loop" /\ task[h] = None /\ ~pause[h] /\ None \notin Builders /\ failed' = failed
      BY <1>0, <1>2, ClassesAreApart DEF Look, HeldAt
    <2>2. task = [task EXCEPT ![h] = None] /\ pause = [pause EXCEPT ![h] = FALSE]
      BY <1>0, <2>1
    <2>3. Leaves(h, Now)
      BY <1>1, <2>1, <2>2, ResetState
    <2> QED
      BY <1>2, <2>3 DEF Look
  <1>3. ASSUME NEW k \in Kinds \ {"ion"}, Works(h, k)
        PROVE  pc[h] = "work" /\ task[h] \notin Builders
    <2>1. task[h] \in TasksOf(k) /\ pc[h] = "work"
      BY <1>0, <1>3, WorksOn
    <2>2. TasksOf(k) \cap TasksOf("ion") = {}
      BY KindsAre, TasksOfKinds
    <2> QED
      BY <2>1, <2>2, KindsOfTasks
  <1>4. CASE FinishWasm(h)
    <2> DEFINE s == [Reset(h) EXCEPT !.failed = failed']
    <2>1. /\ s.task = [task EXCEPT ![h] = None] /\ s.pause = [pause EXCEPT ![h] = FALSE] /\ s.pc = pc
          /\ s.failed = failed'
      BY DEF Reset, Now
    <2>2. ThreadLoop(h, s)
      BY <1>4 DEF FinishWasm
    <2> HIDE DEF s
    <2>3. Works(h, "wasm") /\ "wasm" \in Kinds \ {"ion"}
      BY <1>4, KindsAre DEF FinishWasm
    <2>4. Leaves(h, s)
      BY <1>1, <1>3, <2>1, <2>3
    <2> QED
      BY <2>2, <2>4
  <1>5. CASE FinishParse(h) \/ FinishCompression(h) \/ FinishGCTask(h) \/ FinishGCHelper(h)
    <2>1. ThreadLoop(h, Reset(h)) /\ failed' = failed
      BY <1>5 DEF FinishParse, FinishCompression, FinishGCTask, FinishGCHelper
    <2>2. pc[h] \in {"work", "swept"} /\ task[h] \notin Builders
      <3>1. CASE FinishGCHelper(h)
        BY <1>0, <3>1, ClassesAreApart DEF FinishGCHelper, HeldAt
      <3>2. CASE Works(h, "parse") \/ Works(h, "compress") \/ Works(h, "gcparallel")
        BY <1>3, <3>2, KindsAre
      <3> QED
        BY <1>5, <3>1, <3>2 DEF FinishParse, FinishCompression, FinishGCTask
    <2>3. Leaves(h, Reset(h))
      BY <1>1, <2>1, <2>2, ResetState
    <2> QED
      BY <2>1, <2>3
  <1>6. CASE FinishIon(h)
    BY <1>6, FinishIonLeaves
  <1> QED
    BY <1>2, <1>4, <1>5, <1>6 DEF HelperStep, Quiet

\* Without its task nothing is in two places.
LEMMA LeavesPlaced ==
  ASSUME HInv, NEW h \in Helpers, NEW s, Leaves(h, s)
  PROVE  Placed(s.task, work, done, parked)
  <1>1. Placed(task, work, done, parked) /\ s.task = [task EXCEPT ![h] = None]
    BY DEF HInv, PlacedNow, Leaves
  <1> QED
    BY <1>1, LetsGoKeeps

\* In threadLoop the other helpers stay where they are.
LEMMA OthersStay ==
  ASSUME HInv, NEW h \in Helpers, NEW s, Leaves(h, s), ThreadLoop(h, s), UNCHANGED heapBusy
  PROVE  /\ \A g \in Helpers : g # h =>
              /\ task'[g] = task[g] /\ s.task[g] = task[g]
              /\ g \in Engaged <=> g \in Engaged'
              /\ pc'[g] = "wait" => pc[g] = "wait"
         /\ pc'[h] \in {"gone", "wait", "work"} /\ s.task[h] = None
         /\ HeapAwaited' <=> HeapAwaited
  <1>0. /\ task \in [Helpers -> Tasks \cup {None}] /\ s.task = [task EXCEPT ![h] = None]
        /\ s.pc \in [Helpers -> PCs] /\ pc[h] \in {"loop", "work", "swept"}
    BY DEF HInv, PlacedNow, Placed, Leaves
  <1>8. Stops(h, s) \/ \E k \in Kinds : \E t, q : Takes(h, s, k, t, q)
    BY LeavesPlaced, ThreadLoopDoes
  <1>1. \E x \in {"gone", "wait", "work"} : pc' = [s.pc EXCEPT ![h] = x]
    <2>1. CASE Stops(h, s)
      <3>1. pc' = [s.pc EXCEPT ![h] = "gone"] \/ pc' = [s.pc EXCEPT ![h] = "wait"]
        BY <2>1 DEF Stops
      <3> QED
        BY <3>1
    <2>2. ASSUME NEW k \in Kinds, NEW t, NEW q, Takes(h, s, k, t, q)
          PROVE  pc' = [s.pc EXCEPT ![h] = "work"]
      BY <2>2 DEF Takes
    <2> QED
      BY <1>8, <2>1, <2>2
  <1>2. task' = s.task \/ \E t : task' = [s.task EXCEPT ![h] = t]
    BY <1>8 DEF Stops, Takes
  <1>3. pc'[h] \in {"gone", "wait", "work"} /\ s.task[h] = None
    BY <1>0, <1>1
  <1>4. ASSUME NEW g \in Helpers, g # h
        PROVE  /\ task'[g] = task[g] /\ s.task[g] = task[g]
               /\ pc'[g] = pc[g] \/ (pc[g] = "paused" /\ pc'[g] = "resume")
    <2>1. pc'[g] = s.pc[g] /\ task'[g] = s.task[g] /\ s.task[g] = task[g]
      BY <1>0, <1>1, <1>2, <1>4
    <2> QED
      BY <1>4, <2>1 DEF Leaves
  <1>5. \A g \in Helpers : g # h => (pc'[g] = "wait" => pc[g] = "wait") /\ (g \in Engaged <=> g \in Engaged')
    BY <1>4 DEF Engaged
  <1>6. \A g \in Helpers : pc'[g] \in {"starved", "refill"} <=> pc[g] \in {"starved", "refill"}
    BY <1>0, <1>3, <1>4
  <1>7. HeapAwaited' <=> HeapAwaited
    BY <1>6 DEF HeapAwaited
  <1> QED
    BY <1>3, <1>4, <1>5, <1>7

\* A compilation that waits and may not start has another one running.
LEMMA PendingIon ==
  ASSUME HInv, NEW h \in Helpers, NEW s, Leaves(h, s), work["ion"] # <<>>, ~CanStart("ion", s)
  PROVE  /\ \E x \in Helpers : x # h /\ task[x] \in Builders /\ ~s.pause[x]
         /\ ~AllPaused(s.task, s.pause)
  <1>1. PICK x \in Helpers : s.task[x] \in Builders /\ ~s.pause[x]
    BY LeavesPlaced, WhyNotStarted
  <1>2. x # h /\ s.task[x] = task[x]
    BY <1>1, ClassesAreApart DEF Leaves, HInv, PlacedNow, Placed
  <1> QED
    BY <1>1, <1>2 DEF AllPaused

\* When a helper that did not compile leaves compilations stranded, they were.
LEMMA WasStranded ==
  ASSUME HInv, NEW h \in Helpers, NEW s, Leaves(h, s), task[h] \notin Builders
  PROVE  AllPaused(s.task, s.pause) <=> Stranded
  <1>0. /\ task \in [Helpers -> Tasks \cup {None}] /\ s.task = [task EXCEPT ![h] = None] /\ None \notin Builders
        /\ ~s.pause[h] /\ ~pause[h] /\ \A g \in Helpers : g # h => s.pause[g] = pause[g]
    BY ClassesAreApart DEF HInv, PlacedNow, Placed, HeldNow, Held, HeldAt, Leaves
  <1> QED
    BY <1>0 DEF AllPaused, Stranded

\* A helper that goes to sleep leaves nothing to start.
LEMMA StopsServed ==
  ASSUME HInv, NoticeInv, NEW h \in Helpers, NEW s, Leaves(h, s), ThreadLoop(h, s), Stops(h, s),
         UNCHANGED heapBusy
  PROVE  (Served /\ TwoAreLeft /\ OneParse)'
  <1>0. /\ task \in [Helpers -> Tasks \cup {None}] /\ s.task = [task EXCEPT ![h] = None]
        /\ \A g \in Helpers : s.pause[g] => pause[g]
        /\ \A g \in Helpers : pause[g] => task[g] \in Builders
        /\ task' = s.task /\ pause' = s.pause /\ work' = work /\ s.failed = failed'
        /\ s.task[h] = None
    BY OthersStay DEF HInv, PlacedNow, Placed, HeldNow, Held, HeldAt, Leaves, Stops
  <1>1. \A k \in Kinds : ~CanStart(k, s)
    <2>1. h \in terminate => \A k \in Kinds : work[k] = <<>>
      BY DEF NoticeInv, OverInv
    <2> QED
      BY <2>1 DEF Stops, CanStart
  <1>2. ~LowWork' /\ ~ParseMayStart'
    <2>1. \A k \in LowKinds : work[k] = <<>>
      BY <1>1, LeavesPlaced, WhyNotStarted, KindsAre DEF LowKinds
    <2>2. ~CanStart("parse", s)
      BY <1>1, KindsAre
    <2>3. ~(work["parse"] # <<>> /\ \A g \in Helpers : s.task[g] \notin Parses)
      BY <2>2, LeavesPlaced, WhyNotStarted
    <2> QED
      BY <1>0, <2>1, <2>3 DEF LowWork, ParseMayStart
  <1>3. Stranded' <=> AllPaused(s.task, s.pause)
    BY <1>0 DEF Stranded
  <1>4. HighWork' => \E x \in Helpers : task'[x] \in Builders \cup WasmTasks /\ ~pause'[x]
    <2>1. CASE work["ion"] # <<>>
      <3>1. ~CanStart("ion", s)
        BY <1>1, KindsAre
      <3> QED
        BY <1>0, <2>1, <3>1, LeavesPlaced, WhyNotStarted
    <2>2. CASE work["wasm"] # <<>> /\ failed' = 0
      <3>1. ~CanStart("wasm", s)
        BY <1>1, KindsAre
      <3>2. PICK x \in Helpers : s.task[x] \in WasmTasks
        BY <1>0, <2>2, <3>1, LeavesPlaced, WhyNotStarted
      <3>3. task[x] \in WasmTasks
        BY <1>0, <3>2, ClassesAreApart
      <3>4. ~pause[x]
        BY <1>0, <3>3, ClassesAreApart
      <3> QED
        BY <1>0, <3>2, <3>4
    <2> QED
      BY <1>0, <2>1, <2>2 DEF HighWork
  <1>5. HighWork' => Able' # {}
    <2> SUFFICES ASSUME HighWork' PROVE Able' # {}
      OBVIOUS
    <2>1. PICK x \in Helpers : task'[x] \in Builders \cup WasmTasks /\ ~pause'[x]
      BY <1>4
    <2>2. task'[x] \notin Parses \cup {None}
      BY <2>1, ClassesAreApart
    <2> QED
      BY <2>1, <2>2 DEF Able, Engaged
  <1>6. Served'
    BY <1>2, <1>5 DEF Served
  <1>7. TwoAreLeft'
    <2> SUFFICES ASSUME Stranded'
                 PROVE  \E g, i \in Helpers : g # i /\ ~pause'[g] /\ ~pause'[i]
      BY DEF TwoAreLeft
    <2>1. work["ion"] = <<>>
      <3>1. ~CanStart("ion", s)
        BY <1>1, KindsAre
      <3> QED
        BY <1>3, <3>1, PendingIon
    <2>2. task[h] \notin Builders
      BY <1>3, <2>1 DEF Leaves
    <2>3. Stranded /\ ~MainCompiles
      BY <1>3, <2>1, <2>2, WasStranded DEF MainCompiles
    <2>4. PICK g, i \in Helpers : g # i /\ ~pause[g] /\ ~pause[i]
      BY <2>3 DEF NoticeInv, TwoAreLeft
    <2> QED
      BY <1>0, <2>4
  <1>8. OneParse'
    BY <1>0, ClassesAreApart DEF NoticeInv, OneParse
  <1> QED
    BY <1>6, <1>7, <1>8

\* A helper that takes a task: what it holds, and that it counts unless that is a parse.
LEMMA TakenTask ==
  ASSUME HInv, NEW h \in Helpers, NEW s, Leaves(h, s), NEW k \in Kinds, NEW t, NEW q, Takes(h, s, k, t, q)
  PROVE  /\ task'[h] = t /\ t \in TasksOf(k) /\ t # None
         /\ work[k] # <<>> /\ \A l \in Kinds : l # k => work'[l] = work[l]
         /\ ~pause'[h] /\ (k # "ion" => pause' = s.pause)
         /\ k # "parse" => h \in Engaged' /\ h \in Able'
         /\ \A l \in Kinds : work'[l] # <<>> => work[l] # <<>>
  <1>0. /\ PlacedNow /\ s.task \in [Helpers -> Tasks \cup {None}] /\ s.task[h] = None
        /\ DOMAIN work = Kinds /\ work[k] \in Seq(TasksOf(k))
        /\ s.pause \in [Helpers -> BOOLEAN] /\ ~s.pause[h]
    BY DEF HInv, PlacedNow, Placed, Leaves
  <1>1. task'[h] = t /\ work' = [work EXCEPT ![k] = q] /\ t \in Elements(work[k]) /\ (k # "ion" => pause' = s.pause)
    BY <1>0 DEF Takes
  <1>2. t \in TasksOf(k) /\ t # None
    BY <1>0, <1>1, TasksOfKinds DEF Elements
  <1>3. work[k] # <<>> /\ \A l \in Kinds : l # k => work'[l] = work[l]
    BY <1>0, <1>1 DEF Elements
  <1>4. ~pause'[h]
    <2>1. ASSUME NEW other \in Helpers, s.task[other] \in Builders, pause' = [s.pause EXCEPT ![other] = TRUE]
          PROVE  ~pause'[h]
      BY <1>0, <2>1, ClassesAreApart
    <2> QED
      BY <1>0, <2>1 DEF Takes
  <1>5. k # "parse" => t \notin Parses
    BY <1>2, TasksOfKinds, KindsAre, KindsOfTasks
  <1>6. k # "parse" => h \in Engaged' /\ h \in Able'
    BY <1>1, <1>2, <1>4, <1>5 DEF Engaged, Able
  <1> QED
    BY <1>1, <1>2, <1>3, <1>4, <1>6

\* Another helper that counted still does, unless the end of a compilation
\* leaves it stranded.
LEMMA StaysAble ==
  ASSUME HInv, NEW h \in Helpers, NEW s, Leaves(h, s), ThreadLoop(h, s), UNCHANGED heapBusy,
         pause' = s.pause, task[h] \in Builders => ~Stranded',
         Stranded' => AllPaused(s.task, s.pause), NEW x \in Able, x # h
  PROVE  x \in Able'
  <1>1. x \in Helpers /\ x \in Engaged'
    BY OthersStay DEF Able, Engaged
  <1>2. ASSUME Stranded' PROVE ~pause'[x]
    <2>1. Stranded
      BY <1>2, WasStranded
    <2> QED
      BY <1>1, <1>2, <2>1 DEF Able, Leaves
  <1> QED
    BY <1>1, <1>2 DEF Able

\* Taking anything but a compilation strands nobody.
LEMMA TakenStrands ==
  ASSUME HInv, NEW h \in Helpers, NEW s, Leaves(h, s), NEW k \in Kinds \ {"ion"}, NEW t, NEW q, Takes(h, s, k, t, q)
  PROVE  Stranded' <=> AllPaused(s.task, s.pause)
  <1>1. /\ s.task \in [Helpers -> Tasks \cup {None}] /\ s.task[h] = None /\ None \notin Builders
    BY LeavesPlaced, ClassesAreApart DEF HInv, PlacedNow, Placed, Leaves
  <1>2. t \notin Builders /\ pause' = s.pause /\ task' = [s.task EXCEPT ![h] = t]
    <2>1. t \in TasksOf(k) /\ pause' = s.pause
      BY TakenTask
    <2>2. TasksOf(k) \cap TasksOf("ion") = {}
      BY TasksOfKinds, KindsAre
    <2> QED
      BY <2>1, <2>2, KindsOfTasks DEF Takes
  <1> QED
    BY <1>1, <1>2 DEF Stranded, AllPaused

\* Before a step of threadLoop that leaves a helper sleeping, the work was served.
LEMMA WasServed ==
  ASSUME HInv, NoticeInv, NEW h \in Helpers, NEW s, Leaves(h, s), ThreadLoop(h, s), UNCHANGED heapBusy,
         pc'[h] # "wait", \E g \in Helpers : pc'[g] = "wait", ~HeapAwaited', LowWork
  PROVE  /\ Able # {}
         /\ ParseMayStart /\ ~MainCompiles => \E g, i \in Able : g # i
  <1>1. (\E g \in Helpers : pc[g] = "wait") /\ ~HeapAwaited
    BY OthersStay
  <1> QED
    BY <1>1 DEF NoticeInv, Served

\* What is not yet started of the kinds looked at before.
LEMMA LooksFirst ==
  ASSUME NEW k \in Kinds, NEW s, First(k, s)
  PROVE  /\ k \in {"parse"} \cup LowKinds => ~CanStart("ion", s) /\ ~CanStart("wasm", s)
         /\ k \in LowKinds => ~CanStart("parse", s)
  <1>1. DOMAIN Order = 1 .. 6
    BY DEF Order
  <1>2. /\ Order[1] = "wasm" /\ Order[2] = "ion" /\ Order[3] = "parse"
        /\ Order[4] = "compress" /\ Order[5] = "gchelper" /\ Order[6] = "gcparallel"
    BY DEF Order
  <1> DEFINE O == Order
  <1>3. \A i, j \in 1 .. 6 : O[j] = k /\ i < j => ~CanStart(O[i], s)
    BY <1>1 DEF First
  <1> HIDE DEF O
  <1>4. /\ O[1] = "wasm" /\ O[2] = "ion" /\ O[3] = "parse"
        /\ O[4] = "compress" /\ O[5] = "gchelper" /\ O[6] = "gcparallel"
    BY <1>2 DEF O
  <1>5. /\ O[3] = k \/ O[4] = k \/ O[5] = k \/ O[6] = k => ~CanStart(O[1], s) /\ ~CanStart(O[2], s)
        /\ O[4] = k \/ O[5] = k \/ O[6] = k => ~CanStart(O[3], s)
    BY <1>3
  <1> QED
    BY <1>4, <1>5 DEF LowKinds

\* A helper that takes a compilation.
LEMMA TakesIonServed ==
  ASSUME HInv, NoticeInv, NEW h \in Helpers, NEW s, Leaves(h, s), ThreadLoop(h, s), NEW t, NEW q,
         Takes(h, s, "ion", t, q), UNCHANGED heapBusy
  PROVE  (Served /\ TwoAreLeft /\ OneParse)'
  <1>0. "ion" \in Kinds /\ "ion" \notin LowKinds /\ LowKinds \subseteq Kinds
    BY KindsAre DEF LowKinds
  <1>1. task'[h] = t /\ t \in Builders /\ ~pause'[h] /\ h \in Able'
    <2>1. t \in TasksOf("ion") /\ task'[h] = t /\ ~pause'[h] /\ h \in Able'
      BY <1>0, TakenTask
    <2> QED
      BY <2>1, KindsOfTasks
  <1>2. ~Stranded'
    BY <1>1 DEF Stranded, AllPaused
  <1>3. Able' = Engaged'
    BY <1>2 DEF Able, Engaged
  <1>4. ASSUME \E g \in Helpers : pc'[g] = "wait", ~HeapAwaited', LowWork', ParseMayStart'
        PROVE  \E g \in Able' : g # h
    <2>1. LowWork /\ work["parse"] # <<>> /\ \A g \in Helpers : g # h => task[g] \notin Parses
      <3>1. LowWork /\ work["parse"] # <<>>
        BY <1>0, <1>4, TakenTask, KindsAre DEF LowWork, ParseMayStart
      <3>2. \A g \in Helpers : g # h => task[g] \notin Parses
        BY <1>4, OthersStay DEF ParseMayStart
      <3> QED
        BY <3>1, <3>2
    <2>2. pc'[h] # "wait"
      <3>1. pc' = [s.pc EXCEPT ![h] = "work"] /\ s.pc \in [Helpers -> PCs]
        BY DEF Takes, Leaves
      <3> QED
        BY <3>1
    <2>3. Able # {} /\ (ParseMayStart /\ ~MainCompiles => \E g, i \in Able : g # i)
      BY <1>4, <2>1, <2>2, WasServed
    <2>4. SUFFICES \E g \in Engaged : g # h
      BY <1>3, OthersStay DEF Engaged
    <2>5. CASE task[h] \in Parses
      <3>1. h \notin Engaged
        <4>1. pc[h] # "loop"
          BY <2>5, ClassesAreApart DEF HInv, HeldNow, Held, HeldAt
        <4> QED
          BY <2>5, <4>1 DEF Engaged
      <3> QED
        BY <2>3, <3>1 DEF Able
    <2>6. CASE task[h] \notin Parses /\ ~MainCompiles
      <3>1. ParseMayStart
        BY <2>1, <2>6 DEF ParseMayStart
      <3> QED
        BY <2>3, <2>6, <3>1 DEF Able
    <2>7. CASE MainCompiles
      <3>1. PICK w \in Helpers : task[w] \in WasmTasks
        BY <2>7 DEF MainCompiles
      <3>2. PICK g \in Helpers : pause[g] /\ task[g] \in Builders
        BY <2>7 DEF MainCompiles, Stranded, AllPaused, HInv, HeldNow, Held, HeldAt
      <3>3. w \in Engaged /\ g \in Engaged /\ w # g
        BY <3>1, <3>2, ClassesAreApart DEF Engaged
      <3> QED
        BY <3>3
    <2> QED
      BY <2>5, <2>6, <2>7
  <1>5. Served'
    BY <1>1, <1>4 DEF Served
  <1>6. OneParse'
    <2>1. task'[h] \notin Parses
      BY <1>1, ClassesAreApart
    <2> QED
      BY <2>1, OthersStay DEF NoticeInv, OneParse
  <1> QED
    BY <1>2, <1>5, <1>6 DEF TwoAreLeft

\* A helper that takes a parse.
LEMMA TakesParseServed ==
  ASSUME HInv, NoticeInv, NEW h \in Helpers, NEW s, Leaves(h, s), ThreadLoop(h, s), NEW t, NEW q,
         Takes(h, s, "parse", t, q), UNCHANGED heapBusy
  PROVE  (Served /\ TwoAreLeft /\ OneParse)'
  <1> DEFINE K == "parse"
  <1>0. K \in Kinds /\ K # "ion" /\ K \notin LowKinds /\ LowKinds \subseteq Kinds /\ Takes(h, s, K, t, q) /\ First(K, s)
        /\ ~CanStart("ion", s) /\ ~CanStart("wasm", s)
    BY KindsAre, LooksFirst DEF LowKinds, Takes
  <1>a. /\ task'[h] = t /\ t \in TasksOf(K) /\ ~pause'[h] /\ pause' = s.pause
        /\ \A l \in Kinds : l # K => work'[l] = work[l]
    BY <1>0, TakenTask
  <1>b. Stranded' <=> AllPaused(s.task, s.pause)
    BY <1>0, TakenStrands
  <1> HIDE DEF K
  <1>1. t \in Parses
    BY <1>a, KindsOfTasks DEF K
  <1>2. \A g \in Helpers : s.task[g] \notin Parses
    <2>1. CanStart("parse", s)
      BY <1>0 DEF First, K
    <2> QED
      BY <2>1, LeavesPlaced, WhyNotStarted
  <1>3. ~ParseMayStart'
    BY <1>a, <1>1 DEF ParseMayStart
  <1>4. /\ \A l \in Kinds \ {"parse"} : work'[l] = work[l]
        /\ s.failed = failed'
        /\ \A g \in Helpers : s.pause[g] => pause[g]
    BY <1>a DEF Leaves, K
  <1>5. HighWork' => Able' # {}
    <2>1. CASE work["ion"] # <<>>
      <3>1. PICK x \in Helpers : x # h /\ task[x] \in Builders /\ ~s.pause[x]
        BY <1>0, <2>1, PendingIon
      <3>2. task'[x] \in Builders /\ ~pause'[x] /\ task'[x] \notin Parses \cup {None}
        BY <1>a, <3>1, OthersStay, ClassesAreApart
      <3> QED
        BY <3>2 DEF Able, Engaged
    <2>2. CASE work["wasm"] # <<>> /\ failed' = 0
      <3>1. PICK x \in Helpers : s.task[x] \in WasmTasks
        BY <1>0, <1>4, <2>2, LeavesPlaced, WhyNotStarted
      <3>2. s.task[h] = None
        BY OthersStay
      <3>3. x # h
        BY <3>1, <3>2, ClassesAreApart
      <3>4. task[x] \in WasmTasks /\ task'[x] \in WasmTasks
        BY <3>1, <3>3, OthersStay
      <3>5. ~pause[x]
        BY <3>4, ClassesAreApart DEF HInv, HeldNow, Held, HeldAt
      <3>6. ~pause'[x] /\ task'[x] \notin Parses \cup {None}
        BY <1>a, <1>4, <3>4, <3>5, ClassesAreApart
      <3> QED
        BY <3>6 DEF Able, Engaged
    <2> QED
      BY <1>4, <2>1, <2>2, KindsAre DEF HighWork
  <1>6. ASSUME \E g \in Helpers : pc'[g] = "wait", ~HeapAwaited', LowWork'
        PROVE  Able' # {}
    <2>1. LowWork
      BY <1>4, <1>6, KindsAre DEF LowWork, LowKinds
    <2>2. pc'[h] # "wait"
      <3>1. pc' = [s.pc EXCEPT ![h] = "work"] /\ s.pc \in [Helpers -> PCs]
        BY DEF Takes, Leaves
      <3> QED
        BY <3>1
    <2>3. Able # {} /\ (ParseMayStart /\ ~MainCompiles => \E g, i \in Able : g # i)
      BY <1>6, <2>1, <2>2, WasServed
    <2>4. CASE AllPaused(s.task, s.pause) => work["ion"] = <<>>
      <3>1. task[h] \in Builders => ~Stranded'
        BY <1>b, <2>4 DEF Leaves
      <3>2. \A x \in Able : x # h => x \in Able'
        BY <1>a, <1>b, <3>1, StaysAble
      <3>3. CASE task[h] \in Parses
        <4>1. h \notin Able
          <5>1. pc[h] # "loop"
            BY <3>3, ClassesAreApart DEF HInv, HeldNow, Held, HeldAt
          <5> QED
            BY <3>3, <5>1 DEF Able, Engaged
        <4> QED
          BY <2>3, <3>2, <4>1
      <3>4. CASE task[h] \notin Parses /\ ~MainCompiles
        <4>1. ParseMayStart
          <5>1. \A g \in Helpers : task[g] \notin Parses
            BY <1>2, <3>4, OthersStay
          <5>2. work["parse"] # <<>>
            BY <1>0 DEF First, CanStart, K
          <5> QED
            BY <5>1, <5>2 DEF ParseMayStart
        <4> QED
          BY <2>3, <3>2, <3>4, <4>1
      <3>5. CASE MainCompiles
        <4>1. work["ion"] # <<>>
          BY <3>5 DEF MainCompiles
        <4>2. HighWork'
          BY <1>4, <4>1, KindsAre DEF HighWork
        <4> QED
          BY <1>5, <4>2
      <3> QED
        BY <3>3, <3>4, <3>5
    <2>5. CASE work["ion"] # <<>>
      <3>1. HighWork'
        BY <1>4, <2>5, KindsAre DEF HighWork
      <3> QED
        BY <1>5, <3>1
    <2> QED
      BY <2>4, <2>5
  <1>7. Served'
    BY <1>3, <1>5, <1>6 DEF Served
  <1>8. TwoAreLeft'
    <2> SUFFICES ASSUME Stranded'
                 PROVE  \E g, i \in Helpers : g # i /\ ~pause'[g] /\ ~pause'[i]
      BY DEF TwoAreLeft
    <2>1. work["ion"] = <<>>
      BY <1>0, <1>b, PendingIon
    <2>2. task[h] \notin Builders
      BY <1>b, <2>1 DEF Leaves
    <2>3. Stranded /\ ~MainCompiles
      BY <1>b, <2>1, <2>2, WasStranded DEF MainCompiles
    <2>4. PICK g, i \in Helpers : g # i /\ ~pause[g] /\ ~pause[i]
      BY <2>3 DEF NoticeInv, TwoAreLeft
    <2> QED
      BY <1>a, <1>4, <2>4
  <1>9. OneParse'
    <2>1. \A g \in Helpers : g # h => task'[g] \notin Parses
      BY <1>2, OthersStay
    <2> QED
      BY <2>1 DEF OneParse
  <1> QED
    BY <1>7, <1>8, <1>9

\* A helper that takes a task threadLoop looks for last.
LEMMA TakesLowServed ==
  ASSUME HInv, NoticeInv, NEW h \in Helpers, NEW s, Leaves(h, s), ThreadLoop(h, s), NEW k \in LowKinds, NEW t, NEW q,
         Takes(h, s, k, t, q), UNCHANGED heapBusy
  PROVE  (Served /\ TwoAreLeft /\ OneParse)'
  <1>0. k \in Kinds /\ k # "ion" /\ k # "parse" /\ "parse" \in Kinds /\ First(k, s)
    BY KindsAre DEF LowKinds, Takes
  <1>1. /\ task'[h] = t /\ t \in TasksOf(k) /\ ~pause'[h] /\ pause' = s.pause /\ h \in Able'
        /\ work'["parse"] = work["parse"]
    BY <1>0, TakenTask
  <1>2. Stranded' <=> AllPaused(s.task, s.pause)
    BY <1>0, TakenStrands
  <1>3. ~CanStart("ion", s) /\ ~CanStart("parse", s)
    BY <1>0, LooksFirst
  <1>4. t \notin Parses
    BY <1>0, <1>1, TasksOfKinds, KindsOfTasks
  <1>5. ~ParseMayStart'
    <2> SUFFICES ASSUME ParseMayStart' PROVE FALSE
      OBVIOUS
    <2>1. s.task[h] = None /\ None \notin Parses /\ \A g \in Helpers : g # h => s.task[g] = task'[g]
      BY OthersStay, ClassesAreApart
    <2>2. \A g \in Helpers : s.task[g] \notin Parses
      BY <2>1 DEF ParseMayStart
    <2>3. CanStart("parse", s)
      BY <1>1, <2>2, LeavesPlaced, WhyNotStarted DEF ParseMayStart
    <2> QED
      BY <1>3, <2>3
  <1>6. Served'
    BY <1>1, <1>5 DEF Served
  <1>7. TwoAreLeft'
    <2> SUFFICES ASSUME Stranded'
                 PROVE  \E g, i \in Helpers : g # i /\ ~pause'[g] /\ ~pause'[i]
      BY DEF TwoAreLeft
    <2>1. work["ion"] = <<>>
      BY <1>2, <1>3, PendingIon
    <2>2. task[h] \notin Builders
      BY <1>2, <2>1 DEF Leaves
    <2>3. Stranded /\ ~MainCompiles
      BY <1>2, <2>1, <2>2, WasStranded DEF MainCompiles
    <2>4. PICK g, i \in Helpers : g # i /\ ~pause[g] /\ ~pause[i]
      BY <2>3 DEF NoticeInv, TwoAreLeft
    <2> QED
      BY <1>1, <2>4 DEF Leaves
  <1>8. OneParse'
    BY <1>1, <1>4, OthersStay DEF NoticeInv, OneParse
  <1> QED
    BY <1>6, <1>7, <1>8

\* While functions of a module wait somebody compiles it: the main thread, or a
\* helper that runs a parse.
LEMMA SomebodyCompiles ==
  ASSUME HInv, NoticeInv, work["wasm"] # <<>>
  PROVE  op[Main] \in InModule \/ \E c \in Helpers : task[c] \in Parses
  <1>0. PlacedNow /\ ModuleInv
    BY DEF HInv
  <1>1. module.owner # None
    <2>1. /\ module.owner = None => module.outstanding = 0
          /\ module.outstanding = Len(work["wasm"]) + Cardinality(Running("wasm")) + Cardinality(done["wasm"]) + failed
          /\ failed \in Nat
      BY <1>0 DEF ModuleInv, ModuleIsAccountedFor
    <2>2. Running("wasm") = Compiling(task)
      BY <1>0, RunningCompiles
    <2>3. /\ Cardinality(Compiling(task)) \in Nat /\ Cardinality(done["wasm"]) \in Nat
          /\ Len(work["wasm"]) \in Nat /\ work["wasm"] \in Seq(WasmTasks)
      BY <1>0, CountsAreNumbers DEF PlacedNow
    <2>4. Len(work["wasm"]) # 0
      BY <2>3
    <2> QED
      BY <2>1, <2>2, <2>3, <2>4
  <1>2. module.owner \in Clients /\ op[module.owner] \in InModule
    BY <1>0, <1>1 DEF ModuleInv
  <1> QED
    BY <1>2 DEF NoticeInv, ClientsParse, Clients

\* A helper that takes a function of a module.
LEMMA TakesWasmServed ==
  ASSUME HInv, NoticeInv, NEW h \in Helpers, NEW s, Leaves(h, s), ThreadLoop(h, s), NEW t, NEW q,
         Takes(h, s, "wasm", t, q), UNCHANGED heapBusy, op'[Main] = op[Main]
  PROVE  (Served /\ TwoAreLeft /\ OneParse)'
  <1> DEFINE K == "wasm"
  <1>0. K \in Kinds /\ K # "ion" /\ K # "parse" /\ K \notin LowKinds /\ LowKinds \subseteq Kinds /\ Takes(h, s, K, t, q)
    BY KindsAre DEF LowKinds
  <1>a. /\ task'[h] = t /\ t \in TasksOf(K) /\ ~pause'[h] /\ pause' = s.pause /\ h \in Able'
        /\ work[K] # <<>> /\ \A l \in Kinds : l # K => work'[l] = work[l]
    BY <1>0, TakenTask
  <1>b. Stranded' <=> AllPaused(s.task, s.pause)
    BY <1>0, TakenStrands
  <1> HIDE DEF K
  <1>1. t \in WasmTasks /\ t \notin Parses /\ work["wasm"] # <<>>
    BY <1>a, KindsOfTasks, ClassesAreApart DEF K
  <1>2. /\ \A l \in {"ion", "parse"} \cup LowKinds : work'[l] = work[l]
        /\ \A g \in Helpers : s.pause[g] => pause[g]
    BY <1>a, KindsAre DEF Leaves, K, LowKinds
  <1>3. ASSUME Stranded', task[h] \in Builders \/ MainCompiles
        PROVE  MainCompiles' \/ \E c \in Helpers : c # h /\ task[c] \in Parses /\ task'[c] \in Parses
    <2>1. work["ion"] # <<>>
      BY <1>3, <1>b DEF Leaves, MainCompiles
    <2>2. CASE op[Main] \in InModule
      BY <1>1, <1>2, <1>3, <1>a, <2>1, <2>2 DEF MainCompiles
    <2>3. CASE op[Main] \notin InModule
      <3>1. PICK c \in Helpers : task[c] \in Parses
        BY <1>1, <2>3, SomebodyCompiles
      <3>2. c # h
        BY <1>3, <2>3, <3>1, ClassesAreApart DEF MainCompiles
      <3> QED
        BY <3>1, <3>2, OthersStay
    <2> QED
      BY <2>2, <2>3
  <1>4. ASSUME \E g \in Helpers : pc'[g] = "wait", ~HeapAwaited', LowWork', ParseMayStart', ~MainCompiles'
        PROVE  \E g, i \in Able' : g # i
    <2>1. LowWork /\ work["parse"] # <<>> /\ \A g \in Helpers : g # h => task[g] \notin Parses /\ task'[g] \notin Parses
      BY <1>2, <1>4, OthersStay DEF LowWork, ParseMayStart
    <2>2. pc'[h] # "wait"
      <3>1. pc' = [s.pc EXCEPT ![h] = "work"] /\ s.pc \in [Helpers -> PCs]
        BY DEF Takes, Leaves
      <3> QED
        BY <3>1
    <2>3. Able # {} /\ (ParseMayStart /\ ~MainCompiles => \E g, i \in Able : g # i)
      BY <1>4, <2>1, <2>2, WasServed
    <2>4. task[h] \in Builders => ~Stranded'
      BY <1>3, <1>4, <2>1
    <2>5. \A x \in Able : x # h => x \in Able'
      BY <1>a, <1>b, <2>4, StaysAble
    <2>6. CASE task[h] \in Parses
      <3>1. h \notin Able
        <4>1. pc[h] # "loop"
          BY <2>6, ClassesAreApart DEF HInv, HeldNow, Held, HeldAt
        <4> QED
          BY <2>6, <4>1 DEF Able, Engaged
      <3> QED
        BY <1>a, <2>3, <2>5, <3>1
    <2>7. CASE task[h] \notin Parses /\ ~MainCompiles
      <3>1. ParseMayStart
        BY <2>1, <2>7 DEF ParseMayStart
      <3> QED
        BY <1>a, <2>3, <2>5, <2>7, <3>1
    <2>8. CASE MainCompiles
      <3>1. ~Stranded'
        BY <1>3, <1>4, <2>1, <2>8
      <3>2. task[h] \in Builders
        BY <1>b, <2>8, <3>1, WasStranded DEF MainCompiles
      <3>3. PICK w \in Helpers : task[w] \in WasmTasks
        BY <2>8 DEF MainCompiles
      <3>4. w # h
        BY <3>2, <3>3, ClassesAreApart
      <3>5. task'[w] \in WasmTasks /\ task'[w] \notin Parses \cup {None}
        BY <3>3, <3>4, OthersStay, ClassesAreApart
      <3>6. w \in Able'
        BY <3>1, <3>5 DEF Able, Engaged
      <3> QED
        BY <1>a, <3>4, <3>6
    <2> QED
      BY <2>6, <2>7, <2>8
  <1>5. Served'
    BY <1>a, <1>4 DEF Served
  <1>6. TwoAreLeft'
    <2> SUFFICES ASSUME Stranded', ~MainCompiles'
                 PROVE  \E g, i \in Helpers : g # i /\ ~pause'[g] /\ ~pause'[i]
      BY DEF TwoAreLeft
    <2>1. CASE task[h] \in Builders \/ MainCompiles
      <3>1. PICK c \in Helpers : c # h /\ task'[c] \in Parses /\ task[c] \in Parses
        BY <1>3, <2>1
      <3>2. ~pause[c]
        BY <3>1, ClassesAreApart DEF HInv, HeldNow, Held, HeldAt
      <3>3. ~pause'[c]
        BY <1>a, <1>2, <3>2
      <3> QED
        BY <1>a, <3>1, <3>3
    <2>2. CASE task[h] \notin Builders /\ ~MainCompiles
      <3>1. Stranded
        BY <1>b, <2>2, WasStranded
      <3>2. PICK g, i \in Helpers : g # i /\ ~pause[g] /\ ~pause[i]
        BY <2>2, <3>1 DEF NoticeInv, TwoAreLeft
      <3> QED
        BY <1>a, <1>2, <3>2
    <2> QED
      BY <2>1, <2>2
  <1>7. OneParse'
    BY <1>a, <1>1, OthersStay DEF NoticeInv, OneParse
  <1> QED
    BY <1>5, <1>6, <1>7

\* However a helper leaves threadLoop, waiting work is served.
LEMMA ThreadLoopServes ==
  ASSUME HInv, NoticeInv, NEW h \in Helpers, NEW s, Leaves(h, s), ThreadLoop(h, s),
         UNCHANGED heapBusy, op'[Main] = op[Main]
  PROVE  (Served /\ TwoAreLeft /\ OneParse)'
  <1>1. Stops(h, s) \/ \E k \in Kinds : \E t, q : Takes(h, s, k, t, q)
    BY LeavesPlaced, ThreadLoopDoes
  <1>2. ASSUME NEW k \in Kinds, NEW t, NEW q, Takes(h, s, k, t, q)
        PROVE  (Served /\ TwoAreLeft /\ OneParse)'
    <2>1. CASE k = "ion"
      BY <1>2, <2>1, TakesIonServed
    <2>2. CASE k = "wasm"
      BY <1>2, <2>2, TakesWasmServed
    <2>3. CASE k = "parse"
      BY <1>2, <2>3, TakesParseServed
    <2>4. CASE k \in LowKinds
      BY <1>2, <2>4, TakesLowServed
    <2> QED
      BY <2>1, <2>2, <2>3, <2>4, KindsAre DEF LowKinds
  <1> QED
    BY <1>1, <1>2, StopsServed

\* A step after which there is no new work, and nobody who was about to look at
\* the lists is gone.
LEMMA CalmKeeps ==
  ASSUME HInv, NoticeInv, UNCHANGED <<task, pause>>,
         \A h \in Helpers : (pc[h] = "loop" => pc'[h] = "loop") /\ (pc'[h] = "wait" => pc[h] = "wait"),
         HeapAwaited => HeapAwaited' \/ \A h \in Helpers : pc'[h] # "wait",
         \A k \in Kinds : work'[k] # <<>> => work[k] # <<>>, HighWork' => HighWork,
         MainCompiles => MainCompiles'
  PROVE  (Served /\ TwoAreLeft /\ OneParse)'
  <1>1. (Stranded' <=> Stranded) /\ \A g \in Able : g \in Able'
    BY DEF Stranded, AllPaused, Able, Engaged
  <1>2. (LowWork' => LowWork) /\ (ParseMayStart' => ParseMayStart)
    BY KindsAre DEF LowWork, LowKinds, ParseMayStart
  <1>3. Served'
    BY <1>1, <1>2 DEF NoticeInv, Served
  <1>4. TwoAreLeft' /\ OneParse'
    BY <1>1 DEF NoticeInv, TwoAreLeft, OneParse
  <1> QED
    BY <1>3, <1>4

\* The same when nothing of that changes but what is finished, or who waits.
LEMMA SameKeeps ==
  ASSUME HInv, NoticeInv, UNCHANGED <<pc, task, pause, work, failed, heapBusy>>,
         op'[Main] = op[Main] \/ op[Main] \notin InModule \/ op'[Main] \in InModule
  PROVE  (Served /\ TwoAreLeft /\ OneParse)'
  <1>1. (HeapAwaited => HeapAwaited') /\ (HighWork' => HighWork)
    BY DEF HeapAwaited, HighWork
  <1>2. MainCompiles => MainCompiles'
    BY DEF MainCompiles, Stranded, AllPaused
  <1> QED
    BY <1>1, <1>2, CalmKeeps

\* Waking helpers takes nobody from the lists.
LEMMA WakeKeeps ==
  ASSUME NEW W, NEW h \in Helpers
  PROVE  /\ pc[h] = "loop" => Wake(W)[h] = "loop"
         /\ Wake(W)[h] \in {"wait", "starved", "gone"} => pc[h] = Wake(W)[h]
         /\ pc[h] \in {"starved", "refill"} => Wake(W)[h] \in {"starved", "refill"}
         /\ pc[h] = "wait" /\ h \in W => Wake(W)[h] = "loop"
         /\ pc[h] \in {"wait", "starved"} /\ h \in W => Wake(W)[h] \notin {"wait", "starved"}
  <1>1. Wake(W)[h] = CASE h \in W /\ pc[h] = "wait" -> "loop"
                       [] h \in W /\ pc[h] = "starved" -> "refill"
                       [] h \in W /\ pc[h] = "paused" -> "resume"
                       [] OTHER -> pc[h]
    BY DEF Wake
  <1> DEFINE w == Wake(W)[h]
             a == h \in W /\ pc[h] = "wait"
             b == h \in W /\ pc[h] = "starved"
             d == h \in W /\ pc[h] = "paused"
  <1>4. w = CASE a -> "loop" [] b -> "refill" [] d -> "resume" [] OTHER -> pc[h]
    BY <1>1
  <1>5. ~(a /\ b) /\ ~(a /\ d) /\ ~(b /\ d)
    OBVIOUS
  <1> HIDE DEF w, a, b, d
  <1>6. (a => w = "loop") /\ (b => w = "refill") /\ (d => w = "resume") /\ (~a /\ ~b /\ ~d => w = pc[h])
    BY <1>4, <1>5
  <1>2. \/ w = pc[h] /\ ~(h \in W /\ pc[h] \in {"wait", "starved"})
        \/ h \in W /\ pc[h] = "wait" /\ w = "loop"
        \/ h \in W /\ pc[h] = "starved" /\ w = "refill"
        \/ h \in W /\ pc[h] = "paused" /\ w = "resume"
    BY <1>6 DEF a, b, d
  <1>3. /\ pc[h] = "loop" => w = "loop"
        /\ w \in {"wait", "starved", "gone"} => pc[h] = w
        /\ pc[h] \in {"starved", "refill"} => w \in {"starved", "refill"}
        /\ pc[h] = "wait" /\ h \in W => w = "loop"
        /\ pc[h] \in {"wait", "starved"} /\ h \in W => w \notin {"wait", "starved"}
    BY <1>2
  <1> QED
    BY <1>3 DEF w

\* Tasks of one kind are started, and a helper is woken if one waits.
LEMMA StartServes ==
  ASSUME HInv, NoticeInv, UNCHANGED <<task, pause, heapBusy, failed>>,
         NEW k \in Kinds, \A l \in Kinds : l # k => work'[l] = work[l], work["ion"] # <<>> => work'["ion"] # <<>>,
         NEW W \in SUBSET ProducerWaiters, ProducerWaiters # {} => W # {},
         \A h \in Helpers : pc'[h] = Wake(W)[h] \/ (pc[h] = "refilled" /\ pc'[h] = "work"),
         op'[Main] = op[Main] \/ op[Main] \notin InModule \/ op'[Main] \in InModule
  PROVE  (Served /\ TwoAreLeft /\ OneParse)'
  <1>1. \A h \in Helpers :
            /\ pc[h] = "loop" => pc'[h] = "loop"
            /\ pc'[h] = "wait" => pc[h] = "wait"
            /\ pc[h] \in {"starved", "refill"} => pc'[h] \in {"starved", "refill"}
            /\ pc[h] = "wait" /\ h \in W => pc'[h] = "loop"
    BY WakeKeeps
  <1>2. (HeapAwaited => HeapAwaited') /\ (Stranded' <=> Stranded) /\ (MainCompiles => MainCompiles')
    BY <1>1 DEF HeapAwaited, Stranded, AllPaused, MainCompiles
  <1>3. \A g \in Able : g \in Able'
    BY <1>1, <1>2 DEF Able, Engaged
  <1>4. ASSUME NEW g \in Helpers, pc'[g] = "wait", ~HeapAwaited'
        PROVE  \E x \in Able' : x \notin Able
    <2>1. \A h \in Helpers : pc[h] # "starved"
      BY <1>2, <1>4 DEF HeapAwaited, NoticeInv, StarvedInv
    <2>2. PICK x \in W : pc[x] = "wait"
      BY <1>1, <1>4, <2>1 DEF ProducerWaiters
    <2>3. x \in Helpers /\ pc'[x] = "loop" /\ task[x] = None /\ ~pause[x]
      BY <1>1, <2>2, ClassesAreApart DEF ProducerWaiters, HInv, HeldNow, Held, HeldAt
    <2>4. x \in Able' /\ x \notin Able
      BY <2>2, <2>3 DEF Able, Engaged
    <2> QED
      BY <2>4
  <1>5. k # "parse" => (ParseMayStart' => ParseMayStart)
    BY KindsAre DEF ParseMayStart
  <1>6. k \notin LowKinds => (LowWork' => LowWork)
    BY KindsAre DEF LowWork, LowKinds
  <1>7. Served'
    <2> SUFFICES ASSUME NEW g \in Helpers, pc'[g] = "wait", ~HeapAwaited'
                 PROVE  /\ LowWork' \/ ParseMayStart' \/ HighWork' => Able' # {}
                        /\ LowWork' /\ ParseMayStart' /\ ~MainCompiles' => \E i, j \in Able' : i # j
      BY DEF Served
    <2>1. PICK x \in Able' : x \notin Able
      BY <1>4
    <2>2. ASSUME LowWork', ParseMayStart'
          PROVE  \E i, j \in Able' : i # j
      <3>1. LowWork \/ ParseMayStart
        BY <1>5, <1>6, <2>2 DEF LowKinds
      <3>2. pc[g] = "wait" /\ ~HeapAwaited
        BY <1>1, <1>2
      <3>3. PICK y \in Able : TRUE
        BY <3>1, <3>2 DEF NoticeInv, Served
      <3> QED
        BY <1>3, <2>1, <3>3
    <2> QED
      BY <2>1, <2>2
  <1>8. TwoAreLeft' /\ OneParse'
    BY <1>2 DEF NoticeInv, TwoAreLeft, OneParse
  <1> QED
    BY <1>7, <1>8

\* The same when everybody is woken.
LEMMA AllWokenServes ==
  ASSUME HInv, NoticeInv, UNCHANGED <<task, pause>>, pc' = Wake(ProducerWaiters),
         MainCompiles => MainCompiles'
  PROVE  (Served /\ TwoAreLeft /\ OneParse)'
  <1>1. \A h \in Helpers : pc'[h] # "wait"
    BY WakeKeeps DEF ProducerWaiters
  <1>2. Stranded' <=> Stranded
    BY DEF Stranded, AllPaused
  <1>3. TwoAreLeft' /\ OneParse'
    BY <1>2 DEF NoticeInv, TwoAreLeft, OneParse
  <1> QED
    BY <1>1, <1>3 DEF Served

\* A helper that moves on with its task, or waits for the heap.
LEMMA QuietMoves ==
  ASSUME HInv, NEW h \in Helpers, Quiet(h)
  PROVE  /\ UNCHANGED <<task, pause, work, failed, module, heapBusy, terminate, op, asleep>>
         /\ pc[h] \in {"work", "resume", "refill"}
         /\ \E x \in {"paused", "work", "swept", "starved", "refilled"} :
                pc' = [pc EXCEPT ![h] = x] /\ (pc[h] = "refill" /\ heapBusy => x = "starved")
                                           /\ (x = "starved" => heapBusy)
  <1>1. CASE PauseCompile(h)
    <2> DEFINE x == "paused"
    <2>1. UNCHANGED <<task, pause, work, failed, module, heapBusy, terminate, op, asleep>>
      BY <1>1 DEF PauseCompile, lists, gc, mainOnly
    <2>2. pc[h] = "work" /\ pc' = [pc EXCEPT ![h] = x]
      BY <1>1 DEF PauseCompile, Works
    <2> QED
      BY <2>1, <2>2
  <1>2. CASE Resume(h)
    <2>1. UNCHANGED <<task, pause, work, failed, module, heapBusy, terminate, op, asleep>>
      BY <1>2 DEF Resume, lists, gc, mainOnly
    <2>2. pc[h] = "resume" /\ (pc' = [pc EXCEPT ![h] = "paused"] \/ pc' = [pc EXCEPT ![h] = "work"])
      BY <1>2 DEF Resume
    <2> QED
      BY <2>1, <2>2
  <1>3. CASE EndSweeping(h)
    <2>1. UNCHANGED <<task, pause, work, failed, module, heapBusy, terminate, op, asleep>>
      BY <1>3 DEF EndSweeping, lists, mainOnly
    <2>2. pc[h] = "work" /\ pc' = [pc EXCEPT ![h] = "swept"]
      BY <1>3 DEF EndSweeping, Works
    <2> QED
      BY <2>1, <2>2
  <1>4. CASE RefillFreeList(h)
    <2>1. UNCHANGED <<task, pause, work, failed, module, heapBusy, terminate, op, asleep>>
      BY <1>4 DEF RefillFreeList, lists, gc, mainOnly
    <2>2. pc[h] \in {"work", "refill"}
      BY <1>4 DEF RefillFreeList, Works
    <2>3. IF heapBusy THEN pc' = [pc EXCEPT ![h] = "starved"]
          ELSE pc' = [pc EXCEPT ![h] = "work"] \/ pc' = [pc EXCEPT ![h] = "refilled"]
      BY <1>4 DEF RefillFreeList
    <2> QED
      BY <2>1, <2>2, <2>3
  <1> QED
    BY <1>1, <1>2, <1>3, <1>4 DEF Quiet

\* What a step of a helper leaves alone.
LEMMA HelpersLeaveAlone ==
  ASSUME HInv, NEW h \in Helpers, HelperStep(h)
  PROVE  /\ UNCHANGED <<module, heapBusy, terminate>>
         /\ op'[Main] = op[Main]
         /\ asleep' = {} \/ asleep' = asleep
         /\ \A g \in Helpers : op'[g] = op[g] \/ op'[g] = "none"
         /\ task[h] \in Parses /\ ~Quiet(h) => op'[h] \notin InModule /\ asleep' = {}
  <1>0. /\ PlacedNow /\ op \in [Clients -> OPs] /\ Helpers \subseteq Clients /\ Main \in Clients /\ Main \notin Helpers
        /\ HeldAt(h, pc, task, pause)
    BY PoolAssumption DEF HInv, RestTypes, Clients, HeldNow, Held
  <1>1. UNCHANGED <<module, heapBusy, terminate>>
    BY DEF HelperStep, Look, PauseCompile, Resume, FinishIon, FinishWasm, FinishParse, FinishCompression,
           FinishGCTask, EndSweeping, FinishGCHelper, RefillFreeList, lists, gc, mainOnly
  <1>2. asleep' = {} \/ asleep' = asleep
    BY DEF HelperStep, Look, PauseCompile, Resume, FinishIon, FinishWasm, FinishParse, FinishCompression,
           FinishGCTask, EndSweeping, FinishGCHelper, RefillFreeList, NotifyAllConsumers
  <1>3. op' = op \/ op' = [op EXCEPT ![h] = "none"]
    BY DEF HelperStep, Look, PauseCompile, Resume, FinishIon, FinishWasm, FinishParse, FinishCompression,
           FinishGCTask, EndSweeping, FinishGCHelper, RefillFreeList
  <1>4. ASSUME task[h] \in Parses, ~Quiet(h)
        PROVE  FinishParse(h)
    <2>1. ASSUME NEW k \in Kinds \ {"parse"}, Works(h, k)
          PROVE  FALSE
      <3>1. task[h] \in TasksOf(k)
        BY <1>0, <2>1, WorksOn
      <3>2. TasksOf(k) \cap TasksOf("parse") = {}
        BY TasksOfKinds, KindsAre
      <3> QED
        BY <1>4, <3>1, <3>2, KindsOfTasks
    <2>2. pc[h] \notin {"loop", "swept"}
      BY <1>0, <1>4, ClassesAreApart DEF HeldAt
    <2> QED
      BY <1>4, <2>1, <2>2, KindsAre DEF HelperStep, Quiet, Look, FinishIon, FinishWasm, FinishCompression,
           FinishGCTask, FinishGCHelper
  <1>5. ASSUME FinishParse(h)
        PROVE  op'[h] = "none" /\ asleep' = {}
    BY <1>0, <1>5 DEF FinishParse, NotifyAllConsumers
  <1>6. op'[Main] = op[Main] /\ \A g \in Helpers : op'[g] = op[g] \/ op'[g] = "none"
    BY <1>0, <1>3
  <1> QED
    BY <1>1, <1>2, <1>4, <1>5, <1>6 DEF InModule

\* Steps of the helpers leave waiting work served.
LEMMA HelpersServe ==
  ASSUME HInv, NoticeInv, NEW h \in Helpers, HelperStep(h)
  PROVE  (Served /\ TwoAreLeft /\ OneParse)'
  <1>1. ASSUME ~Quiet(h)
        PROVE  (Served /\ TwoAreLeft /\ OneParse)'
    <2>1. PICK s : Leaves(h, s) /\ ThreadLoop(h, s)
      BY <1>1, HelpersLeave
    <2>2. UNCHANGED heapBusy /\ op'[Main] = op[Main]
      BY HelpersLeaveAlone
    <2> QED
      BY <2>1, <2>2, ThreadLoopServes
  <1>2. ASSUME Quiet(h)
        PROVE  (Served /\ TwoAreLeft /\ OneParse)'
    <2>1. PICK x \in {"paused", "work", "swept", "starved", "refilled"} :
                pc' = [pc EXCEPT ![h] = x] /\ (pc[h] = "refill" /\ heapBusy => x = "starved")
      BY <1>2, QuietMoves
    <2>2. UNCHANGED <<task, pause, work, failed, heapBusy, op>> /\ pc[h] \in {"work", "resume", "refill"}
      BY <1>2, QuietMoves
    <2>3. pc \in [Helpers -> PCs]
      BY DEF HInv, HeldNow, Held
    <2>4. \A g \in Helpers : IF g = h THEN pc'[g] = x ELSE pc'[g] = pc[g]
      BY <2>1, <2>3
    <2>5. \A g \in Helpers : (pc[g] = "loop" => pc'[g] = "loop") /\ (pc'[g] = "wait" => pc[g] = "wait")
      BY <2>2, <2>4
    <2>6. HeapAwaited => HeapAwaited'
      BY <2>1, <2>2, <2>4 DEF HeapAwaited
    <2>7. (HighWork' => HighWork) /\ (MainCompiles => MainCompiles')
      BY <2>2 DEF HighWork, MainCompiles, Stranded, AllPaused
    <2> QED
      BY <2>2, <2>5, <2>6, <2>7, CalmKeeps
  <1> QED
    BY <1>1, <1>2

\* Steps of the helpers keep the rest: who waits for the heap or runs a module,
\* and that nothing is left once the pool is being shut down.
LEMMA HelpersKeepRest ==
  ASSUME HInv, NoticeInv, NEW h \in Helpers, HelperStep(h)
  PROVE  (StarvedInv /\ ClientsParse /\ OverInv)'
  <1>0. /\ UNCHANGED <<heapBusy, terminate>> /\ op'[Main] = op[Main] /\ (asleep' = {} \/ asleep' = asleep)
        /\ \A g \in Helpers : op'[g] \in InModule => op[g] = op'[g]
    BY HelpersLeaveAlone DEF InModule
  <1>1. CASE ~Quiet(h)
    <2>1. PICK s : Leaves(h, s) /\ ThreadLoop(h, s)
      BY <1>1, HelpersLeave
    <2>2. /\ \A g \in Helpers : g # h => task'[g] = task[g] /\ s.task[g] = task[g]
          /\ pc'[h] \in {"gone", "wait", "work"} /\ s.task[h] = None
      BY <1>0, <2>1, OthersStay
    <2>3. \A g \in Helpers : g # h => s.pc[g] = pc[g] \/ (pc[g] = "paused" /\ s.pc[g] = "resume")
      BY <2>1 DEF Leaves
    <2>4. Stops(h, s) \/ \E k \in Kinds : \E t, q : Takes(h, s, k, t, q)
      BY <2>1, LeavesPlaced, ThreadLoopDoes
    <2>5. /\ \E x \in {"gone", "wait", "work"} : pc' = [s.pc EXCEPT ![h] = x] /\ (x = "gone" => h \in terminate)
          /\ s.pc \in [Helpers -> PCs]
      <3>1. CASE Stops(h, s)
        <4>1. IF h \in terminate THEN pc' = [s.pc EXCEPT ![h] = "gone"] ELSE pc' = [s.pc EXCEPT ![h] = "wait"]
          BY <3>1 DEF Stops
        <4> QED
          BY <2>1, <4>1 DEF Leaves
      <3>2. CASE pc' = [s.pc EXCEPT ![h] = "work"]
        BY <2>1, <3>2 DEF Leaves
      <3> QED
        BY <2>4, <3>1, <3>2 DEF Takes
    <2>6. \A g \in Helpers : /\ pc'[g] = "starved" => pc[g] = "starved"
                             /\ pc'[g] = "gone" => pc[g] = "gone" \/ h \in terminate
      BY <2>3, <2>5
    <2>7. StarvedInv'
      BY <1>0, <2>6 DEF NoticeInv, StarvedInv
    <2>8. ClientsParse'
      <3>1. \A g \in Helpers : g # h => (g \in asleep' \/ op'[g] \in InModule => task'[g] \in Parses)
        BY <1>0, <2>2 DEF NoticeInv, ClientsParse
      <3>2. h \in asleep' \/ op'[h] \in InModule => task'[h] \in Parses
        BY <1>0, <1>1, HelpersLeaveAlone DEF NoticeInv, ClientsParse
      <3> QED
        BY <3>1, <3>2 DEF ClientsParse
    <2>9. OverInv'
      <3>1. Over' <=> Over
        BY <1>0 DEF Over
      <3>2. ASSUME Over
            PROVE  UNCHANGED work /\ \A g \in Helpers : task'[g] = None
        <4>1. \A k \in Kinds : work[k] = <<>>
          BY <3>2 DEF NoticeInv, OverInv
        <4>2. \A k \in Kinds : \A t, q : ~Takes(h, s, k, t, q)
          BY <4>1 DEF Takes, Elements
        <4>3. Stops(h, s)
          BY <2>4, <4>2
        <4>4. task' = s.task /\ work' = work
          BY <4>3 DEF Stops
        <4>5. \A g \in Helpers : task[g] = None
          BY <3>2 DEF NoticeInv, OverInv
        <4> QED
          BY <2>2, <4>4, <4>5
      <3>3. terminate' # {} \/ (\E g \in Helpers : pc'[g] = "gone") => Over
        BY <1>0, <2>6 DEF NoticeInv, OverInv
      <3> QED
        BY <3>1, <3>2, <3>3 DEF NoticeInv, OverInv
    <2> QED
      BY <2>7, <2>8, <2>9
  <1>2. CASE Quiet(h)
    <2>1. PICK x \in {"paused", "work", "swept", "starved", "refilled"} :
                pc' = [pc EXCEPT ![h] = x] /\ (x = "starved" => heapBusy)
      BY <1>2, QuietMoves
    <2>2. UNCHANGED <<task, work, op, asleep>> /\ pc \in [Helpers -> PCs]
      BY <1>2, QuietMoves DEF HInv, HeldNow, Held
    <2>3. \A g \in Helpers : (pc'[g] = "starved" => pc[g] = "starved" \/ heapBusy) /\ (pc'[g] = "gone" => pc[g] = "gone")
      BY <2>1, <2>2
    <2> QED
      BY <1>0, <2>2, <2>3 DEF NoticeInv, StarvedInv, ClientsParse, OverInv, Over
  <1> QED
    BY <1>1, <1>2

\* Notifying at least once wakes somebody if anybody waits.
LEMMA NotifyWakes ==
  ASSUME NEW n \in Nat, n > 0, NotifyEach(n)
  PROVE  \E W \in SUBSET ProducerWaiters : (ProducerWaiters # {} => W # {}) /\ pc' = Wake(W)
  <1>1. PICK W \in SUBSET ProducerWaiters :
            (Cardinality(W) = n \/ (Cardinality(W) < n /\ W = ProducerWaiters)) /\ pc' = Wake(W)
    BY DEF NotifyEach
  <1>2. Cardinality({}) = 0
    BY FS_EmptySet
  <1> QED
    BY <1>1, <1>2

\* Starting a task shortens no list.
LEMMA StartLengthens ==
  ASSUME PlacedNow, NEW k \in Kinds, NEW t \in TasksOf(k), work' = [work EXCEPT ![k] = Append(@, t)]
  PROVE  \A l \in Kinds : work[l] # <<>> => work'[l] # <<>>
  <1>1. DOMAIN work = Kinds /\ work[k] \in Seq(TasksOf(k))
    BY DEF PlacedNow, Placed
  <1> DEFINE a == Append(work[k], t)
  <1>2. Len(a) = Len(work[k]) + 1 /\ Len(work[k]) \in Nat
    BY <1>1, Appended
  <1>3. work' = [work EXCEPT ![k] = a]
    OBVIOUS
  <1> HIDE DEF a
  <1>4. a # <<>>
    BY <1>2
  <1> QED
    BY <1>1, <1>3, <1>4

\* A task is started, which wakes a helper.
LEMMA OneStartServes ==
  ASSUME HInv, NoticeInv, NEW k \in Kinds, NEW t \in TasksOf(k), Start(k, t), UNCHANGED <<task, pause, heapBusy, failed>>,
         op'[Main] = op[Main] \/ op[Main] \notin InModule \/ op'[Main] \in InModule
  PROVE  (Served /\ TwoAreLeft /\ OneParse)'
  <1>1. /\ DOMAIN work = Kinds /\ work[k] \in Seq(TasksOf(k)) /\ "ion" \in Kinds
        /\ work' = [work EXCEPT ![k] = Append(@, t)] /\ NotifyEach(1)
    BY KindsAre DEF HInv, PlacedNow, Placed, Start
  <1>2. PICK W \in SUBSET ProducerWaiters : (ProducerWaiters # {} => W # {}) /\ pc' = Wake(W)
    BY <1>1, NotifyWakes
  <1>3. PlacedNow /\ \A l \in Kinds : l # k => work'[l] = work[l]
    BY <1>1 DEF HInv
  <1>4. (\A l \in Kinds : l # k => work'[l] = work[l]) /\ (work["ion"] # <<>> => work'["ion"] # <<>>)
    BY <1>1, <1>3, StartLengthens
  <1>5. \A h \in Helpers : pc'[h] = Wake(W)[h]
    BY <1>2
  <1> QED
    BY <1>2, <1>4, <1>5, StartServes

\* An operation that is left or begun ends no module of the main thread.
LEMMA GotoStays ==
  ASSUME RestTypes, NEW c \in Clients, NEW o, Goto(c, o), op[c] \notin InModule \/ o \in InModule
  PROVE  op'[Main] = op[Main] \/ op[Main] \notin InModule \/ op'[Main] \in InModule
  <1>1. op' = [op EXCEPT ![c] = o] /\ op \in [Clients -> OPs] /\ Main \in Clients
    BY DEF Goto, RestTypes, Clients
  <1>2. CASE c = Main
    BY <1>1, <1>2
  <1>3. CASE c # Main
    BY <1>1, <1>3
  <1> QED
    BY <1>2, <1>3

\* A list without tasks is empty.
LEMMA NoElements ==
  ASSUME NEW S, NEW q \in Seq(S), Elements(q) = {}
  PROVE  q = <<>>
  <1>1. DOMAIN q = {}
    BY DEF Elements
  <1> QED
    BY <1>1

\* Steps of the clients leave waiting work served.
LEMMA ClientsServe ==
  ASSUME HInv, NoticeInv, NEW c \in Clients, ClientStep(c)
  PROVE  (Served /\ TwoAreLeft /\ OneParse)'
  <1>0. /\ PlacedNow /\ ModuleInv /\ RestTypes /\ DOMAIN work = Kinds /\ {"wasm", "ion", "compress", "gcparallel"} \subseteq Kinds
        /\ \A k \in Kinds : work[k] \in Seq(TasksOf(k))
    BY KindsAre DEF HInv, PlacedNow, Placed
  <1>1. CASE StartModule(c) \/ LeaveGenerate(c) \/ BeginComplete(c)
    <2>1. UNCHANGED <<pc, task, pause, work, failed, heapBusy>>
      BY <1>1 DEF StartModule, LeaveGenerate, BeginComplete, lists, gc
    <2>2. \E o : Goto(c, o) /\ (op[c] \notin InModule \/ o \in InModule)
      BY <1>1 DEF StartModule, LeaveGenerate, BeginComplete, In, InModule
    <2> QED
      BY <1>0, <2>1, <2>2, GotoStays, SameKeeps
  <1>2. CASE FinishOutstanding(c) \/ Complete(c)
    <2>1. UNCHANGED <<pc, task, pause, work, failed, heapBusy>>
      BY <1>2 DEF FinishOutstanding, Complete, Sleep, lists, gc
    <2>2. UNCHANGED op \/ \E o : Goto(c, o) /\ (op[c] \notin InModule \/ o \in InModule)
      <3>1. CASE FinishOutstanding(c)
        <4>1. UNCHANGED op \/ \E o \in InModule : Goto(c, o)
          <5>1. {"drain", "generate", "ending"} \subseteq InModule
            BY DEF InModule
          <5> QED
            BY <3>1, <5>1 DEF FinishOutstanding, Sleep
        <4> QED
          BY <4>1
      <3>2. CASE Complete(c)
        BY <3>2 DEF Complete, Sleep, In, InModule
      <3> QED
        BY <1>2, <3>1, <3>2
    <2> QED
      BY <1>0, <2>1, <2>2, GotoStays, SameKeeps
  <1>3. CASE SubmitFunction(c)
    <2>1. PICK t \in WasmTasks : Start("wasm", t)
      BY <1>3 DEF SubmitFunction
    <2>2. UNCHANGED <<task, pause, heapBusy, failed, op>>
      BY <1>3 DEF SubmitFunction, gc
    <2> QED
      BY <1>0, <2>1, <2>2, OneStartServes, KindsOfTasks
  <1>4. CASE DrainModule(c)
    <2>1. UNCHANGED <<pc, task, pause, heapBusy, op>> /\ work' = [work EXCEPT !["wasm"] = <<>>]
      BY <1>4 DEF DrainModule, gc
    <2>2. (HighWork' => HighWork) /\ \A k \in Kinds : work'[k] # <<>> => work[k] # <<>>
      BY <1>0, <2>1 DEF HighWork
    <2>3. (MainCompiles => MainCompiles') /\ (HeapAwaited => HeapAwaited')
      BY <1>0, <2>1 DEF MainCompiles, Stranded, AllPaused, HeapAwaited
    <2> QED
      BY <2>1, <2>2, <2>3, CalmKeeps
  <1>5. CASE EndModule(c)
    <2>1. UNCHANGED <<pc, task, pause, work, failed, heapBusy>> /\ Goto(c, "none")
      BY <1>5 DEF EndModule, lists, gc
    <2>2. \A h \in Helpers : task[h] \notin WasmTasks
      <3>1. /\ module.outstanding = Len(work["wasm"]) + Cardinality(Compiling(task)) + Cardinality(done["wasm"]) + failed
            /\ failed \in Nat /\ module.outstanding = 0
        BY <1>0, <1>5, RunningCompiles DEF EndModule, ModuleInv, ModuleIsAccountedFor
      <3>2. /\ Cardinality(Compiling(task)) \in Nat /\ Cardinality(done["wasm"]) \in Nat
            /\ Len(work["wasm"]) \in Nat /\ IsFiniteSet(Compiling(task))
        BY <1>0, CountsAreNumbers DEF PlacedNow
      <3>3. Cardinality(Compiling(task)) = 0
        BY <3>1, <3>2
      <3>4. Compiling(task) = {}
        BY <3>2, <3>3, FS_EmptySet
      <3> QED
        BY <3>4 DEF Compiling
    <2>3. (MainCompiles => MainCompiles') /\ (HeapAwaited => HeapAwaited') /\ (HighWork' => HighWork)
      BY <2>1, <2>2 DEF MainCompiles, HeapAwaited, HighWork
    <2> QED
      BY <2>1, <2>3, CalmKeeps
  <1>6. CASE StartOffThreadCompression(c)
    <2>1. Start("compress", c) /\ UNCHANGED <<task, pause, heapBusy, failed, op>>
      BY <1>6 DEF StartOffThreadCompression, gc
    <2> QED
      BY <1>0, <2>1, OneStartServes, KindsOfTasks
  <1>7. CASE StartAlloc(c)
    <2>1. UNCHANGED <<task, pause, heapBusy, failed, op>>
      BY <1>7 DEF StartAlloc
    <2>2. c # Main => c \in Helpers /\ pc[c] = "refilled"
      BY <1>7 DEF StartAlloc, Clients
    <2>3. pc \in [Helpers -> PCs]
      BY DEF HInv, HeldNow, Held
    <2>4. CASE gcTask[AllocTask] = "Dispatched"
      <3>1. UNCHANGED work /\ pc' = IF c = Main THEN pc ELSE [pc EXCEPT ![c] = "work"]
        BY <1>7, <2>4 DEF StartAlloc
      <3>2. \A h \in Helpers : pc'[h] = pc[h] \/ (pc[h] = "refilled" /\ pc'[h] = "work")
        BY <2>2, <2>3, <3>1
      <3>3. /\ (MainCompiles => MainCompiles') /\ (HeapAwaited => HeapAwaited') /\ (HighWork' => HighWork)
            /\ \A h \in Helpers : (pc[h] = "loop" => pc'[h] = "loop") /\ (pc'[h] = "wait" => pc[h] = "wait")
        BY <2>1, <3>1, <3>2 DEF MainCompiles, Stranded, AllPaused, HeapAwaited, HighWork
      <3> QED
        BY <2>1, <3>1, <3>3, CalmKeeps
    <2>5. CASE gcTask[AllocTask] # "Dispatched"
      <3>1. work' = [work EXCEPT !["gcparallel"] = Append(@, AllocTask)]
        BY <1>7, <2>5 DEF StartAlloc
      <3>2. PICK W \in SUBSET ProducerWaiters :
                /\ Cardinality(W) = (IF ProducerWaiters = {} THEN 0 ELSE 1)
                /\ pc' = IF c = Main THEN Wake(W) ELSE [Wake(W) EXCEPT ![c] = "work"]
        BY <1>7, <2>5 DEF StartAlloc
      <3>3. ProducerWaiters # {} => W # {}
        BY <3>2, FS_EmptySet
      <3>4. \A h \in Helpers : pc'[h] = Wake(W)[h] \/ (pc[h] = "refilled" /\ pc'[h] = "work")
        <4>1. DOMAIN Wake(W) = Helpers
          BY DEF Wake
        <4> DEFINE w == Wake(W)
        <4> HIDE DEF w
        <4>2. pc' = w \/ (c # Main /\ pc' = [w EXCEPT ![c] = "work"])
          BY <3>2 DEF w
        <4>3. DOMAIN w = Helpers
          BY <4>1 DEF w
        <4>4. \A h \in Helpers : pc'[h] = w[h] \/ (pc[h] = "refilled" /\ pc'[h] = "work")
          BY <2>2, <4>2, <4>3
        <4> QED
          BY <4>4 DEF w
      <3>5. (\A l \in Kinds : l # "gcparallel" => work'[l] = work[l]) /\ work'["ion"] = work["ion"]
        BY <1>0, <3>1
      <3>6. "gcparallel" \in Kinds /\ (work["ion"] # <<>> => work'["ion"] # <<>>)
        BY <1>0, <3>5
      <3> QED
        BY <2>1, <3>3, <3>4, <3>5, <3>6, StartServes
    <2> QED
      BY <2>4, <2>5
  <1> QED
    BY <1>1, <1>2, <1>3, <1>4, <1>5, <1>6, <1>7 DEF ClientStep

\* Unpausing a compilation for a cancellation strands nobody.
LEMMA UnpauseServes ==
  ASSUME HInv, NoticeInv, NEW h \in Helpers, task[h] \in Builders, op[Main] \notin InModule,
         pause' = [pause EXCEPT ![h] = FALSE], pc' = PausedWoken, UNCHANGED <<task, work, failed, heapBusy>>
  PROVE  (Served /\ TwoAreLeft /\ OneParse)'
  <1>1. ~Stranded' /\ ~MainCompiles
    BY DEF HInv, HeldNow, Held, Stranded, AllPaused, MainCompiles
  <1>2. \A g \in Helpers : /\ pc[g] = "loop" => pc'[g] = "loop"
                           /\ pc'[g] = "wait" => pc[g] = "wait"
                           /\ pc[g] \in {"starved", "refill"} => pc'[g] \in {"starved", "refill"}
    BY WakeKeeps DEF PausedWoken
  <1>3. \A g \in Able : g \in Able'
    BY <1>1, <1>2 DEF Able, Engaged
  <1>4. (HeapAwaited => HeapAwaited') /\ (HighWork' => HighWork) /\ (LowWork' => LowWork) /\ (ParseMayStart' => ParseMayStart)
    BY <1>2 DEF HeapAwaited, HighWork, LowWork, ParseMayStart
  <1>5. Served'
    BY <1>1, <1>2, <1>3, <1>4 DEF NoticeInv, Served
  <1> QED
    BY <1>1, <1>5 DEF TwoAreLeft, NoticeInv, OneParse

\* Steps of the main thread that start, attach or cancel compilations leave
\* waiting work served.
LEMMA IonServes ==
  ASSUME HInv, NoticeInv, IonStep
  PROVE  (Served /\ TwoAreLeft /\ OneParse)'
  <1>0. /\ PlacedNow /\ RestTypes /\ DOMAIN work = Kinds /\ "ion" \in Kinds /\ Main \in Clients
        /\ work["ion"] \in Seq(TasksOf("ion")) /\ cancel \subseteq Builders
    BY KindsAre DEF HInv, PlacedNow, Placed, RestTypes, Clients
  <1>1. ASSUME NEW b \in Builders, WarmUp(b) \/ AttachFinished(b)
        PROVE  (Served /\ TwoAreLeft /\ OneParse)'
    <2>1. UNCHANGED <<pc, task, pause, work, failed, heapBusy, op>>
      BY <1>1 DEF WarmUp, AttachFinished, lists, gc
    <2> QED
      BY <2>1, SameKeeps
  <1>2. ASSUME NEW b \in Builders, StartOffThreadIonCompile(b)
        PROVE  (Served /\ TwoAreLeft /\ OneParse)'
    <2>1. Start("ion", b) /\ UNCHANGED <<task, pause, heapBusy, failed, op>>
      BY <1>2 DEF StartOffThreadIonCompile, gc
    <2> QED
      BY <1>0, <2>1, OneStartServes, KindsOfTasks
  <1>3. ASSUME NEW S, NEW o, BeginCancel(S, o)
        PROVE  (Served /\ TwoAreLeft /\ OneParse)'
    <2> DEFINE q == RemoveAll(work["ion"], Pending(S))
    <2>1. /\ UNCHANGED <<pc, task, pause, failed, heapBusy>> /\ op[Main] = "none"
          /\ work' = [work EXCEPT !["ion"] = q]
      BY <1>3 DEF BeginCancel, In, gc
    <2>2. q # <<>> => work["ion"] # <<>>
      <3>1. q \in Seq(TasksOf("ion")) /\ Elements(q) = Elements(work["ion"]) \ Pending(S)
        BY <1>0, AllRemoved
      <3>2. ASSUME work["ion"] = <<>> PROVE q = <<>>
        <4>1. Elements(work["ion"]) = {}
          BY <3>2 DEF Elements
        <4> HIDE DEF q
        <4> QED
          BY <3>1, <4>1, NoElements
      <3> QED
        BY <3>2
    <2> HIDE DEF q
    <2>3. \A k \in Kinds : work'[k] # <<>> => work[k] # <<>>
      BY <1>0, <2>1, <2>2
    <2>4. HighWork' => HighWork
      BY <2>1, <2>3, KindsAre DEF HighWork
    <2>5. ~MainCompiles /\ (HeapAwaited => HeapAwaited')
      BY <2>1 DEF MainCompiles, InModule, HeapAwaited
    <2> QED
      BY <2>1, <2>3, <2>4, <2>5, CalmKeeps
  <1>4. ASSUME NEW h \in Helpers, AwaitCancelled(h)
        PROVE  (Served /\ TwoAreLeft /\ OneParse)'
    <2>1. UNCHANGED <<task, work, failed, heapBusy, op>> /\ task[h] \in Builders /\ op[Main] \notin InModule
      BY <1>0, <1>4 DEF AwaitCancelled, In, InModule, lists, gc
    <2>2. CASE pause' = [pause EXCEPT ![h] = FALSE] /\ pc' = PausedWoken
      BY <2>1, <2>2, UnpauseServes
    <2>3. CASE UNCHANGED <<pause, pc>>
      BY <2>1, <2>3, SameKeeps
    <2> QED
      BY <1>4, <2>2, <2>3 DEF AwaitCancelled
  <1>5. CASE EndCancel \/ AwaitAllThreads
    <2>1. UNCHANGED <<pc, task, pause, work, failed, heapBusy>> /\ op[Main] \notin InModule
      BY <1>5 DEF EndCancel, AwaitAllThreads, Sleep, In, InModule, lists, gc
    <2> QED
      BY <2>1, SameKeeps
  <1> QED
    BY <1>1, <1>2, <1>3, <1>4, <1>5 DEF IonStep, Cancel, WaitForAllThreads

\* So do its steps that start, merge or wait for parses.
LEMMA ParsesServe ==
  ASSUME HInv, NoticeInv, ParseStep
  PROVE  (Served /\ TwoAreLeft /\ OneParse)'
  <1>0. /\ DOMAIN work = Kinds /\ "parse" \in Kinds /\ work["parse"] \in Seq(TasksOf("parse"))
    BY KindsAre DEF HInv, PlacedNow, Placed
  <1>1. ASSUME NEW p \in Parses, StartParse(p)
        PROVE  (Served /\ TwoAreLeft /\ OneParse)'
    <2>1. UNCHANGED <<task, pause, heapBusy, failed, op>> /\ (UNCHANGED <<pc, work>> \/ Start("parse", p))
      BY <1>1 DEF StartParse, gc
    <2> QED
      BY <1>0, <2>1, OneStartServes, SameKeeps, KindsOfTasks
  <1>2. ASSUME NEW p \in Parses, MergeParse(p)
        PROVE  (Served /\ TwoAreLeft /\ OneParse)'
    <2>1. UNCHANGED <<pc, task, pause, work, failed, heapBusy, op>>
      BY <1>2 DEF MergeParse, gc
    <2> QED
      BY <2>1, SameKeeps
  <1>3. CASE CancelParses \/ AwaitParses \/ BeginAtomsGC
    <2>1. UNCHANGED <<pc, task, pause, work, failed, heapBusy>> /\ op[Main] \notin InModule
      BY <1>3 DEF CancelParses, AwaitParses, BeginAtomsGC, Sleep, In, InModule, lists, gc
    <2> QED
      BY <2>1, SameKeeps
  <1>4. CASE EndAtomsGC
    <2>1. UNCHANGED <<task, pause, failed, heapBusy, op>>
      BY <1>4 DEF EndAtomsGC
    <2>2. CASE parked = {}
      <3>1. PICK q \in [1..Cardinality(parked) -> parked] : work' = [work EXCEPT !["parse"] = @ \o q]
        BY <1>4 DEF EndAtomsGC
      <3>2. Cardinality(parked) = 0
        BY <2>2, FS_EmptySet
      <3>3. q = <<>>
        BY <3>1, <3>2
      <3>4. work["parse"] \o q = work["parse"]
        BY <1>0, <3>3
      <3>5. pc' = pc /\ \A k \in Kinds : work'[k] = work[k]
        BY <1>0, <1>4, <2>2, <3>1, <3>4 DEF EndAtomsGC
      <3>6. ~MainCompiles
        BY <1>4 DEF EndAtomsGC, In, MainCompiles, InModule
      <3>7. (HighWork' => HighWork) /\ (HeapAwaited => HeapAwaited')
        BY <2>1, <3>5, KindsAre DEF HighWork, HeapAwaited
      <3> QED
        BY <2>1, <3>5, <3>6, <3>7, CalmKeeps
    <2>3. CASE parked # {}
      <3>1. pc' = Wake(ProducerWaiters) /\ op[Main] = "none"
        BY <1>4, <2>3 DEF EndAtomsGC, NotifyAllProducers, In
      <3>2. ~MainCompiles
        BY <3>1 DEF MainCompiles, InModule
      <3> QED
        BY <2>1, <3>1, <3>2, AllWokenServes
    <2> QED
      BY <2>2, <2>3
  <1> QED
    BY <1>1, <1>2, <1>3, <1>4 DEF ParseStep

\* So do the steps of a collection.
LEMMA CollectionsServe ==
  ASSUME HInv, NoticeInv, GCStep
  PROVE  (Served /\ TwoAreLeft /\ OneParse)'
  <1>0. /\ DOMAIN work = Kinds /\ "gcparallel" \in Kinds /\ "ion" \in Kinds /\ Dispatched /\ PlacedNow
        /\ TasksOf("gcparallel") = GCTasks
    BY KindsAre, KindsOfTasks DEF HInv, PlacedNow, Placed
  <1>1. CASE BeginSession
    <2>1. UNCHANGED <<pc, task, pause, work, failed>> /\ heapBusy' = TRUE /\ op[Main] \notin InModule
      BY <1>1 DEF BeginSession, In, InModule, lists
    <2>2. ~MainCompiles /\ (HeapAwaited => HeapAwaited') /\ (HighWork' => HighWork)
      BY <2>1 DEF MainCompiles, HeapAwaited, HighWork
    <2> QED
      BY <2>1, <2>2, CalmKeeps
  <1>2. CASE FreeMallocedBuffers
    <2>1. UNCHANGED <<task, pause, failed, heapBusy>> /\ op[Main] \notin InModule
          /\ (UNCHANGED <<pc, work>> \/ Start("gcparallel", BufferTask))
      BY <1>2 DEF FreeMallocedBuffers, Sleep, In, InModule, lists, gc
    <2>2. BufferTask \in GCTasks
      BY <1>0, <1>2 DEF FreeMallocedBuffers, In, Dispatched, GCTasks
    <2> QED
      BY <1>0, <2>1, <2>2, OneStartServes, SameKeeps
  <1>3. CASE JoinAlloc \/ JoinSweepTasks \/ WaitBackgroundSweepEnd
    <2>1. UNCHANGED <<pc, task, pause, work, failed, heapBusy>> /\ op[Main] \notin InModule
      BY <1>3 DEF JoinAlloc, JoinSweepTasks, Join, WaitBackgroundSweepEnd, Sleep, In, InModule, lists, gc
    <2> QED
      BY <2>1, SameKeeps
  <1>4. CASE StartSweepAtoms
    <2>1. UNCHANGED <<task, pause, failed, heapBusy>> /\ op[Main] \notin InModule
          /\ Start("gcparallel", AtomsTask) /\ AtomsTask \in GCTasks
      BY <1>4 DEF StartSweepAtoms, In, InModule, GCTasks
    <2> QED
      BY <1>0, <2>1, OneStartServes
  <1>5. CASE StartSweepTasks
    <2>1. /\ UNCHANGED <<task, pause, failed, heapBusy>> /\ op[Main] \notin InModule
          /\ NotifyEach(Cardinality(SweepTasks)) /\ SweepTasks # {}
          /\ \E r : work' = [work EXCEPT !["gcparallel"] = r]
      BY <1>5 DEF StartSweepTasks, In, InModule
    <2>2. Cardinality(SweepTasks) \in Nat /\ Cardinality(SweepTasks) > 0
      BY <2>1, PoolAssumption, FS_CardinalityType, FS_EmptySet
    <2>3. PICK W \in SUBSET ProducerWaiters : (ProducerWaiters # {} => W # {}) /\ pc' = Wake(W)
      BY <2>1, <2>2, NotifyWakes
    <2>4. \A l \in Kinds : l # "gcparallel" => work'[l] = work[l]
      BY <1>0, <2>1
    <2>5. work["ion"] # <<>> => work'["ion"] # <<>>
      BY <1>0, <2>4
    <2>6. \A h \in Helpers : pc'[h] = Wake(W)[h]
      BY <2>3
    <2> QED
      BY <1>0, <2>1, <2>3, <2>4, <2>5, <2>6, StartServes
  <1>6. CASE StartBackgroundSweep
    <2>1. UNCHANGED <<task, pause>> /\ pc' = Wake(ProducerWaiters) /\ op[Main] \notin InModule
      BY <1>6 DEF StartBackgroundSweep, NotifyAllProducers, In, InModule
    <2>2. ~MainCompiles
      BY <2>1 DEF MainCompiles
    <2> QED
      BY <2>1, <2>2, AllWokenServes
  <1>7. CASE EndSession
    <2>1. UNCHANGED <<task, pause, work, failed>> /\ pc' = Wake(SessionEndWakes) /\ op[Main] \notin InModule
      BY <1>7 DEF EndSession, In, InModule, lists
    <2>2. ASSUME HeapAwaited
          PROVE  pc' = Wake(ProducerWaiters)
      <3>1. PICK h \in Helpers : task[h] \in Parses
        BY <2>2 DEF HeapAwaited, HInv, HeldNow, Held, HeldAt
      <3>2. task[h] # None /\ KindOf(task[h]) = "parse"
        <4>1. task[h] \in TasksOf("parse")
          BY <3>1, KindsOfTasks
        <4> QED
          BY <4>1 DEF TasksOf
      <3>3. task[h] \in ActiveParses
        BY <3>2 DEF ActiveParses, Running, On, Now
      <3> QED
        BY <2>1, <3>3 DEF SessionEndWakes
    <2>3. HeapAwaited => \A h \in Helpers : pc'[h] # "wait"
      BY <2>2, WakeKeeps DEF ProducerWaiters
    <2>4. \A h \in Helpers : (pc[h] = "loop" => pc'[h] = "loop") /\ (pc'[h] = "wait" => pc[h] = "wait")
      BY <2>1, WakeKeeps
    <2>5. ~MainCompiles /\ (HighWork' => HighWork)
      BY <2>1 DEF MainCompiles, HighWork
    <2> QED
      BY <2>1, <2>3, <2>4, <2>5, CalmKeeps
  <1> QED
    BY <1>1, <1>2, <1>3, <1>4, <1>5, <1>6, <1>7 DEF GCStep

\* So does the shutdown.
LEMMA ShutdownServes ==
  ASSUME HInv, NoticeInv, ShutdownStep
  PROVE  (Served /\ TwoAreLeft /\ OneParse)'
  <1>1. CASE Shutdown \/ EndShutdown
    <2>1. UNCHANGED <<pc, task, pause, work, failed, heapBusy>> /\ op[Main] \notin InModule
      BY <1>1 DEF Shutdown, EndShutdown, In, InModule, lists, gc
    <2> QED
      BY <2>1, SameKeeps
  <1>2. ASSUME NEW h \in Helpers, DestroyHelper(h)
        PROVE  (Served /\ TwoAreLeft /\ OneParse)'
    <2>1. UNCHANGED <<task, pause>> /\ pc' = Wake(ProducerWaiters) /\ op[Main] \notin InModule
      BY <1>2 DEF DestroyHelper, NotifyAllProducers, In, InModule
    <2>2. ~MainCompiles
      BY <2>1 DEF MainCompiles
    <2> QED
      BY <2>1, <2>2, AllWokenServes
  <1> QED
    BY <1>1, <1>2 DEF ShutdownStep

\* Other steps wake helpers, but none begins to wait for the heap or is gone.
LEMMA OthersWake ==
  ASSUME HInv, (\E c \in Clients : ClientStep(c)) \/ IonStep \/ ParseStep \/ GCStep \/ ShutdownStep
  PROVE  \A h \in Helpers : pc'[h] \in {"starved", "gone"} => pc[h] = pc'[h]
  <1>0. pc \in [Helpers -> PCs]
    BY DEF HInv, HeldNow, Held
  <1>1. ASSUME NEW W, pc' = Wake(W)
        PROVE  \A h \in Helpers : pc'[h] \in {"starved", "gone"} => pc[h] = pc'[h]
    BY <1>1, WakeKeeps
  <1>2. ASSUME NEW n, NotifyEach(n)
        PROVE  \E W : pc' = Wake(W)
    BY <1>2 DEF NotifyEach
  <1>3. ASSUME NEW c \in Clients, ClientStep(c)
        PROVE  \A h \in Helpers : pc'[h] \in {"starved", "gone"} => pc[h] = pc'[h]
    <2>1. CASE StartModule(c) \/ LeaveGenerate(c) \/ EndModule(c) \/ BeginComplete(c) \/ DrainModule(c)
               \/ FinishOutstanding(c) \/ Complete(c)
      BY <2>1 DEF StartModule, LeaveGenerate, EndModule, BeginComplete, DrainModule, FinishOutstanding, Complete, Sleep
    <2>2. CASE SubmitFunction(c) \/ StartOffThreadCompression(c)
      BY <1>1, <1>2, <2>2 DEF SubmitFunction, StartOffThreadCompression, Start
    <2>3. CASE StartAlloc(c)
      <3>1. PICK W : \/ pc' = pc \/ pc' = [pc EXCEPT ![c] = "work"]
                     \/ pc' = Wake(W) \/ pc' = [Wake(W) EXCEPT ![c] = "work"]
        BY <2>3 DEF StartAlloc
      <3> DEFINE w == Wake(W)
      <3>2. DOMAIN w = Helpers /\ \A h \in Helpers : w[h] \in {"starved", "gone"} => pc[h] = w[h]
        BY WakeKeeps DEF Wake
      <3> HIDE DEF w
      <3>3. pc' = pc \/ pc' = [pc EXCEPT ![c] = "work"] \/ pc' = w \/ pc' = [w EXCEPT ![c] = "work"]
        BY <3>1 DEF w
      <3> QED
        BY <1>0, <3>2, <3>3
    <2> QED
      BY <1>3, <2>1, <2>2, <2>3 DEF ClientStep
  <1>4. CASE IonStep
    BY <1>1, <1>2, <1>4 DEF IonStep, WarmUp, StartOffThreadIonCompile, AttachFinished, Cancel, WaitForAllThreads,
       BeginCancel, AwaitCancelled, EndCancel, AwaitAllThreads, Sleep, Start, PausedWoken
  <1>5. CASE ParseStep
    BY <1>1, <1>2, <1>5 DEF ParseStep, StartParse, MergeParse, CancelParses, AwaitParses, BeginAtomsGC, EndAtomsGC,
       Sleep, Start, NotifyAllProducers
  <1>6. CASE GCStep
    BY <1>1, <1>2, <1>6 DEF GCStep, BeginSession, FreeMallocedBuffers, JoinAlloc, StartSweepAtoms, StartSweepTasks,
       JoinSweepTasks, Join, StartBackgroundSweep, WaitBackgroundSweepEnd, EndSession, Sleep, Start, NotifyAllProducers
  <1>7. CASE ShutdownStep
    BY <1>1, <1>7 DEF ShutdownStep, Shutdown, EndShutdown, DestroyHelper, NotifyAllProducers
  <1> QED
    BY <1>3, <1>4, <1>5, <1>6, <1>7

\* A parse that waits for the heap waits for a session.
LEMMA OthersStarve ==
  ASSUME HInv, NoticeInv, (\E c \in Clients : ClientStep(c)) \/ IonStep \/ ParseStep \/ GCStep \/ ShutdownStep
  PROVE  StarvedInv'
  <1>1. \A h \in Helpers : pc'[h] = "starved" => pc[h] = "starved"
    BY OthersWake
  <1>2. CASE EndSession
    <2>1. SUFFICES ASSUME NEW h \in Helpers, pc'[h] = "starved"
                   PROVE  FALSE
      BY DEF StarvedInv
    <2>2. pc[h] = "starved"
      BY <1>1, <2>1
    <2>3. task[h] \in Parses
      BY <2>2 DEF HInv, HeldNow, Held, HeldAt
    <2>4. task[h] # None /\ KindOf(task[h]) = "parse"
      <3>1. task[h] \in TasksOf("parse")
        BY <2>3, KindsOfTasks
      <3> QED
        BY <3>1 DEF TasksOf
    <2>5. task[h] \in ActiveParses
      BY <2>4 DEF ActiveParses, Running, On, Now
    <2>6. pc' = Wake(ProducerWaiters)
      BY <1>2, <2>5 DEF EndSession, SessionEndWakes
    <2> QED
      BY <2>1, <2>2, <2>6, WakeKeeps DEF ProducerWaiters
  <1>3. ASSUME ~EndSession
        PROVE  heapBusy' = heapBusy \/ heapBusy' = TRUE
    <2>1. ASSUME NEW c \in Clients, ClientStep(c)
          PROVE  UNCHANGED heapBusy
      BY <2>1 DEF ClientStep, StartModule, SubmitFunction, LeaveGenerate, FinishOutstanding, DrainModule, EndModule,
         StartOffThreadCompression, BeginComplete, Complete, StartAlloc, Sleep, gc
    <2>2. CASE IonStep
      BY <2>2 DEF IonStep, WarmUp, StartOffThreadIonCompile, AttachFinished, Cancel, WaitForAllThreads,
         BeginCancel, AwaitCancelled, EndCancel, AwaitAllThreads, Sleep, gc
    <2>3. CASE ParseStep
      BY <2>3 DEF ParseStep, StartParse, MergeParse, CancelParses, AwaitParses, BeginAtomsGC, EndAtomsGC, Sleep, gc
    <2>4. CASE GCStep
      BY <1>3, <2>4 DEF GCStep, BeginSession, FreeMallocedBuffers, JoinAlloc, StartSweepAtoms, StartSweepTasks,
         JoinSweepTasks, Join, StartBackgroundSweep, WaitBackgroundSweepEnd, Sleep, gc
    <2>5. CASE ShutdownStep
      BY <2>5 DEF ShutdownStep, Shutdown, EndShutdown, DestroyHelper, gc
    <2> QED
      BY <2>1, <2>2, <2>3, <2>4, <2>5
  <1>4. CASE ~EndSession
    <2>1. heapBusy => heapBusy'
      BY <1>3, <1>4
    <2> QED
      BY <1>1, <2>1 DEF NoticeInv, StarvedInv
  <1> QED
    BY <1>2, <1>4

\* Only the main thread and helpers that run a parse wait or compile a module.
LEMMA OthersClients ==
  ASSUME HInv, NoticeInv, (\E c \in Clients : ClientStep(c)) \/ IonStep \/ ParseStep \/ GCStep \/ ShutdownStep
  PROVE  ClientsParse'
  <1>0. PlacedNow /\ op \in [Clients -> OPs] /\ Main \in Clients /\ Main \notin Helpers
    BY PoolAssumption DEF HInv, RestTypes, Clients
  <1>1. ASSUME NEW c \in Clients, c \in Helpers => task[c] \in Parses, UNCHANGED task,
               asleep' \in {asleep, asleep \cup {c}, {}}, UNCHANGED op \/ \E o : Goto(c, o)
        PROVE  ClientsParse'
    <2>1. \A h \in Helpers : h # c => (h \in asleep' => h \in asleep)
      BY <1>1
    <2>2. \A h \in Helpers : h # c => op'[h] = op[h]
      <3>1. CASE UNCHANGED op
        BY <3>1
      <3>2. ASSUME NEW o, Goto(c, o)
            PROVE  \A h \in Helpers : h # c => op'[h] = op[h]
        BY <1>0, <3>2 DEF Goto, Clients
      <3> QED
        BY <1>1, <3>1, <3>2
    <2> QED
      BY <1>1, <2>1, <2>2 DEF NoticeInv, ClientsParse
  <1>2. ASSUME NEW c \in Clients, Turn(c)
        PROVE  c \in Helpers => task[c] \in Parses
    <2>1. SUFFICES ASSUME c \in Helpers PROVE task[c] \in Parses
      OBVIOUS
    <2>2. Works(c, "parse")
      BY <1>0, <1>2, <2>1 DEF Turn
    <2>3. task[c] \in TasksOf("parse")
      BY <1>0, <2>1, <2>2, WorksOn
    <2> QED
      BY <2>3, KindsOfTasks
  <1>3. ASSUME NEW c \in Clients, ClientStep(c), ~StartAlloc(c)
        PROVE  ClientsParse'
    <2>1. Turn(c) /\ UNCHANGED task
      BY <1>3 DEF ClientStep, StartModule, SubmitFunction, LeaveGenerate, FinishOutstanding, DrainModule, EndModule,
         StartOffThreadCompression, BeginComplete, Complete, Sleep, In
    <2>2. asleep' \in {asleep, asleep \cup {c}, {}}
      BY <1>3 DEF ClientStep, StartModule, SubmitFunction, LeaveGenerate, FinishOutstanding, DrainModule, EndModule,
         StartOffThreadCompression, BeginComplete, Complete, Sleep
    <2>3. UNCHANGED op \/ \E o : Goto(c, o)
      BY <1>3 DEF ClientStep, StartModule, SubmitFunction, LeaveGenerate, FinishOutstanding, DrainModule, EndModule,
         StartOffThreadCompression, BeginComplete, Complete, Sleep
    <2> QED
      BY <1>1, <1>2, <2>1, <2>2, <2>3
  <1>4. ASSUME NEW c \in Clients, StartAlloc(c)
        PROVE  ClientsParse'
    BY <1>4 DEF StartAlloc, NoticeInv, ClientsParse
  <1>5. ASSUME UNCHANGED task, asleep' \in {asleep, asleep \cup {Main}, {}}, UNCHANGED op \/ \E o : Goto(Main, o)
        PROVE  ClientsParse'
    BY <1>0, <1>1, <1>5
  <1>6. CASE IonStep
    BY <1>5, <1>6 DEF IonStep, WarmUp, StartOffThreadIonCompile, AttachFinished, Cancel, WaitForAllThreads,
       BeginCancel, AwaitCancelled, EndCancel, AwaitAllThreads, Sleep
  <1>7. CASE ParseStep
    BY <1>5, <1>7 DEF ParseStep, StartParse, MergeParse, CancelParses, AwaitParses, BeginAtomsGC, EndAtomsGC, Sleep
  <1>8. CASE GCStep
    BY <1>5, <1>8 DEF GCStep, BeginSession, FreeMallocedBuffers, JoinAlloc, StartSweepAtoms, StartSweepTasks,
       JoinSweepTasks, Join, StartBackgroundSweep, WaitBackgroundSweepEnd, EndSession, Sleep
  <1>9. CASE ShutdownStep
    BY <1>5, <1>9 DEF ShutdownStep, Shutdown, EndShutdown, DestroyHelper
  <1> QED
    BY <1>3, <1>4, <1>6, <1>7, <1>8, <1>9

\* Once the pool is being shut down nothing is started, and it is only shut down
\* when nothing is left.
LEMMA OthersOver ==
  ASSUME HInv, NoticeInv, (\E c \in Clients : ClientStep(c)) \/ IonStep \/ ParseStep \/ GCStep \/ ShutdownStep
  PROVE  OverInv'
  <1>0. /\ PlacedNow /\ HeldNow /\ op \in [Clients -> OPs] /\ Main \in Clients /\ Main \notin Helpers
    BY PoolAssumption DEF HInv, RestTypes, Clients
  <1>1. \A h \in Helpers : pc'[h] = "gone" => pc[h] = "gone"
    BY OthersWake
  <1>2. CASE Over
    <2>1. (\A k \in Kinds : work[k] = <<>>) /\ \A h \in Helpers : task[h] = None
      BY <1>2 DEF NoticeInv, OverInv
    <2>2. ASSUME NEW c \in Clients, ClientStep(c)
          PROVE  FALSE
      <3>1. CASE c = Main
        BY <1>2, <2>2, <3>1 DEF Over, ClientStep, StartModule, SubmitFunction, LeaveGenerate, FinishOutstanding, DrainModule,
           EndModule, StartOffThreadCompression, BeginComplete, Complete, StartAlloc, In
      <3>2. CASE c \in Helpers
        <4>1. task[c] = None /\ None \notin Parses
          BY <2>1, <3>2, ClassesAreApart
        <4>2. pc[c] # "refilled"
          BY <1>0, <3>2, <4>1 DEF HeldNow, Held, HeldAt
        <4>3. ~Works(c, "parse")
          BY <4>1 DEF Works
        <4>4. ~Turn(c)
          BY <1>0, <3>2, <4>3 DEF Turn
        <4> QED
          BY <1>0, <2>2, <3>2, <4>2, <4>4 DEF ClientStep, StartModule, SubmitFunction, LeaveGenerate, FinishOutstanding,
             DrainModule, EndModule, StartOffThreadCompression, BeginComplete, Complete, StartAlloc, In
      <3> QED
        BY <3>1, <3>2 DEF Clients
    <2>3. ~IonStep
      BY <1>2 DEF Over, IonStep, WarmUp, StartOffThreadIonCompile, AttachFinished, Cancel, WaitForAllThreads,
         BeginCancel, AwaitCancelled, EndCancel, AwaitAllThreads, In
    <2>4. ~ParseStep
      BY <1>2 DEF Over, ParseStep, StartParse, MergeParse, CancelParses, AwaitParses, BeginAtomsGC, EndAtomsGC, In
    <2>5. ~GCStep
      BY <1>2 DEF Over, GCStep, BeginSession, FreeMallocedBuffers, JoinAlloc, StartSweepAtoms, StartSweepTasks,
         JoinSweepTasks, StartBackgroundSweep, WaitBackgroundSweepEnd, EndSession, In
    <2>6. ShutdownStep
      BY <2>2, <2>3, <2>4, <2>5
    <2>7. UNCHANGED <<work, task>>
      BY <2>6 DEF ShutdownStep, Shutdown, EndShutdown, DestroyHelper, lists
    <2>8. Over'
      BY <1>0, <1>2, <2>6 DEF ShutdownStep, Shutdown, EndShutdown, DestroyHelper, Goto, Over
    <2> QED
      BY <2>1, <2>7, <2>8 DEF OverInv
  <1>3. CASE ~Over
    <2>1. terminate = {} /\ \A h \in Helpers : pc[h] # "gone"
      BY <1>3 DEF NoticeInv, OverInv
    <2>2. CASE Shutdown
      <3>1. (\A k \in Kinds : work[k] = <<>>) /\ \A h \in Helpers : task[h] = None
        BY <2>2 DEF Shutdown, Quiescent, HasActiveThreads
      <3>2. UNCHANGED <<work, task>> /\ Over'
        BY <1>0, <2>2 DEF Shutdown, Goto, Over, lists
      <3> QED
        BY <3>1, <3>2 DEF OverInv
    <2>3. ASSUME ~Shutdown
          PROVE  terminate' = terminate /\ ~Over'
      <3>1. ASSUME NEW c \in Clients, ClientStep(c)
            PROVE  terminate' = terminate /\ ~Over'
        <4>1. UNCHANGED terminate
          BY <3>1 DEF ClientStep, StartModule, SubmitFunction, LeaveGenerate, FinishOutstanding, DrainModule, EndModule,
             StartOffThreadCompression, BeginComplete, Complete, StartAlloc, Sleep, mainOnly
        <4>2. UNCHANGED op \/ \E o : o \notin {"shutdown", "ended"} /\ Goto(c, o)
          BY <3>1 DEF ClientStep, StartModule, SubmitFunction, LeaveGenerate, FinishOutstanding, DrainModule, EndModule,
             StartOffThreadCompression, BeginComplete, Complete, StartAlloc, Sleep
        <4>3. op'[Main] = op[Main] \/ op'[Main] \notin {"shutdown", "ended"}
          BY <1>0, <4>2 DEF Goto
        <4> QED
          BY <1>3, <4>1, <4>3 DEF Over
      <3>2. ASSUME UNCHANGED op \/ \E o : o \notin {"shutdown", "ended"} /\ Goto(Main, o)
            PROVE  ~Over'
        BY <1>0, <1>3, <3>2 DEF Goto, Over
      <3>3. CASE IonStep
        <4>1. UNCHANGED op \/ \E o : o \notin {"shutdown", "ended"} /\ Goto(Main, o)
          BY <3>3 DEF IonStep, WarmUp, StartOffThreadIonCompile, AttachFinished, Cancel, WaitForAllThreads,
             BeginCancel, AwaitCancelled, EndCancel, AwaitAllThreads, Sleep
        <4>2. UNCHANGED terminate
          BY <3>3 DEF IonStep, WarmUp, StartOffThreadIonCompile, AttachFinished, Cancel, WaitForAllThreads,
             BeginCancel, AwaitCancelled, EndCancel, AwaitAllThreads, Sleep, mainOnly
        <4> QED
          BY <3>2, <4>1, <4>2
      <3>4. CASE ParseStep
        <4>1. UNCHANGED op \/ \E o : o \notin {"shutdown", "ended"} /\ Goto(Main, o)
          BY <3>4 DEF ParseStep, StartParse, MergeParse, CancelParses, AwaitParses, BeginAtomsGC, EndAtomsGC, Sleep
        <4>2. UNCHANGED terminate
          BY <3>4 DEF ParseStep, StartParse, MergeParse, CancelParses, AwaitParses, BeginAtomsGC, EndAtomsGC, Sleep, mainOnly
        <4> QED
          BY <3>2, <4>1, <4>2
      <3>5. CASE GCStep
        <4>1. UNCHANGED op \/ \E o : o \notin {"shutdown", "ended"} /\ Goto(Main, o)
          BY <3>5 DEF GCStep, BeginSession, FreeMallocedBuffers, JoinAlloc, StartSweepAtoms, StartSweepTasks,
             JoinSweepTasks, Join, StartBackgroundSweep, WaitBackgroundSweepEnd, EndSession, Sleep
        <4>2. UNCHANGED terminate
          BY <3>5 DEF GCStep, BeginSession, FreeMallocedBuffers, JoinAlloc, StartSweepAtoms, StartSweepTasks,
             JoinSweepTasks, Join, StartBackgroundSweep, WaitBackgroundSweepEnd, EndSession, Sleep, mainOnly
        <4> QED
          BY <3>2, <4>1, <4>2
      <3>6. ~ShutdownStep
        BY <1>3, <2>3 DEF ShutdownStep, EndShutdown, DestroyHelper, In, Over
      <3> QED
        BY <3>1, <3>3, <3>4, <3>5, <3>6
    <2>4. CASE ~Shutdown
      BY <1>1, <2>1, <2>3, <2>4 DEF OverInv
    <2> QED
      BY <2>2, <2>4
  <1> QED
    BY <1>2, <1>3

\* At first nobody waits, and nothing is started.
LEMMA NoticeInit == Init => NoticeInv
  <1> SUFFICES ASSUME Init PROVE NoticeInv
    OBVIOUS
  <1>1. /\ \A h \in Helpers : pc[h] = "loop" /\ task[h] = None /\ ~pause[h]
        /\ \A c \in Clients : op[c] = "none"
        /\ terminate = {} /\ asleep = {}
    BY DEF Init
  <1>2. Main \in Clients /\ Helpers \subseteq Clients /\ None \notin Parses
    BY ClassesAreApart DEF Clients
  <1>3. Served /\ TwoAreLeft /\ OneParse /\ StarvedInv
    BY <1>1, <1>2 DEF Served, TwoAreLeft, Stranded, AllPaused, OneParse, StarvedInv
  <1>4. ClientsParse /\ OverInv
    BY <1>1, <1>2 DEF ClientsParse, OverInv, Over, InModule
  <1> QED
    BY <1>3, <1>4 DEF NoticeInv

\* Every step keeps it.
LEMMA NoticeNext == HInv /\ NoticeInv /\ [Next]_vars => NoticeInv'
  <1> SUFFICES ASSUME HInv, NoticeInv, [Next]_vars PROVE NoticeInv'
    OBVIOUS
  <1>1. ASSUME NEW h \in Helpers, HelperStep(h)
        PROVE  NoticeInv'
    BY <1>1, HelpersServe, HelpersKeepRest DEF NoticeInv
  <1>2. CASE (\E c \in Clients : ClientStep(c)) \/ IonStep \/ ParseStep \/ GCStep \/ ShutdownStep
    <2>1. (Served /\ TwoAreLeft /\ OneParse)'
      BY <1>2, ClientsServe, IonServes, ParsesServe, CollectionsServe, ShutdownServes
    <2> QED
      BY <1>2, <2>1, OthersStarve, OthersClients, OthersOver DEF NoticeInv
  <1>3. CASE UNCHANGED vars
    <2>1. UNCHANGED <<pc, task, pause, work, failed, heapBusy, op, asleep, terminate>>
      BY <1>3 DEF vars, lists, gc, mainOnly
    <2>2. (Served /\ TwoAreLeft /\ OneParse)'
      BY <2>1, SameKeeps
    <2> QED
      BY <2>1, <2>2 DEF NoticeInv, StarvedInv, ClientsParse, OverInv, Over
  <1> QED
    BY <1>1, <1>2, <1>3 DEF Next

\* The invariant holds.
LEMMA NoticeHolds == Spec => []NoticeInv
  BY InvariantHolds, NoticeInit, NoticeNext, PTL DEF Spec

\* If everybody sleeps, nothing may start.
LEMMA NoticeFollows == HInv /\ NoticeInv => WorkIsNoticed
  <1> DEFINE awake(h) == \/ pc[h] \in {"loop", "resume", "refill", "refilled", "swept"}
                         \/ pc[h] = "work" /\ h \notin asleep
  <1> SUFFICES ASSUME HInv, NoticeInv, ~heapBusy, NEW k \in Kinds, CanStart(k, Now),
                      \A h \in Helpers \ terminate : ~awake(h)
               PROVE  FALSE
    BY DEF WorkIsNoticed
  <1>0. HeldNow /\ Placed(Now.task, work, done, parked) /\ Now.task = task /\ Now.failed = failed
    BY DEF HInv, PlacedNow, Now
  <1>1. terminate = {} /\ \A h \in Helpers : pc[h] # "gone"
    <2>1. work[k] # <<>>
      BY DEF CanStart
    <2> QED
      BY <2>1 DEF NoticeInv, OverInv
  <1>2. ASSUME NEW h \in Helpers
        PROVE  \/ pc[h] = "wait" /\ task[h] = None /\ ~pause[h]
               \/ task[h] \in Builders /\ pause[h]
               \/ task[h] \in Parses /\ ~pause[h]
    <2>1. pc[h] \in PCs /\ HeldAt(h, pc, task, pause)
      BY <1>0 DEF HeldNow, Held
    <2>2. pc[h] # "starved"
      BY DEF NoticeInv, StarvedInv
    <2>3. pc[h] = "wait" \/ pc[h] = "paused" \/ (pc[h] = "work" /\ h \in asleep)
      BY <1>1, <2>1, <2>2 DEF PCs
    <2>4. h \in asleep => task[h] \in Parses
      BY DEF NoticeInv, ClientsParse
    <2> QED
      BY <2>1, <2>3, <2>4, ClassesAreApart DEF HeldAt
  <1>3. \A h \in Helpers : pc[h] # "loop"
    BY <1>1
  <1>4. (\E h \in Helpers : pause[h]) => Stranded
    BY <1>2, ClassesAreApart DEF Stranded, AllPaused
  <1>5. CASE \E h \in Helpers : pc[h] = "wait"
    <2>1. LowWork \/ ParseMayStart \/ HighWork
      <3>1. CASE k \in LowKinds
        BY <3>1 DEF CanStart, LowWork
      <3>2. CASE k = "parse"
        BY <1>0, <3>2, WhyNotStarted DEF ParseMayStart
      <3>3. CASE k \in {"ion", "wasm"}
        BY <1>0, <3>3 DEF CanStart, HighWork
      <3> QED
        BY <3>1, <3>2, <3>3, KindsAre DEF LowKinds
    <2>2. PICK x \in Able : TRUE
      BY <1>5, <2>1 DEF NoticeInv, Served, HeapAwaited
    <2>3. x \in Helpers /\ task[x] \notin Parses \cup {None} /\ (Stranded => ~pause[x])
      BY <1>3, <2>2 DEF Able, Engaged
    <2>4. pause[x]
      BY <1>2, <2>3
    <2> QED
      BY <1>4, <2>3, <2>4
  <1>6. CASE \A h \in Helpers : pc[h] # "wait"
    <2>1. \A h \in Helpers : ~pause[h] => task[h] \in Parses
      BY <1>2, <1>6
    <2>2. \E h \in Helpers : pause[h]
      <3>1. SUFFICES ASSUME \A h \in Helpers : task[h] \in Parses
                     PROVE  FALSE
        BY <2>1
      <3>2. \A g, h \in Helpers : g = h
        BY <3>1 DEF NoticeInv, OneParse
      <3>3. Cardinality(Helpers) \in {0, 1}
        BY <3>2, AtMostOne
      <3> QED
        BY <3>3, PoolAssumption
    <2>3. Stranded
      BY <1>4, <2>2
    <2>4. ~MainCompiles
      BY <1>2, <1>6, ClassesAreApart DEF MainCompiles
    <2>5. PICK g, h \in Helpers : g # h /\ ~pause[g] /\ ~pause[h]
      BY <2>3, <2>4 DEF NoticeInv, TwoAreLeft
    <2> QED
      BY <2>1, <2>5 DEF NoticeInv, OneParse
  <1> QED
    BY <1>5, <1>6

-----------------------------------------------------------------------------
(* Compilations are left to themselves by a cancellation only.               *)

\* A paused compilation has a successor unless all that are started are paused
\* and none waits.
LEMMA SuccessorIs == HInv => (PausedHasSuccessor <=> (Stranded => work["ion"] # <<>>))
  <1> SUFFICES ASSUME HInv
               PROVE  PausedHasSuccessor <=> (Stranded => work["ion"] # <<>>)
    OBVIOUS
  <1>1. Now.task = task /\ Now.pause = pause /\ task \in [Helpers -> Tasks \cup {None}] /\ "ion" \in Kinds
    BY KindsAre DEF Now, HInv, PlacedNow, Placed
  <1>2. On("ion", Now) = {h \in Helpers : task[h] \in Builders}
    BY <1>1, OnIs, KindsOfTasks
  <1> QED
    BY <1>1, <1>2 DEF PausedHasSuccessor, Unpaused, Stranded, AllPaused

\* A helper that leaves compilations stranded, with none that waits, found them so.
LEMMA HelpersStrand ==
  ASSUME HInv, NEW h \in Helpers, HelperStep(h), Stranded', work'["ion"] = <<>>
  PROVE  Stranded /\ work["ion"] = <<>>
  <1>1. CASE Quiet(h)
    <2>1. UNCHANGED <<task, pause, work>>
      BY <1>1, QuietMoves
    <2> QED
      BY <2>1 DEF Stranded, AllPaused
  <1>2. CASE ~Quiet(h)
    <2>1. PICK s : Leaves(h, s) /\ ThreadLoop(h, s)
      BY <1>2, HelpersLeave
    <2>2. SUFFICES AllPaused(s.task, s.pause) /\ work["ion"] = <<>>
      <3>1. ASSUME AllPaused(s.task, s.pause), work["ion"] = <<>>
            PROVE  Stranded
        <4>1. task[h] \notin Builders
          BY <2>1, <3>1 DEF Leaves
        <4> QED
          BY <2>1, <3>1, <4>1, WasStranded
      <3> QED
        BY <3>1
    <2>3. CASE Stops(h, s)
      BY <2>3 DEF Stops, Stranded
    <2>4. ASSUME NEW k \in Kinds, NEW t, NEW q, Takes(h, s, k, t, q)
          PROVE  AllPaused(s.task, s.pause) /\ work["ion"] = <<>>
      <3>1. task'[h] = t /\ t \in TasksOf(k) /\ ~pause'[h] /\ \A l \in Kinds : l # k => work'[l] = work[l]
        BY <2>1, <2>4, TakenTask
      <3>2. k # "ion"
        <4>1. k = "ion" => t \in Builders
          BY <3>1, KindsOfTasks
        <4> QED
          BY <3>1, <4>1 DEF Stranded, AllPaused
      <3>3. work["ion"] = <<>>
        BY <3>1, <3>2, KindsAre
      <3>4. Stranded' <=> AllPaused(s.task, s.pause)
        BY <2>1, <2>4, <3>2, TakenStrands
      <3> QED
        BY <3>3, <3>4
    <2> QED
      BY <2>1, <2>3, <2>4, LeavesPlaced, ThreadLoopDoes
  <1> QED
    BY <1>1, <1>2

\* The other steps but those of a cancellation strand nobody.
LEMMA OthersStrand ==
  ASSUME HInv, (\E c \in Clients : ClientStep(c)) \/ IonStep \/ ParseStep \/ GCStep \/ ShutdownStep,
         op'[Main] \notin {"cancel", "cancelAll"}
  PROVE  UNCHANGED <<task, pause>> /\ (work["ion"] # <<>> => work'["ion"] # <<>>)
  <1>0. /\ PlacedNow /\ DOMAIN work = Kinds /\ "ion" \in Kinds /\ op \in [Clients -> OPs] /\ Main \in Clients
    BY KindsAre DEF HInv, PlacedNow, Placed, RestTypes, Clients
  <1>1. ASSUME NEW k \in Kinds, k # "ion", NEW r, work' = [work EXCEPT ![k] = r]
        PROVE  work'["ion"] = work["ion"]
    BY <1>0, <1>1
  <1>2. ASSUME NEW k \in Kinds, k # "ion", NEW t, Start(k, t)
        PROVE  work'["ion"] = work["ion"]
    BY <1>1, <1>2 DEF Start
  <1>3. {"wasm", "compress", "gcparallel", "parse", "gchelper"} \subseteq Kinds \ {"ion"}
    BY KindsAre
  <1>4. ASSUME NEW c \in Clients, ClientStep(c)
        PROVE  UNCHANGED <<task, pause>> /\ work'["ion"] = work["ion"]
    <2>1. UNCHANGED <<task, pause>>
      BY <1>4 DEF ClientStep, StartModule, SubmitFunction, LeaveGenerate, FinishOutstanding, DrainModule, EndModule,
         StartOffThreadCompression, BeginComplete, Complete, StartAlloc, Sleep
    <2>2. CASE StartModule(c) \/ LeaveGenerate(c) \/ EndModule(c) \/ BeginComplete(c) \/ FinishOutstanding(c) \/ Complete(c)
      BY <2>1, <2>2 DEF StartModule, LeaveGenerate, EndModule, BeginComplete, FinishOutstanding, Complete, Sleep, lists
    <2>3. CASE SubmitFunction(c) \/ StartOffThreadCompression(c)
      BY <1>2, <1>3, <2>1, <2>3 DEF SubmitFunction, StartOffThreadCompression
    <2>4. CASE DrainModule(c)
      BY <1>1, <1>3, <2>1, <2>4 DEF DrainModule
    <2>5. CASE StartAlloc(c)
      <3>1. UNCHANGED work \/ work' = [work EXCEPT !["gcparallel"] = Append(@, AllocTask)]
        BY <2>5 DEF StartAlloc
      <3> QED
        BY <1>1, <1>3, <2>1, <3>1
    <2> QED
      BY <1>4, <2>2, <2>3, <2>4, <2>5 DEF ClientStep
  <1>5. CASE IonStep
    <2>1. ASSUME NEW b \in Builders, WarmUp(b) \/ AttachFinished(b)
          PROVE  UNCHANGED <<task, pause, work>>
      BY <2>1 DEF WarmUp, AttachFinished, lists
    <2>2. ASSUME NEW b \in Builders, StartOffThreadIonCompile(b)
          PROVE  UNCHANGED <<task, pause>> /\ (work["ion"] # <<>> => work'["ion"] # <<>>)
      <3>1. b \in TasksOf("ion") /\ work' = [work EXCEPT !["ion"] = Append(@, b)] /\ UNCHANGED <<task, pause>>
        BY <2>2, KindsOfTasks DEF StartOffThreadIonCompile, Start
      <3> QED
        BY <1>0, <3>1, StartLengthens
    <2>3. ASSUME NEW S, NEW o \in {"cancel", "cancelAll"}, BeginCancel(S, o)
          PROVE  FALSE
      BY <1>0, <2>3 DEF BeginCancel, Goto
    <2>4. ASSUME NEW h \in Helpers, AwaitCancelled(h)
          PROVE  FALSE
      BY <2>4 DEF AwaitCancelled, In
    <2>5. CASE EndCancel \/ AwaitAllThreads
      BY <2>5 DEF EndCancel, AwaitAllThreads, Sleep, lists
    <2> QED
      BY <1>5, <2>1, <2>2, <2>3, <2>4, <2>5 DEF IonStep, Cancel, WaitForAllThreads
  <1>6. CASE ParseStep
    <2>1. UNCHANGED <<task, pause>>
      BY <1>6 DEF ParseStep, StartParse, MergeParse, CancelParses, AwaitParses, BeginAtomsGC, EndAtomsGC, Sleep
    <2>2. UNCHANGED work \/ \E r : work' = [work EXCEPT !["parse"] = r]
      BY <1>6 DEF ParseStep, StartParse, MergeParse, CancelParses, AwaitParses, BeginAtomsGC, EndAtomsGC, Sleep, Start, lists
    <2> QED
      BY <1>1, <1>3, <2>1, <2>2
  <1>7. CASE GCStep
    <2>1. UNCHANGED <<task, pause>>
      BY <1>7 DEF GCStep, BeginSession, FreeMallocedBuffers, JoinAlloc, StartSweepAtoms, StartSweepTasks,
         JoinSweepTasks, Join, StartBackgroundSweep, WaitBackgroundSweepEnd, EndSession, Sleep
    <2>2. UNCHANGED work \/ (\E r : work' = [work EXCEPT !["gcparallel"] = r]) \/ \E r : work' = [work EXCEPT !["gchelper"] = r]
      BY <1>7 DEF GCStep, BeginSession, FreeMallocedBuffers, JoinAlloc, StartSweepAtoms, StartSweepTasks,
         JoinSweepTasks, Join, StartBackgroundSweep, WaitBackgroundSweepEnd, EndSession, Sleep, Start, lists
    <2> QED
      BY <1>1, <1>3, <2>1, <2>2
  <1>8. CASE ShutdownStep
    BY <1>8 DEF ShutdownStep, Shutdown, EndShutdown, DestroyHelper, lists
  <1> QED
    BY <1>4, <1>5, <1>6, <1>7, <1>8

\* Only a step of a cancellation strands compilations.
LEMMA CancelStrands ==
  ASSUME HInv, HInv', [Next]_vars, PausedHasSuccessor, ~PausedHasSuccessor'
  PROVE  op'[Main] \in {"cancel", "cancelAll"}
  <1> SUFFICES ASSUME op'[Main] \notin {"cancel", "cancelAll"}
               PROVE  FALSE
    OBVIOUS
  <1>1. Stranded => work["ion"] # <<>>
    BY SuccessorIs
  <1>2. Stranded' /\ work'["ion"] = <<>>
    <2>1. \A b \in Builders : b # None /\ KindOf(b) = "ion"
      <3>1. \A b \in TasksOf("ion") : b # None /\ KindOf(b) = "ion"
        BY DEF TasksOf
      <3> QED
        BY <3>1, KindsOfTasks
    <2>2. /\ \E h \in Helpers : pause'[h]
          /\ \A h \in Helpers : task'[h] # None /\ KindOf(task'[h]) = "ion" => pause'[h]
          /\ work'["ion"] = <<>>
      BY DEF PausedHasSuccessor, Unpaused, On, Now
    <2> QED
      BY <2>1, <2>2 DEF Stranded, AllPaused
  <1>3. ASSUME NEW h \in Helpers, HelperStep(h)
        PROVE  FALSE
    BY <1>1, <1>2, <1>3, HelpersStrand
  <1>4. CASE (\E c \in Clients : ClientStep(c)) \/ IonStep \/ ParseStep \/ GCStep \/ ShutdownStep
    <2>1. UNCHANGED <<task, pause>> /\ (work["ion"] # <<>> => work'["ion"] # <<>>)
      BY <1>4, OthersStrand
    <2> QED
      BY <1>1, <1>2, <2>1 DEF Stranded, AllPaused
  <1>5. CASE UNCHANGED vars
    BY <1>1, <1>2, <1>5 DEF vars, lists, Stranded, AllPaused
  <1> QED
    BY <1>3, <1>4, <1>5 DEF Next

-----------------------------------------------------------------------------
(* The theorems.                                                             *)

\* Every variable of the pool has its type: in particular the functions that
\* failed are never more than there are tasks.
THEOREM TypesAreKept == Spec => []TypeOK
  BY InvariantHolds, TypesFollow, PTL

\* A task is on one work list once, held by one helper or on one finished list,
\* however the helpers, the clients and the cancellations interleave.
THEOREM EachTaskIsAlwaysInOnePlace == Spec => []EachTaskInOnePlace
  BY InvariantHolds, PlacesFollow, PTL

\* The pause flag is only ever set on a helper that compiles with Ion, and is
\* gone when that helper takes another task (handleIonWorkload).
THEOREM OnlyIonIsEverPaused == Spec => []OnlyIonIsPaused
  BY InvariantHolds, PausesFollow, PTL

\* No function of a module is lost or counted twice, also when it fails or the
\* generator gives up: the assertions of ~ModuleGenerator and startFuncDefs.
THEOREM ModuleIsAlwaysAccountedFor == Spec => []ModuleIsAccountedFor
  <1>1. HInv => ModuleIsAccountedFor
    BY DEF HInv, ModuleInv
  <1> QED
    BY <1>1, InvariantHolds, PTL

\* No parse is active while the atoms zone is collected: neither does a parse
\* begin then, nor a collection while one is active.
THEOREM ParsesAlwaysAvoidAtomsGC == Spec => []ParsesAvoidAtomsGC
  <1>1. HInv => ParsesAvoidAtomsGC
    BY DEF HInv
  <1> QED
    BY <1>1, InvariantHolds, PTL

\* When a cancellation of Ion compilations returns, none of those it matches is
\* waiting, running or finished (CancelOffThreadIonCompile).
THEOREM CancelAlwaysLeavesNothing == Spec => CancelLeavesNothing
  <1>1. HInv /\ [Next]_vars => [op[Main] \in {"cancel", "cancelAll"} /\ op[Main]' # op[Main] =>
                                   \A b \in cancel : Unused("ion", b)']_vars
    BY CancelEnds
  <1> QED
    BY <1>1, InvariantHolds, PTL DEF Spec, CancelLeavesNothing

\* While the heap is free and a task may start, not all helpers sleep: a wakeup
\* that a helper uses up for other work is made good by that helper, which looks
\* at the lists again, and one that a parse uses up when the session ends.
THEOREM WorkIsAlwaysNoticed == Spec => []WorkIsNoticed
  BY InvariantHolds, NoticeHolds, NoticeFollows, PTL

\* Compilations are paused while another one runs or waits, whose end unpauses
\* them, unless a cancellation takes that one away (handleIonWorkload).
THEOREM OnlyCancelEverStrandsPaused == Spec => OnlyCancelStrandsPaused
  <1>1. HInv /\ HInv' /\ [Next]_vars =>
            [PausedHasSuccessor => PausedHasSuccessor' \/ op[Main]' \in {"cancel", "cancelAll"}]_vars
    BY CancelStrands
  <1> QED
    BY <1>1, InvariantHolds, PTL DEF Spec, OnlyCancelStrandsPaused
=============================================================================
