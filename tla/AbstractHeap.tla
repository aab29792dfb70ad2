---------------------------- MODULE AbstractHeap ----------------------------
(***************************************************************************)
(* What the garbage-collected heap promises the program and the embedding:  *)
(* the program sees a graph of cells that only it changes; cells disappear  *)
(* only when nothing live leads to them, and a weak reference is cleared    *)
(* before the cell it names disappears and only when that cell is dead.     *)
(* No collector state appears here.                                         *)
(***************************************************************************)
EXTENDS HeapGraph

VARIABLES
  allocated,   \* the cells that exist
  refs,        \* refs[c]: the cells that c points to
  roots,       \* what the running program holds (stack and persistent roots)
  grayRoots,   \* what the embedding's cycle-collected objects hold
  weak         \* the cells some weak reference names

heapVars == <<allocated, refs, roots, grayRoots, weak>>

Live == Closure(roots \cup grayRoots, refs)

HeapInit ==
  /\ allocated \in SUBSET Cells
  /\ refs \in [Cells -> SUBSET Cells]
  /\ roots \in SUBSET allocated
  /\ grayRoots \in SUBSET allocated
  /\ weak \in SUBSET allocated
  /\ \A c \in Cells : refs[c] \subseteq allocated

\* The program or the embedding takes one step: it can name only cells it
\* holds, reads from cells it holds, or reads through a weak reference.
NewCell ==
  \E c \in Cells \ allocated :
    /\ allocated' = allocated \cup {c}
    /\ refs' = [refs EXCEPT ![c] = {}]
    /\ roots' = roots \cup {c}
    /\ UNCHANGED <<grayRoots, weak>>

Store ==
  \E c \in roots, S \in SUBSET Cells :
    /\ S \subseteq refs[c] \cup roots
    /\ refs' = [refs EXCEPT ![c] = S]
    /\ UNCHANGED <<allocated, roots, grayRoots, weak>>

Hold ==
  \E S \in SUBSET (roots \cup grayRoots \cup weak
                     \cup UNION {refs[c] : c \in roots}) :
    /\ roots' = S
    /\ UNCHANGED <<allocated, refs, grayRoots, weak>>

HoldOutside ==
  \E S \in SUBSET (grayRoots \cup roots), W \in SUBSET (weak \cup roots) :
    /\ grayRoots' = S
    /\ weak' = W
    /\ UNCHANGED <<allocated, refs, roots>>

\* The collector takes one step: some dead cells are freed and some dead cells
\* lose their weak references, in that order for each cell.
Reclaim ==
  /\ allocated' \subseteq allocated
  /\ (allocated \ allocated') \cap Live = {}
  /\ weak' \subseteq weak
  /\ (weak \ weak') \cap Live = {}
  /\ weak' \subseteq allocated'
  /\ refs' = [c \in Cells |-> IF c \in allocated \ allocated' THEN {} ELSE refs[c]]
  /\ UNCHANGED <<roots, grayRoots>>

HeapNext == NewCell \/ Store \/ Hold \/ HoldOutside \/ Reclaim

HeapSpec == HeapInit /\ [][HeapNext]_heapVars
=============================================================================
