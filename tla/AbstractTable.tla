--------------------------- MODULE AbstractTable ---------------------------
(* What a Map or a Set promises of its keys and its iterators: keys come in *)
(* the order in which they were added, and an iterator yields each key that *)
(* is there when its turn comes, once, those added meanwhile included.      *)
EXTENDS Naturals, Sequences

CONSTANTS Keys, Iterators, Closed, Done

VARIABLES
    entries,    \* the keys, in order
    rest,       \* per iterator: the keys it has yet to yield, or Closed
    result      \* what the latest call of next returned

Holds(k) == \E j \in DOMAIN entries : entries[j] = k
Without(s, k) ==
    LET kept[n \in 0..Len(s)] ==
            IF n = 0 THEN <<>>
            ELSE IF s[n] = k THEN kept[n - 1] ELSE Append(kept[n - 1], s[n])
    IN  kept[Len(s)]
Replace(s, k, new) == [j \in DOMAIN s |-> IF s[j] = k THEN new ELSE s[j]]

\* what happens to the table happens to what each open iterator has left
InAll(Change(_)) ==
    /\ entries' = Change(entries)
    /\ rest' = [it \in Iterators |->
                    IF rest[it] = Closed THEN Closed ELSE Change(rest[it])]
    /\ UNCHANGED result

APut(k) == ~Holds(k) /\ InAll(LAMBDA s : Append(s, k))
ARemove(k) == Holds(k) /\ InAll(LAMBDA s : Without(s, k))
AClear == InAll(LAMBDA s : <<>>)
\* the collector moves the object that is a key
ARekey(k, new) == Holds(k) /\ ~Holds(new) /\ InAll(LAMBDA s : Replace(s, k, new))

AOpen(it) ==
    /\ rest[it] = Closed
    /\ rest' = [rest EXCEPT ![it] = entries]
    /\ UNCHANGED <<entries, result>>

ANext(it) ==
    /\ rest[it] # Closed
    /\ IF rest[it] = <<>>
       THEN rest' = [rest EXCEPT ![it] = Closed] /\ result' = Done
       ELSE rest' = [rest EXCEPT ![it] = Tail(@)] /\ result' = Head(rest[it])
    /\ UNCHANGED entries

ADrop(it) == rest' = [rest EXCEPT ![it] = Closed] /\ UNCHANGED <<entries, result>>

AInit == entries = <<>> /\ rest = [it \in Iterators |-> Closed] /\ result = Done
ANextStep ==
    \/ AClear
    \/ \E k \in Keys : APut(k) \/ ARemove(k) \/ \E new \in Keys : ARekey(k, new)
    \/ \E it \in Iterators : AOpen(it) \/ ANext(it) \/ ADrop(it)
ASpec == AInit /\ [][ANextStep]_<<entries, rest, result>>
=============================================================================
