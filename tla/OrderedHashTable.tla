-------------------------- MODULE OrderedHashTable --------------------------
(* js::detail::OrderedHashTable (ds/OrderedHashTable.h), the table of every *)
(* Map and Set, with the ranges that Map and Set iterators keep in it while *)
(* script changes it.  Values are left out, and a chain is the set of its   *)
(* positions: no code depends on the order in a chain.  Positions count     *)
(* from 1.  A call that runs out of memory and changes nothing is no step.  *)
EXTENDS Naturals, Sequences, FiniteSets, FiniteSetsExt

CONSTANTS
    Keys,
    Hashes, HashOf,     \* a power of two, and each key's hash below it
    initialBuckets,     \* 2 in the code; 1 makes the same things happen sooner
    Iterators,          \* names for iterator objects, used again
    Empty, NoRange, Done

ASSUME HashAssumption ==
    /\ Hashes \in Nat \ {0} /\ HashOf \in [Keys -> 0..(Hashes - 1)]
    /\ initialBuckets \in Nat \ {0}
\* a magic value is no key, and no range no range
ASSUME MarksAreApart ==
    /\ Empty \notin Keys
    /\ NoRange \notin [i: Nat, count: Nat] /\ NoRange \notin Seq(Keys)

VARIABLES
    data,           \* the data vector: keys, and Empty where one was removed
    hashTable,      \* per bucket: the positions on its chain
    liveCount,      \* what count() returns
    ranges,         \* per iterator: NoRange or [i, count]
    result          \* what the latest call of next returned

tableVars == <<data, hashTable, liveCount, ranges, result>>

hashBuckets == Cardinality(DOMAIN hashTable)
\* fillFactor is 8/3
Capacity(buckets) == (8 * buckets) \div 3
\* the topmost bits of the hash
BucketOf(k, buckets) == (HashOf[k] * buckets) \div Hashes
Lookup(k) == {j \in hashTable[BucketOf(k, hashBuckets)] : data[j] = k}

-----------------------------------------------------------------------------
(* What the table does to the ranges.                                        *)

seek(i, d) == Min({j \in i..(Len(d) + 1) : j > Len(d) \/ d[j] # Empty})

LeftOf(r, j) == IF j < r.i THEN r.count - 1 ELSE r.count

\* the entry at j has been removed from d
onRemove(r, j, d) ==
    [i |-> IF j = r.i THEN seek(r.i, d) ELSE r.i, count |-> LeftOf(r, j)]

\* mutant: the range is left where it is
StaysPut(r) == r
onCompact(r) == [r EXCEPT !.i = r.count + 1]

onClear(r) == [i |-> 1, count |-> 0]

Update(rs, Change(_)) ==
    [it \in Iterators |-> IF rs[it] = NoRange THEN NoRange ELSE Change(rs[it])]

-----------------------------------------------------------------------------
(* Growing, shrinking and compacting.                                        *)

Live(d) ==
    LET kept[n \in 0..Len(d)] ==
            IF n = 0 THEN <<>>
            ELSE IF d[n] = Empty THEN kept[n - 1] ELSE Append(kept[n - 1], d[n])
    IN  kept[Len(d)]

\* mutant: entries are hashed with the old number of buckets
OldChains(d, buckets) ==
    [b \in 0..(buckets - 1) |->
        {j \in DOMAIN d : BucketOf(d[j], hashBuckets) = b}]
Chains(d, buckets) ==
    [b \in 0..(buckets - 1) |-> {j \in DOMAIN d : BucketOf(d[j], buckets) = b}]

\* the table after a rehash of d, with the keys of more added to it
Rehash(d, buckets, rs, more) ==
    /\ data' = Live(d) \o more
    /\ hashTable' = Chains(Live(d) \o more, buckets)
    /\ ranges' = Update(rs, onCompact)

\* at least three quarters live
IsLoaded == 4 * liveCount >= 3 * Capacity(hashBuckets)

\* a new key; one that is there has its value replaced
Put(k) ==
    /\ Lookup(k) = {}
    /\ liveCount' = liveCount + 1
    /\ \/ /\ Len(data) < Capacity(hashBuckets)
          /\ data' = Append(data, k)
          /\ hashTable' = [hashTable EXCEPT ![BucketOf(k, hashBuckets)] =
                                @ \cup {Len(data) + 1}]
          /\ UNCHANGED ranges
       \/ /\ Len(data) = Capacity(hashBuckets)
          /\ Rehash(data, IF IsLoaded THEN 2 * hashBuckets ELSE hashBuckets,
                    ranges, <<k>>)
    /\ UNCHANGED result

\* less than a quarter of the entries live
MayShrink(live) == hashBuckets > initialBuckets /\ 4 * live < Len(data)

\* mutant: the count is lowered last, after a return for lack of memory
LowerLast(shrunk) == IF MayShrink(liveCount - 1) /\ ~shrunk THEN liveCount
                     ELSE liveCount - 1
Lower(shrunk) == liveCount - 1

\* the entry is removed also when there is no memory for a smaller table
Remove(k) == \E j \in Lookup(k), shrunk \in BOOLEAN :
    LET emptied == [data EXCEPT ![j] = Empty]
        updated == Update(ranges, LAMBDA r : onRemove(r, j, emptied))
    IN  /\ liveCount' = Lower(shrunk)
        /\ \/ /\ shrunk /\ MayShrink(liveCount - 1)
              /\ Rehash(emptied, hashBuckets \div 2, updated, <<>>)
           \/ /\ ~shrunk
              /\ data' = emptied /\ ranges' = updated
              /\ UNCHANGED hashTable
        /\ UNCHANGED result

Clear ==
    /\ data # <<>>
    /\ data' = <<>> /\ liveCount' = 0
    /\ hashTable' = [b \in 0..(initialBuckets - 1) |-> {}]
    /\ ranges' = Update(ranges, onClear)
    /\ UNCHANGED result

\* rekeyFront and rekeyOneEntry: the collector has moved the object k, and the
\* entry goes from one chain to another; new is no key of the table
Rekey(k, new) == \E j \in Lookup(k) :
    /\ \A p \in DOMAIN data : data[p] # new
    /\ data' = [data EXCEPT ![j] = new]
    /\ hashTable' =
        [b \in DOMAIN hashTable |->
            (hashTable[b] \ {j}) \cup
                IF b = BucketOf(new, hashBuckets) THEN {j} ELSE {}]
    /\ UNCHANGED <<liveCount, ranges, result>>

-----------------------------------------------------------------------------
(* Map and Set iterators: MapIteratorObject and SetIteratorObject.           *)

Open(it) ==
    /\ ranges[it] = NoRange
    /\ ranges' = [ranges EXCEPT ![it] = [i |-> seek(1, data), count |-> 0]]
    /\ UNCHANGED <<data, hashTable, liveCount, result>>

\* a range that is empty is deleted, and the iterator is done for good
Next(it) ==
    /\ ranges[it] # NoRange
    /\ LET r == ranges[it]
       IN  IF r.i > Len(data)
           THEN /\ result' = Done
                /\ ranges' = [ranges EXCEPT ![it] = NoRange]
           ELSE /\ result' = data[r.i]
                /\ ranges' = [ranges EXCEPT ![it] =
                        [i |-> seek(r.i + 1, data), count |-> r.count + 1]]
    /\ UNCHANGED <<data, hashTable, liveCount>>

\* the iterator object is finalized, and its range unlinked
Finalize(it) ==
    /\ ranges[it] # NoRange
    /\ ranges' = [ranges EXCEPT ![it] = NoRange]
    /\ UNCHANGED <<data, hashTable, liveCount, result>>

TableInit ==
    /\ data = <<>>
    /\ hashTable = [b \in 0..(initialBuckets - 1) |-> {}]
    /\ liveCount = 0
    /\ ranges = [it \in Iterators |-> NoRange]
    /\ result = Done

TableNext ==
    \/ Clear
    \/ \E k \in Keys : Put(k) \/ Remove(k) \/ \E new \in Keys : Rekey(k, new)
    \/ \E it \in Iterators : Open(it) \/ Next(it) \/ Finalize(it)

TableSpec == TableInit /\ [][TableNext]_tableVars

-----------------------------------------------------------------------------
(* Properties.                                                               *)

\* The counts are exact after any failure: that of the table, which has room
\* for each entry, and that of each range, which stands on an entry or at the
\* end and has so many entries to its left: compacting places it by that.
CountsAreExact ==
    /\ liveCount = Len(Live(data))
    /\ Len(data) <= Capacity(hashBuckets)
    /\ \A it \in Iterators : ranges[it] # NoRange =>
        LET r == ranges[it]
        IN  /\ r.i = seek(r.i, data)
            /\ r.count = Len(Live(SubSeq(data, 1, r.i - 1)))

\* Lookup finds each key of the table at its only place, through growing,
\* shrinking, compacting and the moving of keys.
KeysAreFound ==
    \A j \in DOMAIN data : data[j] # Empty => Lookup(data[j]) = {j}

\* what each iterator has yet to yield
rests == [it \in Iterators |->
            IF ranges[it] = NoRange THEN NoRange
            ELSE Live(SubSeq(data, ranges[it].i, Len(data)))]
Table == INSTANCE AbstractTable
            WITH entries <- Live(data), rest <- rests, Closed <- NoRange

\* The keys are kept in the order of insertion, and however the table is
\* changed and reorganized, an iterator yields each key that is there when
\* its turn comes, once, and then is done.
ActsAsOrderedSet == Table!ASpec
=============================================================================
