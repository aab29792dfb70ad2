SPECIFICATION TableSpec
CONSTANTS
    k1 = k1  k2 = k2  k3 = k3
    Keys = {k1, k2, k3}
    Hashes = 2
    HashOf <- MCHashOf
    initialBuckets = 1
    Iterators = {it1, it2}
    Empty = Empty
    NoRange = NoRange
    Done = Done
INVARIANTS
    CountsAreExact
    KeysAreFound
PROPERTY ActsAsOrderedSet
