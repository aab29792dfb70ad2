--------------------------- MODULE PromisesProofs ---------------------------
(***************************************************************************)
(* Why a promise is settled once and never forgotten, why the embedding is   *)
(* told of just the rejections that nobody handles, why Promise.all waits    *)
(* for each of its elements, and why promises keep the contract of           *)
(* AbstractPromise: for any number of promises and calls.                    *)
(***************************************************************************)
EXTENDS Promises, InductionLemmas

-----------------------------------------------------------------------------
(* The inductive invariant is a property of the record of a state, so that   *)
(* it can be stated of the states between the functions an action composes.  *)

States == [promise: Seq(PromiseRecords), resolver: Seq(Resolvers),
           queue: Seq(ThenableJobs \cup ReactionJobs), stack: Seq(Frames),
           unhandled: SUBSET Nat, all: Gatherings \cup {None}, registered: Nat]

\* The promise of Promise.all, which only its own pair decides until nothing remains.
Gathers(s, p) == s.all # None /\ s.resolver[s.all.resolver].promise = p

\* Whom a `then' may be asked for: the promise of Promise.all is decided by
\* others than its closures only once it is resolved with the array.
MayGet(s, p) == Gathers(s, p) => s.all.remaining = 0

\* A pair of resolving functions that may be used with any value, or none.
Capable(s, c) ==
  c # None => c \in 1 .. Len(s.resolver) /\ (s.all # None => c # s.all.resolver)

GoodHandler(s, h) ==
  /\ h.fn \in {"identity", "thrower", "content"} => h.of = None
  /\ h.fn = "resolve" => h.of # None /\ Capable(s, h.of)
  /\ h.fn = "reject" => h.of \in 1 .. Len(s.resolver)
  /\ h.fn = "element" => s.all # None /\ h.of \in 1 .. Len(s.all.called)

GoodReaction(s, r) ==
  GoodHandler(s, r.onFulfilled) /\ GoodHandler(s, r.onRejected) /\ Capable(s, r.capability)

\* A reaction job tells what its promise is settled to.
GoodJob(s, j) ==
  /\ j.promise \in 1 .. Len(s.promise)
  /\ j.kind = "thenable" =>
       /\ j.thenable \notin Objects => j.thenable \in 1 .. Len(s.promise)
       /\ MayGet(s, j.promise)
  /\ j.kind = "reaction" =>
       /\ s.promise[j.promise].state = j.as /\ s.promise[j.promise].result = j.argument
       /\ GoodHandler(s, j.handler) /\ Capable(s, j.capability)

GoodFrame(s, i, f) ==
  /\ f.fn \in {"executor", "then", "race"} => Capable(s, f.resolver)
  /\ f.fn = "getThen" => f.promise \in 1 .. Len(s.promise) /\ MayGet(s, f.promise)
  /\ f.fn = "handler" => i = 1 /\ Capable(s, f.capability)

\* A promise is settled to what is no promise, and then has no reactions.
GoodPromise(s, p) ==
  /\ p.result \notin 1 .. MaxPromises
  /\ p.state # "pending" => p.result # None /\ p.reactions = <<>>
  /\ \A i \in 1 .. Len(p.reactions) : GoodReaction(s, p.reactions[i])

References(s) ==
  /\ Len(s.promise) <= MaxPromises
  /\ \A p \in 1 .. Len(s.promise) : GoodPromise(s, s.promise[p])
  /\ \A k \in 1 .. Len(s.resolver) : s.resolver[k].promise \in 1 .. Len(s.promise)
  /\ \A i \in 1 .. Len(s.queue) : GoodJob(s, s.queue[i])
  /\ \A i \in 1 .. Len(s.stack) : GoodFrame(s, i, s.stack[i])

Unhandled(s) ==
  s.unhandled = {p \in 1 .. Len(s.promise) :
                   s.promise[p].state = "rejected" /\ ~s.promise[p].handled}

\* Who can still settle p.
Pairs(s, p) == {k \in 1 .. Len(s.resolver) :
                  s.resolver[k].promise = p /\ ~s.resolver[k].alreadyResolved}
Asking(s, p) == {i \in 1 .. Len(s.queue) : s.queue[i].kind = "thenable" /\ s.queue[i].promise = p}
Getting(s, p) == {i \in 1 .. Len(s.stack) : s.stack[i].fn = "getThen" /\ s.stack[i].promise = p}

\* The promises of X are being handed from one party to the next.
OneParty(s, X) ==
  \A p \in 1 .. Len(s.promise) :
    /\ Cardinality(Pairs(s, p)) + Cardinality(Asking(s, p)) + Cardinality(Getting(s, p))
         = IF s.promise[p].state = "pending" /\ p \notin X THEN 1 ELSE 0
    /\ p \in X => s.promise[p].state = "pending"

\* What the closures of Promise.all count, and who they share their promise with.
Gathering(s) ==
  s.all # None =>
    LET k == s.all.resolver
        p == s.resolver[k].promise
    IN  /\ k \in 1 .. Len(s.resolver) /\ "resolve" \notin s.resolver[k].held
        /\ \A m \in 1 .. Len(s.resolver) : s.resolver[m].promise = p => m = k \/ s.all.remaining = 0
        /\ s.all.held \subseteq 1 .. Len(s.all.called)
        /\ s.all.remaining = Cardinality({i \in 1 .. Len(s.all.called) : ~s.all.called[i]})
                             + (IF s.all.done THEN 0 ELSE 1)
        /\ s.promise[p].state = "fulfilled" => s.all.remaining = 0
OneGathering(s) ==
  /\ \A i \in 1 .. Len(s.stack) : s.stack[i].fn = "all" =>
       s.all # None /\ s.stack[i].resolver = s.all.resolver /\ ~s.all.done
  /\ \A i, j \in 1 .. Len(s.stack) : s.stack[i].fn = "all" /\ s.stack[j].fn = "all" => i = j

\* When nothing remains, the promise of Promise.all has been decided.
Gathered(s) ==
  s.all # None /\ s.all.remaining = 0 => s.resolver[s.all.resolver].alreadyResolved

Sound(s, X) ==
  /\ s \in States /\ References(s) /\ Unhandled(s) /\ OneParty(s, X) /\ Gathering(s)
  /\ OneGathering(s)

\* The reaction job that runs, and the handlers of content that run for it.
GoodRun ==
  /\ job # Idle => job.kind = "reaction" /\ GoodJob(Now, job)
  /\ \A i \in 1 .. Len(stack) : stack[i].fn = "handler" => job # Idle /\ job.handler = Content

PInv == Sound(Now, {}) /\ Gathered(Now) /\ GoodRun
           /\ job \in ReactionJobs \cup {Idle} /\ steps \in Nat

-----------------------------------------------------------------------------
(* What the functions leave alone.                                           *)

\* t is a later state than s: what s refers to is still there, and settled as
\* it was.
SettledStay(s, t) ==
  /\ Len(s.promise) <= Len(t.promise)
  /\ \A p \in 1 .. Len(s.promise) : s.promise[p].state # "pending" =>
       t.promise[p].state = s.promise[p].state /\ t.promise[p].result = s.promise[p].result
PairsStay(s, t) ==
  /\ Len(s.resolver) <= Len(t.resolver)
  /\ \A k \in 1 .. Len(s.resolver) : t.resolver[k].promise = s.resolver[k].promise
GatheringStays(s, t) ==
  /\ s.all # None => /\ s.all.resolver \in 1 .. Len(s.resolver)
                     /\ t.all # None /\ t.all.resolver = s.all.resolver
                     /\ Len(s.all.called) <= Len(t.all.called)
                     /\ s.all.remaining = 0 => t.all.remaining = 0
  /\ s.all = None /\ t.all # None =>
       /\ t.all.resolver \in Len(s.resolver) + 1 .. Len(t.resolver)
       /\ t.resolver[t.all.resolver].promise > Len(s.promise)
Grows(s, t) == SettledStay(s, t) /\ PairsStay(s, t) /\ GatheringStays(s, t)

\* The parts of a state have their types.
LEMMA StateParts ==
  ASSUME NEW s \in States
  PROVE  /\ s.promise \in Seq(PromiseRecords) /\ s.resolver \in Seq(Resolvers)
         /\ s.queue \in Seq(ThenableJobs \cup ReactionJobs) /\ s.stack \in Seq(Frames)
         /\ s.unhandled \in SUBSET Nat /\ s.all \in Gatherings \cup {None} /\ s.registered \in Nat
  BY DEF States

\* The lengths of the lists.
LEMMA Lengths ==
  ASSUME NEW s \in States
  PROVE  /\ Len(s.promise) \in Nat /\ Len(s.resolver) \in Nat
         /\ Len(s.queue) \in Nat /\ Len(s.stack) \in Nat
  BY StateParts

\* What they hold.
LEMMA Members ==
  ASSUME NEW s \in States
  PROVE  /\ \A p \in 1 .. Len(s.promise) : s.promise[p] \in PromiseRecords
         /\ \A k \in 1 .. Len(s.resolver) : s.resolver[k] \in Resolvers
         /\ \A i \in 1 .. Len(s.queue) : s.queue[i] \in ThenableJobs \cup ReactionJobs
         /\ \A i \in 1 .. Len(s.stack) : s.stack[i] \in Frames
  BY StateParts

\* What the closures of Promise.all share.
LEMMA Shared ==
  ASSUME NEW s \in States, s.all # None
  PROVE  /\ s.all.resolver \in Nat /\ s.all.remaining \in Nat /\ s.all.called \in Seq(BOOLEAN)
         /\ s.all.held \in SUBSET Nat /\ s.all.done \in BOOLEAN /\ Len(s.all.called) \in Nat
  <1>1. s.all \in Gatherings
    BY StateParts
  <1> QED
    BY <1>1 DEF Gatherings

\* What has a `then' of content's is no promise and no error.
LEMMA ObjectsAre ==
  /\ Objects \subseteq Values /\ AllValues \in Objects /\ Object \in Objects
  /\ Nat \cap Objects = {} /\ Objects \cap 1 .. MaxPromises = {}
  /\ Objects \cap {Plain, Thrown, SelfError, None} = {}
  BY ValuesAreApart DEF Objects, Values

\* Every state is as late as itself.
LEMMA GrowsFromStart ==
  ASSUME NEW s \in States, s.all # None => s.all.resolver \in 1 .. Len(s.resolver)
  PROVE  Grows(s, s)
  <1>1. /\ Len(s.promise) \in Nat /\ Len(s.resolver) \in Nat
        /\ s.all # None => Len(s.all.called) \in Nat
    BY Lengths, Shared
  <1> QED
    BY <1>1 DEF Grows, SettledStay, PairsStay, GatheringStays

\* Later is transitive.
LEMMA GrowsOn ==
  ASSUME NEW s \in States, NEW t \in States, NEW u \in States, Grows(s, t), Grows(t, u)
  PROVE  Grows(s, u)
  <1>1. /\ Len(s.promise) \in Nat /\ Len(t.promise) \in Nat /\ Len(u.promise) \in Nat
        /\ Len(s.resolver) \in Nat /\ Len(t.resolver) \in Nat /\ Len(u.resolver) \in Nat
    BY Lengths
  <1>2. /\ s.all # None => Len(s.all.called) \in Nat
        /\ t.all # None => Len(t.all.called) \in Nat
        /\ u.all # None => Len(u.all.called) \in Nat
    BY Shared
  <1>3. /\ SettledStay(s, t) /\ SettledStay(t, u) /\ PairsStay(s, t) /\ PairsStay(t, u)
        /\ GatheringStays(s, t) /\ GatheringStays(t, u)
    BY DEF Grows
  <1>4. SettledStay(s, u)
    BY <1>1, <1>3, SMTT(40) DEF SettledStay
  <1>5. PairsStay(s, u)
    BY <1>1, <1>3, SMTT(40) DEF PairsStay
  <1>6. GatheringStays(s, u)
    <2>1. s.all # None => /\ s.all.resolver \in 1 .. Len(s.resolver)
                          /\ u.all # None /\ u.all.resolver = s.all.resolver
                          /\ Len(s.all.called) <= Len(u.all.called)
                          /\ s.all.remaining = 0 => u.all.remaining = 0
      BY <1>2, <1>3 DEF GatheringStays
    <2>2. ASSUME s.all = None, u.all # None, t.all = None
          PROVE  /\ u.all.resolver \in Len(s.resolver) + 1 .. Len(u.resolver)
                 /\ u.resolver[u.all.resolver].promise > Len(s.promise)
      <3>1. /\ u.all.resolver \in Len(t.resolver) + 1 .. Len(u.resolver)
            /\ u.resolver[u.all.resolver].promise > Len(t.promise)
        BY <1>3, <2>2 DEF GatheringStays
      <3>2. u.resolver[u.all.resolver].promise \in Nat
        <4>1. u.all.resolver \in 1 .. Len(u.resolver)
          BY <1>1, <3>1
        <4>2. u.resolver[u.all.resolver] \in Resolvers
          BY <4>1, Members
        <4> QED
          BY <4>2 DEF Resolvers
      <3>3. Len(s.resolver) <= Len(t.resolver) /\ Len(s.promise) <= Len(t.promise)
        BY <1>3 DEF SettledStay, PairsStay
      <3>4. u.all.resolver \in Len(s.resolver) + 1 .. Len(u.resolver)
        BY <1>1, <3>1, <3>3
      <3>5. u.resolver[u.all.resolver].promise > Len(s.promise)
        BY <1>1, <3>1, <3>2, <3>3, SMTT(40)
      <3> QED
        BY <3>4, <3>5
    <2>3. ASSUME s.all = None, u.all # None, t.all # None
          PROVE  /\ u.all.resolver \in Len(s.resolver) + 1 .. Len(u.resolver)
                 /\ u.resolver[u.all.resolver].promise > Len(s.promise)
      <3>1. /\ t.all.resolver \in Len(s.resolver) + 1 .. Len(t.resolver)
            /\ t.resolver[t.all.resolver].promise > Len(s.promise)
            /\ u.all.resolver = t.all.resolver
        BY <1>3, <2>3 DEF GatheringStays
      <3>2. t.all.resolver \in 1 .. Len(t.resolver) /\ Len(t.resolver) <= Len(u.resolver)
        BY <1>1, <1>3, <3>1 DEF PairsStay
      <3>3. u.resolver[t.all.resolver].promise = t.resolver[t.all.resolver].promise
        BY <1>3, <3>2 DEF PairsStay
      <3> QED
        BY <1>1, <3>1, <3>2, <3>3
    <2> QED
      BY <2>1, <2>2, <2>3 DEF GatheringStays
  <1> QED
    BY <1>4, <1>5, <1>6 DEF Grows

\* What was good is good later on.
LEMMA GoodLater ==
  ASSUME NEW s \in States, NEW t \in States, Grows(s, t)
  PROVE  /\ \A c \in Capabilities : Capable(s, c) => Capable(t, c)
         /\ \A h \in Handlers : GoodHandler(s, h) => GoodHandler(t, h)
         /\ \A r \in Reactions : GoodReaction(s, r) => GoodReaction(t, r)
         /\ \A j \in ThenableJobs \cup ReactionJobs : GoodJob(s, j) => GoodJob(t, j)
         /\ \A i \in Nat, f \in Frames : GoodFrame(s, i, f) => GoodFrame(t, i, f)
  <1>0. /\ Len(s.promise) \in Nat /\ Len(t.promise) \in Nat
        /\ Len(s.resolver) \in Nat /\ Len(t.resolver) \in Nat
        /\ SettledStay(s, t) /\ PairsStay(s, t) /\ GatheringStays(s, t)
        /\ Len(s.promise) <= Len(t.promise) /\ Len(s.resolver) <= Len(t.resolver)
    BY Lengths DEF Grows, SettledStay, PairsStay
  <1>1. ASSUME NEW c \in Capabilities, Capable(s, c)
        PROVE  Capable(t, c)
    <2>1. CASE c = None
      BY <2>1 DEF Capable
    <2>2. CASE c # None
      <3>1. c \in 1 .. Len(s.resolver) /\ (s.all # None => c # s.all.resolver)
        BY <1>1, <2>2 DEF Capable
      <3>2. t.all # None => c # t.all.resolver
        BY <1>0, <3>1 DEF GatheringStays
      <3>3. c \in 1 .. Len(t.resolver)
        BY <1>0, <3>1
      <3> QED
        BY <3>2, <3>3 DEF Capable
    <2> QED
      BY <2>1, <2>2
  <1>2. ASSUME NEW h \in Handlers, GoodHandler(s, h)
        PROVE  GoodHandler(t, h)
    <2>1. h.of \in Capabilities
      BY DEF Handlers, Capabilities
    <2>2. h.fn = "reject" => h.of \in 1 .. Len(t.resolver)
      BY <1>0, <1>2 DEF GoodHandler
    <2>3. h.fn = "element" => t.all # None /\ h.of \in 1 .. Len(t.all.called)
      <3>1. ASSUME h.fn = "element"
            PROVE  s.all # None /\ t.all # None /\ h.of \in 1 .. Len(s.all.called)
                   /\ Len(s.all.called) <= Len(t.all.called)
        BY <1>0, <1>2, <3>1 DEF GoodHandler, GatheringStays
      <3>2. s.all # None /\ t.all # None => Len(s.all.called) \in Nat /\ Len(t.all.called) \in Nat
        BY Shared
      <3> QED
        BY <3>1, <3>2
    <2> QED
      BY <1>1, <1>2, <2>1, <2>2, <2>3 DEF GoodHandler
  <1>3. ASSUME NEW r \in Reactions, GoodReaction(s, r)
        PROVE  GoodReaction(t, r)
    <2>1. r.onFulfilled \in Handlers /\ r.onRejected \in Handlers /\ r.capability \in Capabilities
      BY DEF Reactions
    <2> QED
      BY <1>1, <1>2, <1>3, <2>1 DEF GoodReaction
  <1>4. ASSUME NEW p \in 1 .. Len(s.promise), MayGet(s, p)
        PROVE  MayGet(t, p)
    <2>1. CASE s.all = None
      BY <1>0, <2>1 DEF GatheringStays, MayGet, Gathers
    <2>2. CASE s.all # None
      <3>1. /\ s.all.resolver \in 1 .. Len(s.resolver) /\ t.all # None
            /\ t.all.resolver = s.all.resolver
            /\ s.all.remaining = 0 => t.all.remaining = 0
        BY <1>0, <2>2 DEF GatheringStays
      <3>2. t.resolver[s.all.resolver].promise = s.resolver[s.all.resolver].promise
        BY <1>0, <3>1 DEF PairsStay
      <3>3. Gathers(t, p) => Gathers(s, p)
        BY <2>2, <3>1, <3>2 DEF Gathers
      <3> QED
        BY <1>4, <3>1, <3>3 DEF MayGet
    <2> QED
      BY <2>1, <2>2
  <1>5. ASSUME NEW p \in 1 .. Len(s.promise)
        PROVE  p \in 1 .. Len(t.promise)
    BY <1>0
  <1>6. ASSUME NEW j \in ThenableJobs, GoodJob(s, j)
        PROVE  GoodJob(t, j)
    <2>1. j.kind = "thenable"
      BY DEF ThenableJobs
    <2>2. /\ j.promise \in 1 .. Len(s.promise) /\ MayGet(s, j.promise)
          /\ j.thenable \notin Objects => j.thenable \in 1 .. Len(s.promise)
      BY <1>6, <2>1 DEF GoodJob
    <2> QED
      BY <1>4, <1>5, <2>1, <2>2 DEF GoodJob
  <1>7. ASSUME NEW j \in ReactionJobs, GoodJob(s, j)
        PROVE  GoodJob(t, j)
    <2>1. /\ j.handler \in Handlers /\ j.capability \in Capabilities /\ j.kind = "reaction"
          /\ j.as # "pending"
      BY DEF ReactionJobs, Settled
    <2>2. /\ j.promise \in 1 .. Len(s.promise)
          /\ s.promise[j.promise].state = j.as /\ s.promise[j.promise].result = j.argument
          /\ GoodHandler(s, j.handler) /\ Capable(s, j.capability)
      BY <1>7, <2>1 DEF GoodJob
    <2>3. t.promise[j.promise].state = j.as /\ t.promise[j.promise].result = j.argument
      BY <1>0, <2>1, <2>2 DEF SettledStay
    <2> QED
      BY <1>1, <1>2, <1>5, <2>1, <2>2, <2>3 DEF GoodJob
  <1>8. ASSUME NEW i \in Nat, NEW f \in Frames, GoodFrame(s, i, f)
        PROVE  GoodFrame(t, i, f)
    <2>1. /\ f.fn \in {"executor", "then", "race"} => f.resolver \in Capabilities
          /\ f.fn = "handler" => f.capability \in Capabilities
      BY DEF Frames, Capabilities
    <2>2. f.fn \in {"executor", "then", "race"} => Capable(t, f.resolver)
      BY <1>1, <1>8, <2>1 DEF GoodFrame
    <2>3. f.fn = "handler" => i = 1 /\ Capable(t, f.capability)
      BY <1>1, <1>8, <2>1 DEF GoodFrame
    <2>4. f.fn = "getThen" => f.promise \in 1 .. Len(t.promise) /\ MayGet(t, f.promise)
      BY <1>4, <1>5, <1>8 DEF GoodFrame
    <2> QED
      BY <2>2, <2>3, <2>4 DEF GoodFrame
  <1> QED
    BY <1>1, <1>2, <1>3, <1>6, <1>7, <1>8

\* References stay good if what is new is good, and nothing else has changed but
\* whether a promise is handled.
LEMMA ReferencesLater ==
  ASSUME NEW s \in States, NEW t \in States, References(s), Grows(s, t),
         Len(t.promise) <= MaxPromises,
         \A p \in 1 .. Len(t.promise) :
           \/ GoodPromise(t, t.promise[p])
           \/ /\ p \in 1 .. Len(s.promise) /\ t.promise[p].state = s.promise[p].state
              /\ t.promise[p].result = s.promise[p].result
              /\ t.promise[p].reactions = s.promise[p].reactions,
         \A k \in 1 .. Len(t.resolver) :
           t.resolver[k].promise \in 1 .. Len(t.promise) \/ k \in 1 .. Len(s.resolver),
         \A i \in 1 .. Len(t.queue) :
           GoodJob(t, t.queue[i]) \/ \E m \in 1 .. Len(s.queue) : t.queue[i] = s.queue[m],
         \A i \in 1 .. Len(t.stack) :
           GoodFrame(t, i, t.stack[i]) \/ (i \in 1 .. Len(s.stack) /\ t.stack[i] = s.stack[i])
  PROVE  References(t)
  <1>1. \A p \in 1 .. Len(t.promise) : GoodPromise(t, t.promise[p])
    <2>1. ASSUME NEW p \in 1 .. Len(s.promise), p \in 1 .. Len(t.promise),
                 t.promise[p].state = s.promise[p].state, t.promise[p].result = s.promise[p].result,
                 t.promise[p].reactions = s.promise[p].reactions
          PROVE  GoodPromise(t, t.promise[p])
      <3>1. GoodPromise(s, s.promise[p])
        BY DEF References
      <3>2. s.promise[p].reactions \in Seq(Reactions)
        BY Members DEF PromiseRecords
      <3>3. \A i \in 1 .. Len(s.promise[p].reactions) : GoodReaction(t, s.promise[p].reactions[i])
        BY <3>1, <3>2, GoodLater DEF GoodPromise
      <3> QED
        BY <2>1, <3>1, <3>3 DEF GoodPromise
    <2> QED
      BY <2>1
  <1>2. \A k \in 1 .. Len(t.resolver) : t.resolver[k].promise \in 1 .. Len(t.promise)
    <2>1. ASSUME NEW k \in 1 .. Len(s.resolver)
          PROVE  t.resolver[k].promise \in 1 .. Len(t.promise)
      <3>1. s.resolver[k].promise \in 1 .. Len(s.promise)
        BY DEF References
      <3>2. t.resolver[k].promise = s.resolver[k].promise /\ Len(s.promise) <= Len(t.promise)
        BY DEF Grows, PairsStay, SettledStay
      <3> QED
        BY <3>1, <3>2, Lengths
    <2> QED
      BY <2>1
  <1>3. \A i \in 1 .. Len(t.queue) : GoodJob(t, t.queue[i])
    <2>1. ASSUME NEW m \in 1 .. Len(s.queue)
          PROVE  GoodJob(t, s.queue[m])
      <3>1. GoodJob(s, s.queue[m]) /\ s.queue[m] \in ThenableJobs \cup ReactionJobs
        BY Members DEF References
      <3> QED
        BY <3>1, GoodLater
    <2> QED
      BY <2>1
  <1>4. \A i \in 1 .. Len(t.stack) : GoodFrame(t, i, t.stack[i])
    <2>1. ASSUME NEW i \in 1 .. Len(s.stack)
          PROVE  GoodFrame(t, i, s.stack[i])
      <3>1. GoodFrame(s, i, s.stack[i]) /\ s.stack[i] \in Frames /\ i \in Nat
        BY Members DEF References
      <3> QED
        BY <3>1, GoodLater
    <2> QED
      BY <2>1
  <1> QED
    BY <1>1, <1>2, <1>3, <1>4 DEF References

-----------------------------------------------------------------------------
(* Counting who can settle a promise.                                        *)

Parties(s, p) ==
  Cardinality(Pairs(s, p)) + Cardinality(Asking(s, p)) + Cardinality(Getting(s, p))

\* They are finitely many.
LEMMA PartiesAreFinite ==
  ASSUME NEW s \in States, NEW p
  PROVE  /\ IsFiniteSet(Pairs(s, p)) /\ Cardinality(Pairs(s, p)) \in Nat
         /\ IsFiniteSet(Asking(s, p)) /\ Cardinality(Asking(s, p)) \in Nat
         /\ IsFiniteSet(Getting(s, p)) /\ Cardinality(Getting(s, p)) \in Nat
  <1>0. Len(s.resolver) \in Int /\ Len(s.queue) \in Int /\ Len(s.stack) \in Int
    BY Lengths
  <1>1. /\ IsFiniteSet(1 .. Len(s.resolver)) /\ IsFiniteSet(1 .. Len(s.queue))
        /\ IsFiniteSet(1 .. Len(s.stack))
    BY <1>0, FS_Interval
  <1>2. IsFiniteSet(Pairs(s, p)) /\ IsFiniteSet(Asking(s, p)) /\ IsFiniteSet(Getting(s, p))
    <2>1. /\ Pairs(s, p) \in SUBSET (1 .. Len(s.resolver)) /\ Asking(s, p) \in SUBSET (1 .. Len(s.queue))
          /\ Getting(s, p) \in SUBSET (1 .. Len(s.stack))
      BY DEF Pairs, Asking, Getting
    <2> QED
      BY <1>1, <2>1, FS_Subset
  <1> QED
    BY <1>2, FS_CardinalityType

\* What a state promises of one of its promises.
LEMMA PartyCount ==
  ASSUME NEW s \in States, NEW X, OneParty(s, X), NEW p \in 1 .. Len(s.promise)
  PROVE  /\ Parties(s, p) = IF s.promise[p].state = "pending" /\ p \notin X THEN 1 ELSE 0
         /\ p \in X => s.promise[p].state = "pending"
  BY DEF OneParty, Parties

\* Whoever can settle a promise is the only one to.
LEMMA OnlyParty ==
  ASSUME NEW s \in States, NEW X, OneParty(s, X), NEW p \in 1 .. Len(s.promise),
         Pairs(s, p) # {} \/ Asking(s, p) # {} \/ Getting(s, p) # {}
  PROVE  s.promise[p].state = "pending" /\ p \notin X
  <1>1. Parties(s, p) # 0
    <2>1. /\ Pairs(s, p) # {} => Cardinality(Pairs(s, p)) # 0
          /\ Asking(s, p) # {} => Cardinality(Asking(s, p)) # 0
          /\ Getting(s, p) # {} => Cardinality(Getting(s, p)) # 0
      BY PartiesAreFinite, FS_EmptySet
    <2> QED
      BY <2>1, PartiesAreFinite DEF Parties
  <1> QED
    BY <1>1, PartyCount

\* Nobody can settle what is no promise.
LEMMA NoParty ==
  ASSUME NEW s, References(s), NEW p, p \notin 1 .. Len(s.promise)
  PROVE  Pairs(s, p) = {} /\ Asking(s, p) = {} /\ Getting(s, p) = {}
  <1>1. Pairs(s, p) = {}
    BY DEF Pairs, References
  <1>2. \A i \in 1 .. Len(s.queue) : s.queue[i].promise # p
    BY DEF References, GoodJob
  <1>3. \A i \in 1 .. Len(s.stack) : s.stack[i].fn = "getThen" => s.stack[i].promise # p
    BY DEF References, GoodFrame
  <1> QED
    BY <1>1, <1>2, <1>3 DEF Asking, Getting

-----------------------------------------------------------------------------
(* The functions, one by one.                                                *)

\* The invariants of a state that is sound, and how late it is: from the start.
LEMMA SoundParts ==
  ASSUME NEW s, NEW X, Sound(s, X)
  PROVE  /\ s \in States /\ References(s) /\ Unhandled(s) /\ OneParty(s, X)
         /\ Gathering(s) /\ OneGathering(s) /\ Grows(s, s)
  <1>1. s.all # None => s.all.resolver \in 1 .. Len(s.resolver)
    BY DEF Sound, Gathering
  <1> QED
    BY <1>1, GrowsFromStart DEF Sound

\* Later is transitive among sound states.
LEMMA SoundGrows ==
  ASSUME NEW s, NEW t, NEW u, NEW X, NEW Y, NEW Z, Sound(s, X), Sound(t, Y), Sound(u, Z),
         Grows(s, t), Grows(t, u)
  PROVE  Grows(s, u)
  <1>1. s \in States /\ t \in States /\ u \in States
    BY DEF Sound
  <1> QED
    BY <1>1, GrowsOn

\* A new promise is in nobody's hands yet.
LEMMA NewPromiseSound ==
  ASSUME NEW s, NEW X, Sound(s, X), Len(s.promise) < MaxPromises, NEW t, t = NewPromise(s)
  PROVE  /\ Sound(t, X \cup {Len(s.promise) + 1}) /\ Grows(s, t)
         /\ Len(t.promise) = Len(s.promise) + 1 /\ t.stack = s.stack /\ t.resolver = s.resolver
         /\ t.all = s.all
  <1> DEFINE r == [state |-> "pending", result |-> None, reactions |-> <<>>, handled |-> FALSE]
             n == Len(s.promise) + 1
             Y == X \cup {n}
  <1>1. /\ s \in States /\ References(s) /\ Unhandled(s) /\ OneParty(s, X)
        /\ Gathering(s) /\ OneGathering(s) /\ Grows(s, s)
    BY SoundParts
  <1>2. /\ t.promise = Append(s.promise, r) /\ t.resolver = s.resolver /\ t.queue = s.queue
        /\ t.stack = s.stack /\ t.unhandled = s.unhandled /\ t.all = s.all
    BY <1>1 DEF NewPromise, States
  <1>3. t \in States
    <2>1. r \in PromiseRecords
      BY DEF PromiseRecords
    <2>2. Append(s.promise, r) \in Seq(PromiseRecords)
      BY <1>1, <2>1, StateParts
    <2> QED
      BY <1>1, <2>2 DEF NewPromise, States
  <1>4. /\ Len(s.promise) \in Nat /\ Len(t.promise) = n /\ t.promise[n] = r
        /\ \A p \in 1 .. Len(s.promise) : t.promise[p] = s.promise[p]
    BY <1>1, <1>2, StateParts
  <1> HIDE DEF r, n
  <1>5. /\ n = Len(s.promise) + 1 /\ n \in Nat
        /\ r.state = "pending" /\ r.result = None /\ r.reactions = <<>> /\ r.handled = FALSE
    BY <1>4 DEF r, n
  <1>6. Grows(s, t)
    <2>1. SettledStay(s, t)
      BY <1>4, <1>5 DEF SettledStay
    <2>2. PairsStay(s, t) /\ GatheringStays(s, t)
      BY <1>1, <1>2 DEF Grows, PairsStay, GatheringStays
    <2> QED
      BY <2>1, <2>2 DEF Grows
  <1>7. References(t)
    <2>1. GoodPromise(t, r)
      BY <1>5, ValuesAreApart DEF GoodPromise
    <2>2. \A p \in 1 .. Len(t.promise) : p = n \/ p \in 1 .. Len(s.promise)
      BY <1>4, <1>5
    <2>3. Len(t.promise) <= MaxPromises
      BY <1>4, <1>5, ValuesAreApart
    <2> QED
      BY <1>1, <1>2, <1>3, <1>4, <1>6, <2>1, <2>2, <2>3, ReferencesLater
  <1>8. Unhandled(t)
    <2>1. s.unhandled = {p \in 1 .. Len(s.promise) :
                           s.promise[p].state = "rejected" /\ ~s.promise[p].handled}
      BY <1>1 DEF Unhandled
    <2>2. ASSUME NEW p
          PROVE  p \in s.unhandled <=>
                   p \in 1 .. n /\ t.promise[p].state = "rejected" /\ ~t.promise[p].handled
      BY <1>4, <1>5, <2>1
    <2> QED
      BY <1>2, <1>4, <2>2 DEF Unhandled
  <1>9. OneParty(t, Y)
    <2>1. \A p : Pairs(t, p) = Pairs(s, p) /\ Asking(t, p) = Asking(s, p) /\ Getting(t, p) = Getting(s, p)
      BY <1>2 DEF Pairs, Asking, Getting
    <2>2. n \notin 1 .. Len(s.promise)
      BY <1>4, <1>5
    <2>3. Pairs(t, n) = {} /\ Asking(t, n) = {} /\ Getting(t, n) = {}
      BY <1>1, <2>1, <2>2, NoParty
    <2>4. Cardinality(Pairs(t, n)) + Cardinality(Asking(t, n)) + Cardinality(Getting(t, n)) = 0
      BY <2>3, FS_EmptySet
    <2>5. ASSUME NEW p \in 1 .. Len(t.promise)
          PROVE  /\ Parties(t, p) = IF t.promise[p].state = "pending" /\ p \notin Y THEN 1 ELSE 0
                 /\ p \in Y => t.promise[p].state = "pending"
      <3>1. CASE p = n
        BY <1>4, <1>5, <2>4, <3>1 DEF Parties
      <3>2. CASE p # n
        <4>1. p \in 1 .. Len(s.promise) /\ t.promise[p] = s.promise[p] /\ (p \in Y <=> p \in X)
          BY <1>4, <1>5, <3>2, SMTT(40)
        <4>2. Parties(t, p) = Parties(s, p)
          BY <2>1 DEF Parties
        <4> QED
          BY <1>1, <4>1, <4>2, PartyCount
      <3> QED
        BY <3>1, <3>2
    <2> QED
      BY <2>5 DEF OneParty, Parties
  <1>10. Gathering(t)
    <2>1. s.all # None => s.resolver[s.all.resolver].promise \in 1 .. Len(s.promise)
      BY <1>1 DEF Gathering, References
    <2> QED
      BY <1>1, <1>2, <1>4, <2>1 DEF Gathering
  <1>11. OneGathering(t)
    BY <1>1, <1>2 DEF OneGathering
  <1> QED
    BY <1>2, <1>3, <1>4, <1>5, <1>6, <1>7, <1>8, <1>9, <1>10, <1>11 DEF Sound, n

\* What a new pair is, and what it leaves alone.
AddsPair(s, p, held, t) ==
  /\ Len(t.resolver) = Len(s.resolver) + 1 /\ Capable(t, Len(s.resolver) + 1)
  /\ t.resolver[Len(s.resolver) + 1].promise = p
  /\ t.resolver[Len(s.resolver) + 1].held = held
  /\ \A k \in 1 .. Len(s.resolver) : t.resolver[k] = s.resolver[k]
  /\ t.stack = s.stack /\ t.promise = s.promise /\ t.all = s.all

\* A new pair of resolving functions takes a promise in hand.
LEMMA NewResolverSound ==
  ASSUME NEW s, NEW X, Sound(s, X), NEW p \in 1 .. Len(s.promise), p \in X, MayGet(s, p),
         NEW held \in SUBSET {"resolve", "reject"}, NEW t, t = NewResolver(s, p, held)
  PROVE  /\ Sound(t, X \ {p}) /\ Grows(s, t)
         /\ AddsPair(s, p, held, t)
  <1> DEFINE r == [promise |-> p, alreadyResolved |-> FALSE, held |-> held]
             n == Len(s.resolver) + 1
             Y == X \ {p}
  <1>1. /\ s \in States /\ References(s) /\ Unhandled(s) /\ OneParty(s, X)
        /\ Gathering(s) /\ OneGathering(s) /\ Grows(s, s)
    BY SoundParts
  <1>2. /\ t.resolver = Append(s.resolver, r) /\ t.promise = s.promise /\ t.queue = s.queue
        /\ t.stack = s.stack /\ t.unhandled = s.unhandled /\ t.all = s.all
    BY <1>1 DEF NewResolver, States
  <1>3. t \in States
    <2>1. r \in Resolvers
      BY <1>1, Lengths DEF Resolvers
    <2>2. Append(s.resolver, r) \in Seq(Resolvers)
      BY <1>1, <2>1, StateParts
    <2> QED
      BY <1>1, <2>2 DEF NewResolver, States
  <1>4. /\ Len(s.resolver) \in Nat /\ Len(t.resolver) = n /\ t.resolver[n] = r
        /\ \A k \in 1 .. Len(s.resolver) : t.resolver[k] = s.resolver[k]
    BY <1>1, <1>2, StateParts
  <1> HIDE DEF r, n
  <1>5. /\ n = Len(s.resolver) + 1 /\ n \in Nat /\ n \notin 1 .. Len(s.resolver)
        /\ 1 .. n = 1 .. Len(s.resolver) \cup {n}
        /\ r.promise = p /\ r.alreadyResolved = FALSE /\ r.held = held
    BY <1>4 DEF r, n
  <1>6. Grows(s, t)
    <2>1. PairsStay(s, t)
      BY <1>4, <1>5 DEF PairsStay
    <2>2. SettledStay(s, t) /\ GatheringStays(s, t)
      BY <1>1, <1>2 DEF Grows, SettledStay, GatheringStays
    <2> QED
      BY <2>1, <2>2 DEF Grows
  <1>7. References(t)
    <2>1. \A k \in 1 .. Len(t.resolver) :
            t.resolver[k].promise \in 1 .. Len(t.promise) \/ k \in 1 .. Len(s.resolver)
      BY <1>2, <1>4, <1>5
    <2>2. Len(t.promise) <= MaxPromises
      BY <1>1, <1>2 DEF References
    <2> QED
      BY <1>1, <1>2, <1>3, <1>6, <2>1, <2>2, ReferencesLater
  <1>8. Unhandled(t) /\ OneGathering(t)
    BY <1>1, <1>2 DEF Unhandled, OneGathering
  <1>9. OneParty(t, Y)
    <2>1. \A q : Asking(t, q) = Asking(s, q) /\ Getting(t, q) = Getting(s, q)
      BY <1>2 DEF Asking, Getting
    <2>2. \A q : q # p => Pairs(t, q) = Pairs(s, q)
      BY <1>4, <1>5 DEF Pairs
    <2>3. Pairs(t, p) = Pairs(s, p) \cup {n} /\ n \notin Pairs(s, p)
      BY <1>4, <1>5 DEF Pairs
    <2>4. Cardinality(Pairs(t, p)) = Cardinality(Pairs(s, p)) + 1
      BY <1>1, <2>3, PartiesAreFinite, FS_AddElement
    <2>5. ASSUME NEW q \in 1 .. Len(t.promise)
          PROVE  /\ Parties(t, q) = IF t.promise[q].state = "pending" /\ q \notin Y THEN 1 ELSE 0
                 /\ q \in Y => t.promise[q].state = "pending"
      <3>1. /\ Parties(s, q) = IF s.promise[q].state = "pending" /\ q \notin X THEN 1 ELSE 0
            /\ q \in X => s.promise[q].state = "pending"
        BY <1>1, <1>2, PartyCount
      <3>2. CASE q = p
        <4>1. Parties(t, p) = Parties(s, p) + 1
          BY <1>1, <2>1, <2>4, PartiesAreFinite DEF Parties
        <4> QED
          BY <1>2, <3>1, <3>2, <4>1
      <3>3. CASE q # p
        BY <1>2, <2>1, <2>2, <3>1, <3>3, SMTT(40) DEF Parties
      <3> QED
        BY <3>2, <3>3
    <2> QED
      BY <2>5 DEF OneParty, Parties
  <1>10. Gathering(t)
    <2>1. ASSUME s.all # None
          PROVE  /\ s.all.resolver \in 1 .. Len(s.resolver) /\ s.all.resolver \in 1 .. Len(t.resolver)
                 /\ t.resolver[s.all.resolver] = s.resolver[s.all.resolver]
                 /\ s.resolver[s.all.resolver].promise # p \/ s.all.remaining = 0
      BY <1>1, <1>4, <1>5, <2>1 DEF Gathering, MayGet, Gathers
    <2>2. ASSUME s.all # None, NEW m \in 1 .. Len(t.resolver),
                 t.resolver[m].promise = s.resolver[s.all.resolver].promise
          PROVE  m = s.all.resolver \/ s.all.remaining = 0
      <3>1. m = n => s.all.remaining = 0
        BY <1>4, <1>5, <2>1, <2>2
      <3>2. m # n => m \in 1 .. Len(s.resolver) /\ t.resolver[m] = s.resolver[m]
        BY <1>4, <1>5
      <3> QED
        BY <1>1, <2>2, <3>1, <3>2 DEF Gathering
    <2> QED
      BY <1>1, <1>2, <2>1, <2>2 DEF Gathering
  <1>11. Capable(t, n)
    <2>1. t.all # None => n # t.all.resolver
      BY <1>1, <1>2, <1>5 DEF Gathering
    <2> QED
      BY <1>4, <1>5, <2>1 DEF Capable
  <1> QED
    BY <1>2, <1>3, <1>4, <1>5, <1>6, <1>7, <1>8, <1>9, <1>10, <1>11 DEF Sound, AddsPair

\* What a pair that is used for the first time changes.
Marks(s, k, t) ==
  /\ s.resolver[k].promise \in 1 .. Len(s.promise)
  /\ s.promise[s.resolver[k].promise].state = "pending"
  /\ t.promise = s.promise /\ t.stack = s.stack /\ t.all = s.all
  /\ Len(t.resolver) = Len(s.resolver) /\ t.resolver[k].alreadyResolved
  /\ \A m \in 1 .. Len(s.resolver) :
       /\ t.resolver[m].promise = s.resolver[m].promise
       /\ s.resolver[m].alreadyResolved => t.resolver[m].alreadyResolved

\* A pair that is used for the first time lets go of its promise.
LEMMA MarkResolvedSound ==
  ASSUME NEW s, NEW X, Sound(s, X), NEW k \in 1 .. Len(s.resolver),
         ~s.resolver[k].alreadyResolved, NEW t, t = MarkResolved(s, k)
  PROVE  /\ Sound(t, X \cup {s.resolver[k].promise}) /\ Grows(s, t)
         /\ Marks(s, k, t)
  <1> DEFINE p == s.resolver[k].promise
             Y == X \cup {p}
  <1>1. /\ s \in States /\ References(s) /\ Unhandled(s) /\ OneParty(s, X)
        /\ Gathering(s) /\ OneGathering(s) /\ Grows(s, s)
    BY SoundParts
  <1>2. /\ t.resolver = [s.resolver EXCEPT ![k].alreadyResolved = TRUE]
        /\ t.promise = s.promise /\ t.queue = s.queue
        /\ t.stack = s.stack /\ t.unhandled = s.unhandled /\ t.all = s.all
    BY <1>1 DEF MarkResolved, States
  <1>3. s.resolver[k] \in Resolvers
    BY <1>1, Members
  <1>4. t \in States
    <2>1. [s.resolver[k] EXCEPT !.alreadyResolved = TRUE] \in Resolvers
      BY <1>3 DEF Resolvers
    <2>2. [s.resolver EXCEPT ![k].alreadyResolved = TRUE] \in Seq(Resolvers)
      BY <1>1, <2>1, StateParts
    <2> QED
      BY <1>1, <2>2 DEF MarkResolved, States
  <1>5. /\ Len(s.resolver) \in Nat /\ Len(t.resolver) = Len(s.resolver)
        /\ \A m \in 1 .. Len(s.resolver) : m # k => t.resolver[m] = s.resolver[m]
        /\ t.resolver[k] = [s.resolver[k] EXCEPT !.alreadyResolved = TRUE]
    BY <1>1, <1>2, StateParts
  <1>6. /\ t.resolver[k].promise = p /\ t.resolver[k].alreadyResolved = TRUE
        /\ \A m \in 1 .. Len(s.resolver) : /\ t.resolver[m].promise = s.resolver[m].promise
                                           /\ t.resolver[m].held = s.resolver[m].held
    BY <1>3, <1>5 DEF Resolvers
  <1>7. /\ p \in 1 .. Len(s.promise) /\ k \in Pairs(s, p)
    BY <1>1 DEF References, Pairs
  <1>8. s.promise[p].state = "pending" /\ p \notin X
    BY <1>1, <1>7, OnlyParty
  <1>9. Grows(s, t)
    <2>1. PairsStay(s, t)
      BY <1>5, <1>6 DEF PairsStay
    <2>2. SettledStay(s, t) /\ GatheringStays(s, t)
      BY <1>1, <1>2 DEF Grows, SettledStay, GatheringStays
    <2> QED
      BY <2>1, <2>2 DEF Grows
  <1>10. References(t)
    <2>1. Len(t.promise) <= MaxPromises
      BY <1>1, <1>2 DEF References
    <2> QED
      BY <1>1, <1>2, <1>4, <1>5, <1>9, <2>1, ReferencesLater
  <1>11. Unhandled(t) /\ OneGathering(t)
    BY <1>1, <1>2 DEF Unhandled, OneGathering
  <1>12. OneParty(t, Y)
    <2>1. \A q : Asking(t, q) = Asking(s, q) /\ Getting(t, q) = Getting(s, q)
      BY <1>2 DEF Asking, Getting
    <2>2. \A q : q # p => Pairs(t, q) = Pairs(s, q)
      BY <1>5, <1>6 DEF Pairs
    <2>3. Pairs(t, p) = Pairs(s, p) \ {k}
      BY <1>5, <1>6 DEF Pairs
    <2>4. Cardinality(Pairs(t, p)) = Cardinality(Pairs(s, p)) - 1
      <3>1. IsFiniteSet(Pairs(s, p))
        BY <1>1, PartiesAreFinite
      <3> QED
        BY <1>7, <2>3, <3>1, FS_RemoveElement, ZenonT(80)
    <2>5. ASSUME NEW q \in 1 .. Len(t.promise)
          PROVE  /\ Parties(t, q) = IF t.promise[q].state = "pending" /\ q \notin Y THEN 1 ELSE 0
                 /\ q \in Y => t.promise[q].state = "pending"
      <3>1. /\ Parties(s, q) = IF s.promise[q].state = "pending" /\ q \notin X THEN 1 ELSE 0
            /\ q \in X => s.promise[q].state = "pending"
        BY <1>1, <1>2, PartyCount
      <3>2. CASE q = p
        <4>1. Parties(t, p) = Parties(s, p) - 1
          BY <1>1, <2>1, <2>4, PartiesAreFinite DEF Parties
        <4> QED
          BY <1>2, <1>8, <3>1, <3>2, <4>1
      <3>3. CASE q # p
        BY <1>2, <2>1, <2>2, <3>1, <3>3 DEF Parties
      <3> QED
        BY <3>2, <3>3
    <2> QED
      BY <2>5 DEF OneParty, Parties
  <1>13. Gathering(t)
    BY <1>1, <1>2, <1>5, <1>6 DEF Gathering
  <1>14. Marks(s, k, t)
    <2>1. t.resolver[k].alreadyResolved
      BY <1>6
    <2>2. \A m \in 1 .. Len(s.resolver) :
            /\ t.resolver[m].promise = s.resolver[m].promise
            /\ s.resolver[m].alreadyResolved => t.resolver[m].alreadyResolved
      BY <1>5, <1>6, <2>1
    <2> QED
      BY <1>2, <1>5, <1>7, <1>8, <2>1, <2>2 DEF Marks
  <1> QED
    BY <1>4, <1>9, <1>10, <1>11, <1>12, <1>13, <1>14 DEF Sound

\* Settling leaves the frames and the pairs alone.
OnlySettles(s, t) ==
  t.stack = s.stack /\ t.resolver = s.resolver /\ t.all = s.all

\* A promise nobody else can settle is settled, and its reactions become jobs.
LEMMA SettleSound ==
  ASSUME NEW s, NEW X, Sound(s, X), NEW p \in 1 .. Len(s.promise), p \in X,
         NEW state \in Settled, NEW v \in Values, v \notin 1 .. MaxPromises,
         Gathers(s, p) /\ state = "fulfilled" => s.all.remaining = 0,
         NEW t, t = Settle(s, p, state, v)
  PROVE  /\ Sound(t, X \ {p}) /\ Grows(s, t)
         /\ OnlySettles(s, t)
  <1> DEFINE Y == X \ {p}
             n == Len(s.queue)
             m == Len(s.promise[p].reactions)
             Job(r) == ReactionJob(p, r, state, v)
             r == [s.promise[p] EXCEPT !.state = state, !.result = v, !.reactions = <<>>]
             jobs == [i \in DOMAIN s.promise[p].reactions |-> Job(s.promise[p].reactions[i])]
  <1>1. /\ s \in States /\ References(s) /\ Unhandled(s) /\ OneParty(s, X)
        /\ Gathering(s) /\ OneGathering(s) /\ Grows(s, s)
    BY SoundParts
  <1>2. s.promise[p] \in PromiseRecords /\ s.promise[p].reactions \in Seq(Reactions)
        /\ s.promise[p].handled \in BOOLEAN /\ s.promise[p].state = "pending"
    <2>1. s.promise[p] \in PromiseRecords
      BY <1>1, Members
    <2>2. s.promise[p].state = "pending"
      BY <1>1, PartyCount
    <2> QED
      BY <2>1, <2>2 DEF PromiseRecords
  <1>3. /\ t.promise = [s.promise EXCEPT ![p] = r] /\ t.queue = s.queue \o jobs
        /\ t.unhandled = (IF state = "rejected" /\ ~s.promise[p].handled
                          THEN s.unhandled \cup {p} ELSE s.unhandled)
        /\ t.resolver = s.resolver /\ t.stack = s.stack /\ t.all = s.all
    BY <1>1 DEF Settle, States
  <1>4. /\ r \in PromiseRecords /\ r.state = state /\ r.result = v /\ r.reactions = <<>>
        /\ r.handled = s.promise[p].handled
    <2>1. <<>> \in Seq(Reactions)
      OBVIOUS
    <2> QED
      BY <1>2, <2>1 DEF PromiseRecords
  <1>5. /\ jobs \in Seq(ThenableJobs \cup ReactionJobs) /\ Len(jobs) = m /\ m \in Nat
        /\ \A i \in 1 .. m : jobs[i] = Job(s.promise[p].reactions[i])
    <2>1. \A x \in Reactions : Job(x) \in ReactionJobs
      BY DEF ReactionJob, ReactionJobs, Reactions
    <2> QED
      BY <1>2, <2>1
  <1>6. t \in States
    <2>1. [s.promise EXCEPT ![p] = r] \in Seq(PromiseRecords)
      BY <1>1, <1>4, StateParts
    <2>2. s.queue \o jobs \in Seq(ThenableJobs \cup ReactionJobs)
      BY <1>1, <1>5, StateParts
    <2>3. s.unhandled \cup {p} \in SUBSET Nat
      BY <1>1, StateParts
    <2> QED
      BY <1>1, <2>1, <2>2, <2>3 DEF Settle, States
  <1>7. /\ Len(s.promise) \in Nat /\ Len(t.promise) = Len(s.promise) /\ t.promise[p] = r
        /\ \A q \in 1 .. Len(s.promise) : q # p => t.promise[q] = s.promise[q]
    BY <1>1, <1>3, StateParts
  <1>8. /\ n \in Nat /\ Len(t.queue) = n + m
        /\ \A i \in 1 .. n : t.queue[i] = s.queue[i]
        /\ \A i \in 1 .. m : t.queue[n + i] = Job(s.promise[p].reactions[i])
    <2>1. /\ s.queue \in Seq(ThenableJobs \cup ReactionJobs)
          /\ jobs \in Seq(ThenableJobs \cup ReactionJobs)
      BY <1>1, <1>5, StateParts
    <2> HIDE DEF jobs, Job
    <2>2. /\ Len(s.queue \o jobs) = Len(s.queue) + Len(jobs) /\ Len(s.queue) \in Nat
          /\ \A i \in 1 .. Len(s.queue) : (s.queue \o jobs)[i] = s.queue[i]
          /\ \A i \in 1 .. Len(jobs) : (s.queue \o jobs)[Len(s.queue) + i] = jobs[i]
      BY <2>1, InARow
    <2>3. n = Len(s.queue) /\ m = Len(jobs) /\ m \in Nat /\ t.queue = s.queue \o jobs
      BY <1>3, <1>5
    <2> HIDE DEF n, m
    <2>4. \A i \in 1 .. m : t.queue[n + i] = jobs[i]
      BY <2>2, <2>3
    <2> QED
      BY <1>5, <2>2, <2>3, <2>4
  <1> HIDE DEF r, jobs, m, n, Job
  <1>9. Grows(s, t)
    <2>1. SettledStay(s, t)
      BY <1>2, <1>7 DEF SettledStay
    <2>2. PairsStay(s, t) /\ GatheringStays(s, t)
      BY <1>1, <1>3 DEF Grows, PairsStay, GatheringStays
    <2> QED
      BY <2>1, <2>2 DEF Grows
  <1>10. \A x : Job(x).kind = "reaction"
    BY DEF Job, ReactionJob
  <1>11. \A i \in 1 .. Len(t.queue) : i \in 1 .. n \/ \E h \in 1 .. m : i = n + h
    <2> TAKE i \in 1 .. Len(t.queue)
    <2>1. i \in 1 .. n \/ (i - n \in 1 .. m /\ i = n + (i - n))
      BY <1>5, <1>8
    <2> QED
      BY <2>1
  <1>12. References(t)
    <2>1. ASSUME NEW h \in 1 .. m
          PROVE  GoodJob(t, Job(s.promise[p].reactions[h]))
      <3> DEFINE x == s.promise[p].reactions[h]
                 y == IF state = "fulfilled" THEN x.onFulfilled ELSE x.onRejected
      <3>1. x \in Reactions /\ GoodReaction(s, x)
        BY <1>1, <1>2 DEF m, References, GoodPromise
      <3>2. GoodReaction(t, x)
        BY <1>1, <1>6, <1>9, <3>1, GoodLater
      <3>3. /\ Job(x).kind = "reaction" /\ Job(x).promise = p /\ Job(x).as = state
            /\ Job(x).argument = v /\ Job(x).handler = y /\ Job(x).capability = x.capability
        BY DEF Job, ReactionJob
      <3>4. GoodHandler(t, y) /\ Capable(t, x.capability)
        BY <3>2 DEF GoodReaction
      <3> HIDE DEF x, y
      <3>5. GoodJob(t, Job(x))
        BY <1>4, <1>7, <3>3, <3>4 DEF GoodJob
      <3> QED
        BY <3>5 DEF x
    <2>2. GoodPromise(t, r)
      <3>1. v # None
        BY ValuesAreApart DEF Values
      <3> QED
        BY <1>4, <3>1 DEF GoodPromise
    <2>3. Len(t.promise) <= MaxPromises
      BY <1>1, <1>7 DEF References
    <2>4. \A i \in 1 .. Len(t.queue) :
            GoodJob(t, t.queue[i]) \/ \E h \in 1 .. Len(s.queue) : t.queue[i] = s.queue[h]
      BY <1>8, <1>11, <2>1 DEF n
    <2>5. \A q \in 1 .. Len(t.promise) :
            \/ GoodPromise(t, t.promise[q])
            \/ /\ q \in 1 .. Len(s.promise) /\ t.promise[q].state = s.promise[q].state
               /\ t.promise[q].result = s.promise[q].result
               /\ t.promise[q].reactions = s.promise[q].reactions
      BY <1>7, <2>2
    <2> QED
      BY <1>1, <1>3, <1>6, <1>9, <2>3, <2>4, <2>5, ReferencesLater, ZenonT(80)
  <1>13. Unhandled(t)
    <2>1. s.unhandled = {q \in 1 .. Len(s.promise) :
                           s.promise[q].state = "rejected" /\ ~s.promise[q].handled}
      BY <1>1 DEF Unhandled
    <2>2. ASSUME NEW q
          PROVE  q \in t.unhandled <=>
                   /\ q \in 1 .. Len(t.promise)
                   /\ t.promise[q].state = "rejected" /\ ~t.promise[q].handled
      <3>1. CASE q = p
        <4>1. p \notin s.unhandled
          BY <1>2, <2>1
        <4> QED
          BY <1>3, <1>4, <1>7, <3>1, <4>1
      <3>2. CASE q # p
        BY <1>3, <1>7, <2>1, <3>2
      <3> QED
        BY <3>1, <3>2
    <2> QED
      BY <2>2 DEF Unhandled
  <1>14. OneParty(t, Y)
    <2>1. \A q : Pairs(t, q) = Pairs(s, q) /\ Getting(t, q) = Getting(s, q)
      BY <1>3 DEF Pairs, Getting
    <2>2. ASSUME NEW q
          PROVE  Asking(t, q) = Asking(s, q)
      <3>1. \A h \in 1 .. m : t.queue[n + h].kind # "thenable"
        BY <1>8, <1>10
      <3>2. \A i \in 1 .. n : i \in 1 .. Len(t.queue) /\ t.queue[i] = s.queue[i]
        BY <1>5, <1>8
      <3>3. \A i : i \in Asking(t, q) <=> i \in Asking(s, q)
        BY <1>11, <3>1, <3>2 DEF Asking, n
      <3> QED
        BY <3>3
    <2>3. ASSUME NEW q \in 1 .. Len(t.promise)
          PROVE  /\ Parties(t, q) = IF t.promise[q].state = "pending" /\ q \notin Y THEN 1 ELSE 0
                 /\ q \in Y => t.promise[q].state = "pending"
      <3>1. /\ Parties(s, q) = IF s.promise[q].state = "pending" /\ q \notin X THEN 1 ELSE 0
            /\ q \in X => s.promise[q].state = "pending"
        BY <1>1, <1>7, PartyCount
      <3>2. Parties(t, q) = Parties(s, q)
        BY <2>1, <2>2 DEF Parties
      <3>3. CASE q = p
        BY <1>4, <1>7, <3>1, <3>2, <3>3 DEF Settled
      <3>4. CASE q # p
        BY <1>7, <3>1, <3>2, <3>4
      <3> QED
        BY <3>3, <3>4
    <2> QED
      BY <2>3 DEF OneParty, Parties
  <1>15. Gathering(t)
    <2>1. ASSUME s.all # None, t.promise[s.resolver[s.all.resolver].promise].state = "fulfilled"
          PROVE  s.all.remaining = 0
      <3>1. s.resolver[s.all.resolver].promise \in 1 .. Len(s.promise)
        BY <1>1, <2>1 DEF Gathering, References
      <3>2. CASE s.resolver[s.all.resolver].promise = p
        BY <1>4, <1>7, <2>1, <3>2 DEF Gathers
      <3>3. CASE s.resolver[s.all.resolver].promise # p
        BY <1>1, <1>7, <2>1, <3>1, <3>3 DEF Gathering
      <3> QED
        BY <3>2, <3>3
    <2> QED
      BY <1>1, <1>3, <2>1 DEF Gathering
  <1>16. OneGathering(t)
    BY <1>1, <1>3 DEF OneGathering
  <1> QED
    BY <1>3, <1>6, <1>9, <1>12, <1>13, <1>14, <1>15, <1>16 DEF Sound, OnlySettles

\* The count stays right when a party comes for each promise that is no longer
\* being handed on, and one goes for each that is now.
LEMMA OnePartyLater ==
  ASSUME NEW s \in States, NEW t \in States, NEW X, NEW Y, OneParty(s, X),
         Len(t.promise) = Len(s.promise),
         \A q \in 1 .. Len(s.promise) :
           /\ t.promise[q].state = s.promise[q].state
           /\ q \in X /\ q \notin Y => Parties(t, q) = Parties(s, q) + 1
           /\ q \in Y /\ q \notin X => Parties(t, q) = Parties(s, q) - 1
           /\ (q \in X <=> q \in Y) => Parties(t, q) = Parties(s, q)
  PROVE  OneParty(t, Y)
  <1>1. ASSUME NEW q \in 1 .. Len(t.promise)
        PROVE  /\ Parties(t, q) = IF t.promise[q].state = "pending" /\ q \notin Y THEN 1 ELSE 0
               /\ q \in Y => t.promise[q].state = "pending"
    <2>1. /\ Parties(s, q) = IF s.promise[q].state = "pending" /\ q \notin X THEN 1 ELSE 0
          /\ q \in X => s.promise[q].state = "pending"
      BY PartyCount
    <2>2. Parties(t, q) \in Nat
      BY PartiesAreFinite DEF Parties
    <2> QED
      BY <2>1, <2>2
  <1> QED
    BY <1>1 DEF OneParty, Parties

\* No handler of content was called.
NoNewHandler(s, t) ==
  \A i \in 1 .. Len(t.stack) :
    t.stack[i].fn = "handler" => i \in 1 .. Len(s.stack) /\ s.stack[i].fn = "handler"

\* A call leaves all else alone.
OnlyPushes(s, f, t) ==
  /\ t.promise = s.promise /\ t.resolver = s.resolver /\ t.queue = s.queue /\ t.all = s.all
  /\ f.fn # "handler" => NoNewHandler(s, t)

\* A frame is called; a getter of `then' takes its promise in hand.
LEMMA PushSound ==
  ASSUME NEW s, NEW X, Sound(s, X), NEW f \in Frames, GoodFrame(s, Len(s.stack) + 1, f),
         f.fn = "getThen" => f.promise \in X,
         f.fn = "all" => /\ s.all # None /\ f.resolver = s.all.resolver /\ ~s.all.done
                         /\ \A i \in 1 .. Len(s.stack) : s.stack[i].fn # "all",
         NEW t, t = Push(s, f),
         NEW Y, Y = IF f.fn = "getThen" THEN X \ {f.promise} ELSE X
  PROVE  /\ Sound(t, Y) /\ Grows(s, t)
         /\ OnlyPushes(s, f, t)
  <1> DEFINE n == Len(s.stack) + 1
  <1>1. /\ s \in States /\ References(s) /\ Unhandled(s) /\ OneParty(s, X)
        /\ Gathering(s) /\ OneGathering(s) /\ Grows(s, s)
    BY SoundParts
  <1>2. /\ t.stack = Append(s.stack, f) /\ t.promise = s.promise /\ t.resolver = s.resolver
        /\ t.queue = s.queue /\ t.unhandled = s.unhandled /\ t.all = s.all
    BY <1>1 DEF Push, States
  <1>3. t \in States
    <2>1. Append(s.stack, f) \in Seq(Frames)
      BY <1>1, StateParts
    <2> QED
      BY <1>1, <2>1 DEF Push, States
  <1>4. /\ Len(s.stack) \in Nat /\ Len(t.stack) = n /\ t.stack[n] = f
        /\ \A i \in 1 .. Len(s.stack) : t.stack[i] = s.stack[i]
    BY <1>1, <1>2, StateParts
  <1> HIDE DEF n
  <1>5. /\ n = Len(s.stack) + 1 /\ n \in Nat /\ n \notin 1 .. Len(s.stack)
        /\ 1 .. n = 1 .. Len(s.stack) \cup {n}
    BY <1>4 DEF n
  <1>6. Grows(s, t)
    BY <1>1, <1>2 DEF Grows, SettledStay, PairsStay, GatheringStays
  <1>7. References(t)
    <2>1. GoodFrame(t, n, f)
      BY <1>1, <1>3, <1>5, <1>6, GoodLater
    <2>2. Len(t.promise) <= MaxPromises
      BY <1>1, <1>2 DEF References
    <2>3. \A i \in 1 .. Len(t.stack) :
            GoodFrame(t, i, t.stack[i]) \/ (i \in 1 .. Len(s.stack) /\ t.stack[i] = s.stack[i])
      BY <1>4, <1>5, <2>1
    <2> QED
      BY <1>1, <1>2, <1>3, <1>6, <2>2, <2>3, ReferencesLater
  <1>8. Unhandled(t) /\ Gathering(t)
    BY <1>1, <1>2 DEF Unhandled, Gathering
  <1>9. OneGathering(t)
    BY <1>1, <1>2, <1>4, <1>5 DEF OneGathering
  <1>10. OneParty(t, Y)
    <2>1. \A q : Pairs(t, q) = Pairs(s, q) /\ Asking(t, q) = Asking(s, q)
      BY <1>2 DEF Pairs, Asking
    <2>2. ASSUME NEW q, f.fn = "getThen" => f.promise # q
          PROVE  Parties(t, q) = Parties(s, q)
      <3>1. Getting(t, q) = Getting(s, q)
        BY <1>4, <1>5, <2>2 DEF Getting
      <3> QED
        BY <2>1, <3>1 DEF Parties
    <2>3. ASSUME NEW q, f.fn = "getThen", f.promise = q
          PROVE  Parties(t, q) = Parties(s, q) + 1
      <3>1. Getting(t, q) = Getting(s, q) \cup {n} /\ n \notin Getting(s, q)
        BY <1>4, <1>5, <2>3 DEF Getting
      <3>2. Cardinality(Getting(t, q)) = Cardinality(Getting(s, q)) + 1
        BY <1>1, <3>1, PartiesAreFinite, FS_AddElement
      <3> QED
        BY <1>1, <2>1, <3>2, PartiesAreFinite DEF Parties
    <2>4. \A q \in 1 .. Len(s.promise) :
            /\ q \in X /\ q \notin Y => Parties(t, q) = Parties(s, q) + 1
            /\ q \in Y /\ q \notin X => Parties(t, q) = Parties(s, q) - 1
            /\ (q \in X <=> q \in Y) => Parties(t, q) = Parties(s, q)
      BY <2>2, <2>3
    <2> QED
      BY <1>1, <1>2, <1>3, <2>4, OnePartyLater
  <1>11. f.fn # "handler" => NoNewHandler(s, t)
    BY <1>4, <1>5 DEF NoNewHandler
  <1> QED
    BY <1>2, <1>3, <1>6, <1>7, <1>8, <1>9, <1>10, <1>11 DEF Sound, OnlyPushes

\* What a frame that ended was, and what it leaves alone.
OnlyPops(s, X, f, t) ==
  /\ t.promise = s.promise /\ t.resolver = s.resolver /\ t.all = s.all
  /\ Len(s.stack) \in Nat \ {0} /\ t.stack \in Seq(Frames) /\ Len(t.stack) = Len(s.stack) - 1
  /\ \A i \in 1 .. Len(t.stack) : t.stack[i] = s.stack[i]
  /\ NoNewHandler(s, t)
  /\ f.fn = "getThen" => f.promise \notin X
  /\ f.fn = "all" => \A i \in 1 .. Len(t.stack) : t.stack[i].fn # "all"

\* The last frame ends; the promise of a getter of `then' is to be handed on.
LEMMA PopSound ==
  ASSUME NEW s, NEW X, Sound(s, X), s.stack # <<>>, NEW f, f = s.stack[Len(s.stack)],
         NEW t, t = Pop(s),
         NEW Y, Y = IF f.fn = "getThen" THEN X \cup {f.promise} ELSE X
  PROVE  /\ Sound(t, Y) /\ Grows(s, t) /\ f \in Frames /\ GoodFrame(t, Len(s.stack), f)
         /\ OnlyPops(s, X, f, t)
  <1> DEFINE n == Len(s.stack)
  <1>1. /\ s \in States /\ References(s) /\ Unhandled(s) /\ OneParty(s, X)
        /\ Gathering(s) /\ OneGathering(s) /\ Grows(s, s)
    BY SoundParts
  <1>2. /\ t.stack = SubSeq(s.stack, 1, Len(s.stack) - 1) /\ t.promise = s.promise
        /\ t.resolver = s.resolver
        /\ t.queue = s.queue /\ t.unhandled = s.unhandled /\ t.all = s.all
    BY <1>1 DEF Pop, States
  <1>3. /\ SubSeq(s.stack, 1, Len(s.stack) - 1) \in Seq(Frames)
        /\ n \in Nat \ {0} /\ Len(t.stack) = n - 1
        /\ \A i \in 1 .. n - 1 : t.stack[i] = s.stack[i]
    BY <1>1, <1>2, StateParts
  <1>4. t \in States
    BY <1>1, <1>3 DEF Pop, States
  <1> HIDE DEF n
  <1>5. n = Len(s.stack) /\ n \notin 1 .. n - 1 /\ 1 .. n = 1 .. n - 1 \cup {n} /\ n \in 1 .. n
    BY <1>3 DEF n
  <1>6. Grows(s, t)
    BY <1>1, <1>2 DEF Grows, SettledStay, PairsStay, GatheringStays
  <1>7. f \in Frames /\ GoodFrame(s, n, f)
    BY <1>1, <1>5, Members DEF References
  <1>8. GoodFrame(t, n, f)
    BY <1>1, <1>3, <1>4, <1>6, <1>7, GoodLater
  <1>9. References(t)
    <2>1. Len(t.promise) <= MaxPromises
      BY <1>1, <1>2 DEF References
    <2>2. \A i \in 1 .. Len(t.stack) : i \in 1 .. Len(s.stack) /\ t.stack[i] = s.stack[i]
      BY <1>3, <1>5
    <2> QED
      BY <1>1, <1>2, <1>4, <1>6, <2>1, <2>2, ReferencesLater
  <1>10. Unhandled(t) /\ Gathering(t)
    BY <1>1, <1>2 DEF Unhandled, Gathering
  <1>11. OneGathering(t)
    <2>1. \A i \in 1 .. Len(t.stack) : i \in 1 .. Len(s.stack) /\ t.stack[i] = s.stack[i]
      BY <1>3, <1>5
    <2>2. OneGathering(s) /\ t.all = s.all
      BY <1>1, <1>2
    <2>3. ASSUME NEW i \in 1 .. Len(t.stack), t.stack[i].fn = "all"
          PROVE  t.all # None /\ t.stack[i].resolver = t.all.resolver /\ ~t.all.done
      <3>1. i \in 1 .. Len(s.stack) /\ t.stack[i] = s.stack[i]
        BY <2>1
      <3> QED
        BY <2>2, <2>3, <3>1 DEF OneGathering
    <2>4. ASSUME NEW i \in 1 .. Len(t.stack), NEW k \in 1 .. Len(t.stack),
                 t.stack[i].fn = "all", t.stack[k].fn = "all"
          PROVE  i = k
      <3>1. /\ i \in 1 .. Len(s.stack) /\ t.stack[i] = s.stack[i]
            /\ k \in 1 .. Len(s.stack) /\ t.stack[k] = s.stack[k]
        BY <2>1
      <3> QED
        BY <2>2, <2>4, <3>1 DEF OneGathering
    <2> QED
      BY <2>3, <2>4 DEF OneGathering
  <1>12. f.fn = "getThen" => f.promise \in 1 .. Len(s.promise) /\ f.promise \notin X
    <2>1. ASSUME f.fn = "getThen"
          PROVE  n \in Getting(s, f.promise) /\ f.promise \in 1 .. Len(s.promise)
      BY <1>5, <1>7, <2>1 DEF Getting, GoodFrame
    <2> QED
      BY <1>1, <2>1, OnlyParty
  <1>13. OneParty(t, Y)
    <2>1. \A q : Pairs(t, q) = Pairs(s, q) /\ Asking(t, q) = Asking(s, q)
      BY <1>2 DEF Pairs, Asking
    <2>2. ASSUME NEW q, f.fn = "getThen" => f.promise # q
          PROVE  Parties(t, q) = Parties(s, q)
      <3>1. Getting(t, q) = Getting(s, q)
        BY <1>3, <1>5, <2>2 DEF Getting
      <3> QED
        BY <2>1, <3>1 DEF Parties
    <2>3. ASSUME NEW q, f.fn = "getThen", f.promise = q
          PROVE  Parties(t, q) = Parties(s, q) - 1
      <3>1. Getting(t, q) = Getting(s, q) \ {n} /\ n \in Getting(s, q)
        BY <1>3, <1>5, <2>3 DEF Getting
      <3>2. IsFiniteSet(Getting(s, q))
        BY <1>1, PartiesAreFinite
      <3>3. Cardinality(Getting(t, q)) = Cardinality(Getting(s, q)) - 1
        BY <3>1, <3>2, FS_RemoveElement
      <3> QED
        BY <1>1, <2>1, <3>3, PartiesAreFinite DEF Parties
    <2>4. \A q \in 1 .. Len(s.promise) :
            /\ q \in X /\ q \notin Y => Parties(t, q) = Parties(s, q) + 1
            /\ q \in Y /\ q \notin X => Parties(t, q) = Parties(s, q) - 1
            /\ (q \in X <=> q \in Y) => Parties(t, q) = Parties(s, q)
      BY <1>12, <2>2, <2>3
    <2> QED
      BY <1>1, <1>2, <1>4, <2>4, OnePartyLater
  <1>14. NoNewHandler(s, t)
    BY <1>3, <1>5 DEF NoNewHandler
  <1>15. f.fn = "all" => \A i \in 1 .. Len(t.stack) : t.stack[i].fn # "all"
    BY <1>1, <1>3, <1>5 DEF OneGathering
  <1>16. t.stack \in Seq(Frames)
    BY <1>2, <1>3
  <1> QED
    BY <1>2, <1>3, <1>4, <1>5, <1>6, <1>7, <1>8, <1>9, <1>10, <1>11, <1>12, <1>13, <1>14,
       <1>15, <1>16 DEF Sound, OnlyPops

\* So does a new job.
OnlyEnqueues(s, t) ==
  t.promise = s.promise /\ t.resolver = s.resolver /\ t.stack = s.stack /\ t.all = s.all

\* A job is queued; one that will ask a thenable takes its promise in hand.
LEMMA EnqueueSound ==
  ASSUME NEW s, NEW X, Sound(s, X), NEW j \in ThenableJobs \cup ReactionJobs, GoodJob(s, j),
         j.kind = "thenable" => j.promise \in X,
         NEW t, t = Enqueue(s, j),
         NEW Y, Y = IF j.kind = "thenable" THEN X \ {j.promise} ELSE X
  PROVE  /\ Sound(t, Y) /\ Grows(s, t)
         /\ OnlyEnqueues(s, t)
  <1> DEFINE n == Len(s.queue) + 1
  <1>1. /\ s \in States /\ References(s) /\ Unhandled(s) /\ OneParty(s, X)
        /\ Gathering(s) /\ OneGathering(s) /\ Grows(s, s)
    BY SoundParts
  <1>2. /\ t.queue = Append(s.queue, j) /\ t.promise = s.promise /\ t.resolver = s.resolver
        /\ t.stack = s.stack /\ t.unhandled = s.unhandled /\ t.all = s.all
    BY <1>1 DEF Enqueue, States
  <1>3. t \in States
    <2>1. Append(s.queue, j) \in Seq(ThenableJobs \cup ReactionJobs)
      BY <1>1, StateParts
    <2> QED
      BY <1>1, <2>1 DEF Enqueue, States
  <1>4. /\ Len(s.queue) \in Nat /\ Len(t.queue) = n /\ t.queue[n] = j
        /\ \A i \in 1 .. Len(s.queue) : t.queue[i] = s.queue[i]
    BY <1>1, <1>2, StateParts
  <1> HIDE DEF n
  <1>5. /\ n = Len(s.queue) + 1 /\ n \in Nat /\ n \notin 1 .. Len(s.queue)
        /\ 1 .. n = 1 .. Len(s.queue) \cup {n}
    BY <1>4 DEF n
  <1>6. Grows(s, t)
    BY <1>1, <1>2 DEF Grows, SettledStay, PairsStay, GatheringStays
  <1>7. References(t)
    <2>1. GoodJob(t, j)
      BY <1>1, <1>3, <1>6, GoodLater
    <2>2. Len(t.promise) <= MaxPromises
      BY <1>1, <1>2 DEF References
    <2>3. \A i \in 1 .. Len(t.queue) :
            GoodJob(t, t.queue[i]) \/ \E m \in 1 .. Len(s.queue) : t.queue[i] = s.queue[m]
      BY <1>4, <1>5, <2>1
    <2> QED
      BY <1>1, <1>2, <1>3, <1>6, <2>2, <2>3, ReferencesLater
  <1>8. Unhandled(t) /\ Gathering(t) /\ OneGathering(t)
    BY <1>1, <1>2 DEF Unhandled, Gathering, OneGathering
  <1>9. OneParty(t, Y)
    <2>1. \A q : Pairs(t, q) = Pairs(s, q) /\ Getting(t, q) = Getting(s, q)
      BY <1>2 DEF Pairs, Getting
    <2>2. ASSUME NEW q, j.kind = "thenable" => j.promise # q
          PROVE  Parties(t, q) = Parties(s, q)
      <3>1. Asking(t, q) = Asking(s, q)
        BY <1>4, <1>5, <2>2 DEF Asking
      <3> QED
        BY <2>1, <3>1 DEF Parties
    <2>3. ASSUME NEW q, j.kind = "thenable", j.promise = q
          PROVE  Parties(t, q) = Parties(s, q) + 1
      <3>1. Asking(t, q) = Asking(s, q) \cup {n} /\ n \notin Asking(s, q)
        BY <1>4, <1>5, <2>3 DEF Asking
      <3>2. Cardinality(Asking(t, q)) = Cardinality(Asking(s, q)) + 1
        BY <1>1, <3>1, PartiesAreFinite, FS_AddElement
      <3> QED
        BY <1>1, <2>1, <3>2, PartiesAreFinite DEF Parties
    <2>4. \A q \in 1 .. Len(s.promise) :
            /\ q \in X /\ q \notin Y => Parties(t, q) = Parties(s, q) + 1
            /\ q \in Y /\ q \notin X => Parties(t, q) = Parties(s, q) - 1
            /\ (q \in X <=> q \in Y) => Parties(t, q) = Parties(s, q)
      BY <2>2, <2>3
    <2> QED
      BY <1>1, <1>2, <1>3, <2>4, OnePartyLater
  <1> QED
    BY <1>2, <1>3, <1>6, <1>7, <1>8, <1>9 DEF Sound, OnlyEnqueues

Dequeue(s) == [s EXCEPT !.queue = Tail(@)]

\* A job that is taken leaves all else alone.
OnlyDequeues(s, X, j, t) ==
  /\ t.promise = s.promise /\ t.resolver = s.resolver /\ t.stack = s.stack /\ t.all = s.all
  /\ j.kind = "thenable" => j.promise \notin X

\* The first job is taken; the promise a thenable will be asked for is to be
\* handed on.
LEMMA DequeueSound ==
  ASSUME NEW s, NEW X, Sound(s, X), s.queue # <<>>, NEW j, j = Head(s.queue),
         NEW t, t = Dequeue(s),
         NEW Y, Y = IF j.kind = "thenable" THEN X \cup {j.promise} ELSE X
  PROVE  /\ Sound(t, Y) /\ Grows(s, t)
         /\ j \in ThenableJobs \cup ReactionJobs /\ GoodJob(t, j)
         /\ OnlyDequeues(s, X, j, t)
  <1>1. /\ s \in States /\ References(s) /\ Unhandled(s) /\ OneParty(s, X)
        /\ Gathering(s) /\ OneGathering(s) /\ Grows(s, s)
    BY SoundParts
  <1>2. /\ t.queue = Tail(s.queue) /\ t.promise = s.promise /\ t.resolver = s.resolver
        /\ t.stack = s.stack /\ t.unhandled = s.unhandled /\ t.all = s.all
    BY <1>1 DEF Dequeue, States
  <1>3. /\ Tail(s.queue) \in Seq(ThenableJobs \cup ReactionJobs)
        /\ Len(s.queue) \in Nat \ {0} /\ Len(t.queue) = Len(s.queue) - 1 /\ j = s.queue[1]
        /\ \A i \in 1 .. Len(t.queue) : t.queue[i] = s.queue[i + 1]
    BY <1>1, <1>2, StateParts
  <1>4. t \in States
    BY <1>1, <1>3 DEF Dequeue, States
  <1>5. /\ 1 \in 1 .. Len(s.queue)
        /\ \A i \in Nat : i \in 1 .. Len(t.queue) <=> i + 1 \in 2 .. Len(s.queue)
    BY <1>3
  <1>6. Grows(s, t)
    BY <1>1, <1>2 DEF Grows, SettledStay, PairsStay, GatheringStays
  <1>7. j \in ThenableJobs \cup ReactionJobs /\ GoodJob(s, j)
    BY <1>1, <1>3, <1>5, Members DEF References
  <1>8. GoodJob(t, j)
    BY <1>1, <1>4, <1>6, <1>7, GoodLater
  <1>9. References(t)
    <2>1. Len(t.promise) <= MaxPromises
      BY <1>1, <1>2 DEF References
    <2>2. \A i \in 1 .. Len(t.queue) : i + 1 \in 1 .. Len(s.queue) /\ t.queue[i] = s.queue[i + 1]
      BY <1>3
    <2>3. \A i \in 1 .. Len(t.queue) : \E m \in 1 .. Len(s.queue) : t.queue[i] = s.queue[m]
      BY <2>2, SMTT(40)
    <2> QED
      BY <1>1, <1>2, <1>4, <1>6, <2>1, <2>3, ReferencesLater
  <1>10. Unhandled(t) /\ Gathering(t) /\ OneGathering(t)
    BY <1>1, <1>2 DEF Unhandled, Gathering, OneGathering
  <1>11. j.kind = "thenable" => j.promise \in 1 .. Len(s.promise) /\ j.promise \notin X
    <2>1. ASSUME j.kind = "thenable"
          PROVE  1 \in Asking(s, j.promise) /\ j.promise \in 1 .. Len(s.promise)
      BY <1>3, <1>5, <1>7, <2>1 DEF Asking, GoodJob
    <2> QED
      BY <1>1, <2>1, OnlyParty
  <1>12. OneParty(t, Y)
    <2>1. \A q : Pairs(t, q) = Pairs(s, q) /\ Getting(t, q) = Getting(s, q)
      BY <1>2 DEF Pairs, Getting
    <2>2. ASSUME NEW q
          PROVE  /\ IsFiniteSet(Asking(s, q) \ {1})
                 /\ Cardinality(Asking(t, q)) = Cardinality(Asking(s, q) \ {1})
      <3>1. IsFiniteSet(Asking(s, q))
        BY <1>1, PartiesAreFinite
      <3>2. IsFiniteSet(Asking(s, q) \ {1})
        BY <3>1, FS_Subset
      <3>3. \A i \in Nat : i \in Asking(t, q) <=> i + 1 \in Asking(s, q) \ {1}
        BY <1>3 DEF Asking
      <3>4. 0 \notin Asking(s, q) /\ Asking(s, q) \subseteq Nat /\ Asking(t, q) \subseteq Nat
        BY <1>3 DEF Asking
      <3> QED
        BY <3>2, <3>3, <3>4, OneLess
    <2>3. ASSUME NEW q, j.kind = "thenable" => j.promise # q
          PROVE  Parties(t, q) = Parties(s, q)
      <3>1. Asking(s, q) \ {1} = Asking(s, q)
        BY <1>3, <2>3 DEF Asking
      <3> QED
        BY <2>1, <2>2, <3>1 DEF Parties
    <2>4. ASSUME NEW q, j.kind = "thenable", j.promise = q
          PROVE  Parties(t, q) = Parties(s, q) - 1
      <3>1. 1 \in Asking(s, q)
        BY <1>3, <1>5, <2>4 DEF Asking
      <3>2. IsFiniteSet(Asking(s, q))
        BY <1>1, PartiesAreFinite
      <3>3. Cardinality(Asking(s, q) \ {1}) = Cardinality(Asking(s, q)) - 1
        BY <3>1, <3>2, FS_RemoveElement
      <3>4. Cardinality(Pairs(s, q)) \in Nat /\ Cardinality(Asking(s, q)) \in Nat
            /\ Cardinality(Getting(s, q)) \in Nat
        BY <1>1, PartiesAreFinite
      <3>5. /\ Cardinality(Asking(t, q)) = Cardinality(Asking(s, q)) - 1
            /\ Pairs(t, q) = Pairs(s, q) /\ Getting(t, q) = Getting(s, q)
        BY <2>1, <2>2, <3>3
      <3> QED
        BY <3>4, <3>5 DEF Parties
    <2>5. \A q \in 1 .. Len(s.promise) :
            /\ q \in X /\ q \notin Y => Parties(t, q) = Parties(s, q) + 1
            /\ q \in Y /\ q \notin X => Parties(t, q) = Parties(s, q) - 1
            /\ (q \in X <=> q \in Y) => Parties(t, q) = Parties(s, q)
      BY <1>11, <2>3, <2>4
    <2> QED
      BY <1>1, <1>2, <1>4, <2>5, OnePartyLater
  <1> QED
    BY <1>2, <1>4, <1>6, <1>7, <1>8, <1>9, <1>10, <1>11, <1>12 DEF Sound, OnlyDequeues

Handled(s, p) == [Handle(s, p) EXCEPT !.registered = @ + 1]

\* A promise is handled from now on: the embedding is told if it was rejected.
LEMMA HandleSound ==
  ASSUME NEW s, NEW X, Sound(s, X), NEW p \in 1 .. Len(s.promise),
         NEW t, t = Handled(s, p)
  PROVE  /\ Sound(t, X) /\ Grows(s, t)
         /\ Len(t.promise) = Len(s.promise) /\ t.promise[p].state = s.promise[p].state
         /\ t.promise[p].result = s.promise[p].result
         /\ t.resolver = s.resolver /\ t.stack = s.stack /\ t.all = s.all
  <1> DEFINE r == [s.promise[p] EXCEPT !.handled = TRUE]
  <1>1. /\ s \in States /\ References(s) /\ Unhandled(s) /\ OneParty(s, X)
        /\ Gathering(s) /\ OneGathering(s) /\ Grows(s, s)
    BY SoundParts
  <1>2. /\ t.promise = [s.promise EXCEPT ![p] = r] /\ t.queue = s.queue
        /\ t.unhandled = (IF s.promise[p].state = "rejected" THEN s.unhandled \ {p} ELSE s.unhandled)
        /\ t.resolver = s.resolver /\ t.stack = s.stack /\ t.all = s.all
        /\ t.registered = s.registered + 1
    BY <1>1 DEF Handled, Handle, States
  <1>3. /\ r \in PromiseRecords /\ r.state = s.promise[p].state /\ r.result = s.promise[p].result
        /\ r.reactions = s.promise[p].reactions /\ r.handled = TRUE
    <2>1. s.promise[p] \in PromiseRecords
      BY <1>1, Members
    <2> QED
      BY <2>1 DEF PromiseRecords
  <1>4. t \in States
    <2>1. [s.promise EXCEPT ![p] = r] \in Seq(PromiseRecords)
      BY <1>1, <1>3, StateParts
    <2>2. s.unhandled \ {p} \in SUBSET Nat /\ s.registered + 1 \in Nat
      BY <1>1, StateParts
    <2> QED
      BY <1>1, <2>1, <2>2 DEF Handled, Handle, States
  <1>5. /\ Len(s.promise) \in Nat /\ Len(t.promise) = Len(s.promise) /\ t.promise[p] = r
        /\ \A q \in 1 .. Len(s.promise) : q # p => t.promise[q] = s.promise[q]
    BY <1>1, <1>2, StateParts
  <1> HIDE DEF r
  <1>6. Grows(s, t)
    <2>1. SettledStay(s, t)
      BY <1>3, <1>5 DEF SettledStay
    <2>2. PairsStay(s, t) /\ GatheringStays(s, t)
      BY <1>1, <1>2 DEF Grows, PairsStay, GatheringStays
    <2> QED
      BY <2>1, <2>2 DEF Grows
  <1>7. References(t)
    <2>1. Len(t.promise) <= MaxPromises
      BY <1>1, <1>5 DEF References
    <2>2. \A q \in 1 .. Len(t.promise) :
            /\ q \in 1 .. Len(s.promise) /\ t.promise[q].state = s.promise[q].state
            /\ t.promise[q].result = s.promise[q].result
            /\ t.promise[q].reactions = s.promise[q].reactions
      BY <1>3, <1>5
    <2> QED
      BY <1>1, <1>2, <1>4, <1>6, <2>1, <2>2, ReferencesLater
  <1>8. Unhandled(t)
    <2>1. s.unhandled = {q \in 1 .. Len(s.promise) :
                           s.promise[q].state = "rejected" /\ ~s.promise[q].handled}
      BY <1>1 DEF Unhandled
    <2>2. ASSUME NEW q
          PROVE  q \in t.unhandled <=>
                   /\ q \in 1 .. Len(t.promise)
                   /\ t.promise[q].state = "rejected" /\ ~t.promise[q].handled
      <3>1. CASE q = p
        BY <1>2, <1>3, <1>5, <2>1, <3>1
      <3>2. CASE q # p
        BY <1>2, <1>5, <2>1, <3>2
      <3> QED
        BY <3>1, <3>2
    <2> QED
      BY <2>2 DEF Unhandled
  <1>9. OneParty(t, X)
    <2>1. \A q : Parties(t, q) = Parties(s, q)
      BY <1>2 DEF Parties, Pairs, Asking, Getting
    <2>2. \A q \in 1 .. Len(s.promise) : t.promise[q].state = s.promise[q].state
      BY <1>3, <1>5
    <2> QED
      BY <1>1, <1>4, <1>5, <2>1, <2>2, OnePartyLater
  <1>10. Gathering(t)
    <2>1. s.all # None =>
            LET q == s.resolver[s.all.resolver].promise
            IN q \in 1 .. Len(s.promise) /\ t.promise[q].state = s.promise[q].state
      BY <1>1, <1>3, <1>5 DEF Gathering, References
    <2> QED
      BY <1>1, <1>2, <2>1, SMTT(40) DEF Gathering
  <1>11. OneGathering(t)
    BY <1>1, <1>2 DEF OneGathering
  <1> QED
    BY <1>2, <1>3, <1>4, <1>5, <1>6, <1>7, <1>8, <1>9, <1>10, <1>11 DEF Sound

AddReaction(s, p, x) == [s EXCEPT !.promise[p].reactions = Append(@, x)]

\* A reaction is added to a pending promise.
LEMMA AddReactionSound ==
  ASSUME NEW s, NEW X, Sound(s, X), NEW p \in 1 .. Len(s.promise),
         s.promise[p].state = "pending", NEW x \in Reactions, GoodReaction(s, x),
         NEW t, t = AddReaction(s, p, x)
  PROVE  /\ Sound(t, X) /\ Grows(s, t)
         /\ t.resolver = s.resolver /\ t.stack = s.stack /\ t.all = s.all
  <1> DEFINE r == [s.promise[p] EXCEPT !.reactions = Append(s.promise[p].reactions, x)]
             n == Len(s.promise[p].reactions) + 1
  <1>1. /\ s \in States /\ References(s) /\ Unhandled(s) /\ OneParty(s, X)
        /\ Gathering(s) /\ OneGathering(s) /\ Grows(s, s)
    BY SoundParts
  <1>2. /\ t.promise = [s.promise EXCEPT ![p] = r] /\ t.queue = s.queue
        /\ t.unhandled = s.unhandled
        /\ t.resolver = s.resolver /\ t.stack = s.stack /\ t.all = s.all
    BY <1>1 DEF AddReaction, States
  <1>3. s.promise[p] \in PromiseRecords /\ s.promise[p].reactions \in Seq(Reactions)
    BY <1>1, Members DEF PromiseRecords
  <1>4. /\ Append(s.promise[p].reactions, x) \in Seq(Reactions)
        /\ Len(s.promise[p].reactions) \in Nat
        /\ Len(Append(s.promise[p].reactions, x)) = n
        /\ Append(s.promise[p].reactions, x)[n] = x
        /\ \A i \in 1 .. Len(s.promise[p].reactions) :
             Append(s.promise[p].reactions, x)[i] = s.promise[p].reactions[i]
    BY <1>3
  <1>5. /\ r \in PromiseRecords /\ r.state = s.promise[p].state /\ r.result = s.promise[p].result
        /\ r.reactions = Append(s.promise[p].reactions, x) /\ r.handled = s.promise[p].handled
    BY <1>3, <1>4 DEF PromiseRecords
  <1>6. t \in States
    <2>1. [s.promise EXCEPT ![p] = r] \in Seq(PromiseRecords)
      BY <1>1, <1>5, StateParts
    <2> QED
      BY <1>1, <2>1 DEF AddReaction, States
  <1>7. /\ Len(s.promise) \in Nat /\ Len(t.promise) = Len(s.promise) /\ t.promise[p] = r
        /\ \A q \in 1 .. Len(s.promise) : q # p => t.promise[q] = s.promise[q]
    BY <1>1, <1>2, StateParts
  <1> HIDE DEF r, n
  <1>8. 1 .. n = 1 .. Len(s.promise[p].reactions) \cup {n}
    BY <1>4 DEF n
  <1>9. Grows(s, t)
    <2>1. SettledStay(s, t)
      BY <1>5, <1>7 DEF SettledStay
    <2>2. PairsStay(s, t) /\ GatheringStays(s, t)
      BY <1>1, <1>2 DEF Grows, PairsStay, GatheringStays
    <2> QED
      BY <2>1, <2>2 DEF Grows
  <1>10. References(t)
    <2>1. GoodPromise(t, r)
      <3>1. GoodPromise(s, s.promise[p])
        BY <1>1 DEF References
      <3>2. \A i \in 1 .. Len(s.promise[p].reactions) : s.promise[p].reactions[i] \in Reactions
        BY <1>3
      <3>3. \A i \in 1 .. Len(r.reactions) : GoodReaction(t, r.reactions[i])
        BY <1>1, <1>4, <1>5, <1>6, <1>8, <1>9, <3>1, <3>2, GoodLater DEF GoodPromise
      <3> QED
        BY <1>5, <3>1, <3>3 DEF GoodPromise
    <2>2. Len(t.promise) <= MaxPromises
      BY <1>1, <1>7 DEF References
    <2>3. \A q \in 1 .. Len(t.promise) :
            \/ GoodPromise(t, t.promise[q])
            \/ /\ q \in 1 .. Len(s.promise) /\ t.promise[q].state = s.promise[q].state
               /\ t.promise[q].result = s.promise[q].result
               /\ t.promise[q].reactions = s.promise[q].reactions
      BY <1>7, <2>1
    <2> QED
      BY <1>1, <1>2, <1>6, <1>9, <2>2, <2>3, ReferencesLater
  <1>11. Unhandled(t)
    <2>1. \A q \in 1 .. Len(s.promise) : /\ t.promise[q].state = s.promise[q].state
                                         /\ t.promise[q].handled = s.promise[q].handled
      BY <1>5, <1>7
    <2> QED
      BY <1>1, <1>2, <1>7, <2>1 DEF Unhandled
  <1>12. OneParty(t, X)
    <2>1. \A q : Parties(t, q) = Parties(s, q)
      BY <1>2 DEF Parties, Pairs, Asking, Getting
    <2>2. \A q \in 1 .. Len(s.promise) : t.promise[q].state = s.promise[q].state
      BY <1>5, <1>7, SMTT(40)
    <2> QED
      BY <1>1, <1>6, <1>7, <2>1, <2>2, OnePartyLater
  <1>13. Gathering(t)
    <2>1. s.all # None =>
            LET q == s.resolver[s.all.resolver].promise
            IN q \in 1 .. Len(s.promise) /\ t.promise[q].state = s.promise[q].state
      BY <1>1, <1>5, <1>7 DEF Gathering, References
    <2> QED
      BY <1>1, <1>2, <2>1, SMTT(40) DEF Gathering
  <1>14. OneGathering(t)
    BY <1>1, <1>2 DEF OneGathering
  <1> QED
    BY <1>2, <1>6, <1>9, <1>10, <1>11, <1>12, <1>13, <1>14 DEF Sound

-----------------------------------------------------------------------------
(* What the actions compose.                                                 *)

\* A reaction is registered, or called if its promise has settled already.
LEMMA PerformThenSound ==
  ASSUME NEW s, NEW X, Sound(s, X), NEW p \in 1 .. Len(s.promise),
         NEW f \in Handlers, GoodHandler(s, f), NEW g \in Handlers, GoodHandler(s, g),
         NEW c \in Capabilities, Capable(s, c),
         NEW t, t = PerformThen(s, p, f, g, c)
  PROVE  /\ Sound(t, X) /\ Grows(s, t)
         /\ t.resolver = s.resolver /\ t.stack = s.stack /\ t.all = s.all
  <1> DEFINE x == [id |-> s.registered + 1, onFulfilled |-> f, onRejected |-> g, capability |-> c]
             u == Handled(s, p)
  <1>1. /\ Sound(u, X) /\ Grows(s, u)
        /\ Len(u.promise) = Len(s.promise) /\ u.promise[p].state = s.promise[p].state
        /\ u.promise[p].result = s.promise[p].result
        /\ u.resolver = s.resolver /\ u.stack = s.stack /\ u.all = s.all
    BY HandleSound
  <1>2. s \in States /\ u \in States
    BY <1>1, SoundParts
  <1>3. /\ x \in Reactions /\ x.onFulfilled = f /\ x.onRejected = g /\ x.capability = c
    BY <1>2, StateParts DEF Reactions
  <1>4. t = IF s.promise[p].state = "pending"
            THEN AddReaction(u, p, x)
            ELSE Enqueue(u, ReactionJob(p, x, s.promise[p].state, s.promise[p].result))
    BY DEF PerformThen, Handled, AddReaction
  <1> HIDE DEF x, u
  <1>5. GoodReaction(u, x)
    BY <1>1, <1>2, <1>3, GoodLater DEF GoodReaction
  <1>6. CASE s.promise[p].state = "pending"
    <2>1. /\ Sound(t, X) /\ Grows(u, t)
          /\ t.resolver = u.resolver /\ t.stack = u.stack /\ t.all = u.all
      BY <1>1, <1>3, <1>4, <1>5, <1>6, AddReactionSound
    <2> QED
      BY <1>1, <1>2, <2>1, GrowsOn, SoundParts
  <1>7. CASE s.promise[p].state # "pending"
    <2> DEFINE state == s.promise[p].state
               v == s.promise[p].result
               j == ReactionJob(p, x, state, v)
    <2>1. /\ state \in Settled /\ v \in Values /\ p \in Nat
      <3>1. s.promise[p] \in PromiseRecords
        BY <1>2, Members
      <3>2. GoodPromise(s, s.promise[p])
        BY SoundParts DEF References
      <3> QED
        BY <1>7, <3>1, <3>2 DEF PromiseRecords, GoodPromise
    <2> HIDE DEF state, v
    <2>2. j \in ReactionJobs
      BY <1>3, <2>1 DEF ReactionJob, ReactionJobs, Reactions
    <2>3. /\ j.kind = "reaction" /\ j.promise = p /\ j.as = state /\ j.argument = v
          /\ j.handler = (IF state = "fulfilled" THEN f ELSE g) /\ j.capability = c
      BY <1>3 DEF ReactionJob
    <2> HIDE DEF j
    <2>4. GoodJob(u, j)
      <3>1. GoodHandler(u, j.handler) /\ Capable(u, j.capability)
        BY <1>3, <1>5, <2>3 DEF GoodReaction
      <3>2. u.promise[p].state = state /\ u.promise[p].result = v
        BY <1>1 DEF state, v
      <3> QED
        BY <1>1, <2>3, <3>1, <3>2 DEF GoodJob
    <2>5. t = Enqueue(u, j)
      BY <1>4, <1>7 DEF j, state, v
    <2>6. /\ Sound(t, X) /\ Grows(u, t)
          /\ t.resolver = u.resolver /\ t.stack = u.stack /\ t.all = u.all
      <3>1. X = IF j.kind = "thenable" THEN X \ {j.promise} ELSE X
        BY <2>3
      <3> QED
        BY <1>1, <2>2, <2>3, <2>4, <2>5, <3>1, EnqueueSound DEF OnlyEnqueues
    <2> QED
      BY <1>1, <1>2, <2>6, GrowsOn, SoundParts
  <1> QED
    BY <1>6, <1>7

\* A pair rejects its promise, unless it was used before.
LEMMA RejectSound ==
  ASSUME NEW s, NEW X, Sound(s, X), NEW k \in 1 .. Len(s.resolver),
         NEW v \in Values, v \notin 1 .. MaxPromises, NEW t, t = Reject(s, k, v)
  PROVE  /\ Sound(t, X) /\ Grows(s, t) /\ t.stack = s.stack /\ t.all = s.all
         /\ Len(t.resolver) = Len(s.resolver) /\ t.resolver[k].alreadyResolved
         /\ \A m \in 1 .. Len(s.resolver) :
              s.resolver[m].alreadyResolved => t.resolver[m].alreadyResolved
  <1> DEFINE p == s.resolver[k].promise
             u == MarkResolved(s, k)
  <1>1. CASE s.resolver[k].alreadyResolved
    <2>1. t = s
      BY <1>1 DEF Reject
    <2> QED
      BY <1>1, <2>1, SoundParts
  <1>2. CASE ~s.resolver[k].alreadyResolved
    <2>1. /\ p \in 1 .. Len(s.promise) /\ s.promise[p].state = "pending"
          /\ Sound(u, X \cup {p}) /\ Grows(s, u)
          /\ u.promise = s.promise /\ u.stack = s.stack /\ u.all = s.all
          /\ Len(u.resolver) = Len(s.resolver) /\ u.resolver[k].alreadyResolved
          /\ \A m \in 1 .. Len(s.resolver) :
               s.resolver[m].alreadyResolved => u.resolver[m].alreadyResolved
      <3>1. u = MarkResolved(s, k) /\ p = s.resolver[k].promise
        OBVIOUS
      <3> HIDE DEF u, p
      <3>2. Sound(u, X \cup {p}) /\ Grows(s, u) /\ Marks(s, k, u)
        BY <1>2, <3>1, MarkResolvedSound
      <3> QED
        BY <3>1, <3>2 DEF Marks
    <2>2. t = Settle(u, p, "rejected", v)
      BY <1>2 DEF Reject
    <2>3. p \notin X
      <3>1. s \in States /\ OneParty(s, X)
        BY SoundParts
      <3>2. k \in Pairs(s, p)
        BY <1>2 DEF Pairs
      <3> QED
        BY <2>1, <3>1, <3>2, OnlyParty
    <2> DEFINE Y == X \cup {p}
    <2>4. Y \ {p} = X /\ p \in Y /\ Sound(u, Y)
      BY <2>1, <2>3
    <2> HIDE DEF p, u, Y
    <2>5. /\ Sound(t, X) /\ Grows(u, t)
          /\ t.stack = u.stack /\ t.resolver = u.resolver /\ t.all = u.all
      <3>1. "rejected" \in Settled /\ p \in 1 .. Len(u.promise)
        BY <2>1 DEF Settled
      <3>2. ~(Gathers(u, p) /\ "rejected" = "fulfilled")
        OBVIOUS
      <3>3. Sound(t, X) /\ Grows(u, t) /\ OnlySettles(u, t)
        BY <2>2, <2>4, <3>1, <3>2, SettleSound
      <3> QED
        BY <3>3 DEF OnlySettles
    <2>6. Grows(s, t)
      BY <2>1, <2>5, SoundGrows
    <2> QED
      BY <2>1, <2>5, <2>6
  <1> QED
    BY <1>1, <1>2

\* A pair resolves its promise, unless it was used before: the promise is
\* settled, or whoever will settle it takes it in hand.
LEMMA ResolveSound ==
  ASSUME NEW s, NEW X, Sound(s, X), NEW k \in 1 .. Len(s.resolver), NEW v \in Values,
         v \in 1 .. MaxPromises => v \in 1 .. Len(s.promise),
         s.all # None /\ k = s.all.resolver => s.all.remaining = 0,
         NEW t, t = Resolve(s, k, v)
  PROVE  /\ Sound(t, X) /\ Grows(s, t) /\ NoNewHandler(s, t) /\ t.all = s.all
         /\ Len(t.resolver) = Len(s.resolver) /\ t.resolver[k].alreadyResolved
         /\ \A m \in 1 .. Len(s.resolver) :
              s.resolver[m].alreadyResolved => t.resolver[m].alreadyResolved
  <1> DEFINE p == s.resolver[k].promise
             u == MarkResolved(s, k)
  <1>1. CASE s.resolver[k].alreadyResolved
    <2>1. t = s
      BY <1>1 DEF Resolve
    <2> QED
      BY <1>1, <2>1, SoundParts DEF NoNewHandler
  <1>2. CASE ~s.resolver[k].alreadyResolved
    <2>1. /\ p \in 1 .. Len(s.promise) /\ s.promise[p].state = "pending"
          /\ Sound(u, X \cup {p}) /\ Grows(s, u)
          /\ u.promise = s.promise /\ u.stack = s.stack /\ u.all = s.all
          /\ Len(u.resolver) = Len(s.resolver) /\ u.resolver[k].alreadyResolved
          /\ \A m \in 1 .. Len(s.resolver) :
               /\ u.resolver[m].promise = s.resolver[m].promise
               /\ s.resolver[m].alreadyResolved => u.resolver[m].alreadyResolved
      <3>1. u = MarkResolved(s, k) /\ p = s.resolver[k].promise
        OBVIOUS
      <3> HIDE DEF u, p
      <3>2. Sound(u, X \cup {p}) /\ Grows(s, u) /\ Marks(s, k, u)
        BY <1>2, <3>1, MarkResolvedSound
      <3> QED
        BY <3>1, <3>2 DEF Marks
    <2>2. /\ s \in States /\ u \in States /\ OneParty(s, X) /\ Gathering(s)
          /\ Len(s.promise) \in Nat /\ Len(s.promise) <= MaxPromises
      BY <2>1, SoundParts, Lengths DEF References
    <2>3. p \notin X
      <3>1. k \in Pairs(s, p)
        BY <1>2 DEF Pairs
      <3> QED
        BY <2>1, <2>2, <3>1, OnlyParty
    <2> DEFINE Y == X \cup {p}
    <2>4. Y \ {p} = X /\ p \in Y /\ Sound(u, Y) /\ p \in 1 .. Len(u.promise)
      BY <2>1, <2>3
    <2>5. MayGet(u, p)
      BY <2>1, <2>2 DEF MayGet, Gathers, Gathering
    <2>6. t = IF v = p THEN Settle(u, p, "rejected", SelfError)
              ELSE IF v \in Objects THEN Push(u, [fn |-> "getThen", promise |-> p, value |-> v])
              ELSE IF v \in (1 .. MaxPromises) \ {p} THEN Enqueue(u, ThenableJob(p, v))
              ELSE Settle(u, p, "fulfilled", v)
      <3>1. p \in Nat
        BY <2>1
      <3>2. v = p => v \notin Objects
        BY <3>1, ObjectsAre
      <3>3. v \in Objects => v \notin 1 .. MaxPromises
        BY ObjectsAre
      <3> QED
        BY <1>2, <3>2, <3>3 DEF Resolve, IsThenable
    <2> HIDE DEF u, Y
    <2>7. CASE v = p
      <3>1. SelfError \in Values /\ SelfError \notin 1 .. MaxPromises
        BY ValuesAreApart DEF Values
      <3>2. /\ Sound(t, X) /\ Grows(u, t)
            /\ t.stack = u.stack /\ t.resolver = u.resolver /\ t.all = u.all
        <4>1. t = Settle(u, p, "rejected", SelfError)
          BY <2>6, <2>7
        <4>2. "rejected" \in Settled /\ ~(Gathers(u, p) /\ "rejected" = "fulfilled")
          BY DEF Settled
        <4> HIDE DEF p
        <4>3. Sound(t, X) /\ Grows(u, t) /\ OnlySettles(u, t)
          BY <2>4, <3>1, <4>1, <4>2, SettleSound
        <4> QED
          BY <4>3 DEF OnlySettles
      <3>3. Grows(s, t)
        BY <2>4, <2>1, <3>2, SoundGrows
      <3> QED
        BY <2>1, <3>2, <3>3 DEF NoNewHandler
    <2>8. CASE v \in Objects /\ v # p
      <3> DEFINE f == [fn |-> "getThen", promise |-> p, value |-> v]
      <3>1. f.fn = "getThen" /\ f.promise = p /\ f \in Frames
        BY <2>1, <2>2, <2>8 DEF Frames
      <3>2. MayGet(u, p)
        BY <2>5
      <3>3. t = Push(u, f)
        BY <2>6, <2>8
      <3> HIDE DEF f, p
      <3>4. GoodFrame(u, Len(u.stack) + 1, f)
        BY <2>1, <3>1, <3>2 DEF GoodFrame
      <3>5. /\ Sound(t, X) /\ Grows(u, t)
            /\ t.promise = u.promise /\ t.resolver = u.resolver /\ t.queue = u.queue /\ t.all = u.all
            /\ NoNewHandler(u, t)
        <4>1. X = (IF f.fn = "getThen" THEN Y \ {f.promise} ELSE Y) /\ f.promise \in Y
          BY <2>4, <3>1
        <4>2. f.fn # "all"
          BY <3>1
        <4>3. Sound(t, X) /\ Grows(u, t) /\ OnlyPushes(u, f, t)
          BY <2>4, <3>1, <3>3, <3>4, <4>1, <4>2, PushSound
        <4> QED
          BY <3>1, <4>3 DEF OnlyPushes
      <3>6. Grows(s, t)
        BY <2>1, <2>4, <3>5, SoundGrows
      <3> QED
        BY <2>1, <3>5, <3>6 DEF NoNewHandler
    <2>9. CASE v \in (1 .. MaxPromises) \ {p}
      <3> DEFINE j == ThenableJob(p, v)
      <3>1. /\ j.kind = "thenable" /\ j.promise = p /\ j.thenable = v /\ j \in ThenableJobs
        BY <2>1, <2>2, <2>9 DEF ThenableJob, ThenableJobs
      <3>2. MayGet(u, p)
        BY <2>5
      <3>3. t = Enqueue(u, j)
        <4>1. v \notin Objects
          BY <2>9, ObjectsAre
        <4> QED
          BY <2>6, <2>9, <4>1
      <3> HIDE DEF j, p
      <3>4. GoodJob(u, j)
        BY <2>1, <2>9, <3>1, <3>2 DEF GoodJob
      <3>5. /\ Sound(t, X) /\ Grows(u, t)
            /\ t.promise = u.promise /\ t.resolver = u.resolver /\ t.stack = u.stack /\ t.all = u.all
        <4>1. X = (IF j.kind = "thenable" THEN Y \ {j.promise} ELSE Y) /\ j.promise \in Y
          BY <2>4, <3>1
        <4>2. j \in ThenableJobs \cup ReactionJobs
          BY <3>1
        <4>3. Sound(t, X) /\ Grows(u, t) /\ OnlyEnqueues(u, t)
          BY <2>4, <3>3, <3>4, <4>1, <4>2, EnqueueSound
        <4> QED
          BY <4>3 DEF OnlyEnqueues
      <3>6. Grows(s, t)
        BY <2>1, <2>4, <3>5, SoundGrows
      <3> QED
        BY <2>1, <3>5, <3>6 DEF NoNewHandler
    <2>10. CASE v # p /\ v \notin Objects /\ v \notin 1 .. MaxPromises
      <3>1. /\ Sound(t, X) /\ Grows(u, t)
            /\ t.stack = u.stack /\ t.resolver = u.resolver /\ t.all = u.all
        <4>1. t = Settle(u, p, "fulfilled", v)
          BY <2>6, <2>10
        <4>2. Gathers(u, p) => u.all.remaining = 0
          BY <2>5 DEF MayGet
        <4>3. "fulfilled" \in Settled
          BY DEF Settled
        <4> HIDE DEF p
        <4>4. Sound(t, X) /\ Grows(u, t) /\ OnlySettles(u, t)
          BY <2>4, <2>10, <4>1, <4>2, <4>3, SettleSound
        <4> QED
          BY <4>4 DEF OnlySettles
      <3>2. Grows(s, t)
        BY <2>1, <2>4, <3>1, SoundGrows
      <3> QED
        BY <2>1, <3>1, <3>2 DEF NoNewHandler
    <2> QED
      BY <2>7, <2>8, <2>9, <2>10
  <1> QED
    BY <1>1, <1>2

\* Pairs that were used stay used, so what is gathered stays gathered.
LEMMA GatheredLater ==
  ASSUME NEW s, NEW t, Gathering(s), Gathered(s), t.all = s.all,
         \A m \in 1 .. Len(s.resolver) :
           s.resolver[m].alreadyResolved => t.resolver[m].alreadyResolved
  PROVE  Gathered(t)
  BY DEF Gathering, Gathered

\* What a handler returns is the answer, if there is anyone to get it.
LEMMA AnswerSound ==
  ASSUME NEW s, NEW X, Sound(s, X), NEW c, Capable(s, c), NEW v \in Values,
         v \in 1 .. MaxPromises => v \in 1 .. Len(s.promise),
         NEW t, t = Answer(s, c, v)
  PROVE  Sound(t, X) /\ Grows(s, t) /\ NoNewHandler(s, t) /\ (Gathered(s) => Gathered(t))
  <1>1. CASE c = None
    <2>1. t = s
      BY <1>1 DEF Answer
    <2> QED
      BY <2>1, SoundParts DEF NoNewHandler
  <1>2. CASE c # None
    <2>1. t = Resolve(s, c, v) /\ c \in 1 .. Len(s.resolver) /\ (s.all # None => c # s.all.resolver)
      BY <1>2 DEF Answer, Capable
    <2>2. /\ Sound(t, X) /\ Grows(s, t) /\ NoNewHandler(s, t) /\ t.all = s.all
          /\ \A m \in 1 .. Len(s.resolver) :
               s.resolver[m].alreadyResolved => t.resolver[m].alreadyResolved
      BY <2>1, ResolveSound
    <2> QED
      BY <2>2, SoundParts, GatheredLater
  <1> QED
    BY <1>1, <1>2

\* And what it throws.
LEMMA FailSound ==
  ASSUME NEW s, NEW X, Sound(s, X), NEW c, c # None => c \in 1 .. Len(s.resolver),
         NEW v \in Values, v \notin 1 .. MaxPromises, NEW t, t = Fail(s, c, v)
  PROVE  Sound(t, X) /\ Grows(s, t) /\ NoNewHandler(s, t) /\ (Gathered(s) => Gathered(t))
  <1>1. CASE c = None
    <2>1. t = s
      BY <1>1 DEF Fail
    <2> QED
      BY <2>1, SoundParts DEF NoNewHandler
  <1>2. CASE c # None
    <2>1. t = Reject(s, c, v) /\ c \in 1 .. Len(s.resolver)
      BY <1>2 DEF Fail
    <2>2. /\ Sound(t, X) /\ Grows(s, t) /\ t.stack = s.stack /\ t.all = s.all
          /\ \A m \in 1 .. Len(s.resolver) :
               s.resolver[m].alreadyResolved => t.resolver[m].alreadyResolved
      BY <2>1, RejectSound
    <2> QED
      BY <2>2, SoundParts, GatheredLater DEF NoNewHandler
  <1> QED
    BY <1>1, <1>2

-----------------------------------------------------------------------------
(* The closures of Promise.all.                                              *)

Unfilled(called) == {i \in 1 .. Len(called) : ~called[i]}

\* They are finitely many.
LEMMA UnfilledAreFinite ==
  ASSUME NEW called \in Seq(BOOLEAN)
  PROVE  IsFiniteSet(Unfilled(called)) /\ Cardinality(Unfilled(called)) \in Nat
  <1>1. Len(called) \in Int
    OBVIOUS
  <1>2. IsFiniteSet(1 .. Len(called))
    BY <1>1, FS_Interval
  <1>3. Unfilled(called) \in SUBSET (1 .. Len(called))
    BY DEF Unfilled
  <1>4. IsFiniteSet(Unfilled(called))
    BY <1>2, <1>3, FS_Subset
  <1> QED
    BY <1>4, FS_CardinalityType

\* A sequence that grows.
LEMMA AppendIs ==
  ASSUME NEW S, NEW q \in Seq(S), NEW x \in S
  PROVE  /\ Append(q, x) \in Seq(S) /\ Len(Append(q, x)) = Len(q) + 1
         /\ Append(q, x)[Len(q) + 1] = x
         /\ \A i \in 1 .. Len(q) : Append(q, x)[i] = q[i]
  OBVIOUS

\* A sequence that is changed.
LEMMA ExceptIs ==
  ASSUME NEW S, NEW q \in Seq(S), NEW x \in S, NEW i \in 1 .. Len(q)
  PROVE  /\ [q EXCEPT ![i] = x] \in Seq(S) /\ Len([q EXCEPT ![i] = x]) = Len(q)
         /\ [q EXCEPT ![i] = x][i] = x
         /\ \A h \in 1 .. Len(q) : h # i => [q EXCEPT ![i] = x][h] = q[h]
  OBVIOUS

\* What is shared may change as long as what remains is counted.
LEMMA SharedSound ==
  ASSUME NEW s, NEW X, Sound(s, X), s.all # None, NEW t, t \in States, t.all # None,
         t.promise = s.promise, t.resolver = s.resolver, t.queue = s.queue, t.stack = s.stack,
         t.unhandled = s.unhandled, t.all.resolver = s.all.resolver,
         Len(s.all.called) <= Len(t.all.called), t.all.held \subseteq 1 .. Len(t.all.called),
         t.all.remaining = Cardinality(Unfilled(t.all.called)) + (IF t.all.done THEN 0 ELSE 1),
         s.all.remaining = 0 => t.all.remaining = 0,
         t.all.done => \A i \in 1 .. Len(s.stack) : s.stack[i].fn # "all"
  PROVE  Sound(t, X) /\ Grows(s, t)
  <1>1. /\ s \in States /\ References(s) /\ Unhandled(s) /\ OneParty(s, X)
        /\ Gathering(s) /\ OneGathering(s) /\ Grows(s, s)
    BY SoundParts
  <1>2. Grows(s, t)
    <2>1. s.all.resolver \in 1 .. Len(s.resolver)
      BY <1>1 DEF Gathering
    <2> QED
      BY <1>1, <2>1 DEF Grows, SettledStay, PairsStay, GatheringStays
  <1>3. References(t)
    <2>1. Len(t.promise) <= MaxPromises
      BY <1>1 DEF References
    <2> QED
      BY <1>1, <1>2, <2>1, ReferencesLater
  <1>4. Unhandled(t)
    BY <1>1 DEF Unhandled
  <1>5. OneParty(t, X)
    <2>1. \A q : /\ Pairs(t, q) = Pairs(s, q) /\ Asking(t, q) = Asking(s, q)
                /\ Getting(t, q) = Getting(s, q)
      BY DEF Pairs, Asking, Getting
    <2> QED
      BY <1>1, <2>1 DEF OneParty
  <1>6. Gathering(t)
    BY <1>1 DEF Gathering, Unfilled
  <1>7. OneGathering(t)
    BY <1>1 DEF OneGathering
  <1> QED
    BY <1>2, <1>3, <1>4, <1>5, <1>6, <1>7 DEF Sound

\* What is counted in a sound state.
LEMMA Counted ==
  ASSUME NEW s, NEW X, Sound(s, X), s.all # None
  PROVE  /\ s \in States /\ s.all \in Gatherings /\ s.all.called \in Seq(BOOLEAN)
         /\ s.all.resolver \in 1 .. Len(s.resolver)
         /\ s.all.held \subseteq 1 .. Len(s.all.called) /\ s.all.done \in BOOLEAN
         /\ s.all.remaining = Cardinality(Unfilled(s.all.called)) + (IF s.all.done THEN 0 ELSE 1)
         /\ Cardinality(Unfilled(s.all.called)) \in Nat /\ Len(s.all.called) \in Nat
  <1>1. s \in States /\ Gathering(s)
    BY SoundParts
  <1>2. s.all \in Gatherings
    BY <1>1, StateParts
  <1> QED
    BY <1>1, <1>2, Shared, UnfilledAreFinite DEF Gathering, Unfilled

\* A round of the iteration adds an element.
LEMMA NextElementSound ==
  ASSUME NEW s, NEW X, Sound(s, X), s.all # None, ~s.all.done, NEW t, t = NextElement(s)
  PROVE  /\ Sound(t, X) /\ Grows(s, t) /\ t.promise = s.promise /\ t.resolver = s.resolver
         /\ t.stack = s.stack /\ t.all # None /\ t.all.resolver = s.all.resolver
         /\ Len(t.all.called) = Len(s.all.called) + 1 /\ Len(s.all.called) \in Nat
         /\ t.all.held = s.all.held /\ ~t.all.done /\ t.all.remaining # 0
  <1> DEFINE n == Len(s.all.called) + 1
             a == [s.all EXCEPT !.remaining = @ + 1, !.called = Append(@, FALSE)]
  <1>1. /\ s \in States /\ s.all \in Gatherings /\ s.all.called \in Seq(BOOLEAN)
        /\ s.all.held \subseteq 1 .. Len(s.all.called)
        /\ s.all.remaining = Cardinality(Unfilled(s.all.called)) + 1
        /\ Cardinality(Unfilled(s.all.called)) \in Nat /\ Len(s.all.called) \in Nat
    BY Counted
  <1>2. /\ Append(s.all.called, FALSE) \in Seq(BOOLEAN)
        /\ Len(Append(s.all.called, FALSE)) = n /\ Append(s.all.called, FALSE)[n] = FALSE
        /\ \A i \in 1 .. Len(s.all.called) : Append(s.all.called, FALSE)[i] = s.all.called[i]
    <2> DEFINE q == s.all.called
               no == FALSE
    <2>1. no \in BOOLEAN /\ q \in Seq(BOOLEAN)
      BY <1>1
    <2> HIDE DEF q, no
    <2>2. /\ Append(q, no) \in Seq(BOOLEAN) /\ Len(Append(q, no)) = Len(q) + 1
          /\ Append(q, no)[Len(q) + 1] = no
          /\ \A i \in 1 .. Len(q) : Append(q, no)[i] = q[i]
      BY <2>1, AppendIs
    <2> QED
      BY <2>2 DEF q, no
  <1>3. /\ a \in Gatherings /\ a.resolver = s.all.resolver /\ a.remaining = s.all.remaining + 1
        /\ a.called = Append(s.all.called, FALSE) /\ a.held = s.all.held /\ a.done = s.all.done
    <2>1. s.all.remaining + 1 \in Nat
      BY <1>1
    <2> HIDE DEF n
    <2> QED
      BY <1>1, <1>2, <2>1 DEF Gatherings
  <1>4. /\ t.all = a /\ t.promise = s.promise /\ t.resolver = s.resolver /\ t.queue = s.queue
        /\ t.stack = s.stack /\ t.unhandled = s.unhandled
    BY <1>1 DEF NextElement, States
  <1>5. t \in States
    BY <1>1, <1>3, StateParts DEF NextElement, States
  <1> HIDE DEF n, a
  <1>6. /\ n \notin 1 .. Len(s.all.called) /\ 1 .. n = 1 .. Len(s.all.called) \cup {n}
        /\ Len(s.all.called) <= n /\ n = Len(s.all.called) + 1
    BY <1>1 DEF n
  <1>7. Cardinality(Unfilled(a.called)) = Cardinality(Unfilled(s.all.called)) + 1
    <2>1. Unfilled(a.called) = Unfilled(s.all.called) \cup {n} /\ n \notin Unfilled(s.all.called)
      BY <1>2, <1>3, <1>6 DEF Unfilled
    <2> QED
      BY <1>1, <2>1, UnfilledAreFinite, FS_AddElement
  <1>8. a # None
    BY <1>3, ValuesAreApart
  <1>9. Sound(t, X) /\ Grows(s, t)
    <2>1. t.all.held \subseteq 1 .. Len(t.all.called)
      BY <1>1, <1>2, <1>3, <1>4, <1>6
    <2>2. t.all.remaining = Cardinality(Unfilled(t.all.called)) + (IF t.all.done THEN 0 ELSE 1)
      BY <1>1, <1>3, <1>4, <1>7
    <2>3. s.all.remaining # 0
      BY <1>1
    <2>4. Len(s.all.called) <= Len(t.all.called) /\ ~t.all.done /\ t.all.resolver = s.all.resolver
          /\ t.all # None
      BY <1>2, <1>3, <1>4, <1>6, <1>8
    <2> QED
      BY <1>4, <1>5, <2>1, <2>2, <2>3, <2>4, SharedSound
  <1>10. a.remaining # 0
    BY <1>1, <1>3
  <1> QED
    BY <1>1, <1>2, <1>3, <1>4, <1>6, <1>8, <1>9, <1>10

\* An element is filled once; the last one resolves the promise.
LEMMA ResolveElementSound ==
  ASSUME NEW s, NEW X, Sound(s, X), s.all # None, NEW i \in 1 .. Len(s.all.called),
         NEW t, t = ResolveElement(s, i)
  PROVE  Sound(t, X) /\ Grows(s, t) /\ NoNewHandler(s, t) /\ (Gathered(s) => Gathered(t))
  <1> DEFINE a == [s.all EXCEPT !.called = [s.all.called EXCEPT ![i] = TRUE], !.remaining = @ - 1]
             u == [s EXCEPT !.all.called[i] = TRUE, !.all.remaining = @ - 1]
  <1>1. /\ s \in States /\ s.all \in Gatherings /\ s.all.called \in Seq(BOOLEAN)
        /\ s.all.resolver \in 1 .. Len(s.resolver)
        /\ s.all.held \subseteq 1 .. Len(s.all.called) /\ s.all.done \in BOOLEAN
        /\ s.all.remaining = Cardinality(Unfilled(s.all.called)) + (IF s.all.done THEN 0 ELSE 1)
        /\ Cardinality(Unfilled(s.all.called)) \in Nat /\ Len(s.all.called) \in Nat
    BY Counted
  <1>2. CASE s.all.called[i]
    <2>1. t = s
      BY <1>2 DEF ResolveElement
    <2> QED
      BY <2>1, SoundParts DEF NoNewHandler
  <1>3. CASE ~s.all.called[i]
    <2>1. /\ [s.all.called EXCEPT ![i] = TRUE] \in Seq(BOOLEAN)
          /\ Len([s.all.called EXCEPT ![i] = TRUE]) = Len(s.all.called)
          /\ \A h \in 1 .. Len(s.all.called) :
               [s.all.called EXCEPT ![i] = TRUE][h] = (IF h = i THEN TRUE ELSE s.all.called[h])
      <3> DEFINE q == s.all.called
                 yes == TRUE
      <3>1. yes \in BOOLEAN /\ q \in Seq(BOOLEAN) /\ i \in 1 .. Len(q)
        BY <1>1
      <3> HIDE DEF q, yes
      <3>2. /\ [q EXCEPT ![i] = yes] \in Seq(BOOLEAN) /\ Len([q EXCEPT ![i] = yes]) = Len(q)
            /\ [q EXCEPT ![i] = yes][i] = yes
            /\ \A h \in 1 .. Len(q) : h # i => [q EXCEPT ![i] = yes][h] = q[h]
        BY <3>1, ExceptIs
      <3> QED
        BY <3>2 DEF q, yes
    <2>2. /\ i \in Unfilled(s.all.called)
          /\ Unfilled([s.all.called EXCEPT ![i] = TRUE]) = Unfilled(s.all.called) \ {i}
      BY <1>3, <2>1 DEF Unfilled
    <2>3. /\ Cardinality(Unfilled([s.all.called EXCEPT ![i] = TRUE]))
               = Cardinality(Unfilled(s.all.called)) - 1
          /\ Cardinality(Unfilled([s.all.called EXCEPT ![i] = TRUE])) \in Nat
      <3>1. IsFiniteSet(Unfilled(s.all.called))
        BY <1>1, UnfilledAreFinite
      <3>2. Cardinality(Unfilled(s.all.called) \ {i}) = Cardinality(Unfilled(s.all.called)) - 1
        BY <2>2, <3>1, FS_RemoveElement
      <3>3. Cardinality(Unfilled([s.all.called EXCEPT ![i] = TRUE])) \in Nat
        BY <2>1, UnfilledAreFinite
      <3> QED
        BY <2>2, <3>2, <3>3
    <2>4. s.all.remaining - 1 \in Nat /\ s.all.remaining # 0
      BY <1>1, <2>3
    <2>5. /\ a \in Gatherings /\ a.resolver = s.all.resolver /\ a.remaining = s.all.remaining - 1
          /\ a.called = [s.all.called EXCEPT ![i] = TRUE] /\ a.held = s.all.held
          /\ a.done = s.all.done
      BY <1>1, <2>1, <2>4 DEF Gatherings
    <2>6. /\ u.all = a /\ u.promise = s.promise /\ u.resolver = s.resolver /\ u.queue = s.queue
          /\ u.stack = s.stack /\ u.unhandled = s.unhandled
      BY <1>1 DEF States, Gatherings
    <2>7. u \in States
      BY <1>1, <2>5, <2>6, StateParts DEF States
    <2>8. a # None
      BY <2>5, ValuesAreApart
    <2>9. t = IF u.all.remaining = 0 THEN Resolve(u, s.all.resolver, AllValues) ELSE u
      BY <1>3 DEF ResolveElement
    <2> HIDE DEF a, u
    <2>10. Sound(u, X) /\ Grows(s, u)
      <3>1. u.all.remaining = Cardinality(Unfilled(u.all.called)) + (IF u.all.done THEN 0 ELSE 1)
        BY <1>1, <2>3, <2>5, <2>6
      <3>2. s.all.remaining # 0 /\ u.all.held \subseteq 1 .. Len(u.all.called)
            /\ Len(s.all.called) <= Len(u.all.called)
            /\ u.all.resolver = s.all.resolver /\ u.all # None /\ u.all.done = s.all.done
        BY <1>1, <2>1, <2>4, <2>5, <2>6, <2>8
      <3>3. s.all.done => \A h \in 1 .. Len(s.stack) : s.stack[h].fn # "all"
        BY SoundParts DEF OneGathering
      <3> QED
        BY <2>6, <2>7, <3>1, <3>2, <3>3, SharedSound
    <2>11. CASE u.all.remaining # 0
      BY <2>6, <2>9, <2>10, <2>11 DEF NoNewHandler, Gathered
    <2>12. CASE u.all.remaining = 0
      <3>1. AllValues \in Values /\ AllValues \notin 1 .. MaxPromises
        BY ValuesAreApart DEF Values
      <3>2. s.all.resolver \in 1 .. Len(u.resolver) /\ u.all.resolver = s.all.resolver
        BY <1>1, <2>5, <2>6
      <3>3. t = Resolve(u, s.all.resolver, AllValues)
        BY <2>9, <2>12
      <3>4. /\ Sound(t, X) /\ Grows(u, t) /\ NoNewHandler(u, t) /\ t.all = u.all
            /\ t.resolver[s.all.resolver].alreadyResolved
        BY <2>10, <2>12, <3>1, <3>2, <3>3, ResolveSound
      <3>5. Grows(s, t)
        BY <2>10, <3>4, GrowsOn, SoundParts
      <3>6. NoNewHandler(s, t) /\ Gathered(t)
        BY <2>6, <3>2, <3>4 DEF NoNewHandler, Gathered
      <3> QED
        BY <3>4, <3>5, <3>6
    <2> QED
      BY <2>11, <2>12
  <1> QED
    BY <1>2, <1>3

\* A state is the record of its parts.
LEMMA Rebuilt ==
  ASSUME NEW s \in States
  PROVE  s = [promise |-> s.promise, resolver |-> s.resolver, queue |-> s.queue,
              stack |-> s.stack, unhandled |-> s.unhandled, all |-> s.all,
              registered |-> s.registered]
  BY DEF States

Hold(s, k, held) == [s EXCEPT !.resolver[k].held = held]

\* Content is given functions of a pair to keep.
LEMMA HeldSound ==
  ASSUME NEW s, NEW X, Sound(s, X), NEW k \in 1 .. Len(s.resolver),
         NEW held \in SUBSET {"resolve", "reject"},
         s.all # None /\ k = s.all.resolver => "resolve" \notin held,
         NEW t, t = Hold(s, k, held)
  PROVE  Sound(t, X) /\ Grows(s, t) /\ t.stack = s.stack /\ (Gathered(s) => Gathered(t))
  <1> DEFINE r == [s.resolver[k] EXCEPT !.held = held]
  <1>1. /\ s \in States /\ References(s) /\ Unhandled(s) /\ OneParty(s, X)
        /\ Gathering(s) /\ OneGathering(s) /\ Grows(s, s)
    BY SoundParts
  <1>2. /\ t.resolver = [s.resolver EXCEPT ![k] = r]
        /\ t.promise = s.promise /\ t.queue = s.queue
        /\ t.stack = s.stack /\ t.unhandled = s.unhandled /\ t.all = s.all
    BY <1>1 DEF Hold, States
  <1>3. /\ r \in Resolvers /\ r.promise = s.resolver[k].promise
        /\ r.alreadyResolved = s.resolver[k].alreadyResolved /\ r.held = held
    <2>1. s.resolver[k] \in Resolvers
      BY <1>1, Members
    <2> QED
      BY <2>1 DEF Resolvers
  <1>4. t \in States
    <2>1. [s.resolver EXCEPT ![k] = r] \in Seq(Resolvers)
      BY <1>1, <1>3, StateParts
    <2> QED
      BY <1>1, <2>1 DEF Hold, States
  <1>5. /\ Len(s.resolver) \in Nat /\ Len(t.resolver) = Len(s.resolver)
        /\ \A m \in 1 .. Len(s.resolver) : m # k => t.resolver[m] = s.resolver[m]
        /\ t.resolver[k] = r
    BY <1>1, <1>2, StateParts
  <1> HIDE DEF r
  <1>6. \A m \in 1 .. Len(s.resolver) :
          /\ t.resolver[m].promise = s.resolver[m].promise
          /\ t.resolver[m].alreadyResolved = s.resolver[m].alreadyResolved
          /\ t.resolver[m].held = IF m = k THEN held ELSE s.resolver[m].held
    BY <1>3, <1>5
  <1>7. Grows(s, t)
    <2>1. PairsStay(s, t)
      BY <1>5, <1>6 DEF PairsStay
    <2>2. SettledStay(s, t) /\ GatheringStays(s, t)
      BY <1>1, <1>2 DEF Grows, SettledStay, GatheringStays
    <2> QED
      BY <2>1, <2>2 DEF Grows
  <1>8. References(t)
    <2>1. Len(t.promise) <= MaxPromises
      BY <1>1, <1>2 DEF References
    <2> QED
      BY <1>1, <1>2, <1>4, <1>5, <1>7, <2>1, ReferencesLater
  <1>9. Unhandled(t) /\ OneGathering(t)
    BY <1>1, <1>2 DEF Unhandled, OneGathering
  <1>10. OneParty(t, X)
    <2>1. \A q : Asking(t, q) = Asking(s, q) /\ Getting(t, q) = Getting(s, q)
      BY <1>2 DEF Asking, Getting
    <2>2. \A q : Pairs(t, q) = Pairs(s, q)
      BY <1>5, <1>6 DEF Pairs
    <2>3. \A q : Parties(t, q) = Parties(s, q)
      BY <2>1, <2>2 DEF Parties
    <2> QED
      BY <1>1, <1>2, <1>4, <2>3, OnePartyLater
  <1>11. Gathering(t)
    <2>1. ASSUME s.all # None
          PROVE  /\ s.all.resolver \in 1 .. Len(s.resolver)
                 /\ "resolve" \notin t.resolver[s.all.resolver].held
      BY <1>1, <1>6, <2>1 DEF Gathering
    <2> QED
      BY <1>1, <1>2, <1>5, <1>6, <2>1, SMTT(40) DEF Gathering
  <1>12. Gathered(s) => Gathered(t)
    BY <1>1, <1>2, <1>6, GatheredLater
  <1> QED
    BY <1>2, <1>4, <1>7, <1>8, <1>9, <1>10, <1>11, <1>12 DEF Sound

\* The handlers that are not content's, and their answers.
LEMMA ApplySound ==
  ASSUME NEW s, NEW X, Sound(s, X), NEW j \in ReactionJobs, GoodJob(s, j), j.handler # Content,
         NEW t, t = Apply(s, j)
  PROVE  Sound(t, X) /\ Grows(s, t) /\ NoNewHandler(s, t) /\ (Gathered(s) => Gathered(t))
  <1>1. /\ j.kind = "reaction" /\ j.handler \in Handlers /\ j.argument \in Values
        /\ j.capability \in Capabilities
    BY DEF ReactionJobs
  <1>2. /\ j.promise \in 1 .. Len(s.promise) /\ s.promise[j.promise].result = j.argument
        /\ GoodHandler(s, j.handler) /\ Capable(s, j.capability)
    BY <1>1 DEF GoodJob
  <1>3. j.argument \notin 1 .. MaxPromises
    BY <1>2, SoundParts DEF References, GoodPromise
  <1>4. CASE j.handler.fn = "identity"
    <2>1. t = Answer(s, j.capability, j.argument)
      BY <1>4 DEF Apply
    <2> QED
      BY <1>1, <1>2, <1>3, <2>1, AnswerSound
  <1>5. CASE j.handler.fn = "thrower"
    <2>1. t = Fail(s, j.capability, j.argument)
      BY <1>5 DEF Apply
    <2>2. j.capability # None => j.capability \in 1 .. Len(s.resolver)
      BY <1>2 DEF Capable
    <2> QED
      BY <1>1, <1>3, <2>1, <2>2, FailSound
  <1>6. CASE j.handler.fn = "resolve"
    <2>1. t = Resolve(s, j.handler.of, j.argument)
      BY <1>6 DEF Apply
    <2>2. /\ j.handler.of \in 1 .. Len(s.resolver)
          /\ s.all # None => j.handler.of # s.all.resolver
      BY <1>2, <1>6 DEF GoodHandler, Capable
    <2>3. /\ Sound(t, X) /\ Grows(s, t) /\ NoNewHandler(s, t) /\ t.all = s.all
          /\ \A m \in 1 .. Len(s.resolver) :
               s.resolver[m].alreadyResolved => t.resolver[m].alreadyResolved
      BY <1>1, <1>3, <2>1, <2>2, ResolveSound
    <2> QED
      BY <2>3, SoundParts, GatheredLater
  <1>7. CASE j.handler.fn = "reject"
    <2>1. t = Reject(s, j.handler.of, j.argument)
      BY <1>7 DEF Apply
    <2>2. j.handler.of \in 1 .. Len(s.resolver)
      BY <1>2, <1>7 DEF GoodHandler
    <2>3. /\ Sound(t, X) /\ Grows(s, t) /\ t.stack = s.stack /\ t.all = s.all
          /\ \A m \in 1 .. Len(s.resolver) :
               s.resolver[m].alreadyResolved => t.resolver[m].alreadyResolved
      BY <1>1, <1>3, <2>1, <2>2, RejectSound
    <2> QED
      BY <2>3, SoundParts, GatheredLater DEF NoNewHandler
  <1>8. CASE j.handler.fn = "element"
    <2>1. t = ResolveElement(s, j.handler.of)
      BY <1>8 DEF Apply
    <2>2. s.all # None /\ j.handler.of \in 1 .. Len(s.all.called)
      BY <1>2, <1>8 DEF GoodHandler
    <2> QED
      BY <2>1, <2>2, ResolveElementSound
  <1>9. j.handler.fn # "content"
    <2>1. j.handler.fn = "content" => j.handler.of = None
      BY <1>2 DEF GoodHandler
    <2>2. j.handler = [fn |-> j.handler.fn, of |-> j.handler.of]
      BY <1>1 DEF Handlers
    <2> QED
      BY <2>1, <2>2 DEF Content, Handler
  <1> QED
    BY <1>1, <1>4, <1>5, <1>6, <1>7, <1>8, <1>9 DEF Handlers

\* A thenable is called with a new pair of functions.
LEMMA CallThenSound ==
  ASSUME NEW s, NEW X, Sound(s, X), NEW j \in ThenableJobs, GoodJob(s, j), j.promise \in X,
         NEW t, t = CallThen(s, j)
  PROVE  Sound(t, X \ {j.promise}) /\ Grows(s, t) /\ NoNewHandler(s, t)
         /\ (Gathered(s) => Gathered(t))
  <1> DEFINE k == Len(s.resolver) + 1
             p == j.promise
  <1>1. /\ j.kind = "thenable" /\ p \in 1 .. Len(s.promise) /\ MayGet(s, p)
        /\ j.thenable \notin Objects => j.thenable \in 1 .. Len(s.promise)
    BY DEF ThenableJobs, GoodJob
  <1>2. s \in States /\ Gathering(s) /\ Len(s.resolver) \in Nat
    BY SoundParts, Lengths
  <1>3. CASE j.thenable \in Objects
    <2> DEFINE held == {"resolve", "reject"}
               u == NewResolver(s, p, held)
               f == [fn |-> "then", resolver |-> k]
    <2>1. /\ Sound(u, X \ {p}) /\ Grows(s, u)
          /\ Len(u.resolver) = Len(s.resolver) + 1 /\ Capable(u, k)
          /\ \A m \in 1 .. Len(s.resolver) : u.resolver[m] = s.resolver[m]
          /\ u.stack = s.stack /\ u.promise = s.promise /\ u.all = s.all
      <3>1. held \in SUBSET {"resolve", "reject"} /\ k = Len(s.resolver) + 1
            /\ u = NewResolver(s, p, held) /\ p \in X
        OBVIOUS
      <3> HIDE DEF held, u, k, p
      <3>2. Sound(u, X \ {p}) /\ Grows(s, u) /\ AddsPair(s, p, held, u)
        BY <1>1, <3>1, NewResolverSound
      <3> QED
        BY <3>1, <3>2 DEF AddsPair
    <2>2. t = Push(u, f)
      BY <1>3 DEF CallThen
    <2>3. f.fn = "then" /\ f.resolver = k /\ f \in Frames
      BY <1>2 DEF Frames
    <2> HIDE DEF held, u, f, k, p
    <2>4. GoodFrame(u, Len(u.stack) + 1, f)
      BY <2>1, <2>3 DEF GoodFrame
    <2>5. /\ Sound(t, X \ {p}) /\ Grows(u, t) /\ NoNewHandler(u, t)
          /\ t.resolver = u.resolver /\ t.all = u.all
      <3>1. X \ {p} = IF f.fn = "getThen" THEN (X \ {p}) \ {f.promise} ELSE X \ {p}
        BY <2>3
      <3> QED
        BY <2>1, <2>2, <2>3, <2>4, <3>1, PushSound DEF OnlyPushes
    <2>6. Grows(s, t)
      BY <2>1, <2>5, SoundGrows
    <2>7. Gathered(s) => Gathered(t)
      BY <1>2, <2>1, <2>5, GatheredLater
    <2> QED
      BY <2>1, <2>5, <2>6, <2>7 DEF NoNewHandler, p
  <1>4. CASE j.thenable \notin Objects
    <2> DEFINE held == {}
               u == NewResolver(s, p, held)
               f == Handler("resolve", k)
               g == Handler("reject", k)
    <2>1. /\ Sound(u, X \ {p}) /\ Grows(s, u)
          /\ Len(u.resolver) = Len(s.resolver) + 1 /\ Capable(u, k)
          /\ \A m \in 1 .. Len(s.resolver) : u.resolver[m] = s.resolver[m]
          /\ u.stack = s.stack /\ u.promise = s.promise /\ u.all = s.all
      <3>1. held \in SUBSET {"resolve", "reject"} /\ k = Len(s.resolver) + 1
            /\ u = NewResolver(s, p, held) /\ p \in X
        OBVIOUS
      <3> HIDE DEF held, u, k, p
      <3>2. Sound(u, X \ {p}) /\ Grows(s, u) /\ AddsPair(s, p, held, u)
        BY <1>1, <3>1, NewResolverSound
      <3> QED
        BY <3>1, <3>2 DEF AddsPair
    <2>2. t = PerformThen(u, j.thenable, f, g, None)
      BY <1>4 DEF CallThen
    <2>3. /\ f.fn = "resolve" /\ f.of = k /\ f \in Handlers
          /\ g.fn = "reject" /\ g.of = k /\ g \in Handlers
      BY <1>2 DEF Handler, Handlers
    <2>4. k # None /\ k \in 1 .. Len(u.resolver)
      <3>1. k \in Nat /\ k >= 1
        BY <1>2
      <3> HIDE DEF k, u
      <3>2. k # None
        BY <3>1, ValuesAreApart
      <3> QED
        BY <2>1, <3>1, <3>2 DEF k
    <2> HIDE DEF held, u, f, g, k, p
    <2>5. GoodHandler(u, f) /\ GoodHandler(u, g) /\ Capable(u, None) /\ None \in Capabilities
      BY <2>1, <2>3, <2>4 DEF GoodHandler, Capable, Capabilities
    <2>6. /\ Sound(t, X \ {p}) /\ Grows(u, t)
          /\ t.resolver = u.resolver /\ t.stack = u.stack /\ t.all = u.all
      BY <1>1, <1>4, <2>1, <2>2, <2>3, <2>5, PerformThenSound
    <2>7. Grows(s, t)
      BY <2>1, <2>6, SoundGrows
    <2>8. Gathered(s) => Gathered(t)
      BY <1>2, <2>1, <2>6, GatheredLater
    <2> QED
      BY <2>1, <2>6, <2>7, <2>8 DEF NoNewHandler, p
  <1> QED
    BY <1>3, <1>4

\* What a new promise and its pair are, and what they leave alone.
AddsPromise(s, held, t) ==
  /\ Len(t.resolver) = Len(s.resolver) + 1 /\ Capable(t, Len(s.resolver) + 1)
  /\ t.resolver[Len(s.resolver) + 1].promise = Len(s.promise) + 1
  /\ t.resolver[Len(s.resolver) + 1].held = held
  /\ \A k \in 1 .. Len(s.resolver) : t.resolver[k] = s.resolver[k]
  /\ t.promise = NewPromise(s).promise /\ Len(t.promise) = Len(s.promise) + 1
  /\ t.stack = s.stack /\ t.all = s.all

\* A new promise and its pair.
LEMMA NewPairSound ==
  ASSUME NEW s, Sound(s, {}), Len(s.promise) < MaxPromises,
         NEW held \in SUBSET {"resolve", "reject"},
         NEW t, t = NewResolver(NewPromise(s), Len(s.promise) + 1, held)
  PROVE  /\ Sound(t, {}) /\ Grows(s, t) /\ (Gathered(s) => Gathered(t))
         /\ AddsPromise(s, held, t)
  <1> DEFINE p == Len(s.promise) + 1
             u == NewPromise(s)
  <1>1. s \in States /\ Gathering(s) /\ References(s) /\ Len(s.promise) \in Nat
    BY SoundParts, Lengths
  <1>2. /\ Sound(u, {p}) /\ Grows(s, u) /\ Len(u.promise) = p
        /\ u.stack = s.stack /\ u.resolver = s.resolver /\ u.all = s.all
    <2>1. {} \cup {p} = {p}
      OBVIOUS
    <2> QED
      BY <2>1, NewPromiseSound, SMTT(40)
  <1>3. p \in 1 .. Len(u.promise) /\ p \notin 1 .. Len(s.promise)
    BY <1>1, <1>2
  <1>4. MayGet(u, p)
    BY <1>1, <1>2, <1>3 DEF MayGet, Gathers, Gathering, References
  <1>5. {p} \ {p} = {} /\ p \in {p}
    OBVIOUS
  <1>6. t = NewResolver(u, p, held)
    OBVIOUS
  <1> HIDE DEF p, u
  <1>7. /\ Sound(t, {}) /\ Grows(u, t)
        /\ Len(t.resolver) = Len(u.resolver) + 1 /\ Capable(t, Len(u.resolver) + 1)
        /\ t.resolver[Len(u.resolver) + 1].promise = p
        /\ t.resolver[Len(u.resolver) + 1].held = held
        /\ \A k \in 1 .. Len(u.resolver) : t.resolver[k] = u.resolver[k]
        /\ t.stack = u.stack /\ t.promise = u.promise /\ t.all = u.all
    <2> DEFINE Z == {p}
    <2>1. Sound(u, Z) /\ p \in Z
      BY <1>2
    <2>2. Z \ {p} = {}
      OBVIOUS
    <2> HIDE DEF Z
    <2>3. Sound(t, Z \ {p}) /\ Grows(u, t) /\ AddsPair(u, p, held, t)
      BY <1>3, <1>4, <1>6, <2>1, NewResolverSound
    <2>4. Sound(t, {})
      BY <2>2, <2>3, Zenon
    <2> QED
      BY <2>3, <2>4 DEF AddsPair
  <1>8. Grows(s, t)
    BY <1>2, <1>7, SoundGrows
  <1>9. Gathered(s) => Gathered(t)
    BY <1>1, <1>2, <1>7, GatheredLater
  <1> QED
    BY <1>2, <1>7, <1>8, <1>9 DEF p, u, AddsPromise

BeginAll(s) ==
  [NewCapability(s) EXCEPT !.all = [resolver |-> Len(s.resolver) + 1, remaining |-> 1,
                                    called |-> <<>>, held |-> {}, done |-> FALSE]]

\* Promise.all begins, with a pair that nobody else has.
LEMMA BeginAllSound ==
  ASSUME NEW s, Sound(s, {}), s.all = None, Len(s.promise) < MaxPromises,
         NEW t, t = BeginAll(s)
  PROVE  /\ Sound(t, {}) /\ Grows(s, t) /\ Gathered(t) /\ t.stack = s.stack
         /\ t.all # None /\ t.all.resolver = Len(s.resolver) + 1 /\ ~t.all.done
  <1> DEFINE k == Len(s.resolver) + 1
             n == Len(s.promise) + 1
             a == [resolver |-> k, remaining |-> 1, called |-> <<>>, held |-> {}, done |-> FALSE]
             u == NewCapability(s)
             r == [state |-> "pending", result |-> None, reactions |-> <<>>, handled |-> FALSE]
  <1>1. /\ s \in States /\ References(s) /\ Gathering(s) /\ OneGathering(s)
        /\ Len(s.promise) \in Nat /\ Len(s.resolver) \in Nat
    BY SoundParts, Lengths
  <1>2. /\ Sound(u, {}) /\ Grows(s, u)
        /\ Len(u.resolver) = k /\ u.resolver[k].promise = n /\ u.resolver[k].held = {}
        /\ \A m \in 1 .. Len(s.resolver) : u.resolver[m] = s.resolver[m]
        /\ u.promise = NewPromise(s).promise /\ Len(u.promise) = n
        /\ u.stack = s.stack /\ u.all = s.all
    BY NewPairSound DEF NewCapability, AddsPromise
  <1>3. /\ u \in States /\ Unhandled(u) /\ OneParty(u, {})
    BY <1>2, SoundParts
  <1>4. /\ a \in Gatherings /\ a.resolver = k /\ a.remaining = 1 /\ a.called = <<>> /\ a.held = {}
        /\ a.done = FALSE /\ a # None
    <2>1. <<>> \in Seq(BOOLEAN) /\ k \in Nat /\ 1 \in Nat /\ {} \in SUBSET Nat
      BY <1>1
    <2> HIDE DEF k
    <2>2. a \in Gatherings
      BY <2>1 DEF Gatherings
    <2>3. a # None
      BY <2>2, ValuesAreApart
    <2> QED
      BY <2>2, <2>3
  <1>5. /\ u.promise = Append(s.promise, r) /\ u.queue = s.queue
    BY <1>1, <1>2 DEF NewCapability, NewPromise, NewResolver, States
  <1>6. /\ t.all = a /\ t.promise = u.promise /\ t.resolver = u.resolver /\ t.queue = u.queue
        /\ t.stack = u.stack /\ t.unhandled = u.unhandled
    BY <1>3 DEF BeginAll, States
  <1>7. t \in States
    BY <1>3, <1>4, StateParts DEF BeginAll, States
  <1>8. /\ u.promise[n] = r /\ \A p \in 1 .. Len(s.promise) : u.promise[p] = s.promise[p]
    BY <1>1, <1>5, StateParts
  <1>9. r.state = "pending" /\ r.result = None /\ r.reactions = <<>>
    OBVIOUS
  <1> HIDE DEF k, n, a, u, r
  <1>10. /\ k \in Nat /\ n \in Nat /\ k = Len(s.resolver) + 1 /\ n = Len(s.promise) + 1
         /\ 1 .. k = 1 .. Len(s.resolver) \cup {k} /\ k \notin 1 .. Len(s.resolver)
         /\ 1 .. n = 1 .. Len(s.promise) \cup {n} /\ n \notin 1 .. Len(s.promise)
         /\ n \in 1 .. n /\ k \in 1 .. k /\ k \in Len(s.resolver) + 1 .. k /\ n > Len(s.promise)
    BY <1>1 DEF k, n
  <1>11. Grows(s, t)
    <2>1. GatheringStays(s, t)
      BY <1>2, <1>4, <1>6, <1>10 DEF GatheringStays
    <2>2. SettledStay(s, t) /\ PairsStay(s, t)
      BY <1>2, <1>6 DEF Grows, SettledStay, PairsStay
    <2> QED
      BY <2>1, <2>2 DEF Grows
  <1>12. References(t)
    <2>1. GoodPromise(t, r)
      BY <1>9, ValuesAreApart DEF GoodPromise
    <2>2. \A q \in 1 .. Len(t.promise) :
            \/ GoodPromise(t, t.promise[q])
            \/ /\ q \in 1 .. Len(s.promise) /\ t.promise[q].state = s.promise[q].state
               /\ t.promise[q].result = s.promise[q].result
               /\ t.promise[q].reactions = s.promise[q].reactions
      BY <1>2, <1>6, <1>8, <1>10, <2>1
    <2>3. Len(t.promise) <= MaxPromises
      BY <1>1, <1>2, <1>6, <1>10, ValuesAreApart
    <2>4. \A m \in 1 .. Len(t.resolver) :
            t.resolver[m].promise \in 1 .. Len(t.promise) \/ m \in 1 .. Len(s.resolver)
      BY <1>2, <1>6, <1>10, SMTT(40)
    <2> QED
      BY <1>1, <1>2, <1>5, <1>6, <1>7, <1>11, <2>2, <2>3, <2>4, ReferencesLater
  <1>13. Unhandled(t) /\ OneParty(t, {})
    BY <1>3, <1>6 DEF Unhandled, OneParty, Pairs, Asking, Getting
  <1>14. Gathering(t)
    <2>1. ASSUME NEW m \in 1 .. Len(t.resolver), t.resolver[m].promise = n
          PROVE  m = k
      <3>1. m \in 1 .. Len(s.resolver) \/ m = k
        BY <1>2, <1>6, <1>10
      <3>2. CASE m \in 1 .. Len(s.resolver)
        <4>1. t.resolver[m].promise = s.resolver[m].promise
          BY <1>2, <1>6, <3>2
        <4>2. s.resolver[m].promise \in 1 .. Len(s.promise)
          BY <1>1, <3>2 DEF References
        <4> QED
          BY <1>10, <2>1, <4>1, <4>2
      <3> QED
        BY <3>1, <3>2
    <2>2. Unfilled(t.all.called) = {}
      BY <1>4, <1>6 DEF Unfilled
    <2>3. t.all.remaining = Cardinality(Unfilled(t.all.called)) + (IF t.all.done THEN 0 ELSE 1)
      <3>1. Cardinality(Unfilled(t.all.called)) = 0
        BY <2>2, FS_EmptySet
      <3>2. t.all.remaining = 1 /\ t.all.done = FALSE
        BY <1>4, <1>6
      <3> QED
        BY <3>1, <3>2
    <2>4. t.promise[n].state # "fulfilled"
      BY <1>6, <1>8, <1>9
    <2> QED
      BY <1>2, <1>4, <1>6, <1>10, <2>1, <2>3, <2>4, ZenonT(80) DEF Gathering, Unfilled
  <1>15. OneGathering(t)
    BY <1>1, <1>2, <1>6 DEF OneGathering
  <1>16. Gathered(t)
    BY <1>4, <1>6 DEF Gathered
  <1> QED
    BY <1>2, <1>4, <1>6, <1>7, <1>10, <1>11, <1>12, <1>13, <1>14, <1>15, <1>16 DEF Sound

-----------------------------------------------------------------------------
(* The steps.                                                                *)

\* The state and its record.
LEMMA NowParts ==
  ASSUME PInv
  PROVE  /\ Sound(Now, {}) /\ Gathered(Now) /\ GoodRun /\ Now \in States
         /\ Now.promise = promise /\ Now.resolver = resolver /\ Now.queue = queue
         /\ Now.stack = stack /\ Now.unhandled = unhandled /\ Now.all = all
         /\ Now.registered = registered
         /\ Len(promise) \in Nat /\ Len(promise) <= MaxPromises
         /\ Len(resolver) \in Nat /\ Len(queue) \in Nat /\ Len(stack) \in Nat
         /\ resolver \in Seq(Resolvers) /\ DOMAIN resolver = 1 .. Len(resolver)
         /\ promise \in Seq(PromiseRecords) /\ stack \in Seq(Frames)
         /\ queue \in Seq(ThenableJobs \cup ReactionJobs) /\ all \in Gatherings \cup {None}
         /\ steps \in Nat /\ job \in ReactionJobs \cup {Idle}
  <1>1. Sound(Now, {}) /\ Gathered(Now) /\ GoodRun /\ steps \in Nat /\ job \in ReactionJobs \cup {Idle}
    BY DEF PInv
  <1>2. Now \in States /\ References(Now)
    BY <1>1, SoundParts
  <1>3. /\ Now.promise = promise /\ Now.resolver = resolver /\ Now.queue = queue
        /\ Now.stack = stack /\ Now.unhandled = unhandled /\ Now.all = all
        /\ Now.registered = registered
    BY DEF Now
  <1>4. /\ Len(promise) \in Nat /\ Len(resolver) \in Nat /\ Len(queue) \in Nat /\ Len(stack) \in Nat
    BY <1>2, <1>3, Lengths
  <1>5. Len(promise) <= MaxPromises
    BY <1>2, <1>3 DEF References
  <1>6. /\ promise \in Seq(PromiseRecords) /\ resolver \in Seq(Resolvers) /\ stack \in Seq(Frames)
        /\ queue \in Seq(ThenableJobs \cup ReactionJobs) /\ all \in Gatherings \cup {None}
    BY <1>2, <1>3, StateParts
  <1> QED
    BY <1>1, <1>2, <1>3, <1>4, <1>5, <1>6

\* A sound state becomes the next one.
LEMMA Becomes ==
  ASSUME NEW t, Sound(t, {}), Become(t)
  PROVE  Now' = t
  <1>1. t \in States
    BY SoundParts
  <1>2. t = [promise |-> t.promise, resolver |-> t.resolver, queue |-> t.queue,
             stack |-> t.stack, unhandled |-> t.unhandled, all |-> t.all,
             registered |-> t.registered]
    BY <1>1, Rebuilt
  <1> QED
    BY <1>2 DEF Become, Now

\* A step that lets the job be keeps the invariant when its functions do.
LEMMA StepKeeps ==
  ASSUME PInv, NEW t, Sound(t, {}), Grows(Now, t), NoNewHandler(Now, t), Gathered(t),
         Become(t), job' = job, steps' \in Nat
  PROVE  PInv'
  <1>1. Now' = t /\ t \in States
    BY Becomes, SoundParts
  <1>2. Now \in States /\ Now.stack = stack /\ GoodRun /\ job \in ReactionJobs \cup {Idle}
    BY NowParts
  <1>3. stack' = t.stack
    BY DEF Become
  <1>4. job # Idle => job.kind = "reaction" /\ GoodJob(t, job)
    <2>1. job # Idle => job \in ReactionJobs /\ GoodJob(Now, job) /\ job.kind = "reaction"
      BY <1>2 DEF GoodRun
    <2> QED
      BY <1>1, <1>2, <2>1, GoodLater
  <1>5. \A i \in 1 .. Len(t.stack) : t.stack[i].fn = "handler" => job # Idle /\ job.handler = Content
    BY <1>2 DEF GoodRun, NoNewHandler
  <1>6. GoodRun'
    BY <1>1, <1>3, <1>4, <1>5 DEF GoodRun
  <1> QED
    BY <1>1, <1>2, <1>6 DEF PInv

\* So does one that ends the job, when no handler of content is left.
LEMMA EndKeeps ==
  ASSUME PInv, NEW t, Sound(t, {}), Gathered(t), Become(t), job' = Idle, steps' = steps,
         \A i \in 1 .. Len(t.stack) : t.stack[i].fn # "handler"
  PROVE  PInv'
  <1>1. Now' = t /\ stack' = t.stack
    BY Becomes DEF Become
  <1>2. GoodRun'
    BY <1>1 DEF GoodRun
  <1> QED
    BY <1>1, <1>2, NowParts DEF PInv

\* new Promise.
LEMMA NewKeeps ==
  ASSUME PInv, New
  PROVE  PInv'
  <1> DEFINE k == Len(resolver) + 1
             p == Len(promise) + 1
             u == NewResolver(NewPromise(Now), p, {"resolve", "reject"})
             f == [fn |-> "executor", resolver |-> k]
             t == Push(u, f)
  <1>1. Become(t) /\ job' = job /\ steps' \in Nat /\ Len(promise) < MaxPromises
    BY NowParts DEF New, Does, MayCreate
  <1>2. /\ Sound(u, {}) /\ Grows(Now, u) /\ Gathered(u) /\ Capable(u, k)
        /\ u.stack = Now.stack
    <2>1. Sound(Now, {}) /\ Gathered(Now) /\ Now.promise = promise /\ Now.resolver = resolver
      BY NowParts
    <2> DEFINE held == {"resolve", "reject"}
    <2>2. u = NewResolver(NewPromise(Now), Len(Now.promise) + 1, held) /\ k = Len(Now.resolver) + 1
          /\ Len(Now.promise) < MaxPromises
      BY <1>1, <2>1
    <2>3. held \in SUBSET {"resolve", "reject"}
      OBVIOUS
    <2> HIDE DEF u, k, held
    <2>4. Sound(u, {}) /\ Grows(Now, u) /\ (Gathered(Now) => Gathered(u))
          /\ AddsPromise(Now, held, u)
      BY <2>1, <2>2, <2>3, NewPairSound
    <2> QED
      BY <2>1, <2>2, <2>4 DEF AddsPromise
  <1>3. f.fn = "executor" /\ f.resolver = k /\ f \in Frames
    BY NowParts DEF Frames
  <1> HIDE DEF u, f, k, p
  <1>4. GoodFrame(u, Len(u.stack) + 1, f)
    BY <1>2, <1>3 DEF GoodFrame
  <1>5. /\ Sound(t, {}) /\ Grows(u, t) /\ NoNewHandler(u, t)
        /\ t.resolver = u.resolver /\ t.all = u.all
    <2> DEFINE X == {}
    <2>1. Sound(u, X) /\ X = (IF f.fn = "getThen" THEN X \ {f.promise} ELSE X) /\ f.fn # "getThen"
      BY <1>2, <1>3
    <2> HIDE DEF X, t
    <2>2. t = Push(u, f)
      BY DEF t
    <2>3. Sound(t, X) /\ Grows(u, t) /\ OnlyPushes(u, f, t)
      BY <1>2, <1>3, <1>4, <2>1, <2>2, PushSound
    <2> QED
      BY <1>3, <2>3 DEF OnlyPushes, X
  <1>6. Grows(Now, t)
    BY <1>2, <1>5, NowParts, GrowsOn, SoundParts
  <1>7. NoNewHandler(Now, t) /\ Gathered(t)
    BY <1>2, <1>5 DEF NoNewHandler, Gathered
  <1> HIDE DEF t
  <1> QED
    BY <1>1, <1>5, <1>6, <1>7, StepKeeps

\* Content calls the resolving function of a pair.
LEMMA CallResolveKeeps ==
  ASSUME PInv, NEW k \in DOMAIN resolver, NEW v \in {Plain, Object} \cup Promises,
         CallResolve(k, v)
  PROVE  PInv'
  <1> DEFINE t == Resolve(Now, k, v)
  <1>1. Become(t) /\ job' = job /\ steps' \in Nat /\ "resolve" \in resolver[k].held
    BY NowParts DEF CallResolve, Does
  <1>2. k \in 1 .. Len(Now.resolver) /\ v \in Values /\ (v \in 1 .. MaxPromises => v \in 1 .. Len(Now.promise))
    BY NowParts, ValuesAreApart DEF Values, Promises
  <1>3. Now.all # None => k # Now.all.resolver
    BY <1>1, NowParts, SoundParts DEF Gathering
  <1> HIDE DEF t
  <1>4. /\ Sound(t, {}) /\ Grows(Now, t) /\ NoNewHandler(Now, t) /\ t.all = Now.all
        /\ \A m \in 1 .. Len(Now.resolver) :
             Now.resolver[m].alreadyResolved => t.resolver[m].alreadyResolved
    BY <1>2, <1>3, NowParts, ResolveSound DEF t
  <1>5. Gathered(t)
    BY <1>4, NowParts, SoundParts, GatheredLater
  <1> QED
    BY <1>1, <1>4, <1>5, StepKeeps

\* Content calls the rejecting function of a pair.
LEMMA CallRejectKeeps ==
  ASSUME PInv, NEW k \in DOMAIN resolver, CallReject(k)
  PROVE  PInv'
  <1> DEFINE t == Reject(Now, k, Thrown)
  <1>1. Become(t) /\ job' = job /\ steps' \in Nat
    BY NowParts DEF CallReject, Does
  <1>2. k \in 1 .. Len(Now.resolver) /\ Thrown \in Values /\ Thrown \notin 1 .. MaxPromises
    BY NowParts, ValuesAreApart DEF Values
  <1> HIDE DEF t
  <1>3. /\ Sound(t, {}) /\ Grows(Now, t) /\ t.stack = Now.stack /\ t.all = Now.all
        /\ \A m \in 1 .. Len(Now.resolver) :
             Now.resolver[m].alreadyResolved => t.resolver[m].alreadyResolved
    BY <1>2, NowParts, RejectSound DEF t
  <1>4. Gathered(t) /\ NoNewHandler(Now, t)
    BY <1>3, NowParts, SoundParts, GatheredLater DEF NoNewHandler
  <1> QED
    BY <1>1, <1>3, <1>4, StepKeeps

\* Content calls `then'.
LEMMA ThenKeeps ==
  ASSUME PInv, NEW p \in Promises, NEW h \in HandlerPairs, Then(p, h[1], h[2])
  PROVE  PInv'
  <1> DEFINE k == Len(resolver) + 1
             u == NewCapability(Now)
             t == PerformThen(u, p, h[1], h[2], k)
  <1>1. Become(t) /\ job' = job /\ steps' \in Nat /\ Len(promise) < MaxPromises
    BY NowParts DEF Then, Does, MayCreate
  <1>2. /\ Sound(u, {}) /\ Grows(Now, u) /\ Gathered(u) /\ Capable(u, k)
        /\ u.stack = Now.stack /\ Len(u.promise) = Len(promise) + 1
    <2>1. Sound(Now, {}) /\ Gathered(Now) /\ Now.promise = promise /\ Now.resolver = resolver
      BY NowParts
    <2> DEFINE held == {}
    <2>2. u = NewResolver(NewPromise(Now), Len(Now.promise) + 1, held) /\ k = Len(Now.resolver) + 1
          /\ Len(Now.promise) < MaxPromises
      BY <1>1, <2>1 DEF NewCapability
    <2>3. held \in SUBSET {"resolve", "reject"}
      OBVIOUS
    <2> HIDE DEF u, k, held
    <2>4. Sound(u, {}) /\ Grows(Now, u) /\ (Gathered(Now) => Gathered(u))
          /\ AddsPromise(Now, held, u)
      BY <2>1, <2>2, <2>3, NewPairSound, ZenonT(80)
    <2> QED
      BY <2>1, <2>2, <2>4 DEF AddsPromise
  <1>3. /\ h[1] \in Handlers /\ h[1].fn \in {"identity", "thrower", "content"} /\ h[1].of = None
        /\ h[2] \in Handlers /\ h[2].fn \in {"identity", "thrower", "content"} /\ h[2].of = None
    BY HandlersAreContents DEF Handlers
  <1>4. k \in Capabilities /\ p \in 1 .. Len(u.promise)
    BY <1>2, NowParts DEF Capabilities, Promises
  <1> HIDE DEF u, k
  <1>5. GoodHandler(u, h[1]) /\ GoodHandler(u, h[2])
    BY <1>3 DEF GoodHandler
  <1>6. /\ Sound(t, {}) /\ Grows(u, t)
        /\ t.resolver = u.resolver /\ t.stack = u.stack /\ t.all = u.all
    BY <1>2, <1>3, <1>4, <1>5, PerformThenSound
  <1>7. Grows(Now, t)
    BY <1>2, <1>6, NowParts, GrowsOn, SoundParts
  <1>8. NoNewHandler(Now, t) /\ Gathered(t)
    BY <1>2, <1>6 DEF NoNewHandler, Gathered
  <1> HIDE DEF t
  <1> QED
    BY <1>1, <1>6, <1>7, <1>8, StepKeeps

\* Content calls Promise.all.
LEMMA AllKeeps ==
  ASSUME PInv, All
  PROVE  PInv'
  <1> DEFINE k == Len(resolver) + 1
             u == BeginAll(Now)
             f == [fn |-> "all", resolver |-> k]
             t == Push(u, f)
  <1>1. Become(t) /\ job' = job /\ steps' \in Nat /\ Len(promise) < MaxPromises /\ all = None
    BY NowParts DEF All, Does, MayCreate, IterationRemains, BeginAll, Now
  <1>2. /\ Sound(u, {}) /\ Grows(Now, u) /\ Gathered(u) /\ u.stack = Now.stack
        /\ u.all # None /\ u.all.resolver = k /\ ~u.all.done
    BY <1>1, NowParts, BeginAllSound
  <1>3. f.fn = "all" /\ f.resolver = k /\ f \in Frames
    BY NowParts DEF Frames
  <1>4. \A i \in 1 .. Len(u.stack) : u.stack[i].fn # "all"
    BY <1>1, <1>2, NowParts, SoundParts DEF OneGathering
  <1> HIDE DEF u, f, k
  <1>5. GoodFrame(u, Len(u.stack) + 1, f)
    BY <1>3 DEF GoodFrame
  <1>6. /\ Sound(t, {}) /\ Grows(u, t) /\ NoNewHandler(u, t)
        /\ t.resolver = u.resolver /\ t.all = u.all
    <2> DEFINE X == {}
    <2>1. Sound(u, X) /\ X = (IF f.fn = "getThen" THEN X \ {f.promise} ELSE X) /\ f.fn # "getThen"
      BY <1>2, <1>3
    <2> HIDE DEF X, t
    <2>2. t = Push(u, f)
      BY DEF t
    <2>3. Sound(t, X) /\ Grows(u, t) /\ OnlyPushes(u, f, t)
      BY <1>2, <1>3, <1>4, <1>5, <2>1, <2>2, PushSound
    <2> QED
      BY <1>3, <2>3 DEF OnlyPushes, X
  <1>7. Grows(Now, t)
    BY <1>2, <1>6, NowParts, GrowsOn, SoundParts
  <1>8. NoNewHandler(Now, t) /\ Gathered(t)
    BY <1>2, <1>6 DEF NoNewHandler, Gathered
  <1> HIDE DEF t
  <1> QED
    BY <1>1, <1>6, <1>7, <1>8, StepKeeps

\* Content calls Promise.race.
LEMMA RaceKeeps ==
  ASSUME PInv, Race
  PROVE  PInv'
  <1> DEFINE k == Len(resolver) + 1
             u == NewCapability(Now)
             f == [fn |-> "race", resolver |-> k]
             t == Push(u, f)
  <1>1. Become(t) /\ job' = job /\ steps' \in Nat /\ Len(promise) < MaxPromises
    BY NowParts DEF Race, Does, MayCreate
  <1>2. /\ Sound(u, {}) /\ Grows(Now, u) /\ Gathered(u) /\ Capable(u, k)
        /\ u.stack = Now.stack
    <2>1. Sound(Now, {}) /\ Gathered(Now) /\ Now.promise = promise /\ Now.resolver = resolver
      BY NowParts
    <2> DEFINE held == {}
    <2>2. u = NewResolver(NewPromise(Now), Len(Now.promise) + 1, held) /\ k = Len(Now.resolver) + 1
          /\ Len(Now.promise) < MaxPromises
      BY <1>1, <2>1 DEF NewCapability
    <2>3. held \in SUBSET {"resolve", "reject"}
      OBVIOUS
    <2> HIDE DEF u, k, held
    <2>4. Sound(u, {}) /\ Grows(Now, u) /\ (Gathered(Now) => Gathered(u))
          /\ AddsPromise(Now, held, u)
      BY <2>1, <2>2, <2>3, NewPairSound
    <2> QED
      BY <2>1, <2>2, <2>4 DEF AddsPromise
  <1>3. f.fn = "race" /\ f.resolver = k /\ f \in Frames
    BY NowParts DEF Frames
  <1> HIDE DEF u, f, k
  <1>4. GoodFrame(u, Len(u.stack) + 1, f)
    BY <1>2, <1>3 DEF GoodFrame
  <1>5. /\ Sound(t, {}) /\ Grows(u, t) /\ NoNewHandler(u, t)
        /\ t.resolver = u.resolver /\ t.all = u.all
    <2> DEFINE X == {}
    <2>1. Sound(u, X) /\ X = (IF f.fn = "getThen" THEN X \ {f.promise} ELSE X) /\ f.fn # "getThen"
      BY <1>2, <1>3
    <2> HIDE DEF X, t
    <2>2. t = Push(u, f)
      BY DEF t
    <2>3. Sound(t, X) /\ Grows(u, t) /\ OnlyPushes(u, f, t)
      BY <1>2, <1>3, <1>4, <2>1, <2>2, PushSound
    <2> QED
      BY <1>3, <2>3 DEF OnlyPushes, X
  <1>6. Grows(Now, t)
    BY <1>2, <1>5, NowParts, GrowsOn, SoundParts
  <1>7. NoNewHandler(Now, t) /\ Gathered(t)
    BY <1>2, <1>5 DEF NoNewHandler, Gathered
  <1> HIDE DEF t
  <1> QED
    BY <1>1, <1>5, <1>6, <1>7, StepKeeps

\* The frame that is running, and the pair it will use.
LEMMA TopFrame ==
  ASSUME PInv, stack # <<>>
  PROVE  /\ top \in Frames /\ GoodFrame(Now, Len(stack), top) /\ Len(stack) \in Nat \ {0}
         /\ top = Now.stack[Len(Now.stack)] /\ Now.stack # <<>>
         /\ top.fn = "all" => all # None /\ top.resolver = all.resolver /\ ~all.done
         /\ top.fn \in {"executor", "then", "race"} =>
              /\ top.resolver \in 1 .. Len(resolver)
              /\ all # None => top.resolver # all.resolver
         /\ top.fn = "handler" => Len(stack) = 1 /\ Capable(Now, top.capability)
  <1>1. /\ stack \in Seq(Frames) /\ Len(stack) \in Nat \ {0} /\ Len(stack) \in 1 .. Len(stack)
    BY NowParts
  <1>2. /\ top \in Frames /\ GoodFrame(Now, Len(stack), top)
        /\ top = Now.stack[Len(Now.stack)] /\ Now.stack # <<>>
    BY <1>1, NowParts, SoundParts DEF top, References
  <1>3. top.fn = "all" => all # None /\ top.resolver = all.resolver /\ ~all.done
    BY <1>1, NowParts, SoundParts DEF top, OneGathering
  <1>4. top.fn \in {"executor", "then", "race"} => top.resolver \in Nat
    BY <1>2 DEF Frames
  <1>5. top.fn \in {"executor", "then", "race"} => top.resolver # None /\ Capable(Now, top.resolver)
    BY <1>2, <1>4, ValuesAreApart DEF GoodFrame
  <1>6. top.fn \in {"executor", "then", "race"} =>
          /\ top.resolver \in 1 .. Len(resolver)
          /\ all # None => top.resolver # all.resolver
    BY <1>5, NowParts DEF Capable
  <1> QED
    BY <1>1, <1>2, <1>3, <1>6 DEF GoodFrame

\* The iteration of Promise.all meets a promise.
LEMMA AllBlocksOnKeeps ==
  ASSUME PInv, NEW p \in Promises, AllBlocksOn(p)
  PROVE  PInv'
  <1> DEFINE n == Len(all.called) + 1
             u == NextElement(Now)
             f == Handler("element", n)
             g == Handler("reject", all.resolver)
             t == PerformThen(u, p, f, g, None)
  <1>1. Become(t) /\ job' = job /\ steps' \in Nat /\ stack # <<>> /\ top.fn = "all"
    BY NowParts DEF AllBlocksOn, InFrame, Does
  <1>2. all # None /\ ~all.done /\ Now.all = all /\ Now.promise = promise
    BY <1>1, TopFrame, NowParts
  <1>3. /\ Sound(u, {}) /\ Grows(Now, u) /\ u.promise = promise /\ u.resolver = resolver
        /\ u.stack = Now.stack /\ u.all # None /\ u.all.resolver = all.resolver
        /\ Len(u.all.called) = n /\ Len(all.called) \in Nat /\ u.all.remaining # 0
    BY <1>2, NowParts, NextElementSound, ZenonT(80)
  <1>4. all.resolver \in 1 .. Len(resolver) /\ all.resolver \in Nat
    BY <1>2, NowParts, Counted
  <1>5. /\ f.fn = "element" /\ f.of = n /\ f \in Handlers /\ n \in 1 .. n
        /\ g.fn = "reject" /\ g.of = all.resolver /\ g \in Handlers
    BY <1>3, <1>4 DEF Handler, Handlers
  <1> HIDE DEF n, u, f, g
  <1>6. GoodHandler(u, f) /\ GoodHandler(u, g) /\ Capable(u, None) /\ None \in Capabilities
    BY <1>3, <1>4, <1>5 DEF GoodHandler, Capable, Capabilities
  <1>7. p \in 1 .. Len(u.promise)
    BY <1>3 DEF Promises
  <1>8. /\ Sound(t, {}) /\ Grows(u, t)
        /\ t.resolver = u.resolver /\ t.stack = u.stack /\ t.all = u.all
    BY <1>3, <1>5, <1>6, <1>7, PerformThenSound
  <1>9. Grows(Now, t)
    BY <1>3, <1>8, NowParts, GrowsOn, SoundParts
  <1>10. NoNewHandler(Now, t) /\ Gathered(t)
    BY <1>3, <1>8 DEF NoNewHandler, Gathered
  <1> HIDE DEF t
  <1> QED
    BY <1>1, <1>8, <1>9, <1>10, StepKeeps

\* Or content that keeps the functions of the element.
LEMMA AllCallsThenKeeps ==
  ASSUME PInv, AllCallsThen
  PROVE  PInv'
  <1> DEFINE n == Len(all.called) + 1
             k == all.resolver
             u == NextElement(Now)
             w == [u EXCEPT !.all.held = @ \cup {n}]
             held == w.resolver[k].held \cup {"reject"}
             t == Hold(w, k, held)
  <1>1. /\ Become([NextElement(Now) EXCEPT !.all.held = @ \cup {Len(all.called) + 1},
                                           !.resolver[all.resolver].held = @ \cup {"reject"}])
        /\ job' = job /\ steps' \in Nat /\ stack # <<>> /\ top.fn = "all"
    BY NowParts DEF AllCallsThen, InFrame, Does
  <1>2. all # None /\ ~all.done /\ Now.all = all /\ Now.promise = promise
    BY <1>1, TopFrame, NowParts
  <1>3. /\ Sound(u, {}) /\ Grows(Now, u) /\ u.promise = promise /\ u.resolver = resolver
        /\ u.stack = Now.stack /\ u.all # None /\ u.all.resolver = all.resolver
        /\ Len(u.all.called) = n /\ Len(all.called) \in Nat /\ u.all.remaining # 0 /\ ~u.all.done
        /\ u.all.held = all.held
    BY <1>2, NowParts, NextElementSound, ZenonT(80)
  <1>4. k \in 1 .. Len(resolver) /\ k \in Nat /\ resolver[k] \in Resolvers
        /\ "resolve" \notin resolver[k].held
    <2>1. Now.all # None /\ Now.all.resolver = k /\ Now.resolver = resolver /\ Now \in States
          /\ Gathering(Now) /\ Len(resolver) \in Nat
      BY <1>2, NowParts, SoundParts
    <2> HIDE DEF k
    <2>2. k \in 1 .. Len(resolver) /\ "resolve" \notin resolver[k].held
      BY <2>1 DEF Gathering
    <2> QED
      BY <2>1, <2>2, Members
  <1>5. /\ u \in States /\ u.all \in Gatherings /\ u.all.called \in Seq(BOOLEAN)
        /\ u.all.held \subseteq 1 .. Len(u.all.called) /\ u.all.done \in BOOLEAN
        /\ u.all.remaining = Cardinality(Unfilled(u.all.called)) + (IF u.all.done THEN 0 ELSE 1)
        /\ Len(u.all.called) \in Nat
    BY <1>3, Counted
  <1>6. /\ w.promise = u.promise /\ w.resolver = u.resolver /\ w.queue = u.queue
        /\ w.stack = u.stack /\ w.unhandled = u.unhandled /\ w.registered = u.registered
        /\ w.all = [u.all EXCEPT !.held = @ \cup {n}]
    BY <1>5 DEF States
  <1>7. t = [NextElement(Now) EXCEPT !.all.held = @ \cup {Len(all.called) + 1},
                                     !.resolver[all.resolver].held = @ \cup {"reject"}]
    BY <1>3, <1>4, <1>6 DEF Hold
  <1> HIDE DEF u
  <1>8. n \in 1 .. n /\ n \in Nat
    BY <1>3
  <1>9. /\ w.all \in Gatherings /\ w.all.held = u.all.held \cup {n}
        /\ w.all.called = u.all.called /\ w.all.resolver = u.all.resolver
        /\ w.all.remaining = u.all.remaining /\ w.all.done = u.all.done
    <2>1. u.all.held \cup {n} \in SUBSET Nat
      BY <1>5, <1>8 DEF Gatherings
    <2> HIDE DEF n, w
    <2> QED
      BY <1>5, <1>6, <2>1 DEF Gatherings
  <1>10. w \in States /\ w.all # None
    BY <1>5, <1>9, StateParts, ValuesAreApart DEF States
  <1> HIDE DEF w, n, k
  <1>11. Sound(w, {}) /\ Grows(u, w)
    <2>1. Len(u.all.called) <= Len(w.all.called) /\ w.all.held \subseteq 1 .. Len(w.all.called)
      BY <1>3, <1>5, <1>8, <1>9
    <2>2. w.all.remaining = Cardinality(Unfilled(w.all.called)) + (IF w.all.done THEN 0 ELSE 1)
      BY <1>5, <1>9
    <2> QED
      BY <1>3, <1>6, <1>9, <1>10, <2>1, <2>2, SharedSound
  <1>12. held \in SUBSET {"resolve", "reject"} /\ "resolve" \notin held
    BY <1>3, <1>4, <1>6 DEF Resolvers
  <1> HIDE DEF held
  <1>13. Sound(t, {}) /\ Grows(w, t) /\ t.stack = w.stack /\ (Gathered(w) => Gathered(t))
    <2>1. k \in 1 .. Len(w.resolver)
      BY <1>3, <1>4, <1>6
    <2> QED
      BY <1>11, <1>12, <2>1, HeldSound
  <1>14. Grows(Now, w) /\ Now \in States /\ w \in States /\ t \in States
    BY <1>3, <1>11, <1>13, NowParts, GrowsOn, SoundParts
  <1>15. Grows(Now, t)
    BY <1>13, <1>14, GrowsOn
  <1>16. NoNewHandler(Now, t) /\ Gathered(t)
    <2>1. Gathered(w)
      BY <1>3, <1>9 DEF Gathered
    <2> QED
      BY <1>3, <1>6, <1>13, <2>1 DEF NoNewHandler
  <1>17. Become(t)
    BY <1>1, <1>7
  <1> HIDE DEF t
  <1> QED
    BY <1>1, <1>13, <1>15, <1>16, <1>17, StepKeeps

\* Content calls the function of an element.
LEMMA CallElementKeeps ==
  ASSUME PInv, all # None, NEW i \in DOMAIN all.called, CallElement(i)
  PROVE  PInv'
  <1> DEFINE t == ResolveElement(Now, i)
  <1>1. Become(t) /\ job' = job /\ steps' \in Nat
    BY NowParts DEF CallElement, Does
  <1>2. Now.all # None /\ i \in 1 .. Len(Now.all.called)
    <2>1. Now.all = all /\ all.called \in Seq(BOOLEAN)
      BY NowParts, Counted
    <2> QED
      BY <2>1
  <1> HIDE DEF t
  <1>3. Sound(t, {}) /\ Grows(Now, t) /\ NoNewHandler(Now, t) /\ Gathered(t)
    BY <1>2, NowParts, ResolveElementSound DEF t
  <1> QED
    BY <1>1, <1>3, StepKeeps

\* The iteration of Promise.race meets a promise.
LEMMA RaceBlocksOnKeeps ==
  ASSUME PInv, NEW p \in Promises, RaceBlocksOn(p)
  PROVE  PInv'
  <1> DEFINE k == top.resolver
             f == Handler("resolve", k)
             g == Handler("reject", k)
             t == PerformThen(Now, p, f, g, None)
  <1>1. Become(t) /\ job' = job /\ steps' \in Nat /\ stack # <<>> /\ top.fn = "race"
    BY NowParts DEF RaceBlocksOn, InFrame, Does
  <1>2. k \in 1 .. Len(Now.resolver) /\ (Now.all # None => k # Now.all.resolver) /\ k \in Nat
    BY <1>1, TopFrame, NowParts
  <1>3. /\ f.fn = "resolve" /\ f.of = k /\ f \in Handlers
        /\ g.fn = "reject" /\ g.of = k /\ g \in Handlers
    BY <1>2 DEF Handler, Handlers
  <1> HIDE DEF f, g, k
  <1>4. GoodHandler(Now, f) /\ GoodHandler(Now, g) /\ Capable(Now, None) /\ None \in Capabilities
    BY <1>2, <1>3, ValuesAreApart DEF GoodHandler, Capable, Capabilities
  <1>5. p \in 1 .. Len(Now.promise)
    BY NowParts DEF Promises
  <1>6. /\ Sound(t, {}) /\ Grows(Now, t)
        /\ t.resolver = Now.resolver /\ t.stack = Now.stack /\ t.all = Now.all
    BY <1>3, <1>4, <1>5, NowParts, PerformThenSound
  <1>7. NoNewHandler(Now, t) /\ Gathered(t)
    BY <1>6, NowParts DEF NoNewHandler, Gathered
  <1> HIDE DEF t
  <1> QED
    BY <1>1, <1>6, <1>7, StepKeeps

\* Or content that keeps the functions of the race.
LEMMA RaceCallsThenKeeps ==
  ASSUME PInv, RaceCallsThen
  PROVE  PInv'
  <1> DEFINE k == top.resolver
             held == {"resolve", "reject"}
             t == Hold(Now, k, held)
  <1>1. Become(t) /\ job' = job /\ steps' \in Nat /\ stack # <<>> /\ top.fn = "race"
    BY NowParts DEF RaceCallsThen, InFrame, Does, Hold
  <1>2. k \in 1 .. Len(Now.resolver) /\ (Now.all # None => k # Now.all.resolver)
    BY <1>1, TopFrame, NowParts
  <1>3. held \in SUBSET {"resolve", "reject"}
    OBVIOUS
  <1> HIDE DEF k, held
  <1>4. Sound(t, {}) /\ Grows(Now, t) /\ t.stack = Now.stack /\ (Gathered(Now) => Gathered(t))
    BY <1>2, <1>3, NowParts, HeldSound
  <1>5. NoNewHandler(Now, t) /\ Gathered(t)
    BY <1>4, NowParts DEF NoNewHandler
  <1> HIDE DEF t
  <1> QED
    BY <1>1, <1>4, <1>5, StepKeeps

\* A frame that ends; the promise of a getter of `then' is to be handed on.
LEMMA PopNow ==
  ASSUME PInv, stack # <<>>, NEW u, u = Pop(Now),
         NEW Y, Y = IF top.fn = "getThen" THEN {top.promise} ELSE {}
  PROVE  /\ Sound(u, Y) /\ Grows(Now, u) /\ NoNewHandler(Now, u) /\ Gathered(u)
         /\ u.promise = promise /\ u.resolver = resolver /\ u.all = all
         /\ top.fn = "getThen" => /\ top.promise \in 1 .. Len(u.promise) /\ MayGet(u, top.promise)
                                  /\ Len(promise) \in Nat
         /\ top.fn = "all" => \A i \in 1 .. Len(u.stack) : u.stack[i].fn # "all"
         /\ top.fn = "handler" => Len(u.stack) = 0
  <1>1. /\ Sound(Now, {}) /\ Now.stack # <<>> /\ top = Now.stack[Len(Now.stack)]
        /\ Now.stack = stack /\ Now.promise = promise /\ Now.resolver = resolver /\ Now.all = all
        /\ Gathered(Now) /\ Len(promise) \in Nat
    BY NowParts, TopFrame
  <1>2. Y = IF top.fn = "getThen" THEN {} \cup {top.promise} ELSE {}
    OBVIOUS
  <1>3. /\ Sound(u, Y) /\ Grows(Now, u) /\ GoodFrame(u, Len(stack), top)
        /\ u.promise = promise /\ u.resolver = resolver /\ u.all = all
        /\ Len(u.stack) = Len(stack) - 1 /\ NoNewHandler(Now, u)
        /\ top.fn = "all" => \A i \in 1 .. Len(u.stack) : u.stack[i].fn # "all"
    <2> DEFINE X == {}
    <2>1. Sound(Now, X) /\ Now.stack # <<>> /\ top = Now.stack[Len(Now.stack)]
          /\ Y = IF top.fn = "getThen" THEN X \cup {top.promise} ELSE X
      BY <1>1, <1>2
    <2> HIDE DEF X
    <2>2. Sound(u, Y) /\ Grows(Now, u) /\ top \in Frames /\ GoodFrame(u, Len(Now.stack), top)
          /\ OnlyPops(Now, X, top, u)
      <3>1. ASSUME NEW f, f = Now.stack[Len(Now.stack)], NEW Z,
                   Z = IF f.fn = "getThen" THEN X \cup {f.promise} ELSE X
            PROVE  Sound(u, Z) /\ Grows(Now, u) /\ f \in Frames
                   /\ GoodFrame(u, Len(Now.stack), f) /\ OnlyPops(Now, X, f, u)
        BY <2>1, <3>1, PopSound
      <3> QED
        BY <2>1, <3>1
    <2> QED
      BY <1>1, <2>2 DEF OnlyPops
  <1>4. top.fn = "handler" => Len(u.stack) = 0
    BY <1>3, TopFrame
  <1>5. Gathered(u)
    BY <1>1, <1>3 DEF Gathered
  <1>6. top.fn = "getThen" => top.promise \in 1 .. Len(u.promise) /\ MayGet(u, top.promise)
    BY <1>3 DEF GoodFrame
  <1> QED
    BY <1>1, <1>3, <1>4, <1>5, <1>6

\* Whose `then' a getter answers for: an object's.
LEMMA GetterValue ==
  ASSUME PInv, stack # <<>>, top.fn = "getThen"
  PROVE  top.value \in Objects /\ top.value \in Values /\ top.value \notin 1 .. MaxPromises
  <1>1. top \in Frames
    BY TopFrame
  <1>2. top.value \in Objects
    BY <1>1 DEF Frames
  <1> QED
    BY <1>2, ObjectsAre

\* Content's executor, `then' or iterator returns.
LEMMA ReturnsKeeps ==
  ASSUME PInv, Returns
  PROVE  PInv'
  <1> DEFINE u == Pop(Now)
  <1>1. Become(u) /\ job' = job /\ steps' \in Nat /\ stack # <<>> /\ top.fn # "getThen"
    BY NowParts DEF Returns, Ends
  <1> HIDE DEF u
  <1>2. Sound(u, {}) /\ Grows(Now, u) /\ NoNewHandler(Now, u) /\ Gathered(u)
    BY <1>1, PopNow DEF u
  <1> QED
    BY <1>1, <1>2, StepKeeps

\* Content's getter of `then' answers with a function.
LEMMA ThenIsCallableKeeps ==
  ASSUME PInv, ThenIsCallable
  PROVE  PInv'
  <1> DEFINE p == top.promise
             u == Pop(Now)
             j == ThenableJob(p, top.value)
             t == Enqueue(u, j)
  <1>1. Become(t) /\ job' = job /\ steps' \in Nat /\ stack # <<>> /\ top.fn = "getThen"
    BY NowParts DEF ThenIsCallable, InFrame, Ends
  <1>2. /\ Sound(u, {p}) /\ Grows(Now, u) /\ NoNewHandler(Now, u) /\ Gathered(u)
        /\ u.promise = promise /\ p \in 1 .. Len(u.promise) /\ MayGet(u, p)
        /\ Len(promise) \in Nat
    BY <1>1, PopNow
  <1>3. j.kind = "thenable" /\ j.promise = p /\ j.thenable \in Objects /\ j \in ThenableJobs
    <2>1. top.value \in Objects
      BY <1>1, GetterValue
    <2> QED
      BY <1>2, <2>1 DEF ThenableJob, ThenableJobs
  <1> HIDE DEF u, j, p
  <1>4. GoodJob(u, j)
    BY <1>2, <1>3 DEF GoodJob
  <1>5. /\ Sound(t, {}) /\ Grows(u, t)
        /\ t.resolver = u.resolver /\ t.stack = u.stack /\ t.all = u.all
    <2> DEFINE X == {p}
    <2>1. {} = IF j.kind = "thenable" THEN X \ {j.promise} ELSE X
      BY <1>3
    <2>2. j.promise \in X /\ Sound(u, X) /\ j \in ThenableJobs \cup ReactionJobs
      BY <1>2, <1>3
    <2> HIDE DEF X
    <2>3. Sound(t, {}) /\ Grows(u, t) /\ OnlyEnqueues(u, t)
      BY <1>4, <2>1, <2>2, EnqueueSound
    <2> QED
      BY <2>3 DEF OnlyEnqueues
  <1>6. Grows(Now, t)
    BY <1>2, <1>5, NowParts, GrowsOn, SoundParts
  <1>7. NoNewHandler(Now, t) /\ Gathered(t)
    BY <1>2, <1>5 DEF NoNewHandler, Gathered
  <1> HIDE DEF t
  <1> QED
    BY <1>1, <1>5, <1>6, <1>7, StepKeeps

\* The getter answers with something else, or throws: the promise is settled.
LEMMA GetterSettles ==
  ASSUME PInv, stack # <<>>, top.fn = "getThen", NEW state \in Settled,
         NEW v \in Values, v \notin 1 .. MaxPromises,
         NEW t, t = Settle(Pop(Now), top.promise, state, v),
         Become(t), job' = job, steps' \in Nat
  PROVE  PInv'
  <1> DEFINE p == top.promise
             u == Pop(Now)
  <1>1. /\ Sound(u, {p}) /\ Grows(Now, u) /\ NoNewHandler(Now, u) /\ Gathered(u)
        /\ u.promise = promise /\ p \in 1 .. Len(u.promise) /\ MayGet(u, p)
    BY PopNow
  <1>2. t = Settle(u, p, state, v) /\ {p} \ {p} = {} /\ p \in {p}
    OBVIOUS
  <1> HIDE DEF u, p
  <1>3. /\ Sound(t, {}) /\ Grows(u, t)
        /\ t.resolver = u.resolver /\ t.stack = u.stack /\ t.all = u.all
    <2> DEFINE X == {p}
    <2>1. Sound(u, X) /\ p \in X /\ X \ {p} = {}
      BY <1>1
    <2> HIDE DEF X
    <2>2. Sound(t, {}) /\ Grows(u, t) /\ OnlySettles(u, t)
      BY <1>1, <1>2, <2>1, SettleSound DEF MayGet
    <2> QED
      BY <2>2 DEF OnlySettles
  <1>4. Grows(Now, t)
    BY <1>1, <1>3, NowParts, GrowsOn, SoundParts
  <1>5. NoNewHandler(Now, t) /\ Gathered(t)
    BY <1>1, <1>3 DEF NoNewHandler, Gathered
  <1> QED
    BY <1>3, <1>4, <1>5, StepKeeps

\* The iteration of Promise.all is over: its own share of the count goes.
LEMMA AllReturnsKeeps ==
  ASSUME PInv, AllReturns
  PROVE  PInv'
  <1> DEFINE left == all.remaining - 1
             u == Pop(Now)
             w == [u EXCEPT !.all.remaining = left, !.all.done = TRUE]
             k == all.resolver
             t == IF left = 0 THEN Resolve(w, k, AllValues) ELSE w
  <1>1. Become(t) /\ job' = job /\ steps' \in Nat /\ stack # <<>> /\ top.fn = "all"
    BY NowParts DEF AllReturns, InFrame, Ends
  <1>2. /\ Sound(u, {}) /\ Grows(Now, u) /\ NoNewHandler(Now, u)
        /\ u.resolver = resolver /\ u.all = all
        /\ \A i \in 1 .. Len(u.stack) : u.stack[i].fn # "all"
    BY <1>1, PopNow
  <1>3. all # None /\ ~all.done
    BY <1>1, TopFrame
  <1>4. /\ u \in States /\ all \in Gatherings /\ all.called \in Seq(BOOLEAN)
        /\ k \in 1 .. Len(u.resolver) /\ all.held \subseteq 1 .. Len(all.called)
        /\ all.remaining = Cardinality(Unfilled(all.called)) + 1
        /\ Cardinality(Unfilled(all.called)) \in Nat /\ Len(all.called) \in Nat
    BY <1>2, <1>3, Counted
  <1>5. left \in Nat /\ left = Cardinality(Unfilled(all.called)) /\ all.remaining # 0
    BY <1>4
  <1>6. /\ w.promise = u.promise /\ w.resolver = u.resolver /\ w.queue = u.queue
        /\ w.stack = u.stack /\ w.unhandled = u.unhandled /\ w.registered = u.registered
        /\ w.all = [all EXCEPT !.remaining = left, !.done = TRUE]
    BY <1>2, <1>4 DEF States
  <1> HIDE DEF u, left, k
  <1>7. /\ w.all \in Gatherings /\ w.all.resolver = k /\ w.all.remaining = left
        /\ w.all.called = all.called /\ w.all.held = all.held /\ w.all.done = TRUE
    <2> HIDE DEF w
    <2> QED
      BY <1>4, <1>5, <1>6 DEF Gatherings, k
  <1>8. w \in States /\ w.all # None
    BY <1>4, <1>7, StateParts, ValuesAreApart DEF States
  <1>9. t = IF left = 0 THEN Resolve(w, k, AllValues) ELSE w
    BY DEF k
  <1> HIDE DEF w, t
  <1>10. Sound(w, {}) /\ Grows(u, w)
    <2>1. w.all.resolver = u.all.resolver
      BY <1>2, <1>7 DEF k
    <2>2. w.all.remaining = Cardinality(Unfilled(w.all.called)) + (IF w.all.done THEN 0 ELSE 1)
      BY <1>4, <1>5, <1>7
    <2>3. Len(u.all.called) <= Len(w.all.called) /\ w.all.held \subseteq 1 .. Len(w.all.called)
      BY <1>2, <1>4, <1>7
    <2> QED
      BY <1>2, <1>3, <1>5, <1>6, <1>8, <2>1, <2>2, <2>3, SharedSound, ZenonT(80)
  <1>11. Grows(Now, w) /\ NoNewHandler(Now, w)
    BY <1>2, <1>6, <1>10, NowParts, GrowsOn, SoundParts DEF NoNewHandler
  <1>12. CASE left # 0
    <2>1. t = w /\ Gathered(w)
      BY <1>7, <1>9, <1>12 DEF Gathered
    <2> QED
      BY <1>1, <1>10, <1>11, <2>1, StepKeeps
  <1>13. CASE left = 0
    <2>1. AllValues \in Values /\ AllValues \notin 1 .. MaxPromises
      BY ValuesAreApart DEF Values
    <2>2. t = Resolve(w, k, AllValues) /\ k \in 1 .. Len(w.resolver)
      BY <1>4, <1>6, <1>9, <1>13
    <2>3. /\ Sound(t, {}) /\ Grows(w, t) /\ NoNewHandler(w, t) /\ t.all = w.all
          /\ t.resolver[k].alreadyResolved
      BY <1>7, <1>10, <1>13, <2>1, <2>2, ResolveSound
    <2>4. Gathered(t) /\ NoNewHandler(Now, t)
      BY <1>7, <1>11, <2>3 DEF Gathered, NoNewHandler
    <2>5. Grows(Now, t)
      BY <1>10, <1>11, <2>3, NowParts, GrowsOn, SoundParts
    <2> QED
      BY <1>1, <2>3, <2>4, <2>5, StepKeeps
  <1> QED
    BY <1>12, <1>13

\* Content throws.
LEMMA ThrowsKeeps ==
  ASSUME PInv, Throws
  PROVE  PInv'
  <1> DEFINE u == Pop(Now)
  <1>0. Thrown \in Values /\ Thrown \notin 1 .. MaxPromises
    BY ValuesAreApart DEF Values
  <1>1. CASE /\ stack # <<>> /\ top.fn \in {"executor", "then", "all", "race"}
             /\ Ends(Reject(Pop(Now), top.resolver, Thrown))
    <2> DEFINE k == top.resolver
               t == Reject(u, k, Thrown)
    <2>1. Become(t) /\ job' = job /\ steps' \in Nat /\ stack # <<>>
          /\ top.fn \in {"executor", "then", "all", "race"}
      BY <1>1, NowParts DEF Ends
    <2>2. /\ Sound(u, {}) /\ Grows(Now, u) /\ NoNewHandler(Now, u) /\ Gathered(u)
          /\ u.resolver = resolver
      BY <2>1, PopNow
    <2>3. k \in 1 .. Len(u.resolver)
      <3>1. CASE top.fn = "all"
        <4>1. all # None /\ k = all.resolver /\ Now.all = all /\ Now.resolver = resolver
          BY <2>1, <3>1, TopFrame, NowParts
        <4> QED
          BY <2>2, <4>1, NowParts, Counted
      <3>2. CASE top.fn # "all"
        BY <2>1, <2>2, <3>2, TopFrame
      <3> QED
        BY <3>1, <3>2
    <2> HIDE DEF u, k, t
    <2>4. /\ Sound(t, {}) /\ Grows(u, t) /\ t.stack = u.stack /\ t.all = u.all
          /\ \A m \in 1 .. Len(u.resolver) :
               u.resolver[m].alreadyResolved => t.resolver[m].alreadyResolved
      BY <1>0, <2>2, <2>3, RejectSound DEF t
    <2>5. Gathered(t) /\ NoNewHandler(Now, t)
      BY <2>2, <2>4, SoundParts, GatheredLater DEF NoNewHandler
    <2>6. Grows(Now, t)
      BY <2>2, <2>4, NowParts, GrowsOn, SoundParts
    <2> QED
      BY <2>1, <2>4, <2>5, <2>6, StepKeeps
  <1>2. CASE InFrame("getThen") /\ Ends(Settle(Pop(Now), top.promise, "rejected", Thrown))
    <2> DEFINE t == Settle(Pop(Now), top.promise, "rejected", Thrown)
    <2>1. Become(t) /\ job' = job /\ steps' \in Nat /\ stack # <<>> /\ top.fn = "getThen"
      BY <1>2, NowParts DEF InFrame, Ends
    <2> QED
      BY <1>0, <2>1, GetterSettles DEF Settled
  <1>3. CASE /\ InFrame("handler") /\ Become(Fail(Pop(Now), top.capability, Thrown))
             /\ job' = Idle /\ UNCHANGED steps
    <2> DEFINE t == Fail(u, top.capability, Thrown)
    <2>1. Become(t) /\ job' = Idle /\ steps' = steps /\ stack # <<>> /\ top.fn = "handler"
      BY <1>3 DEF InFrame
    <2>2. /\ Sound(u, {}) /\ Gathered(u) /\ Len(u.stack) = 0 /\ u.resolver = resolver
      BY <2>1, PopNow
    <2>3. top.capability # None => top.capability \in 1 .. Len(u.resolver)
      BY <2>1, <2>2, TopFrame, NowParts DEF Capable
    <2> HIDE DEF u, t
    <2>4. Sound(t, {}) /\ NoNewHandler(u, t) /\ Gathered(t)
      BY <1>0, <2>2, <2>3, FailSound DEF t
    <2>5. \A i \in 1 .. Len(t.stack) : t.stack[i].fn # "handler"
      BY <2>2, <2>4 DEF NoNewHandler
    <2> QED
      BY <2>1, <2>4, <2>5, EndKeeps
  <1> QED
    BY <1>1, <1>2, <1>3 DEF Throws

\* Content's handler returns.
LEMMA HandlerReturnsKeeps ==
  ASSUME PInv, NEW v \in {Plain, Object} \cup Promises, HandlerReturns(v)
  PROVE  PInv'
  <1> DEFINE u == Pop(Now)
             t == Answer(u, top.capability, v)
  <1>1. Become(t) /\ job' = Idle /\ steps' = steps /\ stack # <<>> /\ top.fn = "handler"
    BY DEF HandlerReturns, InFrame
  <1>2. /\ Sound(u, {}) /\ Gathered(u) /\ Len(u.stack) = 0 /\ u.resolver = resolver
        /\ u.promise = promise /\ u.all = all
    BY <1>1, PopNow
  <1>3. Capable(u, top.capability)
    BY <1>1, <1>2, TopFrame, NowParts DEF Capable
  <1>4. v \in Values /\ (v \in 1 .. MaxPromises => v \in 1 .. Len(u.promise))
    BY <1>2, NowParts, ValuesAreApart DEF Values, Promises
  <1> HIDE DEF u, t
  <1>5. Sound(t, {}) /\ NoNewHandler(u, t) /\ Gathered(t)
    BY <1>2, <1>3, <1>4, AnswerSound DEF t
  <1>6. \A i \in 1 .. Len(t.stack) : t.stack[i].fn # "handler"
    BY <1>2, <1>5 DEF NoNewHandler
  <1> QED
    BY <1>1, <1>5, <1>6, EndKeeps

\* The first job is taken from the queue.
LEMMA DequeueNow ==
  ASSUME PInv, queue # <<>>, NEW u, u = Dequeue(Now),
         NEW Y, Y = IF Head(queue).kind = "thenable" THEN {Head(queue).promise} ELSE {}
  PROVE  /\ Sound(u, Y) /\ Grows(Now, u) /\ NoNewHandler(Now, u) /\ Gathered(u)
         /\ Head(queue) \in ThenableJobs \cup ReactionJobs /\ GoodJob(u, Head(queue))
         /\ u.stack = stack /\ u.promise = promise /\ u.resolver = resolver /\ u.all = all
         /\ u.queue = Tail(queue) /\ u.unhandled = unhandled /\ u.registered = registered
  <1>1. /\ Sound(Now, {}) /\ Gathered(Now) /\ Now.queue = queue /\ Now.stack = stack
        /\ Now.promise = promise /\ Now.resolver = resolver /\ Now.all = all
    BY NowParts
  <1>2. Y = IF Head(queue).kind = "thenable" THEN {} \cup {Head(queue).promise} ELSE {}
    OBVIOUS
  <1>3. /\ Sound(u, Y) /\ Grows(Now, u)
        /\ Head(queue) \in ThenableJobs \cup ReactionJobs /\ GoodJob(u, Head(queue))
        /\ u.promise = promise /\ u.resolver = resolver /\ u.stack = stack /\ u.all = all
    <2> DEFINE j == Head(queue)
    <2>1. j = Head(Now.queue) /\ Now.queue # <<>>
      BY <1>1
    <2> HIDE DEF j
    <2>2. Sound(u, Y) /\ Grows(Now, u) /\ j \in ThenableJobs \cup ReactionJobs /\ GoodJob(u, j)
          /\ OnlyDequeues(Now, {}, j, u)
      BY <1>1, <1>2, <2>1, DequeueSound DEF j
    <2> QED
      BY <1>1, <2>2 DEF OnlyDequeues, j
  <1>4. NoNewHandler(Now, u) /\ Gathered(u)
    BY <1>1, <1>3 DEF NoNewHandler, Gathered
  <1>5. u.queue = Tail(queue) /\ u.unhandled = unhandled /\ u.registered = registered
    BY DEF Dequeue, Now
  <1> QED
    BY <1>3, <1>4, <1>5

\* A reaction job begins.
LEMMA TakeReactionJobKeeps ==
  ASSUME PInv, TakeReactionJob
  PROVE  PInv'
  <1> DEFINE j == Head(queue)
             u == Dequeue(Now)
             f == [fn |-> "handler", capability |-> j.capability]
             t == IF j.handler = Content THEN Push(u, f) ELSE u
  <1>1. /\ stack = <<>> /\ queue # <<>> /\ j.kind = "reaction" /\ job' = j /\ queue' = Tail(queue)
        /\ stack' = (IF j.handler = Content THEN <<f>> ELSE <<>>)
        /\ promise' = promise /\ resolver' = resolver /\ unhandled' = unhandled /\ all' = all
        /\ steps' = steps /\ registered' = registered
    BY DEF TakeReactionJob, Quiet
  <1>2. /\ Sound(u, {}) /\ Gathered(u) /\ j \in ThenableJobs \cup ReactionJobs /\ GoodJob(u, j)
        /\ u.stack = <<>> /\ u.promise = promise /\ u.resolver = resolver /\ u.all = all
        /\ u.queue = Tail(queue) /\ u.unhandled = unhandled /\ u.registered = registered
    BY <1>1, DequeueNow
  <1>3. /\ j \in ReactionJobs /\ Capable(u, j.capability) /\ j.capability \in Capabilities
    BY <1>1, <1>2 DEF GoodJob, ThenableJobs, ReactionJobs
  <1>4. f.fn = "handler" /\ f.capability = j.capability /\ f \in Frames
    BY <1>3 DEF Frames
  <1>5. u \in States
    BY <1>2, SoundParts
  <1> HIDE DEF j, u, f
  <1>6. CASE j.handler = Content
    <2> DEFINE w == Push(u, f)
    <2>1. GoodFrame(u, Len(u.stack) + 1, f)
      BY <1>2, <1>3, <1>4 DEF GoodFrame
    <2>2. w.stack = <<f>> /\ w.queue = Tail(queue) /\ w.unhandled = unhandled /\ w.registered = registered
      BY <1>2, <1>5 DEF Push, States
    <2> HIDE DEF w
    <2>3. /\ Sound(w, {}) /\ Grows(u, w)
          /\ w.promise = u.promise /\ w.resolver = u.resolver /\ w.all = u.all
      BY <1>2, <1>4, <2>1, PushSound DEF w, OnlyPushes
    <2>4. Become(w)
      BY <1>1, <1>2, <1>6, <2>2, <2>3 DEF Become
    <2>5. Now' = w /\ stack' = <<f>>
      BY <1>1, <1>6, <2>3, <2>4, Becomes
    <2>6. GoodJob(w, j) /\ Gathered(w)
      BY <1>2, <1>3, <1>5, <2>3, GoodLater, SoundParts DEF Gathered
    <2>7. GoodRun'
      <3>1. Len(w.stack) = 1 /\ job' # Idle
        BY <1>1, <1>3, <2>2, ValuesAreApart
      <3>2. stack' = w.stack /\ job' = j /\ job'.kind = "reaction" /\ job'.handler = Content
        BY <1>1, <1>6, <2>2
      <3> QED
        BY <2>5, <2>6, <3>1, <3>2 DEF GoodRun
    <2> QED
      BY <1>1, <1>3, <2>3, <2>5, <2>6, <2>7, NowParts DEF PInv
  <1>7. CASE j.handler # Content
    <2>1. Become(u)
      BY <1>1, <1>2, <1>7 DEF Become
    <2>2. Now' = u /\ stack' = <<>>
      BY <1>1, <1>2, <1>7, <2>1, Becomes
    <2>3. GoodRun'
      BY <1>1, <1>2, <2>2, ValuesAreApart DEF GoodRun
    <2> QED
      BY <1>1, <1>2, <1>3, <2>2, <2>3, NowParts DEF PInv
  <1> QED
    BY <1>6, <1>7

\* And ends, when its handler is not content's.
LEMMA ApplyHandlerKeeps ==
  ASSUME PInv, ApplyHandler
  PROVE  PInv'
  <1> DEFINE t == Apply(Now, job)
  <1>1. Become(t) /\ job' = Idle /\ steps' = steps /\ job # Idle /\ job.handler # Content
    BY DEF ApplyHandler
  <1>2. /\ job \in ReactionJobs /\ GoodJob(Now, job) /\ Now.stack = stack
        /\ \A i \in 1 .. Len(stack) : stack[i].fn # "handler"
    BY <1>1, NowParts DEF GoodRun
  <1> HIDE DEF t
  <1>3. Sound(t, {}) /\ NoNewHandler(Now, t) /\ Gathered(t)
    BY <1>1, <1>2, NowParts, ApplySound DEF t
  <1>4. \A i \in 1 .. Len(t.stack) : t.stack[i].fn # "handler"
    BY <1>2, <1>3 DEF NoNewHandler
  <1> QED
    BY <1>1, <1>3, <1>4, EndKeeps

\* A job that asks a thenable.
LEMMA TakeThenableJobKeeps ==
  ASSUME PInv, TakeThenableJob
  PROVE  PInv'
  <1> DEFINE j == Head(queue)
             u == Dequeue(Now)
             t == CallThen(u, j)
  <1>1. /\ Become(t) /\ job' = job /\ steps' \in Nat /\ queue # <<>> /\ j.kind = "thenable"
    BY NowParts DEF TakeThenableJob, Dequeue
  <1>2. /\ Sound(u, {j.promise}) /\ Grows(Now, u) /\ NoNewHandler(Now, u) /\ Gathered(u)
        /\ j \in ThenableJobs \cup ReactionJobs /\ GoodJob(u, j)
    BY <1>1, DequeueNow
  <1>3. j \in ThenableJobs
    BY <1>1, <1>2 DEF ReactionJobs
  <1>4. {j.promise} \ {j.promise} = {} /\ j.promise \in {j.promise}
    OBVIOUS
  <1> HIDE DEF j, u, t
  <1>5. Sound(t, {}) /\ Grows(u, t) /\ NoNewHandler(u, t) /\ (Gathered(u) => Gathered(t))
    BY <1>2, <1>3, <1>4, CallThenSound DEF t
  <1>6. Grows(Now, t)
    BY <1>2, <1>5, NowParts, GrowsOn, SoundParts
  <1>7. NoNewHandler(Now, t)
    BY <1>2, <1>5 DEF NoNewHandler
  <1> QED
    BY <1>1, <1>2, <1>5, <1>6, <1>7, StepKeeps

\* The invariant holds at the start.
LEMMA InitPInv ==
  ASSUME Init
  PROVE  PInv
  <1>1. /\ Now.promise = <<>> /\ Now.resolver = <<>> /\ Now.queue = <<>> /\ Now.stack = <<>>
        /\ Now.unhandled = {} /\ Now.all = None /\ Now.registered = 0
    BY DEF Init, Now
  <1>2. Now \in States
    <2>1. <<>> \in Seq(PromiseRecords) /\ <<>> \in Seq(Resolvers) /\ <<>> \in Seq(Frames)
          /\ <<>> \in Seq(ThenableJobs \cup ReactionJobs)
      OBVIOUS
    <2> QED
      BY <2>1 DEF Now, Init, States
  <1>3. References(Now) /\ Unhandled(Now) /\ OneParty(Now, {})
    BY <1>1, ValuesAreApart DEF References, Unhandled, OneParty
  <1>4. Gathering(Now) /\ OneGathering(Now) /\ Gathered(Now)
    BY <1>1 DEF Gathering, OneGathering, Gathered
  <1>5. GoodRun /\ job \in ReactionJobs \cup {Idle} /\ steps \in Nat
    BY DEF Init, GoodRun
  <1> QED
    BY <1>2, <1>3, <1>4, <1>5 DEF PInv, Sound

\* And every step keeps it.
LEMMA StepPInv ==
  ASSUME PInv, [Next]_vars
  PROVE  PInv'
  <1>1. CASE Calls
    <2>1. ASSUME NEW k \in DOMAIN resolver, NEW v \in {Plain, Object} \cup Promises, CallResolve(k, v)
          PROVE  PInv'
      BY <2>1, CallResolveKeeps
    <2>2. ASSUME NEW p \in Promises, NEW h \in HandlerPairs, Then(p, h[1], h[2])
          PROVE  PInv'
      BY <2>2, ThenKeeps
    <2> QED
      BY <1>1, <2>1, <2>2, NewKeeps, AllKeeps, RaceKeeps, AllCallsThenKeeps, RaceCallsThenKeeps,
         CallRejectKeeps, AllBlocksOnKeeps, RaceBlocksOnKeeps, CallElementKeeps DEF Calls
  <1>2. CASE FrameEnds
    <2>1. ASSUME ThenIsNotCallable
          PROVE  PInv'
      <3>1. /\ Become(Settle(Pop(Now), top.promise, "fulfilled", top.value)) /\ job' = job
            /\ steps' \in Nat /\ stack # <<>> /\ top.fn = "getThen"
        BY <2>1, NowParts DEF ThenIsNotCallable, InFrame, Ends
      <3>2. top.value \in Values /\ top.value \notin 1 .. MaxPromises
        BY <1>2, <3>1, GetterValue
      <3> QED
        BY <3>1, <3>2, GetterSettles DEF Settled
    <2> QED
      BY <1>2, <2>1, ReturnsKeeps, ThenIsCallableKeeps, AllReturnsKeeps, ThrowsKeeps,
         HandlerReturnsKeeps DEF FrameEnds
  <1>3. CASE RunsJob
    BY <1>3, TakeReactionJobKeeps, ApplyHandlerKeeps, TakeThenableJobKeeps DEF RunsJob
  <1>4. CASE UNCHANGED vars
    BY <1>4 DEF vars, PInv, Now, GoodRun
  <1> QED
    BY <1>1, <1>2, <1>3, <1>4 DEF Next

\* The invariant holds in every state.
THEOREM PInvAlways == Spec => []PInv
  <1>1. Init => PInv
    BY InitPInv
  <1>2. PInv /\ [Next]_vars => PInv'
    BY StepPInv
  <1> QED
    BY <1>1, <1>2, PTL DEF Spec

-----------------------------------------------------------------------------
(* What the invariant says of the properties.                                *)

\* The records have their shapes, in every state: the functions of
\* builtin/Promise.js only store what fits, and refer to what is there.
THEOREM TypeCorrect == Spec => []TypeOK
  <1>1. ASSUME PInv
        PROVE  TypeOK
    <2>1. References(Now) /\ Unhandled(Now)
      BY <1>1, NowParts, SoundParts
    <2>2. \A p \in Promises :
            /\ promise[p].state = "fulfilled" => promise[p].result \notin 1..MaxPromises
            /\ promise[p].state # "pending" => promise[p].reactions = <<>>
      BY <1>1, <2>1, NowParts DEF References, GoodPromise, Promises
    <2>3. \A k \in DOMAIN resolver : resolver[k].promise \in Promises
      BY <1>1, <2>1, NowParts DEF References, Promises
    <2>4. unhandled \subseteq Promises
      BY <1>1, <2>1, NowParts DEF Unhandled, Promises
    <2>5. registered \in Nat
      BY <1>1, NowParts, StateParts
    <2> QED
      BY <1>1, <2>2, <2>3, <2>4, <2>5, NowParts DEF TypeOK
  <1> QED
    BY <1>1, PInvAlways, PTL

\* A pending promise has exactly one party that can settle it and a settled one
\* none: resolve and reject mark their pair before they hand the promise on, so
\* the assertion of ResolvePromise that it is pending never fails.
THEOREM OnePartyAlwaysDecides == Spec => []OnePartyDecides
  <1>1. ASSUME PInv, NEW p \in Promises
        PROVE  Deciders(p) = IF promise[p].state = "pending" THEN 1 ELSE 0
    <2>1. OneParty(Now, {}) /\ p \in 1 .. Len(Now.promise) /\ Now.promise = promise
      BY <1>1, NowParts, SoundParts DEF Promises
    <2>2. Deciders(p) = Cardinality(Pairs(Now, p)) + Cardinality(Asking(Now, p))
                          + Cardinality(Getting(Now, p))
      <3>1. /\ DOMAIN resolver = 1 .. Len(resolver) /\ DOMAIN queue = 1 .. Len(queue)
            /\ DOMAIN stack = 1 .. Len(stack)
        BY <1>1, NowParts
      <3> QED
        BY <1>1, <3>1, NowParts DEF Deciders, Pairs, Asking, Getting
    <2> QED
      BY <2>1, <2>2 DEF OneParty
  <1>2. PInv => OnePartyDecides
    BY <1>1 DEF OnePartyDecides
  <1> QED
    BY <1>2, PInvAlways, PTL

\* The embedding knows just the rejected promises that nobody has handled:
\* ResolvePromise reports a rejection and PerformPromiseThen takes it back, in
\* whatever order content rejects and registers.
THEOREM UnhandledIsAlwaysExact == Spec => []UnhandledIsExact
  <1>1. ASSUME PInv
        PROVE  UnhandledIsExact
    <2>1. Unhandled(Now) /\ Now.promise = promise /\ Now.unhandled = unhandled
      BY <1>1, NowParts, SoundParts
    <2> QED
      BY <2>1 DEF Unhandled, UnhandledIsExact, Promises
  <1> QED
    BY <1>1, PInvAlways, PTL

\* Promise.all is resolved with the array when its iteration is over and each
\* element was filled, and not before: the iteration counts for one more than
\* its elements.  Nobody but its own pair decides it until then, so whoever the
\* `then' of an array hands it to comes after the last element.
THEOREM AllAlwaysWaitsForEach == Spec => []AllWaitsForEach
  <1>1. ASSUME PInv, all # None
        PROVE  LET own == resolver[all.resolver]
                   complete == all.done /\ \A i \in DOMAIN all.called : all.called[i]
               IN  IF complete THEN own.alreadyResolved
                   ELSE promise[own.promise].state =
                            IF own.alreadyResolved THEN "rejected" ELSE "pending"
    <2> DEFINE k == all.resolver
               p == resolver[k].promise
               complete == all.done /\ \A i \in DOMAIN all.called : all.called[i]
    <2>1. /\ Now.all = all /\ Now.resolver = resolver /\ Now.promise = promise
          /\ Gathering(Now) /\ References(Now) /\ OneParty(Now, {}) /\ Gathered(Now) /\ Now \in States
      BY <1>1, NowParts, SoundParts
    <2>2. /\ all.called \in Seq(BOOLEAN) /\ k \in 1 .. Len(resolver)
          /\ all.done \in BOOLEAN /\ Cardinality(Unfilled(all.called)) \in Nat
          /\ all.remaining = Cardinality(Unfilled(all.called)) + (IF all.done THEN 0 ELSE 1)
      BY <1>1, <2>1, NowParts, Counted
    <2>3. all.remaining = 0 <=> complete
      <3>1. Cardinality(Unfilled(all.called)) = 0 <=> Unfilled(all.called) = {}
        BY <2>2, UnfilledAreFinite, FS_EmptySet
      <3>2. Unfilled(all.called) = {} <=> \A i \in DOMAIN all.called : all.called[i]
        BY <2>2 DEF Unfilled
      <3>3. all.remaining = 0 <=> all.done /\ Cardinality(Unfilled(all.called)) = 0
        BY <2>2
      <3> QED
        BY <3>1, <3>2, <3>3
    <2>4. p \in 1 .. Len(promise)
      BY <2>1, <2>2 DEF References
    <2>5. CASE all.remaining = 0
      <3>1. resolver[k].alreadyResolved
        BY <1>1, <2>1, <2>5 DEF Gathered
      <3> QED
        BY <2>3, <2>5, <3>1
    <2>6. CASE all.remaining # 0
      <3>1. ~MayGet(Now, p)
        BY <1>1, <2>1, <2>6 DEF MayGet, Gathers
      <3>2. Asking(Now, p) = {}
        BY <2>1, <3>1 DEF References, GoodJob, Asking
      <3>3. Getting(Now, p) = {}
        BY <2>1, <3>1 DEF References, GoodFrame, Getting
      <3>4. CASE ~resolver[k].alreadyResolved
        <4>1. k \in Pairs(Now, p)
          BY <2>1, <2>2, <3>4 DEF Pairs
        <4>2. promise[p].state = "pending"
          BY <2>1, <2>4, <4>1, OnlyParty
        <4> QED
          BY <2>3, <2>6, <3>4, <4>2
      <3>5. CASE resolver[k].alreadyResolved
        <4>1. Pairs(Now, p) = {}
          BY <1>1, <2>1, <2>6, <3>5 DEF Gathering, Pairs
        <4>2. Cardinality(Pairs(Now, p)) + Cardinality(Asking(Now, p)) + Cardinality(Getting(Now, p)) = 0
          BY <3>2, <3>3, <4>1, FS_EmptySet
        <4>3. promise[p].state # "pending"
          BY <2>1, <2>4, <4>2 DEF OneParty
        <4>4. promise[p].state # "fulfilled"
          BY <1>1, <2>1, <2>6 DEF Gathering
        <4>5. promise[p].state \in Settled \cup {"pending"}
          <5>1. Now.promise[p] \in PromiseRecords
            BY <2>1, <2>4, Members
          <5> QED
            BY <2>1, <5>1 DEF PromiseRecords
        <4>6. promise[p].state = "rejected"
          BY <4>3, <4>4, <4>5 DEF Settled
        <4> QED
          BY <2>3, <2>6, <3>5, <4>6
      <3> QED
        BY <3>4, <3>5
    <2> QED
      BY <2>5, <2>6
  <1>2. PInv => AllWaitsForEach
    BY <1>1 DEF AllWaitsForEach
  <1> QED
    BY <1>2, PInvAlways, PTL

-----------------------------------------------------------------------------
(* The contract: what the code keeps, seen as outcomes and the callbacks that *)
(* wait, changes only as AbstractPromise allows.                             *)

Jobs == ThenableJobs \cup ReactionJobs

-----------------------------------------------------------------------------
(* Sequences.                                                                *)

\* Nothing is added by the empty sequence.
LEMMA WithEmpty ==
  ASSUME NEW S, NEW a \in Seq(S)
  PROVE  /\ a \o <<>> = a /\ <<>> \o a = a
  OBVIOUS

\* Adding to the second of two sequences adds to both.
LEMMA AppendToSecond ==
  ASSUME NEW S, NEW a \in Seq(S), NEW b \in Seq(S), NEW x \in S
  PROVE  a \o Append(b, x) = Append(a \o b, x) /\ a \o Append(b, x) \in Seq(S)
  OBVIOUS

\* A sequence is its first element and the others.
LEMMA HeadAndTail ==
  ASSUME NEW S, NEW q \in Seq(S), q # <<>>
  PROVE  /\ <<Head(q)>> \in Seq(S) /\ Tail(q) \in Seq(S) /\ q = <<Head(q)>> \o Tail(q)
  OBVIOUS

-----------------------------------------------------------------------------
(* The ids of the jobs a promise has in the queue.                           *)

\* Up to each job, the ids that are collected.
Step(f, jobs, p, i) ==
  f[i] = IF Reacts(jobs[i], p) THEN Append(f[i - 1], jobs[i].id) ELSE f[i - 1]
Steps(f, jobs, p, n) == f[0] = <<>> /\ \A i \in 1 .. n : Step(f, jobs, p, i)
Collects(f, jobs, p, n) == f \in [0 .. n -> Seq(Nat)] /\ Steps(f, jobs, p, n)

\* The job of a reaction has a number.
LEMMA JobsHaveIds ==
  ASSUME NEW j \in Jobs, j.kind = "reaction"
  PROVE  j \in ReactionJobs /\ j.id \in Nat
  BY DEF Jobs, ThenableJobs, ReactionJobs

\* They can be collected.
LEMMA CollectsExists ==
  ASSUME NEW jobs \in Seq(Jobs), NEW p, NEW n \in 0 .. Len(jobs)
  PROVE  \E f : Collects(f, jobs, p, n)
  <1> DEFINE T == {k \in Nat : \E f : Collects(f, jobs, p, k)}
             m == Len(jobs)
  <1>1. m \in Nat
    OBVIOUS
  <1>2. 0 \in T
    <2> DEFINE f == [i \in 0 .. 0 |-> <<>>]
    <2>1. f \in [0 .. 0 -> Seq(Nat)] /\ f[0] = <<>>
      OBVIOUS
    <2>2. 1 .. 0 = {}
      OBVIOUS
    <2> HIDE DEF f
    <2> QED
      BY <2>1, <2>2 DEF Collects, Steps, Step
  <1>3. ASSUME NEW k \in 0 .. m, k \in T, k < m
        PROVE  k + 1 \in T
    <2>1. PICK f : Collects(f, jobs, p, k)
      BY <1>3
    <2>2. /\ f \in [0 .. k -> Seq(Nat)] /\ f[0] = <<>> /\ k \in 0 .. k /\ f[k] \in Seq(Nat)
      BY <1>1, <2>1 DEF Collects, Steps, Step
    <2> DEFINE x == IF Reacts(jobs[k + 1], p) THEN Append(f[k], jobs[k + 1].id) ELSE f[k]
               g == [i \in 0 .. k + 1 |-> IF i = k + 1 THEN x ELSE f[i]]
    <2>3. jobs[k + 1] \in Jobs
      BY <1>1, <1>3
    <2>4. x \in Seq(Nat)
      BY <2>2, <2>3, JobsHaveIds DEF Reacts
    <2>5. /\ k + 1 \in Nat /\ k + 1 # 0 /\ k + 1 \in 0 .. k + 1 /\ (k + 1) - 1 = k
          /\ \A i \in 0 .. k + 1 : i # k + 1 => i \in 0 .. k
          /\ \A i \in 0 .. k : i \in 0 .. k + 1 /\ i # k + 1
          /\ \A i \in 1 .. k + 1 : i \in 0 .. k + 1 /\ (i = k + 1 \/ i \in 1 .. k) /\ i - 1 \in 0 .. k
      BY <1>1
    <2> HIDE DEF x
    <2>6. /\ g \in [0 .. k + 1 -> Seq(Nat)] /\ g[k + 1] = x
          /\ \A i \in 0 .. k : g[i] = f[i]
      BY <2>2, <2>4, <2>5
    <2> HIDE DEF g
    <2>7. g[0] = <<>>
      BY <1>3, <2>2, <2>6
    <2>8. ASSUME NEW i \in 1 .. k + 1
          PROVE  g[i] = IF Reacts(jobs[i], p) THEN Append(g[i - 1], jobs[i].id) ELSE g[i - 1]
      <3>1. CASE i = k + 1
        BY <2>2, <2>5, <2>6, <3>1 DEF x
      <3>2. CASE i # k + 1
        <4>1. i \in 1 .. k /\ i \in 0 .. k /\ i - 1 \in 0 .. k
          BY <2>5, <2>8, <3>2
        <4> QED
          BY <2>1, <2>6, <4>1 DEF Collects, Steps, Step
      <3> QED
        BY <3>1, <3>2
    <2>9. Collects(g, jobs, p, k + 1)
      BY <2>6, <2>7, <2>8 DEF Collects, Steps, Step
    <2> QED
      BY <2>5, <2>9
  <1> HIDE DEF T, m
  <1>4. 0 .. m \subseteq T
    BY <1>1, <1>2, <1>3, UpTo
  <1> QED
    BY <1>4 DEF T, m

\* In one way.
LEMMA CollectsOnce ==
  ASSUME NEW jobs, NEW p, NEW n \in Nat, NEW f, NEW g, Steps(f, jobs, p, n), Steps(g, jobs, p, n)
  PROVE  f[n] = g[n]
  <1> DEFINE T == {k \in Nat : f[k] = g[k]}
  <1>1. 0 \in T
    BY DEF Collects, Steps, Step
  <1>2. ASSUME NEW k \in 0 .. n, k \in T, k < n
        PROVE  k + 1 \in T
    <2>1. k + 1 \in 1 .. n /\ (k + 1) - 1 = k /\ k + 1 \in Nat
      BY <1>2
    <2>2. /\ f[k + 1] = IF Reacts(jobs[k + 1], p) THEN Append(f[k], jobs[k + 1].id) ELSE f[k]
          /\ g[k + 1] = IF Reacts(jobs[k + 1], p) THEN Append(g[k], jobs[k + 1].id) ELSE g[k]
      BY <2>1 DEF Collects, Steps, Step
    <2> QED
      BY <1>2, <2>1, <2>2
  <1> HIDE DEF T
  <1>3. 0 .. n \subseteq T
    BY <1>1, <1>2, UpTo
  <1> QED
    BY <1>3 DEF T

\* The ids are those collected in the end.
LEMMA JobIdsAre ==
  ASSUME NEW jobs \in Seq(Jobs), NEW p, NEW f, Collects(f, jobs, p, Len(jobs))
  PROVE  JobIds(jobs, p) = f[Len(jobs)] /\ JobIds(jobs, p) \in Seq(Nat)
  <1> DEFINE upTo[n \in 0 .. Len(jobs)] ==
               IF n = 0 THEN <<>>
               ELSE IF Reacts(jobs[n], p) THEN Append(upTo[n - 1], jobs[n].id) ELSE upTo[n - 1]
             m == Len(jobs)
  <1>1. m \in Nat
    OBVIOUS
  <1>2. JobIds(jobs, p) = upTo[m]
    BY DEF JobIds
  <1>3. upTo = [n \in 0 .. m |-> IF n = 0 THEN <<>>
                 ELSE IF Reacts(jobs[n], p) THEN Append(upTo[n - 1], jobs[n].id) ELSE upTo[n - 1]]
    <2> DEFINE F(h) == [n \in 0 .. m |-> IF n = 0 THEN <<>>
                 ELSE IF Reacts(jobs[n], p) THEN Append(h[n - 1], jobs[n].id) ELSE h[n - 1]]
    <2>1. f = F(f)
      <3>1. DOMAIN f = 0 .. m /\ f = [n \in 0 .. m |-> f[n]]
        BY DEF Collects, Steps, Step
      <3>2. ASSUME NEW n \in 0 .. m
            PROVE  f[n] = IF n = 0 THEN <<>>
                          ELSE IF Reacts(jobs[n], p) THEN Append(f[n - 1], jobs[n].id) ELSE f[n - 1]
        <4>1. n = 0 \/ n \in 1 .. m
          BY <1>1
        <4> QED
          BY <4>1 DEF Collects, Steps, Step
      <3> HIDE DEF m
      <3> QED
        BY <3>1, <3>2
    <2>2. \E h : h = F(h)
      BY <2>1
    <2>3. upTo = CHOOSE h : h = F(h)
      OBVIOUS
    <2> HIDE DEF upTo, F
    <2>4. upTo = F(upTo)
      BY <2>2, <2>3
    <2> QED
      BY <2>4 DEF F
  <1> HIDE DEF upTo
  <1>4. upTo[0] = <<>>
    <2>1. 0 \in 0 .. m
      BY <1>1
    <2> QED
      BY <1>3, <2>1
  <1>5. \A i \in 1 .. m : upTo[i] = IF Reacts(jobs[i], p) THEN Append(upTo[i - 1], jobs[i].id) ELSE upTo[i - 1]
    <2> TAKE i \in 1 .. m
    <2> DEFINE E(n) == IF n = 0 THEN <<>>
                 ELSE IF Reacts(jobs[n], p) THEN Append(upTo[n - 1], jobs[n].id) ELSE upTo[n - 1]
    <2>1. i \in 0 .. m /\ i # 0
      BY <1>1
    <2>2. upTo = [n \in 0 .. m |-> E(n)]
      BY <1>3, Zenon
    <2>3. upTo[i] = E(i)
      <3> HIDE DEF E, m
      <3> QED
        BY <2>1, <2>2
    <2> QED
      BY <2>1, <2>3
  <1>6. upTo[m] = f[m]
    <2>1. Steps(upTo, jobs, p, m) /\ Steps(f, jobs, p, m)
      BY <1>4, <1>5 DEF Steps, Step, Collects
    <2> HIDE DEF m
    <2> QED
      BY <1>1, <2>1, CollectsOnce
  <1>7. f[m] \in Seq(Nat)
    BY <1>1 DEF Collects, Steps, Step
  <1> QED
    BY <1>2, <1>6, <1>7

\* The ids of some jobs are a sequence of numbers.
LEMMA JobIdsAreNumbers ==
  ASSUME NEW jobs \in Seq(Jobs), NEW p
  PROVE  JobIds(jobs, p) \in Seq(Nat)
  <1>1. Len(jobs) \in 0 .. Len(jobs)
    OBVIOUS
  <1>2. PICK f : Collects(f, jobs, p, Len(jobs))
    BY <1>1, CollectsExists
  <1> QED
    BY <1>2, JobIdsAre

\* Jobs in a row have their ids in a row.
LEMMA JobIdsInARow ==
  ASSUME NEW q \in Seq(Jobs), NEW r \in Seq(Jobs), NEW p
  PROVE  JobIds(q \o r, p) = JobIds(q, p) \o JobIds(r, p)
  <1> DEFINE n == Len(q)
             m == Len(r)
             both == q \o r
  <1>1. /\ both \in Seq(Jobs) /\ Len(both) = n + m /\ n \in Nat /\ m \in Nat
        /\ \A i \in 1 .. n : both[i] = q[i]
        /\ \A i \in 1 .. m : both[n + i] = r[i]
    BY InARow
  <1> HIDE DEF both, n, m
  <1>2. n + m \in 0 .. Len(both) /\ n \in 0 .. Len(q) /\ m \in 0 .. Len(r)
    BY <1>1 DEF n, m
  <1>3. PICK f : Collects(f, both, p, n + m)
    BY <1>1, <1>2, CollectsExists
  <1>4. PICK g : Collects(g, q, p, n)
    BY <1>2, CollectsExists
  <1>5. PICK h : Collects(h, r, p, m)
    BY <1>2, CollectsExists
  <1>6. JobIds(both, p) = f[n + m] /\ JobIds(q, p) = g[n] /\ JobIds(r, p) = h[m]
    BY <1>1, <1>3, <1>4, <1>5, JobIdsAre DEF n, m
  <1>7. f[n] = g[n] /\ g[n] \in Seq(Nat)
    <2>1. Steps(f, q, p, n)
      <3>1. f[0] = <<>>
        BY <1>3 DEF Collects, Steps
      <3>2. ASSUME NEW i \in 1 .. n
            PROVE  Step(f, q, p, i)
        <4>1. i \in 1 .. n + m /\ both[i] = q[i]
          BY <1>1
        <4>2. Step(f, both, p, i)
          BY <1>3, <4>1 DEF Collects, Steps
        <4> QED
          BY <4>1, <4>2 DEF Step
      <3> QED
        BY <3>1, <3>2 DEF Steps
    <2>2. Steps(g, q, p, n) /\ g[n] \in Seq(Nat)
      BY <1>1, <1>4 DEF Collects
    <2> QED
      BY <1>1, <2>1, <2>2, CollectsOnce
  <1> DEFINE T == {k \in Nat : f[n + k] = g[n] \o h[k]}
  <1>8. 0 \in T
    <2>1. h[0] = <<>> /\ n + 0 = n
      BY <1>1, <1>5 DEF Collects, Steps
    <2>2. g[n] \o <<>> = g[n]
      BY <1>7, WithEmpty
    <2> QED
      BY <1>7, <2>1, <2>2
  <1>9. ASSUME NEW k \in 0 .. m, k \in T, k < m
        PROVE  k + 1 \in T
    <2>1. /\ k + 1 \in 1 .. m /\ n + (k + 1) \in 1 .. n + m /\ (n + (k + 1)) - 1 = n + k
          /\ (k + 1) - 1 = k /\ k + 1 \in Nat
      BY <1>1, <1>9
    <2>2. both[n + (k + 1)] = r[k + 1] /\ r[k + 1] \in Jobs /\ h[k] \in Seq(Nat)
      <3>1. k + 1 \in 1 .. Len(r) /\ k \in 0 .. m
        BY <1>1, <2>1 DEF m
      <3> HIDE DEF T
      <3>2. r[k + 1] \in Jobs
        BY <3>1
      <3>3. h[k] \in Seq(Nat)
        BY <1>5, <3>1 DEF Collects
      <3> QED
        BY <1>1, <2>1, <3>2, <3>3
    <2>3. Step(f, both, p, n + (k + 1)) /\ Step(h, r, p, k + 1)
      BY <1>3, <1>5, <2>1 DEF Collects, Steps
    <2>4. f[n + k] = g[n] \o h[k]
      BY <1>9
    <2>5. CASE Reacts(r[k + 1], p)
      <3>1. r[k + 1].id \in Nat
        BY <2>2, <2>5, JobsHaveIds DEF Reacts
      <3>2. f[n + (k + 1)] = Append(f[n + k], r[k + 1].id) /\ h[k + 1] = Append(h[k], r[k + 1].id)
        BY <2>1, <2>2, <2>3, <2>5 DEF Step
      <3>3. g[n] \o Append(h[k], r[k + 1].id) = Append(g[n] \o h[k], r[k + 1].id)
        <4> DEFINE a == g[n]
                   b == h[k]
                   x == r[k + 1].id
        <4>1. a \in Seq(Nat) /\ b \in Seq(Nat) /\ x \in Nat
          BY <1>7, <2>2, <3>1
        <4> HIDE DEF a, b, x
        <4>2. a \o Append(b, x) = Append(a \o b, x)
          BY <4>1, AppendToSecond
        <4> QED
          BY <4>2 DEF a, b, x
      <3>4. f[n + (k + 1)] = g[n] \o h[k + 1]
        BY <2>4, <3>2, <3>3
      <3> QED
        BY <2>1, <3>4, Zenon
    <2>6. CASE ~Reacts(r[k + 1], p)
      BY <2>1, <2>2, <2>3, <2>4, <2>6 DEF Step
    <2> QED
      BY <2>5, <2>6
  <1> HIDE DEF T
  <1>10. 0 .. m \subseteq T
    BY <1>1, <1>8, <1>9, UpTo
  <1>11. m \in T
    BY <1>1, <1>10
  <1> QED
    BY <1>6, <1>11 DEF T, both

\* The ids of jobs that are all of a promise.
LEMMA JobIdsOfAll ==
  ASSUME NEW r \in Seq(Jobs), NEW p, \A i \in 1 .. Len(r) : Reacts(r[i], p)
  PROVE  JobIds(r, p) = IdsIn(r)
  <1> DEFINE m == Len(r)
  <1>1. m \in Nat /\ m \in 0 .. m /\ DOMAIN r = 1 .. m
    OBVIOUS
  <1>2. PICK h : Collects(h, r, p, m)
    BY <1>1, CollectsExists
  <1> DEFINE S == {k \in Nat : h[k] = [i \in 1 .. k |-> r[i].id]}
  <1>3. 0 \in S
    BY <1>2 DEF Collects, Steps
  <1>4. ASSUME NEW k \in 0 .. m, k \in S, k < m
        PROVE  k + 1 \in S
    <2>1. k + 1 \in 1 .. m /\ (k + 1) - 1 = k /\ k + 1 \in Nat /\ r[k + 1] \in Jobs
      BY <1>1, <1>4
    <2>2. h[k + 1] = Append(h[k], r[k + 1].id)
      BY <1>2, <2>1 DEF Collects, Steps, Step
    <2>3. \A i \in 1 .. k + 1 : r[i].id \in Nat
      <3> TAKE i \in 1 .. k + 1
      <3>1. i \in 1 .. m
        BY <1>1, <2>1
      <3>2. r[i] \in Jobs /\ Reacts(r[i], p)
        BY <3>1
      <3> QED
        BY <3>2, JobsHaveIds DEF Reacts
    <2> DEFINE e == [i \in 1 .. k |-> r[i].id]
    <2>4. /\ e \in Seq(Nat) /\ Len(e) = k /\ \A i \in 1 .. k : e[i] = r[i].id
      BY <1>1, <2>3
    <2>5. h[k] = e
      BY <1>4
    <2>6. Append(e, r[k + 1].id) = [i \in 1 .. k + 1 |-> r[i].id]
      <3> HIDE DEF e
      <3> QED
        BY <2>1, <2>3, <2>4
    <2> QED
      BY <2>1, <2>2, <2>5, <2>6
  <1> HIDE DEF S, m
  <1>5. 0 .. m \subseteq S
    BY <1>1, <1>3, <1>4, UpTo
  <1>6. h[m] = [i \in 1 .. m |-> r[i].id]
    BY <1>1, <1>5 DEF S
  <1> QED
    BY <1>1, <1>2, <1>6, JobIdsAre DEF IdsIn, m

\* And of jobs that are all of others.
LEMMA JobIdsOfNone ==
  ASSUME NEW r \in Seq(Jobs), NEW p, \A i \in 1 .. Len(r) : ~Reacts(r[i], p)
  PROVE  JobIds(r, p) = <<>>
  <1> DEFINE m == Len(r)
  <1>1. m \in Nat /\ m \in 0 .. m
    OBVIOUS
  <1>2. PICK h : Collects(h, r, p, m)
    BY <1>1, CollectsExists
  <1> DEFINE S == {k \in Nat : h[k] = <<>>}
  <1>3. 0 \in S
    BY <1>2 DEF Collects, Steps
  <1>4. ASSUME NEW k \in 0 .. m, k \in S, k < m
        PROVE  k + 1 \in S
    <2>1. k + 1 \in 1 .. m /\ (k + 1) - 1 = k /\ k + 1 \in Nat
      BY <1>1, <1>4
    <2>2. h[k + 1] = h[k]
      BY <1>2, <2>1 DEF Collects, Steps, Step
    <2> QED
      BY <1>4, <2>1, <2>2
  <1> HIDE DEF S, m
  <1>5. 0 .. m \subseteq S
    BY <1>1, <1>3, <1>4, UpTo
  <1> QED
    BY <1>1, <1>2, <1>5, JobIdsAre DEF S, m

-----------------------------------------------------------------------------
(* What the queue holds for a promise, when a job comes or goes.             *)

\* A job comes last.
LEMMA JobIdsOfMore ==
  ASSUME NEW q \in Seq(Jobs), NEW j \in Jobs, NEW p
  PROVE  /\ Append(q, j) \in Seq(Jobs)
         /\ Reacts(j, p) => JobIds(Append(q, j), p) = Append(JobIds(q, p), j.id)
         /\ ~Reacts(j, p) => JobIds(Append(q, j), p) = JobIds(q, p)
  <1> DEFINE r == <<j>>
  <1>1. r \in Seq(Jobs) /\ Len(r) = 1 /\ r[1] = j /\ DOMAIN r = {1}
    OBVIOUS
  <1>2. Append(q, j) = q \o r /\ Append(q, j) \in Seq(Jobs)
    BY AppendIsConcat
  <1> HIDE DEF r
  <1>3. JobIds(q \o r, p) = JobIds(q, p) \o JobIds(r, p) /\ JobIds(q, p) \in Seq(Nat)
    BY <1>1, JobIdsInARow, JobIdsAreNumbers
  <1>4. \A i \in 1 .. Len(r) : r[i] = j
    BY <1>1
  <1>5. CASE Reacts(j, p)
    <2>1. JobIds(r, p) = IdsIn(r)
      BY <1>1, <1>4, <1>5, JobIdsOfAll
    <2>2. j.id \in Nat
      BY <1>5, JobsHaveIds DEF Reacts
    <2>3. IdsIn(r) = <<j.id>>
      BY <1>1 DEF IdsIn
    <2> DEFINE a == JobIds(q, p)
               x == j.id
    <2>4. a \in Seq(Nat) /\ x \in Nat
      BY <1>3, <2>2
    <2> HIDE DEF a, x
    <2>5. Append(a, x) = a \o <<x>>
      BY <2>4, AppendIsConcat
    <2> QED
      BY <1>2, <1>3, <1>5, <2>1, <2>3, <2>5 DEF a, x
  <1>6. CASE ~Reacts(j, p)
    <2>1. JobIds(r, p) = <<>>
      BY <1>1, <1>4, <1>6, JobIdsOfNone
    <2>2. JobIds(q, p) \o <<>> = JobIds(q, p)
      BY <1>3, WithEmpty
    <2> QED
      BY <1>2, <1>3, <1>6, <2>1, <2>2
  <1> QED
    BY <1>2, <1>5, <1>6

\* The first job is taken.
LEMMA JobIdsOfFewer ==
  ASSUME NEW q \in Seq(Jobs), q # <<>>, NEW p
  PROVE  /\ Tail(q) \in Seq(Jobs) /\ Head(q) \in Jobs
         /\ Reacts(Head(q), p) => JobIds(q, p) # <<>> /\ Head(JobIds(q, p)) = Head(q).id
                                  /\ Tail(JobIds(q, p)) = JobIds(Tail(q), p)
         /\ ~Reacts(Head(q), p) => JobIds(q, p) = JobIds(Tail(q), p)
  <1> DEFINE j == Head(q)
             r == <<j>>
             t == Tail(q)
  <1>1. r \in Seq(Jobs) /\ t \in Seq(Jobs) /\ q = r \o t /\ j \in Jobs
    <2>1. j \in Jobs
      OBVIOUS
    <2> QED
      BY <2>1, HeadAndTail
  <1>2. Len(r) = 1 /\ r[1] = j /\ DOMAIN r = {1} /\ \A i \in 1 .. Len(r) : r[i] = j
    OBVIOUS
  <1> HIDE DEF r, t, j
  <1>3. JobIds(q, p) = JobIds(r, p) \o JobIds(t, p) /\ JobIds(t, p) \in Seq(Nat)
    BY <1>1, JobIdsInARow, JobIdsAreNumbers
  <1>4. CASE Reacts(j, p)
    <2>1. JobIds(r, p) = IdsIn(r)
      BY <1>1, <1>2, <1>4, JobIdsOfAll
    <2>2. j.id \in Nat
      BY <1>1, <1>4, JobsHaveIds DEF Reacts
    <2>3. IdsIn(r) = <<j.id>>
      BY <1>2 DEF IdsIn
    <2> DEFINE a == JobIds(t, p)
               x == j.id
    <2>4. a \in Seq(Nat) /\ x \in Nat
      BY <1>3, <2>2
    <2> HIDE DEF a, x
    <2>5. <<x>> \o a # <<>> /\ Head(<<x>> \o a) = x /\ Tail(<<x>> \o a) = a
      BY <2>4
    <2> QED
      BY <1>1, <1>3, <1>4, <2>1, <2>3, <2>5 DEF a, x, t, j
  <1>5. CASE ~Reacts(j, p)
    <2>1. JobIds(r, p) = <<>>
      BY <1>1, <1>2, <1>5, JobIdsOfNone
    <2>2. <<>> \o JobIds(t, p) = JobIds(t, p)
      BY <1>3, WithEmpty
    <2> QED
      BY <1>1, <1>3, <1>5, <2>1, <2>2 DEF t, j
  <1> QED
    BY <1>1, <1>4, <1>5 DEF t, j

-----------------------------------------------------------------------------
(* Outcomes and waiting callbacks.                                           *)

\* What makes the reactions of a promise and its jobs one list: a promise has
\* reactions while it is pending and jobs when it is settled.
Fits(P, Q) ==
  /\ P \in Seq(PromiseRecords) /\ Len(P) <= MaxPromises /\ Q \in Seq(Jobs)
  /\ \A p \in 1 .. Len(P) : P[p].state # "pending" =>
        P[p].reactions = <<>> /\ P[p].result # None
  /\ \A i \in 1 .. Len(Q) : Q[i].promise \in 1 .. Len(P)
        /\ (Q[i].kind = "reaction" => P[Q[i].promise].state # "pending")

\* The types of its parts.
LEMMA FitsTypes ==
  ASSUME NEW P, NEW Q, Fits(P, Q)
  PROVE  /\ P \in Seq(PromiseRecords) /\ Q \in Seq(Jobs) /\ Len(P) \in Nat /\ Len(P) <= MaxPromises
         /\ DOMAIN P = 1 .. Len(P) /\ MaxPromises \in Nat
         /\ \A p \in 1 .. Len(P) : p \in 1 .. MaxPromises /\ P[p].reactions \in Seq(Reactions)
  <1>1. P \in Seq(PromiseRecords) /\ Q \in Seq(Jobs) /\ Len(P) <= MaxPromises
    BY DEF Fits
  <1>2. Len(P) \in Nat /\ DOMAIN P = 1 .. Len(P) /\ MaxPromises \in Nat
    BY <1>1, ValuesAreApart
  <1>3. \A p \in 1 .. Len(P) : P[p] \in PromiseRecords
    BY <1>1
  <1>4. \A p \in 1 .. Len(P) : P[p].reactions \in Seq(Reactions)
    BY <1>3 DEF PromiseRecords
  <1> QED
    BY <1>1, <1>2, <1>4

\* The ids of reactions are numbers.
LEMMA IdsAreNumbers ==
  ASSUME NEW r \in Seq(Reactions)
  PROVE  /\ IdsIn(r) \in Seq(Nat) /\ Len(IdsIn(r)) = Len(r) /\ DOMAIN r = 1 .. Len(r) /\ Len(r) \in Nat
         /\ \A i \in 1 .. Len(r) : IdsIn(r)[i] = r[i].id /\ r[i].id \in Nat
  <1>1. DOMAIN r = 1 .. Len(r) /\ Len(r) \in Nat /\ \A i \in 1 .. Len(r) : r[i] \in Reactions
    OBVIOUS
  <1>2. \A i \in 1 .. Len(r) : r[i].id \in Nat
    BY <1>1 DEF Reactions
  <1> DEFINE f == IdsIn(r)
             n == Len(r)
  <1>3. f = [i \in 1 .. n |-> r[i].id]
    BY <1>1 DEF IdsIn
  <1>4. f \in [1 .. n -> Nat]
    BY <1>2, <1>3
  <1> HIDE DEF f
  <1>5. f \in Seq(Nat) /\ Len(f) = n
    <2> HIDE DEF n
    <2>1. n \in Nat
      BY <1>1 DEF n
    <2> QED
      BY <1>4, <2>1, FunctionIsSequence
  <1> QED
    BY <1>1, <1>2, <1>3, <1>5 DEF f

\* A promise that is pending, or not there yet, has no jobs.
LEMMA NoJobsYet ==
  ASSUME NEW P, NEW Q, Fits(P, Q), NEW p, p \in 1 .. Len(P) => P[p].state = "pending"
  PROVE  JobIds(Q, p) = <<>>
  <1>1. \A i \in 1 .. Len(Q) : ~Reacts(Q[i], p)
    BY DEF Fits, Reacts
  <1> QED
    BY <1>1, FitsTypes, JobIdsOfNone

\* The callbacks that wait for a promise.
Awaits(P, Q, p) ==
  IF p \notin 1 .. Len(P) THEN <<>>
  ELSE IF P[p].state = "pending" THEN IdsIn(P[p].reactions) ELSE JobIds(Q, p)

\* They are on one of its lists.
LEMMA AwaitsIs ==
  ASSUME NEW P, NEW Q, Fits(P, Q)
  PROVE  /\ WaitingIn(P, Q) = [p \in 1 .. MaxPromises |-> Awaits(P, Q, p)]
         /\ \A p \in 1 .. MaxPromises : Awaits(P, Q, p) \in Seq(Nat)
  <1>1. ASSUME NEW p \in 1 .. MaxPromises
        PROVE  /\ (IF p \in DOMAIN P THEN IdsIn(P[p].reactions) \o JobIds(Q, p) ELSE <<>>) = Awaits(P, Q, p)
               /\ Awaits(P, Q, p) \in Seq(Nat)
    <2>1. DOMAIN P = 1 .. Len(P)
      BY FitsTypes
    <2>2. CASE p \notin 1 .. Len(P)
      <3>1. <<>> \in Seq(Nat)
        OBVIOUS
      <3> QED
        BY <2>1, <2>2, <3>1 DEF Awaits
    <2>3. CASE p \in 1 .. Len(P) /\ P[p].state = "pending"
      <3> DEFINE ids == IdsIn(P[p].reactions)
      <3>1. ids \in Seq(Nat)
        BY <2>3, FitsTypes, IdsAreNumbers
      <3>2. JobIds(Q, p) = <<>>
        BY <2>3, NoJobsYet
      <3>3. Awaits(P, Q, p) = ids
        BY <2>3 DEF Awaits
      <3> HIDE DEF ids
      <3>4. ids \o <<>> = ids
        BY <3>1, WithEmpty
      <3> QED
        BY <2>1, <2>3, <3>1, <3>2, <3>3, <3>4 DEF ids
    <2>4. CASE p \in 1 .. Len(P) /\ P[p].state # "pending"
      <3> DEFINE ids == JobIds(Q, p)
      <3>1. ids \in Seq(Nat)
        BY FitsTypes, JobIdsAreNumbers
      <3>2. P[p].reactions = <<>>
        BY <2>4 DEF Fits
      <3>3. IdsIn(<<>>) = <<>>
        BY DEF IdsIn
      <3>4. Awaits(P, Q, p) = ids
        BY <2>4 DEF Awaits
      <3> HIDE DEF ids
      <3>5. <<>> \o ids = ids
        BY <3>1, WithEmpty
      <3> QED
        BY <2>1, <2>4, <3>1, <3>2, <3>3, <3>4, <3>5 DEF ids
    <2> QED
      BY <2>2, <2>3, <2>4
  <1>2. WaitingIn(P, Q) = [p \in 1 .. MaxPromises |-> Awaits(P, Q, p)]
    BY <1>1, Zenon DEF WaitingIn
  <1> QED
    BY <1>1, <1>2

\* What differs in nothing else waits alike.
LEMMA AwaitAlike ==
  ASSUME NEW P, NEW Q, Fits(P, Q), NEW P2, NEW Q2, Fits(P2, Q2),
         \A p \in 1 .. MaxPromises : Awaits(P2, Q2, p) = Awaits(P, Q, p)
  PROVE  WaitingIn(P2, Q2) = WaitingIn(P, Q)
  <1>1. /\ WaitingIn(P, Q) = [p \in 1 .. MaxPromises |-> Awaits(P, Q, p)]
        /\ WaitingIn(P2, Q2) = [p \in 1 .. MaxPromises |-> Awaits(P2, Q2, p)]
    BY AwaitsIs
  <1> QED
    BY <1>1, Zenon

\* What differs in one place waits alike elsewhere.
LEMMA AwaitBut ==
  ASSUME NEW P, NEW Q, Fits(P, Q), NEW P2, NEW Q2, Fits(P2, Q2), NEW p \in 1 .. MaxPromises,
         \A o \in 1 .. MaxPromises : o # p => Awaits(P2, Q2, o) = Awaits(P, Q, o)
  PROVE  WaitingIn(P2, Q2) = [WaitingIn(P, Q) EXCEPT ![p] = Awaits(P2, Q2, p)]
  <1>1. /\ WaitingIn(P, Q) = [o \in 1 .. MaxPromises |-> Awaits(P, Q, o)]
        /\ WaitingIn(P2, Q2) = [o \in 1 .. MaxPromises |-> Awaits(P2, Q2, o)]
    BY AwaitsIs
  <1> HIDE DEF Awaits
  <1> QED
    BY <1>1

\* Two outcomes alike.
LEMMA OutcomeAlike ==
  ASSUME NEW P, NEW P2,
         \A p \in 1 .. MaxPromises :
           (IF p \in DOMAIN P2 /\ P2[p].state # "pending" THEN <<<<P2[p].state, P2[p].result>>>> ELSE <<>>)
           = (IF p \in DOMAIN P /\ P[p].state # "pending" THEN <<<<P[p].state, P[p].result>>>> ELSE <<>>)
  PROVE  OutcomeOf(P2) = OutcomeOf(P)
  BY Zenon DEF OutcomeOf

\* Whether a promise is handled is not seen.
LEMMA ViewAlike ==
  ASSUME NEW P, NEW Q, Fits(P, Q), NEW P2 \in Seq(PromiseRecords), Len(P2) = Len(P),
         \A p \in 1 .. Len(P) : P2[p].state = P[p].state /\ P2[p].result = P[p].result
                                /\ P2[p].reactions = P[p].reactions
  PROVE  Fits(P2, Q) /\ OutcomeOf(P2) = OutcomeOf(P) /\ WaitingIn(P2, Q) = WaitingIn(P, Q)
  <1>1. Fits(P2, Q)
    BY DEF Fits
  <1>2. DOMAIN P = 1 .. Len(P) /\ DOMAIN P2 = 1 .. Len(P)
    BY FitsTypes, <1>1
  <1>3. OutcomeOf(P2) = OutcomeOf(P)
    BY <1>2, OutcomeAlike
  <1>4. \A p \in 1 .. MaxPromises : Awaits(P2, Q, p) = Awaits(P, Q, p)
    BY DEF Awaits
  <1> QED
    BY <1>1, <1>3, <1>4, AwaitAlike

\* A new promise has no outcome, and nobody waits for it.
LEMMA ViewNew ==
  ASSUME NEW P, NEW Q, Fits(P, Q), Len(P) < MaxPromises, NEW r \in PromiseRecords,
         r.state = "pending", r.reactions = <<>>
  PROVE  /\ Fits(Append(P, r), Q) /\ OutcomeOf(Append(P, r)) = OutcomeOf(P)
         /\ WaitingIn(Append(P, r), Q) = WaitingIn(P, Q)
  <1> DEFINE P2 == Append(P, r)
             n == Len(P)
  <1>1. P \in Seq(PromiseRecords) /\ n \in Nat /\ MaxPromises \in Nat /\ Q \in Seq(Jobs) /\ DOMAIN P = 1 .. n
    BY FitsTypes
  <1>2. /\ P2 \in Seq(PromiseRecords) /\ Len(P2) = n + 1 /\ P2[n + 1] = r
        /\ \A p \in 1 .. n : P2[p] = P[p]
        /\ DOMAIN P2 = 1 .. n + 1
    BY <1>1
  <1> HIDE DEF P2
  <1>3. \A p \in 1 .. n + 1 : p \in 1 .. n \/ p = n + 1
    BY <1>1
  <1>4. \A p \in 1 .. n : p \in 1 .. n + 1
    BY <1>1
  <1>5. Len(P2) <= MaxPromises
    BY <1>1, <1>2
  <1>6. Fits(P2, Q)
    BY <1>1, <1>2, <1>3, <1>4, <1>5 DEF Fits, n
  <1>7. \A p : p \in 1 .. n + 1 /\ p \notin 1 .. n => P2[p] = r
    BY <1>2, <1>3
  <1>8. OutcomeOf(P2) = OutcomeOf(P)
    BY <1>1, <1>2, <1>4, <1>7, OutcomeAlike
  <1>9. IdsIn(<<>>) = <<>>
    BY DEF IdsIn
  <1>10. \A p \in 1 .. MaxPromises : Awaits(P2, Q, p) = Awaits(P, Q, p)
    BY <1>2, <1>4, <1>7, <1>9 DEF Awaits, n
  <1> QED
    BY <1>6, <1>8, <1>10, AwaitAlike DEF P2

\* Nobody waits because a thenable will be asked.
LEMMA ViewAsks ==
  ASSUME NEW P, NEW Q, Fits(P, Q), NEW j \in ThenableJobs, j.promise \in 1 .. Len(P)
  PROVE  Fits(P, Append(Q, j)) /\ WaitingIn(P, Append(Q, j)) = WaitingIn(P, Q)
  <1> DEFINE Q2 == Append(Q, j)
             n == Len(Q)
  <1>1. Q \in Seq(Jobs) /\ n \in Nat /\ j \in Jobs /\ j.kind = "thenable"
    BY FitsTypes DEF Jobs, ThenableJobs
  <1>2. Q2 \in Seq(Jobs) /\ Len(Q2) = n + 1 /\ Q2[n + 1] = j /\ \A i \in 1 .. n : Q2[i] = Q[i]
    BY <1>1
  <1>3. \A i \in 1 .. n + 1 : i \in 1 .. n \/ i = n + 1
    BY <1>1
  <1>4. \A p : JobIds(Q2, p) = JobIds(Q, p)
    BY <1>1, JobIdsOfMore DEF Reacts
  <1> HIDE DEF Q2
  <1>5. Fits(P, Q2)
    BY <1>1, <1>2, <1>3 DEF Fits, n
  <1>6. \A p \in 1 .. MaxPromises : Awaits(P, Q2, p) = Awaits(P, Q, p)
    BY <1>4 DEF Awaits
  <1> QED
    BY <1>5, <1>6, AwaitAlike DEF Q2

\* One more waits for a promise that is settled.
LEMMA ViewEnqueues ==
  ASSUME NEW P, NEW Q, Fits(P, Q), NEW j \in ReactionJobs, j.promise \in 1 .. Len(P),
         P[j.promise].state # "pending"
  PROVE  /\ Fits(P, Append(Q, j)) /\ j.promise \in 1 .. MaxPromises
         /\ WaitingIn(P, Append(Q, j)) = [WaitingIn(P, Q) EXCEPT ![j.promise] = Append(@, j.id)]
  <1> DEFINE Q2 == Append(Q, j)
             n == Len(Q)
             p == j.promise
  <1>1. /\ Q \in Seq(Jobs) /\ n \in Nat /\ j \in Jobs /\ j.kind = "reaction" /\ p \in 1 .. MaxPromises
    BY FitsTypes DEF Jobs, ReactionJobs
  <1>2. Q2 \in Seq(Jobs) /\ Len(Q2) = n + 1 /\ Q2[n + 1] = j /\ \A i \in 1 .. n : Q2[i] = Q[i]
    BY <1>1
  <1>3. \A i \in 1 .. n + 1 : i \in 1 .. n \/ i = n + 1
    BY <1>1
  <1>4. JobIds(Q2, p) = Append(JobIds(Q, p), j.id) /\ \A o : o # p => JobIds(Q2, o) = JobIds(Q, o)
    BY <1>1, JobIdsOfMore DEF Reacts
  <1> HIDE DEF Q2
  <1>5. Fits(P, Q2)
    BY <1>1, <1>2, <1>3 DEF Fits, n
  <1>6. \A o \in 1 .. MaxPromises : o # p => Awaits(P, Q2, o) = Awaits(P, Q, o)
    BY <1>4 DEF Awaits
  <1>7. Awaits(P, Q2, p) = Append(Awaits(P, Q, p), j.id)
    BY <1>4 DEF Awaits
  <1> DEFINE W == WaitingIn(P, Q)
             W2 == WaitingIn(P, Q2)
  <1>8. W2 = [W EXCEPT ![p] = Awaits(P, Q2, p)] /\ W[p] = Awaits(P, Q, p)
    <2>1. W2 = [W EXCEPT ![p] = Awaits(P, Q2, p)]
      BY <1>1, <1>5, <1>6, AwaitBut
    <2>2. W = [o \in 1 .. MaxPromises |-> Awaits(P, Q, o)]
      BY AwaitsIs
    <2> HIDE DEF W, W2, Awaits, p
    <2> QED
      BY <1>1, <2>1, <2>2
  <1> HIDE DEF W, W2, Awaits
  <1>9. W2 = [W EXCEPT ![p] = Append(@, j.id)]
    BY <1>7, <1>8
  <1> QED
    BY <1>1, <1>5, <1>9 DEF W, W2, Q2

Replaced(P, p, r) == [P EXCEPT ![p] = r]
IsAdded(P, Q, p, x, P2) ==
  /\ Fits(P, Q) /\ p \in 1 .. Len(P) /\ P[p].state = "pending" /\ x \in Reactions
  /\ \E r \in PromiseRecords : /\ r.state = "pending" /\ r.reactions = Append(P[p].reactions, x)
                               /\ P2 = Replaced(P, p, r)

\* One more waits for a promise that is pending.
LEMMA ViewAdds ==
  ASSUME NEW P, NEW Q, NEW p, NEW x, NEW P2, IsAdded(P, Q, p, x, P2)
  PROVE  /\ p \in 1 .. MaxPromises /\ OutcomeOf(P2) = OutcomeOf(P)
         /\ WaitingIn(P2, Q) = [WaitingIn(P, Q) EXCEPT ![p] = Append(@, x.id)]
  <1>0. Fits(P, Q) /\ p \in 1 .. Len(P) /\ P[p].state = "pending" /\ x \in Reactions
    BY DEF IsAdded
  <1>r. PICK r \in PromiseRecords : /\ r.state = "pending" /\ r.reactions = Append(P[p].reactions, x)
                                    /\ P2 = Replaced(P, p, r)
    BY DEF IsAdded
  <1> USE <1>0, <1>r
  <1> DEFINE n == Len(P)
             a == P[p].reactions
  <1>1. /\ P \in Seq(PromiseRecords) /\ n \in Nat /\ p \in 1 .. MaxPromises /\ DOMAIN P = 1 .. n
        /\ a \in Seq(Reactions)
    BY FitsTypes
  <1>2. /\ P2 \in Seq(PromiseRecords) /\ Len(P2) = n /\ P2[p] = r /\ DOMAIN P2 = 1 .. n
        /\ \A o \in 1 .. n : o # p => P2[o] = P[o]
    BY <1>1 DEF Replaced
  <1> HIDE DEF a
  <1>3. Fits(P2, Q)
    BY <1>1, <1>2 DEF Fits, n
  <1>4. OutcomeOf(P2) = OutcomeOf(P)
    BY <1>1, <1>2, OutcomeAlike
  <1>5. \A o \in 1 .. MaxPromises : o # p => Awaits(P2, Q, o) = Awaits(P, Q, o)
    BY <1>2 DEF Awaits, n
  <1>6. Awaits(P2, Q, p) = IdsIn(Append(a, x)) /\ Awaits(P, Q, p) = IdsIn(a)
    BY <1>2 DEF Awaits, n, a
  <1>7. IdsIn(Append(a, x)) = Append(IdsIn(a), x.id)
    <2> DEFINE b == Append(a, x)
               f == IdsIn(b)
               g == IdsIn(a)
               h == Append(g, x.id)
    <2>1. b \in Seq(Reactions) /\ Len(b) = Len(a) + 1 /\ b[Len(a) + 1] = x /\ \A i \in 1 .. Len(a) : b[i] = a[i]
      BY <1>1
    <2> HIDE DEF b
    <2>2. /\ f \in Seq(Nat) /\ Len(f) = Len(a) + 1 /\ g \in Seq(Nat) /\ Len(g) = Len(a) /\ Len(a) \in Nat
          /\ \A i \in 1 .. Len(a) + 1 : f[i] = b[i].id
          /\ \A i \in 1 .. Len(a) : g[i] = a[i].id
      BY <1>1, <2>1, IdsAreNumbers
    <2>3. x.id \in Nat
      BY DEF Reactions
    <2> HIDE DEF f, g
    <2>4. h \in Seq(Nat) /\ Len(h) = Len(a) + 1 /\ h[Len(a) + 1] = x.id /\ \A i \in 1 .. Len(a) : h[i] = g[i]
      BY <2>2, <2>3
    <2> HIDE DEF h
    <2>5. \A i \in 1 .. Len(a) + 1 : i \in 1 .. Len(a) \/ i = Len(a) + 1
      BY <2>2
    <2>6. \A i \in 1 .. Len(f) : f[i] = h[i]
      BY <2>1, <2>2, <2>4, <2>5
    <2>7. f = h
      BY <2>2, <2>4, <2>6, SeqEqual
    <2> QED
      BY <2>7 DEF f, h, g, b
  <1> DEFINE W == WaitingIn(P, Q)
             W2 == WaitingIn(P2, Q)
  <1>8. W2 = [W EXCEPT ![p] = Awaits(P2, Q, p)] /\ W[p] = Awaits(P, Q, p)
    <2>1. W2 = [W EXCEPT ![p] = Awaits(P2, Q, p)]
      BY <1>1, <1>3, <1>5, AwaitBut
    <2>2. W = [o \in 1 .. MaxPromises |-> Awaits(P, Q, o)]
      BY AwaitsIs
    <2> HIDE DEF W, W2, Awaits
    <2> QED
      BY <1>1, <2>1, <2>2
  <1> HIDE DEF W, W2, Awaits
  <1>9. W2 = [W EXCEPT ![p] = Append(@, x.id)]
    BY <1>6, <1>7, <1>8
  <1> QED
    BY <1>1, <1>4, <1>9 DEF W, W2

JobsOf(r, p, state, v) == [i \in DOMAIN r |-> ReactionJob(p, r[i], state, v)]

\* The jobs of the reactions of a promise, in their order.
LEMMA ReactionsBecomeJobs ==
  ASSUME NEW r \in Seq(Reactions), NEW p \in Nat, NEW state \in Settled, NEW v \in Values,
         NEW jobs, jobs = JobsOf(r, p, state, v)
  PROVE  /\ jobs \in Seq(Jobs) /\ JobIds(jobs, p) = IdsIn(r)
         /\ \A o : o # p => JobIds(jobs, o) = <<>>
         /\ \A i \in 1 .. Len(jobs) : jobs[i].promise = p /\ jobs[i].kind = "reaction"
  <1> DEFINE n == Len(r)
  <1>1. DOMAIN r = 1 .. n /\ n \in Nat /\ \A i \in 1 .. n : r[i] \in Reactions
    OBVIOUS
  <1>2. ASSUME NEW x \in Reactions
        PROVE  LET j == ReactionJob(p, x, state, v)
               IN  j \in Jobs /\ j.promise = p /\ j.kind = "reaction" /\ j.id = x.id
    BY DEF Jobs, ReactionJob, ReactionJobs, Reactions
  <1>3. jobs = [i \in 1 .. n |-> ReactionJob(p, r[i], state, v)]
    BY <1>1 DEF JobsOf
  <1> HIDE DEF n
  <1>4. \A i \in 1 .. n : jobs[i] \in Jobs /\ jobs[i].promise = p /\ jobs[i].kind = "reaction" /\ jobs[i].id = r[i].id
    BY <1>1, <1>2, <1>3
  <1>5. jobs \in [1 .. n -> Jobs]
    BY <1>3, <1>4
  <1>6. jobs \in Seq(Jobs) /\ Len(jobs) = n /\ DOMAIN jobs = 1 .. n
    BY <1>1, <1>5, FunctionIsSequence
  <1>7. JobIds(jobs, p) = IdsIn(jobs)
    BY <1>4, <1>6, JobIdsOfAll DEF Reacts
  <1>8. IdsIn(jobs) = IdsIn(r)
    BY <1>1, <1>4, <1>6, Zenon DEF IdsIn
  <1>9. \A o : o # p => JobIds(jobs, o) = <<>>
    <2> SUFFICES ASSUME NEW o, o # p PROVE JobIds(jobs, o) = <<>>
      OBVIOUS
    <2>1. \A i \in 1 .. Len(jobs) : ~Reacts(jobs[i], o)
      BY <1>4, <1>6 DEF Reacts
    <2> QED
      BY <1>6, <2>1, JobIdsOfNone
  <1> QED
    BY <1>4, <1>6, <1>7, <1>8, <1>9

IsSettled(P, Q, p, state, v, P2, Q2) ==
  /\ Fits(P, Q) /\ p \in 1 .. Len(P) /\ P[p].state = "pending"
  /\ state \in Settled /\ v \in Values
  /\ \E r \in PromiseRecords : /\ r.state = state /\ r.result = v /\ r.reactions = <<>>
                               /\ P2 = Replaced(P, p, r)
  /\ Q2 = Q \o JobsOf(P[p].reactions, p, state, v)

\* A promise is settled, and those that wait for it wait on.
LEMMA ViewSettles ==
  ASSUME NEW P, NEW Q, NEW p, NEW state, NEW v, NEW P2, NEW Q2,
         IsSettled(P, Q, p, state, v, P2, Q2)
  PROVE  /\ p \in 1 .. MaxPromises /\ OutcomeOf(P)[p] = <<>>
         /\ OutcomeOf(P2) = [OutcomeOf(P) EXCEPT ![p] = <<<<state, v>>>>]
         /\ WaitingIn(P2, Q2) = WaitingIn(P, Q)
  <1> DEFINE jobs == JobsOf(P[p].reactions, p, state, v)
  <1>0. /\ Fits(P, Q) /\ p \in 1 .. Len(P) /\ P[p].state = "pending"
        /\ state \in Settled /\ v \in Values /\ Q2 = Q \o jobs
    BY DEF IsSettled
  <1>r. PICK r \in PromiseRecords : /\ r.state = state /\ r.result = v /\ r.reactions = <<>>
                                    /\ P2 = Replaced(P, p, r)
    BY DEF IsSettled
  <1> HIDE DEF jobs
  <1> USE <1>0, <1>r
  <1> DEFINE n == Len(P)
             a == P[p].reactions
  <1>1. /\ P \in Seq(PromiseRecords) /\ n \in Nat /\ p \in 1 .. MaxPromises /\ DOMAIN P = 1 .. n
        /\ a \in Seq(Reactions) /\ Q \in Seq(Jobs) /\ p \in Nat
    BY FitsTypes
  <1>2. /\ P2 \in Seq(PromiseRecords) /\ Len(P2) = n /\ P2[p] = r /\ DOMAIN P2 = 1 .. n
        /\ \A o \in 1 .. n : o # p => P2[o] = P[o]
    BY <1>1 DEF Replaced
  <1>3. /\ jobs \in Seq(Jobs) /\ JobIds(jobs, p) = IdsIn(a)
        /\ \A o : o # p => JobIds(jobs, o) = <<>>
        /\ \A i \in 1 .. Len(jobs) : jobs[i].promise = p /\ jobs[i].kind = "reaction"
    <2>1. jobs = JobsOf(a, p, state, v)
      BY DEF jobs
    <2>2. a \in Seq(Reactions) /\ p \in Nat
      BY <1>1
    <2> HIDE DEF a
    <2> QED
      BY <2>1, <2>2, ReactionsBecomeJobs
  <1>4. /\ Q2 \in Seq(Jobs) /\ Len(Q2) = Len(Q) + Len(jobs) /\ Len(Q) \in Nat /\ Len(jobs) \in Nat
        /\ \A i \in 1 .. Len(Q) : Q2[i] = Q[i]
        /\ \A i \in 1 .. Len(jobs) : Q2[Len(Q) + i] = jobs[i]
    BY <1>1, <1>3, InARow
  <1>5. \A o : JobIds(Q2, o) = JobIds(Q, o) \o JobIds(jobs, o) /\ JobIds(Q, o) \in Seq(Nat)
    BY <1>1, <1>3, JobIdsInARow, JobIdsAreNumbers
  <1>6. state # "pending"
    BY DEF Settled
  <1> HIDE DEF a
  <1>7. \A i \in 1 .. Len(Q2) : i \in 1 .. Len(Q) \/ (i - Len(Q) \in 1 .. Len(jobs) /\ Len(Q) + (i - Len(Q)) = i)
    BY <1>4
  <1>8. Fits(P2, Q2)
    <2>1. \A i \in 1 .. Len(Q2) : Q2[i].promise \in 1 .. n
            /\ (Q2[i].kind = "reaction" => P2[Q2[i].promise].state # "pending")
      <3> TAKE i \in 1 .. Len(Q2)
      <3>1. CASE i \in 1 .. Len(Q)
        <4>1. Q2[i] = Q[i] /\ Q[i].promise \in 1 .. n
              /\ (Q[i].kind = "reaction" => P[Q[i].promise].state # "pending")
          BY <1>4, <3>1 DEF Fits, n
        <4> QED
          BY <1>2, <1>6, <4>1
      <3>2. CASE i - Len(Q) \in 1 .. Len(jobs) /\ Len(Q) + (i - Len(Q)) = i
        <4>1. Q2[i] = jobs[i - Len(Q)]
          BY <1>4, <3>2
        <4> QED
          BY <1>2, <1>3, <1>6, <3>2, <4>1 DEF n
      <3> QED
        BY <1>7, <3>1, <3>2
    <2>2. \A o \in 1 .. n : P2[o].state # "pending" =>
            P2[o].reactions = <<>> /\ P2[o].result # None
      <3>1. v # None
        BY ValuesAreApart DEF Values
      <3> QED
        BY <1>2, <3>1 DEF Fits, n
    <2>3. n <= MaxPromises
      BY DEF Fits
    <2> QED
      BY <1>2, <1>4, <2>1, <2>2, <2>3 DEF Fits
  <1>9. \A o \in 1 .. MaxPromises : Awaits(P2, Q2, o) = Awaits(P, Q, o)
    <2> TAKE o \in 1 .. MaxPromises
    <2>1. CASE o = p
      <3> DEFINE ids == IdsIn(a)
      <3>1. ids \in Seq(Nat)
        BY <1>1, IdsAreNumbers
      <3>2. JobIds(Q, p) = <<>>
        BY NoJobsYet
      <3> HIDE DEF ids
      <3>3. <<>> \o ids = ids
        BY <3>1, WithEmpty
      <3>4. JobIds(Q2, p) = ids
        BY <1>3, <1>5, <3>2, <3>3 DEF ids
      <3>5. Awaits(P2, Q2, p) = JobIds(Q2, p)
        BY <1>2, <1>6 DEF Awaits
      <3>6. Awaits(P, Q, p) = ids
        BY DEF Awaits, ids, a
      <3> QED
        BY <2>1, <3>4, <3>5, <3>6
    <2>2. CASE o # p
      <3> DEFINE b == JobIds(Q, o)
      <3>1. b \in Seq(Nat) /\ JobIds(Q2, o) = b \o <<>>
        <4>1. b \in Seq(Nat) /\ JobIds(Q2, o) = b \o JobIds(jobs, o)
          BY <1>5, Zenon
        <4>2. JobIds(jobs, o) = <<>>
          BY <1>3, <2>2, Zenon
        <4> QED
          BY <4>1, <4>2, Zenon
      <3>2. JobIds(Q2, o) = JobIds(Q, o)
        <4> HIDE DEF b
        <4>1. b \o <<>> = b
          BY <3>1, WithEmpty
        <4> QED
          BY <3>1, <4>1 DEF b
      <3> QED
        BY <1>2, <2>2, <3>2 DEF Awaits, n
    <2> QED
      BY <2>1, <2>2
  <1>10. WaitingIn(P2, Q2) = WaitingIn(P, Q)
    BY <1>8, <1>9, AwaitAlike
  <1>11. OutcomeOf(P)[p] = <<>> /\ OutcomeOf(P2) = [OutcomeOf(P) EXCEPT ![p] = <<<<state, v>>>>]
    <2> DEFINE Out(R, o) == IF o \in DOMAIN R /\ R[o].state # "pending" THEN <<<<R[o].state, R[o].result>>>> ELSE <<>>
    <2>1. Out(P, p) = <<>> /\ Out(P2, p) = <<<<state, v>>>>
      BY <1>1, <1>2, <1>6
    <2>2. \A o : o # p => Out(P2, o) = Out(P, o)
      BY <1>1, <1>2
    <2>3. /\ OutcomeOf(P) = [o \in 1 .. MaxPromises |-> Out(P, o)]
          /\ OutcomeOf(P2) = [o \in 1 .. MaxPromises |-> Out(P2, o)]
      BY DEF OutcomeOf
    <2> DEFINE O == OutcomeOf(P)
               O2 == OutcomeOf(P2)
    <2> HIDE DEF Out, O, O2
    <2>5. O = [o \in 1 .. MaxPromises |-> Out(P, o)] /\ O2 = [o \in 1 .. MaxPromises |-> Out(P2, o)]
      BY <2>3 DEF O, O2
    <2>4. O2 = [O EXCEPT ![p] = Out(P2, p)] /\ O[p] = Out(P, p)
      BY <1>1, <2>2, <2>5
    <2> QED
      BY <2>1, <2>4, Zenon DEF O, O2
  <1> QED
    BY <1>1, <1>10, <1>11

\* The first job is taken: if it is the job of a reaction, it is that of the
\* first callback that waits for its promise.
LEMMA ViewDequeues ==
  ASSUME NEW P, NEW Q, Fits(P, Q), Q # <<>>
  PROVE  /\ Fits(P, Tail(Q)) /\ Head(Q) \in Jobs
         /\ Head(Q).kind # "reaction" => WaitingIn(P, Tail(Q)) = WaitingIn(P, Q)
         /\ Head(Q).kind = "reaction" =>
              LET p == Head(Q).promise
                  W == WaitingIn(P, Q)
              IN  /\ p \in 1 .. MaxPromises /\ p \in 1 .. Len(P) /\ P[p].state # "pending"
                  /\ W[p] # <<>> /\ Head(W[p]) = Head(Q).id
                  /\ WaitingIn(P, Tail(Q)) = [W EXCEPT ![p] = Tail(@)]
  <1> DEFINE j == Head(Q)
             Q2 == Tail(Q)
             p == j.promise
  <1>1. Q \in Seq(Jobs) /\ Len(Q) \in Nat
    BY FitsTypes
  <1>2. /\ Q2 \in Seq(Jobs) /\ Len(Q2) = Len(Q) - 1 /\ \A i \in 1 .. Len(Q2) : i + 1 \in 1 .. Len(Q) /\ Q2[i] = Q[i + 1]
        /\ j = Q[1] /\ 1 \in 1 .. Len(Q) /\ j \in Jobs
    BY <1>1
  <1>3. \A o : /\ Reacts(j, o) => /\ JobIds(Q, o) # <<>> /\ Head(JobIds(Q, o)) = j.id
                                  /\ Tail(JobIds(Q, o)) = JobIds(Q2, o)
               /\ ~Reacts(j, o) => JobIds(Q, o) = JobIds(Q2, o)
    BY <1>1, JobIdsOfFewer
  <1> HIDE DEF j, Q2, p
  <1>4. Fits(P, Q2)
    BY <1>1, <1>2 DEF Fits
  <1>5. ASSUME j.kind # "reaction"
        PROVE  WaitingIn(P, Q2) = WaitingIn(P, Q)
    <2>1. \A o \in 1 .. MaxPromises : Awaits(P, Q2, o) = Awaits(P, Q, o)
      BY <1>3, <1>5 DEF Awaits, Reacts
    <2> QED
      BY <1>4, <2>1, AwaitAlike
  <1>6. ASSUME j.kind = "reaction"
        PROVE  LET W == WaitingIn(P, Q)
               IN  /\ p \in 1 .. MaxPromises /\ p \in 1 .. Len(P) /\ P[p].state # "pending"
                   /\ W[p] # <<>> /\ Head(W[p]) = j.id
                   /\ WaitingIn(P, Q2) = [W EXCEPT ![p] = Tail(@)]
    <2>1. p \in 1 .. Len(P) /\ P[p].state # "pending" /\ p \in 1 .. MaxPromises
      BY <1>2, <1>6, FitsTypes DEF Fits, p
    <2>2. Reacts(j, p) /\ \A o : o # p => ~Reacts(j, o)
      BY <1>6 DEF Reacts, p
    <2>3. \A o \in 1 .. MaxPromises : o # p => Awaits(P, Q2, o) = Awaits(P, Q, o)
      BY <1>3, <2>2 DEF Awaits
    <2>4. Awaits(P, Q, p) = JobIds(Q, p) /\ Awaits(P, Q2, p) = JobIds(Q2, p)
      BY <2>1 DEF Awaits
    <2> DEFINE W == WaitingIn(P, Q)
               W2 == WaitingIn(P, Q2)
    <2>5. W2 = [W EXCEPT ![p] = Awaits(P, Q2, p)] /\ W[p] = Awaits(P, Q, p)
      <3>1. W2 = [W EXCEPT ![p] = Awaits(P, Q2, p)]
        BY <1>4, <2>1, <2>3, AwaitBut
      <3>2. W = [o \in 1 .. MaxPromises |-> Awaits(P, Q, o)]
        BY AwaitsIs
      <3> HIDE DEF W, W2, Awaits
      <3> QED
        BY <2>1, <3>1, <3>2
    <2> HIDE DEF W, W2, Awaits
    <2>6. W2 = [W EXCEPT ![p] = Tail(@)] /\ W[p] # <<>> /\ Head(W[p]) = j.id
      BY <1>3, <2>2, <2>4, <2>5
    <2> QED
      BY <2>1, <2>6 DEF W, W2
  <1> QED
    BY <1>2, <1>4, <1>5, <1>6 DEF j, Q2, p

-----------------------------------------------------------------------------
(* What the functions of the state do to what is seen of it.                 *)

Keeps(s, t) ==
  /\ OutcomeOf(t.promise) = OutcomeOf(s.promise)
  /\ WaitingIn(t.promise, t.queue) = WaitingIn(s.promise, s.queue)

\* One promise gets its outcome.
Decides(s, t) ==
  /\ WaitingIn(t.promise, t.queue) = WaitingIn(s.promise, s.queue)
  /\ \E p \in 1 .. MaxPromises, o \in Settled \X Values :
        /\ OutcomeOf(s.promise)[p] = <<>>
        /\ OutcomeOf(t.promise) = [OutcomeOf(s.promise) EXCEPT ![p] = <<o>>]
MayDecide(s, t) == Keeps(s, t) \/ Decides(s, t)

\* One callback is added to those that wait.
Registers(s, t) ==
  /\ OutcomeOf(t.promise) = OutcomeOf(s.promise)
  /\ \E p \in 1 .. MaxPromises, c \in Nat :
        WaitingIn(t.promise, t.queue) = [WaitingIn(s.promise, s.queue) EXCEPT ![p] = Append(@, c)]

\* The record of a state; a pair that was not used is of a pending promise.
Shaped(s) ==
  s = [promise |-> s.promise, resolver |-> s.resolver, queue |-> s.queue, stack |-> s.stack,
       unhandled |-> s.unhandled, all |-> s.all, registered |-> s.registered]
Owed(s) ==
  \A k \in 1 .. Len(s.resolver) : ~s.resolver[k].alreadyResolved =>
    /\ s.resolver[k].promise \in 1 .. Len(s.promise)
    /\ s.promise[s.resolver[k].promise].state = "pending"
Fine(s) == Shaped(s) /\ Fits(s.promise, s.queue) /\ Owed(s)

\* A sound state is fine.
LEMMA SoundIsFine ==
  ASSUME NEW s, NEW X, Sound(s, X)
  PROVE  Fine(s)
  <1>1. s \in States /\ References(s) /\ OneParty(s, X)
    BY SoundParts
  <1>2. Shaped(s)
    BY <1>1, Rebuilt DEF Shaped
  <1>3. Fits(s.promise, s.queue)
    <2>1. \A p \in 1 .. Len(s.promise) : s.promise[p].state # "pending" =>
            s.promise[p].reactions = <<>> /\ s.promise[p].result # None
      BY <1>1 DEF References, GoodPromise
    <2>2. \A i \in 1 .. Len(s.queue) : s.queue[i].promise \in 1 .. Len(s.promise)
            /\ (s.queue[i].kind = "reaction" => s.promise[s.queue[i].promise].state # "pending")
      <3> TAKE i \in 1 .. Len(s.queue)
      <3>1. GoodJob(s, s.queue[i]) /\ s.queue[i] \in Jobs
        BY <1>1, Members DEF References, Jobs
      <3>2. s.queue[i].kind = "reaction" => s.queue[i].as \in Settled
        BY <3>1 DEF Jobs, ThenableJobs, ReactionJobs
      <3> QED
        BY <3>1, <3>2 DEF GoodJob, Settled
    <2>3. s.promise \in Seq(PromiseRecords) /\ s.queue \in Seq(Jobs) /\ Len(s.promise) <= MaxPromises
      BY <1>1, StateParts DEF References, Jobs
    <2> QED
      BY <2>1, <2>2, <2>3 DEF Fits
  <1>4. Owed(s)
    <2> SUFFICES ASSUME NEW k \in 1 .. Len(s.resolver), ~s.resolver[k].alreadyResolved
                 PROVE  /\ s.resolver[k].promise \in 1 .. Len(s.promise)
                        /\ s.promise[s.resolver[k].promise].state = "pending"
      BY DEF Owed
    <2> DEFINE p == s.resolver[k].promise
    <2>1. p \in 1 .. Len(s.promise) /\ k \in Pairs(s, p)
      BY <1>1 DEF References, Pairs
    <2> HIDE DEF p
    <2>2. s.promise[p].state = "pending"
      BY <1>1, <2>1, OnlyParty
    <2> QED
      BY <2>1, <2>2 DEF p
  <1> QED
    BY <1>2, <1>3, <1>4 DEF Fine

\* Other parts of the state do not matter.
LEMMA FineStays ==
  ASSUME NEW s, Fine(s), NEW t, Shaped(t), t.promise = s.promise, t.queue = s.queue,
         t.resolver = s.resolver
  PROVE  Fine(t) /\ Keeps(s, t)
  <1>1. Owed(t)
    BY DEF Fine, Owed
  <1>2. Fits(t.promise, t.queue)
    BY DEF Fine
  <1> QED
    BY <1>1, <1>2 DEF Fine, Keeps

\* A pending promise is settled.
LEMMA SettleDecides ==
  ASSUME NEW s, Shaped(s), Fits(s.promise, s.queue), NEW p \in 1 .. Len(s.promise),
         s.promise[p].state = "pending", NEW state \in Settled, NEW v \in Values
  PROVE  Decides(s, Settle(s, p, state, v))
  <1> DEFINE P == s.promise
             r == [P[p] EXCEPT !.state = state, !.result = v, !.reactions = <<>>]
             jobs == JobsOf(P[p].reactions, p, state, v)
             t == Settle(s, p, state, v)
  <1>1. P[p] \in PromiseRecords
    BY FitsTypes
  <1>2. r \in PromiseRecords /\ r.state = state /\ r.result = v /\ r.reactions = <<>>
    <2>1. <<>> \in Seq(Reactions)
      OBVIOUS
    <2> QED
      BY <1>1, <2>1 DEF PromiseRecords
  <1>3. t.promise = [P EXCEPT ![p] = r] /\ t.queue = s.queue \o jobs
    BY DEF Settle, Shaped, JobsOf
  <1> HIDE DEF r, jobs, t
  <1>4. /\ p \in 1 .. MaxPromises /\ OutcomeOf(P)[p] = <<>>
        /\ OutcomeOf(t.promise) = [OutcomeOf(P) EXCEPT ![p] = <<<<state, v>>>>]
        /\ WaitingIn(t.promise, t.queue) = WaitingIn(P, s.queue)
    <2> DEFINE Q == s.queue
               P2 == t.promise
               Q2 == t.queue
    <2>1. IsSettled(P, Q, p, state, v, P2, Q2)
      BY <1>2, <1>3 DEF IsSettled, Replaced, jobs
    <2> HIDE DEF P, Q, P2, Q2
    <2>3. /\ p \in 1 .. MaxPromises /\ OutcomeOf(P)[p] = <<>>
          /\ OutcomeOf(P2) = [OutcomeOf(P) EXCEPT ![p] = <<<<state, v>>>>]
          /\ WaitingIn(P2, Q2) = WaitingIn(P, Q)
      BY <2>1, ViewSettles
    <2> QED
      BY <2>3 DEF Q, P2, Q2
  <1>5. <<state, v>> \in Settled \X Values
    OBVIOUS
  <1>6. Decides(s, t)
    BY <1>4, <1>5 DEF Decides
  <1> QED
    BY <1>6 DEF t

\* A pair is marked.
LEMMA MarkIs ==
  ASSUME NEW s, Shaped(s), NEW k
  PROVE  /\ Shaped(MarkResolved(s, k)) /\ MarkResolved(s, k).promise = s.promise
         /\ MarkResolved(s, k).queue = s.queue
  <1> DEFINE R == [s.resolver EXCEPT ![k].alreadyResolved = TRUE]
             t == [s EXCEPT !.resolver = R]
  <1>1. MarkResolved(s, k) = t
    BY DEF MarkResolved
  <1> HIDE DEF R
  <1>2. t = [promise |-> s.promise, resolver |-> R, queue |-> s.queue, stack |-> s.stack,
             unhandled |-> s.unhandled, all |-> s.all, registered |-> s.registered]
    BY DEF Shaped
  <1> HIDE DEF t
  <1>3. /\ t.promise = s.promise /\ t.resolver = R /\ t.queue = s.queue /\ t.stack = s.stack
        /\ t.unhandled = s.unhandled /\ t.all = s.all /\ t.registered = s.registered
    BY <1>2
  <1> QED
    BY <1>1, <1>2, <1>3 DEF Shaped

\* A pair rejects its promise.
LEMMA RejectDecides ==
  ASSUME NEW s, Fine(s), NEW k \in 1 .. Len(s.resolver), NEW v \in Values
  PROVE  MayDecide(s, Reject(s, k, v))
  <1>1. CASE s.resolver[k].alreadyResolved
    BY <1>1 DEF Reject, MayDecide, Keeps
  <1>2. CASE ~s.resolver[k].alreadyResolved
    <2> DEFINE u == MarkResolved(s, k)
               p == s.resolver[k].promise
    <2>1. Shaped(u) /\ u.promise = s.promise /\ u.queue = s.queue
      BY MarkIs DEF Fine
    <2>2. Fits(s.promise, s.queue) /\ p \in 1 .. Len(s.promise) /\ s.promise[p].state = "pending"
      BY <1>2 DEF Fine, Owed
    <2>3. Reject(s, k, v) = Settle(u, p, "rejected", v) /\ "rejected" \in Settled
      BY <1>2 DEF Reject, Settled
    <2> HIDE DEF u, p
    <2>4. Decides(u, Settle(u, p, "rejected", v))
      BY <2>1, <2>2, <2>3, SettleDecides
    <2> QED
      BY <2>1, <2>3, <2>4 DEF MayDecide, Decides
  <1> QED
    BY <1>1, <1>2

\* A pair resolves its promise, or hands it on.
LEMMA ResolveDecides ==
  ASSUME NEW s, Fine(s), NEW k \in 1 .. Len(s.resolver), NEW v \in Values
  PROVE  MayDecide(s, Resolve(s, k, v))
  <1>1. CASE s.resolver[k].alreadyResolved
    BY <1>1 DEF Resolve, MayDecide, Keeps
  <1>2. CASE ~s.resolver[k].alreadyResolved
    <2> DEFINE u == MarkResolved(s, k)
               p == s.resolver[k].promise
               t == Resolve(s, k, v)
               f == [fn |-> "getThen", promise |-> p, value |-> v]
               j == ThenableJob(p, v)
    <2>1. Shaped(u) /\ u.promise = s.promise /\ u.queue = s.queue
      BY MarkIs DEF Fine
    <2>2. Fits(u.promise, u.queue) /\ p \in 1 .. Len(u.promise) /\ u.promise[p].state = "pending"
      BY <1>2, <2>1 DEF Fine, Owed
    <2>3. \/ t = Settle(u, p, "rejected", SelfError)
          \/ t = Push(u, f)
          \/ v \in 1 .. MaxPromises /\ t = Enqueue(u, j)
          \/ t = Settle(u, p, "fulfilled", v)
      BY <1>2 DEF Resolve, IsThenable
    <2>4. "rejected" \in Settled /\ "fulfilled" \in Settled /\ SelfError \in Values
      BY DEF Settled, Values
    <2>5. MayDecide(u, t)
      <3> HIDE DEF u, p, t, f
      <3>1. CASE t = Settle(u, p, "rejected", SelfError) \/ t = Settle(u, p, "fulfilled", v)
        <4>1. /\ Decides(u, Settle(u, p, "rejected", SelfError))
              /\ Decides(u, Settle(u, p, "fulfilled", v))
          BY <2>1, <2>2, <2>4, SettleDecides
        <4> QED
          BY <3>1, <4>1 DEF MayDecide
      <3>2. CASE t = Push(u, f)
        <4>1. t.promise = u.promise /\ t.queue = u.queue
          BY <2>1, <3>2 DEF Push, Shaped
        <4> QED
          BY <4>1 DEF MayDecide, Keeps
      <3>3. CASE v \in 1 .. MaxPromises /\ t = Enqueue(u, j)
        <4>1. t.promise = u.promise /\ t.queue = Append(u.queue, j)
          BY <2>1, <3>3 DEF Enqueue, Shaped
        <4>2. j \in ThenableJobs /\ j.promise = p
          <5>1. v \in Nat /\ p \in Nat
            BY <2>2, <3>3, FitsTypes
          <5> QED
            BY <5>1 DEF ThenableJob, ThenableJobs
        <4> HIDE DEF j
        <4>3. WaitingIn(u.promise, Append(u.queue, j)) = WaitingIn(u.promise, u.queue)
          BY <2>2, <4>2, ViewAsks
        <4> QED
          BY <4>1, <4>3 DEF MayDecide, Keeps
      <3> QED
        BY <2>3, <3>1, <3>2, <3>3
    <2> QED
      BY <2>1, <2>5 DEF MayDecide, Decides, Keeps
  <1> QED
    BY <1>1, <1>2

\* What is answered to a reaction is one of these.
LEMMA AnswerDecides ==
  ASSUME NEW s, Fine(s), NEW c, c # None => c \in 1 .. Len(s.resolver), NEW v \in Values
  PROVE  MayDecide(s, Answer(s, c, v)) /\ MayDecide(s, Fail(s, c, v))
  <1>1. CASE c = None
    BY <1>1 DEF Answer, Fail, MayDecide, Keeps
  <1>2. CASE c # None
    BY <1>2, ResolveDecides, RejectDecides DEF Answer, Fail
  <1> QED
    BY <1>1, <1>2

\* An element of Promise.all is filled, perhaps the last one.
LEMMA ElementDecides ==
  ASSUME NEW s, Fine(s), s.all.resolver \in 1 .. Len(s.resolver), s.all \in Gatherings, NEW i
  PROVE  MayDecide(s, ResolveElement(s, i))
  <1> DEFINE u == [s EXCEPT !.all.called[i] = TRUE, !.all.remaining = @ - 1]
  <1>1. /\ Shaped(u) /\ u.promise = s.promise /\ u.queue = s.queue /\ u.resolver = s.resolver
        /\ u.all.resolver = s.all.resolver
    <2> DEFINE A == [s.all EXCEPT !.called[i] = TRUE, !.remaining = @ - 1]
               t == [s EXCEPT !.all = A]
    <2>1. u = t
      BY DEF Fine, Shaped
    <2>2. A.resolver = s.all.resolver
      BY DEF Gatherings
    <2> HIDE DEF A, u
    <2>3. t = [promise |-> s.promise, resolver |-> s.resolver, queue |-> s.queue, stack |-> s.stack,
               unhandled |-> s.unhandled, all |-> A, registered |-> s.registered]
      BY DEF Fine, Shaped
    <2> HIDE DEF t
    <2>4. /\ t.promise = s.promise /\ t.resolver = s.resolver /\ t.queue = s.queue /\ t.stack = s.stack
          /\ t.unhandled = s.unhandled /\ t.all = A /\ t.registered = s.registered
      BY <2>3
    <2> QED
      BY <2>1, <2>2, <2>3, <2>4 DEF Shaped
  <1>2. \/ ResolveElement(s, i) = s
        \/ ResolveElement(s, i) = u
        \/ ResolveElement(s, i) = Resolve(u, s.all.resolver, AllValues)
    BY <1>1 DEF ResolveElement
  <1> HIDE DEF u
  <1>3. Fine(u) /\ Keeps(s, u)
    BY <1>1, FineStays
  <1>4. AllValues \in Values
    BY DEF Values
  <1>5. MayDecide(u, Resolve(u, s.all.resolver, AllValues))
    BY <1>1, <1>3, <1>4, ResolveDecides
  <1>6. MayDecide(s, s)
    BY DEF MayDecide, Keeps
  <1>7. MayDecide(s, Resolve(u, s.all.resolver, AllValues))
    BY <1>3, <1>5 DEF MayDecide, Decides, Keeps
  <1> QED
    BY <1>2, <1>3, <1>6, <1>7 DEF MayDecide

\* A handler that is not content's answers for its reaction.
LEMMA ApplyDecides ==
  ASSUME NEW s, NEW X, Sound(s, X), NEW j \in ReactionJobs, GoodJob(s, j), j.handler # Content
  PROVE  MayDecide(s, Apply(s, j))
  <1>1. /\ j.kind = "reaction" /\ j.handler \in Handlers /\ j.argument \in Values
        /\ j.capability \in Capabilities
    BY DEF ReactionJobs
  <1>2. GoodHandler(s, j.handler) /\ Capable(s, j.capability) /\ Fine(s)
    BY <1>1, SoundIsFine DEF GoodJob
  <1>3. CASE j.handler.fn = "identity" \/ j.handler.fn = "thrower"
    <2>1. j.capability # None => j.capability \in 1 .. Len(s.resolver)
      BY <1>2 DEF Capable
    <2>2. MayDecide(s, Answer(s, j.capability, j.argument)) /\ MayDecide(s, Fail(s, j.capability, j.argument))
      BY <1>1, <1>2, <2>1, AnswerDecides
    <2> QED
      BY <1>3, <2>2 DEF Apply
  <1>4. CASE j.handler.fn = "resolve" \/ j.handler.fn = "reject"
    <2>1. j.handler.of \in 1 .. Len(s.resolver)
      BY <1>2, <1>4 DEF GoodHandler, Capable
    <2>2. MayDecide(s, Resolve(s, j.handler.of, j.argument)) /\ MayDecide(s, Reject(s, j.handler.of, j.argument))
      BY <1>1, <1>2, <2>1, ResolveDecides, RejectDecides
    <2> QED
      BY <1>4, <2>2 DEF Apply
  <1>5. CASE j.handler.fn = "element"
    <2>1. s.all # None
      BY <1>2, <1>5 DEF GoodHandler
    <2>2. s.all.resolver \in 1 .. Len(s.resolver) /\ s.all \in Gatherings
      BY <2>1, SoundParts, StateParts DEF Gathering
    <2>3. MayDecide(s, ResolveElement(s, j.handler.of))
      BY <1>2, <2>2, ElementDecides
    <2> QED
      BY <1>5, <2>3 DEF Apply
  <1>6. j.handler.fn # "content"
    <2>1. j.handler.fn = "content" => j.handler.of = None
      BY <1>2 DEF GoodHandler
    <2>2. j.handler = [fn |-> j.handler.fn, of |-> j.handler.of]
      BY <1>1 DEF Handlers
    <2> QED
      BY <2>1, <2>2 DEF Content, Handler
  <1> QED
    BY <1>1, <1>3, <1>4, <1>5, <1>6 DEF Handlers

\* A reaction is added to what waits for a promise.
LEMMA PerformThenRegisters ==
  ASSUME NEW s, NEW X, Sound(s, X), NEW p \in 1 .. Len(s.promise), NEW f \in Handlers,
         NEW g \in Handlers, NEW c \in Capabilities
  PROVE  Registers(s, PerformThen(s, p, f, g, c))
  <1> DEFINE x == [id |-> s.registered + 1, onFulfilled |-> f, onRejected |-> g, capability |-> c]
             u == Handled(s, p)
             j == ReactionJob(p, x, s.promise[p].state, s.promise[p].result)
             t == PerformThen(s, p, f, g, c)
  <1>1. s \in States /\ Fits(s.promise, s.queue)
    BY SoundParts, SoundIsFine DEF Fine
  <1>2. x \in Reactions /\ x.id = s.registered + 1 /\ x.id \in Nat
    BY <1>1, StateParts DEF Reactions
  <1>3. /\ u.promise \in Seq(PromiseRecords) /\ Len(u.promise) = Len(s.promise) /\ u.queue = s.queue
        /\ \A o \in 1 .. Len(s.promise) :
             /\ u.promise[o].state = s.promise[o].state /\ u.promise[o].result = s.promise[o].result
             /\ u.promise[o].reactions = s.promise[o].reactions
    <2> DEFINE P == s.promise
               r == [P[p] EXCEPT !.handled = TRUE]
    <2>1. u.promise = [P EXCEPT ![p] = r] /\ u.queue = s.queue
      BY <1>1 DEF Handled, Handle, States
    <2>2. P[p] \in PromiseRecords
      BY <1>1, Members
    <2>3. r \in PromiseRecords /\ r.state = P[p].state /\ r.result = P[p].result /\ r.reactions = P[p].reactions
      BY <2>2 DEF PromiseRecords
    <2>4. P \in Seq(PromiseRecords)
      BY <1>1, StateParts
    <2> HIDE DEF r, u
    <2> QED
      BY <2>1, <2>3, <2>4
  <1>4. /\ Fits(u.promise, s.queue) /\ OutcomeOf(u.promise) = OutcomeOf(s.promise)
        /\ WaitingIn(u.promise, s.queue) = WaitingIn(s.promise, s.queue)
    <2> HIDE DEF u
    <2> QED
      BY <1>1, <1>3, ViewAlike
  <1>5. t = IF s.promise[p].state = "pending" THEN AddReaction(u, p, x) ELSE Enqueue(u, j)
    BY DEF PerformThen, Handled, AddReaction
  <1>6. u \in States
    BY HandleSound, SoundParts
  <1> HIDE DEF u, x, t
  <1>7. CASE s.promise[p].state = "pending"
    <2> DEFINE r == [u.promise[p] EXCEPT !.reactions = Append(u.promise[p].reactions, x)]
    <2>1. t.promise = Replaced(u.promise, p, r) /\ t.queue = s.queue
      BY <1>3, <1>5, <1>6, <1>7 DEF AddReaction, States, Replaced
    <2>2. u.promise[p] \in PromiseRecords
      BY <1>3
    <2>3. r \in PromiseRecords /\ r.state = "pending" /\ r.reactions = Append(u.promise[p].reactions, x)
      <3> DEFINE q == u.promise[p]
                 a == Append(q.reactions, x)
      <3>1. q \in PromiseRecords /\ q.state = "pending"
        BY <1>3, <1>7, <2>2
      <3> HIDE DEF q
      <3>2. a \in Seq(Reactions)
        BY <1>2, <3>1 DEF PromiseRecords
      <3> HIDE DEF a
      <3>3. LET z == [q EXCEPT !.reactions = a]
            IN  z \in PromiseRecords /\ z.state = "pending" /\ z.reactions = a
        BY <3>1, <3>2 DEF PromiseRecords
      <3> QED
        BY <3>3 DEF q, a
    <2> HIDE DEF r
    <2>4. IsAdded(u.promise, s.queue, p, x, t.promise)
      BY <1>2, <1>3, <1>4, <1>7, <2>1, <2>3 DEF IsAdded
    <2>5. /\ p \in 1 .. MaxPromises /\ OutcomeOf(t.promise) = OutcomeOf(u.promise)
          /\ WaitingIn(t.promise, s.queue) = [WaitingIn(u.promise, s.queue) EXCEPT ![p] = Append(@, x.id)]
      BY <2>4, ViewAdds
    <2>6. Registers(s, t)
      BY <1>2, <1>4, <2>1, <2>5 DEF Registers
    <2> QED
      BY <2>6 DEF t
  <1>8. CASE s.promise[p].state # "pending"
    <2>1. t.promise = u.promise /\ t.queue = Append(s.queue, j)
      BY <1>3, <1>5, <1>6, <1>8 DEF Enqueue, States
    <2>2. j \in ReactionJobs /\ j.promise = p /\ j.id = x.id
      <3>1. s.promise[p] \in PromiseRecords /\ s.promise[p].result # None /\ p \in Nat
        BY <1>1, <1>8, Members DEF Fits
      <3>2. s.promise[p].state \in Settled /\ s.promise[p].result \in Values
        BY <1>8, <3>1 DEF PromiseRecords
      <3> QED
        BY <1>2, <3>1, <3>2 DEF ReactionJob, ReactionJobs, Reactions
    <2> HIDE DEF j
    <2>3. /\ p \in 1 .. MaxPromises
          /\ WaitingIn(u.promise, Append(s.queue, j)) = [WaitingIn(u.promise, s.queue) EXCEPT ![p] = Append(@, x.id)]
      <3>1. j.promise \in 1 .. Len(u.promise) /\ u.promise[j.promise].state # "pending"
        BY <1>3, <1>8, <2>2
      <3>2. /\ j.promise \in 1 .. MaxPromises
            /\ WaitingIn(u.promise, Append(s.queue, j)) = [WaitingIn(u.promise, s.queue) EXCEPT ![j.promise] = Append(@, j.id)]
        <4> DEFINE P == u.promise
                   Q == s.queue
        <4>1. Fits(P, Q) /\ j \in ReactionJobs /\ j.promise \in 1 .. Len(P) /\ P[j.promise].state # "pending"
          BY <1>4, <2>2, <3>1
        <4> HIDE DEF P, Q
        <4>2. /\ j.promise \in 1 .. MaxPromises
              /\ WaitingIn(P, Append(Q, j)) = [WaitingIn(P, Q) EXCEPT ![j.promise] = Append(@, j.id)]
          BY <4>1, ViewEnqueues
        <4> QED
          BY <4>2 DEF P, Q
      <3> QED
        BY <2>2, <3>2, Zenon
    <2>4. Registers(s, t)
      BY <1>2, <1>4, <2>1, <2>3 DEF Registers
    <2> QED
      BY <2>4 DEF t
  <1> QED
    BY <1>7, <1>8

\* What keeps all as it is may come before.
LEMMA KeepsThen ==
  ASSUME NEW s, NEW u, NEW t, Keeps(s, u)
  PROVE  /\ Keeps(u, t) => Keeps(s, t)
         /\ MayDecide(u, t) => MayDecide(s, t)
         /\ Registers(u, t) => Registers(s, t)
  BY DEF Keeps, MayDecide, Decides, Registers

\* A new promise with its pair is not seen.
LEMMA NewPairKeeps ==
  ASSUME NEW s, NEW X, Sound(s, X), Len(s.promise) < MaxPromises, NEW p, NEW held
  PROVE  Keeps(s, NewResolver(NewPromise(s), p, held))
  <1> DEFINE r == [state |-> "pending", result |-> None, reactions |-> <<>>, handled |-> FALSE]
             t == NewResolver(NewPromise(s), p, held)
  <1>1. Fits(s.promise, s.queue) /\ Shaped(s)
    BY SoundIsFine DEF Fine
  <1>2. r \in PromiseRecords /\ r.state = "pending" /\ r.reactions = <<>>
    <2>1. <<>> \in Seq(Reactions)
      OBVIOUS
    <2> QED
      BY <2>1 DEF PromiseRecords
  <1>3. t.promise = Append(s.promise, r) /\ t.queue = s.queue
    BY <1>1 DEF NewResolver, NewPromise, Shaped
  <1> HIDE DEF r, t
  <1>4. /\ OutcomeOf(Append(s.promise, r)) = OutcomeOf(s.promise)
        /\ WaitingIn(Append(s.promise, r), s.queue) = WaitingIn(s.promise, s.queue)
    BY <1>1, <1>2, ViewNew
  <1>5. Keeps(s, t)
    BY <1>3, <1>4 DEF Keeps
  <1> QED
    BY <1>5 DEF t

-----------------------------------------------------------------------------
(* The steps, as the contract sees them.                                     *)

seenCall == IF job = Idle THEN Idle ELSE CallOf(job)
seen == <<OutcomeOf(promise), WaitingIn(promise, queue), seenCall>>

\* What differs in neither list is not seen.
LEMMA SameView ==
  ASSUME NEW s, NEW t, t.promise = s.promise, t.queue = s.queue
  PROVE  Keeps(s, t)
  BY DEF Keeps

\* The outcomes and what waits, by promise.
LEMMA ViewIs ==
  ASSUME PInv
  PROVE  /\ Fits(promise, queue) /\ Fine(Now)
         /\ DOMAIN OutcomeOf(promise) = 1 .. MaxPromises
         /\ DOMAIN WaitingIn(promise, queue) = 1 .. MaxPromises
         /\ \A p \in 1 .. MaxPromises : WaitingIn(promise, queue)[p] \in Seq(Nat)
  <1>1. Fine(Now) /\ Fits(promise, queue)
    BY NowParts, SoundIsFine DEF Fine
  <1>2. DOMAIN OutcomeOf(promise) = 1 .. MaxPromises
    BY DEF OutcomeOf
  <1>3. /\ WaitingIn(promise, queue) = [p \in 1 .. MaxPromises |-> Awaits(promise, queue, p)]
        /\ \A p \in 1 .. MaxPromises : Awaits(promise, queue, p) \in Seq(Nat)
    BY <1>1, AwaitsIs
  <1> QED
    BY <1>1, <1>2, <1>3, Zenon

\* A promise is settled and nothing else is seen.
LEMMA SettlesMaps ==
  ASSUME NEW t, Become(t), Decides(Now, t)
  PROVE  /\ WaitingIn(promise, queue)' = WaitingIn(promise, queue)
         /\ \E p \in 1 .. MaxPromises : Contract!Settles(p)
  <1> DEFINE O == OutcomeOf(promise)
             O2 == OutcomeOf(t.promise)
  <1>1. O' = O2 /\ WaitingIn(promise, queue)' = WaitingIn(t.promise, t.queue)
    BY DEF Become
  <1>2. WaitingIn(t.promise, t.queue) = WaitingIn(promise, queue)
    BY DEF Decides, Now
  <1>3. PICK p \in 1 .. MaxPromises, o \in Settled \X Values : O[p] = <<>> /\ O2 = [O EXCEPT ![p] = <<o>>]
    BY DEF Decides, Now
  <1>4. DOMAIN O = 1 .. MaxPromises
    BY DEF OutcomeOf
  <1> HIDE DEF O, O2
  <1>5. O2[p] = <<o>> /\ O2 = [O EXCEPT ![p] = O2[p]]
    BY <1>3, <1>4
  <1>6. O'[p] = <<o>> /\ O' = [O EXCEPT ![p] = O'[p]]
    BY <1>1, <1>5
  <1>7. Contract!Settles(p)
    BY <1>3, <1>6 DEF Contract!Settles, O
  <1> QED
    BY <1>1, <1>2, <1>7

\* A callback is registered and nothing else is seen.
LEMMA RegisterMaps ==
  ASSUME PInv, NEW t, Become(t), job' = job, Registers(Now, t)
  PROVE  \E p \in 1 .. MaxPromises : Contract!Register(p)
  <1> DEFINE W == WaitingIn(promise, queue)
             W2 == WaitingIn(t.promise, t.queue)
  <1>1. OutcomeOf(promise)' = OutcomeOf(t.promise) /\ W' = W2
    BY DEF Become
  <1>2. OutcomeOf(t.promise) = OutcomeOf(promise)
    BY DEF Registers, Now
  <1>3. PICK p \in 1 .. MaxPromises, c \in Nat : W2 = [W EXCEPT ![p] = Append(@, c)]
    BY DEF Registers, Now
  <1>4. W[p] \in Seq(Nat) /\ p \in DOMAIN W
    BY ViewIs
  <1> HIDE DEF W, W2
  <1>5. W2[p] = Append(W[p], c)
    BY <1>3, <1>4
  <1>6. W2[p] # <<>> /\ W2[p][Len(W2[p])] = c
    <2> DEFINE q == W[p]
    <2>1. q \in Seq(Nat)
      BY <1>4
    <2> HIDE DEF q
    <2>2. Append(q, c) # <<>> /\ Append(q, c)[Len(Append(q, c))] = c
      BY <2>1
    <2> QED
      BY <1>5, <2>2 DEF q
  <1>7. W' = [W EXCEPT ![p] = Append(@, c)] /\ W'[p] # <<>> /\ W'[p][Len(W'[p])] = c
    BY <1>1, <1>3, <1>6
  <1>8. OutcomeOf(promise)' = OutcomeOf(promise)
    BY <1>1, <1>2
  <1>9. Contract!Register(p)
    BY <1>7, <1>8, Zenon DEF Contract!Register, W
  <1> QED
    BY <1>9

\* A step of content that is not the end of a call.
LEMMA StepMaps ==
  ASSUME PInv, NEW t, Become(t), job' = job, MayDecide(Now, t) \/ Registers(Now, t)
  PROVE  Contract!ANext \/ UNCHANGED seen
  <1>1. CASE Keeps(Now, t)
    <2>1. OutcomeOf(t.promise) = OutcomeOf(promise) /\ WaitingIn(t.promise, t.queue) = WaitingIn(promise, queue)
      BY <1>1 DEF Keeps, Now
    <2>2. /\ OutcomeOf(promise)' = OutcomeOf(t.promise)
          /\ WaitingIn(promise, queue)' = WaitingIn(t.promise, t.queue)
      BY DEF Become
    <2>3. seenCall' = seenCall
      BY DEF seenCall, CallOf
    <2> QED
      BY <2>1, <2>2, <2>3 DEF seen
  <1>2. CASE Decides(Now, t)
    <2>1. /\ WaitingIn(promise, queue)' = WaitingIn(promise, queue)
          /\ \E p \in 1 .. MaxPromises : Contract!Settles(p)
      BY <1>2, SettlesMaps
    <2>2. \E p \in 1 .. MaxPromises : Contract!Settle(p)
      BY <2>1 DEF Contract!Settle
    <2> QED
      BY <2>2 DEF Contract!ANext
  <1>3. CASE Registers(Now, t)
    BY <1>3, RegisterMaps DEF Contract!ANext
  <1> QED
    BY <1>1, <1>2, <1>3 DEF MayDecide

\* The end of a call, which may settle the promise of its result.
LEMMA EndMaps ==
  ASSUME PInv, NEW t, Become(t), job # Idle, job' = Idle, MayDecide(Now, t)
  PROVE  Contract!EndCall
  <1>1. CallOf(job) # Idle
    <2>1. job \in ReactionJobs
      BY NowParts
    <2>2. CallOf(job) \in [promise: Nat, callback: Nat, outcome: Settled \X Values]
      BY <2>1 DEF ReactionJobs, CallOf
    <2> QED
      BY <2>2, ValuesAreApart
  <1>2. CASE Keeps(Now, t)
    <2>1. OutcomeOf(t.promise) = OutcomeOf(promise) /\ WaitingIn(t.promise, t.queue) = WaitingIn(promise, queue)
      BY <1>2 DEF Keeps, Now
    <2>2. /\ OutcomeOf(promise)' = OutcomeOf(t.promise)
          /\ WaitingIn(promise, queue)' = WaitingIn(t.promise, t.queue)
      BY DEF Become
    <2> QED
      BY <1>1, <2>1, <2>2, Zenon DEF Contract!EndCall
  <1>3. CASE Decides(Now, t)
    <2>1. /\ WaitingIn(promise, queue)' = WaitingIn(promise, queue)
          /\ \E p \in 1 .. MaxPromises : Contract!Settles(p)
      BY <1>3, SettlesMaps
    <2> QED
      BY <1>1, <2>1, Zenon DEF Contract!EndCall
  <1> QED
    BY <1>2, <1>3 DEF MayDecide

\* Neither frames nor the closures of Promise.all nor a new pair are seen.
LEMMA NotSeen ==
  ASSUME NEW s \in States, NEW f, NEW k, NEW held, NEW p
  PROVE  /\ Keeps(s, Push(s, f)) /\ Keeps(s, Pop(s)) /\ Keeps(s, NextElement(s))
         /\ Keeps(s, Hold(s, k, held)) /\ Keeps(s, NewResolver(s, p, held))
  <1> DEFINE Same(t) == t.promise = s.promise /\ t.queue = s.queue
  <1>1. Same(Push(s, f)) /\ Same(Pop(s))
    BY DEF States, Push, Pop
  <1>2. Same(NextElement(s))
    BY DEF States, NextElement
  <1>3. Same(Hold(s, k, held)) /\ Same(NewResolver(s, p, held))
    BY DEF States, Hold, NewResolver
  <1> QED
    BY <1>1, <1>2, <1>3, SameView

\* new Promise, Promise.all and Promise.race make a promise, which nobody sees.
LEMMA NewMaps ==
  ASSUME PInv, New \/ Race \/ All
  PROVE  Contract!ANext \/ UNCHANGED seen
  <1>1. Sound(Now, {}) /\ Now.promise = promise /\ Now \in States
    BY NowParts
  <1>2. ASSUME NEW p, NEW held, NEW f, NEW t, Len(promise) < MaxPromises, Become(t), job' = job,
               t = Push(NewResolver(NewPromise(Now), p, held), f)
        PROVE  Contract!ANext \/ UNCHANGED seen
    <2> DEFINE u == NewResolver(NewPromise(Now), p, held)
    <2>1. Keeps(Now, u)
      BY <1>1, <1>2, NewPairKeeps
    <2>2. t.promise = u.promise /\ t.queue = u.queue
      BY <1>1, <1>2 DEF Push, NewResolver, NewPromise, States
    <2> HIDE DEF u
    <2>3. Keeps(Now, t)
      BY <2>1, <2>2 DEF Keeps
    <2> QED
      BY <1>2, <2>3, StepMaps DEF MayDecide
  <1>3. CASE New
    BY <1>2, <1>3 DEF New, Does, MayCreate
  <1>4. CASE Race
    BY <1>2, <1>4 DEF Race, Does, MayCreate, NewCapability
  <1>5. CASE All
    <2> DEFINE a == [resolver |-> Len(resolver) + 1, remaining |-> IterationRemains,
                     called |-> <<>>, held |-> {}, done |-> FALSE]
               f == [fn |-> "all", resolver |-> Len(resolver) + 1]
               u == NewCapability(Now)
               t == Push([u EXCEPT !.all = a], f)
    <2>1. Become(t) /\ job' = job /\ Len(promise) < MaxPromises
      BY <1>5 DEF All, Does, MayCreate
    <2>2. Keeps(Now, u)
      BY <1>1, <2>1, NewPairKeeps DEF NewCapability
    <2>3. t.promise = u.promise /\ t.queue = u.queue
      BY <1>1 DEF Push, NewCapability, NewResolver, NewPromise, States
    <2> HIDE DEF t, u
    <2>4. Keeps(Now, t)
      BY <2>2, <2>3 DEF Keeps
    <2> QED
      BY <2>1, <2>4, StepMaps DEF MayDecide
  <1> QED
    BY <1>3, <1>4, <1>5

\* Content is given functions to keep, or returns.
LEMMA HoldMaps ==
  ASSUME PInv, AllCallsThen \/ RaceCallsThen \/ Returns
  PROVE  Contract!ANext \/ UNCHANGED seen
  <1>1. Now \in States
    BY NowParts
  <1>2. \A t : Become(t) /\ job' = job /\ Keeps(Now, t) => Contract!ANext \/ UNCHANGED seen
    BY StepMaps DEF MayDecide
  <1>3. CASE AllCallsThen
    <2> DEFINE u == NextElement(Now)
               t == [u EXCEPT !.all.held = @ \cup {Len(all.called) + 1},
                              !.resolver[all.resolver].held = @ \cup {"reject"}]
    <2>1. Become(t) /\ job' = job
      BY <1>3 DEF AllCallsThen, Does
    <2>2. t.promise = Now.promise /\ t.queue = Now.queue
      BY <1>1 DEF NextElement, States
    <2> QED
      BY <1>2, <2>1, <2>2, SameView
  <1>4. CASE RaceCallsThen
    BY <1>1, <1>2, <1>4, NotSeen DEF RaceCallsThen, Does, Hold
  <1>5. CASE Returns
    BY <1>1, <1>2, <1>5, NotSeen DEF Returns, Ends
  <1> QED
    BY <1>3, <1>4, <1>5

\* Content calls a function it holds.
LEMMA CallsMap ==
  ASSUME PInv
  PROVE  /\ \A k \in DOMAIN resolver, v \in {Plain, Object} \cup Promises :
              CallResolve(k, v) => Contract!ANext \/ UNCHANGED seen
         /\ \A k \in DOMAIN resolver : CallReject(k) => Contract!ANext \/ UNCHANGED seen
         /\ all # None => \A i \in DOMAIN all.called :
              CallElement(i) => Contract!ANext \/ UNCHANGED seen
  <1>1. /\ Fine(Now) /\ DOMAIN resolver = 1 .. Len(Now.resolver) /\ Thrown \in Values
        /\ {Plain, Object} \cup Promises \subseteq Values
    BY NowParts, ViewIs, ValuesAreApart DEF Values, Promises
  <1>2. \A t : Become(t) /\ job' = job /\ MayDecide(Now, t) => Contract!ANext \/ UNCHANGED seen
    BY StepMaps
  <1>3. ASSUME NEW k \in DOMAIN resolver, NEW v \in {Plain, Object} \cup Promises, CallResolve(k, v)
        PROVE  Contract!ANext \/ UNCHANGED seen
    <2>1. MayDecide(Now, Resolve(Now, k, v))
      BY <1>1, ResolveDecides
    <2> QED
      BY <1>2, <1>3, <2>1 DEF CallResolve, Does
  <1>4. ASSUME NEW k \in DOMAIN resolver, CallReject(k)
        PROVE  Contract!ANext \/ UNCHANGED seen
    <2>1. MayDecide(Now, Reject(Now, k, Thrown))
      BY <1>1, RejectDecides
    <2> QED
      BY <1>2, <1>4, <2>1 DEF CallReject, Does
  <1>5. ASSUME all # None, NEW i \in DOMAIN all.called, CallElement(i)
        PROVE  Contract!ANext \/ UNCHANGED seen
    <2>1. Now.all = all /\ Now.all \in Gatherings /\ Now.all.resolver \in 1 .. Len(Now.resolver)
      BY <1>5, NowParts, SoundParts DEF Gathering
    <2>2. MayDecide(Now, ResolveElement(Now, i))
      BY <1>1, <2>1, ElementDecides
    <2> QED
      BY <1>2, <1>5, <2>2 DEF CallElement, Does
  <1> QED
    BY <1>3, <1>4, <1>5

\* Content calls `then', which makes a promise and registers a reaction.
LEMMA ThenMaps ==
  ASSUME PInv, NEW p \in Promises, NEW h \in HandlerPairs, Then(p, h[1], h[2])
  PROVE  Contract!ANext \/ UNCHANGED seen
  <1> DEFINE k == Len(resolver) + 1
             u == NewCapability(Now)
             t == PerformThen(u, p, h[1], h[2], k)
  <1>1. Become(t) /\ job' = job /\ Len(promise) < MaxPromises
    BY DEF Then, Does, MayCreate
  <1>2. Sound(u, {}) /\ Len(u.promise) = Len(promise) + 1 /\ Keeps(Now, u)
    <2>1. Sound(Now, {}) /\ Now.promise = promise /\ Len(Now.promise) < MaxPromises
      BY <1>1, NowParts
    <2> DEFINE held == {}
               n == Len(Now.promise) + 1
    <2>2. u = NewResolver(NewPromise(Now), n, held)
      BY DEF NewCapability
    <2>3. held \in SUBSET {"resolve", "reject"} /\ n = Len(Now.promise) + 1
      OBVIOUS
    <2> HIDE DEF u, held, n
    <2>4. Sound(u, {}) /\ AddsPromise(Now, held, u)
      BY <2>1, <2>2, <2>3, NewPairSound, ZenonT(80)
    <2>5. Keeps(Now, u)
      BY <2>1, <2>2, NewPairKeeps
    <2> QED
      BY <2>1, <2>4, <2>5 DEF AddsPromise
  <1>3. h[1] \in Handlers /\ h[2] \in Handlers
    BY HandlersAreContents DEF Handlers
  <1>4. k \in Capabilities /\ p \in 1 .. Len(u.promise)
    BY <1>2, NowParts DEF Capabilities, Promises
  <1> HIDE DEF u, k
  <1>5. Registers(u, t)
    BY <1>2, <1>3, <1>4, PerformThenRegisters
  <1> HIDE DEF t
  <1>6. Registers(Now, t)
    BY <1>2, <1>5, KeepsThen
  <1> QED
    BY <1>1, <1>6, StepMaps

\* So do the iterations of Promise.all and Promise.race.
LEMMA BlocksOnMaps ==
  ASSUME PInv, NEW p \in Promises, AllBlocksOn(p) \/ RaceBlocksOn(p)
  PROVE  Contract!ANext \/ UNCHANGED seen
  <1>1. ASSUME NEW u, NEW n \in Nat, NEW k \in Nat, NEW fn \in {"element", "resolve"}, Sound(u, {}), Keeps(Now, u),
               u.promise = promise, job' = job,
               Become(PerformThen(u, p, Handler(fn, n), Handler("reject", k), None))
        PROVE  Contract!ANext \/ UNCHANGED seen
    <2> DEFINE f == Handler(fn, n)
               g == Handler("reject", k)
               t == PerformThen(u, p, f, g, None)
    <2>1. f \in Handlers /\ g \in Handlers /\ None \in Capabilities
      BY DEF Handler, Handlers, Capabilities
    <2>2. p \in 1 .. Len(u.promise)
      BY <1>1 DEF Promises
    <2>3. Become(t)
      BY <1>1
    <2> HIDE DEF f, g
    <2>4. Registers(u, t)
      BY <1>1, <2>1, <2>2, PerformThenRegisters
    <2> HIDE DEF t
    <2>5. Registers(Now, t)
      BY <1>1, <2>4, KeepsThen
    <2> QED
      BY <1>1, <2>3, <2>5, StepMaps
  <1>2. CASE AllBlocksOn(p)
    <2> DEFINE n == Len(all.called) + 1
               k == all.resolver
               u == NextElement(Now)
    <2>1. /\ Become(PerformThen(u, p, Handler("element", n), Handler("reject", k), None))
          /\ job' = job /\ stack # <<>> /\ top.fn = "all"
      BY <1>2 DEF AllBlocksOn, InFrame, Does
    <2>2. Now.all # None /\ ~Now.all.done /\ Now.all = all /\ Sound(Now, {}) /\ Now \in States
          /\ Now.promise = promise
      BY <2>1, TopFrame, NowParts
    <2>3. Keeps(Now, u)
      BY <2>2, NotSeen
    <2> HIDE DEF u
    <2>4. Sound(u, {}) /\ u.promise = promise /\ Len(all.called) \in Nat
      BY <2>2, NextElementSound, ZenonT(80) DEF u
    <2>5. k \in Nat
      BY <2>2, Shared
    <2> HIDE DEF k
    <2> QED
      BY <1>1, <2>1, <2>3, <2>4, <2>5
  <1>3. CASE RaceBlocksOn(p)
    <2> DEFINE k == top.resolver
    <2>1. /\ Become(PerformThen(Now, p, Handler("resolve", k), Handler("reject", k), None))
          /\ job' = job /\ stack # <<>> /\ top.fn = "race"
      BY <1>3 DEF RaceBlocksOn, InFrame, Does
    <2>2. k \in Nat
      BY <2>1, TopFrame, NowParts
    <2>3. Keeps(Now, Now)
      BY DEF Keeps
    <2> HIDE DEF k
    <2> QED
      BY <1>1, <2>1, <2>2, <2>3, NowParts
  <1> QED
    BY <1>2, <1>3

\* The promise of a getter of `then' that ends is still pending.
LEMMA GetterIs ==
  ASSUME PInv, stack # <<>>, top.fn = "getThen", NEW u, u = Pop(Now), NEW p, p = top.promise
  PROVE  /\ Shaped(u) /\ Fits(u.promise, u.queue) /\ Keeps(Now, u)
         /\ p \in 1 .. Len(u.promise) /\ u.promise[p].state = "pending"
  <1> DEFINE X == {p}
  <1>1. Sound(u, X) /\ p \in 1 .. Len(u.promise) /\ p \in X
    BY PopNow
  <1>2. Keeps(Now, u)
    BY NowParts, NotSeen
  <1> HIDE DEF X
  <1>3. u.promise[p].state = "pending"
    BY <1>1, SoundParts DEF OneParty
  <1>4. Fine(u)
    BY <1>1, SoundIsFine
  <1> QED
    BY <1>1, <1>2, <1>3, <1>4 DEF Fine

\* Content's getter of `then' answers, or throws.
LEMMA GetterMaps ==
  ASSUME PInv, stack # <<>>, top.fn = "getThen", NEW t, Become(t), job' = job,
         \/ t = Enqueue(Pop(Now), ThenableJob(top.promise, top.value))
         \/ \E state \in Settled, v \in Values : t = Settle(Pop(Now), top.promise, state, v)
  PROVE  Contract!ANext \/ UNCHANGED seen
  <1> DEFINE u == Pop(Now)
             p == top.promise
             j == ThenableJob(p, top.value)
  <1>1. /\ Shaped(u) /\ Fits(u.promise, u.queue) /\ Keeps(Now, u)
        /\ p \in 1 .. Len(u.promise) /\ u.promise[p].state = "pending"
    BY GetterIs
  <1>2. \/ t = Enqueue(u, j)
        \/ \E state \in Settled, v \in Values : t = Settle(u, p, state, v)
    OBVIOUS
  <1>3. j \in ThenableJobs /\ j.promise = p
    <2>1. p \in Nat
      BY <1>1, FitsTypes
    <2>2. top.value \in Objects
      BY GetterValue
    <2> QED
      BY <2>1, <2>2 DEF ThenableJob, ThenableJobs
  <1> HIDE DEF u, p, j
  <1>4. CASE t = Enqueue(u, j)
    <2>1. t.promise = u.promise /\ t.queue = Append(u.queue, j)
      BY <1>1, <1>4 DEF Enqueue, Shaped
    <2>2. WaitingIn(u.promise, Append(u.queue, j)) = WaitingIn(u.promise, u.queue)
      BY <1>1, <1>3, ViewAsks
    <2>3. Keeps(u, t)
      BY <2>1, <2>2 DEF Keeps
    <2> QED
      BY <1>1, <2>3, KeepsThen, StepMaps DEF MayDecide
  <1>5. CASE \E state \in Settled, v \in Values : t = Settle(u, p, state, v)
    <2>1. Decides(u, t)
      BY <1>1, <1>5, SettleDecides
    <2>2. MayDecide(Now, t)
      BY <1>1, <2>1, KeepsThen DEF MayDecide
    <2> QED
      BY <2>2, StepMaps
  <1> QED
    BY <1>2, <1>4, <1>5

\* A frame that ends is not seen, and its pair is one that is there.
LEMMA PopIs ==
  ASSUME PInv, stack # <<>>, top.fn # "getThen", NEW u, u = Pop(Now)
  PROVE  /\ Fine(u) /\ Keeps(Now, u) /\ Len(u.resolver) = Len(resolver) /\ u.all = all
         /\ top.fn \in {"executor", "then", "race", "all"} => top.resolver \in 1 .. Len(u.resolver)
         /\ top.fn = "handler" =>
              (top.capability # None => top.capability \in 1 .. Len(u.resolver))
  <1>1. Sound(u, {}) /\ u.resolver = resolver /\ u.all = all
    BY PopNow
  <1>2. Fine(u) /\ Keeps(Now, u)
    BY <1>1, SoundIsFine, NowParts, NotSeen
  <1>3. top.fn = "all" => top.resolver \in 1 .. Len(resolver)
    <2>1. top.fn = "all" => all # None /\ top.resolver = all.resolver /\ Now.all = all
      BY TopFrame, NowParts
    <2> QED
      BY <2>1, NowParts, Counted
  <1>4. top.fn \in {"executor", "then", "race"} => top.resolver \in 1 .. Len(resolver)
    BY TopFrame
  <1>5. top.fn = "handler" =>
          (top.capability # None => top.capability \in 1 .. Len(resolver))
    BY TopFrame, NowParts DEF Capable
  <1> QED
    BY <1>1, <1>2, <1>3, <1>4, <1>5

\* The iteration of Promise.all is over.
LEMMA AllReturnsMaps ==
  ASSUME PInv, AllReturns
  PROVE  Contract!ANext \/ UNCHANGED seen
  <1> DEFINE left == all.remaining - 1
             u == Pop(Now)
             w == [u EXCEPT !.all.remaining = left, !.all.done = TRUE]
             k == all.resolver
             t == IF left = 0 THEN Resolve(w, k, AllValues) ELSE w
  <1>1. Become(t) /\ job' = job /\ stack # <<>> /\ top.fn = "all"
    BY DEF AllReturns, InFrame, Ends
  <1>2. /\ Fine(u) /\ Keeps(Now, u) /\ u.all = all /\ k \in 1 .. Len(u.resolver)
    BY <1>1, PopIs, TopFrame
  <1>3. /\ w.promise = u.promise /\ w.resolver = u.resolver /\ w.queue = u.queue /\ Shaped(w)
    <2> DEFINE A == [u.all EXCEPT !.remaining = left, !.done = TRUE]
               z == [u EXCEPT !.all = A]
    <2>1. w = z
      BY <1>2 DEF Fine, Shaped
    <2> HIDE DEF A, w, u
    <2>2. z = [promise |-> u.promise, resolver |-> u.resolver, queue |-> u.queue, stack |-> u.stack,
               unhandled |-> u.unhandled, all |-> A, registered |-> u.registered]
      BY <1>2 DEF Fine, Shaped
    <2> HIDE DEF z
    <2>3. /\ z.promise = u.promise /\ z.resolver = u.resolver /\ z.queue = u.queue /\ z.stack = u.stack
          /\ z.unhandled = u.unhandled /\ z.all = A /\ z.registered = u.registered
      BY <2>2
    <2> QED
      BY <2>1, <2>2, <2>3 DEF Shaped
  <1>4. AllValues \in Values
    BY DEF Values
  <1>5. t = w \/ t = Resolve(w, k, AllValues)
    OBVIOUS
  <1> HIDE DEF u, w, k, t
  <1>6. Fine(w) /\ Keeps(u, w)
    BY <1>2, <1>3, FineStays
  <1>7. MayDecide(w, t)
    <2>1. MayDecide(w, Resolve(w, k, AllValues))
      BY <1>2, <1>3, <1>4, <1>6, ResolveDecides
    <2>2. MayDecide(w, w)
      BY DEF MayDecide, Keeps
    <2> QED
      BY <1>5, <2>1, <2>2
  <1>8. MayDecide(Now, t)
    BY <1>2, <1>6, <1>7, KeepsThen
  <1> QED
    BY <1>1, <1>8, StepMaps

\* A handler of content ends.
LEMMA HandlerMaps ==
  ASSUME PInv, InFrame("handler"), NEW v \in Values, NEW t, Become(t), job' = Idle,
         t = Answer(Pop(Now), top.capability, v) \/ t = Fail(Pop(Now), top.capability, v)
  PROVE  Contract!EndCall
  <1> DEFINE u == Pop(Now)
             c == top.capability
  <1>1. stack # <<>> /\ top.fn = "handler"
    BY DEF InFrame
  <1>2. Fine(u) /\ Keeps(Now, u) /\ (c # None => c \in 1 .. Len(u.resolver))
    BY <1>1, PopIs
  <1>3. t = Answer(u, c, v) \/ t = Fail(u, c, v)
    OBVIOUS
  <1>4. job # Idle
    <2>1. Len(stack) \in 1 .. Len(stack)
      BY <1>1, TopFrame
    <2> QED
      BY <1>1, <2>1, NowParts DEF GoodRun, top
  <1> HIDE DEF u, c
  <1>5. MayDecide(u, t)
    BY <1>2, <1>3, AnswerDecides
  <1>6. MayDecide(Now, t)
    BY <1>2, <1>5, KeepsThen
  <1> QED
    BY <1>4, <1>6, EndMaps

\* Content throws.
LEMMA ThrowsMaps ==
  ASSUME PInv, Throws
  PROVE  Contract!ANext \/ UNCHANGED seen
  <1>0. Thrown \in Values
    BY DEF Values
  <1>1. CASE /\ stack # <<>> /\ top.fn \in {"executor", "then", "all", "race"}
             /\ Ends(Reject(Pop(Now), top.resolver, Thrown))
    <2> DEFINE u == Pop(Now)
               k == top.resolver
               t == Reject(u, k, Thrown)
    <2>1. Become(t) /\ job' = job
      BY <1>1 DEF Ends
    <2>2. Fine(u) /\ Keeps(Now, u) /\ k \in 1 .. Len(u.resolver)
      BY <1>1, PopIs
    <2> HIDE DEF u, k
    <2>3. MayDecide(u, t)
      BY <1>0, <2>2, RejectDecides
    <2> HIDE DEF t
    <2>4. MayDecide(Now, t)
      BY <2>2, <2>3, KeepsThen
    <2> QED
      BY <2>1, <2>4, StepMaps
  <1>2. CASE InFrame("getThen") /\ Ends(Settle(Pop(Now), top.promise, "rejected", Thrown))
    <2>1. "rejected" \in Settled
      BY DEF Settled
    <2> QED
      BY <1>0, <1>2, <2>1, GetterMaps DEF InFrame, Ends
  <1>3. CASE /\ InFrame("handler") /\ Become(Fail(Pop(Now), top.capability, Thrown))
             /\ job' = Idle /\ UNCHANGED steps
    BY <1>0, <1>3, HandlerMaps DEF Contract!ANext
  <1> QED
    BY <1>1, <1>2, <1>3 DEF Throws

\* A frame ends.
LEMMA FrameEndsMaps ==
  ASSUME PInv, FrameEnds
  PROVE  Contract!ANext \/ UNCHANGED seen
  <1>1. CASE ThenIsCallable
    BY <1>1, GetterMaps DEF ThenIsCallable, InFrame, Ends
  <1>2. CASE ThenIsNotCallable
    <2>1. "fulfilled" \in Settled /\ top.value \in Values
      BY <1>2, GetterValue DEF ThenIsNotCallable, InFrame, Settled
    <2> QED
      BY <1>2, <2>1, GetterMaps DEF ThenIsNotCallable, InFrame, Ends
  <1>3. ASSUME NEW v \in {Plain, Object} \cup Promises, HandlerReturns(v)
        PROVE  Contract!ANext
    <2>1. v \in Values
      BY NowParts, ValuesAreApart DEF Values, Promises
    <2> QED
      BY <1>3, <2>1, HandlerMaps DEF HandlerReturns, Contract!ANext
  <1> QED
    BY <1>1, <1>2, <1>3, HoldMaps, AllReturnsMaps, ThrowsMaps DEF FrameEnds

\* A reaction job begins: the first callback that waits for its promise is
\* called, with the outcome.
LEMMA TakeReactionJobMaps ==
  ASSUME PInv, TakeReactionJob
  PROVE  Contract!ANext
  <1> DEFINE j == Head(queue)
             p == j.promise
             O == OutcomeOf(promise)
             W == WaitingIn(promise, queue)
  <1>1. /\ job = Idle /\ queue # <<>> /\ j.kind = "reaction" /\ job' = j /\ queue' = Tail(queue)
        /\ promise' = promise
    BY DEF TakeReactionJob, Quiet
  <1>2. /\ p \in 1 .. MaxPromises /\ p \in 1 .. Len(promise) /\ promise[p].state # "pending"
        /\ W[p] # <<>> /\ Head(W[p]) = j.id
        /\ WaitingIn(promise, Tail(queue)) = [W EXCEPT ![p] = Tail(@)]
    BY <1>1, ViewIs, ViewDequeues
  <1>3. j \in Jobs /\ Fits(promise, queue)
    BY <1>1, ViewIs, ViewDequeues
  <1>4. j \in ReactionJobs
    BY <1>1, <1>3 DEF Jobs, ThenableJobs
  <1>5. promise[p].state = j.as /\ promise[p].result = j.argument
    <2> DEFINE q == Now.queue
    <2>1. q \in Seq(ThenableJobs \cup ReactionJobs) /\ q # <<>> /\ j = Head(q)
      BY <1>1, NowParts
    <2>2. \A i \in 1 .. Len(q) : GoodJob(Now, q[i])
      BY NowParts, SoundParts DEF References
    <2> HIDE DEF q, j
    <2>3. GoodJob(Now, j)
      BY <2>1, <2>2
    <2> QED
      BY <1>1, <2>3, NowParts DEF GoodJob, p
  <1>6. O[p] = <<<<j.as, j.argument>>>>
    BY <1>2, <1>3, <1>5, FitsTypes DEF OutcomeOf
  <1>7. job' # Idle
    BY <1>1, <1>4, ValuesAreApart
  <1>8. OutcomeOf(promise)' = O
    BY <1>1
  <1>9. WaitingIn(promise, queue)' = [W EXCEPT ![p] = Tail(@)]
    BY <1>1, <1>2
  <1> HIDE DEF j, O, W
  <1>10. /\ seenCall = Idle
         /\ seenCall' = [promise |-> p, callback |-> Head(W[p]), outcome |-> O[p][1]]
    <2>1. seenCall' = CallOf(j)
      BY <1>1, <1>7 DEF seenCall, CallOf
    <2>2. O[p][1] = <<j.as, j.argument>>
      BY <1>6
    <2>3. CallOf(j) = [promise |-> p, callback |-> Head(W[p]), outcome |-> O[p][1]]
      BY <1>2, <2>2, Zenon DEF CallOf
    <2>4. seenCall = Idle
      BY <1>1 DEF seenCall
    <2> QED
      BY <2>1, <2>3, <2>4
  <1>11. O[p] # <<>>
    BY <1>6
  <1>12. Contract!Deliver(p)
    BY <1>2, <1>8, <1>9, <1>10, <1>11, Zenon DEF Contract!Deliver, seenCall, O, W
  <1> QED
    BY <1>2, <1>12 DEF Contract!ANext

\* And ends, when its handler is not content's.
LEMMA ApplyHandlerMaps ==
  ASSUME PInv, ApplyHandler
  PROVE  Contract!ANext
  <1> DEFINE t == Apply(Now, job)
  <1>1. Become(t) /\ job' = Idle /\ job # Idle /\ job.handler # Content
    BY DEF ApplyHandler
  <1>2. job \in ReactionJobs /\ GoodJob(Now, job) /\ Sound(Now, {})
    BY <1>1, NowParts DEF GoodRun
  <1> HIDE DEF t
  <1>3. MayDecide(Now, t)
    BY <1>1, <1>2, ApplyDecides DEF t
  <1> QED
    BY <1>1, <1>3, EndMaps DEF Contract!ANext

\* A job that asks a thenable: its `then' is content's, or registers reactions
\* with the thenable, whose promise waits.
LEMMA TakeThenableJobMaps ==
  ASSUME PInv, TakeThenableJob
  PROVE  Contract!ANext \/ UNCHANGED seen
  <1> DEFINE j == Head(queue)
             u == Dequeue(Now)
             p == j.promise
             k == Len(u.resolver) + 1
             X == {p}
             t == CallThen(u, j)
  <1>1. Become(t) /\ job' = job /\ queue # <<>> /\ j.kind = "thenable"
    BY DEF TakeThenableJob, Dequeue
  <1>2. /\ Sound(u, X) /\ j \in ThenableJobs \cup ReactionJobs /\ GoodJob(u, j)
        /\ u.promise = promise /\ u.queue = Tail(queue)
    BY <1>1, DequeueNow
  <1>3. j \in ThenableJobs /\ p \in X
    BY <1>1, <1>2 DEF ReactionJobs
  <1>4. /\ p \in 1 .. Len(u.promise) /\ MayGet(u, p)
        /\ j.thenable \notin Objects => j.thenable \in 1 .. Len(u.promise)
    BY <1>1, <1>2 DEF GoodJob
  <1>5. Keeps(Now, u)
    <2>1. WaitingIn(promise, Tail(queue)) = WaitingIn(promise, queue)
      BY <1>1, ViewIs, ViewDequeues
    <2> QED
      BY <1>2, <2>1, NowParts DEF Keeps
  <1>6. u \in States /\ k \in Nat
    BY <1>2, SoundParts, Lengths
  <1>7. \/ \E w, f : w = NewResolver(u, p, {"resolve", "reject"}) /\ t = Push(w, f)
        \/ /\ j.thenable \notin Objects
           /\ t = PerformThen(NewResolver(u, p, {}), j.thenable, Handler("resolve", k), Handler("reject", k), None)
    BY DEF CallThen
  <1> HIDE DEF j, u, p, k, X, t
  <1>8. ASSUME NEW w, NEW f, w = NewResolver(u, p, {"resolve", "reject"}), t = Push(w, f)
        PROVE  Keeps(u, t)
    <2>1. Keeps(u, w)
      BY <1>6, <1>8, NotSeen
    <2>2. t.promise = w.promise /\ t.queue = w.queue
      BY <1>6, <1>8 DEF Push, NewResolver, States
    <2> QED
      BY <2>1, <2>2 DEF Keeps
  <1>9. ASSUME j.thenable \notin Objects,
               t = PerformThen(NewResolver(u, p, {}), j.thenable, Handler("resolve", k), Handler("reject", k), None)
        PROVE  Registers(u, t)
    <2> DEFINE held == {}
               w == NewResolver(u, p, held)
               f == Handler("resolve", k)
               g == Handler("reject", k)
               o == j.thenable
    <2>1. held \in SUBSET {"resolve", "reject"}
      OBVIOUS
    <2>2. f \in Handlers /\ g \in Handlers /\ None \in Capabilities
      BY <1>6 DEF Handler, Handlers, Capabilities
    <2>3. t = PerformThen(w, o, f, g, None) /\ w = NewResolver(u, p, held)
      BY <1>9
    <2> HIDE DEF held, w, f, g, o
    <2>4. Sound(w, X \ {p}) /\ AddsPair(u, p, held, w)
      BY <1>2, <1>3, <1>4, <2>1, <2>3, NewResolverSound
    <2>5. Keeps(u, w)
      BY <1>6, <2>3, NotSeen
    <2>6. o \in 1 .. Len(w.promise)
      BY <1>4, <1>9, <2>4 DEF AddsPair, o
    <2>7. Registers(w, PerformThen(w, o, f, g, None))
      BY <2>2, <2>4, <2>6, PerformThenRegisters
    <2> QED
      BY <2>3, <2>5, <2>7, KeepsThen
  <1>10. MayDecide(Now, t) \/ Registers(Now, t)
    BY <1>5, <1>7, <1>8, <1>9, KeepsThen DEF MayDecide
  <1> QED
    BY <1>1, <1>10, StepMaps

\* Each step is one of the contract, or is not seen.
LEMMA StepKeepsContract ==
  ASSUME PInv, [Next]_vars
  PROVE  Contract!ANext \/ UNCHANGED seen
  <1>1. CASE Calls
    <2>1. ASSUME NEW p \in Promises, NEW h \in HandlerPairs, Then(p, h[1], h[2])
          PROVE  Contract!ANext \/ UNCHANGED seen
      BY <2>1, ThenMaps
    <2> QED
      BY <1>1, <2>1, NewMaps, HoldMaps, CallsMap, BlocksOnMaps DEF Calls
  <1>2. CASE FrameEnds
    BY <1>2, FrameEndsMaps
  <1>3. CASE RunsJob
    BY <1>3, TakeReactionJobMaps, ApplyHandlerMaps, TakeThenableJobMaps DEF RunsJob
  <1>4. CASE UNCHANGED vars
    BY <1>4 DEF vars, seen, seenCall, CallOf
  <1> QED
    BY <1>1, <1>2, <1>3, <1>4 DEF Next

\* Nothing is seen at the start.
LEMMA InitKeepsContract ==
  ASSUME Init
  PROVE  Contract!AInit
  <1>1. \A p : p \notin DOMAIN promise
    BY DEF Init
  <1>2. OutcomeOf(promise) = [p \in 1 .. MaxPromises |-> <<>>]
    BY <1>1, Zenon DEF OutcomeOf
  <1>3. WaitingIn(promise, queue) = [p \in 1 .. MaxPromises |-> <<>>]
    BY <1>1, Zenon DEF WaitingIn
  <1> QED
    BY <1>2, <1>3 DEF Contract!AInit, Init

\* Whatever content calls, and whenever: a promise gets one outcome, for good,
\* and each callback is called once, after it, with it, in the order in which
\* ResolvePromise and `then' were given the reactions, and never from within
\* another one.
THEOREM PromisesKeepTheirContract == Spec => KeepsContract
  <1>1. Init => Contract!AInit
    BY InitKeepsContract
  <1>2. ASSUME PInv, [Next]_vars
        PROVE  [Contract!ANext]_(Contract!avars)
    BY <1>2, StepKeepsContract DEF seen, seenCall, Contract!avars
  <1> QED
    BY <1>1, <1>2, PInvAlways, PTL DEF Spec, KeepsContract, Contract!ASpec
=============================================================================
