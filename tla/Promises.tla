------------------------------ MODULE Promises ------------------------------
(* Promises and their jobs: the self-hosted code of builtin/Promise.js, the *)
(* constructor and the jobs of builtin/Promise.cpp, and the embedding's     *)
(* queue.  Content code runs between the steps and may call whatever it     *)
(* holds: it is called back by executors, getters of `then', thenables,     *)
(* reaction handlers and the iterators of all and race.                     *)
EXTENDS Naturals, Sequences, FiniteSets

CONSTANTS
    MaxPromises,    \* bound: how many promises are created
    MaxSteps,       \* bound: how many calls content makes
    MaxDepth,       \* bound: how deep content is called back
    Collectors,     \* which of "all", "race" content may call
    HandlerPairs,   \* the pairs of handlers content gives to `then'
    Plain,      \* a value without a `then' that could be called
    Object,     \* an object whose `then' is content's
    Thrown,     \* what content throws
    SelfError,  \* the error of a promise that is resolved with itself
    AllValues,  \* the array Promise.all resolves with: its `then' is content's
    None, Idle

VARIABLES
    promise,    \* the promises, by number
    resolver,   \* the pairs of resolving functions, by number
    queue,      \* the embedding's job queue
    job,        \* Idle or the reaction job that is being run
    stack,      \* content's frames, and what each returns to
    unhandled,  \* promises the embedding was told are rejected and unhandled
    all,        \* None or what the closures of Promise.all share
    steps, registered   \* what content has done; reactions registered so far

vars == <<promise, resolver, queue, job, stack, unhandled, all, steps, registered>>

Promises == 1..Len(promise)
\* objects that are no promises: content may have given them a `then', its
\* own or that of a prototype
Objects == {Object, AllValues}
Values == {Plain, Object, Thrown, SelfError, AllValues} \cup 1..MaxPromises
Settled == {"fulfilled", "rejected"}

\* the shapes of what the code keeps; a handler is of a pair of resolving
\* functions, or of an element of all, or of nothing
Handlers == [fn: {"identity", "thrower", "content", "resolve", "reject", "element"},
             of: Nat \cup {None}]
Capabilities == Nat \cup {None}
Reactions == [id: Nat, onFulfilled: Handlers, onRejected: Handlers, capability: Capabilities]
PromiseRecords == [state: Settled \cup {"pending"}, result: Values \cup {None},
                   reactions: Seq(Reactions), handled: BOOLEAN]
Resolvers == [promise: Nat, alreadyResolved: BOOLEAN, held: SUBSET {"resolve", "reject"}]
ThenableJobs == [kind: {"thenable"}, promise: Nat, thenable: Nat \cup Objects]
ReactionJobs == [kind: {"reaction"}, promise: Nat, id: Nat, as: Settled, handler: Handlers,
                 argument: Values, capability: Capabilities]
Frames == [fn: {"executor", "then", "all", "race"}, resolver: Nat]
            \cup [fn: {"getThen"}, promise: Nat, value: Objects]
            \cup [fn: {"handler"}, capability: Capabilities]
Gatherings == [resolver: Nat, remaining: Nat, called: Seq(BOOLEAN), held: SUBSET Nat,
               done: BOOLEAN]

ASSUME ValuesAreApart ==
    /\ MaxPromises \in Nat
    /\ Nat \cap {Plain, Object, Thrown, SelfError, AllValues, None} = {}
    /\ Objects \cap {Plain, Thrown, SelfError} = {}
    /\ None \notin {Plain, Object, Thrown, SelfError, AllValues}
    /\ Idle \notin ReactionJobs /\ None \notin Gatherings
    /\ Idle \notin [promise: Nat, callback: Nat, outcome: Settled \X Values]

\* content gives its own functions, or none and gets the defaults
ASSUME HandlersAreContents ==
    HandlerPairs \subseteq ([fn: {"identity", "content"}, of: {None}]
                            \X [fn: {"thrower", "content"}, of: {None}])

-----------------------------------------------------------------------------
(* Functions of the state, composed by the actions below.                   *)

Now == [promise |-> promise, resolver |-> resolver, queue |-> queue,
        stack |-> stack, unhandled |-> unhandled, all |-> all,
        registered |-> registered]
Become(s) ==
    /\ promise' = s.promise /\ resolver' = s.resolver /\ queue' = s.queue
    /\ stack' = s.stack /\ unhandled' = s.unhandled /\ all' = s.all
    /\ registered' = s.registered

\* mutant: a new job comes first
EnqueueFirst(s, j) == [s EXCEPT !.queue = <<j>> \o @]
Enqueue(s, j) == [s EXCEPT !.queue = Append(@, j)]
Push(s, frame) == [s EXCEPT !.stack = Append(@, frame)]
Pop(s) == [s EXCEPT !.stack = SubSeq(@, 1, Len(@) - 1)]

NewPromise(s) ==
    [s EXCEPT !.promise = Append(@, [state |-> "pending", result |-> None,
                                     reactions |-> <<>>, handled |-> FALSE])]
NewResolver(s, p, held) ==
    [s EXCEPT !.resolver = Append(@, [promise |-> p, alreadyResolved |-> FALSE,
                                      held |-> held])]
\* NewPromiseCapability with the built-in constructor: content has neither
NewCapability(s) == NewResolver(NewPromise(s), Len(s.promise) + 1, {})

ThenableJob(p, thenable) ==
    [kind |-> "thenable", promise |-> p, thenable |-> thenable]
ReactionJob(p, r, state, v) ==
    [kind |-> "reaction", promise |-> p, id |-> r.id, as |-> state,
     handler |-> IF state = "fulfilled" THEN r.onFulfilled ELSE r.onRejected,
     argument |-> v, capability |-> r.capability]

\* ResolvePromise, with what onSettled tells the embedding
Settle(s, p, state, v) ==
    LET jobs == [i \in DOMAIN s.promise[p].reactions |->
                    ReactionJob(p, s.promise[p].reactions[i], state, v)]
    IN [s EXCEPT !.promise[p] = [@ EXCEPT !.state = state, !.result = v, !.reactions = <<>>],
                 !.queue = @ \o jobs,
                 !.unhandled = IF state = "rejected" /\ ~s.promise[p].handled
                               THEN @ \cup {p} ELSE @]

\* mutant: alreadyResolved is not set
NotMarked(s, k) == s
MarkResolved(s, k) == [s EXCEPT !.resolver[k].alreadyResolved = TRUE]

\* mutant: a promise is a value like others
NoneIsThenable(p, v) == FALSE
IsThenable(p, v) == v \in (1..MaxPromises) \ {p}

\* the functions of CreateResolvingFunctions
Reject(s, k, v) ==
    IF s.resolver[k].alreadyResolved THEN s
    ELSE Settle(MarkResolved(s, k), s.resolver[k].promise, "rejected", v)

Resolve(s, k, v) ==
    LET p == s.resolver[k].promise
        marked == MarkResolved(s, k)
    IN CASE s.resolver[k].alreadyResolved -> s
         [] ~s.resolver[k].alreadyResolved /\ v = p ->
                Settle(marked, p, "rejected", SelfError)
         [] ~s.resolver[k].alreadyResolved /\ v \in Objects ->
                Push(marked, [fn |-> "getThen", promise |-> p, value |-> v])
         [] ~s.resolver[k].alreadyResolved /\ IsThenable(p, v) ->
                Enqueue(marked, ThenableJob(p, v))
         [] OTHER -> Settle(marked, p, "fulfilled", v)

\* reactions have no capability when nobody can see the derived promise
Answer(s, capability, v) ==
    IF capability = None THEN s ELSE Resolve(s, capability, v)
Fail(s, capability, v) ==
    IF capability = None THEN s ELSE Reject(s, capability, v)

\* mutant: the embedding is not told that the rejection is handled
HandleSilently(s, p) == [s EXCEPT !.promise[p].handled = TRUE]
\* HostPromiseRejectionTracker: the rejection is handled after all
Handle(s, p) ==
    [s EXCEPT !.promise[p].handled = TRUE,
              !.unhandled = IF s.promise[p].state = "rejected"
                            THEN @ \ {p} ELSE @]

PerformThen(s, p, onFulfilled, onRejected, capability) ==
    LET r == [id |-> s.registered + 1, onFulfilled |-> onFulfilled,
              onRejected |-> onRejected, capability |-> capability]
        counted == [Handle(s, p) EXCEPT !.registered = @ + 1]
    IN IF s.promise[p].state = "pending"
       THEN [counted EXCEPT !.promise[p].reactions = Append(@, r)]
       ELSE Enqueue(counted, ReactionJob(p, r, s.promise[p].state,
                                         s.promise[p].result))

-----------------------------------------------------------------------------
(* Handlers of reactions.                                                    *)

Handler(fn, of) == [fn |-> fn, of |-> of]
Identity == Handler("identity", None)
Thrower == Handler("thrower", None)
Content == Handler("content", None)

\* PromiseAllResolveElementFunction
ResolveElement(s, i) ==
    LET filled == [s EXCEPT !.all.called[i] = TRUE, !.all.remaining = @ - 1]
    IN IF s.all.called[i] THEN s
       ELSE IF filled.all.remaining = 0
            THEN Resolve(filled, s.all.resolver, AllValues)
            ELSE filled

\* a handler that is not content's, and what it answers
Apply(s, j) ==
    CASE j.handler.fn = "identity" -> Answer(s, j.capability, j.argument)
      [] j.handler.fn = "thrower" -> Fail(s, j.capability, j.argument)
      [] j.handler.fn = "resolve" -> Resolve(s, j.handler.of, j.argument)
      [] j.handler.fn = "reject" -> Reject(s, j.handler.of, j.argument)
      [] j.handler.fn = "element" -> ResolveElement(s, j.handler.of)

-----------------------------------------------------------------------------
(* Jobs.  The embedding runs one when no code is running.                    *)

top == stack[Len(stack)]
InFrame(fn) == stack # <<>> /\ top.fn = fn
Quiet == stack = <<>> /\ job = Idle

\* PromiseReactionJob, up to the call of its handler
TakeReactionJob ==
    /\ Quiet /\ queue # <<>> /\ Head(queue).kind = "reaction"
    /\ job' = Head(queue)
    /\ queue' = Tail(queue)
    /\ stack' = IF job'.handler = Content
                THEN <<[fn |-> "handler", capability |-> job'.capability]>>
                ELSE <<>>
    /\ UNCHANGED <<promise, resolver, unhandled, all, steps, registered>>

ApplyHandler ==
    /\ job # Idle /\ job.handler # Content
    /\ Become(Apply(Now, job))
    /\ job' = Idle
    /\ UNCHANGED steps

\* PromiseResolveThenableJob: `then' gets a pair of functions of its own
CallThen(s, j) ==
    LET k == Len(s.resolver) + 1
    IN IF j.thenable \in Objects
       THEN Push(NewResolver(s, j.promise, {"resolve", "reject"}),
                 [fn |-> "then", resolver |-> k])
       ELSE PerformThen(NewResolver(s, j.promise, {}), j.thenable,
                        Handler("resolve", k), Handler("reject", k), None)

TakeThenableJob ==
    /\ Quiet /\ queue # <<>> /\ Head(queue).kind = "thenable"
    /\ Become(CallThen([Now EXCEPT !.queue = Tail(@)], Head(queue)))
    /\ UNCHANGED <<job, steps>>

-----------------------------------------------------------------------------
(* What content does when it runs: as a script, or called back.              *)

MayCall == steps < MaxSteps /\ (stack = <<>> => job = Idle)
MayCreate == Len(promise) < MaxPromises
MayNest == Len(stack) < MaxDepth
Does(s) == Become(s) /\ steps' = steps + 1 /\ UNCHANGED job

\* PromiseObject::create; the pair is also what the embedding can call
New ==
    LET k == Len(resolver) + 1
        p == Len(promise) + 1
    IN /\ MayCall /\ MayCreate /\ MayNest
       /\ Does(Push(NewResolver(NewPromise(Now), p, {"resolve", "reject"}),
                    [fn |-> "executor", resolver |-> k]))

CallResolve(k, v) ==
    /\ MayCall /\ MayNest
    /\ "resolve" \in resolver[k].held
    /\ Does(Resolve(Now, k, v))

CallReject(k) ==
    /\ MayCall
    /\ "reject" \in resolver[k].held
    /\ Does(Reject(Now, k, Thrown))

Then(p, onFulfilled, onRejected) ==
    /\ MayCall /\ MayCreate
    /\ Does(PerformThen(NewCapability(Now), p, onFulfilled, onRejected,
                        Len(resolver) + 1))

\* mutant: the iteration itself is not counted
NoneRemain == 0
IterationRemains == 1

All ==
    /\ MayCall /\ MayCreate /\ MayNest /\ "all" \in Collectors /\ all = None
    /\ Does(Push([NewCapability(Now) EXCEPT
                    !.all = [resolver |-> Len(resolver) + 1, remaining |-> IterationRemains,
                             called |-> <<>>, held |-> {}, done |-> FALSE]],
                 [fn |-> "all", resolver |-> Len(resolver) + 1]))

Race ==
    /\ MayCall /\ MayCreate /\ MayNest /\ "race" \in Collectors
    /\ Does(Push(NewCapability(Now),
                 [fn |-> "race", resolver |-> Len(resolver) + 1]))

\* one round of PerformPromiseAll, with a promise whose `then' is built in
NextElement(s) ==
    [s EXCEPT !.all.remaining = @ + 1, !.all.called = Append(@, FALSE)]
AllBlocksOn(p) ==
    /\ MayCall /\ InFrame("all")
    /\ Does(PerformThen(NextElement(Now), p,
                        Handler("element", Len(all.called) + 1),
                        Handler("reject", all.resolver), None))

\* the same when `then' is content's, which keeps the functions it gets
AllCallsThen ==
    /\ MayCall /\ InFrame("all")
    /\ Does([NextElement(Now) EXCEPT
                !.all.held = @ \cup {Len(all.called) + 1},
                !.resolver[all.resolver].held = @ \cup {"reject"}])

CallElement(i) ==
    /\ MayCall /\ MayNest /\ i \in all.held
    /\ Does(ResolveElement(Now, i))

\* one round of PerformPromiseRace
RaceBlocksOn(p) ==
    /\ MayCall /\ InFrame("race")
    /\ Does(PerformThen(Now, p, Handler("resolve", top.resolver),
                        Handler("reject", top.resolver), None))
RaceCallsThen ==
    /\ MayCall /\ InFrame("race")
    /\ Does([Now EXCEPT !.resolver[top.resolver].held = {"resolve", "reject"}])

\* content calls what it holds, or one of the functions of Promise
Calls ==
    \/ New \/ All \/ Race \/ AllCallsThen \/ RaceCallsThen
    \/ \E k \in DOMAIN resolver :
        \/ \E v \in {Plain, Object} \cup Promises : CallResolve(k, v)
        \/ CallReject(k)
    \/ \E p \in Promises :
        \/ AllBlocksOn(p) \/ RaceBlocksOn(p)
        \/ \E h \in HandlerPairs : Then(p, h[1], h[2])
    \/ all # None /\ \E i \in DOMAIN all.called : CallElement(i)

-----------------------------------------------------------------------------
(* A frame of content ends, by returning or by throwing.                     *)

Ends(s) == Become(s) /\ UNCHANGED <<job, steps>>

Returns ==
    /\ stack # <<>> /\ top.fn \in {"executor", "then", "race"}
    /\ Ends(Pop(Now))

\* steps 8 to 12 of resolve: content has answered what `then' is
ThenIsCallable ==
    /\ InFrame("getThen")
    /\ Ends(Enqueue(Pop(Now), ThenableJob(top.promise, top.value)))
ThenIsNotCallable ==
    /\ InFrame("getThen")
    /\ Ends(Settle(Pop(Now), top.promise, "fulfilled", top.value))

AllReturns ==
    LET left == all.remaining - 1
        over == [Pop(Now) EXCEPT !.all.remaining = left, !.all.done = TRUE]
    IN /\ InFrame("all")
       /\ Ends(IF left = 0 THEN Resolve(over, all.resolver, AllValues) ELSE over)

HandlerReturns(v) ==
    /\ InFrame("handler")
    /\ Become(Answer(Pop(Now), top.capability, v))
    /\ job' = Idle
    /\ UNCHANGED steps

Throws ==
    \/ /\ stack # <<>> /\ top.fn \in {"executor", "then", "all", "race"}
       /\ Ends(Reject(Pop(Now), top.resolver, Thrown))
    \/ /\ InFrame("getThen")
       /\ Ends(Settle(Pop(Now), top.promise, "rejected", Thrown))
    \/ /\ InFrame("handler")
       /\ Become(Fail(Pop(Now), top.capability, Thrown))
       /\ job' = Idle
       /\ UNCHANGED steps

FrameEnds ==
    \/ Returns \/ ThenIsCallable \/ ThenIsNotCallable \/ AllReturns \/ Throws
    \/ \E v \in {Plain, Object} \cup Promises : HandlerReturns(v)

\* mutant: only content's handlers are run
TakesJob == TakeReactionJob \/ TakeThenableJob
RunsJob == TakeReactionJob \/ ApplyHandler \/ TakeThenableJob

-----------------------------------------------------------------------------
Init ==
    /\ promise = <<>> /\ resolver = <<>> /\ queue = <<>> /\ stack = <<>>
    /\ job = Idle /\ unhandled = {} /\ all = None
    /\ steps = 0 /\ registered = 0

Next == Calls \/ FrameEnds \/ RunsJob

Spec == Init /\ [][Next]_vars

\* content's code ends, and the embedding runs the jobs it was given
Fairness == WF_vars(FrameEnds) /\ WF_vars(RunsJob)
FairSpec == Spec /\ Fairness

-----------------------------------------------------------------------------
(* Types.                                                                    *)

\* The records have their shapes; a promise is fulfilled with a promise never.
TypeOK ==
    /\ promise \in Seq(PromiseRecords) /\ resolver \in Seq(Resolvers)
    /\ queue \in Seq(ThenableJobs \cup ReactionJobs) /\ stack \in Seq(Frames)
    /\ job \in ReactionJobs \cup {Idle} /\ all \in Gatherings \cup {None}
    /\ steps \in Nat /\ registered \in Nat
    /\ \A p \in Promises :
        /\ promise[p].state = "fulfilled" => promise[p].result \notin 1..MaxPromises
        /\ promise[p].state # "pending" => promise[p].reactions = <<>>
    /\ \A k \in DOMAIN resolver : resolver[k].promise \in Promises
    /\ unhandled \subseteq Promises

-----------------------------------------------------------------------------
(* Properties.                                                               *)

\* Whoever can still settle a promise: a pair of functions not used yet, a
\* job that will ask a thenable, a getter of `then' that is running.
Deciders(p) ==
    Cardinality({k \in DOMAIN resolver : resolver[k].promise = p /\ ~resolver[k].alreadyResolved})
    + Cardinality({i \in DOMAIN queue : queue[i].kind = "thenable" /\ queue[i].promise = p})
    + Cardinality({i \in DOMAIN stack : stack[i].fn = "getThen" /\ stack[i].promise = p})

\* A pending promise has exactly one party that can settle it, and a settled
\* one none: nobody settles it a second time, which ResolvePromise asserts,
\* and no promise is forgotten when it is handed from one party to the next.
OnePartyDecides ==
    \A p \in Promises :
        Deciders(p) = IF promise[p].state = "pending" THEN 1 ELSE 0

\* The embedding has been told of just those rejected promises to which no
\* reaction was ever added, whether that came before or after the rejection.
UnhandledIsExact ==
    unhandled = {p \in Promises : promise[p].state = "rejected"
                                    /\ ~promise[p].handled}

\* The promise of Promise.all is resolved with the array, or was rejected,
\* once its iteration is over and each element has been filled.  Before that
\* it is pending, or rejected with its own pair of functions: whatever the
\* `then' of an array may do, it is not asked too early, although content
\* may call the functions of the elements during the iteration, and twice.
AllWaitsForEach ==
    all # None =>
        LET own == resolver[all.resolver]
            complete == all.done /\ \A i \in DOMAIN all.called : all.called[i]
        IN IF complete THEN own.alreadyResolved
           ELSE promise[own.promise].state =
                    IF own.alreadyResolved THEN "rejected" ELSE "pending"

\* Every job is run, and what it calls back returns: since a promise that is
\* settled has handed over its reactions, each of them is called.
EveryJobIsRun == []<>(queue = <<>> /\ Quiet)

\* What AbstractPromise promises, from what the code keeps: the reactions of
\* a promise move from its list to the queue when it is settled.
OutcomeOf(promises) ==
    [p \in 1..MaxPromises |->
        IF p \in DOMAIN promises /\ promises[p].state # "pending"
        THEN <<<<promises[p].state, promises[p].result>>>> ELSE <<>>]
IdsIn(seq) == [i \in DOMAIN seq |-> seq[i].id]
Reacts(j, p) == j.kind = "reaction" /\ j.promise = p
JobIds(jobs, p) ==
    LET upTo[n \in 0..Len(jobs)] ==
            IF n = 0 THEN <<>>
            ELSE IF Reacts(jobs[n], p) THEN Append(upTo[n - 1], jobs[n].id)
                 ELSE upTo[n - 1]
    IN upTo[Len(jobs)]
WaitingIn(promises, jobs) ==
    [p \in 1..MaxPromises |->
        IF p \in DOMAIN promises THEN IdsIn(promises[p].reactions) \o JobIds(jobs, p)
        ELSE <<>>]
CallOf(j) == [promise |-> j.promise, callback |-> j.id, outcome |-> <<j.as, j.argument>>]
Contract == INSTANCE AbstractPromise WITH
    PromiseIds <- 1..MaxPromises,
    Outcomes <- Settled \X Values,
    Callbacks <- Nat,
    outcome <- OutcomeOf(promise),
    waiting <- WaitingIn(promise, queue),
    calling <- IF job = Idle THEN Idle ELSE CallOf(job)

\* Each callback is called once, with the outcome of its promise, after it is
\* settled, in the order of registration, and never from within another one.
KeepsContract == Contract!ASpec
=============================================================================
