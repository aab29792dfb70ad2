------------------------------ MODULE Modules ------------------------------
(* Modules of the ES6 kind: how their exports are resolved, how a graph of  *)
(* modules that may require each other is instantiated and evaluated, and   *)
(* what a second import finds after the first one has failed.  The          *)
(* self-hosted code of builtin/Module.js and what builtin/ModuleObject.cpp  *)
(* keeps for it; imports are made by the shell's loader, by the host or by  *)
(* the body of a module.                                                    *)
EXTENDS Naturals, FiniteSets, SequencesExt

CONSTANTS
    ModuleIds,      \* the modules a host can resolve
    ExportNames,    \* the names exports have
    Default,        \* the name "default", one of ExportNames
    Star,           \* what "import * as ns" asks for
    Graphs,         \* the module graphs a run starts from
    MaxImports,     \* bound: how many imports are made
    None, Null, Ambiguous, BadDefault, SyntaxError, OtherError

NoBinding == {Null, Ambiguous, BadDefault}
Binding == [module: ModuleIds, binding: ExportNames]
Namespaces == UNION {[names -> Binding] : names \in SUBSET ExportNames}

\* what the parser finds in a module
Parsed == [requested: Seq(ModuleIds),
           imports:   Seq([from: ModuleIds, name: ExportNames \cup {Star}]),
           local:     Seq([exported: ExportNames, local: ExportNames]),
           indirect:  Seq([exported: ExportNames, from: ModuleIds, name: ExportNames]),
           star:      Seq(ModuleIds)]

\* the entries that export a name, each a pair of a module and a name
Locals(g, p) == {e \in ToSet(g[p[1]].local) : e.exported = p[2]}
Indirects(g, p) == {e \in ToSet(g[p[1]].indirect) : e.exported = p[2]}

\* it refuses a module that exports a name twice (checkExportedName), and takes
\* every module that is named in the source into requestedModules
Accepted(g, m) ==
    /\ \A n \in ExportNames :
        \A e, d \in Locals(g, <<m, n>>) \cup Indirects(g, <<m, n>>) : e = d
    /\ {e.from : e \in ToSet(g[m].imports)} \subseteq ToSet(g[m].requested)
    /\ {e.from : e \in ToSet(g[m].indirect)} \subseteq ToSet(g[m].requested)
    /\ ToSet(g[m].star) \subseteq ToSet(g[m].requested)

ASSUME GraphsAssumption == \A g \in Graphs :
    g \in [ModuleIds -> Parsed] /\ \A m \in ModuleIds : Accepted(g, m)

ASSUME NamesAssumption ==
    /\ IsFiniteSet(ModuleIds) /\ IsFiniteSet(ExportNames)
    /\ Default \in ExportNames /\ Star \notin ExportNames
    /\ NoBinding \cap (Binding \cup Namespaces) = {} /\ None \notin Namespaces
    /\ Null # Ambiguous /\ Null # BadDefault /\ Ambiguous # BadDefault
    /\ None # SyntaxError /\ None # OtherError

VARIABLES
    graph,      \* per module: what the parser found in it
    env,        \* modules with an environment in their EnvironmentSlot
    bound,      \* per module: what its first import entries are bound to
    spaces,     \* per module: None or its namespace, from names to bindings
    declared,   \* modules whose function declarations are instantiated
    evaluated,  \* modules with the flag of EvaluatedSlot
    stack,      \* the calls under way, outermost first
    thrown,     \* None or the exception that unwinds the stack
    crashed,    \* a binding was made to an environment that is not there
    ran,        \* history: modules whose body has started, in order
    broken,     \* history: modules whose instantiation has thrown
    failed,     \* history: modules whose evaluation has thrown
    calls       \* how many imports were made

modState == <<env, bound, spaces, declared, evaluated>>
history == <<ran, broken, failed>>
vars == <<graph, modState, stack, thrown, crashed, history, calls>>

Binds(m, n) == [module |-> m, binding |-> n]
Calls == [fn: {"import", "instantiate", "evaluate", "body"},
          module: ModuleIds, next: Nat \ {0}]

-----------------------------------------------------------------------------
(* ResolveExport: the calls share the two sets of what was visited.         *)

Queries == [module: ModuleIds, name: ExportNames,
            seen: SUBSET (ModuleIds \X ExportNames), stars: SUBSET ModuleIds]
Query(m, n, seen, stars) ==
    [module |-> m, name |-> n, seen |-> seen, stars |-> stars]
Answer(value, q) == [value |-> value, seen |-> q.seen, stars |-> q.stars]

\* two resolutions are compared by their modules: they have no exportName
SameExport(a, b) == a.module = b.module

\* what two star exports that both find a binding amount to
Combine(a, b) ==
    CASE a = Null -> b
      [] a # Null /\ b = Null -> a
      [] OTHER -> IF SameExport(a, b) THEN a ELSE Ambiguous

\* mutant: the first star export that finds a binding wins
FirstStar(a, b) == IF a = Null THEN b ELSE a
\* a star export that is ambiguous, or throws, ends the loop
CombineStar(a, b) ==
    IF b \in {Ambiguous, BadDefault} THEN b ELSE Combine(a, b)

\* f is the function itself: what a call asks another module for
Ask(f, from, name, a) == f[Query(from, name, a.seen, a.stars)]

\* step 5; no two entries have the same name
IndirectExport(g, f, q, a) ==
    LET entries == Indirects(g, <<q.module, q.name>>)
        e == CHOOSE e \in entries : TRUE
    IN IF entries = {} THEN a ELSE Ask(f, e.from, e.name, a)

\* one turn of step 10: an answer that is no binding ends the loop
StarExport(f, q, from, before) ==
    LET r == Ask(f, from, q.name, before)
    IN IF before.value \in {Ambiguous, BadDefault} THEN before
       ELSE [r EXCEPT !.value = CombineStar(before.value, @)]

StarExports(g, f, q, a) ==
    LET star == g[q.module].star
        after[k \in 0..Len(star)] ==
            IF k = 0 THEN a ELSE StarExport(f, q, star[k], after[k - 1])
    IN after[Len(star)]

Resolved(g, f, q) ==
    LET p == <<q.module, q.name>>
        here == [q EXCEPT !.seen = @ \cup {p}]
        indirect == IndirectExport(g, f, q, Answer(Null, here))
        marked == [indirect EXCEPT !.stars = @ \cup {q.module}]
    IN CASE p \in q.seen -> Answer(Null, q)
         [] p \notin q.seen /\ Locals(g, p) # {} ->
                Answer(Binds(q.module, (CHOOSE e \in Locals(g, p) : TRUE).local), here)
         [] OTHER ->
                CASE indirect.value # Null -> indirect
                  [] indirect.value = Null /\ q.name = Default ->
                        [indirect EXCEPT !.value = BadDefault]
                  [] OTHER ->
                        IF q.module \in indirect.stars THEN indirect
                        ELSE StarExports(g, f, q, marked)

ResolveExport(g) ==
    LET f[q \in Queries] == Resolved(g, f, q) IN f

Resolve(g, m, n) == ResolveExport(g)[Query(m, n, {}, {})].value

\* GetExportedNames: the names of a module, and the modules visited for them
\* mutant: default is taken from star exports too
AllNames(names) == names
StarNames(names) == names \ {Default}

NameQueries == [module: ModuleIds, stars: SUBSET ModuleIds]
Owns(g, m) == {e.exported : e \in ToSet(g[m].local) \cup ToSet(g[m].indirect)}

\* step 7, one star export
NamesFrom(f, from, before) ==
    LET r == f[[module |-> from, stars |-> before.stars]]
    IN [r EXCEPT !.names = before.names \cup StarNames(@)]

NamesFound(g, f, q) ==
    LET star == g[q.module].star
        own == [names |-> Owns(g, q.module), stars |-> q.stars \cup {q.module}]
        after[k \in 0..Len(star)] ==
            IF k = 0 THEN own ELSE NamesFrom(f, star[k], after[k - 1])
    IN IF q.module \in q.stars THEN [names |-> {}, stars |-> q.stars]
       ELSE after[Len(star)]

ExportedNames(g) ==
    LET f[q \in NameQueries] == NamesFound(g, f, q) IN f

\* GetModuleNamespace: the namespace, or Null when a name is not exported
\* mutant: ambiguous names are kept
AnyResolution(g, m, names) == names
Unambiguous(g, m, names) == {n \in names : Resolve(g, m, n) # Ambiguous}
Namespace(g, m) ==
    LET names == ExportedNames(g)[[module |-> m, stars |-> {}]].names
    IN IF \E n \in names : Resolve(g, m, n) \in {Null, BadDefault} THEN Null
       ELSE [n \in Unambiguous(g, m, names) |-> Resolve(g, m, n)]

-----------------------------------------------------------------------------
(* Steps 9 to 16 of ModuleDeclarationInstantiation run no other code.       *)

\* what an import entry is to be bound to: a binding, a namespace, an error
Meant(i) ==
    IF i.name = Star
    THEN IF spaces[i.from] # None THEN spaces[i.from] ELSE Namespace(graph, i.from)
    ELSE Resolve(graph, i.from, i.name)

StarOf(m) == [from |-> m, name |-> Star]

\* createImportBinding looks the name up in the environment of its module
HasEnvironment(i, b) == i.name = Star \/ b.module \in env

\* mutant: only names that are ambiguous are refused
AmbiguousExport(m) ==
    \E e \in ToSet(graph[m].indirect) : Resolve(graph, m, e.exported) = Ambiguous
BadExport(m) ==
    \E e \in ToSet(graph[m].indirect) :
        Resolve(graph, m, e.exported) \in NoBinding

Bind(m) ==
    LET entries == graph[m].imports
        meant == [k \in 1..Len(entries) |-> Meant(entries[k])]
        Good(k) == meant[k] \notin NoBinding /\ HasEnvironment(entries[k], meant[k])
        done == IF BadExport(m) THEN 0
                ELSE CHOOSE k \in 0..Len(entries) :
                        /\ \A j \in 1..k : Good(j)
                        /\ k = Len(entries) \/ ~Good(k + 1)
        complete == ~BadExport(m) /\ done = Len(entries)
        fails == BadExport(m)
                    \/ (~complete /\ meant[done + 1] \in NoBinding)
    IN /\ bound' = [bound EXCEPT ![m] = SubSeq(meant, 1, done)]
       /\ spaces' = [o \in ModuleIds |->
            IF spaces[o] = None /\ (\E k \in 1..done : entries[k] = StarOf(o))
            THEN Namespace(graph, o) ELSE spaces[o]]
       /\ declared' = IF complete THEN declared \cup {m} ELSE declared
       /\ thrown' = IF fails THEN SyntaxError ELSE None
       /\ broken' = IF fails THEN broken \cup {m} ELSE broken
       /\ crashed' = (~complete /\ ~fails)

-----------------------------------------------------------------------------
(* Calls.  A call that returns at once is not put on the stack.             *)

top == stack[Len(stack)]
Running(fn) == stack # <<>> /\ thrown = None /\ ~crashed /\ top.fn = fn
Call(fn, m, next) == [fn |-> fn, module |-> m, next |-> next]
Advanced == Append(Front(stack), [top EXCEPT !.next = @ + 1])
required == graph[top.module].requested

\* mutant: the walk stops before the last of the required modules
WalkIsAlmostOver == top.next >= Len(required)
WalkIsOver == top.next > Len(required)

MayImport == calls < MaxImports /\ ~crashed /\ thrown = None
                /\ (stack # <<>> => top.fn = "body")

\* the loader's import, by the host or by a body
Import(m) ==
    /\ MayImport
    /\ stack' = Append(stack, Call("import", m, 1))
    /\ calls' = calls + 1
    /\ UNCHANGED <<graph, modState, thrown, crashed, history>>

\* step 5 and 7: a module that has its environment is left alone
EnterInstantiate(m) ==
    /\ stack' = IF m \in env THEN Advanced
                ELSE Append(Advanced, Call("instantiate", m, 1))
    /\ env' = env \cup {m}

\* step 4 and 5: a module that is evaluated, or being evaluated, is left alone
EnterEvaluate(m) ==
    /\ stack' = IF m \in evaluated THEN Advanced
                ELSE Append(Advanced, Call("evaluate", m, 1))
    /\ evaluated' = evaluated \cup {m}

ImportInstantiates ==
    /\ Running("import") /\ top.next = 1
    /\ EnterInstantiate(top.module)
    /\ UNCHANGED <<graph, bound, spaces, declared, evaluated, thrown, crashed,
                   history, calls>>

ImportEvaluates ==
    /\ Running("import") /\ top.next = 2
    /\ EnterEvaluate(top.module)
    /\ UNCHANGED <<graph, env, bound, spaces, declared, thrown, crashed,
                   history, calls>>

ImportReturns ==
    /\ Running("import") /\ top.next = 3
    /\ stack' = Front(stack)
    /\ UNCHANGED <<graph, modState, thrown, crashed, history, calls>>

\* step 8
InstantiateRequired ==
    /\ Running("instantiate") /\ top.next <= Len(required)
    /\ EnterInstantiate(required[top.next])
    /\ UNCHANGED <<graph, bound, spaces, declared, evaluated, thrown, crashed,
                   history, calls>>

\* steps 9 to 16
InstantiateBindings ==
    /\ Running("instantiate") /\ WalkIsOver
    /\ Bind(top.module)
    /\ stack' = Front(stack)
    /\ UNCHANGED <<graph, env, evaluated, ran, failed, calls>>

\* step 6
EvaluateRequired ==
    /\ Running("evaluate") /\ top.next <= Len(required)
    /\ EnterEvaluate(required[top.next])
    /\ UNCHANGED <<graph, env, bound, spaces, declared, thrown, crashed,
                   history, calls>>

\* EvaluateModule: the body runs, or there is no environment to run it in
EvaluateBody ==
    /\ Running("evaluate") /\ WalkIsOver
    /\ IF top.module \in env
       THEN /\ stack' = Append(Front(stack), Call("body", top.module, 1))
            /\ ran' = Append(ran, top.module)
            /\ UNCHANGED <<thrown, failed>>
       ELSE /\ thrown' = OtherError
            /\ stack' = Front(stack)
            /\ failed' = failed \cup {top.module}
            /\ UNCHANGED ran
    /\ UNCHANGED <<graph, modState, crashed, broken, calls>>

BodyReturns ==
    /\ Running("body")
    /\ stack' = Front(stack)
    /\ UNCHANGED <<graph, modState, thrown, crashed, history, calls>>

BodyThrows ==
    /\ Running("body")
    /\ thrown' = OtherError
    /\ UNCHANGED <<graph, modState, stack, crashed, history, calls>>

\* a body may catch what an import of its own has thrown
BodyCatches ==
    /\ stack # <<>> /\ thrown # None /\ top.fn = "body"
    /\ thrown' = None
    /\ UNCHANGED <<graph, modState, stack, crashed, history, calls>>

Unwind ==
    /\ stack # <<>> /\ thrown # None
    /\ stack' = Front(stack)
    /\ broken' = IF top.fn = "instantiate" THEN broken \cup {top.module}
                 ELSE broken
    /\ failed' = IF top.fn \in {"evaluate", "body"}
                 THEN failed \cup {top.module} ELSE failed
    /\ UNCHANGED <<graph, modState, thrown, crashed, ran, calls>>

\* the host is told of the exception
Reported ==
    /\ stack = <<>> /\ thrown # None
    /\ thrown' = None
    /\ UNCHANGED <<graph, modState, stack, crashed, history, calls>>

-----------------------------------------------------------------------------
Init ==
    /\ graph \in Graphs
    /\ env = {} /\ declared = {} /\ evaluated = {}
    /\ bound = [m \in ModuleIds |-> <<>>]
    /\ spaces = [m \in ModuleIds |-> None]
    /\ stack = <<>> /\ thrown = None /\ crashed = FALSE
    /\ ran = <<>> /\ broken = {} /\ failed = {} /\ calls = 0

Next ==
    \/ \E m \in ModuleIds : Import(m)
    \/ ImportInstantiates \/ ImportEvaluates \/ ImportReturns
    \/ InstantiateRequired \/ InstantiateBindings
    \/ EvaluateRequired \/ EvaluateBody
    \/ BodyReturns \/ BodyThrows \/ BodyCatches \/ Unwind \/ Reported

Spec == Init /\ [][Next]_vars

-----------------------------------------------------------------------------
(* What an export means, without the sets of visited modules: every local   *)
(* export that following the entries can reach.                             *)

Targets(g, p) ==
    CASE Locals(g, p) # {} -> {}
      [] Locals(g, p) = {} /\ Indirects(g, p) # {} ->
            {<<e.from, e.name>> : e \in Indirects(g, p)}
      [] OTHER -> IF p[2] = Default THEN {} ELSE ToSet(g[p[1]].star) \X {p[2]}

\* what x leads to, directly or not, where T[p] is what p leads to directly
LedTo(S, T, x) ==
    LET Within[k \in 0..Cardinality(S)] ==
            IF k = 0 THEN {x}
            ELSE LET before == Within[k - 1]
                 IN before \cup UNION {T[p] : p \in before}
    IN Within[Cardinality(S)]

Pairs == ModuleIds \X ExportNames
Reached(g, m, n) == LedTo(Pairs, [p \in Pairs |-> Targets(g, p)], <<m, n>>)

Meanings(g, m, n) ==
    UNION {{Binds(p[1], e.local) : e \in Locals(g, p)} : p \in Reached(g, m, n)}
Clear(g, m, n) == Cardinality(Meanings(g, m, n)) = 1

Required(g, m) == LedTo(ModuleIds, [r \in ModuleIds |-> ToSet(g[r].requested)], m)

\* The names for which the sets of visited modules do no harm: following the
\* name, no module is asked for two names by star exports, which are followed
\* once whatever the name; no two exports of one module are met, which are taken
\* for the same; and an entry that passes the name on, in a module that has star
\* exports or asks for the default export as well, leads straight to a local
\* export, by entries that nothing else leads to.
Stars(g, p) == Locals(g, p) = {} /\ Indirects(g, p) = {} /\ p[2] # Default
PassesOn(g, p) == Locals(g, p) = {} /\ Indirects(g, p) # {}
Straight(g, R, p, x) ==
    \A t \in Reached(g, p[1], p[2]) :
        /\ Locals(g, t) # {} \/ PassesOn(g, t)
        /\ \A u \in Targets(g, t) :
            u # x /\ \A q \in R : u \in Targets(g, q) => q = t
PlainName(g, m, n) ==
    LET R == Reached(g, m, n)
    IN  /\ \A p, q \in R :
            Stars(g, p) /\ Stars(g, q) /\ p[1] = q[1] /\ g[p[1]].star # <<>> => p = q
        /\ \A a, b \in Meanings(g, m, n) : a.module = b.module => a = b
        /\ \A p \in R :
            PassesOn(g, p) /\ (g[p[1]].star # <<>> \/ p[2] = Default) =>
                Straight(g, R, p, <<m, n>>)
Plain(g) == \A m \in ModuleIds, n \in ExportNames : PlainName(g, m, n)

\* For any other name there is still all that a call may ask: it also follows
\* the star exports of a module in which the entry that passes the name on has
\* led to nothing.
MayFollow(g, p) == Locals(g, p) = {} /\ p[2] # Default
MayAsk(g, p) ==
    Targets(g, p) \cup (IF MayFollow(g, p) THEN ToSet(g[p[1]].star) \X {p[2]} ELSE {})
Visited(g, m, n) == LedTo(Pairs, [p \in Pairs |-> MayAsk(g, p)], <<m, n>>)
Candidates(g, m, n) ==
    UNION {{Binds(p[1], e.local) : e \in Locals(g, p)} : p \in Visited(g, m, n)}
Disputed(g, m, n) == \E a, b \in Candidates(g, m, n) : a.module # b.module
\* no module is asked for two names by star exports
AskedOnce(g, m, n) ==
    \A p, q \in Visited(g, m, n) :
        MayFollow(g, p) /\ MayFollow(g, q) /\ p[1] = q[1] /\ g[p[1]].star # <<>> => p = q

\* What a name may be bound to, in any graph: its only meaning; or, if the sets
\* of visited modules may do harm, a local export that can be asked for, and
\* unless a module is asked twice, one of the only module with a meaning of it.
MayMean(g, m, n, b) ==
    \/ Meanings(g, m, n) = {b}
    \/ /\ ~PlainName(g, m, n)
       /\ b \in Candidates(g, m, n)
       /\ AskedOnce(g, m, n) => \A c \in Meanings(g, m, n) : c.module = b.module

\* a name that has no meaning or several, or for which the sets may do harm
Doubtful(g, m, n) == ~Clear(g, m, n) \/ ~PlainName(g, m, n)
UnclearImport(g, m) ==
    \E i \in ToSet(g[m].imports) :
        IF i.name = Star THEN \E n \in ExportNames : ~PlainName(g, i.from, n)
        ELSE Doubtful(g, i.from, i.name)
UnclearExport(g, m) ==
    \E e \in ToSet(g[m].indirect) : Doubtful(g, m, e.exported)

OnStack(fns) == {stack[k].module : k \in {j \in 1..Len(stack) : stack[j].fn \in fns}}

\* An import is bound to the only local export it can mean: none is missed,
\* invented or preferred because of the order in which the star exports are
\* followed and of the visited sets they share.  Where those sets can do harm it
\* is still bound to a local export that the entries lead to, and to one of the
\* right module unless star exports ask a module for two names.
ImportsMeanOneThing ==
    \A m \in ModuleIds : \A k \in 1..Len(bound[m]) :
        LET i == graph[m].imports[k]
        IN i.name # Star => MayMean(graph, i.from, i.name, bound[m][k])

\* A namespace holds each name of its module that has one meaning, with that
\* meaning, and no other, although it may be made while the modules it
\* gathers its names from are still being instantiated.  A name it leaves out
\* has no meaning, or two modules that can be asked for it both export it.
NamespacesAreExact ==
    \A m \in ModuleIds : spaces[m] # None => \A n \in ExportNames :
        IF n \in DOMAIN spaces[m] THEN MayMean(graph, m, n, spaces[m][n])
        ELSE \/ Meanings(graph, m, n) = {}
             \/ Disputed(graph, m, n) /\ Doubtful(graph, m, n)

\* A module that has its environment, and whose instantiation is over and
\* has not thrown, is complete: all its imports are bound, each name it
\* passes on has a meaning as an import would have, and its functions are there.
InstantiationIsComplete ==
    \A m \in env \ (OnStack({"instantiate"}) \cup broken) :
        crashed \/ (/\ m \in declared
                    /\ Len(bound[m]) = Len(graph[m].imports)
                    /\ \A e \in ToSet(graph[m].indirect) :
                        \E b \in Candidates(graph, m, e.exported) :
                            MayMean(graph, m, e.exported, b))

\* Instantiation throws only when a module that is required, directly or
\* not, imports or passes on a name that has no meaning or several, or one for
\* which the visited sets can do harm.
OnlyUnclearGraphsFail ==
    \A m \in broken :
        \E r \in Required(graph, m) : UnclearImport(graph, r) \/ UnclearExport(graph, r)

\* A body runs at most once, whoever imports the module and when, and only
\* after each module it requires has run, has failed, or is waiting for it.
BodiesRunInOrder ==
    [][ran' # ran =>
        LET m == Last(ran')
        IN /\ m \notin ToSet(ran)
           /\ \A r \in ToSet(graph[m].requested) :
                r \in ToSet(ran') \cup failed \cup OnStack({"evaluate", "body"})]_vars

\* What IndirectBindingMap asserts of a binding: its environment is there.
BindingsHaveEnvironments == ~crashed
=============================================================================
