----------------------------- MODULE MCModules -----------------------------
(* Instances of the module graphs: every combination of a few shapes for    *)
(* each of three modules, graphs in which the visited sets do harm, and the *)
(* single graph of the disagreement.                                        *)
EXTENDS Modules

CONSTANTS Main, B, C, X, Y

Shape(requested, imports, local, indirect, star) ==
    [requested |-> requested, imports |-> imports, local |-> local,
     indirect |-> indirect, star |-> star]
From(m, n) == [from |-> m, name |-> n]
Own(n) == [exported |-> n, local |-> n]
As(n, m, o) == [exported |-> n, from |-> m, name |-> o]

\* C is required first, so that whatever Main passes on has its environment
MainShapes == {
    Shape(<<C, B>>, <<From(B, X), StarOf(B)>>, <<>>, <<>>, <<>>),
    Shape(<<C, B, Main>>, <<From(Main, X)>>, <<>>, <<>>, <<C, B>>),
    Shape(<<C, B>>, <<StarOf(C)>>, <<Own(X)>>, <<As(Y, C, X)>>, <<>>),
    Shape(<<C, B>>, <<From(B, Default)>>, <<Own(X)>>, <<>>, <<B>>)}
BShapes == {
    Shape(<<>>, <<>>, <<Own(X)>>, <<>>, <<>>),
    Shape(<<C, Main>>, <<From(Main, X)>>, <<>>, <<>>, <<C>>),
    Shape(<<C>>, <<>>, <<Own(Default)>>, <<As(X, C, X)>>, <<>>),
    Shape(<<Main, C>>, <<StarOf(Main)>>, <<Own(X), Own(Default)>>, <<>>, <<C>>),
    Shape(<<C, Main, B>>, <<From(Main, Y), StarOf(B)>>, <<Own(X)>>, <<>>, <<Main>>),
    Shape(<<C>>, <<From(C, X)>>, <<>>, <<As(Y, C, X)>>, <<>>)}
CShapes == {
    Shape(<<>>, <<>>, <<Own(X)>>, <<>>, <<>>),
    Shape(<<B>>, <<From(B, X)>>, <<Own(Y), Own(Default)>>, <<>>, <<>>),
    Shape(<<B>>, <<StarOf(B)>>, <<Own(Y)>>, <<>>, <<B>>)}

ThreeModules == {(Main :> m) @@ (B :> b) @@ (C :> c) :
                    m \in MainShapes, b \in BShapes, c \in CShapes}

\* X of Main means Y of C, but B has followed its star exports for X already
AskedTwice(imports) ==
    (Main :> Shape(<<B, C, Main>>, imports, <<>>, <<>>, <<B>>)) @@
    (B :> Shape(<<C>>, <<From(C, X)>>, <<>>, <<>>, <<C>>)) @@
    (C :> Shape(<<B>>, <<>>, <<Own(Y)>>, <<As(X, B, Y)>>, <<>>))
\* Main finds two exports of C for X and takes them for one
TakenForOne(imports) ==
    (Main :> Shape(<<C, B, Main>>, imports, <<>>, <<>>, <<B, C>>)) @@
    (B :> Shape(<<C>>, <<>>, <<>>, <<As(X, C, Y)>>, <<>>)) @@
    (C :> Shape(<<>>, <<>>, <<Own(X), Own(Y)>>, <<>>, <<>>))
\* Main and B pass X on to each other for ever, but Main falls back on C
FallsBack(imports) ==
    (Main :> Shape(<<C, B, Main>>, imports, <<>>, <<As(X, B, X)>>, <<C>>)) @@
    (B :> Shape(<<Main>>, <<>>, <<Own(Y)>>, <<As(X, Main, X)>>, <<>>)) @@
    (C :> Shape(<<>>, <<>>, <<Own(X)>>, <<>>, <<>>))
\* B passes on the default export of C, and Main passes it on as X
Chain(imports) ==
    (Main :> Shape(<<C, B, Main>>, imports, <<>>, <<As(X, B, Default)>>, <<C>>)) @@
    (B :> Shape(<<C>>, <<>>, <<>>, <<As(Default, C, Default)>>, <<C>>)) @@
    (C :> Shape(<<>>, <<>>, <<Own(Default)>>, <<>>, <<>>))

ChainedModules == {Chain(<<From(Main, X), StarOf(B)>>), Chain(<<StarOf(Main)>>)}
OddModules ==
    {AskedTwice(i) : i \in {<<From(Main, X)>>, <<StarOf(Main)>>, <<From(C, X), StarOf(C)>>}}
    \cup {TakenForOne(i) : i \in {<<From(Main, X), StarOf(Main)>>}}
    \cup {FallsBack(i) : i \in {<<From(Main, X), StarOf(B)>>, <<StarOf(Main), From(B, X)>>}}

\* resolution is the same as its meaning in the first of these graphs
ASSUME ThreeModulesArePlain == \A g \in ThreeModules \cup ChainedModules : Plain(g)

\* and in each of the others, which miss one condition of Plain, it is not
ASSUME PlainIsNeeded ==
    LET asked == AskedTwice(<<>>)
        taken == TakenForOne(<<>>)
        falls == FallsBack(<<>>)
    IN  /\ \A g \in {asked, taken, falls} : ~PlainName(g, Main, X)
        /\ Resolve(asked, Main, X) = Null /\ Clear(asked, Main, X)
        /\ Resolve(taken, Main, X) = Binds(C, Y) /\ ~Clear(taken, Main, X)
        /\ Resolve(falls, Main, X) = Binds(C, X) /\ Meanings(falls, Main, X) = {}

AllModules == ThreeModules \cup ChainedModules \cup OddModules

\* Main passes on what is C's; B, which Main requires before C, imports it
PassedOnTooEarly == {
    (Main :> Shape(<<B, C>>, <<>>, <<>>, <<As(X, C, X)>>, <<>>)) @@
    (B :> Shape(<<Main>>, <<From(Main, X)>>, <<>>, <<>>, <<>>)) @@
    (C :> Shape(<<>>, <<>>, <<Own(X)>>, <<>>, <<>>))}
=============================================================================
