-------------------------- MODULE AbstractPromise --------------------------
(* What a promise is to those who wait for it: it gets one outcome, for     *)
(* good, and each callback registered with it is called once, after that,   *)
(* with that outcome, in the order of registration and never from within    *)
(* the call of another one.                                                 *)
EXTENDS Naturals, Sequences

CONSTANTS
    PromiseIds,     \* the promises there may be
    Outcomes,       \* what they may settle to
    Callbacks,      \* what may be registered with them
    Idle            \* no callback is being called

VARIABLES
    outcome,        \* per promise: <<>> or its only outcome, as <<o>>
    waiting,        \* per promise: the callbacks that have not been called
    calling         \* Idle or the call that is under way

avars == <<outcome, waiting, calling>>

AInit ==
    /\ outcome = [p \in PromiseIds |-> <<>>]
    /\ waiting = [p \in PromiseIds |-> <<>>]
    /\ calling = Idle

Register(p) ==
    /\ UNCHANGED <<outcome, calling>>
    /\ waiting'[p] # <<>>
    /\ LET c == waiting'[p][Len(waiting'[p])]
       IN c \in Callbacks /\ waiting' = [waiting EXCEPT ![p] = Append(@, c)]

Settles(p) ==
    /\ outcome[p] = <<>>
    /\ outcome'[p] \in {<<o>> : o \in Outcomes}
    /\ outcome' = [outcome EXCEPT ![p] = outcome'[p]]

Settle(p) ==
    /\ UNCHANGED <<waiting, calling>>
    /\ Settles(p)

Deliver(p) ==
    /\ UNCHANGED outcome
    /\ calling = Idle /\ outcome[p] # <<>> /\ waiting[p] # <<>>
    /\ calling' = [promise |-> p, callback |-> Head(waiting[p]),
                   outcome |-> outcome[p][1]]
    /\ waiting' = [waiting EXCEPT ![p] = Tail(@)]

\* the end of a call may settle the promise that stands for its result
EndCall ==
    /\ UNCHANGED waiting
    /\ calling # Idle
    /\ calling' = Idle
    /\ UNCHANGED outcome \/ \E p \in PromiseIds : Settles(p)

ANext ==
    \/ EndCall
    \/ \E p \in PromiseIds : Settle(p) \/ Deliver(p) \/ Register(p)

ASpec == AInit /\ [][ANext]_avars
=============================================================================
