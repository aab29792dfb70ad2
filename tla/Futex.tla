------------------------------- MODULE Futex -------------------------------
(* Atomics.wait and Atomics.wake on one shared buffer, and the interrupts   *)
(* that other threads request of a thread that may be waiting: the code of  *)
(* builtin/AtomicsObject.cpp with JSRuntime::requestInterrupt and           *)
(* handleInterrupt.  A step under the futex lock is one action; the lock is *)
(* let go of by a wait on the condition variable and around the interrupt   *)
(* handler.  Handlers do not themselves call Atomics.wait here.             *)
EXTENDS Naturals, Sequences, FiniteSets

CONSTANTS
    Threads,        \* runtimes, each with a thread of its own
    Offsets,        \* the cells of the buffer
    Budgets,        \* bounds: how many calls of each kind may be made
    NoThread

ASSUME ThreadsAreFinite == IsFiniteSet(Threads) /\ NoThread \notin Threads

VARIABLES
    mem,        \* per cell: 0 or 1
    fx,         \* per thread: state_ of its FutexRuntime
    cond,       \* per thread: "awake", "asleep" or "notified"
    waiter,     \* per thread: <<>> or the wait it is in
    head, lowerPri, back,   \* the ring of waiters of the buffer
    interrupt,  \* threads whose interrupt_ is set
    requesting, \* threads that a watchdog is about to wake for an interrupt
    toWake,     \* per thread: cells it has stored to and not yet woken
    arrived,    \* history: the threads in the ring, in order of arrival
    budget      \* what is left of the bounds

ring == <<head, lowerPri, back>>
futexVars == <<mem, fx, cond, waiter, ring, interrupt, requesting, toWake,
               arrived, budget>>

FutexStates == {"Idle", "Waiting", "WaitingNotifiedForInterrupt",
                "WaitingInterrupted", "Woken"}
IsWaiting(t) == fx[t] \in {"Waiting", "WaitingInterrupted",
                           "WaitingNotifiedForInterrupt"}
InWait(t) == waiter[t] # <<>>
WaitsAt(t) == waiter[t][1].offset

Spend(what) ==
    /\ budget[what] > 0
    /\ budget' = [budget EXCEPT ![what] = @ - 1]

\* a thread that runs script: its own, or that of its interrupt handler
Runs(t) == cond[t] = "awake"

-----------------------------------------------------------------------------
(* The ring of waiters.                                                      *)

Link(t) ==
    IF head = NoThread
    THEN /\ head' = t
         /\ lowerPri' = [lowerPri EXCEPT ![t] = t]
         /\ back' = [back EXCEPT ![t] = t]
    ELSE /\ lowerPri' = [lowerPri EXCEPT ![t] = head, ![back[head]] = t]
         /\ back' = [back EXCEPT ![t] = back[head], ![head] = t]
         /\ UNCHANGED head

\* mutant: the head of the ring is not moved
KeepHead(t) == head
NewHead(t) == IF head = t THEN lowerPri[t] ELSE head

Unlink(t) ==
    IF lowerPri[t] = t
    THEN head' = NoThread /\ UNCHANGED <<lowerPri, back>>
    ELSE /\ back' = [back EXCEPT ![lowerPri[t]] = back[t]]
         /\ lowerPri' = [lowerPri EXCEPT ![back[t]] = lowerPri[t]]
         /\ head' = NewHead(t)

\* wake visits one waiter after the other, from the head until it is there again
Visit[k \in 1..Cardinality(Threads)] == IF k = 1 THEN head ELSE lowerPri[Visit[k - 1]]
IsLast(k) == lowerPri[Visit[k]] = head /\ \A j \in 1..(k - 1) : lowerPri[Visit[j]] # head
Walk ==
    IF head = NoThread THEN <<>>
    ELSE [k \in 1..(CHOOSE n \in 1..Cardinality(Threads) : IsLast(n)) |-> Visit[k]]

\* mutant: the most recent waiter first
Latest(s) == [k \in 1..Len(s) |-> s[Len(s) + 1 - k]]
Visited(s) == s

-----------------------------------------------------------------------------
(* Atomics.wait.                                                             *)

\* mutant: the cell is not looked at again under the lock
AnyValue(o, v) == TRUE
HasValue(o, v) == mem[o] = v

BeginWait(t, o, v, timed) ==
    /\ Runs(t) /\ ~InWait(t) /\ toWake[t] = {}
    /\ HasValue(o, v)
    /\ Spend("wait")
    /\ Link(t)
    /\ waiter' = [waiter EXCEPT ![t] =
                    <<[offset |-> o, value |-> v, timed |-> timed]>>]
    /\ arrived' = Append(arrived, t)
    /\ fx' = [fx EXCEPT ![t] = "Waiting"]
    /\ cond' = [cond EXCEPT ![t] = "asleep"]
    /\ UNCHANGED <<mem, interrupt, requesting, toWake>>

Depart(t) ==
    \E p \in 1..Len(arrived) :
        /\ arrived[p] = t
        /\ arrived' = [k \in 1..(Len(arrived) - 1) |-> arrived[IF k < p THEN k ELSE k + 1]]

Finish(t) ==
    /\ fx' = [fx EXCEPT ![t] = "Idle"]
    /\ cond' = [cond EXCEPT ![t] = "awake"]
    /\ Unlink(t)
    /\ waiter' = [waiter EXCEPT ![t] = <<>>]
    /\ Depart(t)
    /\ UNCHANGED <<mem, interrupt, requesting, toWake, budget>>

\* the condition variable times out, and nothing else has happened
TimesOut(t) ==
    /\ cond[t] # "awake" /\ fx[t] = "Waiting" /\ waiter[t][1].timed
    /\ Finish(t)

ReturnsOK(t) ==
    /\ cond[t] = "notified" /\ fx[t] = "Woken"
    /\ Finish(t)

\* handleInterrupt runs the callback, without the lock
BeginHandler(t) ==
    /\ cond[t] = "notified" /\ fx[t] = "WaitingNotifiedForInterrupt"
    /\ fx' = [fx EXCEPT ![t] = "WaitingInterrupted"]
    /\ cond' = [cond EXCEPT ![t] = "awake"]
    /\ interrupt' = interrupt \ {t}
    /\ UNCHANGED <<mem, waiter, ring, requesting, toWake, arrived, budget>>

\* mutant: a wake that came while the handler ran is not looked at
NeverWoken(t) == FALSE
WokenMeanwhile(t) == fx[t] = "Woken"

\* the callback returns, or stops the script
EndHandler(t, goesOn) ==
    /\ Runs(t) /\ InWait(t) /\ toWake[t] = {}
    /\ IF ~goesOn \/ WokenMeanwhile(t) THEN Finish(t)
       ELSE /\ fx' = [fx EXCEPT ![t] = "Waiting"]
            /\ cond' = [cond EXCEPT ![t] = "asleep"]
            /\ UNCHANGED <<mem, waiter, ring, interrupt, requesting, toWake,
                           arrived, budget>>

-----------------------------------------------------------------------------
(* Atomics.wake, and how script uses it: it stores, then wakes.              *)

\* the first n waiters of the cell that are still waiting
Chosen(o, n) ==
    LET walk == Visited(Walk)
        eligible == {k \in DOMAIN walk : WaitsAt(walk[k]) = o /\ IsWaiting(walk[k])}
    IN {walk[k] : k \in {j \in eligible : Cardinality(eligible \cap 1..j) <= n}}

\* wake with WakeExplicit: only a thread that sleeps has to be notified
WakeAll(S) ==
    /\ fx' = [t \in Threads |-> IF t \in S THEN "Woken" ELSE fx[t]]
    /\ cond' = [t \in Threads |->
                    IF t \in S /\ fx[t] = "Waiting" THEN "notified" ELSE cond[t]]

Store(t, o) ==
    /\ Runs(t) /\ Spend("store")
    /\ mem' = [mem EXCEPT ![o] = 1 - @]
    /\ toWake' = [toWake EXCEPT ![t] = @ \cup {o}]
    /\ UNCHANGED <<fx, cond, waiter, ring, interrupt, requesting, arrived>>

\* n = 1 serves scripts that only want one waiter
Wake(t, o, n) ==
    /\ Runs(t) /\ o \in toWake[t]
    /\ \E S \in {Chosen(o, n)} : WakeAll(S)
    /\ toWake' = [toWake EXCEPT ![t] = @ \ {o}]
    /\ UNCHANGED <<mem, waiter, ring, interrupt, requesting, arrived, budget>>

WakeOne(t, o) ==
    /\ Runs(t) /\ o \notin toWake[t] /\ Spend("store")
    /\ \E S \in {Chosen(o, 1)} : WakeAll(S)
    /\ UNCHANGED <<mem, waiter, ring, interrupt, requesting, toWake, arrived>>

-----------------------------------------------------------------------------
(* Interrupts.                                                               *)

\* requestInterrupt, called by another thread, sets the flag without the lock
Request(t) ==
    /\ t \notin requesting /\ Spend("interrupt")
    /\ interrupt' = interrupt \cup {t}
    /\ requesting' = requesting \cup {t}
    /\ UNCHANGED <<mem, fx, cond, waiter, ring, toWake, arrived>>

\* mutant: a thread that does not wait is woken, too
AnyState(t) == fx[t] # "WaitingNotifiedForInterrupt"
Interruptible(t) == IsWaiting(t) /\ fx[t] # "WaitingNotifiedForInterrupt"

\* then wakes the thread if it is waiting: wake with WakeForJSInterrupt
WakeForInterrupt(t) ==
    /\ t \in requesting
    /\ IF Interruptible(t)
       THEN /\ fx' = [fx EXCEPT ![t] = "WaitingNotifiedForInterrupt"]
            /\ cond' = [cond EXCEPT ![t] =
                            IF @ = "asleep" THEN "notified" ELSE @]
       ELSE UNCHANGED <<fx, cond>>
    /\ requesting' = requesting \ {t}
    /\ UNCHANGED <<mem, waiter, ring, interrupt, toWake, arrived, budget>>

\* script polls the flag, that of a handler too
HandleInterrupt(t) ==
    /\ Runs(t) /\ t \in interrupt
    /\ interrupt' = interrupt \ {t}
    /\ UNCHANGED <<mem, fx, cond, waiter, ring, requesting, toWake, arrived, budget>>

-----------------------------------------------------------------------------
FutexInit ==
    /\ mem = [o \in Offsets |-> 0]
    /\ fx = [t \in Threads |-> "Idle"]
    /\ cond = [t \in Threads |-> "awake"]
    /\ waiter = [t \in Threads |-> <<>>]
    /\ head = NoThread
    /\ lowerPri = [t \in Threads |-> t] /\ back = [t \in Threads |-> t]
    /\ interrupt = {} /\ arrived = <<>>
    /\ requesting = {}
    /\ toWake = [t \in Threads |-> {}]
    /\ budget \in Budgets

\* what a thread that is in one of these calls is bound to do next
Proceeds(t) ==
    \/ TimesOut(t) \/ ReturnsOK(t) \/ BeginHandler(t) \/ HandleInterrupt(t)
    \/ \E goesOn \in BOOLEAN : EndHandler(t, goesOn)
    \/ \E o \in Offsets : Wake(t, o, Cardinality(Threads))

FutexNext ==
    \E t \in Threads :
        \/ Proceeds(t) \/ Request(t) \/ WakeForInterrupt(t)
        \/ \E o \in Offsets :
            \/ Store(t, o) \/ WakeOne(t, o)
            \/ \E v \in {0, 1}, timed \in BOOLEAN : BeginWait(t, o, v, timed)

FutexFairness ==
    \A t \in Threads : WF_futexVars(Proceeds(t)) /\ WF_futexVars(WakeForInterrupt(t))
FutexSpec == FutexInit /\ [][FutexNext]_futexVars
FairFutexSpec == FutexSpec /\ FutexFairness

-----------------------------------------------------------------------------
(* Properties.                                                               *)

\* A thread that sleeps on its condition variable is in state Waiting, and
\* one in a wait that does not has something left to do: wake may leave out
\* the notification of a thread that was already notified of an interrupt.
SleepersAreWaiting ==
    \A t \in Threads :
        /\ cond[t] = "asleep" => fx[t] = "Waiting"
        /\ cond[t] = "notified" => fx[t] \in {"Woken", "WaitingNotifiedForInterrupt"}
        /\ InWait(t) <=> fx[t] # "Idle"

\* Whoever sleeps at a cell found there the value it expects, or somebody
\* who has changed it since has yet to wake it: no wake comes between the
\* look at the cell and the sleep.
NoLostWake ==
    \A t \in Threads : cond[t] = "asleep" =>
        \/ mem[WaitsAt(t)] = waiter[t][1].value
        \/ \E u \in Threads : WaitsAt(t) \in toWake[u]

\* The ring holds just the threads that are in a wait, in the order in which
\* they came, whoever leaves first, and can be followed either way.
RingIsInOrder ==
    LET n == Len(arrived)
    IN  /\ {t \in Threads : InWait(t)} = {arrived[k] : k \in 1..n}
        /\ head = IF n = 0 THEN NoThread ELSE arrived[1]
        /\ \A k \in 1..n :
            LET next == arrived[IF k = n THEN 1 ELSE k + 1]
            IN  lowerPri[arrived[k]] = next /\ back[next] = arrived[k]

\* Who waits longer at a cell is woken first.
WokenInOrder ==
    [][\A j, k \in 1..Len(arrived) :
        LET t == arrived[j]
            u == arrived[k]
        IN (j < k /\ WaitsAt(t) = WaitsAt(u) /\ IsWaiting(t)
                /\ fx[u] # "Woken" /\ fx'[u] = "Woken") => fx'[t] = "Woken"]_futexVars

\* A thread that was counted as woken returns from its wait, also when it
\* was about to handle an interrupt, or is handling one.
WokenReturn == \A t \in Threads : fx[t] = "Woken" ~> ~InWait(t)

\* What requestInterrupt says: an urgent interrupt reaches Atomics.wait.
InterruptsReachWaiters ==
    \A t \in Threads : t \in interrupt ~> t \notin interrupt
=============================================================================
