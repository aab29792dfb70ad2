------------------------------ MODULE MCFutex ------------------------------
EXTENDS Futex

Calls(waits, stores, interrupts) ==
    [wait |-> waits, store |-> stores, interrupt |-> interrupts]

\* three waiters at once; and a second interrupt while one is handled
MCBudgets == {Calls(3, 1, 1), Calls(2, 1, 2)}
OneOfEach == {Calls(1, 0, 1)}
=============================================================================
