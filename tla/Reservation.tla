----------------------------- MODULE Reservation -----------------------------
(***************************************************************************)
(* What a reservation promises, without timers, run queues, flags or       *)
(* sleeping states: a task may consume its budget in each of its periods,  *)
(* and no more unless it escaped its throttle; an escape lasts no longer   *)
(* than the task keeps the CPU.                                            *)
(*                                                                         *)
(* BudgetEnforcement implements this specification (its Abstract).         *)
(***************************************************************************)
EXTENDS Integers

CONSTANTS
    Task,       \* the processes that hold a reservation
    Other,      \* any other task of the CPU
    Period,     \* the period of each reservation, in ticks
    MaxTime     \* every total saturates here

VARIABLES
    running,    \* who has the CPU
    budget,     \* the budget of each reservation, fixed when it is made
    used,       \* the CPU time consumed since the last replenishment
    until,      \* the time until the next replenishment
    escaped     \* the tasks that run though they ought to be throttled

vars == <<running, budget, used, until, escaped>>

Saturate(n) == IF n > MaxTime THEN MaxTime ELSE n

Init ==
    /\ running = Other
    /\ budget \in [Task -> 1 .. MaxTime]
    /\ used = [t \in Task |-> 0]
    /\ until = Period
    /\ escaped = {}

\* A unit of time passes; it is charged to whoever runs, who must be entitled
\* to it.  No replenishment is overdue.
Tick ==
    /\ \A t \in Task : until[t] > 0
    /\ running \in Task \ escaped => used[running] < budget[running]
    /\ used' = [t \in Task |-> IF t = running THEN Saturate(used[t] + 1) ELSE used[t]]
    /\ until' = [t \in Task |-> until[t] - 1]
    /\ UNCHANGED <<running, budget, escaped>>

\* The scheduler gives the CPU to next, or enforces a throttle again.
Dispatch(next) ==
    /\ running' = next
    /\ escaped' = escaped \ {running}
    /\ UNCHANGED <<budget, used, until>>

\* The running task escapes its throttle.
Escape ==
    /\ running \in Task
    /\ escaped' = escaped \cup {running}
    /\ UNCHANGED <<running, budget, used, until>>

\* At the end of a period, and only then, a new one begins with the whole budget.
Replenish(t) ==
    /\ until[t] = 0
    /\ used' = [used EXCEPT ![t] = 0]
    /\ until' = [until EXCEPT ![t] = Period[t]]
    /\ escaped' \in {escaped, escaped \cup ({t} \cap {running})}
    /\ UNCHANGED <<running, budget>>

Next ==
    \/ Tick
    \/ \E next \in Task \cup {Other} : Dispatch(next)
    \/ Escape
    \/ \E t \in Task : Replenish(t)

Spec == Init /\ [][Next]_vars

\* Every reservation is replenished again and again.
Replenishments == \A t \in Task : []<><<Replenish(t)>>_vars
=============================================================================
