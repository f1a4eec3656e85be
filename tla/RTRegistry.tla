------------------------------ MODULE RTRegistry ------------------------------
(***************************************************************************)
(* The control plane of the reservation extension outside bin packing: the *)
(* registry of reserved processes, its admission test and the priorities   *)
(* derived from it.                                                        *)
(*                                                                         *)
(* The registry is an intrusive doubly linked list: its links are fields   *)
(* of the task structs, which fork copies and list_del poisons, so the     *)
(* list is modelled link by link.  A link that is followed while it is     *)
(* NULL, poisoned or into a freed task struct is a page fault, after which *)
(* nothing is modelled.  setProcessBudget, cancelBudget and the hook in    *)
(* do_exit hold tasklist_lock throughout and are single steps; what they   *)
(* do to timers and to the CPU is the subject of BudgetEnforcement.        *)
(***************************************************************************)
EXTENDS RTAdmission, TLC

CONSTANTS
    Process,         \* processes, of one thread each
    Anchor,            \* periodic_task_head
    Null, Poison,    \* the values of a link outside a list
    Cycles,          \* the budgets callers ask for, in cycles
    Periods,         \* the periods callers ask for, in nanoseconds
    MaxFreq          \* the highest frequency, in cycles per microsecond

ASSUME RegistryAssumption ==
    /\ Anchor \notin Process
    /\ {Null, Poison} \cap (Process \cup {Anchor}) = {}
    /\ Cycles \subseteq Nat
    /\ Periods \subseteq {p \in Nat : p >= NsPerUs}
    /\ MaxFreq \in Nat \ {0}

ASSUME ProcessAssumption == IsFiniteSet(Process)

VARIABLES
    alive,             \* the processes that exist
    list,              \* the registry
    is_budget_set,     \* the processes whose flag is 1
    time_period, min_budget_time,
    fifo,              \* the processes whose policy is SCHED_FIFO
    rt_priority,       \* the priority asked for; larger is more urgent
    prio               \* the priority the run queue uses; smaller is more urgent

vars == <<alive, list, is_budget_set, time_period, min_budget_time, fifo,
          rt_priority, prio>>

Unset == -1
MAX_RT_PRIO == 100
DEFAULT_PRIO == 120
Node == Process \cup {Anchor}
Link == Node \cup {Null, Poison}

\* Every variable has its type; priorities are within the range of the kernel.
TypeOK ==
    /\ alive \subseteq Process
    /\ list \in [next : [Node -> Link], prev : [Node -> Link],
                 size : 0 .. Cardinality(Process), fault : BOOLEAN]
    /\ is_budget_set \subseteq Process
    /\ time_period \in [Process -> Periods \cup {Unset}]
    /\ min_budget_time \in [Process -> Nat \cup {Unset}]
    /\ fifo \subseteq Process
    /\ rt_priority \in [Process -> 0 .. MAX_RT_PRIO - 1]
    /\ prio \in [Process -> 0 .. DEFAULT_PRIO]

-----------------------------------------------------------------------------
(***************************************************************************)
(* The linked list.                                                        *)
(***************************************************************************)

Valid(link) == link \in alive \cup {Anchor}

\* What list_for_each visits, from the head to the head.
Traversal(l) ==
    LET visited[k \in 0 .. Cardinality(Process)] ==
          IF k = 0 THEN <<>>
          ELSE LET before == visited[k - 1]
                   at == IF before = <<>> THEN Anchor ELSE Last(before)
               IN  IF l.next[at] \in Process THEN Append(before, l.next[at]) ELSE before
    IN  visited[Cardinality(Process)]

\* Mutant: the successor keeps its link back to n.
UnlinkForward(l, n) ==
    [l EXCEPT !.next = [@ EXCEPT ![l.prev[n]] = l.next[n], ![n] = Poison],
              !.prev = [@ EXCEPT ![n] = Poison]]

\* list_del(n).
Unlink(l, n) ==
    IF Valid(l.next[n]) /\ Valid(l.prev[n])
    THEN [l EXCEPT !.next = [@ EXCEPT ![l.prev[n]] = l.next[n], ![n] = Poison],
                   !.prev = [@ EXCEPT ![l.next[n]] = l.prev[n], ![n] = Poison]]
    ELSE [l EXCEPT !.fault = TRUE]

\* list_add_tail(n, at).
LinkBefore(l, n, at) ==
    [l EXCEPT !.next = [@ EXCEPT ![n] = at, ![l.prev[at]] = n],
              !.prev = [@ EXCEPT ![n] = l.prev[at], ![at] = n]]

\* Mutant: the counter is not decremented.
del_uncounted(l, n) == IF l.size > 0 THEN Unlink(l, n) ELSE l

del_periodic_task(l, n) ==
    IF l.size > 0 THEN Unlink([l EXCEPT !.size = @ - 1], n) ELSE l

\* Mutant: before the first process with a shorter period.
add_descending(l, n, period) ==
    LET empty == [l EXCEPT !.next[Anchor] = Anchor, !.prev[Anchor] = Anchor]
        initialized == IF l.size = 0 THEN empty ELSE l
        order == Traversal(initialized)
        at == SelectInSeq(order, LAMBDA t : period[t] < period[n])
    IN  LinkBefore([initialized EXCEPT !.size = @ + 1], n,
                   IF at = 0 THEN Anchor ELSE order[at])

\* Before the first process with a longer period.
add_periodic_task(l, n, period) ==
    LET empty == [l EXCEPT !.next[Anchor] = Anchor, !.prev[Anchor] = Anchor]
        initialized == IF l.size = 0 THEN empty ELSE l
        order == Traversal(initialized)
        at == SelectInSeq(order, LAMBDA t : period[t] > period[n])
    IN  IF l.fault THEN l
        ELSE LinkBefore([initialized EXCEPT !.size = @ + 1], n,
                        IF at = 0 THEN Anchor ELSE order[at])

-----------------------------------------------------------------------------
(***************************************************************************)
(* Priorities.                                                             *)
(***************************************************************************)

\* rt_priority is overwritten before sched_setscheduler_nocheck compares it with
\* the new priority: a task that is in SCHED_FIFO already keeps its prio.
set_rt_priorities(l, fifo_, prio_, rt_, period) ==
    LET order == Traversal(l)
        rank(t) == Rank(order, CHOOSE i \in DOMAIN order : order[i] = t, period)
        set == IF l.size > 0 THEN Range(order) ELSE {}
    IN  /\ rt_priority' = [t \in Process |-> IF t \in set THEN rank(t) ELSE rt_[t]]
        /\ prio' = [t \in Process |->
                      IF t \in set \ fifo_ THEN MAX_RT_PRIO - 1 - rank(t)
                      ELSE prio_[t]]
        /\ fifo' = fifo_ \cup set

-----------------------------------------------------------------------------
(***************************************************************************)
(* System calls and life cycle.                                            *)
(***************************************************************************)

\* The admitted reservations, in the order of the list.
Reservations(l) ==
    LET order == Traversal(l)
    IN  [i \in DOMAIN order |-> [budget |-> min_budget_time[order[i]],
                                 period |-> time_period[order[i]]]]

task_budget(cycles) == (cycles \div MaxFreq) * NsPerUs

\* A process that is alive and gets to run: __schedule puts one that is flagged
\* and has no budget to sleep each time it is switched in.
Runs(t) == t \in alive /\ (t \in is_budget_set => min_budget_time[t] # Unset)

\* A refused call changes nothing.  The old reservation of t is still on the
\* list when the new one is tested.
SetProcessBudget(t, cycles, period) ==
    LET l == IF t \in is_budget_set THEN del_periodic_task(list, t) ELSE list
    IN  /\ t \in alive
        /\ task_budget(cycles) < period
        /\ check_admission(Reservations(list), task_budget(cycles), period)
        /\ is_budget_set' = is_budget_set \cup {t}
        /\ time_period' = [time_period EXCEPT ![t] = period]
        /\ min_budget_time' = [min_budget_time EXCEPT ![t] = task_budget(cycles)]
        /\ list' = add_periodic_task(l, t, time_period')
        /\ set_rt_priorities(list', fifo, prio, rt_priority, time_period')
        /\ UNCHANGED alive

\* Nothing asks whether t has a reservation.
CancelBudget(t) ==
    /\ t \in alive
    /\ is_budget_set' = is_budget_set \ {t}
    /\ time_period' = [time_period EXCEPT ![t] = Unset]
    /\ list' = del_periodic_task(list, t)
    /\ set_rt_priorities(list', fifo \ {t},
                         IF t \in fifo THEN [prio EXCEPT ![t] = DEFAULT_PRIO] ELSE prio,
                         IF t \in fifo THEN [rt_priority EXCEPT ![t] = 0] ELSE rt_priority,
                         time_period')
    /\ UNCHANGED <<alive, min_budget_time>>

\* Some process that gets to run, init, always lives.
DoExit(t) ==
    /\ Runs(t)
    /\ \E init \in Process \ {t} : Runs(init)
    /\ alive' = alive \ {t}
    /\ is_budget_set' = is_budget_set \ {t}
    /\ IF t \in is_budget_set
       THEN /\ list' = del_periodic_task(list, t)
            /\ set_rt_priorities(list', fifo, prio, rt_priority, time_period)
       ELSE UNCHANGED <<list, fifo, prio, rt_priority>>
    /\ UNCHANGED <<time_period, min_budget_time>>

\* dup_task_struct copies the whole task struct; __sched_fork resets budgets.
Fork(parent, t) ==
    /\ Runs(parent) /\ t \notin alive
    /\ alive' = alive \cup {t}
    /\ is_budget_set' = IF parent \in is_budget_set THEN is_budget_set \cup {t}
                        ELSE is_budget_set \ {t}
    /\ list' = [list EXCEPT !.next[t] = list.next[parent],
                            !.prev[t] = list.prev[parent]]
    /\ time_period' = [time_period EXCEPT ![t] = time_period[parent]]
    /\ min_budget_time' = [min_budget_time EXCEPT ![t] = Unset]
    /\ fifo' = IF parent \in fifo THEN fifo \cup {t} ELSE fifo \ {t}
    /\ rt_priority' = [rt_priority EXCEPT ![t] = rt_priority[parent]]
    /\ prio' = [prio EXCEPT ![t] = prio[parent]]

-----------------------------------------------------------------------------
(***************************************************************************)
(* The specification.  The code checks neither that the process it cancels *)
(* has a reservation nor that it has one of its own: the child of a        *)
(* reserved process inherits flag and links and no budget.  A caller who   *)
(* cancels only what was granted, and leaves such a child alone, is        *)
(* disciplined.                                                            *)
(***************************************************************************)

Init ==
    /\ alive = Process
    /\ list = [next |-> [n \in Node |-> Null], prev |-> [n \in Node |-> Null],
               size |-> 0, fault |-> FALSE]
    /\ is_budget_set = {}
    /\ time_period = [t \in Process |-> Unset]
    /\ min_budget_time = [t \in Process |-> Unset]
    /\ fifo = {}
    /\ rt_priority = [t \in Process |-> 0]
    /\ prio = [t \in Process |-> DEFAULT_PRIO]

\* The processes with a reservation of their own.
Reserved == {t \in is_budget_set : min_budget_time[t] # Unset}

DisciplinedNext ==
    \/ \E t \in (Process \ is_budget_set) \cup Reserved, cycles \in Cycles, period \in Periods :
         SetProcessBudget(t, cycles, period)
    \/ \E t \in Reserved : CancelBudget(t)
    \/ \E t \in Process : DoExit(t)
    \/ \E parent, t \in Process : Fork(parent, t)

DisciplinedSpec == Init /\ [][DisciplinedNext]_vars

-----------------------------------------------------------------------------
(***************************************************************************)
(* Properties.                                                             *)
(***************************************************************************)

\* The list holds each process with a reservation of its own once and nothing
\* else, can be walked both ways, has the size the counter says, and no link was
\* followed that is not one: whatever was added, moved, removed, exited or forked
\* before, the children that carry a copy of their parent's links included.
RegistryConsistent ==
    LET order == Traversal(list)
    IN  /\ ~list.fault
        /\ list.size = Len(order)
        /\ Range(order) = Reserved
        /\ Reserved \subseteq alive
        /\ Cardinality(Reserved) = Len(order)
        /\ order # <<>> =>
             /\ list.prev[order[1]] = Anchor /\ list.prev[Anchor] = Last(order)
             /\ \A i \in 2 .. Len(order) : list.prev[order[i]] = order[i - 1]

\* rt_test and set_rt_priorities rely on the order of the list: by period.
SortedByPeriod ==
    LET order == Traversal(list)
    IN  \A i \in 2 .. Len(order) :
            time_period[order[i - 1]] <= time_period[order[i]]

\* Served rate-monotonically, the admitted reservations meet their deadlines in
\* nanoseconds, though the test is in whole microseconds, orders ties otherwise
\* and is not repeated when a reservation is lowered, cancelled or exits.
AdmittedMeetDeadlines == MeetsDeadlines(Reservations(list))

\* The priorities asked for number the distinct periods from 1 without a gap.
RanksFollowPeriods ==
    /\ \A t, u \in Reserved :
         rt_priority[t] < rt_priority[u] <=> time_period[t] < time_period[u]
    /\ LET ranks == {rt_priority[t] : t \in Reserved}
       IN  ranks = 1 .. Cardinality(ranks)

-----------------------------------------------------------------------------
(***************************************************************************)
(* The abstract specification.                                             *)
(***************************************************************************)

Holds(t) == [budget |-> min_budget_time[t], period |-> time_period[t]]

\* The reservations that a walk along the links finds.
Listed == [t \in Range(Traversal(list)) |-> Holds(t)]

Abstract == INSTANCE ReservationSet
            WITH granted <- Listed,
                 Request <- {[budget |-> task_budget(cycles), period |-> period] :
                                cycles \in Cycles, period \in Periods}

\* The registry implements ReservationSet: each call and each fork or exit changes
\* the reservation of one process or of none, and a new reservation is only taken
\* if it fits, in nanoseconds, with those that a walk along the links then finds.
ImplementsReservationSet == Abstract!Spec

-----------------------------------------------------------------------------
(***************************************************************************)
(* What comments of the code say, and the code does not do.                *)
(***************************************************************************)

\* sched.c:950, "Checks whether the new RT task can be admitted to the system or
\* not": admitted tasks meet their deadlines under the priorities in effect.
DeadlinesMetInEffect ==
    LET order == SortSeq(Traversal(list), LAMBDA t, u : prio[t] < prio[u])
    IN  MeetsDeadlines([i \in DOMAIN order |->
                          [budget |-> min_budget_time[order[i]],
                           period |-> time_period[order[i]]]])
=============================================================================
