------------------------------ MODULE Partitioned ------------------------------
(***************************************************************************)
(* The partitioned mode: processes ask for reservations, a bin-packing     *)
(* scheme assigns them to CPUs, and their timers are started and stopped   *)
(* together.  stopScheduling enters the mode; the model begins behind it,  *)
(* without reservations, and with global SysClock off.                     *)
(*                                                                         *)
(* bin_packing never assigns cpu_no, which cancelBudget and do_exit read,  *)
(* so that they always treat the process as one of CPU 0; setBinPacking    *)
(* adds every process again when the CPUs are not empty; setProcessBudget  *)
(* takes a process from the registry only when its flag is set, which      *)
(* startScheduling does.  The specification is for callers that keep clear *)
(* of that: they stop before they pack again, cancel or exit when the      *)
(* process is on CPU 0 or the CPUs are empty, set a reservation anew when  *)
(* the flag is set and the CPUs are empty, and do not exit before that.    *)
(***************************************************************************)
EXTENDS BinPacking

CONSTANT
    Request          \* the [budget, period] callers ask for, in nanoseconds

ASSUME PartitionedAssumption ==
    Request \subseteq [budget : Nat, period : {p \in Nat : p >= NsPerUs}]

VARIABLES
    alive,
    registry,          \* the list of periodic_task_head
    task,              \* budget and period of the registered processes
    cpus,              \* per_cpu_list, per_cpu_list_size, cpu_util
    affinity,          \* the CPUs a process may run on
    is_budget_set,     \* the processes whose flag is 1
    period_timer,      \* the processes whose period timer is armed
    rt_priority,
    started            \* history: startScheduling has started what is on the CPUs, and
                       \* nothing was packed or stopped since

vars == <<alive, registry, task, cpus, affinity, is_budget_set, period_timer,
          rt_priority, started>>

Unset == -1
Registered == Range(registry)
OnCpu(c) == Range(cpus.list[c])
Packed == UNION {OnCpu(c) : c \in Cpu}

\* Every variable has its type; the counters are within the number of processes.
TypeOK ==
    /\ alive \subseteq Process
    /\ registry \in Seq(Process)
    /\ task \in [budget : [Process -> {r.budget : r \in Request} \cup {Unset}],
                 period : [Process -> {r.period : r \in Request} \cup {Unset}]]
    /\ DOMAIN cpus = {"list", "size", "util"}
    /\ \A c \in Cpu : /\ cpus.list[c] \in Seq(Process)
                      /\ cpus.size[c] \in 0 .. Cardinality(Process)
                      /\ cpus.util[c] \in Int
    /\ affinity \in [Process -> SUBSET Cpu]
    /\ is_budget_set \subseteq Process /\ period_timer \subseteq Process
    /\ rt_priority \in [Process -> 0 .. Cardinality(Process)]
    /\ started \in BOOLEAN

EmptyCpus == [list |-> [c \in Cpu |-> <<>>], size |-> [c \in Cpu |-> 0],
              util |-> [c \in Cpu |-> SCALE_UP_FACTOR]]

Init ==
    /\ alive = Process
    /\ registry = <<>>
    /\ task = [budget |-> [p \in Process |-> Unset], period |-> [p \in Process |-> Unset]]
    /\ cpus = EmptyCpus
    /\ affinity = [p \in Process |-> Cpu]
    /\ is_budget_set = {} /\ period_timer = {}
    /\ rt_priority = [p \in Process |-> 0]
    /\ started = FALSE

-----------------------------------------------------------------------------

clear_cpu_lists(held) ==
    [list |-> [c \in Cpu |-> IF held.size[c] > 0 THEN <<>> ELSE held.list[c]],
     size |-> EmptyCpus.size, util |-> EmptyCpus.util]

\* Mutant: an empty CPU is counted down, too.
del_unguarded(p, c) ==
    [cpus EXCEPT !.size[c] = @ - 1, !.list = [d \in Cpu |-> RemoveFirst(@[d], p)]]

\* list_del takes p from whichever list it is in; the counter is that of c, and
\* the utilization stays reduced.
del_task_cpu(p, c) ==
    IF cpus.size[c] > 0
    THEN [cpus EXCEPT !.size[c] = @ - 1, !.list = [d \in Cpu |-> RemoveFirst(@[d], p)]]
    ELSE cpus

\* The priorities of the processes on the CPUs cs, which hold lists.
set_rt_priorities_per_cpu(lists, cs, priority) ==
    LET set == UNION {Range(lists[c]) : c \in cs}
        rank(p) == LET c == CHOOSE c \in cs : p \in Range(lists[c])
                       pos == CHOOSE i \in DOMAIN lists[c] : lists[c][i] = p
                   IN  Rank(lists[c], pos, task.period)
    IN  [p \in Process |-> IF p \in set THEN rank(p) ELSE priority[p]]

\* No test of admission, no flag and no timer: those come with startScheduling.
SetProcessBudget(p, budget, period) ==
    LET others == IF p \in is_budget_set THEN RemoveFirst(registry, p) ELSE registry
        later == SelectInSeq(others, LAMBDA q : task.period[q] > period)
    IN  /\ p \in alive
        /\ budget < period
        /\ task' = [budget |-> [task.budget EXCEPT ![p] = budget],
                    period |-> [task.period EXCEPT ![p] = period]]
        /\ registry' = InsertAt(others, IF later = 0 THEN Len(others) + 1 ELSE later, p)
        /\ period_timer' = period_timer \ {p}
        /\ UNCHANGED <<alive, cpus, affinity, is_budget_set, rt_priority, started>>

\* Affinities stay as they were set when the packing fails.
SetBinPacking(scheme) ==
    \E packed \in {bin_packing(task, registry, scheme, cpus, affinity)} :
        /\ cpus' = IF packed.failed THEN clear_cpu_lists(packed.cpus) ELSE packed.cpus
        /\ affinity' = packed.affinity
        /\ started' = FALSE
        /\ UNCHANGED <<alive, registry, task, is_budget_set, period_timer, rt_priority>>

\* Mutant: a process that is flagged already is passed over.
StartSchedulingNew ==
    /\ is_budget_set' = is_budget_set \cup Packed
    /\ period_timer' = period_timer \cup (Packed \ is_budget_set)
    /\ rt_priority' = set_rt_priorities_per_cpu(cpus.list, Cpu, rt_priority)
    /\ started' = (Packed # {})
    /\ UNCHANGED <<alive, registry, task, cpus, affinity>>

StartScheduling ==
    /\ is_budget_set' = is_budget_set \cup Packed
    /\ period_timer' = period_timer \cup Packed
    /\ rt_priority' = set_rt_priorities_per_cpu(cpus.list, Cpu, rt_priority)
    /\ started' = (Packed # {})
    /\ UNCHANGED <<alive, registry, task, cpus, affinity>>

\* hrtimer_try_to_cancel leaves a timer that is in its callback, which arms it again:
\* those of lost.  The flags stay: a stopped process is still charged and throttled,
\* and unless its timer was left nothing wakes it up.
StopScheduling ==
    /\ registry # <<>>
    /\ \E lost \in SUBSET (period_timer \cap Registered) :
         period_timer' = period_timer \ (Registered \ lost)
    /\ cpus' = clear_cpu_lists(cpus)
    /\ started' = FALSE
    /\ UNCHANGED <<alive, registry, task, affinity, is_budget_set, rt_priority>>

\* Mutant: the CPU's priorities are left.
CancelBudgetUnranked(p) ==
    /\ p \in alive
    /\ is_budget_set' = is_budget_set \ {p}
    /\ period_timer' = period_timer \ {p}
    /\ task' = [budget |-> [task.budget EXCEPT ![p] = Unset],
                period |-> [task.period EXCEPT ![p] = Unset]]
    /\ registry' = RemoveFirst(registry, p)
    /\ cpus' = del_task_cpu(p, 0)
    /\ rt_priority' = [rt_priority EXCEPT ![p] = 0]
    /\ UNCHANGED <<alive, affinity, started>>

CancelBudget(p) ==
    /\ p \in alive
    /\ is_budget_set' = is_budget_set \ {p}
    /\ period_timer' = period_timer \ {p}
    /\ task' = [budget |-> [task.budget EXCEPT ![p] = Unset],
                period |-> [task.period EXCEPT ![p] = Unset]]
    /\ registry' = RemoveFirst(registry, p)
    /\ cpus' = del_task_cpu(p, 0)
    /\ rt_priority' = set_rt_priorities_per_cpu(cpus'.list, {0},
                                                [rt_priority EXCEPT ![p] = 0])
    /\ UNCHANGED <<alive, affinity, started>>

\* The task struct is freed.
DoExit(p) ==
    /\ p \in alive
    /\ alive' = alive \ {p}
    /\ is_budget_set' = is_budget_set \ {p}
    /\ IF p \in is_budget_set
       THEN /\ period_timer' = period_timer \ {p}
            /\ registry' = RemoveFirst(registry, p)
            /\ cpus' = del_task_cpu(p, 0)
            /\ rt_priority' = set_rt_priorities_per_cpu(cpus'.list, {0},
                                                        [rt_priority EXCEPT ![p] = 0])
       ELSE UNCHANGED <<period_timer, registry, cpus, rt_priority>>
    /\ task' = [budget |-> [task.budget EXCEPT ![p] = Unset],
                period |-> [task.period EXCEPT ![p] = Unset]]
    /\ affinity' = [affinity EXCEPT ![p] = Cpu]
    /\ UNCHANGED started

-----------------------------------------------------------------------------

\* The CPUs are empty, or p is on CPU 0.
Removable(p) == Packed = {} \/ p \in OnCpu(0)

Next ==
    \/ \E p \in Process, r \in Request :
         /\ Packed = {}
         /\ p \in Registered => p \in is_budget_set
         /\ SetProcessBudget(p, r.budget, r.period)
    \/ \E scheme \in Scheme : cpus = EmptyCpus /\ SetBinPacking(scheme)
    \/ StartScheduling
    \/ StopScheduling
    \/ \E p \in Registered : Removable(p) /\ CancelBudget(p)
    \/ \E p \in Process : /\ p \in Registered => p \in is_budget_set /\ Removable(p)
                          /\ DoExit(p)

Spec == Init /\ [][Next]_vars

-----------------------------------------------------------------------------
(***************************************************************************)
(* Properties.                                                             *)
(***************************************************************************)

\* Each CPU counts what it holds, holds it by period, and holds only registered
\* processes, which no other CPU holds and which may run there: through packings
\* that fail half way, stops, cancellations and exits.
CpuListsConsistent ==
    \A c \in Cpu :
        LET list == cpus.list[c]
        IN  /\ cpus.size[c] = Len(list)
            /\ Cardinality(OnCpu(c)) = Len(list)
            /\ OnCpu(c) \subseteq Registered \cap alive
            /\ \A d \in Cpu \ {c} : OnCpu(c) \cap OnCpu(d) = {}
            /\ \A p \in OnCpu(c) : c \in affinity[p]
            /\ \A i \in 2 .. Len(list) : task.period[list[i - 1]] <= task.period[list[i]]

\* Whatever scheme packed them and whoever has left since, the processes of each CPU
\* meet their deadlines when the shorter period goes first.
CpusMeetDeadlines ==
    \A c \in Cpu : MeetsDeadlines(TaskArray(task, cpus.list[c]))

\* cpu_util, by which best and worst fit choose, never promises more room than the
\* CPU has left.
RoomNotOverstated ==
    \A c \in Cpu : cpus.util[c] <= SCALE_UP_FACTOR
                     - SumFunction([p \in OnCpu(c) |-> Util(task, p)])

\* From startScheduling to the next stop, every process on a CPU is enforced and, when
\* it is throttled, woken up: its flag is set and its period timer runs, also when it
\* was stopped, packed and started before.
PackedIsReplenished == started => Packed \subseteq is_budget_set \cap period_timer

\* Once started the priorities asked for number the distinct periods of each CPU from
\* 1 without a gap, also behind a cancellation or an exit, and whatever priorities the
\* processes kept from an earlier packing.
RanksFollowPeriodsPerCpu ==
    started => \A c \in Cpu :
        /\ \A p, q \in OnCpu(c) :
             rt_priority[p] < rt_priority[q] <=> task.period[p] < task.period[q]
        /\ LET ranks == {rt_priority[p] : p \in OnCpu(c)}
           IN  ranks = 1 .. Cardinality(ranks)
=============================================================================
