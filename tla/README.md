# Verification of the Android RealTimeExtensions

This directory models the real-time reservation extension that the repository
adds to the Linux kernel under `src/tegra`: a process declares a CPU *budget*
per *period*, the kernel tests whether the set of reservations is schedulable,
enforces the budgets with a pair of high-resolution timers per process, assigns
priorities, and scales the processor's frequency. The extension is about two
thousand lines in `kernel/sched.c`, hooks in `__schedule`, `__sched_fork` and
`do_exit`, and one directory per system call. The rest of the repository is the
stock kernel; it is modelled only where the extension calls it.

## The system

| Component | State | Operations | Correct when |
|---|---|---|---|
| Budget enforcement (`sched.c` 771-842, 5942-6146; `hrtimer.c`) | per task: `state`, on the run queue, `is_budget_set`, `budget_time`, `compute_time`, `exec_time`, `budget_timer`, `period_timer` | `__schedule` charges the task it switches out, stamps the one it switches in and arms its budget timer; `budget_timer_callback` puts the task to sleep; `period_timer_callback` replenishes and wakes it | no task consumes more than its budget per period, none is throttled earlier, each throttled one is woken |
| Reservation syscalls (`setProcessBudget`, `cancelBudget`, `waitUntilNextPeriod`) | the same, under `tasklist_lock` | make, change, remove a reservation; give up the rest of a period | timers, flag, list and state agree when a call returns, whatever it raced with |
| Registry and priorities (`sched.c` 1012-1152, `list.h`) | `periodic_task_head`, `periodic_tasks_size`, `periodic_task` links in the task structs, `rt_priority`, `prio` | add in period order, delete, number the periods | the list holds the reserved processes, once, in order |
| Admission control (`sched.c` 897-1007) | none | response-time test | accepts exactly the schedulable sets |
| Life cycle hooks (`__sched_fork`, `do_exit`) | the task struct | copy, remove | a child starts without, an exit leaves no, reservation |
| Partitioned mode (`setBinPacking`, `startScheduling`, `stopScheduling`, `cancelBinPacking`; `bin_packing`, `sched.c` 259-767) | `per_cpu_list`, `per_cpu_list_size`, `cpu_util`, affinities, `is_bin_packing_set` | pack the tasks onto CPUs, start and stop all | every task on one CPU, each CPU schedulable |
| Frequency scaling (`sched.c` 1155-1810, `setPMScheme`, `setGlobalSysClock`) | `power_scheme`, `alpha`, `pmclock_freq`, `is_freq_lock_taken` | sysclock, pmclock, `apply_sysclock` | the lowest frequency at which all deadlines hold |
| Event log (`log_data_point`, `setLogging`, `getLog`) | buffer, offset, limit | append at each switch, read, free | no access after free, no overrun |
| Queries, display brightness | none | | |

The components meet in the task struct. `__schedule` runs under `rq->lock` and
takes `task_spin_lock` around the extension's fields; the callbacks run in
interrupt context under `task_spin_lock`; the syscalls run under `tasklist_lock`
alone, which the callbacks do not take, and `__schedule` only to end a full log. So a
syscall on one CPU interleaves
with `__schedule` and with callbacks on others at every field access, and the
timers' own protocol (`hrtimer_cancel` waits for a callback,
`hrtimer_try_to_cancel` does not) is all that orders them. What is hard is
therefore concurrency: throttle marks that are wiped before they take effect,
flags that change between being read and being acted on, timers restarted while
their callback runs, lock orders. PROJECT.json lists these hazards at their lines.

## Modules

* `BudgetEnforcement` - the data plane, and the syscalls as seen by it, on one
  CPU. `curr`, `pc` are `rq->curr` and the place within `__schedule`
  (`SchedPick` deactivates, picks and charges; `SchedStamp`, `SchedCheck` and
  `SchedArm` are the three places where it looks at the next task);
  `budget_left`/`period_left` are the queued timers and `..._firing` those in
  `HRTIMER_STATE_CALLBACK`. `admin` is the program counter of the syscall that
  holds `tasklist_lock`; a syscall is cut where another CPU can observe the
  difference. `used` and `spared` are history variables: the CPU time really
  consumed since the last replenishment, and the tasks whose throttle mark was
  wiped. Three specifications share the actions: `SteadySpec` (reservations are
  made), `UniSpec` (setProcessBudget and cancelBudget, from boot), `Spec` (the
  partitioned mode too).
* `Reservation` - what a reservation promises, without timers, flags, run queues
  or sleeping states: consume the budget in each period, no more unless the task
  escaped its throttle, and replenishment at the end of the period and only then.
  `BudgetEnforcement` implements it (`Abstract`, the instance with `used` for the
  consumption, `Until` for the time to the end of the period and `Escaped` for the
  tasks that run unwatched).
* `BudgetEnforcementProofs` - inductive invariants, theorems and the refinement of
  `Reservation`.
* `RTAdmission` - the admission test and the ranks as functions, with two
  references: time-demand analysis, and a unit-by-unit fixed-priority processor.
* `RTRegistry` - the registry as a linked structure, `set_rt_priorities`,
  `setProcessBudget`, `cancelBudget`, fork and exit; it extends `RTAdmission`.
  `DisciplinedSpec` is the use the code presumes: a caller cancels only what was
  granted, and leaves the child of a reserved process, which inherits the flag and
  the links and no budget, alone. Some process that can run always lives.
* `ReservationSet` - what the registry promises its callers, without links, counters,
  flags, an order or a test: who holds which reservation. One is granted only if all of
  them then fit the processor (time-demand analysis over the set, in nanoseconds), and a
  grant or a withdrawal changes nobody else's. `RTRegistry` implements it (`Abstract`,
  the instance with `Listed`, what a walk along the links finds).
* `SysClock` - `sysclock`, `inflated_freq` and `pmclock` as functions (it extends
  `RTAdmission`), with the least sufficient frequency as the reference. `AlphaTurn` is
  one turn of sysclock's nested loops, over the state (C, slack, alpha, `in_bzp`).
  `SysClockProofs` has the theorems about `sysclock`.
* `BinPacking` - `bin_packing` with its five schemes, the sort by utilization, the
  per-CPU admission test and `add_task_to_cpu` as functions of what the CPUs hold;
  it extends `SysClock`.
* `Partitioned` - the partitioned mode as a state machine on top of `BinPacking`:
  the registry, the CPUs' lists, counters and utilizations, affinities, flags,
  period timers and ranks; one action per syscall and `do_exit`. Here the registry
  is a sequence: its links are `RTRegistry`'s subject. A stop may fail to cancel any of
  the timers: `hrtimer_try_to_cancel` leaves one that is in its callback, which arms it
  again. `started` is a history variable: what is on the CPUs was started, and nothing
  was stopped or packed since.
* `EventLog` - the scheduling log of one process: the three unlocked reads of
  `is_log_enabled` in `__schedule`, `log_data_point`, `setLogging` cut where the
  flag is set before the offset, `getLog` cut between copy and free, and the user
  that gets the signal. `EventLogProofs` has its invariants and theorems.
* `LockOrder` - `__schedule` with the log it writes, the callbacks and the syscalls
  reduced to the locks they take. An entry that finds the log full takes `tasklist_lock`
  and signals the user (`siglock`, and the locks of a wake-up) with `task_spin_lock` and
  `rq->lock` held. `LockOrderProofs` has its invariant and theorems.
* `SumProofs`, `AdmissionProofs` - sums, recursion and induction, and on them the
  exactness of the admission test. `RegistryProofs` and `PartitionedProofs` - the
  inductive invariants and theorems of `RTRegistry` and `Partitioned`; the second
  also proves what `MCPartitioned` asks of the algorithms.
* `MC...` - instances for TLC.

Operators called "mutant" in a comment are plausible wrong versions of the
definition after them. No specification uses them; each shows that a property
can fail.

### Abstractions

Processes have one thread (the code's `while_each_thread` loops act on the group
leader throughout; threads of a group are not modelled). One CPU's view: tasks do
not migrate in `BudgetEnforcement`. `pick_next_task` is a free choice, so results
do not depend on priorities. Time is discrete, kernel code takes none, and an
interrupt is taken before the next tick; a timestamp is its age. The per-task
loops of `apply_sysclock`, `apply_pmclock` and `stopScheduling` are one step each.
The frequency is a free choice of a factor for each budget. In
`BudgetEnforcement` admission is a free choice; `RTRegistry` has the real test.
`waitUntilNextPeriod` is called for the caller itself. A signal that interrupts
a sleep is a wake-up. `is_bin_packing_set` is read once per cut of a syscall.
`BudgetEnforcement` continues past the BUG_ON of `__run_hrtimer`, and takes the
callbacks as atomic, which they are for everyone who takes `task_spin_lock`; that
the same lock can deadlock is shown by `LockOrder`.
In `Reservation` and its refinement only `SteadySpec` takes part: reservations are
made, and changed by no syscall.

`Partitioned` is for callers that keep clear of two defects of the code, which
would break every property at once: `bin_packing` never assigns `cpu_no`, so
`cancelBudget` and `do_exit` act on CPU 0, and a packing adds to whatever the CPUs
hold. So processes are packed onto empty CPUs, and cancelled or exit when they are on
CPU 0 or nothing is packed; a reservation is set anew only when the flag is set and
nothing is packed, and a process that asked does not exit before it was started. All
of that is in the guards of `Next`; the actions themselves are the whole calls.
Global SysClock is off there. Each syscall is one step: they
run under `tasklist_lock` but for `setBinPacking`, which takes no lock. In `SysClock`
budgets are positive, integers unbounded, and the table of frequencies is left out.

`bin_packing` also stores the number of the bin in `on_cpu` (sched.c 542, 579, 602, 638,
686, 737), where the scheduler keeps whether a task runs. No call of the partitioned mode
reads it, and it is left out of `BinPacking`; the effect is on wake-ups, and it is listed
as a hazard. `try_to_wake_up` tests the field at line 4337. It spins only where the
architecture switches contexts with interrupts disabled; ARM defines
`__ARCH_WANT_INTERRUPTS_ON_CTXSW` (arch/arm/include/asm/system.h 232), and there the loop
wakes the task through `ttwu_activate_remote` (4264-4279) at its first turn. So a sleeping
process packed on bin 1 or above is woken, but on the run queue it slept on, past
`select_task_rq` and its new affinity, until it is switched in and out once.

`EventLog` has one thread and one user, who gets a log before asking for another
and is awake when the signal comes. A fault ends the behaviour.

In `RTRegistry` the timers a child copies are left out, periods are at least a
microsecond, and the 99 priorities are enough (`RegistryTypeOK` says when: with fewer
than 100 processes). In `LockOrder` the locks of the
hrtimer bases and of the cpufreq core are left out, and the tasks whose priorities a
syscall sets are two, the one it is about and another.

## Runs that pass

| Run | Instance | Shows |
|---|---|---|
| `steady` | 1 task, period 5, budgets 2 and 3, factors 1 and 2, threshold 1 | `ArmedWithinBudget`: a queued budget timer belongs to the running task and expires within the budget. `ChargeCoversUse`: charges never fall short of consumption below the budget. `WatchedUnlessSpared`: only a wiped mark lets a task run unwatched. `ThrottledIsWoken`: a throttled task, or one that waits for its next period, is woken. `ImplementsReservation`: the refinement of `Reservation`. `KeepsReplenishing`: its liveness, every reservation is replenished infinitely often |
| `uni` | 1 task, period 2, budget 1 | `ReservedIsReplenished`: between syscalls a flagged task has a period timer. `CancelStopsPeriods`: a cancelled one has none. `SyscallsFinish`: a syscall that spins for a callback or a run queue returns. `OnlyApplyQueuesInCallback`: a period timer whose callback runs is queued by `apply_sysclock` and nothing else, so only it can trip the `BUG_ON` of `__run_hrtimer` |
| `full` | 1 task, period 2, budget 1, all syscalls (1.1 million states) | `TypeOK`, `NoLostTask` (nothing runnable off the run queue), `CancelledHasNoTimer` |
| `admission` | `MCPartitioned`: 3 processes, 2 CPUs, 6 reservations with periods 5, 8 and 16, one with budget 0 | see below |
| `registry` | 3 processes, 3 budgets, 4 periods, 2 ns to the microsecond, 2 cycles per microsecond | `RegistryConsistent` (both directions, counter, flags), `SortedByPeriod`, `AdmittedMeetDeadlines` (in nanoseconds, after any history), `RanksFollowPeriods`, `TypeOK`. `ImplementsReservationSet`: the refinement of `ReservationSet` |
| `locks` | 3 CPUs, 2 tasks | `WaitsForBusyCpu`: whoever waits for a lock or for a callback waits for a CPU in the middle of something, no path returns with a lock. `DeadlocksNeedSchedule`: every deadlock contains a `__schedule` that has its run queue locked and waits for a `task_spin_lock` a period callback holds, or waits in `log_data_point`; the syscalls and callbacks alone never close a circle |
| `eventlog` | `EventLog`: up to 3 data points, with and without a reservation | `BufferOutlivesLogging`: no write, copy or free of a freed buffer. `OnlyUnreservedFaults`: `setLogging` between two reads of the flag makes `__schedule` follow a null leader, but never in a reserved process. `LogSound`: a copied log has two entries for each data point, by turns, and only its first two can carry a time that was not taken. `WaitingIsSignalled`: a user that waits gets the signal. `TypeOK`: the offset stays in the buffer |

`admission` visits every task set that up to three processes can register, every
packing of it and every history of starts, stops, cancellations and exits after
that. It checks, of the state, `TypeOK`, `CpuListsConsistent` (lists, counters,
order, affinities, nobody on two CPUs), `CpusMeetDeadlines` (a simulated processor
meets the deadlines of each CPU's tasks), `RoomNotOverstated` (`cpu_util` against
what the CPU holds), `PackedIsReplenished` and `RanksFollowPeriodsPerCpu` (from
startScheduling to the next stop or packing every packed process has its flag and its
period timer, and the ranks of each CPU number its periods, whatever flags, timers and
ranks an earlier packing left); and, of the
algorithms applied to each task set, `RtTestIsTimeDemand`,
`AdmissionMeetsDeadlines`, `TieOrderIrrelevant`, `PackingIsTotal` (only next fit
leaves a task out, one no CPU takes), `FirstFitLeavesNoRoom` (a CPU is opened only for
what the ones before refuse, and first fit fails only over a process all refuse),
`AlphaIsLeastFrequency` and `PmclockMeetsDeadlines`. The last is looked at for three task
lists of four tasks too: three processes with these periods give PM-Clock little to
round.

One task against "Other" is enough for the data plane: reserved tasks share
nothing but the CPU and `tasklist_lock`, every switch to or from another task is
one to or from Other, and the theorems cover any number of tasks. Periods of
three to five ticks let a budget be consumed in pieces, exhausted, replenished in
mid-run and slept through; MaxTime, where ages and totals saturate, is above every
budget; in `full` it equals the budget, which tells exhausted from not exhausted
and is all that decides a step. In `admission` the six
reservations include sets that fit one CPU, need two, and fit none, ties of period
and of utilization, a deadline met exactly, and a busy period that ends at a deadline;
two CPUs are enough for a bin to be added, refused and run out of, and three processes
for one to be displaced by two. In `eventlog` three points give logs with entries
beyond the first two, where order is strict, and the theorems cover any number. Two
nanoseconds to the microsecond are the smallest value for which a
period is rounded. Three CPUs allow the circle of `__schedule`, callback and
syscall; a fourth could only add a second syscall, which waits for
`tasklist_lock`. That one switch logs at most one of its two tasks (`BothLogs` is FALSE)
halves the choices: the two entries come one after the other, with `task_spin_lock`
released in between, and the theorems cover both values.

Fairness (`Progress`, `SyscallProgress`): interrupts are delivered and the steps
of `__schedule` go on, which is weak fairness. A period callback needs
`rq->lock`, a task in the kernel needs the CPU, a syscall needs both: they are
enabled again and again and not continuously, and a spinning CPU gets a ticket
lock in the end, so strong fairness. `SF(Tick)`: infinitely many kernel steps do
not fit into one tick. `SF` of `SchedPick` without PREEMPT_ACTIVE: a task that is
marked asleep reaches a voluntary `schedule()`. A deadlock on the locks is
outside these assumptions (see `lock_inversion`). In `EventLog` (`FairSpec`) the
process is scheduled again and again, and a syscall that has begun goes on: weak
fairness, since only `setLogging`'s short hold of `task_spin_lock` disables a step.

## Runs that refute a comment or an assertion

| Run | The repository says | What happens |
|---|---|---|
| `budget_enforced` | "Since the budget has expired we add the task to its own wait queue" | the mark is wiped before `__schedule` acts on it, and the task runs on without a timer |
| `cancel_sleeper` | "Waking up the process in case if it was sleeping" | it goes to sleep afterwards, for ever |
| `inverted` | "Checks whether the new RT task can be admitted" | the longest period is the most urgent, deadlines are missed |
| `lock_inversion` | "two locks may not be taken in different order" | `rq->lock` and `task_spin_lock` are, and so are `rq->lock` and `tasklist_lock` when a log is full |
| `sysclock_min` | "Setting the min sysclock frequency for this task" | `in_bzp` is not set again for the next task; for (2,5), (1,16), (1,16) sysclock's frequency is too low for the last task (`SysclockSufficesIfReset` proves that the missing reset is the only cause) |

The runs of `LockOrder` and `eventlog` do not check for deadlock: after a deadlock
of the locks, or a fault, the system stops.

The models show more of this kind, for which no run is kept; each is a short
behaviour of the specification named:

* `SteadySpec`: `period_timer_callback` (sched.c 818) leaves the budget timer of
  the running task armed for the remainder of the old period, so the task is
  throttled early in the new one; and a period that ends between the charge and
  the mark of `waitUntilNextPeriod` (lines 44 and 53) is slept through.
* `Spec` of `BudgetEnforcement`: `stopScheduling` leaves `is_budget_set`, so
  `__schedule` goes on arming budget timers that no period timer replenishes.
* `UniSpec`: `apply_sysclock` calls `hrtimer_try_to_cancel`, which does not wait for a
  callback, and `hrtimer_start` nevertheless; the callback then returns
  HRTIMER_RESTART for a queued timer, and `hrtimer.c` 1228 is a `BUG_ON`.
  `OnlyApplyQueuesInCallback` is the other half: in `UniSpec` nobody else does. In `Spec`
  `startScheduling` can too, behind a stop that raced with the callback.
* Outside `DisciplinedSpec` of `RTRegistry`: `cancelBudget` of a process without a
  reservation follows NULL or poisoned links; the child of a reserved process
  inherits the flag and no budget, and the copied list node, so that cancelling it
  unlinks its parent.
* Outside the guards of `Partitioned`'s `Next`: a cancellation on another CPU counts
  CPU 0 down; a second packing without a stop links every node twice; a process that
  exits before it was started stays in the registry. Within them: `StopScheduling`
  leaves the flags, though stopScheduling.c 32 says that "all the tasks run as non-rt
  tasks": a stopped process is charged and throttled, and nothing wakes it unless its
  timer survived the stop; packed again, it stays so until it is started. Affinity masks
  accumulate from task to task. Worst fit adds bins it then never asks and fails with
  CPUs to spare, with the comment "No bins left" (sched.c 704;
  `WorstFitFailsBeyondOneCpu`). Next fit skips a process no CPU takes and returns the
  number of bins, though by sched.c 502-504 a failure returns 0.
* `LockOrder`: with a full log, `__schedule` waits for `tasklist_lock` under `rq->lock`
  while `cancelBudget` waits for that `rq->lock` under `tasklist_lock`; and if the user
  sleeps on the run queue that `__schedule` has locked, waking it takes the lock again and
  the CPU waits for itself.
* `EventLog`: a log may begin with a duration, when the entry of the switch before finds
  the offset of the last log between setLogging.c 55 and 56; for a process without a
  reservation it may also begin with an old time, and `setLogging` can make `__schedule`
  follow a NULL leader.
* `DisciplinedSpec`: `set_rt_priorities` stores `rt_priority` before
  `__sched_setscheduler` compares it, so a task in SCHED_FIFO keeps its old `prio`
  (`DeadlinesMetInEffect` is refuted by this and by the inversion of the ranks
  alike); `check_admission` counts the caller's old reservation next to the new one
  and may refuse a lower budget.

## Proofs

`BudgetEnforcementProofs` proves, for every set of tasks, periods, budgets,
factors and thresholds that satisfy the three assumptions of `BudgetEnforcement`:

* `TimerWithinBudget`, `ChargeSound`, `RunningIsWatched` (SteadySpec). The three
  properties need each other: the timer is right because the charge it was armed
  with covers the consumption, and the charge is right because what exceeds it
  exceeds the budget too. `SteadyInv` adds that no budget timer is queued while
  `__schedule` switches, and that the next task is stamped before it is checked
  (`DispatchInv`).
* `TypeCorrect`, `TasksNotLost`, `CancelLeavesNoTimer` (Spec, all syscalls). The
  last is the delicate one: `__schedule` may have read the flag before
  cancelBudget cleared it. `OrphanInv` says that in this case cancelBudget is still
  before `sched_setscheduler`, whose `rq->lock` makes it wait until the timer is
  armed and can be cancelled.
* `ReservationsReplenished` (UniSpec). `UniInv` follows the flag, the list and the
  period timer through the steps of each syscall. In Spec it fails:
  stopScheduling cancels the timers and leaves the flag.
* `CancelledPeriodsStop`, `OnlyApplyTripsTheBug` (UniSpec), from the same invariant;
  the second is an action property.

It also proves `SteadyImplementsReservation`: an initial state of
`SteadySpec` maps to one of `Reservation`, and each action to the abstract action it
stands for or to a stutter. It rests on the invariants above: a tick is entitled because
a watched task is within its budget, a replenishment is due because the period timer
is.

`EventLogProofs` proves, for every number of data points, `LogTypeCorrect`,
`LogBufferSafe`, `ReservedFollowsLeader` and `LogContents`. `ProtocolInv` says who owns
the buffer in each phase of the user: `__schedule` is about to write only while the
flag is set, the flag is set only while the user sets up or waits, and the signal is
pending only behind it. `LastEntryInv` ties the place within `__schedule` to the last
entry and to the age of `exec_time`, and `ContentInv` says that the entries alternate.

`AdmissionProofs` proves, for every task array, that the test of the code is right:

* `RtTestIsTimeDemandAnalysis`: the iteration of `rt_test` succeeds exactly if the
  demand fits at some moment up to the deadline. The demand grows with time and the
  iteration starts below every fixed point, so it cannot pass over the least one
  (`StationaryIsFixedPoint`); that the loop has a result at all is
  `StationaryExists`.
* `AdmissionIsExact`: a task array sorted by period passes `__check_admission` exactly
  if each task meets its deadline on the simulated processor. One direction needs that
  the processor never idles while work of the first tasks is pending (`WorkUnit`), the
  other that at the moment a job ends all work before it is done. A task
  of budget 0 is a case of its own (`ZeroBudgetDemandMet`): the test has no moment 0.
* `AdmissionOfPart`, `TieOrder`, `AdmittedMayJoin`: what passed need not be tested again
  when tasks leave, when ties are listed in another order, or when the list puts the new
  task behind its equals although the test had it before them.
* `RtTestFits`: no value `rt_test` computes exceeds the number of tasks times two
  periods. In the code they are 32-bit longs of microseconds: the unbounded integers of
  the model are right as long as that product is below 2^31, which for ten tasks are
  periods up to 107 seconds. (The first task is admitted by its utilization, whose
  product budget * 1000 is below 2^31 for budgets up to 2.1 seconds.)

The facts about sums and recursive functions that this rests on are in `SumProofs`. They
are proved by induction for sets instead of predicates (`SetInduction`,
`FiniteSetInduction`), from the well-foundedness of `<`: the induction theorems of the
library take an operator as a parameter, which the provers cannot instantiate.

`SysClockProofs` is about `sysclock`, for every task list with positive budgets:

* `SysclockTraceEnds`: its loops end, whether the list is schedulable or not and whatever
  `in_bzp` was left at. The invariant `Going` ties the trace to the schedule: in a busy
  period the work released so far reaches to C, and past it if a task is released at C;
  behind one the work is done exactly at C, and no task is released there. So a busy turn
  never moves C back, an idle one always moves it on, and 2 * (T - C) + in_bzp falls.
  That TLA+'s recursive function is the loop at all is `TailRecursionExists`.
* `SysclockAlphaIsLeast`, `AlphasAreLeast`: for an admitted task whose trace begins with
  the busy period alpha is the least frequency over all moments up to the deadline,
  although the code looks only at the ends of idle times. `LeastSoFar` is the invariant:
  alpha is the share some moment asks for and at most that of every moment up to C.
  Shares fall while the CPU idles and no moment of a busy period asks for less than the
  idle time before it did.
* `SysclockSufficesIfReset`: if every task starts with `in_bzp` set, the frequency
  sysclock returns is enough for all of them. The counterexample of `sysclock_min` is
  thus due to that flag alone.
* `AlphaTurnFits`: the values of a turn are bounded by (pos + 1) * 2 * T and 1000 * T, so
  the code's unsigned 32-bit arithmetic does not wrap for periods below 4.29 seconds.

`RegistryProofs` proves `RegistryStaysConsistent`, `StaysSortedByPeriod`,
`AdmittedProcessesMeetDeadlines` and `RanksStayRateMonotonic` of `DisciplinedSpec`, for
every finite set of processes and all budgets and periods, and `RegistryTypeOK` for
fewer processes than real-time priorities: with more, a rank passes the range of the
kernel, which is the clamp listed as a hazard at sched.c 1082. The properties are stated
of `Traversal(list)`, a walk along the links. The proof goes by a ghost order `o` and
`Chained(l, o)`: the counter is the length of `o`, `o` repeats nothing and the links
`next` and `prev` are its ring, with the head where it closes. `TraversalIs` says that
the walk returns `o`; `Unlinked` and `Linked` say what `del_periodic_task` and
`add_periodic_task` do to it, so that the actions are reasoned about on sequences. `Inv`
adds that the ring holds the reserved processes (`OrderInv`), all of them alive and with
budgets of whole microseconds below their periods (`Granted`), sorted, passing the test
in microseconds, and with the ranks of that order. A child's copied links do not disturb
it because nothing on the ring points to the child. Deadlines in nanoseconds follow by
`CoarseTestIsSafe`: budgets convert exactly, periods are rounded down, so each job is
released at least as late as tested. The delicate step is a changed reservation: the
test sees the old one next to the new one, the list has only the new one
(`NowAdmitted`, by `AdmittedMayJoin` and `AdmissionOfPart`).
`RegistryImplementsReservationSet` is the refinement: by `Inv` a walk finds the reserved
processes and what they hold, so an accepted setProcessBudget is a grant, a cancellation
or the exit of a reserved process a withdrawal, a fork nothing. That what is granted
fits (`AdmittedFits`) takes the test in microseconds along the list to time-demand
analysis in nanoseconds over a set without an order: of processes with equal periods the
last one's test is the one the set asks for.

`PartitionedProofs` proves the invariants of `Partitioned` for every finite set of
processes, every number of CPUs, every set of requests and all five schemes:
`PartitionedTypeOK`, `CpuListsStayConsistent`, `PackedProcessesMeetDeadlines`,
`RoomIsNeverOverstated`, `PackedAreReplenished` and `PerCpuRanksFollowPeriods`. The
invariant has five parts: types (`TypeInv`), the registry is sorted and granted
(`RegistryInv`), what the CPUs hold is right (`Held`: order, counter, affinity, nobody
twice, the per-CPU test passes, room not overstated), only flagged
processes have timers and, while `started`, all packed ones have (`TimersInv`), and while
`started` the ranks are those of the per-CPU lists (`RanksInv`). Before a start timers and
ranks of an earlier packing may be left, on some of the processes and not on others. The packing loop is
followed by a loop invariant, `Packing`: `Held` for the processes done so far, nothing
on CPUs that are not bins yet. `PackOutcome` is what one turn
does with its process. Of the algorithms,
`RtTestIsTimeDemandAlways`, `AdmissionMeetsDeadlinesAlways`, `TieOrderIrrelevantAlways`,
`AlphaIsLeastFrequencyAlways` (by `SysClockProofs`), `PackingIsTotalAlways` and
`FirstFitLeavesNoRoomAlways` state what the run `admission`
compares for every registry the program can reach. `FirstFits` is the loop invariant of first fit; it rests on `RefusalStays`, a process that
was refused would be refused to the end: a CPU only gains processes, and what fits keeps
fitting when some are taken out.
`WorstFitFailsBeyondOneCpu` states a defect exactly: worst fit fails on just the task sets
that one CPU does not pass, however many there are.

`LockOrderProofs` proves `DeadlocksAreOfSchedule` and `WaitsAreForBusyCpus` for all CPUs,
tasks and run queues, logged or not. Each wait has a level: `tasklist_lock` 0,
`hrtimer_cancel` 1, `task_spin_lock` 2, `siglock` 3, `pi_lock` 4, `rq->lock` 5. A program
is in order (`Traced`) if it can be annotated, from what its CPU holds now to holding
nothing, so that each wait is at a higher level than every lock held, with two exceptions,
both of `__schedule` with its own `rq->lock` held: its `task_spin_lock`, and whatever
`log_data_point` waits for while a `task_spin_lock` is held too; that a callback waits at
level 2 or higher; and that a `task_spin_lock` is held during any other wait only in the
period callback of its task. The log may take a lock the CPU has already, its own
`rq->lock`: the annotation marks such a step (`again`), for the CPU waits for itself there
and what follows is never reached. Annotations compose (`TracedThen`, `TracedHolding`,
`TracedAgain`), which shows it of each program, also of a callback in the middle of a
syscall; the tail of a program in order is in order (`TracedTail`), which shows the
invariant `IInv` of each step. In a deadlock without one of the exceptions every wait
would be for a CPU that waits at a higher level (`WaitsHigher`), and there are only six.
The run `lock_inversion` shows the other half: such a deadlock is reached.

Each invariant is shown to hold initially, to be preserved by each action and by
stuttering, and to imply the property; TLC checked it on the instance of the run first
(of `IInv` in `LockOrderProofs`, which asks for an annotation, what it says of the next
step of each CPU).
The assumptions are those of the modules: `MaxTime` in `BudgetEnforcement` is any natural
number not below the stretched budgets; the mark of a free lock is no CPU; processes are finitely many, there is a CPU, a
microsecond is a positive number of nanoseconds, and no period is shorter than one.

Model-checked only:

* `ThrottledIsWoken`, `KeepsReplenishing`, `SyscallsFinish`, `WaitingIsSignalled`:
  liveness under fairness is out of the prover's reach.
* `PmclockMeetsDeadlines`: `pmclock` stretches budgets by frequencies it has rounded down,
  rounds them down again, and computes the next frequencies from the result. How near
  they come depends on the size of the periods against the two units, so this is no
  theorem for all task lists. The reference, `FeasibleAt`, adds the work of all tasks
  of one frequency and rounds it up once, in parts of a microsecond; were each stretched
  budget rounded up, it would ask for more than the deadlines do. The run shows it for every task list of its
  instance on which sysclock's alphas are right, and for three lists of four tasks.

## Not modelled, and the plan

1. `LockOrder` with the hrtimer base locks, the syscalls of the log and of the
   partitioned mode, `setBinPacking` without a lock among them; `on_cpu` with more than
   one run queue.
2. Threads of a group and the copied timers of a child in `BudgetEnforcement`; two
   threads of a logged process, of which the second signals again after the log was
   freed; two users of one log.
3. Global SysClock on per-CPU lists. Periods so long that 32 bits overflow: the theorems
   `RtTestFits` and `AlphaTurnFits` say from where on.

Left out for good: `get_table_frequency`, the cpufreq calls and the frequency hook of
`__schedule` (their effect is on the processor's clock, which is the cpufreq core's;
`pmclock` converts thousandths to kHz as if the highest frequency were 1 GHz), the
queries, the display brightness, and the stock kernel, which is nearly all of the
repository.
