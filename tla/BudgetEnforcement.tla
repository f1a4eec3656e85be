--------------------------- MODULE BudgetEnforcement ---------------------------
(***************************************************************************)
(* The data plane of the reservation extension: how __schedule, the two    *)
(* hrtimers of a task and the reservation syscalls interact on one CPU.    *)
(*                                                                         *)
(* A reserved task owns a budget timer, armed by __schedule each time the  *)
(* task is switched in, and a period timer, armed by a syscall and re-armed*)
(* by its own callback.  The budget callback marks the task                *)
(* TASK_UNINTERRUPTIBLE, the period callback zeroes compute_time and wakes *)
(* the task.  Syscalls run on another CPU under tasklist_lock, which       *)
(* neither __schedule nor the callbacks take, so their steps interleave.   *)
(*                                                                         *)
(* Abstractions.  Processes have one thread.  The CPU modelled is the one  *)
(* the tasks run on; everything that is not a reserved task, the idle task *)
(* included, is Other.  pick_next_task is a free choice among the runnable *)
(* tasks, so every safety result holds for every priority assignment.      *)
(* Time is a discrete tick; kernel code takes none, and a timer interrupt  *)
(* is taken before the tick that follows its expiry.  A timestamp is kept  *)
(* as the time elapsed since it was taken.                                 *)
(***************************************************************************)
EXTENDS Integers, FiniteSets

CONSTANTS
    Task,        \* the processes that may hold a reservation
    Other,       \* any other task of the CPU, the idle task included
    Period,      \* the period each task asks for, in ticks
    Budgets,     \* the budgets (at the highest frequency) a caller may ask for
    Scales,      \* the factors max_freq/frequency budgets are stretched by
    ForceSleep,  \* the 10 microsecond threshold of __schedule, in ticks
    MaxTime      \* every elapsed time and total saturates here

Unset == -1
NotQueued == -1

ASSUME TaskAssumption == Other \notin Task
ASSUME PeriodAssumption == Period \in [Task -> Nat \ {0}]
ASSUME BudgetAssumption ==
    /\ Budgets \subseteq Nat \ {0}
    /\ Scales \subseteq Nat \ {0} /\ 1 \in Scales
    /\ ForceSleep \in Nat
    /\ MaxTime \in Nat
    /\ \A b \in Budgets, s \in Scales : b * s \in 1 .. MaxTime

VARIABLES
    curr,            \* rq->curr
    pc,              \* where __schedule is: "idle" when it is not running
    state,           \* task_struct.state
    on_rq,           \* the tasks on the run queue
    need_resched,    \* the tasks with TIF_NEED_RESCHED
    waiting,         \* where the task is in a blocking system call
    is_budget_set,   \* the tasks whose flag is 1
    budget_time, min_budget_time, time_period, compute_time,
    exec_age,        \* now - exec_time
    budget_left,     \* ticks until the budget timer expires, if it is queued
    budget_firing,   \* the tasks whose budget timer has expired, callback to run
    period_left, period_firing,    \* likewise for the period timer
    admin,           \* the syscall that holds tasklist_lock
    listed,          \* the tasks on periodic_task_head
    packed,          \* the tasks on a per_cpu_list
    is_bin_packing_set,
    stopping,        \* stopScheduling runs and has not taken the lock yet
    used,            \* history: CPU time consumed since the last replenishment
    spared           \* history: running with its throttle mark wiped, no timer

cpuVars == <<curr, pc, state, on_rq, need_resched, waiting, spared>>
resVars == <<is_budget_set, budget_time, min_budget_time, time_period>>
accVars == <<compute_time, exec_age, used>>
budgetTimer == <<budget_left, budget_firing>>
periodTimer == <<period_left, period_firing>>
adminVars == <<admin, listed, packed, is_bin_packing_set, stopping>>
vars == <<cpuVars, resVars, accVars, budgetTimer, periodTimer, adminVars>>

Runnable == "running"
Interruptible == "interruptible"
Uninterruptible == "uninterruptible"

AdminPCs == {"idle", "set_timer", "set_flag", "set_prio", "set_start",
             "cancel_policy", "cancel_period", "cancel_timer", "cancel_unset",
             "cancel_wake", "apply", "restart", "start_prio", "global_prio"}

NoOp == [pc |-> "idle", task |-> Other, budget |-> 0]

\* Every variable has its type, and every elapsed time is bounded.
TypeOK ==
    /\ curr \in Task \cup {Other}
    /\ pc \in {"idle", "stamp", "check", "arm"}
    /\ state \in [Task -> {Runnable, Interruptible, Uninterruptible}]
    /\ on_rq \subseteq Task
    /\ need_resched \subseteq Task
    /\ waiting \in [Task -> {"user", "checked", "marked", "blocked"}]
    /\ is_budget_set \subseteq Task
    /\ budget_time \in [Task -> (1 .. MaxTime) \cup {Unset}]
    /\ min_budget_time \in [Task -> Budgets \cup {Unset}]
    /\ time_period \in [Task -> Nat \cup {Unset}]
    /\ compute_time \in [Task -> 0 .. MaxTime]
    /\ exec_age \in [Task -> 0 .. MaxTime]
    /\ used \in [Task -> 0 .. MaxTime]
    /\ budget_left \in [Task -> (0 .. MaxTime) \cup {NotQueued}]
    /\ budget_firing \subseteq Task
    /\ period_left \in [Task -> Nat \cup {NotQueued}]
    /\ period_firing \subseteq Task
    /\ admin \in [pc : AdminPCs, task : Task \cup {Other},
                  budget : Budgets \cup {0}]
    /\ listed \subseteq Task
    /\ packed \subseteq Task
    /\ is_bin_packing_set \in BOOLEAN
    /\ stopping \in BOOLEAN
    /\ spared \subseteq Task

\* The tasks whose timer is queued.
budget_armed == {t \in Task : budget_left[t] # NotQueued}
period_armed == {t \in Task : period_left[t] # NotQueued}

\* hrtimer_cancel and hrtimer_try_to_cancel dequeue the timers S whose callback
\* does not run.
Dequeue(left, S) == [t \in Task |-> IF t \in S THEN NotQueued ELSE left[t]]

Sat(n) == IF n > MaxTime THEN MaxTime ELSE n

-----------------------------------------------------------------------------
(***************************************************************************)
(* Time and instructions.                                                  *)
(***************************************************************************)

\* A task that was marked asleep by an interrupt reschedules on the way out of
\* it.  A flag set from another CPU is noticed at some later kernel entry.
MustResched == curr \in need_resched /\ state[curr] # Runnable

\* Task t executes instructions of its own.
Executing(t) == curr = t /\ pc = "idle" /\ budget_firing = {} /\ ~MustResched

\* One tick passes, whoever runs.  The exact moment __schedule runs at between
\* two ticks is immaterial, and so are the clocks read: CLOCK_MONOTONIC by the
\* timers, the raw monotonic clock by the accounting.
Tick ==
    /\ pc = "idle"
    /\ budget_firing = {} /\ period_firing = {}
    /\ \A t \in budget_armed : budget_left[t] > 0
    /\ \A t \in period_armed : period_left[t] > 0
    /\ ~MustResched
    /\ \A t \in Task : curr = t => waiting[t] # "marked"
    /\ exec_age' = [t \in Task |-> Sat(exec_age[t] + 1)]
    /\ used' = [t \in Task |-> IF t = curr THEN Sat(used[t] + 1) ELSE used[t]]
    /\ budget_left' = [t \in Task |-> IF t \in budget_armed
                                      THEN budget_left[t] - 1 ELSE budget_left[t]]
    /\ period_left' = [t \in Task |-> IF t \in period_armed
                                      THEN period_left[t] - 1 ELSE period_left[t]]
    /\ UNCHANGED <<cpuVars, resVars, compute_time, budget_firing, period_firing,
                   adminVars>>

-----------------------------------------------------------------------------
(***************************************************************************)
(* Wake-ups.  try_to_wake_up leaves a running task alone, without taking a *)
(* lock.  Otherwise it needs rq->lock, which __schedule holds.             *)
(***************************************************************************)

CanWake(S) == pc = "idle" \/ \A t \in S : state[t] = Runnable

\* The unthrottled task keeps the CPU and no budget timer watches it.
SparedBy(S) == {t \in S : /\ curr = t
                          /\ state[t] = Uninterruptible
                          /\ t \notin budget_armed \cup budget_firing}

\* Mutant: the task is made runnable and not put on the run queue.
WakeUpNoEnqueue(S) ==
    /\ CanWake(S)
    /\ state' = [t \in Task |-> IF t \in S THEN Runnable ELSE state[t]]
    /\ spared' = spared \cup SparedBy(S)
    /\ UNCHANGED on_rq

WakeUp(S) ==
    /\ CanWake(S)
    /\ state' = [t \in Task |-> IF t \in S THEN Runnable ELSE state[t]]
    /\ on_rq' = on_rq \cup {t \in S : state[t] # Runnable}
    /\ spared' = spared \cup SparedBy(S)

\* A task prepares to sleep on a wait queue: it overwrites its state, be it a
\* throttle mark an interrupt left there.
Block(t) ==
    /\ Executing(t)
    /\ waiting[t] \in {"user", "blocked"}
    /\ waiting' = [waiting EXCEPT ![t] = "blocked"]
    /\ state' = [state EXCEPT ![t] = Interruptible]
    /\ spared' = spared \cup SparedBy({t})
    /\ UNCHANGED <<curr, pc, on_rq, need_resched, resVars, accVars,
                   budgetTimer, periodTimer, adminVars>>

\* The event arrives; the waker does not know that the task may be throttled.
ForeignWake(t) ==
    /\ waiting[t] = "blocked"
    /\ WakeUp({t})
    /\ waiting' = [waiting EXCEPT ![t] = "user"]
    /\ UNCHANGED <<curr, pc, need_resched, resVars, accVars, budgetTimer,
                   periodTimer, adminVars>>

-----------------------------------------------------------------------------
(***************************************************************************)
(* The timers.  An hrtimer that expires is dequeued (Enter) before its     *)
(* function runs (Callback), and a function that returns HRTIMER_RESTART   *)
(* is queued again, under a BUG_ON that nobody queued it in the meantime   *)
(* (OnlyApplyQueuesInCallback; the model goes on past it).  The budget     *)
(* timer is armed and expires on the CPU the task runs on.                 *)
(***************************************************************************)

BudgetEnter(t) ==
    /\ pc = "idle"
    /\ budget_left[t] = 0
    /\ budget_left' = Dequeue(budget_left, {t})
    /\ budget_firing' = budget_firing \cup {t}
    /\ UNCHANGED <<cpuVars, resVars, accVars, periodTimer, adminVars>>

\* Mutant: the task is asked to reschedule and not marked asleep.
BudgetCallbackUnmarked(t) ==
    /\ t \in budget_firing
    /\ budget_firing' = budget_firing \ {t}
    /\ need_resched' = need_resched \cup {t}
    /\ UNCHANGED <<curr, pc, state, on_rq, waiting, spared, resVars, accVars,
                   budget_left, periodTimer, adminVars>>

BudgetCallback(t) ==
    /\ t \in budget_firing
    /\ budget_firing' = budget_firing \ {t}
    /\ state' = [state EXCEPT ![t] = Uninterruptible]
    /\ need_resched' = IF state[t] # Uninterruptible
                       THEN need_resched \cup {t} ELSE need_resched
    /\ UNCHANGED <<curr, pc, on_rq, waiting, spared, resVars, accVars,
                   budget_left, periodTimer, adminVars>>

PeriodEnter(t) ==
    /\ period_left[t] = 0
    /\ period_left' = Dequeue(period_left, {t})
    /\ period_firing' = period_firing \cup {t}
    /\ UNCHANGED <<cpuVars, resVars, accVars, budgetTimer, adminVars>>

\* hrtimer_start and hrtimer_forward of a period that is not positive expire
\* at the timer's resolution.
Expiry(p) == IF p = Unset THEN 1 ELSE p

\* Mutant: the period timer is not started again (HRTIMER_NORESTART).
StartPeriodOnce(S) == period_left

StartPeriod(S) ==
    [t \in Task |-> IF t \in S THEN Expiry(time_period[t]) ELSE period_left[t]]

PeriodCallback(t) ==
    /\ t \in period_firing
    /\ compute_time' = [compute_time EXCEPT ![t] = 0]
    /\ used' = [used EXCEPT ![t] = 0]
    /\ WakeUp({t})
    /\ period_firing' = period_firing \ {t}
    /\ period_left' = StartPeriod({t})
    /\ UNCHANGED <<curr, pc, need_resched, waiting, resVars, exec_age,
                   budgetTimer, adminVars>>

-----------------------------------------------------------------------------
(***************************************************************************)
(* __schedule, in the steps another CPU can interleave with.               *)
(***************************************************************************)

\* Mutant: the last run replaces what was charged before.
ChargeLastRunOnly(t) == exec_age[t]

\* The compute time of prev, with the time since it was switched in.
Charge(t) == Sat(compute_time[t] + exec_age[t])

\* Dequeue prev if it sleeps and was not preempted (PREEMPT_ACTIVE), pick next,
\* and charge prev for the time since exec_time.  Nothing of the extension
\* happens when prev is picked again.
SchedPick(next, preempt_active) ==
    LET prev == curr
        sleeps == prev \in Task /\ state[prev] # Runnable /\ ~preempt_active
    IN  /\ pc = "idle"
        /\ budget_firing = {}
        /\ on_rq' = IF sleeps THEN on_rq \ {prev} ELSE on_rq
        /\ next \in on_rq' \cup {Other}
        /\ curr' = next
        /\ pc' = IF next # prev /\ next \in Task THEN "stamp" ELSE "idle"
        /\ need_resched' = need_resched \ {prev}
        /\ waiting' = [t \in Task |->
                         IF t = prev /\ waiting[t] = "marked" /\ ~preempt_active
                         THEN "user" ELSE waiting[t]]
        /\ IF next # prev
           THEN /\ compute_time' =
                     [t \in Task |-> IF t = prev /\ t \in is_budget_set
                                     THEN Charge(t) ELSE compute_time[t]]
                /\ budget_left' = Dequeue(budget_left, {prev} \cap is_budget_set)
                /\ spared' = spared \ {prev}
           ELSE UNCHANGED <<compute_time, budget_left, spared>>
        /\ UNCHANGED <<state, resVars, exec_age, used, budget_firing,
                       periodTimer, adminVars>>

SchedStamp ==
    /\ pc = "stamp"
    /\ pc' = "check"
    /\ exec_age' = [t \in Task |-> IF t = curr /\ t \in is_budget_set
                                   THEN 0 ELSE exec_age[t]]
    /\ UNCHANGED <<curr, state, on_rq, need_resched, waiting, spared, resVars,
                   compute_time, used, budgetTimer, periodTimer, adminVars>>

\* Mutant: a task that was not charged yet is not watched.
SchedCheckCharged ==
    /\ pc = "check"
    /\ pc' = IF curr \in is_budget_set /\ compute_time[curr] > 0 THEN "arm" ELSE "idle"
    /\ UNCHANGED <<curr, state, on_rq, need_resched, waiting, spared, resVars,
                   accVars, budgetTimer, periodTimer, adminVars>>

SchedCheck ==
    /\ pc = "check"
    /\ pc' = IF curr \in is_budget_set THEN "arm" ELSE "idle"
    /\ UNCHANGED <<curr, state, on_rq, need_resched, waiting, spared, resVars,
                   accVars, budgetTimer, periodTimer, adminVars>>

\* Mutant: the whole budget, whatever was consumed.
WholeBudget(t) == budget_time[t]

Remaining(t) == budget_time[t] - compute_time[t]

\* Mutant: the comparison of budget and compute time is dropped.
NeverExhausted(remaining) == FALSE

Exhausted(remaining) == remaining <= ForceSleep

\* Start the budget timer for what is left of the budget, or put the task to
\* sleep if that is nothing or next to nothing.
SchedArm ==
    LET remaining == Remaining(curr)
        exhausted == Exhausted(remaining)
    IN  /\ pc = "arm"
        /\ pc' = "idle"
        /\ budget_left' = IF exhausted THEN budget_left
                          ELSE [budget_left EXCEPT ![curr] = remaining]
        /\ state' = IF exhausted THEN [state EXCEPT ![curr] = Uninterruptible]
                    ELSE state
        /\ need_resched' =
             IF exhausted /\ (remaining > 0 \/ state[curr] # Uninterruptible)
             THEN need_resched \cup {curr} ELSE need_resched
        /\ UNCHANGED <<curr, on_rq, waiting, spared, resVars, accVars,
                       budget_firing, periodTimer, adminVars>>

-----------------------------------------------------------------------------
(***************************************************************************)
(* waitUntilNextPeriod: check and charge under tasklist_lock, mark the     *)
(* task after the lock is released, then schedule().                       *)
(***************************************************************************)

WaitCheck(t) ==
    /\ Executing(t)
    /\ waiting[t] = "user"
    /\ admin.pc = "idle"
    /\ t \in is_budget_set
    /\ budget_time[t] # Unset
    /\ compute_time' = [compute_time EXCEPT ![t] = budget_time[t]]
    /\ waiting' = [waiting EXCEPT ![t] = "checked"]
    /\ UNCHANGED <<curr, pc, state, on_rq, need_resched, spared, resVars,
                   exec_age, used, budgetTimer, periodTimer, adminVars>>

WaitMark(t) ==
    /\ Executing(t)
    /\ waiting[t] = "checked"
    /\ waiting' = [waiting EXCEPT ![t] = "marked"]
    /\ state' = [state EXCEPT ![t] = Uninterruptible]
    /\ need_resched' = need_resched \cup {t}
    /\ UNCHANGED <<curr, pc, on_rq, spared, resVars, accVars, budgetTimer,
                   periodTimer, adminVars>>

-----------------------------------------------------------------------------
(***************************************************************************)
(* set_rt_priorities: sched_setscheduler_nocheck takes the rq->lock of each*)
(* task of the list, so it waits for a __schedule in progress.             *)
(***************************************************************************)

SetPriorities(S) ==
    /\ S # {} => pc = "idle"
    /\ need_resched' = need_resched \cup S

-----------------------------------------------------------------------------
(***************************************************************************)
(* setProcessBudget, under tasklist_lock.  The argument checks and the     *)
(* admission test have passed; a call they refuse changes nothing.         *)
(* hrtimer_cancel waits for a callback in flight, hrtimer_try_to_cancel    *)
(* does not.                                                               *)
(***************************************************************************)

\* Mutant: hrtimer_try_to_cancel, which does not wait for the callback.
SetBudgetBeginNoWait(t, b) ==
    /\ admin.pc = "idle"
    /\ b < Period[t]
    /\ listed' = IF t \in is_budget_set THEN listed \ {t} ELSE listed
    /\ period_left' = Dequeue(period_left, {t})
    /\ admin' = [pc |-> "set_timer", task |-> t, budget |-> b]
    /\ UNCHANGED <<cpuVars, resVars, accVars, budgetTimer, period_firing,
                   packed, is_bin_packing_set, stopping>>

SetBudgetBegin(t, b) ==
    /\ admin.pc = "idle"
    /\ b < Period[t]
    /\ listed' = IF t \in is_budget_set THEN listed \ {t} ELSE listed
    /\ time_period[t] # Unset => t \notin period_firing
    /\ period_left' = Dequeue(period_left, {t})
    /\ admin' = [pc |-> "set_timer", task |-> t, budget |-> b]
    /\ UNCHANGED <<cpuVars, resVars, accVars, budgetTimer, period_firing,
                   packed, is_bin_packing_set, stopping>>

SetBudgetTimer ==
    LET t == admin.task
    IN  /\ admin.pc = "set_timer"
        /\ budget_time[t] # Unset => t \notin budget_firing
        /\ budget_left' = Dequeue(budget_left, {t})
        /\ admin' = [admin EXCEPT !.pc = "set_flag"]
        /\ UNCHANGED <<cpuVars, resVars, accVars, budget_firing, periodTimer, listed, packed, is_bin_packing_set,
                       stopping>>

SetBudgetFlag ==
    LET t == admin.task
    IN  /\ admin.pc = "set_flag"
        /\ time_period' = [time_period EXCEPT ![t] = Period[t]]
        /\ min_budget_time' = [min_budget_time EXCEPT ![t] = admin.budget]
        /\ IF is_bin_packing_set
           THEN /\ budget_time' = [budget_time EXCEPT ![t] = admin.budget]
                /\ UNCHANGED is_budget_set
           ELSE /\ is_budget_set' = is_budget_set \cup {t}
                /\ UNCHANGED budget_time
        /\ listed' = listed \cup {t}
        /\ admin' = [admin EXCEPT !.pc = "set_prio"]
        /\ UNCHANGED <<cpuVars, accVars, budgetTimer, periodTimer, packed,
                       is_bin_packing_set, stopping>>

\* Bin packing: the task waits for startScheduling.
SetBudgetDefer ==
    /\ admin.pc = "set_prio"
    /\ is_bin_packing_set
    /\ admin' = NoOp
    /\ UNCHANGED <<cpuVars, resVars, accVars, budgetTimer, periodTimer, listed,
                   packed, is_bin_packing_set, stopping>>

SetBudgetPriority ==
    /\ admin.pc = "set_prio"
    /\ ~is_bin_packing_set
    /\ SetPriorities(listed)
    /\ admin' = [admin EXCEPT !.pc = "set_start"]
    /\ UNCHANGED <<curr, pc, state, on_rq, waiting, spared, resVars, accVars,
                   budgetTimer, periodTimer, listed, packed,
                   is_bin_packing_set, stopping>>

\* power_scheme 0: the budget at the current frequency, and the first period.
SetBudgetStart(scale) ==
    LET t == admin.task
    IN  /\ admin.pc = "set_start"
        /\ budget_time' = [budget_time EXCEPT ![t] = admin.budget * scale]
        /\ period_left' = StartPeriod({t})
        /\ admin' = NoOp
        /\ UNCHANGED <<cpuVars, is_budget_set, min_budget_time, time_period,
                       accVars, budgetTimer, period_firing, listed, packed,
                       is_bin_packing_set, stopping>>

\* power_scheme 1 or 2: every reservation is restarted at a new frequency.
SetBudgetScheme ==
    /\ admin.pc = "set_start"
    /\ admin' = [admin EXCEPT !.pc = "apply"]
    /\ UNCHANGED <<cpuVars, resVars, accVars, budgetTimer, periodTimer, listed,
                   packed, is_bin_packing_set, stopping>>

-----------------------------------------------------------------------------
(***************************************************************************)
(* apply_sysclock and apply_pmclock: the first loop cancels the timers of  *)
(* the listed tasks without waiting for callbacks, zeroes their compute    *)
(* times, rescales their budgets and wakes them; the second loop starts    *)
(* their period timers.                                                    *)
(***************************************************************************)

\* power_scheme 1 stretches every budget alike, power_scheme 2 each on its own.
ApplyCancel(scale) ==
    /\ admin.pc = "apply"
    /\ budget_left' = Dequeue(budget_left, listed \ budget_firing)
    /\ period_left' = Dequeue(period_left, listed \ period_firing)
    /\ compute_time' = [t \in Task |-> IF t \in listed THEN 0 ELSE compute_time[t]]
    /\ used' = [t \in Task |-> IF t \in listed THEN 0 ELSE used[t]]
    /\ budget_time' = [t \in Task |-> IF t \in listed
                                      THEN min_budget_time[t] * scale[t]
                                      ELSE budget_time[t]]
    /\ WakeUp(listed)
    /\ admin' = [admin EXCEPT !.pc = "restart"]
    /\ UNCHANGED <<curr, pc, need_resched, waiting, is_budget_set,
                   min_budget_time, time_period, exec_age, budget_firing,
                   period_firing, listed, packed, is_bin_packing_set, stopping>>

\* Mutant: the second loop is left out.
ApplyNoRestart ==
    /\ admin.pc = "restart"
    /\ admin' = NoOp
    /\ UNCHANGED <<cpuVars, resVars, accVars, budgetTimer, periodTimer, listed,
                   packed, is_bin_packing_set, stopping>>

ApplyRestart ==
    /\ admin.pc = "restart"
    /\ period_left' = StartPeriod(listed)
    /\ admin' = NoOp
    /\ UNCHANGED <<cpuVars, resVars, accVars, budgetTimer, period_firing, listed,
                   packed, is_bin_packing_set, stopping>>

-----------------------------------------------------------------------------
(***************************************************************************)
(* cancelBudget, under tasklist_lock, for any process.                     *)
(***************************************************************************)

CancelBegin(t) ==
    /\ admin.pc = "idle"
    /\ is_budget_set' = is_budget_set \ {t}
    /\ admin' = [pc |-> "cancel_policy", task |-> t, budget |-> 0]
    /\ UNCHANGED <<cpuVars, budget_time, min_budget_time, time_period, accVars,
                   budgetTimer, periodTimer, listed, packed,
                   is_bin_packing_set, stopping>>

\* Mutant: the policy is left alone, or changed without rq->lock.
CancelPolicyUnlocked ==
    /\ admin.pc = "cancel_policy"
    /\ admin' = [admin EXCEPT !.pc = "cancel_period"]
    /\ UNCHANGED <<cpuVars, resVars, accVars, budgetTimer, periodTimer, listed,
                   packed, is_bin_packing_set, stopping>>

\* Back to SCHED_NORMAL, under rq->lock.
CancelPolicy ==
    /\ admin.pc = "cancel_policy"
    /\ pc = "idle"
    /\ admin' = [admin EXCEPT !.pc = "cancel_period"]
    /\ UNCHANGED <<cpuVars, resVars, accVars, budgetTimer, periodTimer, listed,
                   packed, is_bin_packing_set, stopping>>

\* Mutant: hrtimer_try_to_cancel, which does not wait for the callback.
CancelPeriodNoWait ==
    LET t == admin.task
    IN  /\ admin.pc = "cancel_period"
        /\ period_left' = IF time_period[t] # Unset THEN Dequeue(period_left, {t})
                          ELSE period_left
        /\ time_period' = [time_period EXCEPT ![t] = Unset]
        /\ admin' = [admin EXCEPT !.pc = "cancel_timer"]
        /\ UNCHANGED <<cpuVars, is_budget_set, budget_time, min_budget_time,
                       accVars, budgetTimer, period_firing, listed,
                       packed, is_bin_packing_set, stopping>>

\* Mutant: wait until the timer is inactive, which it never is, and cancel then.
CancelPeriodInactive ==
    /\ admin.task \notin period_armed
    /\ CancelPeriodNoWait

CancelPeriod ==
    LET t == admin.task
    IN  /\ admin.pc = "cancel_period"
        /\ IF time_period[t] # Unset
           THEN t \notin period_firing /\ period_left' = Dequeue(period_left, {t})
           ELSE UNCHANGED period_left
        /\ time_period' = [time_period EXCEPT ![t] = Unset]
        /\ admin' = [admin EXCEPT !.pc = "cancel_timer"]
        /\ UNCHANGED <<cpuVars, is_budget_set, budget_time, min_budget_time,
                       accVars, budgetTimer, period_firing, listed,
                       packed, is_bin_packing_set, stopping>>

CancelTimer ==
    LET t == admin.task
    IN  /\ admin.pc = "cancel_timer"
        /\ IF budget_time[t] # Unset
           THEN t \notin budget_firing /\ budget_left' = Dequeue(budget_left, {t})
           ELSE UNCHANGED budget_left
        /\ admin' = [admin EXCEPT !.pc = "cancel_unset"]
        /\ UNCHANGED <<cpuVars, resVars, accVars, budget_firing, periodTimer,
                       listed, packed, is_bin_packing_set, stopping>>

CancelUnset ==
    LET t == admin.task
    IN  /\ admin.pc = "cancel_unset"
        /\ budget_time' = [budget_time EXCEPT ![t] = Unset]
        /\ listed' = listed \ {t}
        /\ packed' = IF is_bin_packing_set THEN packed \ {t} ELSE packed
        /\ SetPriorities(IF is_bin_packing_set THEN packed' ELSE {})
        /\ admin' = [admin EXCEPT !.pc = "cancel_wake"]
        /\ UNCHANGED <<curr, pc, state, on_rq, waiting, spared, is_budget_set,
                       min_budget_time, time_period, accVars, budgetTimer,
                       periodTimer, is_bin_packing_set, stopping>>

\* Whatever the power scheme is, the remaining reservations are restarted.
CancelWake ==
    /\ admin.pc = "cancel_wake"
    /\ WakeUp({admin.task})
    /\ IF is_bin_packing_set
       THEN admin' = NoOp /\ UNCHANGED need_resched
       ELSE /\ SetPriorities(listed)
            /\ admin' = [admin EXCEPT !.pc = "apply"]
    /\ UNCHANGED <<curr, pc, waiting, resVars, accVars, budgetTimer,
                   periodTimer, listed, packed, is_bin_packing_set, stopping>>

-----------------------------------------------------------------------------
(***************************************************************************)
(* The partitioned mode: setBinPacking distributes the listed tasks over   *)
(* the per-CPU lists, startScheduling starts those, stopScheduling stops   *)
(* every listed task.  Which tasks a packing scheme places is a free       *)
(* choice here, an unsuccessful packing places none.                       *)
(***************************************************************************)

\* The flag is set before, and without, tasklist_lock.
StopBegin ==
    /\ ~stopping
    /\ is_bin_packing_set' = TRUE
    /\ stopping' = (listed # {})
    /\ UNCHANGED <<cpuVars, resVars, accVars, budgetTimer, periodTimer, admin,
                   listed, packed>>

\* The timers are cancelled without waiting and is_budget_set stays as it is.
StopFinish ==
    /\ stopping
    /\ admin.pc = "idle"
    /\ budget_left' = Dequeue(budget_left, listed \ budget_firing)
    /\ period_left' = Dequeue(period_left, listed \ period_firing)
    /\ compute_time' = [t \in Task |-> IF t \in listed THEN 0 ELSE compute_time[t]]
    /\ used' = [t \in Task |-> IF t \in listed THEN 0 ELSE used[t]]
    /\ WakeUp(listed)
    /\ packed' = {}
    /\ stopping' = FALSE
    /\ UNCHANGED <<curr, pc, need_resched, waiting, resVars, exec_age,
                   budget_firing, period_firing, admin, listed, is_bin_packing_set>>

\* No lock at all.
SetBinPacking(placed) ==
    /\ packed' = placed
    /\ UNCHANGED <<cpuVars, resVars, accVars, budgetTimer, periodTimer, admin,
                   listed, is_bin_packing_set, stopping>>

CancelBinPacking ==
    /\ is_bin_packing_set' = FALSE
    /\ UNCHANGED <<cpuVars, resVars, accVars, budgetTimer, periodTimer, admin,
                   listed, packed, stopping>>

\* Without a global frequency: flag and start every packed task.
StartScheduling ==
    /\ admin.pc = "idle"
    /\ is_budget_set' = is_budget_set \cup packed
    /\ period_left' = StartPeriod(packed)
    /\ admin' = [NoOp EXCEPT !.pc = "start_prio"]
    /\ UNCHANGED <<cpuVars, budget_time, min_budget_time, time_period, accVars,
                   budgetTimer, period_firing, listed, packed,
                   is_bin_packing_set, stopping>>

\* With one: flag every packed task, then apply_sysclock to every listed one.
StartGlobal ==
    /\ admin.pc = "idle"
    /\ is_budget_set' = is_budget_set \cup packed
    /\ admin' = [NoOp EXCEPT !.pc = "global_prio"]
    /\ UNCHANGED <<cpuVars, budget_time, min_budget_time, time_period, accVars,
                   budgetTimer, periodTimer, listed, packed,
                   is_bin_packing_set, stopping>>

StartPriority ==
    /\ admin.pc \in {"start_prio", "global_prio"}
    /\ SetPriorities(packed)
    /\ admin' = IF admin.pc = "start_prio" THEN NoOp
                ELSE [admin EXCEPT !.pc = "apply"]
    /\ UNCHANGED <<curr, pc, state, on_rq, waiting, spared, resVars, accVars,
                   budgetTimer, periodTimer, listed, packed,
                   is_bin_packing_set, stopping>>

-----------------------------------------------------------------------------
(***************************************************************************)
(* Specifications.  SteadySpec: the reservations are made and no further   *)
(* syscall but waitUntilNextPeriod arrives.  UniSpec: setProcessBudget and *)
(* cancelBudget, from boot.  Spec: the partitioned mode too.               *)
(***************************************************************************)

IdleCPU ==
    /\ curr = Other
    /\ pc = "idle"
    /\ state = [t \in Task |-> Runnable]
    /\ on_rq = Task
    /\ need_resched = {}
    /\ waiting = [t \in Task |-> "user"]
    /\ compute_time = [t \in Task |-> 0]
    /\ exec_age = [t \in Task |-> 0]
    /\ used = [t \in Task |-> 0]
    /\ spared = {}
    /\ budget_left = [t \in Task |-> NotQueued]
    /\ budget_firing = {}
    /\ period_firing = {}
    /\ admin = NoOp
    /\ packed = {}
    /\ is_bin_packing_set = FALSE
    /\ stopping = FALSE

Init ==
    /\ IdleCPU
    /\ is_budget_set = {}
    /\ budget_time = [t \in Task |-> Unset]
    /\ min_budget_time = [t \in Task |-> Unset]
    /\ time_period = [t \in Task |-> Unset]
    /\ period_left = [t \in Task |-> NotQueued]
    /\ listed = {}

SteadyInit ==
    /\ IdleCPU
    /\ is_budget_set = Task
    /\ min_budget_time \in [Task -> Budgets]
    /\ \A t \in Task : min_budget_time[t] < Period[t]
    /\ \E s \in Scales : budget_time = [t \in Task |-> min_budget_time[t] * s]
    /\ time_period = Period
    /\ period_left = Period
    /\ listed = Task

SteadyNext ==
    \/ Tick
    \/ \E t \in Task :
         \/ Block(t) \/ ForeignWake(t)
         \/ BudgetEnter(t) \/ BudgetCallback(t)
         \/ PeriodEnter(t) \/ PeriodCallback(t)
         \/ WaitCheck(t) \/ WaitMark(t)
    \/ \E next \in Task \cup {Other}, preempt_active \in BOOLEAN :
         SchedPick(next, preempt_active)
    \/ SchedStamp \/ SchedCheck \/ SchedArm

UniNext ==
    \/ SteadyNext
    \/ \E t \in Task, b \in Budgets : SetBudgetBegin(t, b)
    \/ SetBudgetTimer \/ SetBudgetFlag \/ SetBudgetPriority
    \/ \E scale \in Scales : SetBudgetStart(scale)
    \/ SetBudgetScheme
    \/ \E scale \in [Task -> Scales] : ApplyCancel(scale)
    \/ ApplyRestart
    \/ \E t \in Task : CancelBegin(t)
    \/ CancelPolicy \/ CancelPeriod \/ CancelTimer \/ CancelUnset \/ CancelWake

Next ==
    \/ UniNext
    \/ SetBudgetDefer
    \/ StopBegin \/ StopFinish
    \/ \E placed \in SUBSET listed : SetBinPacking(placed)
    \/ CancelBinPacking
    \/ StartScheduling \/ StartGlobal \/ StartPriority

\* Interrupts are taken, a spinning CPU obtains rq->lock in the end, a task in
\* the kernel goes on when it runs, and time passes.
Progress ==
    /\ \A t \in Task : /\ WF_vars(BudgetEnter(t)) /\ WF_vars(BudgetCallback(t))
                       /\ WF_vars(PeriodEnter(t)) /\ SF_vars(PeriodCallback(t))
                       /\ SF_vars(WaitMark(t))
    /\ WF_vars(SchedStamp) /\ WF_vars(SchedCheck) /\ WF_vars(SchedArm)
    /\ SF_vars(\E next \in Task \cup {Other} : SchedPick(next, FALSE))
    /\ SF_vars(Tick)

\* A syscall that holds tasklist_lock finishes.
SyscallProgress ==
    SF_vars(\/ SetBudgetTimer \/ SetBudgetFlag \/ SetBudgetPriority
            \/ \E scale \in Scales : SetBudgetStart(scale)
            \/ \E scale \in [Task -> Scales] : ApplyCancel(scale)
            \/ ApplyRestart
            \/ CancelPolicy \/ CancelPeriod \/ CancelTimer \/ CancelUnset \/ CancelWake)

SteadySpec == SteadyInit /\ [][SteadyNext]_vars
FairSteadySpec == SteadySpec /\ Progress
UniSpec == Init /\ [][UniNext]_vars
FairUniSpec == UniSpec /\ Progress /\ SyscallProgress
Spec == Init /\ [][Next]_vars

-----------------------------------------------------------------------------
(***************************************************************************)
(* Properties.                                                             *)
(***************************************************************************)

\* An armed (or expired and not yet handled) budget timer belongs to the running
\* task, and it expires before the task has consumed more than its budget,
\* whatever was charged, replenished or slept through since the last switch.
ArmedWithinBudget ==
    \A t \in budget_armed \cup budget_firing :
        /\ curr = t
        /\ used[t] + (IF t \in budget_armed THEN budget_left[t] ELSE 0)
             <= budget_time[t]

\* What __schedule charges never falls short of what the task consumed, except
\* beyond a budget that is already exhausted: compute_time off the CPU, and
\* compute_time plus the time since exec_time on it.
ChargeCovers(t, charge) == used[t] <= charge \/ budget_time[t] <= charge

ChargeCoversUse ==
    \A t \in Task :
        IF curr = t /\ pc \notin {"stamp"}
        THEN ChargeCovers(t, compute_time[t] + exec_age[t])
        ELSE ChargeCovers(t, compute_time[t])

\* A task that executes unthrottled is within its budget and watched by its
\* budget timer, unless a wake-up or a wait-queue entry wiped its throttle mark
\* before __schedule had acted on it.
WatchedUnlessSpared ==
    \A t \in is_budget_set \ spared :
        (curr = t /\ pc = "idle" /\ state[t] # Uninterruptible) =>
            /\ t \in budget_armed \cup budget_firing
            /\ used[t] <= budget_time[t]

\* A task that has a reservation is replenished again: its period timer is
\* queued or its callback is running, whatever syscall came before.
ReservedIsReplenished ==
    admin.pc = "idle" =>
        is_budget_set \subseteq period_armed \cup period_firing

\* No task is lost: one that is off the run queue is not in the running state,
\* which try_to_wake_up would leave alone for ever.
NoLostTask == \A t \in Task \ on_rq : state[t] # Runnable

\* A task whose period was cancelled has no period timer left, queued or in its
\* callback, that would replenish and wake it.
CancelStopsPeriods ==
    \A t \in Task : time_period[t] = Unset =>
        t \notin period_armed \cup period_firing

\* Outside the partitioned mode a period timer is queued while its callback runs,
\* which trips the BUG_ON of __run_hrtimer (hrtimer.c 1228), by the second loop of
\* apply_sysclock or apply_pmclock and by nothing else: setProcessBudget starts a
\* timer only after it waited for its callback.  (In the partitioned mode there
\* is startScheduling too, behind a stop that left a timer in its callback.)
OnlyApplyQueuesInCallback ==
    [][\A t \in (period_armed \cap period_firing)' \ (period_armed \cap period_firing) :
         admin.pc = "restart"]_vars

\* Once cancelBudget has returned no budget timer of the task is left, queued or
\* in its callback, that would throttle a task nobody replenishes.
CancelledHasNoTimer ==
    admin.pc = "idle" => budget_armed \cup budget_firing \subseteq is_budget_set

\* A throttled task, or one that waits for its next period, is woken again.
ThrottledIsWoken ==
    \A t \in Task : (state[t] = Uninterruptible) ~> (state[t] = Runnable)

\* A syscall that takes tasklist_lock does not wait for ever for a callback or
\* for the run queue.
SyscallsFinish == (admin.pc # "idle") ~> (admin.pc = "idle")

-----------------------------------------------------------------------------
(***************************************************************************)
(* The reservations, once made, as their owners see them.  A task escapes  *)
(* when its throttle mark is wiped (spared), or kept while the request to  *)
(* act on it is gone: a kernel preemption consumes TIF_NEED_RESCHED and    *)
(* does not dequeue a task that is not TASK_RUNNING.                       *)
(***************************************************************************)

Escaped ==
    spared \cup {t \in Task \ need_resched :
                   /\ curr = t /\ pc = "idle"
                   /\ state[t] = Uninterruptible
                   /\ t \notin budget_armed \cup budget_firing}

Until == [t \in Task |-> IF t \in period_firing THEN 0 ELSE period_left[t]]

Abstract == INSTANCE Reservation
            WITH running <- curr, budget <- budget_time, until <- Until,
                 escaped <- Escaped

\* __schedule, the two timers and every sleep and wake-up in between implement
\* a periodic reservation: each unit of CPU time a task gets is within its budget
\* or follows an escape in the same run, and periods are exact.
ImplementsReservation == Abstract!Spec

\* The period timer, re-armed by its own callback, never ceases to replenish.
KeepsReplenishing == Abstract!Replenishments

-----------------------------------------------------------------------------
(***************************************************************************)
(* What comments and assertions of the code say, and the code does not do. *)
(***************************************************************************)

\* sched.c:783, "Since the budget has expired we add the task to its own wait
\* queue": a reserved task consumes no more than its budget in a period.
BudgetEnforced == \A t \in is_budget_set : used[t] <= budget_time[t]

\* cancelBudget.c:92, "Waking up the process in case if it was sleeping": a task
\* without a reservation is not left throttled for ever.
CancelledIsAwake ==
    \A t \in Task :
        (admin.pc = "idle" /\ t \notin is_budget_set /\ state[t] = Uninterruptible)
            ~> (admin.pc # "idle" \/ state[t] # Uninterruptible)
=============================================================================
