------------------------------- MODULE LockOrder -------------------------------
(***************************************************************************)
(* The spin locks the reservation extension takes, and in which order:     *)
(* rq->lock of a CPU, task_spin_lock, siglock and pi_lock of a task,       *)
(* tasklist_lock.                                                          *)
(*                                                                         *)
(* A CPU executes straight-line programs of steps: __schedule, a timer     *)
(* callback, a syscall.  Which tasks a program is about, whether a task to *)
(* be woken sleeps, and whether a task is logged and its log full, is      *)
(* chosen when it begins.  A callback is an interrupt: it may begin in the *)
(* middle of a syscall that holds nothing but tasklist_lock, the one lock  *)
(* that is taken with interrupts enabled.                                  *)
(* Data is left out: what is done under the locks is in BudgetEnforcement. *)
(***************************************************************************)
EXTENDS Naturals, Sequences, FiniteSets

CONSTANTS
    Cpu,      \* the processors
    Task,     \* the reserved tasks, and who asked for their logs
    Home,     \* the CPU whose run queue a task is on
    BothLogs  \* whether one switch may log both of its tasks

ASSUME HomeAssumption == Home \in [Task -> Cpu]

VARIABLES
    program,    \* the steps each CPU has still to do
    holder,     \* who holds each lock
    active      \* the callbacks that run: the timer is in HRTIMER_STATE_CALLBACK

vars == <<program, holder, active>>

Free == "free"
ASSUME FreeAssumption == Free \notin Cpu

rq_lock(c) == [class |-> "rq->lock", of |-> c]
task_spin_lock(t) == [class |-> "task_spin_lock", of |-> t]
siglock(t) == [class |-> "siglock", of |-> t]
pi_lock(t) == [class |-> "pi_lock", of |-> t]
tasklist_lock == [class |-> "tasklist_lock", of |-> Free]

Locks == {rq_lock(c) : c \in Cpu} \cup {task_spin_lock(t) : t \in Task}
           \cup {siglock(t) : t \in Task} \cup {pi_lock(t) : t \in Task}
           \cup {tasklist_lock}

budget_timer(t) == [timer |-> "budget", of |-> t]
period_timer(t) == [timer |-> "period", of |-> t]
Timers == {budget_timer(t) : t \in Task} \cup {period_timer(t) : t \in Task}

-----------------------------------------------------------------------------
(***************************************************************************)
(* The programs.                                                           *)
(***************************************************************************)

Lock(l) == [op |-> "lock", on |-> l]
Unlock(l) == [op |-> "unlock", on |-> l]
End(timer) == [op |-> "end", on |-> timer]
\* hrtimer_cancel spins until the callback is over.
Cancel(timer) == [op |-> "cancel", on |-> timer]

Holding(l, steps) == <<Lock(l)>> \o steps \o <<Unlock(l)>>

\* A task that sleeps is enqueued under the lock of its run queue.
try_to_wake_up(t, sleeps) ==
    Holding(pi_lock(t), IF sleeps THEN Holding(rq_lock(Home[t]), <<>>) ELSE <<>>)

sched_setscheduler(t) == Holding(pi_lock(t), Holding(rq_lock(Home[t]), <<>>))

\* The signal is queued, and its receiver woken, under siglock.
send_sig_info(user, sleeps) == Holding(siglock(user), try_to_wake_up(user, sleeps))

\* What an entry does: it takes no lock, or finds the buffer full, ends the log and
\* signals the user, who may be on the run queue that __schedule has locked.
log_data_point ==
    {<<>>} \cup {Holding(tasklist_lock, send_sig_info(user, sleeps)) :
                   user \in Task, sleeps \in BOOLEAN}

\* What __schedule does about the log of t, which may be off.
Logging(t) == {<<>>} \cup {Holding(task_spin_lock(t), entry) : entry \in log_data_point}

\* Charge prev, log its run, stamp next, check and arm next, log its start.
__schedule(c, prev, next, log_prev, log_next) ==
    Holding(rq_lock(c), Holding(task_spin_lock(prev), <<>>) \o log_prev
                          \o Holding(task_spin_lock(next), <<>>)
                          \o Holding(task_spin_lock(next), <<>>) \o log_next)

budget_timer_callback(t) ==
    Holding(task_spin_lock(t), <<>>) \o <<End(budget_timer(t))>>

period_timer_callback(t, sleeps) ==
    Holding(task_spin_lock(t), try_to_wake_up(t, sleeps)) \o <<End(period_timer(t))>>

\* Timers first, then the priorities of the listed tasks, t and another, which a
\* power scheme wakes.
sys_setProcessBudget(t, other, power_scheme, sleeps) ==
    Holding(tasklist_lock,
            <<Cancel(period_timer(t)), Cancel(budget_timer(t))>>
              \o sched_setscheduler(t) \o sched_setscheduler(other)
              \o IF power_scheme THEN try_to_wake_up(other, sleeps) ELSE <<>>)

\* Mutant: the timers are cancelled under task_spin_lock.
cancelBudgetLocked(t, other, sleeps) ==
    Holding(tasklist_lock,
            sched_setscheduler(t)
              \o Holding(task_spin_lock(t),
                         <<Cancel(period_timer(t)), Cancel(budget_timer(t))>>)
              \o try_to_wake_up(t, sleeps) \o sched_setscheduler(other)
              \o try_to_wake_up(other, sleeps))

sys_cancelBudget(t, other, sleeps) ==
    Holding(tasklist_lock,
            sched_setscheduler(t)
              \o <<Cancel(period_timer(t)), Cancel(budget_timer(t))>>
              \o try_to_wake_up(t, sleeps) \o sched_setscheduler(other)
              \o try_to_wake_up(other, sleeps))

\* Mutant: the process has no reservation, and the early return leaves the lock.
waitUntilNextPeriodEarly == <<Lock(tasklist_lock)>>

\* The check of waitUntilNextPeriod, and of any other syscall that reads.
sys_waitUntilNextPeriod == Holding(tasklist_lock, <<>>)

-----------------------------------------------------------------------------
(***************************************************************************)
(* Execution.                                                              *)
(***************************************************************************)

Init ==
    /\ program = [c \in Cpu |-> <<>>]
    /\ holder = [l \in Locks |-> Free]
    /\ active = {}

Held(c) == {l \in Locks : holder[l] = c}

Start(c, steps) ==
    /\ program[c] = <<>>
    /\ program' = [program EXCEPT ![c] = steps]
    /\ UNCHANGED <<holder, active>>

StartSchedule(c) ==
    \E prev, next \in {t \in Task : Home[t] = c} :
        /\ prev # next
        /\ \E log_prev \in Logging(prev), log_next \in Logging(next) :
             /\ BothLogs \/ log_prev = <<>> \/ log_next = <<>>
             /\ Start(c, __schedule(c, prev, next, log_prev, log_next))

StartSyscall(c) ==
    \/ \E t, other \in Task, power_scheme, sleeps \in BOOLEAN :
         t # other /\ Start(c, sys_setProcessBudget(t, other, power_scheme, sleeps))
    \/ \E t, other \in Task, sleeps \in BOOLEAN :
         t # other /\ Start(c, sys_cancelBudget(t, other, sleeps))
    \/ Start(c, sys_waitUntilNextPeriod)

\* The callbacks a CPU is in the middle of.
Executes(c) ==
    {timer \in active : \E i \in DOMAIN program[c] : program[c][i] = End(timer)}

\* __run_hrtimer, with interrupts disabled: a timer that is in its callback does not expire again.
RunTimer(c, timer, callback) ==
    /\ timer \notin active
    /\ Executes(c) = {}
    /\ Held(c) \subseteq {tasklist_lock}
    /\ program[c] # <<>> => Held(c) # {}
    /\ active' = active \cup {timer}
    /\ program' = [program EXCEPT ![c] = callback \o @]
    /\ UNCHANGED holder

\* The budget timer was started on the CPU of its task, the period timer anywhere.
Interrupt(c) ==
    \E t \in Task :
        \/ Home[t] = c /\ RunTimer(c, budget_timer(t), budget_timer_callback(t))
        \/ \E sleeps \in BOOLEAN :
             RunTimer(c, period_timer(t), period_timer_callback(t, sleeps))

\* The next step of c cannot be done now.
Blocked(c) ==
    /\ program[c] # <<>>
    /\ LET step == Head(program[c])
       IN  \/ step.op = "lock" /\ holder[step.on] # Free
           \/ step.op = "cancel" /\ step.on \in active

Step(c) ==
    /\ program[c] # <<>>
    /\ ~Blocked(c)
    /\ program' = [program EXCEPT ![c] = Tail(@)]
    /\ LET step == Head(program[c])
       IN  /\ holder' = IF step.op = "lock" THEN [holder EXCEPT ![step.on] = c]
                        ELSE IF step.op = "unlock" THEN [holder EXCEPT ![step.on] = Free]
                        ELSE holder
           /\ active' = IF step.op = "end" THEN active \ {step.on} ELSE active

Next == \E c \in Cpu : StartSchedule(c) \/ StartSyscall(c) \/ Interrupt(c) \/ Step(c)

Spec == Init /\ [][Next]_vars

-----------------------------------------------------------------------------
(***************************************************************************)
(* Properties.                                                             *)
(***************************************************************************)

\* The CPUs of D wait for each other and for nobody else.
Deadlocked(D) ==
    /\ D # {}
    /\ \A c \in D :
         /\ Blocked(c)
         /\ LET step == Head(program[c])
            IN  \/ step.op = "lock" /\ holder[step.on] \in D
                \/ step.op = "cancel" /\ \E d \in D : step.on \in Executes(d)

\* Documentation/lockdep-design.txt:84, "two locks may not be taken in different
\* order": no CPUs wait for each other for ever.
NoDeadlock == \A D \in SUBSET Cpu : ~Deadlocked(D)

\* Whoever waits, for a lock or in hrtimer_cancel, waits for a CPU that is in the
\* middle of something: no path returns with a lock held, and no timer stays in
\* HRTIMER_STATE_CALLBACK behind its callback.
WaitsForBusyCpu ==
    \A c \in Cpu : Blocked(c) =>
        LET step == Head(program[c])
        IN  \E d \in Cpu : /\ program[d] # <<>>
                           /\ \/ step.op = "lock" /\ holder[step.on] = d
                              \/ step.op = "cancel" /\ step.on \in Executes(d)

\* Every deadlock has a __schedule in it that holds its run queue and either waits for
\* the task_spin_lock of a task whose period callback holds it during a wake-up, or
\* holds a task_spin_lock and waits in log_data_point, with the buffer full, for
\* tasklist_lock or for a lock of the user it signals.  hrtimer_cancel under
\* tasklist_lock, the priority changes and the wake-ups of the syscalls never close
\* a circle of their own.
DeadlocksNeedSchedule ==
    \A D \in SUBSET Cpu : Deadlocked(D) =>
        \E c \in D, t \in Task :
            /\ holder[rq_lock(c)] = c
            /\ \/ /\ Head(program[c]) = Lock(task_spin_lock(t))
                  /\ \E d \in D : /\ holder[task_spin_lock(t)] = d
                                  /\ period_timer(t) \in Executes(d)
               \/ holder[task_spin_lock(t)] = c
=============================================================================
