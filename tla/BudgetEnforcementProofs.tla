------------------------ MODULE BudgetEnforcementProofs ------------------------
(* Proofs of the safety properties of BudgetEnforcement, and that it implements *)
(* Reservation.                                                               *)
EXTENDS BudgetEnforcement, TLAPS

\* While __schedule runs, rq->curr is the task it switches to.
SwitchInv ==
    pc # "idle" => /\ curr \in Task
                   /\ budget_firing = {}

\* What SteadySpec never changes.
Reserved ==
    /\ is_budget_set = Task
    /\ admin.pc = "idle"
    /\ \A t \in Task : budget_time[t] # Unset

\* No budget timer is left when __schedule switches, and none is there until it
\* arms that of the next task, whose execution starts now.
DispatchInv ==
    pc # "idle" => /\ budget_armed = {}
                   /\ pc # "stamp" => exec_age[curr] = 0

SteadyInv ==
    /\ TypeOK /\ SwitchInv /\ Reserved /\ DispatchInv
    /\ ArmedWithinBudget /\ ChargeCoversUse /\ WatchedUnlessSpared
    /\ Task \subseteq period_armed \cup period_firing

-----------------------------------------------------------------------------
\* The syscall in progress works on a task, and the setProcessBudget one on a
\* budget of the caller's.
AdminInv ==
    /\ admin.pc \in {"set_timer", "set_flag", "set_prio", "set_start"} =>
         admin.task \in Task /\ admin.budget \in Budgets
    /\ admin.pc \in {"cancel_policy", "cancel_period", "cancel_timer",
                     "cancel_unset", "cancel_wake"} =>
         admin.task \in Task /\ admin.task \notin is_budget_set
    /\ \A t \in listed : min_budget_time[t] # Unset

\* The task is being cancelled and its budget timer may still be there.
Cancelling(t) ==
    /\ admin.task = t
    /\ admin.pc \in {"cancel_policy", "cancel_period", "cancel_timer"}

\* A budget timer belongs to a task that has a budget, and whose flag is set
\* unless cancelBudget is on its way to cancel it.  A __schedule that has seen
\* the flag keeps cancelBudget waiting for rq->lock.
OrphanInv ==
    /\ \A t \in budget_armed \cup budget_firing :
         budget_time[t] # Unset /\ (t \in is_budget_set \/ Cancelling(t))
    /\ (pc = "arm" /\ curr \notin is_budget_set) =>
         admin.pc = "cancel_policy" /\ admin.task = curr

FullInv == TypeOK /\ SwitchInv /\ AdminInv /\ OrphanInv /\ NoLostTask

-----------------------------------------------------------------------------
\* A period timer, and a place in the list, belong to a task that has a period,
\* unless cancelBudget is on its way to remove it from the list.  The timer that
\* setProcessBudget is going to start is neither queued nor in its callback.
PeriodInv ==
    /\ CancelStopsPeriods
    /\ \A t \in listed : time_period[t] = Unset =>
         admin.task = t /\ admin.pc \in {"cancel_timer", "cancel_unset"}
    /\ admin.pc \in {"set_prio", "set_start"} => time_period[admin.task] # Unset
    /\ admin.pc \in {"set_timer", "set_flag", "set_prio", "set_start"} =>
         admin.task \notin period_armed \cup period_firing

\* A flagged task is listed, unless setProcessBudget is moving it; and it has a
\* period timer, unless a syscall in progress is about to start it.
ReplenishInv ==
    \A t \in is_budget_set :
      /\ t \in listed \/ (admin.task = t /\ admin.pc \in {"set_timer", "set_flag"})
      /\ \/ t \in period_armed \cup period_firing
         \/ admin.pc \in {"apply", "restart"}
         \/ admin.task = t /\ admin.pc \in {"set_timer", "set_flag", "set_prio",
                                            "set_start"}

UniPart == PeriodInv /\ ReplenishInv /\ ~is_bin_packing_set

UniInv == FullInv /\ UniPart

-----------------------------------------------------------------------------
USE TaskAssumption, PeriodAssumption, BudgetAssumption
    DEF Unset, NotQueued, Runnable, Interruptible, Uninterruptible,
        cpuVars, resVars, accVars, budgetTimer, periodTimer, adminVars

\* Every step of SteadySpec, the scheduler and the timers, preserves its inductive
\* invariant.
LEMMA SteadyStep ==
    ASSUME SteadyInv, SteadyNext
    PROVE  SteadyInv'
<1>1. CASE Tick
  <2>1. TypeOK'
    BY <1>1 DEF Tick, MustResched, Sat, budget_armed, period_armed,
       SteadyInv, TypeOK
  <2>2. (SwitchInv /\ Reserved /\ DispatchInv)'
    BY <1>1 DEF Tick, MustResched, Sat, budget_armed, period_armed,
       SteadyInv, SwitchInv, Reserved, DispatchInv
  <2>3. ArmedWithinBudget'
    BY <1>1 DEF Tick, MustResched, Sat, budget_armed, period_armed,
       SteadyInv, TypeOK, ArmedWithinBudget, Reserved
  <2>4. ChargeCoversUse'
    BY <1>1 DEF Tick, MustResched, Sat, budget_armed, period_armed,
       SteadyInv, TypeOK, ChargeCoversUse, ChargeCovers, Reserved
  <2>5. WatchedUnlessSpared'
    BY <1>1 DEF Tick, MustResched, Sat, budget_armed, period_armed,
       SteadyInv, TypeOK, Reserved, WatchedUnlessSpared,
       ArmedWithinBudget
  <2>6. (Task \subseteq period_armed \cup period_firing)'
    BY <1>1 DEF Tick, MustResched, Sat, budget_armed, period_armed,
       SteadyInv, TypeOK
  <2> QED BY <2>1, <2>2, <2>3, <2>4, <2>5, <2>6 DEF SteadyInv
<1>2. ASSUME NEW t \in Task, Block(t) PROVE SteadyInv'
  BY <1>2 DEF Block, Executing, SparedBy, budget_armed, SteadyInv, TypeOK,
     SwitchInv, Reserved, DispatchInv, ArmedWithinBudget, ChargeCoversUse,
     ChargeCovers, WatchedUnlessSpared, period_armed
<1>3. ASSUME NEW t \in Task, ForeignWake(t) PROVE SteadyInv'
  BY <1>3 DEF ForeignWake, WakeUp, CanWake, SparedBy, budget_armed,
     SteadyInv, TypeOK, SwitchInv, Reserved, DispatchInv,
     ArmedWithinBudget, ChargeCoversUse, ChargeCovers,
     WatchedUnlessSpared, period_armed
<1>4. ASSUME NEW t \in Task, BudgetEnter(t) PROVE SteadyInv'
  BY <1>4 DEF BudgetEnter, Dequeue, budget_armed, SteadyInv, TypeOK,
     SwitchInv, Reserved, DispatchInv, ArmedWithinBudget, ChargeCoversUse,
     ChargeCovers, WatchedUnlessSpared, period_armed
<1>5. ASSUME NEW t \in Task, BudgetCallback(t) PROVE SteadyInv'
  BY <1>5 DEF BudgetCallback, SteadyInv, TypeOK, SwitchInv, Reserved,
     DispatchInv, ArmedWithinBudget, ChargeCoversUse, ChargeCovers,
     WatchedUnlessSpared, budget_armed, period_armed
<1>6. ASSUME NEW t \in Task, PeriodEnter(t) PROVE SteadyInv'
  BY <1>6 DEF PeriodEnter, Dequeue, SteadyInv, TypeOK, SwitchInv,
     Reserved, DispatchInv, ArmedWithinBudget, ChargeCoversUse,
     ChargeCovers, WatchedUnlessSpared, budget_armed, period_armed
<1>7. ASSUME NEW t \in Task, PeriodCallback(t) PROVE SteadyInv'
  BY <1>7 DEF PeriodCallback, StartPeriod, Expiry, WakeUp, CanWake,
     SparedBy, budget_armed, SteadyInv, TypeOK, SwitchInv, Reserved,
     DispatchInv, ArmedWithinBudget, ChargeCoversUse, ChargeCovers,
     WatchedUnlessSpared, period_armed
<1>8. ASSUME NEW t \in Task, WaitCheck(t) PROVE SteadyInv'
  BY <1>8 DEF WaitCheck, Executing, SteadyInv, TypeOK, SwitchInv,
     Reserved, DispatchInv, ArmedWithinBudget, ChargeCoversUse,
     ChargeCovers, WatchedUnlessSpared, budget_armed, period_armed
<1>9. ASSUME NEW t \in Task, WaitMark(t) PROVE SteadyInv'
  BY <1>9 DEF WaitMark, Executing, SteadyInv, TypeOK, SwitchInv,
     Reserved, DispatchInv, ArmedWithinBudget, ChargeCoversUse,
     ChargeCovers, WatchedUnlessSpared, budget_armed, period_armed
<1>10. ASSUME NEW n \in Task \cup {Other}, NEW a \in BOOLEAN,
            SchedPick(n, a)
     PROVE  SteadyInv'
  BY <1>10 DEF SchedPick, Charge, Sat, Dequeue, budget_armed, SteadyInv,
     TypeOK, SwitchInv, Reserved, DispatchInv, ArmedWithinBudget,
     ChargeCoversUse, ChargeCovers, WatchedUnlessSpared, period_armed
<1>11. CASE SchedStamp
  BY <1>11 DEF SchedStamp, SteadyInv, TypeOK, SwitchInv, Reserved,
     DispatchInv, ArmedWithinBudget, ChargeCoversUse, ChargeCovers,
     WatchedUnlessSpared, budget_armed, period_armed
<1>12. CASE SchedCheck
  BY <1>12 DEF SchedCheck, SteadyInv, TypeOK, SwitchInv, Reserved,
     DispatchInv, ArmedWithinBudget, ChargeCoversUse, ChargeCovers,
     WatchedUnlessSpared, budget_armed, period_armed
<1>13. CASE SchedArm
  BY <1>13 DEF SchedArm, Remaining, Exhausted, budget_armed, SteadyInv,
     TypeOK, SwitchInv, Reserved, DispatchInv, ArmedWithinBudget,
     ChargeCoversUse, ChargeCovers, WatchedUnlessSpared, period_armed
<1> QED BY <1>1, <1>2, <1>3, <1>4, <1>5, <1>6, <1>7, <1>8, <1>9, <1>10,
     <1>11, <1>12, <1>13 DEF SteadyNext

\* Every step of Spec, all syscalls included, preserves its inductive invariant.
LEMMA FullStep ==
    ASSUME FullInv, Next
    PROVE  FullInv'
<1>1. CASE Tick
  BY <1>1 DEF Tick, MustResched, Sat, budget_armed, period_armed, FullInv,
     TypeOK, AdminPCs, SwitchInv, AdminInv, OrphanInv, Cancelling,
     NoLostTask
<1>2. ASSUME NEW t \in Task, Block(t) PROVE FullInv'
  BY <1>2 DEF Block, Executing, SparedBy, budget_armed, FullInv, TypeOK,
     AdminPCs, SwitchInv, AdminInv, OrphanInv, Cancelling, NoLostTask
<1>3. ASSUME NEW t \in Task, ForeignWake(t) PROVE FullInv'
  BY <1>3 DEF ForeignWake, WakeUp, CanWake, SparedBy, budget_armed,
     FullInv, TypeOK, AdminPCs, SwitchInv, AdminInv, OrphanInv,
     Cancelling, NoLostTask
<1>4. ASSUME NEW t \in Task, BudgetEnter(t) PROVE FullInv'
  BY <1>4 DEF BudgetEnter, Dequeue, budget_armed, FullInv, TypeOK,
     AdminPCs, SwitchInv, AdminInv, OrphanInv, Cancelling, NoLostTask
<1>5. ASSUME NEW t \in Task, BudgetCallback(t) PROVE FullInv'
  BY <1>5 DEF BudgetCallback, FullInv, TypeOK, AdminPCs, SwitchInv,
     AdminInv, OrphanInv, Cancelling, NoLostTask, budget_armed
<1>6. ASSUME NEW t \in Task, PeriodEnter(t) PROVE FullInv'
  BY <1>6 DEF PeriodEnter, Dequeue, FullInv, TypeOK, AdminPCs,
     SwitchInv, AdminInv, OrphanInv, Cancelling, NoLostTask,
     budget_armed
<1>7. ASSUME NEW t \in Task, PeriodCallback(t) PROVE FullInv'
  BY <1>7 DEF PeriodCallback, StartPeriod, Expiry, WakeUp, CanWake,
     SparedBy, budget_armed, FullInv, TypeOK, AdminPCs, SwitchInv,
     AdminInv, OrphanInv, Cancelling, NoLostTask
<1>8. ASSUME NEW t \in Task, WaitCheck(t) PROVE FullInv'
  BY <1>8 DEF WaitCheck, Executing, FullInv, TypeOK, AdminPCs,
     SwitchInv, AdminInv, OrphanInv, Cancelling, NoLostTask,
     budget_armed
<1>9. ASSUME NEW t \in Task, WaitMark(t) PROVE FullInv'
  BY <1>9 DEF WaitMark, Executing, FullInv, TypeOK, AdminPCs,
     SwitchInv, AdminInv, OrphanInv, Cancelling, NoLostTask,
     budget_armed
<1>10. ASSUME NEW n \in Task \cup {Other}, NEW a \in BOOLEAN,
            SchedPick(n, a)
     PROVE  FullInv'
  BY <1>10 DEF SchedPick, Charge, Sat, Dequeue, budget_armed, FullInv,
     TypeOK, AdminPCs, SwitchInv, AdminInv, OrphanInv, Cancelling,
     NoLostTask
<1>11. CASE SchedStamp
  BY <1>11 DEF SchedStamp, FullInv, TypeOK, AdminPCs, SwitchInv,
     AdminInv, OrphanInv, Cancelling, NoLostTask, budget_armed
<1>12. CASE SchedCheck
  BY <1>12 DEF SchedCheck, FullInv, TypeOK, AdminPCs, SwitchInv,
     AdminInv, OrphanInv, Cancelling, NoLostTask, budget_armed
<1>13. CASE SchedArm
  BY <1>13 DEF SchedArm, Remaining, Exhausted, budget_armed, FullInv,
     TypeOK, AdminPCs, SwitchInv, AdminInv, OrphanInv, Cancelling,
     NoLostTask
<1>14. ASSUME NEW t \in Task, NEW b \in Budgets, SetBudgetBegin(t, b)
     PROVE FullInv'
  BY <1>14 DEF SetBudgetBegin, Dequeue, FullInv, TypeOK, AdminPCs,
     SwitchInv, AdminInv, OrphanInv, Cancelling, NoLostTask,
     budget_armed
<1>15. CASE SetBudgetTimer
  BY <1>15 DEF SetBudgetTimer, Dequeue, FullInv, TypeOK, AdminPCs,
     SwitchInv, AdminInv, OrphanInv, Cancelling, NoLostTask,
     budget_armed
<1>16. CASE SetBudgetFlag
  <2>1. TypeOK'
    <3>1. admin.task \in Task /\ admin.budget \in Budgets
      BY <1>16 DEF SetBudgetFlag, FullInv, AdminInv
    <3>2. admin.budget * 1 \in 1 .. MaxTime
      BY <3>1
    <3> QED BY <1>16, <3>1, <3>2 DEF SetBudgetFlag, FullInv, TypeOK, AdminPCs
  <2>2. SwitchInv'
    BY <1>16 DEF SetBudgetFlag, FullInv, TypeOK, SwitchInv
  <2>3. AdminInv'
    BY <1>16 DEF SetBudgetFlag, FullInv, TypeOK, AdminInv
  <2>4. OrphanInv'
    BY <1>16 DEF SetBudgetFlag, FullInv, TypeOK, SwitchInv, AdminInv,
       OrphanInv, Cancelling, budget_armed
  <2>5. NoLostTask'
    BY <1>16 DEF SetBudgetFlag, FullInv, TypeOK, NoLostTask
  <2> QED BY <2>1, <2>2, <2>3, <2>4, <2>5 DEF FullInv
<1>17. CASE SetBudgetPriority
  BY <1>17 DEF SetBudgetPriority, SetPriorities, FullInv, TypeOK,
     AdminPCs, SwitchInv, AdminInv, OrphanInv, Cancelling, NoLostTask,
     budget_armed
<1>18. ASSUME NEW scale \in Scales, SetBudgetStart(scale) PROVE
     FullInv'
  <2>1. admin.budget * scale \in 1 .. MaxTime
    BY <1>18 DEF SetBudgetStart, FullInv, AdminInv
  <2>2. \A t \in Task : budget_time[t] # Unset => budget_time'[t] # Unset
    BY <1>18, <2>1 DEF SetBudgetStart, FullInv, TypeOK
  <2>3. OrphanInv'
    BY <1>18, <2>2 DEF SetBudgetStart, NoOp, FullInv, TypeOK, OrphanInv,
       Cancelling, budget_armed
  <2>4. TypeOK'
    BY <1>18 DEF SetBudgetStart, StartPeriod, Expiry, NoOp, FullInv,
       TypeOK, AdminPCs, AdminInv
  <2>5. SwitchInv'
    BY <1>18 DEF SetBudgetStart, StartPeriod, Expiry, NoOp, FullInv,
       TypeOK, SwitchInv
  <2>6. AdminInv'
    BY <1>18 DEF SetBudgetStart, StartPeriod, Expiry, NoOp, FullInv,
       TypeOK, AdminInv
  <2>7. NoLostTask'
    BY <1>18 DEF SetBudgetStart, StartPeriod, Expiry, NoOp, FullInv,
       TypeOK, NoLostTask
  <2> QED BY <2>1, <2>2, <2>3, <2>4, <2>5, <2>6, <2>7 DEF FullInv
<1>19. CASE SetBudgetScheme
  BY <1>19 DEF SetBudgetScheme, FullInv, TypeOK, AdminPCs, SwitchInv,
     AdminInv, OrphanInv, Cancelling, NoLostTask, budget_armed
<1>20. ASSUME NEW scale \in [Task -> Scales], ApplyCancel(scale) PROVE
     FullInv'
  <2>1. TypeOK'
    <3>1. /\ state' \in [Task -> {Runnable, Interruptible, Uninterruptible}]
          /\ on_rq' \subseteq Task /\ spared' \subseteq Task
      BY <1>20 DEF ApplyCancel, WakeUp, SparedBy, FullInv, TypeOK
    <3>2. /\ compute_time' \in [Task -> 0 .. MaxTime]
          /\ used' \in [Task -> 0 .. MaxTime]
          /\ budget_left' \in [Task -> (0 .. MaxTime) \cup {NotQueued}]
          /\ period_left' \in [Task -> Nat \cup {NotQueued}]
      BY <1>20 DEF ApplyCancel, Dequeue, FullInv, TypeOK
    <3>3. \A t \in listed : min_budget_time[t] * scale[t] \in 1 .. MaxTime
      BY DEF FullInv, AdminInv, TypeOK
    <3>4. budget_time' \in [Task -> (1 .. MaxTime) \cup {Unset}]
      BY <1>20, <3>3 DEF ApplyCancel, FullInv, TypeOK
    <3> QED BY <1>20, <3>1, <3>2, <3>4 DEF ApplyCancel, FullInv, TypeOK, AdminPCs
  <2>2. SwitchInv'
    BY <1>20 DEF ApplyCancel, Dequeue, WakeUp, CanWake, SparedBy,
       FullInv, TypeOK, SwitchInv
  <2>3. AdminInv'
    BY <1>20 DEF ApplyCancel, Dequeue, WakeUp, CanWake, SparedBy,
       FullInv, TypeOK, AdminInv
  <2>4. OrphanInv'
    BY <1>20 DEF ApplyCancel, Dequeue, WakeUp, CanWake, SparedBy,
       FullInv, TypeOK, SwitchInv, AdminInv, OrphanInv, Cancelling,
       budget_armed
  <2>5. NoLostTask'
    BY <1>20 DEF ApplyCancel, Dequeue, WakeUp, CanWake, SparedBy,
       FullInv, TypeOK, NoLostTask
  <2> QED BY <2>1, <2>2, <2>3, <2>4, <2>5 DEF FullInv
<1>21. CASE ApplyRestart
  BY <1>21 DEF ApplyRestart, StartPeriod, Expiry, NoOp, FullInv,
     TypeOK, AdminPCs, SwitchInv, AdminInv, OrphanInv, Cancelling,
     NoLostTask, budget_armed
<1>22. ASSUME NEW t \in Task, CancelBegin(t) PROVE FullInv'
  BY <1>22 DEF CancelBegin, FullInv, TypeOK, AdminPCs, SwitchInv,
     AdminInv, OrphanInv, Cancelling, NoLostTask, budget_armed
<1>23. CASE CancelPolicy
  BY <1>23 DEF CancelPolicy, FullInv, TypeOK, AdminPCs, SwitchInv,
     AdminInv, OrphanInv, Cancelling, NoLostTask, budget_armed
<1>24. CASE CancelPeriod
  BY <1>24 DEF CancelPeriod, Dequeue, FullInv, TypeOK, AdminPCs,
     SwitchInv, AdminInv, OrphanInv, Cancelling, NoLostTask,
     budget_armed
<1>25. CASE CancelTimer
  BY <1>25 DEF CancelTimer, Dequeue, FullInv, TypeOK, AdminPCs,
     SwitchInv, AdminInv, OrphanInv, Cancelling, NoLostTask,
     budget_armed
<1>26. CASE CancelUnset
  BY <1>26 DEF CancelUnset, SetPriorities, FullInv, TypeOK, AdminPCs,
     SwitchInv, AdminInv, OrphanInv, Cancelling, NoLostTask,
     budget_armed
<1>27. CASE CancelWake
  BY <1>27 DEF CancelWake, WakeUp, CanWake, SparedBy, SetPriorities,
     NoOp, FullInv, TypeOK, AdminPCs, SwitchInv, AdminInv, OrphanInv,
     Cancelling, NoLostTask, budget_armed
<1>28. CASE SetBudgetDefer
  BY <1>28 DEF SetBudgetDefer, NoOp, FullInv, TypeOK, AdminPCs,
     SwitchInv, AdminInv, OrphanInv, Cancelling, NoLostTask,
     budget_armed
<1>29. CASE StopBegin
  BY <1>29 DEF StopBegin, FullInv, TypeOK, AdminPCs, SwitchInv,
     AdminInv, OrphanInv, Cancelling, NoLostTask, budget_armed
<1>30. CASE StopFinish
  <2>1. TypeOK'
    <3>1. /\ state' \in [Task -> {Runnable, Interruptible, Uninterruptible}]
          /\ on_rq' \subseteq Task /\ spared' \subseteq Task
      BY <1>30 DEF StopFinish, WakeUp, SparedBy, FullInv, TypeOK
    <3>2. /\ compute_time' \in [Task -> 0 .. MaxTime]
          /\ used' \in [Task -> 0 .. MaxTime]
          /\ budget_left' \in [Task -> (0 .. MaxTime) \cup {NotQueued}]
          /\ period_left' \in [Task -> Nat \cup {NotQueued}]
      BY <1>30 DEF StopFinish, Dequeue, FullInv, TypeOK
    <3> QED BY <1>30, <3>1, <3>2 DEF StopFinish, FullInv, TypeOK
  <2>2. SwitchInv'
    BY <1>30 DEF StopFinish, Dequeue, WakeUp, CanWake, SparedBy,
       FullInv, TypeOK, SwitchInv
  <2>3. AdminInv'
    BY <1>30 DEF StopFinish, Dequeue, WakeUp, CanWake, SparedBy,
       FullInv, TypeOK, AdminInv
  <2>4. OrphanInv'
    BY <1>30 DEF StopFinish, Dequeue, WakeUp, CanWake, SparedBy,
       FullInv, TypeOK, SwitchInv, AdminInv, OrphanInv, Cancelling,
       budget_armed
  <2>5. NoLostTask'
    BY <1>30 DEF StopFinish, Dequeue, WakeUp, CanWake, SparedBy,
       FullInv, TypeOK, NoLostTask
  <2> QED BY <2>1, <2>2, <2>3, <2>4, <2>5 DEF FullInv
<1>31. ASSUME NEW placed \in SUBSET listed, SetBinPacking(placed) PROVE
     FullInv'
  BY <1>31 DEF SetBinPacking, FullInv, TypeOK, AdminPCs, SwitchInv,
     AdminInv, OrphanInv, Cancelling, NoLostTask, budget_armed
<1>32. CASE CancelBinPacking
  <2>1. TypeOK'
    BY <1>32 DEF CancelBinPacking, FullInv, TypeOK, AdminPCs, AdminInv
  <2>2. SwitchInv'
    BY <1>32 DEF CancelBinPacking, FullInv, TypeOK, SwitchInv
  <2>3. AdminInv'
    BY <1>32 DEF CancelBinPacking, FullInv, TypeOK, AdminInv
  <2>4. OrphanInv'
    BY <1>32 DEF CancelBinPacking, FullInv, TypeOK, SwitchInv,
       AdminInv, OrphanInv, Cancelling, budget_armed
  <2>5. NoLostTask'
    BY <1>32 DEF CancelBinPacking, FullInv, TypeOK, NoLostTask
  <2> QED BY <2>1, <2>2, <2>3, <2>4, <2>5 DEF FullInv
<1>33. CASE StartScheduling
  BY <1>33 DEF StartScheduling, StartPeriod, Expiry, NoOp, FullInv,
     TypeOK, AdminPCs, SwitchInv, AdminInv, OrphanInv, Cancelling,
     NoLostTask, budget_armed
<1>34. CASE StartGlobal
  BY <1>34 DEF StartGlobal, NoOp, FullInv, TypeOK, AdminPCs, SwitchInv,
     AdminInv, OrphanInv, Cancelling, NoLostTask, budget_armed
<1>35. CASE StartPriority
  BY <1>35 DEF StartPriority, SetPriorities, NoOp, FullInv, TypeOK,
     AdminPCs, SwitchInv, AdminInv, OrphanInv, Cancelling, NoLostTask,
     budget_armed
<1> QED BY <1>1, <1>2, <1>3, <1>4, <1>5, <1>6, <1>7, <1>8, <1>9, <1>10,
     <1>11, <1>12, <1>13, <1>14, <1>15, <1>16, <1>17, <1>18, <1>19,
     <1>20, <1>21, <1>22, <1>23, <1>24, <1>25, <1>26, <1>27, <1>28,
     <1>29, <1>30, <1>31, <1>32, <1>33, <1>34, <1>35 DEF Next, UniNext,
     SteadyNext

\* Every step of UniSpec preserves what it adds to the invariant of Spec.
LEMMA UniStep ==
    ASSUME UniInv, UniNext
    PROVE  UniPart'
<1>1. CASE Tick
  BY <1>1 DEF Tick, MustResched, Sat, budget_armed, period_armed, UniInv,
     UniPart, PeriodInv, CancelStopsPeriods, ReplenishInv, FullInv,
     TypeOK, SwitchInv, AdminInv
<1>2. ASSUME NEW t \in Task, Block(t) PROVE UniPart'
  BY <1>2 DEF Block, Executing, SparedBy, budget_armed, UniInv, UniPart,
     PeriodInv, CancelStopsPeriods, ReplenishInv, period_armed,
     FullInv, TypeOK, SwitchInv, AdminInv
<1>3. ASSUME NEW t \in Task, ForeignWake(t) PROVE UniPart'
  BY <1>3 DEF ForeignWake, WakeUp, CanWake, SparedBy, budget_armed,
     UniInv, UniPart, PeriodInv, CancelStopsPeriods, ReplenishInv, period_armed,
     FullInv, TypeOK, SwitchInv, AdminInv
<1>4. ASSUME NEW t \in Task, BudgetEnter(t) PROVE UniPart'
  BY <1>4 DEF BudgetEnter, Dequeue, budget_armed, UniInv, UniPart, PeriodInv,
     CancelStopsPeriods, ReplenishInv, period_armed, FullInv, TypeOK,
     SwitchInv, AdminInv
<1>5. ASSUME NEW t \in Task, BudgetCallback(t) PROVE UniPart'
  BY <1>5 DEF BudgetCallback, UniInv, UniPart, PeriodInv, CancelStopsPeriods,
     ReplenishInv, period_armed, FullInv, TypeOK, SwitchInv, AdminInv
<1>6. ASSUME NEW t \in Task, PeriodEnter(t) PROVE UniPart'
  BY <1>6 DEF PeriodEnter, Dequeue, UniInv, UniPart, PeriodInv,
     CancelStopsPeriods, ReplenishInv, period_armed, FullInv, TypeOK,
     SwitchInv, AdminInv
<1>7. ASSUME NEW t \in Task, PeriodCallback(t) PROVE UniPart'
  BY <1>7 DEF PeriodCallback, StartPeriod, Expiry, WakeUp, CanWake,
     SparedBy, budget_armed, UniInv, UniPart, PeriodInv, CancelStopsPeriods,
     ReplenishInv, period_armed, FullInv, TypeOK, SwitchInv, AdminInv
<1>8. ASSUME NEW t \in Task, WaitCheck(t) PROVE UniPart'
  BY <1>8 DEF WaitCheck, Executing, UniInv, UniPart, PeriodInv,
     CancelStopsPeriods, ReplenishInv, period_armed, FullInv, TypeOK,
     SwitchInv, AdminInv
<1>9. ASSUME NEW t \in Task, WaitMark(t) PROVE UniPart'
  BY <1>9 DEF WaitMark, Executing, UniInv, UniPart, PeriodInv,
     CancelStopsPeriods, ReplenishInv, period_armed, FullInv, TypeOK,
     SwitchInv, AdminInv
<1>10. ASSUME NEW n \in Task \cup {Other}, NEW a \in BOOLEAN,
            SchedPick(n, a)
     PROVE  UniPart'
  BY <1>10 DEF SchedPick, Charge, Sat, Dequeue, budget_armed, UniInv, UniPart,
     PeriodInv, CancelStopsPeriods, ReplenishInv, period_armed,
     FullInv, TypeOK, SwitchInv, AdminInv
<1>11. CASE SchedStamp
  BY <1>11 DEF SchedStamp, UniInv, UniPart, PeriodInv, CancelStopsPeriods,
     ReplenishInv, period_armed, FullInv, TypeOK, SwitchInv, AdminInv
<1>12. CASE SchedCheck
  BY <1>12 DEF SchedCheck, UniInv, UniPart, PeriodInv, CancelStopsPeriods,
     ReplenishInv, period_armed, FullInv, TypeOK, SwitchInv, AdminInv
<1>13. CASE SchedArm
  BY <1>13 DEF SchedArm, Remaining, Exhausted, budget_armed, UniInv, UniPart, PeriodInv,
     CancelStopsPeriods, ReplenishInv, period_armed, FullInv, TypeOK,
     SwitchInv, AdminInv
<1>14. ASSUME NEW t \in Task, NEW b \in Budgets, SetBudgetBegin(t, b)
     PROVE UniPart'
  BY <1>14 DEF SetBudgetBegin, Dequeue, UniInv, UniPart, PeriodInv,
     CancelStopsPeriods, ReplenishInv, period_armed, FullInv, TypeOK,
     SwitchInv, AdminInv
<1>15. CASE SetBudgetTimer
  BY <1>15 DEF SetBudgetTimer, Dequeue, UniInv, UniPart, PeriodInv,
     CancelStopsPeriods, ReplenishInv, period_armed, FullInv, TypeOK,
     SwitchInv, AdminInv
<1>16. CASE SetBudgetFlag
  BY <1>16 DEF SetBudgetFlag, UniInv, UniPart, PeriodInv, CancelStopsPeriods,
     ReplenishInv, period_armed, FullInv, TypeOK, SwitchInv, AdminInv
<1>17. CASE SetBudgetPriority
  BY <1>17 DEF SetBudgetPriority, SetPriorities, UniInv, UniPart, PeriodInv,
     CancelStopsPeriods, ReplenishInv, period_armed, FullInv, TypeOK,
     SwitchInv, AdminInv
<1>18. ASSUME NEW scale \in Scales, SetBudgetStart(scale) PROVE
     UniPart'
  BY <1>18 DEF SetBudgetStart, StartPeriod, Expiry, NoOp, UniInv, UniPart,
     PeriodInv, CancelStopsPeriods, ReplenishInv, period_armed,
     FullInv, TypeOK, SwitchInv, AdminInv
<1>19. CASE SetBudgetScheme
  BY <1>19 DEF SetBudgetScheme, UniInv, UniPart, PeriodInv, CancelStopsPeriods,
     ReplenishInv, period_armed, FullInv, TypeOK, SwitchInv, AdminInv
<1>20. ASSUME NEW scale \in [Task -> Scales], ApplyCancel(scale) PROVE
     UniPart'
  BY <1>20 DEF ApplyCancel, Dequeue, WakeUp, CanWake, SparedBy, UniInv, UniPart,
     PeriodInv, CancelStopsPeriods, ReplenishInv, period_armed,
     FullInv, TypeOK, SwitchInv, AdminInv
<1>21. CASE ApplyRestart
  BY <1>21 DEF ApplyRestart, StartPeriod, Expiry, NoOp, UniInv, UniPart,
     PeriodInv, CancelStopsPeriods, ReplenishInv, period_armed,
     FullInv, TypeOK, SwitchInv, AdminInv
<1>22. ASSUME NEW t \in Task, CancelBegin(t) PROVE UniPart'
  BY <1>22 DEF CancelBegin, UniInv, UniPart, PeriodInv, CancelStopsPeriods,
     ReplenishInv, period_armed, FullInv, TypeOK, SwitchInv, AdminInv
<1>23. CASE CancelPolicy
  BY <1>23 DEF CancelPolicy, UniInv, UniPart, PeriodInv, CancelStopsPeriods,
     ReplenishInv, period_armed, FullInv, TypeOK, SwitchInv, AdminInv
<1>24. CASE CancelPeriod
  BY <1>24 DEF CancelPeriod, Dequeue, UniInv, UniPart, PeriodInv,
     CancelStopsPeriods, ReplenishInv, period_armed, FullInv, TypeOK,
     SwitchInv, AdminInv
<1>25. CASE CancelTimer
  BY <1>25 DEF CancelTimer, Dequeue, UniInv, UniPart, PeriodInv,
     CancelStopsPeriods, ReplenishInv, period_armed, FullInv, TypeOK,
     SwitchInv, AdminInv
<1>26. CASE CancelUnset
  BY <1>26 DEF CancelUnset, SetPriorities, UniInv, UniPart, PeriodInv,
     CancelStopsPeriods, ReplenishInv, period_armed, FullInv, TypeOK,
     SwitchInv, AdminInv
<1>27. CASE CancelWake
  BY <1>27 DEF CancelWake, WakeUp, CanWake, SparedBy, SetPriorities,
     NoOp, UniInv, UniPart, PeriodInv, CancelStopsPeriods, ReplenishInv,
     period_armed, FullInv, TypeOK, SwitchInv, AdminInv
<1> QED BY <1>1, <1>2, <1>3, <1>4, <1>5, <1>6, <1>7, <1>8, <1>9, <1>10,
     <1>11, <1>12, <1>13, <1>14, <1>15, <1>16, <1>17, <1>18, <1>19,
     <1>20, <1>21, <1>22, <1>23, <1>24, <1>25, <1>26, <1>27 DEF
     UniNext, SteadyNext

-----------------------------------------------------------------------------
\* An idle CPU without timers, the state at boot, is well-typed.
LEMMA IdleTypes ==
    ASSUME IdleCPU
    PROVE  /\ state \in [Task -> {Runnable, Interruptible, Uninterruptible}]
           /\ waiting \in [Task -> {"user", "checked", "marked", "blocked"}]
           /\ compute_time \in [Task -> 0 .. MaxTime]
           /\ exec_age \in [Task -> 0 .. MaxTime]
           /\ used \in [Task -> 0 .. MaxTime]
           /\ budget_left \in [Task -> (0 .. MaxTime) \cup {NotQueued}]
           /\ admin \in [pc : AdminPCs, task : Task \cup {Other},
                         budget : Budgets \cup {0}]
<1>1. 0 \in 0 .. MaxTime
  OBVIOUS
<1> QED BY <1>1 DEF IdleCPU, NoOp, AdminPCs

\* Freshly made reservations satisfy the invariant of SteadySpec.
LEMMA SteadyInitInv == SteadyInit => SteadyInv
<1> SUFFICES ASSUME SteadyInit PROVE SteadyInv
  OBVIOUS
<1>1. PICK s \in Scales : budget_time = [t \in Task |-> min_budget_time[t] * s]
  BY DEF SteadyInit
<1>2. \A t \in Task : budget_time[t] \in 1 .. MaxTime
  BY <1>1 DEF SteadyInit
<1>3. TypeOK
  BY <1>1, <1>2, IdleTypes DEF SteadyInit, IdleCPU, TypeOK
<1>4. SwitchInv /\ Reserved /\ DispatchInv
  BY <1>2 DEF SteadyInit, IdleCPU, SwitchInv, Reserved, DispatchInv, NoOp
<1>5. ArmedWithinBudget /\ ChargeCoversUse /\ WatchedUnlessSpared
  BY DEF SteadyInit, IdleCPU, ArmedWithinBudget, ChargeCoversUse, ChargeCovers,
     WatchedUnlessSpared, budget_armed
<1>6. Task \subseteq period_armed \cup period_firing
  BY DEF SteadyInit, period_armed
<1> QED BY <1>3, <1>4, <1>5, <1>6 DEF SteadyInv

\* The state at boot satisfies the invariants of UniSpec and Spec.
LEMMA InitInv == Init => UniInv
<1> SUFFICES ASSUME Init PROVE UniInv
  OBVIOUS
<1>1. TypeOK
  BY IdleTypes DEF Init, IdleCPU, TypeOK
<1>2. SwitchInv /\ AdminInv /\ OrphanInv /\ NoLostTask
  BY DEF Init, IdleCPU, NoOp, SwitchInv, AdminInv, OrphanInv, NoLostTask,
     budget_armed
<1>3. PeriodInv /\ ReplenishInv /\ ~is_bin_packing_set
  BY DEF Init, IdleCPU, NoOp, PeriodInv, CancelStopsPeriods, ReplenishInv,
     period_armed
<1> QED BY <1>1, <1>2, <1>3 DEF UniInv, UniPart, FullInv

\* A stuttering step preserves the invariant of SteadySpec.
LEMMA SteadyStutter == SteadyInv /\ UNCHANGED vars => SteadyInv'
  BY DEF vars, SteadyInv, TypeOK, SwitchInv, Reserved, DispatchInv,
     ArmedWithinBudget, ChargeCoversUse, ChargeCovers, WatchedUnlessSpared,
     budget_armed, period_armed

\* A stuttering step preserves the invariant of Spec.
LEMMA FullStutter == FullInv /\ UNCHANGED vars => FullInv'
  BY DEF vars, FullInv, TypeOK, SwitchInv, AdminInv, OrphanInv, Cancelling,
     NoLostTask, budget_armed

\* A stuttering step preserves what UniSpec adds to it.
LEMMA UniStutter ==
    UniInv /\ UNCHANGED vars => UniPart'
  BY DEF vars, UniInv, UniPart, PeriodInv, CancelStopsPeriods, ReplenishInv, period_armed

-----------------------------------------------------------------------------
\* SteadyInv is an invariant once the reservations are made.
LEMMA SteadyInvariant == SteadySpec => []SteadyInv
<1>1. SteadyInv /\ [SteadyNext]_vars => SteadyInv'
  BY SteadyStep, SteadyStutter
<1> QED BY SteadyInitInv, <1>1, PTL DEF SteadySpec

\* FullInv is an invariant whatever syscalls arrive.
LEMMA FullInvariant == Spec => []FullInv
<1>1. Init => FullInv
  BY InitInv DEF UniInv
<1>2. FullInv /\ [Next]_vars => FullInv'
  BY FullStep, FullStutter
<1> QED BY <1>1, <1>2, PTL DEF Spec

\* UniInv is an invariant outside the partitioned mode.
LEMMA UniInvariant == UniSpec => []UniInv
<1>1. UniInv /\ [UniNext]_vars => UniInv'
  <2> SUFFICES ASSUME UniInv, [UniNext]_vars PROVE UniInv'
    OBVIOUS
  <2>1. FullInv'
    BY FullStep, FullStutter DEF UniInv, Next
  <2>2. UniPart'
    BY UniStep, UniStutter
  <2> QED BY <2>1, <2>2 DEF UniInv
<1> QED BY InitInv, <1>1, PTL DEF UniSpec

\* Whatever syscalls arrive, in whatever order and interleaving, the state stays
\* well-typed.
THEOREM TypeCorrect == Spec => []TypeOK
<1>1. FullInv => TypeOK
  BY DEF FullInv
<1> QED BY FullInvariant, <1>1, PTL

\* With its reservations made, no task runs past its budget on a queued budget
\* timer, whatever replenishments, waits, wake-ups and preemptions interleave.
THEOREM TimerWithinBudget == SteadySpec => []ArmedWithinBudget
<1>1. SteadyInv => ArmedWithinBudget
  BY DEF SteadyInv
<1> QED BY SteadyInvariant, <1>1, PTL

\* The charge __schedule accounts for never undercuts the consumption.
THEOREM ChargeSound == SteadySpec => []ChargeCoversUse
<1>1. SteadyInv => ChargeCoversUse
  BY DEF SteadyInv
<1> QED BY SteadyInvariant, <1>1, PTL

\* A running task is watched and within its budget, but for the one window in
\* which its throttle mark is wiped.
THEOREM RunningIsWatched == SteadySpec => []WatchedUnlessSpared
<1>1. SteadyInv => WatchedUnlessSpared
  BY DEF SteadyInv
<1> QED BY SteadyInvariant, <1>1, PTL

\* cancelBudget leaves no budget timer behind, because it passes through rq->lock
\* after it has cleared the flag.
THEOREM CancelLeavesNoTimer == Spec => []CancelledHasNoTimer
<1>1. FullInv => CancelledHasNoTimer
  BY DEF FullInv, OrphanInv, Cancelling, CancelledHasNoTimer
<1> QED BY FullInvariant, <1>1, PTL

\* No task is lost off the run queue in the running state.
THEOREM TasksNotLost == Spec => []NoLostTask
<1>1. FullInv => NoLostTask
  BY DEF FullInv
<1> QED BY FullInvariant, <1>1, PTL

\* Without the partitioned mode, a reserved task keeps its period timer.
THEOREM ReservationsReplenished == UniSpec => []ReservedIsReplenished
<1>1. UniInv => ReservedIsReplenished
  BY DEF UniInv, UniPart, ReplenishInv, ReservedIsReplenished
<1> QED BY UniInvariant, <1>1, PTL

\* A task whose period was cancelled has no period timer that would replenish it.
THEOREM CancelledPeriodsStop == UniSpec => []CancelStopsPeriods
<1>1. UniInv => CancelStopsPeriods
  BY DEF UniInv, UniPart, PeriodInv
<1> QED BY UniInvariant, <1>1, PTL

\* Only the second loop of apply_sysclock and apply_pmclock queues a period timer
\* whose callback is running.
THEOREM OnlyApplyTripsTheBug == UniSpec => OnlyApplyQueuesInCallback
<1> DEFINE Twice == period_armed \cap period_firing
<1>1. ASSUME UniInv, UniNext, admin.pc # "restart" PROVE Twice' \subseteq Twice
  <2>1. ASSUME NEW t \in Task, PeriodEnter(t) PROVE Twice' \subseteq Twice
    BY <2>1 DEF PeriodEnter, Dequeue, period_armed, UniInv, FullInv, TypeOK
  <2>2. ASSUME NEW t \in Task, PeriodCallback(t) PROVE Twice' \subseteq Twice
    BY <2>2 DEF PeriodCallback, StartPeriod, period_armed, UniInv, FullInv, TypeOK
  <2>3. CASE Tick
    BY <2>3 DEF Tick, period_armed, UniInv, FullInv, TypeOK
  <2>4. ASSUME NEW t \in Task, NEW b \in Budgets, SetBudgetBegin(t, b)
        PROVE  Twice' \subseteq Twice
    BY <2>4 DEF SetBudgetBegin, Dequeue, period_armed, UniInv, FullInv, TypeOK
  <2>5. ASSUME NEW scale \in Scales, SetBudgetStart(scale) PROVE Twice' \subseteq Twice
    BY <2>5 DEF SetBudgetStart, StartPeriod, period_armed, UniInv, UniPart, PeriodInv,
       FullInv, TypeOK
  <2>6. ASSUME NEW scale \in [Task -> Scales], ApplyCancel(scale)
        PROVE  Twice' \subseteq Twice
    BY <2>6 DEF ApplyCancel, Dequeue, period_armed, UniInv, FullInv, TypeOK
  <2>7. CASE CancelPeriod
    BY <2>7 DEF CancelPeriod, Dequeue, period_armed, UniInv, FullInv, TypeOK
  <2>8. CASE UNCHANGED <<period_left, period_firing>>
    BY <2>8 DEF period_armed
  <2>9. ASSUME NEW t \in Task, \/ Block(t) \/ ForeignWake(t) \/ BudgetEnter(t)
                               \/ BudgetCallback(t) \/ WaitCheck(t) \/ WaitMark(t)
                               \/ CancelBegin(t)
        PROVE  UNCHANGED <<period_left, period_firing>>
    BY <2>9 DEF Block, ForeignWake, BudgetEnter, BudgetCallback, WaitCheck, WaitMark,
       CancelBegin
  <2>10. ASSUME NEW n \in Task \cup {Other}, NEW a \in BOOLEAN, SchedPick(n, a)
         PROVE  UNCHANGED <<period_left, period_firing>>
    BY <2>10 DEF SchedPick
  <2>11. CASE \/ SchedStamp \/ SchedCheck \/ SchedArm
              \/ SetBudgetTimer \/ SetBudgetFlag \/ SetBudgetPriority \/ SetBudgetScheme
    BY <2>8, <2>11 DEF SchedStamp, SchedCheck, SchedArm, SetBudgetTimer, SetBudgetFlag,
       SetBudgetPriority, SetBudgetScheme
  <2>12. CASE CancelPolicy \/ CancelTimer \/ CancelUnset \/ CancelWake
    BY <2>8, <2>12 DEF CancelPolicy, CancelTimer, CancelUnset, CancelWake
  <2>13. ~ApplyRestart
    BY <1>1 DEF ApplyRestart
  <2> QED BY <1>1, <2>1, <2>2, <2>3, <2>4, <2>5, <2>6, <2>7, <2>8, <2>9, <2>10, <2>11,
           <2>12, <2>13 DEF UniNext, SteadyNext
<1>2. UniInv /\ [UniNext]_vars =>
        [\A t \in Twice' \ Twice : admin.pc = "restart"]_vars
  BY <1>1
<1> QED BY UniInvariant, <1>2, PTL DEF UniSpec, OnlyApplyQueuesInCallback

-----------------------------------------------------------------------------
(***************************************************************************)
(* BudgetEnforcement, its reservations made, implements Reservation.       *)
(***************************************************************************)

\* A spared task has the CPU, the periods are those asked for, and a period timer
\* is not queued while its callback runs.
MapInv ==
    /\ spared \subseteq {curr}
    /\ time_period = Period
    /\ period_armed \cap period_firing = {}

RefineInv == SteadyInv /\ MapInv

\* What Reservation sees of a step that neither grants time nor replenishes.
Seen == UNCHANGED <<budget_time, used, Until>>
Kept == curr' = curr /\ Escaped' = Escaped
Gone == curr' = curr /\ curr \in Task /\ Escaped' = Escaped \cup {curr}
Back == curr' = curr /\ curr \in Task /\ Escaped' = Escaped \ {curr}
AbstractStep == Abstract!Next \/ UNCHANGED Abstract!vars

\* Freshly made reservations are an initial state of Reservation.
LEMMA RefineInit == SteadyInit => MapInv /\ Abstract!Init
<1> SUFFICES ASSUME SteadyInit PROVE MapInv /\ Abstract!Init
  OBVIOUS
<1>1. PICK s \in Scales : budget_time = [t \in Task |-> min_budget_time[t] * s]
  BY DEF SteadyInit
<1>2. budget_time \in [Task -> 1 .. MaxTime]
  BY <1>1 DEF SteadyInit
<1>3. Until = Period
  BY DEF SteadyInit, IdleCPU, Until
<1>4. Escaped = {}
  BY DEF SteadyInit, IdleCPU, Escaped
<1>5. MapInv
  BY DEF SteadyInit, IdleCPU, MapInv
<1> QED BY <1>2, <1>3, <1>4, <1>5 DEF SteadyInit, IdleCPU, Abstract!Init

\* Every step of SteadySpec keeps the mapping well defined.
LEMMA MapStep ==
    ASSUME SteadyInv, MapInv, SteadyNext
    PROVE  MapInv'
<1>1. CASE Tick
  BY <1>1 DEF Tick, MapInv, SteadyInv, TypeOK, period_armed
<1>2. ASSUME NEW t \in Task, \/ Block(t) \/ ForeignWake(t) \/ BudgetEnter(t)
                             \/ BudgetCallback(t) \/ WaitCheck(t) \/ WaitMark(t)
      PROVE  MapInv'
  BY <1>2 DEF Block, ForeignWake, BudgetEnter, BudgetCallback, WaitCheck, WaitMark,
     WakeUp, SparedBy, MapInv, period_armed
<1>3. ASSUME NEW t \in Task, PeriodEnter(t) PROVE MapInv'
  BY <1>3 DEF PeriodEnter, Dequeue, MapInv, SteadyInv, TypeOK, period_armed
<1>4. ASSUME NEW t \in Task, PeriodCallback(t) PROVE MapInv'
  BY <1>4 DEF PeriodCallback, StartPeriod, WakeUp, SparedBy, MapInv, SteadyInv,
     TypeOK, period_armed
<1>5. ASSUME NEW n \in Task \cup {Other}, NEW a \in BOOLEAN, SchedPick(n, a)
      PROVE  MapInv'
  BY <1>5 DEF SchedPick, MapInv, period_armed
<1>6. CASE SchedStamp \/ SchedCheck \/ SchedArm
  BY <1>6 DEF SchedStamp, SchedCheck, SchedArm, MapInv, period_armed
<1> QED BY <1>1, <1>2, <1>3, <1>4, <1>5, <1>6 DEF SteadyNext

\* A tick is granted to a task that is entitled to it or has escaped.
LEMMA TickRefines ==
    ASSUME RefineInv, Tick
    PROVE  Abstract!Tick
<1> USE DEF RefineInv
<1>1. \A t \in Task : Until[t] > 0
  BY DEF Tick, Until, SteadyInv, TypeOK, period_armed
<1>2. curr \in Task \ Escaped => used[curr] < budget_time[curr]
  <2> SUFFICES ASSUME curr \in Task \ Escaped PROVE used[curr] < budget_time[curr]
    OBVIOUS
  <2>1. pc = "idle" /\ budget_firing = {} /\ curr \notin spared
    BY DEF Tick, Escaped
  <2>2. curr \in budget_armed
    <3>1. CASE state[curr] = Uninterruptible
      BY <2>1, <3>1 DEF Tick, MustResched, Escaped
    <3>2. CASE state[curr] # Uninterruptible
      BY <2>1, <3>2 DEF SteadyInv, Reserved, WatchedUnlessSpared
    <3> QED BY <3>1, <3>2
  <2> QED BY <2>2 DEF Tick, SteadyInv, TypeOK, ArmedWithinBudget, budget_armed, Reserved
<1>3. Until' = [t \in Task |-> Until[t] - 1]
  BY DEF Tick, Until, SteadyInv, TypeOK, period_armed
<1>4. Escaped' = Escaped
  <2>1. budget_armed' = budget_armed
    BY DEF Tick, SteadyInv, TypeOK, budget_armed
  <2> QED BY <2>1 DEF Tick, Escaped
<1>5. used' = [t \in Task |-> IF t = curr THEN Abstract!Saturate(used[t] + 1) ELSE used[t]]
  BY DEF Tick, Sat, Abstract!Saturate
<1> QED BY <1>1, <1>2, <1>3, <1>4, <1>5 DEF Tick, Abstract!Tick

\* The period callback is the replenishment.
LEMMA PeriodRefines ==
    ASSUME RefineInv, NEW t \in Task, PeriodCallback(t)
    PROVE  Abstract!Replenish(t)
<1> USE DEF RefineInv
<1>1. Until[t] = 0
  BY DEF PeriodCallback, Until
<1>2. Until' = [Until EXCEPT ![t] = Period[t]]
  <2>1. Expiry(time_period[t]) = Period[t]
    BY DEF Expiry, MapInv
  <2>2. \A u \in Task : Until'[u] = IF u = t THEN Period[t] ELSE Until[u]
    BY <2>1 DEF PeriodCallback, StartPeriod, Until, SteadyInv, TypeOK
  <2> QED BY <2>2 DEF Until
<1>3. Escaped' \in {Escaped, Escaped \cup ({t} \cap {curr})}
  <2>1. \A u \in Task : u # t => (u \in Escaped' <=> u \in Escaped)
    BY DEF PeriodCallback, WakeUp, SparedBy, Escaped, SteadyInv, TypeOK, budget_armed
  <2>2. t \in Escaped => t \in Escaped'
    BY DEF PeriodCallback, WakeUp, SparedBy, Escaped, SteadyInv, TypeOK, budget_armed
  <2>3. t \in Escaped' => t \in Escaped \/ curr = t
    BY DEF PeriodCallback, WakeUp, SparedBy, Escaped, SteadyInv, TypeOK, budget_armed
  <2>4. Escaped \subseteq Task /\ Escaped' \subseteq Task
    BY DEF PeriodCallback, WakeUp, SparedBy, Escaped, SteadyInv, TypeOK
  <2>5. CASE t \in Escaped' /\ t \notin Escaped
    <3>1. Escaped' = Escaped \cup ({t} \cap {curr})
      BY <2>1, <2>3, <2>4, <2>5
    <3> QED BY <3>1
  <2>6. CASE ~(t \in Escaped' /\ t \notin Escaped)
    <3>1. Escaped' = Escaped
      BY <2>1, <2>2, <2>4, <2>6
    <3> QED BY <3>1
  <2> QED BY <2>5, <2>6
<1> QED BY <1>1, <1>2, <1>3 DEF PeriodCallback, Abstract!Replenish

\* Every other step leaves consumption and periods alone: it dispatches, lets the
\* running task escape, or is invisible.
LEMMA OtherRefines ==
    ASSUME RefineInv, SteadyNext, ~Tick, \A t \in Task : ~PeriodCallback(t)
    PROVE  AbstractStep
<1> USE DEF RefineInv
<1>0. Seen /\ (Kept \/ Gone \/ Back) => AbstractStep
  <2>1. Seen /\ Gone => Abstract!Escape
    BY DEF Abstract!Escape, Seen, Gone
  <2>2. Seen /\ Back => Abstract!Dispatch(curr)
    BY DEF Abstract!Dispatch, Seen, Back
  <2>3. Seen /\ Kept => UNCHANGED Abstract!vars
    BY DEF Abstract!vars, Seen, Kept
  <2>4. Back => curr \in Task \cup {Other}
    BY DEF Back
  <2> QED BY <2>1, <2>2, <2>3, <2>4 DEF Abstract!Next, AbstractStep
<1>1. ASSUME NEW t \in Task, Block(t) PROVE Seen /\ (Kept \/ Gone \/ Back)
  BY <1>1 DEF Seen, Kept, Gone, Back, Block, Executing, SparedBy, Escaped, Until, budget_armed, SteadyInv, TypeOK
<1>2. ASSUME NEW t \in Task, ForeignWake(t) PROVE Seen /\ (Kept \/ Gone \/ Back)
  BY <1>2 DEF Seen, Kept, Gone, Back, ForeignWake, WakeUp, SparedBy, Escaped, Until, budget_armed, SteadyInv, TypeOK
<1>3. ASSUME NEW t \in Task, BudgetEnter(t) PROVE Seen /\ Kept
  BY <1>3 DEF Seen, Kept, Gone, Back, BudgetEnter, Dequeue, Escaped, Until, budget_armed, SteadyInv, TypeOK
<1>4. ASSUME NEW t \in Task, BudgetCallback(t) PROVE Seen /\ (Kept \/ Gone)
  BY <1>4 DEF Seen, Kept, Gone, Back, BudgetCallback, Escaped, Until, budget_armed, SteadyInv, TypeOK, ArmedWithinBudget
<1>5. ASSUME NEW t \in Task, PeriodEnter(t) PROVE Seen /\ Kept
  BY <1>5 DEF Seen, Kept, Gone, Back, PeriodEnter, Dequeue, Escaped, Until, budget_armed, SteadyInv, TypeOK
<1>6. ASSUME NEW t \in Task, WaitCheck(t) PROVE Seen /\ Kept
  BY <1>6 DEF Seen, Kept, Gone, Back, WaitCheck, Escaped, Until, budget_armed
<1>7. ASSUME NEW t \in Task, WaitMark(t) PROVE Seen /\ (Kept \/ Back)
  BY <1>7 DEF Seen, Kept, Gone, Back, WaitMark, Executing, Escaped, Until, budget_armed, MapInv, SteadyInv, TypeOK
<1>8. ASSUME NEW n \in Task \cup {Other}, NEW a \in BOOLEAN, SchedPick(n, a)
      PROVE  AbstractStep
  <2>1. Seen
    BY <1>8 DEF Seen, SchedPick, Until
  <2>2. CASE n = curr
    <3>1. curr' = curr /\ spared' = spared /\ budget_left' = budget_left /\ pc' = "idle"
      BY <1>8, <2>2 DEF SchedPick
    <3>2. \A u \in Task : u # curr => (u \in Escaped' <=> u \in Escaped)
      BY <1>8, <3>1 DEF SchedPick, Escaped, budget_armed
    <3>3. Escaped \subseteq Task /\ Escaped' \subseteq Task
      BY <1>8, <3>1 DEF SchedPick, Escaped, SteadyInv, TypeOK
    <3>4. Kept \/ Gone \/ Back
      BY <1>8, <3>1, <3>2, <3>3 DEF Kept, Gone, Back, Escaped, SteadyInv, TypeOK
    <3> QED BY <2>1, <3>4, <1>0
  <2>3. CASE n # curr
    <3>1. Escaped' = Escaped \ {curr}
      BY <1>8, <2>3 DEF SchedPick, Escaped, budget_armed, MapInv
    <3> QED BY <1>8, <2>1, <3>1
           DEF Seen, SchedPick, Abstract!Next, Abstract!Dispatch, AbstractStep
  <2> QED BY <2>2, <2>3
<1>9. CASE SchedStamp
  <2>1. Seen /\ Kept
    BY <1>9 DEF Seen, Kept, SchedStamp, Escaped, Until, budget_armed
  <2> QED BY <2>1, <1>0
<1>10. ASSUME SchedCheck \/ SchedArm
       PROVE  AbstractStep
  <2>1. Seen /\ curr' = curr /\ curr \in Task
    BY <1>10 DEF Seen, SchedCheck, SchedArm, Until, SteadyInv, SwitchInv
  <2>2. \A u \in Task : u # curr => (u \in Escaped' <=> u \in Escaped)
    BY <1>10 DEF SchedCheck, SchedArm, Escaped
  <2>3. Escaped \subseteq Task /\ Escaped' \subseteq Task
    BY <1>10 DEF SchedCheck, SchedArm, Escaped, SteadyInv, TypeOK
  <2>4. Kept \/ Gone \/ Back
    BY <2>1, <2>2, <2>3 DEF Kept, Gone, Back
  <2> QED BY <2>1, <2>4, <1>0
<1> QED BY <1>0, <1>1, <1>2, <1>3, <1>4, <1>5, <1>6, <1>7, <1>8, <1>9, <1>10
     DEF SteadyNext

\* Once the reservations are made, scheduler and timers implement the abstract
\* reservation, for any number of tasks, any periods, budgets and priorities.
THEOREM SteadyImplementsReservation == SteadySpec => ImplementsReservation
<1>1. RefineInv /\ [SteadyNext]_vars => MapInv'
  <2>1. RefineInv /\ UNCHANGED vars => MapInv'
    BY DEF vars, RefineInv, MapInv, period_armed
  <2> QED BY <2>1, MapStep DEF RefineInv
<1>2. RefineInv /\ [SteadyNext]_vars => [Abstract!Next]_(Abstract!vars)
  <2>1. RefineInv /\ UNCHANGED vars => UNCHANGED Abstract!vars
    BY DEF vars, Abstract!vars, Until, Escaped, budget_armed
  <2>2. ASSUME RefineInv, SteadyNext PROVE [Abstract!Next]_(Abstract!vars)
    BY <2>2, TickRefines, PeriodRefines, OtherRefines DEF Abstract!Next, AbstractStep
  <2> QED BY <2>1, <2>2
<1>3. SteadyInit => MapInv /\ Abstract!Init
  BY RefineInit
<1> QED BY <1>1, <1>2, <1>3, SteadyInvariant, PTL
     DEF SteadySpec, RefineInv, ImplementsReservation, Abstract!Spec
=============================================================================
