----------------------------- MODULE RTAdmission -----------------------------
(***************************************************************************)
(* The admission test of setProcessBudget: response-time analysis of a     *)
(* task set sorted by period, in microseconds.  Pure functions.            *)
(*                                                                         *)
(* A task set is a sequence of [budget, period] records, the highest       *)
(* priority first.  The code's arrays start at 0, sequences at 1.          *)
(***************************************************************************)
EXTENDS Integers, Sequences, SequencesExt, FiniteSetsExt

CONSTANT NsPerUs     \* nanoseconds in a microsecond

ASSUME NsPerUsAssumption == NsPerUs \in Nat \ {0}

SCALE_UP_FACTOR == 1000

convert_to_usecs(time) == time \div NsPerUs

\* Mutant: the last job begun is not counted.
floor(numerator, denominator) == numerator \div denominator

ceiling(numerator, denominator) ==
    IF numerator % denominator > 0 THEN numerator \div denominator + 1
    ELSE numerator \div denominator

\* The work that must be done by time a for task pos to have finished a job.
demand(list, pos, a) ==
    list[pos].budget
      + SumFunction([i \in 1 .. pos - 1 |-> ceiling(a, list[i].period) * list[i].budget])

\* Mutant: finishing exactly at the deadline is too late.
rt_test_strict(list, pos) ==
    LET stationary[a \in Nat] ==
          /\ a < list[pos].period
          /\ demand(list, pos, a) # a => stationary[demand(list, pos, a)]
    IN  stationary[SumFunction([i \in 1 .. pos |-> list[i].budget])]

\* The iteration grows until it is stationary or misses the deadline.
rt_test(list, pos) ==
    LET stationary[a \in Nat] ==
          /\ a <= list[pos].period
          /\ demand(list, pos, a) # a => stationary[demand(list, pos, a)]
    IN  stationary[SumFunction([i \in 1 .. pos |-> list[i].budget])]

\* Mutant: the loop ends one task early.
check_admission_short(list) == \A pos \in 1 .. Len(list) - 1 : rt_test(list, pos)

__check_admission(list) == \A pos \in 1 .. Len(list) : rt_test(list, pos)

InUsecs(task) == [budget |-> convert_to_usecs(task.budget),
                  period |-> convert_to_usecs(task.period)]

\* The new task goes before the first listed one whose period is not shorter; it
\* is tested alone against a processor without reservations.
AdmitsTo(list, new) ==
    LET later == SelectInSeq(list, LAMBDA u : new.period <= u.period)
    IN  IF list = <<>>
        THEN (new.budget * SCALE_UP_FACTOR) \div new.period <= SCALE_UP_FACTOR
        ELSE __check_admission(InsertAt(list, IF later = 0 THEN Len(list) + 1
                                              ELSE later, new))

\* tasks holds the admitted reservations in nanoseconds.
check_admission(tasks, budget, period) ==
    AdmitsTo([i \in 1 .. Len(tasks) |-> InUsecs(tasks[i])],
             InUsecs([budget |-> budget, period |-> period]))

-----------------------------------------------------------------------------
(***************************************************************************)
(* The priorities asked for, of a list sorted by period.                   *)
(***************************************************************************)

\* Mutant: the rank grows with every task.
RankEach(order, pos, period) == pos

\* The first task has rank 1; the rank grows where the period does.
Rank(order, pos, period) ==
    Cardinality({i \in 1 .. pos :
        period[order[i]] > (IF i = 1 THEN 0 ELSE period[order[i - 1]])})

-----------------------------------------------------------------------------
(***************************************************************************)
(* References.                                                             *)
(***************************************************************************)

\* Time-demand analysis: at some moment up to the deadline of task pos all the
\* work released so far by it and by the tasks before it fits.
TimeDemandMet(list, pos) ==
    \E a \in 1 .. list[pos].period : demand(list, pos, a) <= a

\* What a preemptive fixed-priority processor does from the critical instant on:
\* at each unit of time the first task with pending work gets it.
Served(list) ==
    LET job == DOMAIN list
        at[now \in Nat] ==
          IF now = 0
          THEN [pending |-> [i \in job |-> list[i].budget], done |-> [i \in job |-> 0]]
          ELSE LET s == at[now - 1]
                   ready == {i \in job : s.pending[i] > 0}
                   runs(i) == ready # {} /\ i = Min(ready)
                   released(i) == IF now % list[i].period = 0 THEN list[i].budget ELSE 0
               IN  [pending |-> [i \in job |-> s.pending[i] + released(i)
                                                 - (IF runs(i) THEN 1 ELSE 0)],
                    done |-> [i \in job |-> s.done[i] + (IF runs(i) THEN 1 ELSE 0)]]
    IN  at

\* Every task completes its first job by its deadline.
MeetsDeadlines(list) ==
    \A i \in DOMAIN list : Served(list)[list[i].period].done[i] >= list[i].budget
=============================================================================
