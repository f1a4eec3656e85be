---------------------------- MODULE MCPartitioned ----------------------------
(* A small instance of Partitioned, and what the algorithms compute for every  *)
(* task set that gets registered.                                              *)
EXTENDS Partitioned

Reserve(b, p) == [budget |-> b, period |-> p]

MCRequest == {Reserve(0, 8), Reserve(2, 5), Reserve(4, 5), Reserve(2, 8), Reserve(5, 8),
              Reserve(1, 16)}

MCSymmetry == Permutations(Process)

\* Every task set is met before anything is packed or started; it is looked at then.
Fresh == Packed = {} /\ is_budget_set = {} /\ ~started

list == IF Fresh THEN TaskArray(task, registry) ELSE <<>>

Positive == \A i \in DOMAIN list : list[i].budget > 0

\* What scheme makes of the registry on CPUs that are empty.
PackedBy(scheme) == bin_packing(task, registry, scheme, EmptyCpus, affinity)

-----------------------------------------------------------------------------

\* rt_test accepts a task exactly if time-demand analysis does: the iteration
\* neither stops at a value that is no fixed point nor runs past the least one.
RtTestIsTimeDemand ==
    \A pos \in DOMAIN list : rt_test(list, pos) <=> TimeDemandMet(list, pos)

\* __check_admission accepts a task set exactly if a preemptive scheduler that
\* runs the shorter period first meets every deadline from the critical instant.
AdmissionMeetsDeadlines == __check_admission(list) <=> MeetsDeadlines(list)

\* check_admission puts a new task before, add_periodic_task behind, the tasks of
\* the same period: the verdict does not depend on it.
TieOrderIrrelevant ==
    \A i \in 1 .. Len(list) - 1 :
        list[i].period = list[i + 1].period =>
            LET swapped == [list EXCEPT ![i] = list[i + 1], ![i + 1] = list[i]]
            IN  __check_admission(list) <=> __check_admission(swapped)

\* A packing that succeeds places every process; next fit, which reports success
\* all the same, leaves out only what every CPU refuses to the end.
PackingIsTotal ==
    Fresh => \A scheme \in Scheme : LET s == PackedBy(scheme) IN
        ~s.failed => \A p \in Registered :
            \/ \E c \in Cpu : p \in Range(s.cpus.list[c])
            \/ scheme = NextFit /\ \A c \in Cpu : ~Admits(s, c, p)

\* First fit opens a CPU only for what the ones before refuse, to the end, and fails
\* only over a process that every CPU refuses.
FirstFitLeavesNoRoom ==
    Fresh => LET s == PackedBy(0) IN
        /\ \A c \in Cpu : \A d \in 0 .. c - 1, p \in Range(s.cpus.list[c]) : ~Admits(s, d, p)
        /\ s.failed => registry = <<>> \/ \E p \in Registered : \A c \in Cpu : ~Admits(s, c, p)

\* Where sysclock starts a task with its busy period, alpha is the least frequency
\* at which the task meets its deadline, or twice the highest if the CPU is busy up
\* to the deadline.
AlphaIsLeastFrequency ==
    Positive /\ __check_admission(list) =>
        \A pos \in DOMAIN list : AlphaTrace(list)[pos - 1].in_bzp =>
            LET alpha == Alphas(list)[pos]
                least == LeastFrequency(list, pos)
            IN  alpha = least \/ (alpha = 2 * SCALE_UP_FACTOR /\ least = SCALE_UP_FACTOR)

\* The task sets at which PM-Clock is looked at: the one registered, and before there
\* is any some of four tasks.
PmclockLists ==
    IF registry # <<>> THEN {list}
    ELSE {<<Reserve(2, 4), Reserve(1, 9), Reserve(4, 31), Reserve(3, 31)>>,
          <<Reserve(1, 4), Reserve(1, 4), Reserve(2, 7), Reserve(1, 22)>>,
          <<Reserve(1, 7), Reserve(4, 9), Reserve(1, 9), Reserve(1, 31)>>}

\* Where sysclock's alphas are right, pmclock's frequencies do not grow with the
\* period, stay within sysclock's, and are at most the thousandth they are rounded by
\* below what every deadline needs.  The unit is long enough for the rounding of the
\* stretched budgets to stay below the time that thousandth gains.
PmclockMeetsDeadlines ==
    LET unit == 10000
        long(l) == [i \in DOMAIN l |-> Reserve(unit * l[i].budget, unit * l[i].period)]
        positive(l) == \A i \in DOMAIN l : l[i].budget > 0
        right(l) == \A pos \in DOMAIN l : Alphas(l)[pos] = LeastFrequency(l, pos)
    IN  \A l \in PmclockLists \ {<<>>} :
          positive(l) /\ __check_admission(l) /\ right(l) =>
            \A pm_freq \in {pmclock(long(l), Alphas(l))} :
                /\ \A i \in 2 .. Len(l) : pm_freq[i] <= pm_freq[i - 1]
                /\ pm_freq[1] <= sysclock(l)
                /\ FeasibleAt(l, [i \in DOMAIN l |-> pm_freq[i] + 1])

-----------------------------------------------------------------------------
(***************************************************************************)
(* What a comment of the code says, and the code does not do.              *)
(***************************************************************************)

\* sched.c:1568, "Setting the min sysclock frequency for this task": sysclock's
\* frequency is enough for every task of an admitted set.
SysclockSuffices ==
    Positive /\ __check_admission(list) =>
        \A pos \in DOMAIN list : LeastFrequency(list, pos) <= sysclock(list)
=============================================================================
