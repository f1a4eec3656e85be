------------------------------ MODULE BinPacking ------------------------------
(***************************************************************************)
(* The assignment of the registered processes to CPUs, as a function of    *)
(* the registry, of what the CPUs hold and of the scheme.  CPUs are        *)
(* numbered from 0.                                                        *)
(*                                                                         *)
(* cpus is a record of functions on the CPUs: the list of processes,       *)
(* sorted by period, their number as the code counts it, and the           *)
(* utilization left.  task is a record of the functions budget and period  *)
(* on the processes: in the partitioned mode setProcessBudget gives        *)
(* budget_time and min_budget_time the same value.                         *)
(***************************************************************************)
EXTENDS SysClock

CONSTANTS
    Process,
    MAX_CPU          \* also the max_bins of bin_packing

ASSUME MaxCpuAssumption == MAX_CPU \in Nat \ {0}
ASSUME ProcessAssumption == IsFiniteSet(Process)

Cpu == 0 .. MAX_CPU - 1
Scheme == 0 .. 4          \* first, next, best, worst fit, worst fit on all CPUs
NextFit == 1

Usecs(task, p) == InUsecs([budget |-> task.budget[p], period |-> task.period[p]])

Util(task, p) == (Usecs(task, p).budget * SCALE_UP_FACTOR) \div Usecs(task, p).period

\* make_task_ct_struct: the array of a list of processes.
TaskArray(task, order) == [i \in DOMAIN order |-> Usecs(task, order[i])]

\* bubble_sort: by decreasing utilization, ties in the order of the registry.
sort_periodic_tasklist(task, registry) ==
    LET util(i) == Util(task, registry[i])
        before(i, j) == util(i) > util(j) \/ (util(i) = util(j) /\ i < j)
        place(i) == Cardinality({j \in DOMAIN registry : before(j, i)}) + 1
    IN  [k \in DOMAIN registry |-> registry[CHOOSE i \in DOMAIN registry : place(i) = k]]

\* Mutant: what the CPU holds is not considered.
admission_alone(task, cpus, cpu, p) == AdmitsTo(<<>>, Usecs(task, p))

check_admission_per_cpu(task, cpus, cpu, p) ==
    AdmitsTo(IF cpus.size[cpu] = 0 THEN <<>> ELSE TaskArray(task, cpus.list[cpu]),
             Usecs(task, p))

\* Mutant: at the end of the list.
add_at_end(task, cpus, cpu, p) ==
    [cpus EXCEPT !.list[cpu] = Append(@, p), !.size[cpu] = @ + 1]

\* Before the first process with a longer period.
add_task_to_cpu(task, cpus, cpu, p) ==
    LET list == IF cpus.size[cpu] = 0 THEN <<>> ELSE cpus.list[cpu]
        later == SelectInSeq(list, LAMBDA q : task.period[q] > task.period[p])
    IN  [cpus EXCEPT !.list[cpu] = InsertAt(list, IF later = 0 THEN Len(list) + 1 ELSE later, p),
                     !.size[cpu] = @ + 1]

\* The first bin with the n-th smallest remainder, n from 0: of bins with the same
\* remainder only the first is ever returned.
get_util_bin(cpu_util, n, current_bins) ==
    LET bins == 0 .. current_bins - 1
        nth(b) == /\ Cardinality({c \in bins : cpu_util[c] < cpu_util[b]}) <= n
                  /\ n < Cardinality({c \in bins : cpu_util[c] <= cpu_util[b]})
    IN  Min({b \in bins : nth(b)})

-----------------------------------------------------------------------------
(***************************************************************************)
(* One task after the other is placed.  The state of the loop is what the  *)
(* CPUs hold, the CPUs in use, the last bin of next fit, and the mask,     *)
(* which is never cleared: a task may run wherever an earlier one may.     *)
(***************************************************************************)

\* Mutant: the room left is not reduced.
PlaceUncharged(s, cpu, p) ==
    LET mask == s.mask \cup {cpu}
    IN  [s EXCEPT !.mask = mask, !.affinity[p] = mask,
                  !.cpus = add_task_to_cpu(s.task, s.cpus, cpu, p)]

\* The code also writes the number of the bin to on_cpu.  That field is the scheduler's,
\* which asks by it whether a task runs; no call of this mode reads it, and it is left out.
Place(s, cpu, p) ==
    LET mask == s.mask \cup {cpu}
    IN  [s EXCEPT !.mask = mask, !.affinity[p] = mask,
                  !.cpus = [add_task_to_cpu(s.task, s.cpus, cpu, p)
                              EXCEPT !.util[cpu] = @ - Util(s.task, p)]]

\* Mutant: first fit asks the bin that was opened last first.
AttemptLatest(s, scheme, j) ==
    LET bins == Max({s.bins, j + 1})
    IN  CASE scheme = 0 -> IF j < s.bins THEN s.bins - 1 - j ELSE j
          [] scheme = 2 -> get_util_bin(s.cpus.util, j, bins)
          [] OTHER -> get_util_bin(s.cpus.util, bins - 1 - j, bins)

\* The bin of attempt j, from 0.  A bin is added when j has reached their number:
\* worst fit then asks for the fullest again.
Attempt(s, scheme, j) ==
    LET bins == Max({s.bins, j + 1})
    IN  CASE scheme = 0 -> j
          [] scheme = 2 -> get_util_bin(s.cpus.util, j, bins)
          [] OTHER -> get_util_bin(s.cpus.util, bins - 1 - j, bins)

Admits(s, cpu, p) == check_admission_per_cpu(s.task, s.cpus, cpu, p)

\* Mutant: a task that every bin refuses is passed over.
PlaceOrSkip(s, scheme, p) ==
    LET accepted == {j \in Cpu : Admits(s, Attempt(s, scheme, j), p)}
        j == Min(accepted)
    IN  IF accepted = {} THEN s
        ELSE [Place(s, Attempt(s, scheme, j), p) EXCEPT !.bins = Max({@, j + 1})]

PlaceByAttempts(s, scheme, p) ==
    LET accepted == {j \in Cpu : Admits(s, Attempt(s, scheme, j), p)}
        j == Min(accepted)
    IN  IF accepted = {} THEN [s EXCEPT !.failed = TRUE]
        ELSE [Place(s, Attempt(s, scheme, j), p) EXCEPT !.bins = Max({@, j + 1})]

\* Next fit.  A bin that is added is not asked; when there is none to add the task
\* is left out and the loop goes on.
PlaceNext(s, p) ==
    LET bin(k) == (s.prev_bin + k) % s.bins
        accepted == {k \in 0 .. s.bins - 1 : Admits(s, bin(k), p)}
    IN  IF accepted # {}
        THEN [Place(s, bin(Min(accepted)), p) EXCEPT !.prev_bin = bin(Min(accepted))]
        ELSE IF s.bins < MAX_CPU
        THEN [Place(s, s.bins, p) EXCEPT !.bins = @ + 1, !.prev_bin = s.bins]
        ELSE s

\* The state when the loop ends, early if a task fails.
bin_packing(task, registry, scheme, cpus, affinity) ==
    LET start == [task |-> task, cpus |-> cpus, affinity |-> affinity, mask |-> {},
                  bins |-> IF scheme = 4 THEN MAX_CPU ELSE 1, prev_bin |-> 0,
                  failed |-> registry = <<>>]
        next(s, p) == IF s.failed THEN s
                      ELSE IF scheme = NextFit THEN PlaceNext(s, p)
                      ELSE PlaceByAttempts(s, scheme, p)
        order == sort_periodic_tasklist(task, registry)
        after[k \in 0 .. Len(registry)] ==
          IF k = 0 THEN start ELSE next(after[k - 1], order[k])
    IN  after[Len(registry)]
=============================================================================
