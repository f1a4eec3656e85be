-------------------------- MODULE PartitionedProofs --------------------------
(***************************************************************************)
(* Partitioned, whatever the processes, the CPUs, the requests and the     *)
(* scheme: what bin packing puts on a CPU meets its deadlines there.  The  *)
(* lists of the CPUs are followed through every turn of the packing loop,  *)
(* and through cancelBudget, do_exit and startScheduling.                  *)
(***************************************************************************)
EXTENDS MCPartitioned, SysClockProofs

\* The processes of S have a budget below their period, which is a microsecond at
\* least: what setProcessBudget grants.
Granted(t, S) ==
    \A p \in S : /\ t.budget[p] \in Nat /\ t.period[p] \in Nat
                 /\ t.budget[p] < t.period[p] /\ t.period[p] >= NsPerUs

\* The utilisation of the processes of A.
UtilOn(t, A) == SumFunction([p \in A |-> Util(t, p)])

\* What CPU c holds: a list that is sorted, repeats nothing and passes the test, a
\* counter of its length, room that is not overstated, processes bound to c.
HeldOn(t, held, aff, c) ==
    /\ held.size[c] = Len(held.list[c])
    /\ IsInjective(held.list[c])
    /\ Sorted(t.period, held.list[c])
    /\ __check_admission(TaskArray(t, held.list[c]))
    /\ held.util[c] <= SCALE_UP_FACTOR - UtilOn(t, Range(held.list[c]))
    /\ \A p \in Range(held.list[c]) : c \in aff[p]

\* The types of the per-CPU state.
CpuType == [list : [Cpu -> Seq(Process)], size : [Cpu -> Nat], util : [Cpu -> Int]]

\* The CPUs hold processes of S, and no two the same.
Held(t, held, aff, S) ==
    /\ held \in CpuType
    /\ \A c \in Cpu : Range(held.list[c]) \subseteq S /\ HeldOn(t, held, aff, c)
    /\ \A c, d \in Cpu : c # d => Range(held.list[c]) \cap Range(held.list[d]) = {}

\* Types.
TypeInv ==
    /\ alive \subseteq Process
    /\ registry \in Seq(Process)
    /\ task \in [budget : [Process -> {r.budget : r \in Request} \cup {Unset}],
                 period : [Process -> {r.period : r \in Request} \cup {Unset}]]
    /\ affinity \in [Process -> SUBSET Cpu]
    /\ is_budget_set \subseteq Process
    /\ period_timer \subseteq Process
    /\ rt_priority \in [Process -> 0 .. Cardinality(Process)]
    /\ started \in BOOLEAN

\* The registry repeats nothing, is sorted by period, and holds live processes with
\* a granted reservation.
RegistryInv ==
    /\ IsInjective(registry)
    /\ Registered \subseteq alive
    /\ is_budget_set \subseteq Registered
    /\ Granted(task, Registered)
    /\ Sorted(task.period, registry)

\* Period timers run for processes with the flag only, those a stop has left included,
\* and from the start to the next stop for everything on the CPUs.
TimersInv ==
    /\ period_timer \subseteq is_budget_set
    /\ started => Packed \subseteq period_timer

\* From the start to the next stop the priorities are the ranks within the CPUs.
RanksInv ==
    started =>
        \A c \in Cpu : \A i \in 1 .. Len(cpus.list[c]) :
            rt_priority[cpus.list[c][i]] = Rank(cpus.list[c], i, task.period)

\* The inductive invariant.
Inv == TypeInv /\ RegistryInv /\ Held(task, cpus, affinity, Registered) /\ TimersInv /\ RanksInv

\* A granted reservation, converted to microseconds, is a task of the test.
LEMMA UsecsFacts ==
  ASSUME NEW t, NEW S, Granted(t, S), NEW p \in S
  PROVE  /\ Usecs(t, p) \in TaskRecord
         /\ Usecs(t, p).budget <= Usecs(t, p).period
         /\ Usecs(t, p).period = t.period[p] \div NsPerUs
         /\ Util(t, p) \in Nat
<1>. DEFINE b == t.budget[p] \div NsPerUs
            d == t.period[p] \div NsPerUs
<1>1. /\ t.budget[p] \in Nat /\ t.period[p] \in Nat /\ t.budget[p] <= t.period[p] /\ t.period[p] >= NsPerUs
      /\ NsPerUs \in Nat \ {0}
  BY NsPerUsAssumption DEF Granted
<1>2. b \in Nat /\ d \in Nat \ {0} /\ b <= d
  <2>1. b \in Nat /\ d \in Nat /\ b <= d /\ d >= 1
    BY ONLY <1>1, DivMonotone
  <2>. HIDE DEF b, d
  <2>. QED BY <2>1
<1>3. Usecs(t, p) = [budget |-> b, period |-> d]
  BY DEF Usecs, InUsecs, convert_to_usecs
<1>4. Util(t, p) = (b * SCALE_UP_FACTOR) \div d
  BY <1>3 DEF Util
<1>. HIDE DEF b, d
<1>5. (b * SCALE_UP_FACTOR) \div d \in Nat
  <2>1. b * SCALE_UP_FACTOR \in Nat
    BY <1>2 DEF SCALE_UP_FACTOR
  <2>. DEFINE x == b * SCALE_UP_FACTOR
  <2>. HIDE DEF x
  <2>2. x \div d \in Nat
    BY <1>2, <2>1 DEF x
  <2>. QED BY <2>2 DEF x
<1>. QED BY <1>2, <1>3, <1>4, <1>5 DEF TaskRecord, d

\* The conversion to microseconds keeps a list sorted, though it makes ties.
LEMMA TaskArrayFacts ==
  ASSUME NEW t, NEW S, Granted(t, S), NEW order \in Seq(Process), Range(order) \subseteq S
  PROVE  /\ TaskArray(t, order) \in TaskList /\ Len(TaskArray(t, order)) = Len(order)
         /\ \A i \in 1 .. Len(order) : TaskArray(t, order)[i] = Usecs(t, order[i])
         /\ Sorted(t.period, order) => ByPeriod(TaskArray(t, order))
<1>1. DOMAIN order = 1 .. Len(order) /\ Len(order) \in Nat /\ \A i \in 1 .. Len(order) : order[i] \in S
  BY RangeFacts
<1>2. \A i \in 1 .. Len(order) : /\ Usecs(t, order[i]) \in TaskRecord
                                 /\ Usecs(t, order[i]).period = t.period[order[i]] \div NsPerUs
  BY <1>1, UsecsFacts
<1>3. TaskArray(t, order) = [i \in 1 .. Len(order) |-> Usecs(t, order[i])]
  BY <1>1 DEF TaskArray
<1>4. /\ TaskArray(t, order) \in Seq(TaskRecord) /\ Len(TaskArray(t, order)) = Len(order)
      /\ \A i \in 1 .. Len(order) : TaskArray(t, order)[i] = Usecs(t, order[i])
  BY <1>1, <1>2, <1>3
<1>5. ASSUME Sorted(t.period, order), NEW i \in 1 .. Len(order), NEW j \in 1 .. Len(order), i <= j
      PROVE  Usecs(t, order[i]).period <= Usecs(t, order[j]).period
  <2>1. t.period[order[i]] \in Nat /\ t.period[order[j]] \in Nat
    BY <1>1 DEF Granted
  <2>2. t.period[order[i]] <= t.period[order[j]]
    BY <1>5 DEF Sorted
  <2>3. t.period[order[i]] \div NsPerUs <= t.period[order[j]] \div NsPerUs
    BY ONLY <2>1, <2>2, NsPerUsAssumption, DivMonotone
  <2>. QED BY <1>2, <2>3
<1>6. Sorted(t.period, order) => ByPeriod(TaskArray(t, order))
  BY <1>4, <1>5 DEF ByPeriod
<1>. QED BY <1>4, <1>6 DEF TaskList

\* Inserting a process into the list inserts its task into the array.
LEMMA InsertSorted ==
  ASSUME NEW t, NEW S, Granted(t, S), S \subseteq Process,
         NEW order \in Seq(Process), Range(order) \subseteq S, Sorted(t.period, order),
         NEW p \in S, NEW i \in 1 .. Len(order) + 1,
         \A k \in 1 .. Len(order) : k < i => t.period[order[k]] <= t.period[p],
         \A k \in 1 .. Len(order) : k >= i => t.period[p] <= t.period[order[k]]
  PROVE  /\ TaskArray(t, InsertAt(order, i, p)) = InsertAt(TaskArray(t, order), i, Usecs(t, p))
         /\ Sorted(t.period, InsertAt(order, i, p))
<1>. DEFINE o == InsertAt(order, i, p)
            n == Len(order)
<1>1. /\ o \in Seq(Process) /\ Len(o) = n + 1
      /\ \A k \in 1 .. n + 1 : o[k] = IF k < i THEN order[k] ELSE IF k = i THEN p ELSE order[k - 1]
  BY InsertAtFacts
<1>2. n \in Nat /\ DOMAIN order = 1 .. n /\ \A k \in 1 .. n : order[k] \in S
  BY RangeFacts
<1>3. (\A k \in 1 .. n : t.period[order[k]] \in Nat) /\ t.period[p] \in Nat /\ p \in Process
  BY <1>2 DEF Granted
<1>8. Sorted(t.period, o)
  BY <1>3, SortedInsert
<1>. HIDE DEF o, n
<1>9. TaskArray(t, o) = InsertAt(TaskArray(t, order), i, Usecs(t, p))
  <2>. DEFINE l == TaskArray(t, order)
              u == InsertAt(l, i, Usecs(t, p))
  <2>1. l \in TaskList /\ Len(l) = n /\ \A k \in 1 .. n : l[k] = Usecs(t, order[k])
    BY TaskArrayFacts DEF n
  <2>2. Usecs(t, p) \in TaskRecord
    BY UsecsFacts
  <2>. HIDE DEF l
  <2>3. /\ u \in TaskList /\ Len(u) = n + 1
        /\ \A k \in 1 .. n + 1 : u[k] = IF k < i THEN l[k] ELSE IF k = i THEN Usecs(t, p) ELSE l[k - 1]
    <3>1. i \in 1 .. Len(l) + 1
      BY <2>1 DEF n
    <3>. QED BY <2>1, <2>2, <3>1, TaskInsert
  <2>. HIDE DEF u
  <2>4. u = [k \in 1 .. n + 1 |-> u[k]]
    BY <2>3 DEF TaskList
  <2>5. TaskArray(t, o) = [k \in 1 .. n + 1 |-> Usecs(t, o[k])]
    <3>1. DOMAIN o = 1 .. n + 1
      BY <1>1
    <3>. QED BY <3>1 DEF TaskArray
  <2>6. ASSUME NEW k \in 1 .. n + 1 PROVE u[k] = Usecs(t, o[k])
    <3>0. i \in 1 .. n + 1
      BY DEF n
    <3>1. CASE k < i
      <4>1. k \in 1 .. n
        BY <1>2, <3>0, <3>1
      <4>. QED BY <1>1, <2>1, <2>3, <3>1, <4>1
    <3>2. CASE k = i
      BY <1>1, <2>3, <3>2
    <3>3. CASE k > i
      <4>1. k - 1 \in 1 .. n /\ ~(k < i) /\ k # i
        BY <1>2, <3>0, <3>3
      <4>2. u[k] = l[k - 1] /\ o[k] = order[k - 1]
        BY <1>1, <2>3, <4>1
      <4>. QED BY <2>1, <4>1, <4>2
    <3>. QED BY <3>0, <3>1, <3>2, <3>3
  <2>7. [k \in 1 .. n + 1 |-> u[k]] = [k \in 1 .. n + 1 |-> Usecs(t, o[k])]
    BY <2>6
  <2>. QED BY <2>4, <2>5, <2>7 DEF u, l
<1>. QED BY <1>8, <1>9 DEF o

\* The utilisation grows by that of the process that joins.
LEMMA UtilFacts ==
  ASSUME NEW t, NEW S, Granted(t, S), NEW A, IsFiniteSet(A), A \subseteq S
  PROVE  /\ UtilOn(t, A) \in Nat
         /\ \A p \in S \ A : UtilOn(t, A \cup {p}) = UtilOn(t, A) + Util(t, p)
<1>. DEFINE f == [x \in A |-> Util(t, x)]
<1>1. \A x \in S : Util(t, x) \in Nat
  BY UsecsFacts
<1>2. UtilOn(t, A) = SumFunctionOnSet(f, A)
  BY DEF UtilOn, SumFunction
<1>3. \A x \in A : f[x] \in Nat /\ f[x] \in Int /\ f[x] = Util(t, x)
  BY <1>1
<1>4. UtilOn(t, A) \in Nat
  <2>. HIDE DEF f
  <2>. QED BY <1>2, <1>3, SumNat
<1>5. ASSUME NEW p \in S \ A PROVE UtilOn(t, A \cup {p}) = UtilOn(t, A) + Util(t, p)
  <2>. DEFINE B == A \cup {p}
              g == [x \in B |-> Util(t, x)]
  <2>1. UtilOn(t, B) = SumFunctionOnSet(g, B)
    BY DEF UtilOn, SumFunction
  <2>2. IsFiniteSet(B)
    BY FS_AddElement
  <2>3. (\A x \in B : g[x] \in Int /\ g[x] = Util(t, x)) /\ p \in B /\ B \ {p} = A
    BY <1>1
  <2>4. \A x \in A : f[x] \in Int /\ f[x] = g[x]
    BY <1>3, <2>3
  <2>. HIDE DEF f, g, B
  <2>5. SumFunctionOnSet(g, B) = g[p] + SumFunctionOnSet(g, B \ {p})
    BY <2>2, <2>3, SumStep
  <2>6. SumFunctionOnSet(f, A) = SumFunctionOnSet(g, A)
    BY <2>4, SumEqual
  <2>7. Util(t, p) \in Nat
    BY <1>1
  <2>8. g[p] = Util(t, p)
    BY <2>3
  <2>9. UtilOn(t, B) = Util(t, p) + UtilOn(t, A)
    BY ONLY <1>2, <2>1, <2>3, <2>5, <2>6, <2>8
  <2>10. UtilOn(t, B) = UtilOn(t, A) + Util(t, p)
    BY ONLY <1>4, <2>7, <2>9
  <2>. QED BY ONLY <2>10 DEF B
<1>. QED BY <1>4, <1>5

\* order with p before the first longer period: add_task_to_cpu.
Joined(t, order, p) ==
    LET later == SelectInSeq(order, LAMBDA q : t.period[q] > t.period[p])
    IN  InsertAt(order, IF later = 0 THEN Len(order) + 1 ELSE later, p)

\* The list p has joined is sorted, and passes the test exactly if p was admitted.
LEMMA JoinedFacts ==
  ASSUME NEW t, NEW S, Granted(t, S), S \subseteq Process,
         NEW order \in Seq(Process), Range(order) \subseteq S, Sorted(t.period, order), IsInjective(order),
         NEW p \in S, p \notin Range(order)
  PROVE  /\ Joined(t, order, p) \in Seq(Process)
         /\ Len(Joined(t, order, p)) = Len(order) + 1
         /\ IsInjective(Joined(t, order, p))
         /\ Range(Joined(t, order, p)) = Range(order) \cup {p}
         /\ Sorted(t.period, Joined(t, order, p))
         /\ AdmitsTo(TaskArray(t, order), Usecs(t, p))
              <=> __check_admission(TaskArray(t, Joined(t, order, p)))
         /\ order = <<>> => __check_admission(TaskArray(t, Joined(t, order, p)))
<1>. DEFINE n == Len(order)
            A == {k \in 1 .. n : t.period[order[k]] > t.period[p]}
            later == SelectInSeq(order, LAMBDA q : t.period[q] > t.period[p])
            i == IF later = 0 THEN n + 1 ELSE later
            o == InsertAt(order, i, p)
<1>0. n \in Nat /\ (\A k \in 1 .. n : order[k] \in S) /\ p \in Process
  BY RangeFacts
<1>1. Joined(t, order, p) = o
  BY DEF Joined
<1>2. i = First(n, A)
  BY DEF First, SelectInSeq
<1>3. i \in 1 .. n + 1 /\ (\A k \in 1 .. n : k < i => k \notin A) /\ (i <= n => i \in A)
  <2>1. A \in SUBSET (1 .. n)
    OBVIOUS
  <2>. HIDE DEF A, i, n
  <2>. QED BY <1>0, <1>2, <2>1, FirstIn
<1>. HIDE DEF i, later
<1>4. t.period[p] \in Nat /\ \A k \in 1 .. n : t.period[order[k]] \in Nat
  BY <1>0 DEF Granted
<1>5. \A k \in 1 .. n : k < i => t.period[order[k]] <= t.period[p]
  BY <1>3, <1>4
<1>6. \A k \in 1 .. n : k >= i => t.period[p] <= t.period[order[k]]
  <2>. SUFFICES ASSUME NEW k \in 1 .. n, k >= i PROVE t.period[p] <= t.period[order[k]]
    OBVIOUS
  <2>1. i \in 1 .. n
    BY <1>0, <1>3
  <2>2. t.period[order[i]] > t.period[p]
    BY <1>3, <2>1
  <2>3. t.period[order[i]] <= t.period[order[k]]
    BY <2>1 DEF Sorted
  <2>. QED BY <1>4, <2>1, <2>2, <2>3
<1>7. /\ o \in Seq(Process) /\ IsInjective(o) /\ Range(o) = Range(order) \cup {p} /\ Len(o) = n + 1
  BY <1>0, <1>3, InsertAtPart
<1>8. /\ TaskArray(t, o) = InsertAt(TaskArray(t, order), i, Usecs(t, p))
      /\ Sorted(t.period, o)
  BY <1>3, <1>5, <1>6, InsertSorted
<1>9. TaskArray(t, o) \in TaskList /\ Len(TaskArray(t, o)) = n + 1 /\ ByPeriod(TaskArray(t, o))
      /\ \A k \in 1 .. n + 1 : TaskArray(t, o)[k] = Usecs(t, o[k])
  <2>1. Range(o) \subseteq S
    BY <1>7
  <2>. HIDE DEF o
  <2>. QED BY <1>7, <1>8, <2>1, TaskArrayFacts
<1>10. Usecs(t, p) \in TaskRecord /\ Usecs(t, p).budget <= Usecs(t, p).period
  BY UsecsFacts
<1>11. ASSUME order = <<>> PROVE __check_admission(TaskArray(t, o))
  <2>1. n = 0
    BY <1>11
  <2>2. o[1] \in Range(o) /\ Range(o) = {p}
    BY <1>7, <1>11, <2>1, RangeFacts DEF Range
  <2>3. Len(TaskArray(t, o)) = 1 /\ TaskArray(t, o)[1] = Usecs(t, p)
    BY <1>9, <2>1, <2>2
  <2>. QED BY <1>9, <1>10, <2>3, AdmittedAlone
<1>12. AdmitsTo(TaskArray(t, order), Usecs(t, p)) <=> __check_admission(TaskArray(t, o))
  <2>1. /\ TaskArray(t, order) \in TaskList /\ Len(TaskArray(t, order)) = n
        /\ ByPeriod(TaskArray(t, order))
    BY TaskArrayFacts
  <2>2. ByPeriod(InsertAt(TaskArray(t, order), i, Usecs(t, p))) /\ i \in 1 .. Len(TaskArray(t, order)) + 1
    BY <1>3, <1>8, <1>9, <2>1
  <2>3. AdmitsTo(TaskArray(t, order), Usecs(t, p))
          <=> __check_admission(InsertAt(TaskArray(t, order), i, Usecs(t, p)))
    BY ONLY <1>10, <2>1, <2>2, AdmittedMayJoin
  <2>. QED BY <1>8, <2>3
<1>. QED BY <1>1, <1>7, <1>8, <1>11, <1>12

\* The per-CPU state once p has joined CPU c and its utilisation is charged.
JoinedCpus(t, held, c, p) ==
    [list |-> [held.list EXCEPT ![c] = Joined(t, held.list[c], p)],
     size |-> [held.size EXCEPT ![c] = held.size[c] + 1],
     util |-> [held.util EXCEPT ![c] = held.util[c] - Util(t, p)]]

\* What placing a process makes of the CPUs: the list, the counter and the room.
Charged(t, held, c, p) == [add_task_to_cpu(t, held, c, p) EXCEPT !.util[c] = @ - Util(t, p)]

\* This is what add_task_to_cpu and the charge after it do.
LEMMA PlacedIsJoined ==
  ASSUME NEW t, NEW held \in CpuType, NEW c \in Cpu, held.size[c] = Len(held.list[c]), NEW p
  PROVE  Charged(t, held, c, p) = JoinedCpus(t, held, c, p)
<1>. SUFFICES [add_task_to_cpu(t, held, c, p) EXCEPT !.util[c] = @ - Util(t, p)]
                = JoinedCpus(t, held, c, p)
  BY DEF Charged
<1>. DEFINE o == IF held.size[c] = 0 THEN <<>> ELSE held.list[c]
<1>1. o = held.list[c]
  BY DEF CpuType
<1>2. Joined(t, o, p) = InsertAt(o, IF SelectInSeq(o, LAMBDA q : t.period[q] > t.period[p]) = 0
                                    THEN Len(o) + 1 ELSE SelectInSeq(o, LAMBDA q : t.period[q] > t.period[p]), p)
  BY DEF Joined
<1>3. add_task_to_cpu(t, held, c, p)
        = [held EXCEPT !.list[c] = Joined(t, o, p), !.size[c] = @ + 1]
  BY <1>2 DEF add_task_to_cpu
<1>. HIDE DEF o
<1>. DEFINE j == Joined(t, o, p)
<1>. HIDE DEF j
<1>4. add_task_to_cpu(t, held, c, p) = [held EXCEPT !.list[c] = j, !.size[c] = @ + 1]
  BY <1>3 DEF j
<1>. DEFINE m == held.size[c] + 1
            l2 == [held.list EXCEPT ![c] = j]
            s2 == [held.size EXCEPT ![c] = m]
<1>. HIDE DEF m
<1>5. [held EXCEPT !.list[c] = j, !.size[c] = m] = [[held EXCEPT !.list[c] = j] EXCEPT !.size[c] = m]
  OBVIOUS
<1>6. [held EXCEPT !.list[c] = j] = [list |-> l2, size |-> held.size, util |-> held.util]
  <2>. DEFINE l == held.list
              s == held.size
              u == held.util
  <2>1. held = [list |-> l, size |-> s, util |-> u]
    BY DEF CpuType
  <2>. HIDE DEF l, s, u
  <2>2. [[list |-> l, size |-> s, util |-> u] EXCEPT !.list[c] = j]
          = [list |-> [l EXCEPT ![c] = j], size |-> s, util |-> u]
    OBVIOUS
  <2>3. [held EXCEPT !.list[c] = j] = [list |-> [l EXCEPT ![c] = j], size |-> s, util |-> u]
    BY <2>1, <2>2, Zenon
  <2>. QED BY <2>3 DEF l, s, u
<1>. HIDE DEF l2
<1>7. [[list |-> l2, size |-> held.size, util |-> held.util] EXCEPT !.size[c] = m]
        = [list |-> l2, size |-> s2, util |-> held.util]
  OBVIOUS
<1>8. add_task_to_cpu(t, held, c, p) = [list |-> l2, size |-> s2, util |-> held.util]
  BY <1>4, <1>5, <1>6, <1>7 DEF m
<1>. HIDE DEF s2
<1>9. [[list |-> l2, size |-> s2, util |-> held.util] EXCEPT !.util[c] = @ - Util(t, p)]
        = [list |-> l2, size |-> s2, util |-> [held.util EXCEPT ![c] = held.util[c] - Util(t, p)]]
  OBVIOUS
<1>. QED BY <1>1, <1>8, <1>9 DEF JoinedCpus, j, l2, s2, m

\* A CPU that admits a process, or is empty, holds it well.
LEMMA HeldJoined ==
  ASSUME NEW t, NEW S, Granted(t, S), S \subseteq Process,
         NEW held, NEW aff \in [Process -> SUBSET Cpu], Held(t, held, aff, S),
         NEW p \in S, NEW c \in Cpu, \A d \in Cpu : p \notin Range(held.list[d]),
         held.list[c] = <<>> \/ check_admission_per_cpu(t, held, c, p),
         NEW mask \in SUBSET Cpu, c \in mask
  PROVE  /\ Held(t, JoinedCpus(t, held, c, p), [aff EXCEPT ![p] = mask], S)
         /\ Range(JoinedCpus(t, held, c, p).list[c]) = Range(held.list[c]) \cup {p}
         /\ \A d \in Cpu \ {c} : JoinedCpus(t, held, c, p).list[d] = held.list[d]
<1>. DEFINE o == held.list[c]
            j == Joined(t, o, p)
            new == JoinedCpus(t, held, c, p)
            aff2 == [aff EXCEPT ![p] = mask]
<1>1. /\ held \in CpuType /\ o \in Seq(Process) /\ Range(o) \subseteq S
      /\ held.size[c] = Len(o) /\ IsInjective(o) /\ Sorted(t.period, o)
      /\ __check_admission(TaskArray(t, o))
      /\ held.util[c] <= SCALE_UP_FACTOR - UtilOn(t, Range(o)) /\ held.util[c] \in Int
      /\ \A q \in Range(o) : c \in aff[q]
      /\ p \notin Range(o)
  BY DEF Held, HeldOn, CpuType
<1>2. o = <<>> \/ AdmitsTo(TaskArray(t, o), Usecs(t, p))
  <2>. SUFFICES ASSUME o # <<>> PROVE AdmitsTo(TaskArray(t, o), Usecs(t, p))
    OBVIOUS
  <2>1. held.size[c] # 0
    BY <1>1
  <2>. QED BY <2>1 DEF check_admission_per_cpu
<1>. HIDE DEF o
<1>3. /\ j \in Seq(Process) /\ Len(j) = Len(o) + 1 /\ IsInjective(j) /\ Range(j) = Range(o) \cup {p}
      /\ Sorted(t.period, j) /\ __check_admission(TaskArray(t, j))
  BY <1>1, <1>2, JoinedFacts
<1>. HIDE DEF j
<1>4. new = [list |-> [held.list EXCEPT ![c] = j], size |-> [held.size EXCEPT ![c] = Len(j)],
             util |-> [held.util EXCEPT ![c] = held.util[c] - Util(t, p)]]
  BY <1>1, <1>3 DEF JoinedCpus, j, o
<1>. HIDE DEF new
<1>5. Util(t, p) \in Nat
  BY UsecsFacts
<1>6. /\ new.list = [held.list EXCEPT ![c] = j] /\ new.size = [held.size EXCEPT ![c] = Len(j)]
      /\ new.util = [held.util EXCEPT ![c] = held.util[c] - Util(t, p)]
  BY <1>4
<1>7. new \in CpuType
  BY <1>1, <1>3, <1>4, <1>5 DEF CpuType
<1>8. /\ new.list[c] = j /\ new.size[c] = Len(j) /\ new.util[c] = held.util[c] - Util(t, p)
      /\ \A d \in Cpu \ {c} : new.list[d] = held.list[d] /\ new.size[d] = held.size[d] /\ new.util[d] = held.util[d]
  BY <1>1, <1>6 DEF CpuType
<1>9. \A q \in Process : aff2[q] = IF q = p THEN mask ELSE aff[q]
  OBVIOUS
<1>. HIDE DEF aff2
<1>10. Range(j) \subseteq S /\ Range(j) \subseteq Process
  BY <1>1, <1>3
<1>11. HeldOn(t, new, aff2, c)
  <2>1. UtilOn(t, Range(j)) = UtilOn(t, Range(o)) + Util(t, p) /\ UtilOn(t, Range(o)) \in Nat
    <3>1. IsFiniteSet(Range(o))
      BY <1>1, RangeFacts
    <3>. QED BY <1>1, <1>3, <3>1, UtilFacts
  <2>2. held.util[c] - Util(t, p) <= SCALE_UP_FACTOR - UtilOn(t, Range(j))
    BY <1>1, <1>5, <2>1 DEF SCALE_UP_FACTOR
  <2>3. \A q \in Range(j) : c \in aff2[q]
    BY <1>1, <1>3, <1>9, <1>10
  <2>. QED BY <1>3, <1>8, <2>2, <2>3 DEF HeldOn
<1>12. ASSUME NEW d \in Cpu, d # c PROVE HeldOn(t, new, aff2, d) /\ Range(new.list[d]) \subseteq S
  <2>1. HeldOn(t, held, aff, d) /\ Range(held.list[d]) \subseteq S /\ p \notin Range(held.list[d])
    BY DEF Held
  <2>2. \A q \in Range(held.list[d]) : d \in aff2[q]
    BY <1>9, <2>1 DEF HeldOn
  <2>. QED BY <1>8, <1>12, <2>1, <2>2 DEF HeldOn
<1>13. \A d, e \in Cpu : d # e => Range(new.list[d]) \cap Range(new.list[e]) = {}
  <2>1. \A d, e \in Cpu : d # e => Range(held.list[d]) \cap Range(held.list[e]) = {}
    BY DEF Held
  <2>2. ASSUME NEW d \in Cpu, d # c PROVE Range(new.list[d]) \cap Range(new.list[c]) = {}
    BY <1>3, <1>8, <2>1, <2>2 DEF o
  <2>. QED BY <1>8, <2>1, <2>2
<1>14. Held(t, new, aff2, S)
  BY <1>7, <1>8, <1>10, <1>11, <1>12, <1>13 DEF Held
<1>. QED BY <1>3, <1>8, <1>14 DEF new, aff2, o

\* A finite set has an element where f is least.
LEMMA FiniteLeast ==
  ASSUME NEW A, IsFiniteSet(A), A # {}, NEW f, \A x \in A : f[x] \in Int
  PROVE  \E m \in A : \A x \in A : f[m] <= f[x]
<1>. DEFINE T == {s \in SUBSET A : s # {} => \E m \in s : \A x \in s : f[m] <= f[x]}
<1>1. {} \in T
  OBVIOUS
<1>2. ASSUME NEW s \in SUBSET A, s # {}, \A x \in s : s \ {x} \in T PROVE s \in T
  <2>. SUFFICES \E m \in s : \A x \in s : f[m] <= f[x]
    OBVIOUS
  <2>1. PICK y \in s : TRUE
    BY <1>2
  <2>2. CASE s \ {y} = {}
    <3>1. s = {y} /\ f[y] \in Int
      BY <2>2
    <3>. QED BY <3>1
  <2>3. CASE s \ {y} # {}
    <3>1. PICK m \in s \ {y} : \A x \in s \ {y} : f[m] <= f[x]
      BY <1>2, <2>3
    <3>2. \A x \in s : f[x] \in Int
      OBVIOUS
    <3>3. CASE f[m] <= f[y]
      BY <3>1, <3>3
    <3>4. CASE ~(f[m] <= f[y])
      <4>1. \A x \in s : f[y] <= f[x]
        BY <3>1, <3>2, <3>4
      <4>. QED BY <4>1
    <3>. QED BY <3>3, <3>4
  <2>. QED BY <2>2, <2>3
<1>3. SUBSET A \subseteq T
  <2>. HIDE DEF T
  <2>. QED BY <1>1, <1>2, FiniteSetInduction
<1>. QED BY <1>3

\* A finite set has an element where f is greatest.
LEMMA FiniteGreatest ==
  ASSUME NEW A, IsFiniteSet(A), A # {}, NEW f, \A x \in A : f[x] \in Int
  PROVE  \E m \in A : \A x \in A : f[x] <= f[m]
<1>. DEFINE g == [x \in A |-> -f[x]]
<1>1. \A x \in A : g[x] \in Int /\ g[x] = -f[x]
  OBVIOUS
<1>. HIDE DEF g
<1>2. PICK m \in A : \A x \in A : g[m] <= g[x]
  BY <1>1, FiniteLeast
<1>3. \A x \in A : f[x] <= f[m]
  BY <1>1, <1>2
<1>. QED BY <1>3

\* Min of natural numbers is one of them and the least.
LEMMA MinIn ==
  ASSUME NEW A \in SUBSET Nat, A # {}
  PROVE  Min(A) \in A /\ \A x \in A : Min(A) <= x
<1>1. \E m \in A : \A x \in A : m <= x
  BY NatLeast
<1>. QED BY <1>1 DEF Min

\* get_util_bin returns a bin that exists: the n-th by room, ties included.
LEMMA UtilBin ==
  ASSUME NEW util, NEW b \in Nat \ {0}, NEW n \in 0 .. b - 1, \A c \in 0 .. b - 1 : util[c] \in Int
  PROVE  get_util_bin(util, n, b) \in 0 .. b - 1
<1>. DEFINE bins == 0 .. b - 1
            below(x) == {c \in bins : util[c] < util[x]}
            upto(x) == {c \in bins : util[c] <= util[x]}
            D == {x \in bins : n < Cardinality(upto(x))}
            N == {x \in bins : Cardinality(below(x)) <= n /\ n < Cardinality(upto(x))}
<1>0. IsFiniteSet(bins) /\ Cardinality(bins) = b /\ bins # {} /\ (\A x \in bins : util[x] \in Int)
  <2>1. b \in Int /\ b - 1 \in Int /\ ~(0 > b - 1) /\ (b - 1) - 0 + 1 = b /\ 0 \in bins
    OBVIOUS
  <2>2. IsFiniteSet(bins) /\ Cardinality(bins) = (b - 1) - 0 + 1
    BY <2>1, FS_Interval
  <2>. QED BY <2>1, <2>2
<1>1. PICK top \in bins : \A x \in bins : util[x] <= util[top]
  <2>. HIDE DEF bins
  <2>. QED BY <1>0, FiniteGreatest
<1>2. top \in D
  <2>1. upto(top) = bins
    BY <1>1
  <2>. HIDE DEF upto, bins
  <2>2. n < Cardinality(upto(top))
    BY <1>0, <2>1
  <2>. QED BY <1>1, <2>2
<1>3. PICK x \in D : \A y \in D : util[x] <= util[y]
  <2>1. IsFiniteSet(D) /\ D # {} /\ \A y \in D : util[y] \in Int
    <3>1. D \in SUBSET bins
      OBVIOUS
    <3>. HIDE DEF D, bins
    <3>. QED BY <1>0, <1>2, <3>1, FS_Subset
  <2>. HIDE DEF D
  <2>. QED BY <2>1, FiniteLeast
<1>4. Cardinality(below(x)) <= n
  <2>0. IsFiniteSet(below(x)) /\ below(x) \in SUBSET bins /\ x \in bins
    <3>1. below(x) \in SUBSET bins /\ x \in bins
      BY <1>3
    <3>. HIDE DEF below, bins
    <3>. QED BY <1>0, <3>1, FS_Subset
  <2>1. CASE below(x) = {}
    <3>. HIDE DEF below
    <3>. QED BY <2>1, FS_EmptySet
  <2>2. CASE below(x) # {}
    <3>1. PICK y \in below(x) : \A z \in below(x) : util[z] <= util[y]
      <4>1. \A z \in below(x) : util[z] \in Int
        BY <1>0
      <4>. HIDE DEF below
      <4>. QED BY <2>0, <2>2, <4>1, FiniteGreatest
    <3>2. y \in bins /\ util[y] < util[x] /\ util[x] \in Int
      BY <1>0, <2>0, <3>1
    <3>3. upto(y) = below(x)
      <4>. SUFFICES ASSUME NEW z \in bins PROVE util[z] <= util[y] <=> util[z] < util[x]
        OBVIOUS
      <4>1. util[z] \in Int /\ util[y] \in Int
        BY <1>0, <3>2
      <4>2. util[z] < util[x] => util[z] <= util[y]
        BY <3>1
      <4>. QED BY <3>2, <4>1, <4>2
    <3>4. y \notin D
      <4>1. util[y] \in Int
        BY <1>0, <3>2
      <4>. HIDE DEF D
      <4>. QED BY <1>3, <3>2, <4>1
    <3>5. ~(n < Cardinality(upto(y)))
      BY <3>2, <3>4
    <3>6. Cardinality(below(x)) \in Nat
      <4>. HIDE DEF below
      <4>. QED BY <2>0, FS_CardinalityType
    <3>. HIDE DEF upto, below
    <3>. QED BY <3>3, <3>5, <3>6
  <2>. QED BY <2>1, <2>2
<1>5. x \in N
  <2>. HIDE DEF below
  <2>. QED BY <1>3, <1>4
<1>6. get_util_bin(util, n, b) = Min(N)
  BY DEF get_util_bin
<1>7. N \in SUBSET Nat /\ N \subseteq bins
  OBVIOUS
<1>. HIDE DEF N
<1>8. Min(N) \in N
  BY <1>5, <1>7, MinIn
<1>. QED BY <1>6, <1>7, <1>8

\* sort_periodic_tasklist permutes the registry.
LEMMA PackingOrder ==
  ASSUME NEW t, NEW S, Granted(t, S), NEW reg \in Seq(Process), IsInjective(reg), Range(reg) \subseteq S
  PROVE  /\ sort_periodic_tasklist(t, reg) \in [1 .. Len(reg) -> Range(reg)]
         /\ IsInjective(sort_periodic_tasklist(t, reg))
         /\ \A p \in Range(reg) : \E k \in 1 .. Len(reg) : sort_periodic_tasklist(t, reg)[k] = p
<1>. DEFINE n == Len(reg)
            util(i) == Util(t, reg[i])
            before(i, j) == util(i) > util(j) \/ (util(i) = util(j) /\ i < j)
            B(i) == {j \in 1 .. n : before(j, i)}
            place(i) == Cardinality(B(i)) + 1
            at(k) == CHOOSE i \in 1 .. n : place(i) = k
            o == sort_periodic_tasklist(t, reg)
<1>0. n \in Nat /\ DOMAIN reg = 1 .. n /\ \A i \in 1 .. n : reg[i] \in Range(reg) /\ reg[i] \in S
  BY RangeFacts
<1>1. \A i \in 1 .. n : util(i) \in Nat
  BY <1>0, UsecsFacts
<1>2. o = [k \in 1 .. n |-> reg[at(k)]]
  BY <1>0 DEF sort_periodic_tasklist
<1>. HIDE DEF util, n, o
<1>3. /\ \A i \in 1 .. n : ~before(i, i)
      /\ \A i, j \in 1 .. n : i # j => before(i, j) \/ before(j, i)
      /\ \A i, j, k \in 1 .. n : before(i, j) /\ before(j, k) => before(i, k)
  BY <1>0, <1>1
<1>. HIDE DEF before
<1>4. IsFiniteSet(1 .. n) /\ Cardinality(1 .. n) = n
  BY <1>0, FS_Interval
<1>5. \A i \in 1 .. n : B(i) \in SUBSET (1 .. n) /\ i \notin B(i)
  BY <1>3
<1>6. ASSUME NEW i \in 1 .. n, NEW j \in 1 .. n, before(i, j)
      PROVE  B(i) \in SUBSET B(j) /\ B(i) # B(j)
  BY <1>3, <1>6
<1>. HIDE DEF B
<1>7. \A i \in 1 .. n : IsFiniteSet(B(i)) /\ Cardinality(B(i)) \in Nat /\ Cardinality(B(i)) < n
  <2>. SUFFICES ASSUME NEW i \in 1 .. n
                PROVE  IsFiniteSet(B(i)) /\ Cardinality(B(i)) \in Nat /\ Cardinality(B(i)) < n
    OBVIOUS
  <2>0. IsFiniteSet(1 .. n) /\ B(i) \in SUBSET (1 .. n) /\ Cardinality(1 .. n) = n
    BY <1>4, <1>5
  <2>a. /\ IsFiniteSet(B(i)) /\ Cardinality(B(i)) <= Cardinality(1 .. n)
        /\ Cardinality(1 .. n) = Cardinality(B(i)) => 1 .. n = B(i)
    BY ONLY <2>0, FS_Subset
  <2>1. IsFiniteSet(B(i)) /\ Cardinality(B(i)) <= n /\ (n = Cardinality(B(i)) => 1 .. n = B(i))
    BY <2>0, <2>a
  <2>2. Cardinality(B(i)) \in Nat
    BY <2>1, FS_CardinalityType
  <2>3. n # Cardinality(B(i))
    BY <1>5, <2>1
  <2>. QED BY <1>0, <2>1, <2>2, <2>3
<1>8. ASSUME NEW i \in 1 .. n, NEW j \in 1 .. n, place(i) = place(j) PROVE i = j
  <2>1. Cardinality(B(i)) = Cardinality(B(j))
    BY <1>7, <1>8
  <2>2. ASSUME NEW x \in 1 .. n, NEW y \in 1 .. n, before(x, y), Cardinality(B(x)) = Cardinality(B(y)) PROVE FALSE
    <3>1. B(x) \in SUBSET B(y) /\ B(x) # B(y) /\ IsFiniteSet(B(y))
      BY <1>6, <1>7, <2>2
    <3>. QED BY <2>2, <3>1, FS_Subset
  <2>. QED BY <1>3, <2>1, <2>2
<1>9. \A i \in 1 .. n : place(i) \in 1 .. n
  BY <1>0, <1>7
<1>. DEFINE f == [i \in 1 .. n |-> place(i)]
<1>10. f \in Injection(1 .. n, 1 .. n)
  <2>. HIDE DEF place
  <2>. QED BY <1>8, <1>9 DEF Injection, IsInjective
<1>11. f \in Surjection(1 .. n, 1 .. n)
  <2>. HIDE DEF f
  <2>. QED BY <1>4, <1>10, FS_Injection
<1>12. \A k \in 1 .. n : \E i \in 1 .. n : place(i) = k
  BY <1>11 DEF Surjection
<1>. HIDE DEF place
<1>13. \A k \in 1 .. n : at(k) \in 1 .. n /\ place(at(k)) = k
  BY <1>12
<1>14. \A i \in 1 .. n : at(place(i)) = i /\ place(i) \in 1 .. n
  <2>1. \A i \in 1 .. n : place(i) \in 1 .. n /\ at(place(i)) \in 1 .. n /\ place(at(place(i))) = place(i)
    BY <1>9, <1>13
  <2>. HIDE DEF at
  <2>. QED BY <1>8, <2>1
<1>. HIDE DEF at
<1>15. o \in [1 .. n -> Range(reg)]
  BY <1>0, <1>2, <1>13
<1>16. IsInjective(o)
  <2>. SUFFICES ASSUME NEW k \in 1 .. n, NEW m \in 1 .. n, o[k] = o[m] PROVE k = m
    BY <1>15 DEF IsInjective
  <2>1. reg[at(k)] = reg[at(m)]
    BY <1>2
  <2>2. at(k) = at(m)
    BY <1>0, <1>13, <2>1 DEF IsInjective
  <2>. QED BY <1>13, <2>2
<1>17. ASSUME NEW p \in Range(reg) PROVE \E k \in 1 .. n : o[k] = p
  <2>1. PICK i \in 1 .. n : reg[i] = p
    BY <1>0 DEF Range
  <2>2. o[place(i)] = p /\ place(i) \in 1 .. n
    BY <1>2, <1>14, <2>1
  <2>. QED BY <2>2
<1>. QED BY <1>15, <1>16, <1>17 DEF n, o

\* The types of the state of the packing loop.
PackType(t) == [task : {t}, cpus : CpuType, affinity : [Process -> SUBSET Cpu], mask : SUBSET Cpu,
                bins : 1 .. MAX_CPU, prev_bin : Nat, failed : BOOLEAN]

\* The invariant of the packing loop: what the CPUs hold is theirs, was among the
\* processes already seen, and is on CPUs that are in use.
Packing(t, S, Done, s) ==
    /\ s \in PackType(t)
    /\ Held(t, s.cpus, s.affinity, S)
    /\ \A c \in Cpu : Range(s.cpus.list[c]) \subseteq Done
    /\ \A c \in Cpu : c >= s.bins => s.cpus.list[c] = <<>>

\* r is s with p on CPU c.
PlacedOn(t, s, c, p, r) ==
    /\ r.cpus = JoinedCpus(t, s.cpus, c, p)
    /\ Range(r.cpus.list[c]) = Range(s.cpus.list[c]) \cup {p}
    /\ \A d \in Cpu \ {c} : r.cpus.list[d] = s.cpus.list[d]
    /\ r.failed = s.failed

\* Placing a process keeps the invariant of the loop.
LEMMA PlaceFacts ==
  ASSUME NEW t, NEW S, Granted(t, S), S \subseteq Process, NEW Done, NEW s, Packing(t, S, Done, s),
         NEW p \in S, p \notin Done, NEW c \in Cpu, s.cpus.list[c] = <<>> \/ Admits(s, c, p)
  PROVE  /\ Place(s, c, p) \in PackType(t)
         /\ Place(s, c, p).bins = s.bins /\ Place(s, c, p).prev_bin = s.prev_bin
         /\ Held(t, Place(s, c, p).cpus, Place(s, c, p).affinity, S)
         /\ PlacedOn(t, s, c, p, Place(s, c, p))
<1>. DEFINE mask == s.mask \cup {c}
            new == JoinedCpus(t, s.cpus, c, p)
            r == [s EXCEPT !.mask = mask, !.affinity[p] = mask, !.cpus = new]
<1>1. /\ s \in PackType(t) /\ s.task = t /\ s.cpus \in CpuType /\ s.affinity \in [Process -> SUBSET Cpu]
      /\ mask \in SUBSET Cpu /\ c \in mask /\ p \in Process
      /\ Held(t, s.cpus, s.affinity, S) /\ \A d \in Cpu : p \notin Range(s.cpus.list[d])
  BY DEF Packing, PackType
<1>2. s.cpus.size[c] = Len(s.cpus.list[c])
  BY <1>1 DEF Held, HeldOn
<1>3. [add_task_to_cpu(t, s.cpus, c, p) EXCEPT !.util[c] = @ - Util(t, p)] = new
  <2>. DEFINE h == s.cpus
  <2>1. h \in CpuType /\ h.size[c] = Len(h.list[c]) /\ c \in Cpu
    BY <1>1, <1>2
  <2>. HIDE DEF h
  <2>2. Charged(t, h, c, p) = JoinedCpus(t, h, c, p)
    BY ONLY <2>1, PlacedIsJoined
  <2>. QED BY <2>2 DEF h, Charged
<1>4. Place(s, c, p) = r
  BY <1>1, <1>3 DEF Place
<1>5. s.cpus.list[c] = <<>> \/ check_admission_per_cpu(t, s.cpus, c, p)
  BY <1>1 DEF Admits
<1>. HIDE DEF mask
<1>6. /\ Held(t, new, [s.affinity EXCEPT ![p] = mask], S)
      /\ Range(new.list[c]) = Range(s.cpus.list[c]) \cup {p}
      /\ \A d \in Cpu \ {c} : new.list[d] = s.cpus.list[d]
  BY <1>1, <1>5, HeldJoined
<1>7. new \in CpuType
  BY <1>6 DEF Held
<1>. HIDE DEF new
<1>8. /\ r \in PackType(t) /\ r.affinity = [s.affinity EXCEPT ![p] = mask] /\ r.cpus = new
      /\ r.bins = s.bins /\ r.prev_bin = s.prev_bin /\ r.failed = s.failed
  BY <1>1, <1>7 DEF PackType
<1>. HIDE DEF r
<1>. QED BY <1>4, <1>6, <1>8 DEF PlacedOn, new

\* Max of two numbers.
LEMMA MaxPair ==
  ASSUME NEW a \in Int, NEW b \in Int
  PROVE  Max({a, b}) = IF a >= b THEN a ELSE b
BY DEF Max

\* Each attempt is at a CPU that exists.
LEMMA AttemptFacts ==
  ASSUME NEW t, NEW s \in PackType(t), NEW scheme \in Scheme, scheme # NextFit, NEW j \in Cpu
  PROVE  /\ Max({s.bins, j + 1}) \in 1 .. MAX_CPU
         /\ Max({s.bins, j + 1}) >= s.bins
         /\ Attempt(s, scheme, j) \in 0 .. Max({s.bins, j + 1}) - 1
         /\ Attempt(s, scheme, j) \in Cpu
<1>. DEFINE bins == Max({s.bins, j + 1})
            util == s.cpus.util
<1>1. s.bins \in 1 .. MAX_CPU /\ j \in 0 .. MAX_CPU - 1 /\ MAX_CPU \in Nat \ {0} /\ util \in [Cpu -> Int]
  BY MaxCpuAssumption DEF PackType, CpuType, Cpu
<1>2. bins = IF s.bins >= j + 1 THEN s.bins ELSE j + 1
  BY <1>1, MaxPair
<1>. HIDE DEF bins
<1>3. bins \in 1 .. MAX_CPU /\ bins >= s.bins /\ bins >= j + 1 /\ bins \in Nat \ {0}
  BY <1>1, <1>2
<1>4. j \in 0 .. bins - 1 /\ bins - 1 - j \in 0 .. bins - 1 /\ 0 .. bins - 1 \subseteq Cpu
  <2>1. j \in 0 .. bins - 1 /\ bins - 1 - j \in 0 .. bins - 1
    BY ONLY <1>1, <1>3
  <2>2. 0 .. bins - 1 \subseteq 0 .. MAX_CPU - 1
    BY ONLY <1>1, <1>3
  <2>. QED BY <2>1, <2>2 DEF Cpu
<1>5. \A c \in 0 .. bins - 1 : util[c] \in Int
  BY <1>1, <1>4
<1>. HIDE DEF util
<1>6. get_util_bin(util, j, bins) \in 0 .. bins - 1 /\ get_util_bin(util, bins - 1 - j, bins) \in 0 .. bins - 1
  BY <1>3, <1>4, <1>5, UtilBin
<1>7. \/ Attempt(s, scheme, j) = j
      \/ Attempt(s, scheme, j) = get_util_bin(util, j, bins)
      \/ Attempt(s, scheme, j) = get_util_bin(util, bins - 1 - j, bins)
  BY DEF Attempt, bins, util
<1>. QED BY <1>3, <1>4, <1>6, <1>7 DEF bins

\* One turn of the loop.
PackStep(scheme, s, p) ==
    IF s.failed THEN s
    ELSE IF scheme = NextFit THEN PlaceNext(s, p)
    ELSE PlaceByAttempts(s, scheme, p)

\* What one turn of the loop may do.
PackOutcome(t, scheme, s, p, r) ==
    \/ s.failed /\ r = s
    \/ /\ ~s.failed /\ r.failed /\ r.cpus = s.cpus /\ scheme # NextFit
       /\ \A j \in Cpu : ~Admits(s, Attempt(s, scheme, j), p)
    \/ ~s.failed /\ \E c \in Cpu : PlacedOn(t, s, c, p, r)
    \/ ~s.failed /\ r = s /\ scheme = NextFit /\ \A c \in Cpu : ~Admits(s, c, p)

\* A turn of the schemes with attempts: the process is placed, or the packing fails
\* because no attempt admits it.
LEMMA AttemptsStep ==
  ASSUME NEW t, NEW S, Granted(t, S), S \subseteq Process, NEW Done, NEW s, Packing(t, S, Done, s),
         NEW p \in S, p \notin Done, NEW scheme \in Scheme, scheme # NextFit, ~s.failed
  PROVE  /\ Packing(t, S, Done \cup {p}, PlaceByAttempts(s, scheme, p))
         /\ PackOutcome(t, scheme, s, p, PlaceByAttempts(s, scheme, p))
<1>. DEFINE accepted == {j \in Cpu : Admits(s, Attempt(s, scheme, j), p)}
            r == PlaceByAttempts(s, scheme, p)
<1>0. s \in PackType(t) /\ Cpu \subseteq Nat
  BY MaxCpuAssumption DEF Packing, Cpu
<1>1. CASE accepted = {}
  <2>1. r = [s EXCEPT !.failed = TRUE]
    BY <1>1 DEF PlaceByAttempts
  <2>2. r \in PackType(t) /\ r.cpus = s.cpus /\ r.affinity = s.affinity /\ r.bins = s.bins /\ r.failed = TRUE
    BY <1>0, <2>1 DEF PackType
  <2>. HIDE DEF r
  <2>3. Packing(t, S, Done \cup {p}, r)
    BY <2>2 DEF Packing
  <2>. QED BY <1>1, <2>2, <2>3 DEF PackOutcome, r
<1>2. CASE accepted # {}
  <2>. DEFINE j == Min(accepted)
              c == Attempt(s, scheme, j)
              bins == Max({s.bins, j + 1})
              a == Place(s, c, p)
  <2>1. j \in accepted
    <3>1. accepted \in SUBSET Nat
      BY <1>0
    <3>. HIDE DEF accepted
    <3>. QED BY <1>2, <3>1, MinIn
  <2>2. j \in Cpu /\ Admits(s, c, p)
    BY <2>1
  <2>3. r = [a EXCEPT !.bins = Max({@, j + 1})]
    BY <1>2 DEF PlaceByAttempts
  <2>. HIDE DEF j
  <2>4. /\ bins \in 1 .. MAX_CPU /\ bins >= s.bins /\ c \in 0 .. bins - 1 /\ c \in Cpu
    BY <1>0, <2>2, AttemptFacts
  <2>. HIDE DEF c
  <2>5. /\ a \in PackType(t) /\ a.bins = s.bins
        /\ Held(t, a.cpus, a.affinity, S)
        /\ PlacedOn(t, s, c, p, a)
    BY <2>2, <2>4, PlaceFacts
  <2>. HIDE DEF a
  <2>6. r = [a EXCEPT !.bins = bins]
    BY <2>3, <2>5
  <2>. HIDE DEF bins, r
  <2>7. /\ r \in PackType(t) /\ r.bins = bins /\ r.cpus = a.cpus /\ r.affinity = a.affinity /\ r.failed = a.failed
    BY <2>4, <2>5, <2>6 DEF PackType
  <2>8. PlacedOn(t, s, c, p, r)
    BY <2>5, <2>7 DEF PlacedOn
  <2>9. \A d \in Cpu : Range(r.cpus.list[d]) \subseteq Done \cup {p}
    BY <2>8 DEF PlacedOn, Packing
  <2>10. \A d \in Cpu : d >= r.bins => r.cpus.list[d] = <<>>
    <3>. SUFFICES ASSUME NEW d \in Cpu, d >= r.bins PROVE r.cpus.list[d] = <<>>
      OBVIOUS
    <3>1. d # c /\ d >= s.bins
      BY <1>0, <2>4, <2>7 DEF PackType
    <3>. QED BY <2>8, <3>1 DEF PlacedOn, Packing
  <2>11. Packing(t, S, Done \cup {p}, r)
    BY <2>5, <2>7, <2>9, <2>10 DEF Packing
  <2>. QED BY <2>4, <2>8, <2>11 DEF PackOutcome, r
<1>. QED BY <1>1, <1>2

\* Counting modulo n visits every CPU.
LEMMA ModCovers ==
  ASSUME NEW a \in Nat, NEW n \in Nat \ {0}
  PROVE  /\ \A k \in Nat : (a + k) % n \in 0 .. n - 1
         /\ \A c \in 0 .. n - 1 : \E k \in 0 .. n - 1 : (a + k) % n = c
<1>. DEFINE q == a \div n
            r == a % n
<1>1. q \in Nat /\ r \in 0 .. n - 1 /\ a = q * n + r
  OBVIOUS
<1>. HIDE DEF q, r
<1>2. ASSUME NEW k \in Nat PROVE (a + k) % n \in 0 .. n - 1
  <2>1. a + k \in Nat
    OBVIOUS
  <2>. QED BY <2>1
<1>3. ASSUME NEW c \in 0 .. n - 1 PROVE \E k \in 0 .. n - 1 : (a + k) % n = c
  <2>1. q * n \in Nat /\ (q + 1) * n = q * n + n
    BY <1>1
  <2>2. CASE c >= r
    <3>1. c - r \in 0 .. n - 1 /\ a + (c - r) \in Nat /\ a + (c - r) = q * n + c
      BY <1>1, <2>1, <2>2
    <3>2. (a + (c - r)) % n = c
      BY ONLY <1>1, <3>1, n \in Nat \ {0}, c \in 0 .. n - 1, DivUnique
    <3>. QED BY <3>1, <3>2
  <2>3. CASE c < r
    <3>1. c - r + n \in 0 .. n - 1 /\ a + (c - r + n) \in Nat /\ a + (c - r + n) = (q + 1) * n + c /\ q + 1 \in Nat
      BY <1>1, <2>1, <2>3
    <3>2. (a + (c - r + n)) % n = c
      BY ONLY <3>1, n \in Nat \ {0}, c \in 0 .. n - 1, DivUnique
    <3>. QED BY <3>1, <3>2
  <2>. QED BY <1>1, <2>2, <2>3
<1>. QED BY <1>2, <1>3

\* A turn of next fit: the process is placed, or left out because no CPU admits it.
LEMMA NextStep ==
  ASSUME NEW t, NEW S, Granted(t, S), S \subseteq Process, NEW Done, NEW s, Packing(t, S, Done, s),
         NEW p \in S, p \notin Done, ~s.failed
  PROVE  /\ Packing(t, S, Done \cup {p}, PlaceNext(s, p))
         /\ PackOutcome(t, NextFit, s, p, PlaceNext(s, p))
<1>. DEFINE bin(k) == (s.prev_bin + k) % s.bins
            accepted == {k \in 0 .. s.bins - 1 : Admits(s, bin(k), p)}
            r == PlaceNext(s, p)
            placed(c, bins) == [Place(s, c, p) EXCEPT !.bins = bins, !.prev_bin = c]
<1>0. /\ s \in PackType(t) /\ s.bins \in 1 .. MAX_CPU /\ s.bins \in Nat \ {0} /\ s.prev_bin \in Nat
      /\ MAX_CPU \in Nat \ {0} /\ 0 .. s.bins - 1 \subseteq Cpu /\ Cpu \subseteq Nat
  <2>1. s \in PackType(t) /\ MAX_CPU \in Nat \ {0}
    BY MaxCpuAssumption DEF Packing
  <2>2. s.bins \in 1 .. MAX_CPU /\ s.prev_bin \in Nat
    BY <2>1 DEF PackType
  <2>. QED BY <2>1, <2>2 DEF Cpu
<1>1. /\ \A k \in 0 .. s.bins - 1 : bin(k) \in 0 .. s.bins - 1
      /\ \A c \in 0 .. s.bins - 1 : \E k \in 0 .. s.bins - 1 : bin(k) = c
  BY <1>0, ModCovers
\* p goes to CPU c, which is in use or is the next one.
<1>2. ASSUME NEW c \in Cpu, s.cpus.list[c] = <<>> \/ Admits(s, c, p), NEW bins \in 1 .. MAX_CPU,
             bins >= s.bins, c < bins, r = placed(c, bins)
      PROVE  Packing(t, S, Done \cup {p}, r) /\ PackOutcome(t, NextFit, s, p, r)
  <2>. DEFINE a == Place(s, c, p)
  <2>1. /\ a \in PackType(t) /\ a.bins = s.bins
        /\ Held(t, a.cpus, a.affinity, S)
        /\ PlacedOn(t, s, c, p, a)
    BY <1>2, PlaceFacts
  <2>2. r = [a EXCEPT !.bins = bins, !.prev_bin = c] /\ c \in Nat
    BY <1>0, <1>2
  <2>. HIDE DEF a, r
  <2>3. /\ r \in PackType(t) /\ r.bins = bins /\ r.cpus = a.cpus /\ r.affinity = a.affinity /\ r.failed = a.failed
    BY <2>1, <2>2 DEF PackType
  <2>4. PlacedOn(t, s, c, p, r)
    BY <2>1, <2>3 DEF PlacedOn
  <2>5. \A d \in Cpu : Range(r.cpus.list[d]) \subseteq Done \cup {p}
    BY <2>4 DEF PlacedOn, Packing
  <2>6. \A d \in Cpu : d >= r.bins => r.cpus.list[d] = <<>>
    <3>. SUFFICES ASSUME NEW d \in Cpu, d >= r.bins PROVE r.cpus.list[d] = <<>>
      OBVIOUS
    <3>1. d # c /\ d >= s.bins
      BY <1>0, <1>2, <2>3
    <3>. QED BY <2>4, <3>1 DEF PlacedOn, Packing
  <2>7. Packing(t, S, Done \cup {p}, r)
    BY <2>1, <2>3, <2>5, <2>6 DEF Packing
  <2>. QED BY <2>4, <2>7 DEF PackOutcome
<1>3. CASE accepted # {}
  <2>. DEFINE k == Min(accepted)
  <2>1. k \in accepted
    <3>1. accepted \in SUBSET Nat
      BY <1>0
    <3>. HIDE DEF accepted
    <3>. QED BY <1>3, <3>1, MinIn
  <2>2. k \in 0 .. s.bins - 1 /\ Admits(s, bin(k), p)
    BY <2>1
  <2>3. r = [Place(s, bin(k), p) EXCEPT !.prev_bin = bin(k)]
    BY <1>3 DEF PlaceNext
  <2>. DEFINE c == bin(k)
  <2>4. c \in 0 .. s.bins - 1 /\ c \in Cpu /\ Admits(s, c, p)
    <3>. HIDE DEF k
    <3>. QED BY <1>0, <1>1, <2>2
  <2>5. r = [Place(s, c, p) EXCEPT !.prev_bin = c]
    BY <2>3
  <2>. HIDE DEF c, k
  <2>6. Place(s, c, p) \in PackType(t) /\ Place(s, c, p).bins = s.bins
    BY <2>4, PlaceFacts
  <2>7. [Place(s, c, p) EXCEPT !.prev_bin = c] = [Place(s, c, p) EXCEPT !.bins = s.bins, !.prev_bin = c]
    <3>. DEFINE a == Place(s, c, p)
    <3>. HIDE DEF a
    <3>1. a \in PackType(t) /\ a.bins = s.bins
      BY <2>6 DEF a
    <3>2. [a EXCEPT !.prev_bin = c] = [a EXCEPT !.bins = s.bins, !.prev_bin = c]
      BY <3>1 DEF PackType
    <3>. QED BY <3>2 DEF a
  <2>8. r = placed(c, s.bins)
    BY <2>5, <2>7
  <2>9. c < s.bins /\ s.bins >= s.bins
    BY <1>0, <2>4
  <2>. HIDE DEF r, placed
  <2>10. Packing(t, S, Done \cup {p}, r) /\ PackOutcome(t, NextFit, s, p, r)
    BY <1>0, <1>2, <2>4, <2>8, <2>9
  <2>. QED BY <2>10 DEF r
<1>4. CASE accepted = {} /\ s.bins < MAX_CPU
  <2>1. r = [Place(s, s.bins, p) EXCEPT !.bins = @ + 1, !.prev_bin = s.bins]
    BY <1>4 DEF PlaceNext
  <2>2. s.bins \in Cpu /\ s.bins + 1 \in 1 .. MAX_CPU
    BY <1>0, <1>4 DEF Cpu
  <2>3. s.cpus.list[s.bins] = <<>>
    BY <1>0, <2>2 DEF Packing
  <2>4. Place(s, s.bins, p).bins = s.bins
    BY <2>2, <2>3, PlaceFacts
  <2>5. r = [Place(s, s.bins, p) EXCEPT !.bins = s.bins + 1, !.prev_bin = s.bins]
    BY <2>1, <2>4
  <2>6. r = placed(s.bins, s.bins + 1)
    BY <2>5
  <2>7. s.bins < s.bins + 1 /\ s.bins + 1 >= s.bins
    BY <1>0
  <2>. HIDE DEF r, placed
  <2>8. Packing(t, S, Done \cup {p}, r) /\ PackOutcome(t, NextFit, s, p, r)
    BY <1>2, <2>2, <2>3, <2>6, <2>7
  <2>. QED BY <2>8 DEF r
<1>5. CASE accepted = {} /\ ~(s.bins < MAX_CPU)
  <2>1. r = s
    BY <1>5 DEF PlaceNext
  <2>2. s.bins = MAX_CPU
    BY <1>0, <1>5
  <2>3. \A c \in Cpu : ~Admits(s, c, p)
    <3>. SUFFICES ASSUME NEW c \in Cpu PROVE ~Admits(s, c, p)
      OBVIOUS
    <3>1. PICK k \in 0 .. s.bins - 1 : bin(k) = c
      BY <1>1, <2>2 DEF Cpu
    <3>2. ~Admits(s, bin(k), p)
      BY <1>5
    <3>. QED BY <3>1, <3>2
  <2>4. Packing(t, S, Done \cup {p}, s)
    BY DEF Packing
  <2>. HIDE DEF r
  <2>. QED BY <2>1, <2>3, <2>4 DEF PackOutcome, r
<1>. QED BY <1>3, <1>4, <1>5

\* The state before the first turn.
PackStart(t, reg, scheme, held, aff) ==
    [task |-> t, cpus |-> held, affinity |-> aff, mask |-> {},
     bins |-> IF scheme = 4 THEN MAX_CPU ELSE 1, prev_bin |-> 0, failed |-> reg = <<>>]

\* The states of the loop, one per turn.
PackTurns(t, reg, scheme, held, aff, f) ==
    /\ f[0] = PackStart(t, reg, scheme, held, aff)
    /\ \A k \in 1 .. Len(reg) : f[k] = PackStep(scheme, f[k - 1], sort_periodic_tasklist(t, reg)[k])
    /\ bin_packing(t, reg, scheme, held, aff) = f[Len(reg)]

\* bin_packing is these turns.
LEMMA PackingTurns ==
  ASSUME NEW t, NEW reg \in Seq(Process), NEW scheme, NEW held, NEW aff
  PROVE  \E f : PackTurns(t, reg, scheme, held, aff, f)
<1>. DEFINE n == Len(reg)
            order == sort_periodic_tasklist(t, reg)
            start == PackStart(t, reg, scheme, held, aff)
            turn(s, k) == PackStep(scheme, s, order[k])
            upto(m, g) == g = [k \in 0 .. m |-> IF k = 0 THEN start ELSE turn(g[k - 1], k)]
            T == {m \in Nat : \E g : upto(m, g)}
            f == CHOOSE g : upto(n, g)
<1>1. bin_packing(t, reg, scheme, held, aff) = f[n]
  BY DEF bin_packing, PackStart, PackStep
<1>. HIDE DEF start, turn
<1>2. 0 \in T
  <2>1. upto(0, [k \in 0 .. 0 |-> start])
    OBVIOUS
  <2>. HIDE DEF upto
  <2>2. \E g : upto(0, g)
    BY <2>1, Zenon
  <2>. QED BY <2>2
<1>3. ASSUME NEW m \in Nat, m \in T PROVE m + 1 \in T
  <2>1. PICK g : upto(m, g)
    BY <1>3
  <2>. DEFINE h == [k \in 0 .. m + 1 |-> IF k = m + 1 THEN turn(g[m], m + 1) ELSE g[k]]
  <2>2. \A k \in 0 .. m : g[k] = IF k = 0 THEN start ELSE turn(g[k - 1], k)
    BY <2>1
  <2>3. \A k \in 0 .. m : h[k] = g[k]
    OBVIOUS
  <2>4. h[m + 1] = turn(g[m], m + 1)
    OBVIOUS
  <2>5. h = [k \in 0 .. m + 1 |-> h[k]]
    OBVIOUS
  <2>. HIDE DEF h
  <2>6. ASSUME NEW k \in 0 .. m + 1 PROVE h[k] = IF k = 0 THEN start ELSE turn(h[k - 1], k)
    <3>1. CASE k = m + 1
      <4>1. k - 1 = m /\ k # 0 /\ m \in 0 .. m
        BY <3>1
      <4>2. h[k - 1] = g[m]
        BY <2>3, <4>1
      <4>. QED BY <2>4, <3>1, <4>1, <4>2
    <3>2. CASE k # m + 1
      <4>1. k \in 0 .. m /\ (k # 0 => k - 1 \in 0 .. m)
        BY <3>2
      <4>2. h[k] = g[k] /\ (k # 0 => h[k - 1] = g[k - 1])
        BY <2>3, <4>1
      <4>3. g[k] = IF k = 0 THEN start ELSE turn(g[k - 1], k)
        BY <2>2, <4>1
      <4>. QED BY <4>2, <4>3
    <3>. QED BY <3>1, <3>2
  <2>7. [k \in 0 .. m + 1 |-> h[k]] = [k \in 0 .. m + 1 |-> IF k = 0 THEN start ELSE turn(h[k - 1], k)]
    BY <2>6
  <2>8. upto(m + 1, h)
    BY <2>5, <2>7
  <2>. HIDE DEF upto
  <2>9. \E x : upto(m + 1, x)
    BY <2>8, Zenon
  <2>10. m + 1 \in Nat
    OBVIOUS
  <2>. QED BY <2>9, <2>10
<1>4. Nat \subseteq T
  <2>. HIDE DEF T
  <2>. QED BY <1>2, <1>3, SetInduction
<1>5. n \in Nat
  OBVIOUS
<1>6. \E g : upto(n, g)
  BY <1>4, <1>5
<1>7. upto(n, f)
  <2>. HIDE DEF upto
  <2>. QED BY <1>6, Zenon
<1>. HIDE DEF f, n
<1>8. \A k \in 0 .. n : f[k] = IF k = 0 THEN start ELSE turn(f[k - 1], k)
  BY <1>7
<1>9. f[0] = start /\ \A k \in 1 .. n : f[k] = turn(f[k - 1], k)
  BY <1>5, <1>8
<1>10. PackTurns(t, reg, scheme, held, aff, f)
  BY <1>1, <1>9 DEF PackTurns, start, turn, n
<1>. QED BY <1>10, Zenon

\* Empty CPUs hold nothing wrong.
LEMMA EmptyHeld ==
  ASSUME NEW t, NEW S, NEW aff
  PROVE  Held(t, EmptyCpus, aff, S) /\ \A c \in Cpu : EmptyCpus.list[c] = <<>>
<1>1. /\ EmptyCpus \in CpuType
      /\ \A c \in Cpu : EmptyCpus.list[c] = <<>> /\ EmptyCpus.size[c] = 0 /\ EmptyCpus.util[c] = SCALE_UP_FACTOR
  BY DEF EmptyCpus, CpuType, SCALE_UP_FACTOR
<1>2. Range(<<>>) = {} /\ IsInjective(<<>>) /\ Len(<<>>) = 0
  BY DEF Range, IsInjective
<1>3. UtilOn(t, {}) = 0
  BY SumEmpty DEF UtilOn, SumFunction
<1>4. TaskArray(t, <<>>) = <<>>
  BY DEF TaskArray
<1>5. __check_admission(<<>>) /\ Sorted(t.period, <<>>)
  BY DEF __check_admission, Sorted
<1>6. \A c \in Cpu : HeldOn(t, EmptyCpus, aff, c)
  <2>1. SCALE_UP_FACTOR <= SCALE_UP_FACTOR - UtilOn(t, Range(<<>>))
    <3>1. UtilOn(t, Range(<<>>)) = 0
      BY <1>2, <1>3
    <3>. QED BY <3>1 DEF SCALE_UP_FACTOR
  <2>. SUFFICES ASSUME NEW c \in Cpu PROVE HeldOn(t, EmptyCpus, aff, c)
    OBVIOUS
  <2>. DEFINE E == EmptyCpus
  <2>2. E.list[c] = <<>> /\ E.size[c] = 0 /\ E.util[c] = SCALE_UP_FACTOR
    BY <1>1
  <2>. HIDE DEF E
  <2>3. HeldOn(t, E, aff, c)
    BY <1>2, <1>4, <1>5, <2>1, <2>2 DEF HeldOn
  <2>. QED BY <2>3 DEF E
<1>. QED BY <1>1, <1>2, <1>6 DEF Held

\* What the first k turns have placed, and what turn k + 1 does.
LEMMA PackingRun ==
  ASSUME NEW t, NEW S, Granted(t, S), S \subseteq Process,
         NEW reg \in Seq(Process), IsInjective(reg), Range(reg) = S,
         NEW scheme \in Scheme, NEW aff \in [Process -> SUBSET Cpu],
         NEW f, PackTurns(t, reg, scheme, EmptyCpus, aff, f)
  PROVE  /\ \A k \in 0 .. Len(reg) :
              Packing(t, S, {sort_periodic_tasklist(t, reg)[i] : i \in 1 .. k}, f[k])
         /\ \A k \in 1 .. Len(reg) : /\ sort_periodic_tasklist(t, reg)[k] \in S
                                     /\ PackOutcome(t, scheme, f[k - 1], sort_periodic_tasklist(t, reg)[k], f[k])
<1>. DEFINE n == Len(reg)
            order == sort_periodic_tasklist(t, reg)
            Done(k) == {order[i] : i \in 1 .. k}
            T == {k \in Nat : k <= n => Packing(t, S, Done(k), f[k])}
<1>0. n \in Nat /\ order \in [1 .. n -> S] /\ IsInjective(order)
  <2>1. Range(reg) \subseteq S
    OBVIOUS
  <2>2. order \in [1 .. n -> Range(reg)] /\ IsInjective(order)
    BY <2>1, PackingOrder
  <2>3. n \in Nat
    OBVIOUS
  <2>. QED BY <2>2, <2>3
<1>. HIDE DEF order
<1>1. /\ f[0] = PackStart(t, reg, scheme, EmptyCpus, aff)
      /\ \A k \in 1 .. n : f[k] = PackStep(scheme, f[k - 1], order[k])
  BY DEF PackTurns, order
<1>2. Packing(t, S, Done(0), f[0])
  <2>. DEFINE s == f[0]
  <2>1. Held(t, EmptyCpus, aff, S) /\ EmptyCpus \in CpuType /\ \A c \in Cpu : EmptyCpus.list[c] = <<>>
    BY EmptyHeld DEF Held
  <2>2. /\ s = PackStart(t, reg, scheme, EmptyCpus, aff)
        /\ (IF scheme = 4 THEN MAX_CPU ELSE 1) \in 1 .. MAX_CPU
    BY <1>1, MaxCpuAssumption
  <2>3. s \in PackType(t) /\ s.cpus = EmptyCpus /\ s.affinity = aff
    BY <2>1, <2>2 DEF PackType, PackStart
  <2>4. \A c \in Cpu : Range(s.cpus.list[c]) \subseteq Done(0)
    BY <2>1, <2>3 DEF Range
  <2>. QED BY <2>1, <2>3, <2>4 DEF Packing
<1>3. ASSUME NEW k \in 1 .. n, Packing(t, S, Done(k - 1), f[k - 1])
      PROVE  Packing(t, S, Done(k), f[k]) /\ PackOutcome(t, scheme, f[k - 1], order[k], f[k])
  <2>. DEFINE p == order[k]
              D == Done(k - 1)
              s == f[k - 1]
  <2>1. p \in S /\ Done(k) = D \cup {p} /\ p \notin D
    <3>1. k \in Nat /\ \A i \in 1 .. k : i \in 1 .. k - 1 \/ i = k
      BY <1>0
    <3>2. \A i \in 1 .. k - 1 : i \in 1 .. k /\ i \in 1 .. n /\ i # k
      BY <1>0
    <3>3. p \notin D
      BY <1>0, <3>2 DEF IsInjective
    <3>4. k \in 1 .. k /\ p \in S
      BY <1>0
    <3>5. Done(k) \subseteq D \cup {p}
      BY <3>1
    <3>6. D \cup {p} \subseteq Done(k)
      BY <3>2, <3>4
    <3>. QED BY <3>3, <3>4, <3>5, <3>6
  <2>2. f[k] = PackStep(scheme, s, p)
    BY <1>1
  <2>. HIDE DEF p, D, Done
  <2>3. Packing(t, S, D, s)
    BY <1>3 DEF D
  <2>. HIDE DEF s
  <2>4. CASE s.failed
    <3>1. f[k] = s
      BY <2>2, <2>4 DEF PackStep
    <3>2. Packing(t, S, D \cup {p}, s)
      BY <2>3 DEF Packing
    <3>3. PackOutcome(t, scheme, s, p, f[k])
      BY <2>4, <3>1 DEF PackOutcome
    <3>. QED BY <2>1, <3>1, <3>2, <3>3 DEF s, p
  <2>5. CASE ~s.failed /\ scheme = NextFit
    <3>1. f[k] = PlaceNext(s, p)
      BY <2>2, <2>5 DEF PackStep
    <3>2. Packing(t, S, D \cup {p}, PlaceNext(s, p)) /\ PackOutcome(t, NextFit, s, p, PlaceNext(s, p))
      BY <2>1, <2>3, <2>5, NextStep
    <3>. QED BY <2>1, <2>5, <3>1, <3>2 DEF s, p
  <2>6. CASE ~s.failed /\ scheme # NextFit
    <3>1. f[k] = PlaceByAttempts(s, scheme, p)
      BY <2>2, <2>6 DEF PackStep
    <3>2. /\ Packing(t, S, D \cup {p}, PlaceByAttempts(s, scheme, p))
          /\ PackOutcome(t, scheme, s, p, PlaceByAttempts(s, scheme, p))
      BY <2>1, <2>3, <2>6, AttemptsStep
    <3>. QED BY <2>1, <3>1, <3>2 DEF s, p
  <2>. QED BY <2>4, <2>5, <2>6
<1>. HIDE DEF Done
<1>4. 0 \in T
  BY <1>2
<1>5. ASSUME NEW k \in Nat, k \in T PROVE k + 1 \in T
  <2>. SUFFICES ASSUME k + 1 <= n PROVE Packing(t, S, Done(k + 1), f[k + 1])
    OBVIOUS
  <2>1. k <= n /\ k + 1 \in 1 .. n /\ (k + 1) - 1 = k
    BY <1>0
  <2>2. Packing(t, S, Done(k), f[k])
    BY <1>5, <2>1
  <2>. QED BY <1>3, <2>1, <2>2
<1>6. Nat \subseteq T
  <2>. HIDE DEF T
  <2>. QED BY <1>4, <1>5, SetInduction
<1>7. \A k \in 0 .. n : Packing(t, S, Done(k), f[k])
  BY <1>0, <1>6
<1>8. \A k \in 1 .. n : order[k] \in S /\ PackOutcome(t, scheme, f[k - 1], order[k], f[k])
  <2>1. \A k \in 1 .. n : k - 1 \in 0 .. n /\ order[k] \in S
    BY <1>0
  <2>. QED BY <1>3, <1>7, <2>1
<1>. QED BY <1>7, <1>8 DEF order, Done

\* t and u hold the same reservations for the processes of A.
Agree(t, u, A) == \A p \in A : u.budget[p] = t.budget[p] /\ u.period[p] = t.period[p]

\* Then a list of them is the same task array, sorted, of the same utilisation and
\* of the same ranks.
LEMMA SameTasks ==
  ASSUME NEW t, NEW u, NEW A, Agree(t, u, A), NEW order \in Seq(Process), Range(order) \subseteq A
  PROVE  /\ TaskArray(u, order) = TaskArray(t, order)
         /\ Sorted(t.period, order) => Sorted(u.period, order)
         /\ UtilOn(u, Range(order)) = UtilOn(t, Range(order))
         /\ \A i \in 1 .. Len(order) : Rank(order, i, u.period) = Rank(order, i, t.period)
<1>1. Len(order) \in Nat /\ DOMAIN order = 1 .. Len(order) /\ \A i \in 1 .. Len(order) : order[i] \in A
  BY RangeFacts
<1>2. \A p \in A : Usecs(u, p) = Usecs(t, p) /\ Util(u, p) = Util(t, p)
  <2>1. \A p \in A : Usecs(u, p) = Usecs(t, p)
    BY DEF Agree, Usecs
  <2>. QED BY <2>1 DEF Util
<1>3. \A i \in 1 .. Len(order) : u.period[order[i]] = t.period[order[i]]
  BY <1>1 DEF Agree
<1>4. TaskArray(u, order) = TaskArray(t, order)
  BY <1>1, <1>2 DEF TaskArray
<1>5. Sorted(t.period, order) => Sorted(u.period, order)
  BY <1>3 DEF Sorted
<1>6. UtilOn(u, Range(order)) = UtilOn(t, Range(order))
  <2>1. [p \in Range(order) |-> Util(u, p)] = [p \in Range(order) |-> Util(t, p)]
    BY <1>2
  <2>. QED BY <2>1 DEF UtilOn
<1>7. \A i \in 1 .. Len(order) : Rank(order, i, u.period) = Rank(order, i, t.period)
  <2>. DEFINE n == Len(order)
              p == u.period
              q == t.period
  <2>1. SamePeriods(order, n, p, q)
    BY <1>1, <1>3 DEF SamePeriods
  <2>. HIDE DEF n, p, q
  <2>2. \A i \in 1 .. n : Rank(order, i, p) = Rank(order, i, q)
    BY <2>1, RankAgree
  <2>. QED BY <2>2 DEF n, p, q
<1>. QED BY <1>4, <1>5, <1>6, <1>7

\* A list whose processes are on a list that passes passes too.
LEMMA FitsPart ==
  ASSUME NEW t, NEW S, Granted(t, S),
         NEW part \in Seq(Process), IsInjective(part), Sorted(t.period, part),
         NEW order \in Seq(Process), IsInjective(order), Sorted(t.period, order),
         Range(part) \subseteq Range(order), Range(order) \subseteq S,
         __check_admission(TaskArray(t, order))
  PROVE  __check_admission(TaskArray(t, part))
<1>. DEFINE a == TaskArray(t, part)
            b == TaskArray(t, order)
            n == Len(part)
            m == Len(order)
            h == [i \in 1 .. n |-> CHOOSE j \in 1 .. m : order[j] = part[i]]
<1>1. /\ a \in TaskList /\ Len(a) = n /\ (\A i \in 1 .. n : a[i] = Usecs(t, part[i])) /\ ByPeriod(a)
      /\ b \in TaskList /\ Len(b) = m /\ (\A i \in 1 .. m : b[i] = Usecs(t, order[i])) /\ ByPeriod(b)
  <2>1. Range(part) \subseteq S
    OBVIOUS
  <2>. QED BY <2>1, TaskArrayFacts
<1>2. /\ DOMAIN part = 1 .. n /\ DOMAIN order = 1 .. m /\ \A i \in 1 .. n : part[i] \in Range(order)
  BY RangeFacts
<1>3. \A i \in 1 .. n : \E j \in 1 .. m : order[j] = part[i]
  BY <1>2 DEF Range
<1>4. h \in [1 .. n -> 1 .. m] /\ \A i \in 1 .. n : order[h[i]] = part[i]
  BY <1>3
<1>. HIDE DEF h
<1>5. \A i, j \in 1 .. n : h[i] = h[j] => i = j
  <2>. SUFFICES ASSUME NEW i \in 1 .. n, NEW j \in 1 .. n, h[i] = h[j] PROVE i = j
    OBVIOUS
  <2>1. part[i] = part[j]
    BY <1>4
  <2>. QED BY <1>2, <2>1 DEF IsInjective
<1>6. \A i \in 1 .. n : a[i] = b[h[i]]
  BY <1>1, <1>4
<1>7. __check_admission(b)
  OBVIOUS
<1>. HIDE DEF a, b, n, m
<1>8. __check_admission(a)
  <2>1. h \in [1 .. Len(a) -> 1 .. Len(b)] /\ \A i, j \in 1 .. Len(a) : h[i] = h[j] => i = j
    BY <1>1, <1>4, <1>5
  <2>2. \A i \in 1 .. Len(a) : a[i] = b[h[i]]
    BY <1>1, <1>6
  <2>. QED BY ONLY <1>1, <1>7, <2>1, <2>2, AdmissionOfPart
<1>. QED BY <1>8 DEF a

\* CPUs that hold nothing hold nothing wrong, whatever else changes.
LEMMA HeldEmpty ==
  ASSUME NEW t, NEW S, NEW held, NEW aff, Held(t, held, aff, S), \A c \in Cpu : held.list[c] = <<>>,
         NEW u, NEW S2, NEW aff2
  PROVE  Held(u, held, aff2, S2)
<1>1. Range(<<>>) = {} /\ IsInjective(<<>>) /\ Len(<<>>) = 0
  BY DEF Range, IsInjective
<1>2. UtilOn(t, {}) = 0 /\ UtilOn(u, {}) = 0
  BY SumEmpty DEF UtilOn, SumFunction
<1>3. TaskArray(u, <<>>) = <<>>
  BY DEF TaskArray
<1>4. __check_admission(<<>>) /\ Sorted(u.period, <<>>)
  BY DEF __check_admission, Sorted
<1>5. UtilOn(t, Range(<<>>)) = UtilOn(u, Range(<<>>))
  BY <1>1, <1>2
<1>6. ASSUME NEW c \in Cpu PROVE HeldOn(u, held, aff2, c)
  BY <1>1, <1>3, <1>4, <1>5 DEF Held, HeldOn
<1>. QED BY <1>1, <1>6 DEF Held

\* clear_cpu_lists empties every CPU.
LEMMA ClearIsEmpty ==
  ASSUME NEW t, NEW S, NEW held, NEW aff, Held(t, held, aff, S)
  PROVE  clear_cpu_lists(held) = EmptyCpus
<1>1. ASSUME NEW c \in Cpu PROVE (IF held.size[c] > 0 THEN <<>> ELSE held.list[c]) = <<>>
  <2>1. held.size[c] = Len(held.list[c]) /\ held.list[c] \in Seq(Process)
    BY DEF Held, HeldOn, CpuType
  <2>. QED BY <2>1
<1>2. [c \in Cpu |-> IF held.size[c] > 0 THEN <<>> ELSE held.list[c]] = [c \in Cpu |-> <<>>]
  BY <1>1
<1>. QED BY <1>2 DEF clear_cpu_lists, EmptyCpus

\* new is held without p.
Without(held, new, p) ==
    /\ new \in CpuType
    /\ \A c \in Cpu : /\ new.list[c] = RemoveFirst(held.list[c], p)
                      /\ new.size[c] = Len(new.list[c])
                      /\ new.util[c] = held.util[c]

\* The processes S of CPUs held, with reservations t and affinities aff; p leaves,
\* and new, u and aff2 are what they are afterwards.
Leaving(t, S, held, aff, p, u, aff2, new) ==
    /\ Granted(t, S) /\ S \subseteq Process /\ Held(t, held, aff, S)
    /\ Agree(t, u, S \ {p}) /\ (\A q \in S \ {p} : aff2[q] = aff[q])
    /\ Without(held, new, p)

\* What the CPUs hold is still right when a process leaves: the test is not
\* repeated, and the room its utilisation took is not given back.
LEMMA HeldWithout ==
  ASSUME NEW t, NEW S, NEW held, NEW aff, NEW p, NEW u, NEW aff2, NEW new,
         Leaving(t, S, held, aff, p, u, aff2, new)
  PROVE  /\ Held(u, new, aff2, S \ {p})
         /\ \A c \in Cpu : Range(new.list[c]) = Range(held.list[c]) \ {p}
<1>0. /\ Granted(t, S) /\ S \subseteq Process /\ Held(t, held, aff, S)
      /\ Agree(t, u, S \ {p}) /\ (\A q \in S \ {p} : aff2[q] = aff[q])
      /\ Without(held, new, p)
  BY DEF Leaving
<1>. USE <1>0
<1>1. ASSUME NEW c \in Cpu
      PROVE  /\ Range(new.list[c]) = Range(held.list[c]) \ {p} /\ Range(new.list[c]) \subseteq S \ {p}
             /\ HeldOn(u, new, aff2, c)
  <2>. DEFINE old == held.list[c]
              o == new.list[c]
  <2>1. /\ old \in Seq(Process) /\ IsInjective(old) /\ Sorted(t.period, old) /\ Range(old) \subseteq S
        /\ __check_admission(TaskArray(t, old)) /\ held.util[c] \in Int
        /\ held.util[c] <= SCALE_UP_FACTOR - UtilOn(t, Range(old))
        /\ \A q \in Range(old) : c \in aff[q]
    BY DEF Held, HeldOn, CpuType
  <2>2. o = RemoveFirst(old, p) /\ new.size[c] = Len(o) /\ new.util[c] = held.util[c]
    BY DEF Without
  <2>. HIDE DEF old, o
  <2>3. o \in Seq(Process) /\ IsInjective(o) /\ Range(o) = Range(old) \ {p}
    BY <2>1, <2>2, RemoveFirstPart
  <2>4. Sorted(t.period, o)
    BY <2>1, <2>2, RemoveFirstSorted
  <2>5. Range(o) \subseteq S /\ Range(o) \subseteq S \ {p} /\ Range(o) \subseteq Range(old)
    BY <2>1, <2>3
  <2>6. __check_admission(TaskArray(t, o))
    BY <2>1, <2>3, <2>4, <2>5, FitsPart
  <2>7. UtilOn(t, Range(o)) <= UtilOn(t, Range(old)) /\ UtilOn(t, Range(o)) \in Nat /\ UtilOn(t, Range(old)) \in Nat
    <3>1. IsFiniteSet(Range(o)) /\ IsFiniteSet(Range(old))
      BY <2>1, <2>3, RangeFacts
    <3>2. UtilOn(t, Range(o)) \in Nat /\ UtilOn(t, Range(old)) \in Nat
      BY <2>1, <2>5, <3>1, UtilFacts
    <3>3. CASE p \in Range(old)
      <4>1. p \in S \ Range(o) /\ Range(old) = Range(o) \cup {p}
        BY <2>1, <2>3, <3>3
      <4>2. UtilOn(t, Range(o) \cup {p}) = UtilOn(t, Range(o)) + Util(t, p)
        BY <2>5, <3>1, <4>1, UtilFacts
      <4>3. Util(t, p) \in Nat
        BY <4>1, UsecsFacts
      <4>4. UtilOn(t, Range(old)) = UtilOn(t, Range(o)) + Util(t, p)
        BY <4>1, <4>2
      <4>. QED BY <3>2, <4>3, <4>4
    <3>4. CASE p \notin Range(old)
      <4>1. Range(o) = Range(old)
        BY <2>3, <3>4
      <4>. QED BY <3>2, <4>1
    <3>. QED BY <3>3, <3>4
  <2>8. /\ TaskArray(u, o) = TaskArray(t, o) /\ Sorted(u.period, o)
        /\ UtilOn(u, Range(o)) = UtilOn(t, Range(o))
    BY <2>3, <2>4, <2>5, SameTasks
  <2>9. held.util[c] <= SCALE_UP_FACTOR - UtilOn(u, Range(o))
    BY <2>1, <2>7, <2>8 DEF SCALE_UP_FACTOR
  <2>10. \A q \in Range(o) : c \in aff2[q]
    BY <2>1, <2>5
  <2>11. HeldOn(u, new, aff2, c)
    BY <2>2, <2>3, <2>6, <2>8, <2>9, <2>10 DEF HeldOn, o
  <2>. QED BY <2>3, <2>5, <2>11 DEF o, old
<1>2. \A c, d \in Cpu : c # d => Range(new.list[c]) \cap Range(new.list[d]) = {}
  <2>1. \A c, d \in Cpu : c # d => Range(held.list[c]) \cap Range(held.list[d]) = {}
    BY DEF Held
  <2>. QED BY <1>1, <2>1
<1>. QED BY <1>1, <1>2 DEF Held, Without

\* A list of granted reservations has ranks, no more than there are processes.
LEMMA RankedAndBounded ==
  ASSUME NEW t, NEW S, Granted(t, S), NEW order \in Seq(Process), IsInjective(order),
         Sorted(t.period, order), Range(order) \subseteq S
  PROVE  /\ RankedList(order, Len(order), t.period)
         /\ Len(order) <= Cardinality(Process) /\ Cardinality(Process) \in Nat
         /\ \A i \in 1 .. Len(order) : Rank(order, i, t.period) \in 0 .. Cardinality(Process)
<1>1. /\ Len(order) \in Nat /\ Cardinality(Range(order)) = Len(order) /\ Range(order) \subseteq Process
      /\ \A i \in 1 .. Len(order) : order[i] \in S
  BY RangeFacts
<1>2. Len(order) <= Cardinality(Process) /\ Cardinality(Process) \in Nat
  BY <1>1, ProcessAssumption, FS_Subset, FS_CardinalityType
<1>3. RankedList(order, Len(order), t.period)
  <2>1. \A i \in 1 .. Len(order) : t.period[order[i]] \in Nat \ {0}
    BY <1>1, NsPerUsAssumption DEF Granted
  <2>. QED BY <1>1, <2>1 DEF RankedList, Sorted
<1>4. \A i \in 1 .. Len(order) : Rank(order, i, t.period) \in 1 .. i
  BY <1>3, RankFacts
<1>5. \A i \in 1 .. Len(order) : Rank(order, i, t.period) \in 0 .. Cardinality(Process)
  BY <1>1, <1>2, <1>4
<1>. QED BY <1>2, <1>3, <1>5

\* set_rt_priorities_per_cpu gives each process its rank on the list of its CPU.
LEMMA RanksSet ==
  ASSUME NEW lists, NEW cs, NEW priority,
         \A c \in cs : lists[c] \in Seq(Process) /\ IsInjective(lists[c]),
         \A c, d \in cs : c # d => Range(lists[c]) \cap Range(lists[d]) = {}
  PROVE  /\ \A c \in cs : \A i \in 1 .. Len(lists[c]) :
              set_rt_priorities_per_cpu(lists, cs, priority)[lists[c][i]]
                = Rank(lists[c], i, task.period)
         /\ \A q \in Process : (\A c \in cs : q \notin Range(lists[c])) =>
              set_rt_priorities_per_cpu(lists, cs, priority)[q] = priority[q]
         /\ DOMAIN set_rt_priorities_per_cpu(lists, cs, priority) = Process
<1>. DEFINE set == UNION {Range(lists[c]) : c \in cs}
            cpu(q) == CHOOSE c \in cs : q \in Range(lists[c])
            pos(q) == CHOOSE i \in DOMAIN lists[cpu(q)] : lists[cpu(q)][i] = q
            f == set_rt_priorities_per_cpu(lists, cs, priority)
<1>1. f = [q \in Process |-> IF q \in set THEN Rank(lists[cpu(q)], pos(q), task.period) ELSE priority[q]]
  BY DEF set_rt_priorities_per_cpu
<1>2. ASSUME NEW c \in cs, NEW i \in 1 .. Len(lists[c])
      PROVE  /\ lists[c][i] \in Process /\ lists[c][i] \in set
             /\ cpu(lists[c][i]) = c /\ pos(lists[c][i]) = i
  <2>. DEFINE q == lists[c][i]
  <2>1. lists[c] \in Seq(Process) /\ IsInjective(lists[c])
    OBVIOUS
  <2>2. DOMAIN lists[c] = 1 .. Len(lists[c]) /\ q \in Range(lists[c]) /\ q \in Process
    BY <2>1, RangeFacts
  <2>. HIDE DEF q
  <2>3. cpu(q) = c
    BY <2>2
  <2>4. i \in DOMAIN lists[c] /\ \A k \in DOMAIN lists[c] : lists[c][k] = q <=> k = i
    BY <2>1, <2>2 DEF IsInjective, q
  <2>5. (CHOOSE k \in DOMAIN lists[c] : lists[c][k] = q) = i
    BY <2>4
  <2>6. pos(q) = i
    <3>. HIDE DEF cpu
    <3>. QED BY <2>3, <2>5
  <2>7. q \in set
    BY <2>2
  <2>. QED BY <2>2, <2>3, <2>6, <2>7 DEF q
<1>. HIDE DEF f, cpu, pos, set
<1>3. ASSUME NEW c \in cs, NEW i \in 1 .. Len(lists[c]) PROVE f[lists[c][i]] = Rank(lists[c], i, task.period)
  BY <1>1, <1>2
<1>4. ASSUME NEW q \in Process, \A c \in cs : q \notin Range(lists[c]) PROVE f[q] = priority[q]
  <2>1. q \notin set
    BY <1>4 DEF set
  <2>. QED BY <1>1, <2>1
<1>5. DOMAIN f = Process
  BY <1>1
<1>. QED BY <1>3, <1>4, <1>5 DEF f

-----------------------------------------------------------------------------

\* The invariant holds initially.
LEMMA InitInv == Init => Inv
<1>. SUFFICES ASSUME Init PROVE Inv
  OBVIOUS
<1>. USE DEF Init
<1>1. /\ Range(<<>>) = {} /\ IsInjective(<<>>) /\ Len(<<>>) = 0 /\ <<>> \in Seq(Process)
      /\ Cardinality(Process) \in Nat
  BY ProcessAssumption, FS_CardinalityType DEF Range, IsInjective
<1>2. TypeInv
  <2>1. started \in BOOLEAN
    BY Zenon
  <2>2. /\ alive \subseteq Process /\ registry \in Seq(Process)
        /\ task \in [budget : [Process -> {r.budget : r \in Request} \cup {Unset}],
                     period : [Process -> {r.period : r \in Request} \cup {Unset}]]
        /\ affinity \in [Process -> SUBSET Cpu]
        /\ is_budget_set \subseteq Process /\ period_timer \subseteq Process
        /\ rt_priority \in [Process -> 0 .. Cardinality(Process)]
    BY <1>1
  <2>. QED BY ONLY <2>1, <2>2, Zenon DEF TypeInv
<1>3. RegistryInv
  BY <1>1 DEF RegistryInv, Registered, Granted, Sorted
<1>4. Held(task, cpus, affinity, Registered)
  BY EmptyHeld
<1>5. ~started /\ period_timer = {}
  BY ONLY Init, Zenon DEF Init
<1>6. TimersInv
  BY ONLY <1>5 DEF TimersInv
<1>7. RanksInv
  BY ONLY <1>5 DEF RanksInv
<1>. QED BY <1>2, <1>3, <1>4, <1>6, <1>7 DEF Inv

\* The processes on the CPUs are registered.
LEMMA PackedFacts ==
  ASSUME NEW t, NEW aff, NEW S, Held(t, cpus, aff, S)
  PROVE  /\ Packed \subseteq S
         /\ Packed = {} => \A c \in Cpu : cpus.list[c] = <<>>
         /\ \A c \in Cpu : cpus.list[c] \in Seq(Process) /\ OnCpu(c) \subseteq S
<1>1. \A c \in Cpu : cpus.list[c] \in Seq(Process) /\ OnCpu(c) \subseteq S
  BY DEF Held, CpuType, OnCpu
<1>2. ASSUME NEW c \in Cpu, Packed = {} PROVE cpus.list[c] = <<>>
  <2>1. Range(cpus.list[c]) = {}
    BY <1>2 DEF Packed, OnCpu
  <2>2. \A i \in 1 .. Len(cpus.list[c]) : cpus.list[c][i] \in Range(cpus.list[c])
    BY <1>1, RangeFacts
  <2>3. Len(cpus.list[c]) = 0
    <3>1. Len(cpus.list[c]) \in Nat /\ 1 \notin 1 .. Len(cpus.list[c])
      BY <1>1, <2>1, <2>2
    <3>. QED BY <3>1
  <2>. QED BY <1>1, <2>3
<1>. QED BY <1>1, <1>2 DEF Packed

\* setProcessBudget keeps the invariant.
LEMMA SetProcessBudgetInv ==
  ASSUME Inv, NEW p \in Process, NEW r \in Request, Packed = {},
         p \in Registered => p \in is_budget_set, SetProcessBudget(p, r.budget, r.period)
  PROVE  Inv'
<1>. DEFINE others == IF p \in is_budget_set THEN RemoveFirst(registry, p) ELSE registry
            t == task'
            A == Range(others) \cup {p}
<1>0. /\ TypeInv /\ RegistryInv /\ Held(task, cpus, affinity, Registered) /\ TimersInv
      /\ registry \in Seq(Process) /\ IsInjective(registry) /\ Granted(task, Registered)
      /\ Sorted(task.period, registry)
  BY DEF Inv, TypeInv, RegistryInv
<1>1. /\ r.budget \in Nat /\ r.period \in Nat /\ r.period >= NsPerUs /\ r.budget < r.period /\ p \in alive
  BY PartitionedAssumption DEF SetProcessBudget
<1>2. /\ t = [budget |-> [task.budget EXCEPT ![p] = r.budget], period |-> [task.period EXCEPT ![p] = r.period]]
      /\ period_timer' = period_timer \ {p}
      /\ UNCHANGED <<alive, cpus, affinity, is_budget_set, rt_priority, started>>
  BY DEF SetProcessBudget
<1>3. /\ t.budget = [task.budget EXCEPT ![p] = r.budget] /\ t.period = [task.period EXCEPT ![p] = r.period]
  BY <1>2
<1>4. /\ \A q \in Process : t.budget[q] = (IF q = p THEN r.budget ELSE task.budget[q])
      /\ \A q \in Process : t.period[q] = (IF q = p THEN r.period ELSE task.period[q])
  BY <1>0, <1>3 DEF TypeInv
<1>5. /\ others \in Seq(Process) /\ IsInjective(others) /\ Range(others) = Registered \ {p}
      /\ Sorted(task.period, others)
  <2>1. CASE p \in is_budget_set
    <3>. DEFINE o == RemoveFirst(registry, p)
    <3>1. o \in Seq(Process) /\ IsInjective(o) /\ Range(o) = Registered \ {p}
      BY <1>0, RemoveFirstPart DEF Registered
    <3>2. Sorted(task.period, o)
      BY <1>0, RemoveFirstSorted DEF Registered
    <3>3. others = o
      BY <2>1
    <3>. HIDE DEF o, others
    <3>. QED BY <3>1, <3>2, <3>3
  <2>2. CASE p \notin is_budget_set
    BY <1>0, <2>2 DEF Registered
  <2>. QED BY <2>1, <2>2
<1>6. registry' = Joined(t, others, p)
  <2>. DEFINE l1 == SelectInSeq(others, LAMBDA q : task.period[q] > r.period)
              l2 == SelectInSeq(others, LAMBDA q : t.period[q] > t.period[p])
  <2>1. registry' = InsertAt(others, IF l1 = 0 THEN Len(others) + 1 ELSE l1, p)
    BY DEF SetProcessBudget
  <2>2. Joined(t, others, p) = InsertAt(others, IF l2 = 0 THEN Len(others) + 1 ELSE l2, p)
    BY DEF Joined
  <2>3. l1 = l2
    <3>1. \A i \in 1 .. Len(others) : others[i] \in Range(others)
      BY <1>5, RangeFacts
    <3>. HIDE DEF t, others
    <3>2. \A i \in 1 .. Len(others) : t.period[others[i]] = task.period[others[i]] /\ t.period[p] = r.period
      <4>1. Range(others) \subseteq Process /\ p \notin Range(others)
        BY <1>5, RangeFacts
      <4>. QED BY <1>4, <3>1, <4>1
    <3>3. {i \in 1 .. Len(others) : task.period[others[i]] > r.period}
            = {i \in 1 .. Len(others) : t.period[others[i]] > t.period[p]}
      BY <3>2
    <3>. QED BY <3>3 DEF SelectInSeq
  <2>. HIDE DEF l1, l2
  <2>. QED BY <2>1, <2>2, <2>3
<1>. HIDE DEF others, t
<1>7. /\ A \subseteq Process /\ A = Registered \cup {p} /\ Range(others) \subseteq A /\ p \in A /\ p \notin Range(others)
      /\ Granted(t, A) /\ Sorted(t.period, others)
  <2>1. A \subseteq Process /\ A = Registered \cup {p} /\ p \notin Range(others) /\ Range(others) \subseteq A /\ p \in A
    <3>1. Range(others) \subseteq Process
      BY <1>5, RangeFacts
    <3>. QED BY <1>5, <3>1
  <2>2. Granted(t, A)
    BY <1>0, <1>1, <1>4, <2>1 DEF Granted
  <2>3. Agree(task, t, Range(others))
    BY <1>4, <2>1 DEF Agree
  <2>4. Sorted(t.period, others)
    BY <1>5, <2>3, SameTasks
  <2>. QED BY <2>1, <2>2, <2>4
<1>. HIDE DEF A
<1>8. /\ registry' \in Seq(Process) /\ IsInjective(registry') /\ Range(registry') = A
      /\ Sorted(t.period, registry')
  <2>1. Range(others) \cup {p} = A
    BY DEF A
  <2>. QED BY <1>5, <1>6, <1>7, <2>1, JoinedFacts
<1>9. TypeInv'
  <2>1. t \in [budget : [Process -> {x.budget : x \in Request} \cup {Unset}],
               period : [Process -> {x.period : x \in Request} \cup {Unset}]]
    <3>1. /\ task.budget \in [Process -> {x.budget : x \in Request} \cup {Unset}]
          /\ task.period \in [Process -> {x.period : x \in Request} \cup {Unset}]
      BY <1>0 DEF TypeInv
    <3>2. /\ r.budget \in {x.budget : x \in Request} \cup {Unset}
          /\ r.period \in {x.period : x \in Request} \cup {Unset}
      OBVIOUS
    <3>3. /\ t.budget \in [Process -> {x.budget : x \in Request} \cup {Unset}]
          /\ t.period \in [Process -> {x.period : x \in Request} \cup {Unset}]
      BY <1>3, <3>1, <3>2
    <3>. QED BY <1>2, <3>3 DEF t
  <2>. QED BY <1>0, <1>2, <1>8, <2>1 DEF TypeInv, t
<1>10. RegistryInv'
  <2>1. Registered' = A
    BY <1>8 DEF Registered
  <2>2. A \subseteq alive /\ is_budget_set \subseteq A
    BY <1>0, <1>1, <1>7 DEF RegistryInv
  <2>. QED BY <1>2, <1>7, <1>8, <2>1, <2>2 DEF RegistryInv, t
<1>11. Held(task, cpus, affinity, Registered)'
  BY <1>0, <1>2, PackedFacts, HeldEmpty
<1>12. Packed' = {} /\ \A c \in Cpu : cpus'.list[c] = <<>>
  <2>1. cpus' = cpus
    BY <1>2
  <2>2. \A c \in Cpu : cpus.list[c] = <<>>
    BY <1>0, PackedFacts
  <2>3. Packed' = Packed
    BY ONLY <2>1 DEF Packed, OnCpu
  <2>. QED BY ONLY <2>1, <2>2, <2>3, Packed = {}
<1>13. TimersInv'
  BY <1>0, <1>2, <1>12 DEF TimersInv
<1>14. RanksInv'
  BY <1>12 DEF RanksInv
<1>. QED BY <1>9, <1>10, <1>11, <1>13, <1>14 DEF Inv

\* set_bin_packing keeps the invariant, whether the packing succeeds or fails.
LEMMA SetBinPackingInv ==
  ASSUME Inv, NEW scheme \in Scheme, cpus = EmptyCpus, SetBinPacking(scheme)
  PROVE  Inv'
<1>. DEFINE packed == bin_packing(task, registry, scheme, EmptyCpus, affinity)
<1>0. /\ TypeInv /\ RegistryInv /\ Held(task, cpus, affinity, Registered) /\ TimersInv
      /\ registry \in Seq(Process) /\ IsInjective(registry) /\ Granted(task, Registered)
      /\ Range(registry) = Registered /\ affinity \in [Process -> SUBSET Cpu]
      /\ Registered \subseteq Process
  BY RangeFacts DEF Inv, TypeInv, RegistryInv, Registered
<1>1. /\ cpus' = IF packed.failed THEN clear_cpu_lists(packed.cpus) ELSE packed.cpus
      /\ affinity' = packed.affinity /\ started' = FALSE
      /\ UNCHANGED <<alive, registry, task, is_budget_set, period_timer, rt_priority>>
  BY DEF SetBinPacking
<1>2. packed \in PackType(task) /\ Held(task, packed.cpus, packed.affinity, Registered)
  <2>1. PICK f : PackTurns(task, registry, scheme, EmptyCpus, affinity, f)
    BY <1>0, PackingTurns
  <2>2. Len(registry) \in 0 .. Len(registry)
    BY <1>0
  <2>3. \E Done : Packing(task, Registered, Done, f[Len(registry)])
    BY <1>0, <2>1, <2>2, PackingRun
  <2>4. packed = f[Len(registry)]
    BY <2>1 DEF PackTurns
  <2>. HIDE DEF packed
  <2>. QED BY <2>3, <2>4 DEF Packing
<1>. HIDE DEF packed
<1>3. Held(task, cpus', affinity', Registered)
  <2>1. CASE packed.failed
    <3>1. cpus' = EmptyCpus
      BY <1>1, <1>2, <2>1, ClearIsEmpty
    <3>. QED BY <3>1, EmptyHeld
  <2>2. CASE ~packed.failed
    BY <1>1, <1>2, <2>2
  <2>. QED BY <2>1, <2>2
<1>4. Registered' = Registered /\ Held(task, cpus, affinity, Registered)'
  BY <1>1, <1>3 DEF Registered
<1>5. affinity' \in [Process -> SUBSET Cpu]
  BY <1>1, <1>2 DEF PackType
<1>6. TypeInv' /\ RegistryInv'
  BY <1>0, <1>1, <1>4, <1>5 DEF TypeInv, RegistryInv
<1>8. TimersInv' /\ RanksInv'
  BY <1>0, <1>1 DEF TimersInv, RanksInv
<1>. QED BY <1>4, <1>6, <1>8 DEF Inv

\* startScheduling keeps the invariant.
LEMMA StartSchedulingInv ==
  ASSUME Inv, StartScheduling
  PROVE  Inv'
<1>. DEFINE ranks == set_rt_priorities_per_cpu(cpus.list, Cpu, rt_priority)
<1>0. /\ TypeInv /\ RegistryInv /\ Held(task, cpus, affinity, Registered) /\ TimersInv
      /\ Granted(task, Registered) /\ rt_priority \in [Process -> 0 .. Cardinality(Process)]
  BY DEF Inv, TypeInv, RegistryInv
<1>1. /\ is_budget_set' = is_budget_set \cup Packed
      /\ period_timer' = period_timer \cup Packed
      /\ rt_priority' = ranks /\ started' = (Packed # {})
      /\ UNCHANGED <<alive, registry, task, cpus, affinity>>
  BY DEF StartScheduling
<1>2. \A c \in Cpu : /\ cpus.list[c] \in Seq(Process) /\ IsInjective(cpus.list[c])
                     /\ Sorted(task.period, cpus.list[c]) /\ Range(cpus.list[c]) \subseteq Registered
  BY <1>0 DEF Held, HeldOn, CpuType
<1>3. \A c, d \in Cpu : c # d => Range(cpus.list[c]) \cap Range(cpus.list[d]) = {}
  BY <1>0 DEF Held
<1>4. /\ \A c \in Cpu : \A i \in 1 .. Len(cpus.list[c]) : ranks[cpus.list[c][i]] = Rank(cpus.list[c], i, task.period)
      /\ \A q \in Process : (\A c \in Cpu : q \notin Range(cpus.list[c])) => ranks[q] = rt_priority[q]
      /\ DOMAIN ranks = Process
  BY <1>2, <1>3, RanksSet
<1>5. ranks = [q \in Process |-> ranks[q]]
  BY DEF set_rt_priorities_per_cpu
<1>. HIDE DEF ranks
<1>6. ASSUME NEW q \in Process PROVE ranks[q] \in 0 .. Cardinality(Process)
  <2>1. CASE \E c \in Cpu : q \in Range(cpus.list[c])
    <3>1. PICK c \in Cpu : q \in Range(cpus.list[c])
      BY <2>1
    <3>2. PICK i \in 1 .. Len(cpus.list[c]) : cpus.list[c][i] = q
      BY <1>2, <3>1 DEF Range
    <3>3. Rank(cpus.list[c], i, task.period) \in 0 .. Cardinality(Process)
      BY <1>0, <1>2, RankedAndBounded
    <3>. QED BY <1>4, <3>2, <3>3
  <2>2. CASE \A c \in Cpu : q \notin Range(cpus.list[c])
    BY <1>0, <1>4, <2>2
  <2>. QED BY <2>1, <2>2
<1>7. Packed \subseteq Registered /\ Packed \subseteq Process
  <2>1. Packed \subseteq Registered
    BY <1>0, PackedFacts
  <2>. QED BY <1>0, <2>1, RangeFacts DEF TypeInv, Registered
<1>8. ranks \in [Process -> 0 .. Cardinality(Process)]
  BY <1>5, <1>6
<1>9. TypeInv'
  BY <1>0, <1>1, <1>7, <1>8 DEF TypeInv
<1>10. Registered' = Registered /\ Packed' = Packed
  BY <1>1 DEF Registered, Packed, OnCpu
<1>11. RegistryInv' /\ Held(task, cpus, affinity, Registered)'
  BY <1>0, <1>1, <1>7, <1>10 DEF RegistryInv
<1>12. TimersInv'
  BY <1>0, <1>1, <1>10 DEF TimersInv
<1>13. RanksInv'
  BY <1>1, <1>4 DEF RanksInv
<1>. QED BY <1>9, <1>11, <1>12, <1>13 DEF Inv

\* stopScheduling keeps the invariant.
LEMMA StopSchedulingInv ==
  ASSUME Inv, StopScheduling
  PROVE  Inv'
<1>0. /\ TypeInv /\ RegistryInv /\ Held(task, cpus, affinity, Registered) /\ TimersInv
  BY DEF Inv
<1>1. /\ period_timer' \subseteq period_timer
      /\ cpus' = EmptyCpus /\ started' = FALSE
      /\ UNCHANGED <<alive, registry, task, affinity, is_budget_set, rt_priority>>
  BY <1>0, ClearIsEmpty DEF StopScheduling
<1>3. Registered' = Registered
  BY <1>1 DEF Registered
<1>4. TypeInv' /\ RegistryInv'
  BY <1>0, <1>1, <1>3 DEF TypeInv, RegistryInv
<1>5. Held(task, cpus, affinity, Registered)'
  BY <1>1, EmptyHeld
<1>6. TimersInv' /\ RanksInv'
  BY <1>0, <1>1 DEF TimersInv, RanksInv
<1>. QED BY <1>4, <1>5, <1>6 DEF Inv

\* What cancelBudget and do_exit have in common: p leaves.
Leaves(p) ==
    /\ is_budget_set' = is_budget_set \ {p}
    /\ period_timer' = period_timer \ {p}
    /\ registry' = RemoveFirst(registry, p)
    /\ cpus' = del_task_cpu(p, 0)
    /\ rt_priority' = set_rt_priorities_per_cpu(cpus'.list, {0}, [rt_priority EXCEPT ![p] = 0])
    /\ task' = [budget |-> [task.budget EXCEPT ![p] = Unset],
                period |-> [task.period EXCEPT ![p] = Unset]]
    /\ alive' \in {alive, alive \ {p}}
    /\ affinity' \in {affinity, [affinity EXCEPT ![p] = Cpu]}
    /\ UNCHANGED started

\* Removing the reservation of p leaves the others as they are.
LEMMA TaskUnset ==
  ASSUME TypeInv, NEW p \in Process,
         task' = [budget |-> [task.budget EXCEPT ![p] = Unset],
                  period |-> [task.period EXCEPT ![p] = Unset]]
  PROVE  /\ task' \in [budget : [Process -> {r.budget : r \in Request} \cup {Unset}],
                       period : [Process -> {r.period : r \in Request} \cup {Unset}]]
         /\ \A A : A \subseteq Process \ {p} => Agree(task, task', A)
         /\ \A A : A \subseteq Process \ {p} /\ Granted(task, A) => Granted(task', A)
<1>1. /\ task.budget \in [Process -> {r.budget : r \in Request} \cup {Unset}]
      /\ task.period \in [Process -> {r.period : r \in Request} \cup {Unset}]
  BY DEF TypeInv
<1>2. task'.budget = [task.budget EXCEPT ![p] = Unset] /\ task'.period = [task.period EXCEPT ![p] = Unset]
  OBVIOUS
<1>3. /\ task'.budget \in [Process -> {r.budget : r \in Request} \cup {Unset}]
      /\ task'.period \in [Process -> {r.period : r \in Request} \cup {Unset}]
  BY <1>1, <1>2
<1>4. \A q \in Process \ {p} : task'.budget[q] = task.budget[q] /\ task'.period[q] = task.period[q]
  BY <1>1, <1>2
<1>5. task' \in [budget : [Process -> {r.budget : r \in Request} \cup {Unset}],
                 period : [Process -> {r.period : r \in Request} \cup {Unset}]]
  BY <1>3
<1>6. \A A : A \subseteq Process \ {p} => Agree(task, task', A)
  BY <1>4 DEF Agree
<1>7. \A A : A \subseteq Process \ {p} /\ Granted(task, A) => Granted(task', A)
  BY <1>4 DEF Granted
<1>. QED BY <1>5, <1>6, <1>7

\* del_task_cpu takes p off the list it is on, or off none, and nothing else.
LEMMA DeletedIsWithout ==
  ASSUME NEW t, NEW aff, NEW S, Held(t, cpus, aff, S), NEW p, Removable(p)
  PROVE  Without(cpus, del_task_cpu(p, 0), p)
<1>. DEFINE new == del_task_cpu(p, 0)
<1>0. /\ cpus \in CpuType /\ 0 \in Cpu
      /\ \A c \in Cpu : /\ cpus.list[c] \in Seq(Process) /\ IsInjective(cpus.list[c])
                        /\ cpus.size[c] = Len(cpus.list[c])
      /\ \A c, d \in Cpu : c # d => Range(cpus.list[c]) \cap Range(cpus.list[d]) = {}
  <2>1. 0 \in Cpu
    BY MaxCpuAssumption DEF Cpu
  <2>. QED BY <2>1 DEF Held, HeldOn, CpuType
<1>1. \A c \in Cpu : /\ RemoveFirst(cpus.list[c], p) \in Seq(Process)
                     /\ Len(RemoveFirst(cpus.list[c], p))
                          = IF p \in Range(cpus.list[c]) THEN Len(cpus.list[c]) - 1 ELSE Len(cpus.list[c])
                     /\ Len(RemoveFirst(cpus.list[c], p)) \in Nat
  <2>1. \A c \in Cpu : /\ RemoveFirst(cpus.list[c], p) \in Seq(Process)
                       /\ Len(RemoveFirst(cpus.list[c], p))
                          = IF p \in Range(cpus.list[c]) THEN Len(cpus.list[c]) - 1 ELSE Len(cpus.list[c])
    BY <1>0, RemoveFirstPart
  <2>. QED BY <2>1
<1>2. CASE p \in OnCpu(0)
  <2>1. p \in Range(cpus.list[0]) /\ \A c \in Cpu \ {0} : p \notin Range(cpus.list[c])
    BY <1>0, <1>2 DEF OnCpu
  <2>2. Len(cpus.list[0]) > 0 /\ cpus.size[0] > 0
    <3>1. cpus.list[0] # <<>>
      BY <2>1 DEF Range
    <3>2. cpus.list[0] \in Seq(Process)
      BY <1>0
    <3>3. Len(cpus.list[0]) > 0
      BY <3>1, <3>2
    <3>. QED BY <1>0, <3>3
  <2>. DEFINE l == [d \in Cpu |-> RemoveFirst(cpus.list[d], p)]
              z == [cpus.size EXCEPT ![0] = cpus.size[0] - 1]
  <2>3. new = [list |-> l, size |-> z, util |-> cpus.util]
    <3>1. new = [cpus EXCEPT !.size[0] = @ - 1, !.list = [d \in Cpu |-> RemoveFirst(@[d], p)]]
      BY <2>2 DEF del_task_cpu
    <3>2. new.list = l /\ new.size = z /\ new.util = cpus.util /\ DOMAIN new = {"list", "size", "util"}
      BY <1>0, <3>1 DEF CpuType
    <3>3. new = [x \in {"list", "size", "util"} |-> new[x]]
      BY <1>0, <3>1 DEF CpuType
    <3>. HIDE DEF new, l, z
    <3>. QED BY <3>2, <3>3
  <2>. HIDE DEF new
  <2>4. new.list = l /\ new.size = z /\ new.util = cpus.util
    BY <2>3
  <2>5. /\ \A c \in Cpu : l[c] = RemoveFirst(cpus.list[c], p)
        /\ \A c \in Cpu : z[c] = Len(RemoveFirst(cpus.list[c], p))
    BY <1>0, <1>1, <2>1 DEF CpuType
  <2>6. l \in [Cpu -> Seq(Process)] /\ z \in [Cpu -> Nat] /\ cpus.util \in [Cpu -> Int]
    <3>1. l \in [Cpu -> Seq(Process)]
      BY <1>1
    <3>2. z \in [Cpu -> Nat]
      <4>1. \A c \in Cpu : z[c] \in Nat
        BY <1>1, <2>5
      <4>2. z = [c \in Cpu |-> z[c]]
        BY <1>0 DEF CpuType
      <4>. HIDE DEF z
      <4>. QED BY <4>1, <4>2
    <3>. QED BY <1>0, <3>1, <3>2 DEF CpuType
  <2>. HIDE DEF l, z
  <2>7. new \in CpuType
    BY <2>3, <2>6 DEF CpuType
  <2>8. \A c \in Cpu : /\ new.list[c] = RemoveFirst(cpus.list[c], p)
                       /\ new.size[c] = Len(new.list[c]) /\ new.util[c] = cpus.util[c]
    BY <2>4, <2>5
  <2>. QED BY <2>7, <2>8 DEF Without, new
<1>3. CASE Packed = {}
  <2>1. \A c \in Cpu : cpus.list[c] = <<>>
    BY <1>3, PackedFacts
  <2>2. new = cpus
    BY <1>0, <2>1 DEF del_task_cpu
  <2>3. \A c \in Cpu : RemoveFirst(cpus.list[c], p) = cpus.list[c]
    <3>. SUFFICES ASSUME NEW c \in Cpu PROVE RemoveFirst(cpus.list[c], p) = cpus.list[c]
      OBVIOUS
    <3>1. Len(RemoveFirst(cpus.list[c], p)) = 0
      BY <1>1, <2>1 DEF Range
    <3>. QED BY <1>1, <2>1, <3>1
  <2>. HIDE DEF new
  <2>4. Without(cpus, new, p)
    BY <1>0, <2>2, <2>3 DEF Without
  <2>. QED BY <2>4 DEF new
<1>. QED BY <1>2, <1>3 DEF Removable

\* cancelBudget and the exit of a reserved process keep the invariant.
LEMMA LeavesInv ==
  ASSUME Inv, NEW p \in Registered, Removable(p), Leaves(p)
  PROVE  Inv'
<1>. DEFINE S == Registered \ {p}
            priority == [rt_priority EXCEPT ![p] = 0]
            ranks == set_rt_priorities_per_cpu(cpus'.list, {0}, priority)
<1>0. /\ TypeInv /\ RegistryInv /\ Held(task, cpus, affinity, Registered) /\ TimersInv
      /\ Granted(task, Registered) /\ rt_priority \in [Process -> 0 .. Cardinality(Process)]
      /\ registry \in Seq(Process) /\ IsInjective(registry) /\ Sorted(task.period, registry)
      /\ affinity \in [Process -> SUBSET Cpu]
  BY DEF Inv, TypeInv, RegistryInv
<1>1. Registered \subseteq Process /\ p \in Process /\ S \subseteq Process \ {p}
  BY <1>0, RangeFacts DEF Registered
<1>2. /\ task' \in [budget : [Process -> {r.budget : r \in Request} \cup {Unset}],
                    period : [Process -> {r.period : r \in Request} \cup {Unset}]]
      /\ Agree(task, task', S) /\ Granted(task', S)
  <2>1. Granted(task, S)
    BY <1>0 DEF Granted
  <2>. QED BY <1>0, <1>1, <2>1, TaskUnset DEF Leaves
<1>3. /\ registry' \in Seq(Process) /\ IsInjective(registry') /\ Registered' = S
      /\ Sorted(task'.period, registry')
  <2>. DEFINE o == RemoveFirst(registry, p)
  <2>1. registry' = o
    BY DEF Leaves
  <2>2. o \in Seq(Process) /\ IsInjective(o) /\ Range(o) = S
    BY <1>0, RemoveFirstPart DEF Registered
  <2>3. Sorted(task.period, o)
    BY <1>0, RemoveFirstSorted
  <2>. HIDE DEF o
  <2>4. Sorted(task'.period, o)
    <3>1. Range(o) \subseteq S
      BY <2>2
    <3>. HIDE DEF S
    <3>. QED BY <1>2, <2>2, <2>3, <3>1, SameTasks
  <2>. QED BY <2>1, <2>2, <2>4 DEF Registered
<1>4. affinity' \in [Process -> SUBSET Cpu] /\ \A q \in S : affinity'[q] = affinity[q]
  BY <1>0, <1>1 DEF Leaves
<1>5. Without(cpus, cpus', p)
  BY <1>0, DeletedIsWithout DEF Leaves
<1>6. /\ Held(task', cpus', affinity', S)
      /\ \A c \in Cpu : Range(cpus'.list[c]) = Range(cpus.list[c]) \ {p}
  <2>1. Leaving(task, Registered, cpus, affinity, p, task', affinity', cpus')
    BY <1>0, <1>1, <1>2, <1>4, <1>5 DEF Leaving
  <2>2. Held(task', cpus', affinity', Registered \ {p})
    BY ONLY <2>1, HeldWithout, Zenon
  <2>3. \A c \in Cpu : Range(cpus'.list[c]) = Range(cpus.list[c]) \ {p}
    <3>. SUFFICES ASSUME NEW c \in Cpu PROVE Range(cpus'.list[c]) = Range(cpus.list[c]) \ {p}
      OBVIOUS
    <3>1. cpus.list[c] \in Seq(Process) /\ IsInjective(cpus.list[c])
      BY <1>0 DEF Held, HeldOn, CpuType
    <3>2. cpus'.list[c] = RemoveFirst(cpus.list[c], p)
      BY <1>5 DEF Without
    <3>. QED BY <3>1, <3>2, RemoveFirstPart
  <2>. QED BY <2>2, <2>3
<1>7. /\ \A c \in Cpu : /\ cpus'.list[c] \in Seq(Process) /\ IsInjective(cpus'.list[c])
                        /\ Sorted(task'.period, cpus'.list[c]) /\ Range(cpus'.list[c]) \subseteq S
      /\ 0 \in Cpu
  <2>1. 0 \in Cpu
    BY MaxCpuAssumption DEF Cpu
  <2>. QED BY <1>6, <2>1 DEF Held, HeldOn, CpuType
<1>8. \A c \in Cpu : \A i \in 1 .. Len(cpus'.list[c]) :
        Rank(cpus'.list[c], i, task'.period) = Rank(cpus'.list[c], i, task.period)
  <2>. HIDE DEF S
  <2>. QED BY <1>2, <1>7, SameTasks
<1>9. /\ \A i \in 1 .. Len(cpus'.list[0]) : ranks[cpus'.list[0][i]] = Rank(cpus'.list[0], i, task.period)
      /\ \A q \in Process : q \notin Range(cpus'.list[0]) => ranks[q] = priority[q]
  <2>. DEFINE lists == cpus'.list
  <2>1. \A c \in {0} : lists[c] \in Seq(Process) /\ IsInjective(lists[c])
    BY <1>7
  <2>2. \A c, d \in {0} : c # d => Range(lists[c]) \cap Range(lists[d]) = {}
    OBVIOUS
  <2>. HIDE DEF lists
  <2>3. /\ \A c \in {0} : \A i \in 1 .. Len(lists[c]) :
              set_rt_priorities_per_cpu(lists, {0}, priority)[lists[c][i]] = Rank(lists[c], i, task.period)
        /\ \A q \in Process : (\A c \in {0} : q \notin Range(lists[c])) =>
              set_rt_priorities_per_cpu(lists, {0}, priority)[q] = priority[q]
    <3>. HIDE DEF priority
    <3>. QED BY <2>1, <2>2, RanksSet
  <2>. QED BY <2>3 DEF lists
<1>10. rt_priority' = ranks /\ ranks = [q \in Process |-> ranks[q]]
  BY DEF Leaves, set_rt_priorities_per_cpu
<1>11. priority \in [Process -> 0 .. Cardinality(Process)] /\ \A q \in Process \ {p} : priority[q] = rt_priority[q]
  <2>1. Cardinality(Process) \in Nat
    BY ProcessAssumption, FS_CardinalityType
  <2>. DEFINE V == 0 .. Cardinality(Process)
  <2>2. 0 \in V /\ rt_priority \in [Process -> V]
    BY <1>0, <2>1
  <2>. HIDE DEF V
  <2>3. priority \in [Process -> V] /\ \A q \in Process \ {p} : priority[q] = rt_priority[q]
    BY <2>2
  <2>. QED BY <2>3 DEF V
<1>. HIDE DEF ranks, priority, S
<1>12. ranks \in [Process -> 0 .. Cardinality(Process)]
  <2>1. ASSUME NEW q \in Process PROVE ranks[q] \in 0 .. Cardinality(Process)
    <3>1. CASE q \in Range(cpus'.list[0])
      <4>1. PICK i \in 1 .. Len(cpus'.list[0]) : cpus'.list[0][i] = q
        BY <1>7, <3>1 DEF Range
      <4>2. Rank(cpus'.list[0], i, task'.period) \in 0 .. Cardinality(Process)
        BY <1>2, <1>7, RankedAndBounded
      <4>. QED BY <1>7, <1>8, <1>9, <4>1, <4>2
    <3>2. CASE q \notin Range(cpus'.list[0])
      BY <1>9, <1>11, <3>2
    <3>. QED BY <3>1, <3>2
  <2>. QED BY <1>10, <2>1
<1>13. TypeInv'
  BY <1>0, <1>2, <1>3, <1>4, <1>10, <1>12 DEF TypeInv, Leaves
<1>14. RegistryInv'
  <2>1. S \subseteq alive' /\ is_budget_set' \subseteq S
    BY <1>0 DEF RegistryInv, Leaves, S
  <2>. QED BY <1>2, <1>3, <2>1 DEF RegistryInv
<1>15. Held(task, cpus, affinity, Registered)'
  BY <1>3, <1>6
<1>16. Packed' = Packed \ {p}
  <2>1. \A c \in Cpu : OnCpu(c)' = OnCpu(c) \ {p}
    BY <1>6 DEF OnCpu
  <2>2. ASSUME NEW q PROVE q \in Packed' <=> q \in Packed \ {p}
    <3>1. q \in Packed' <=> \E c \in Cpu : q \in Range(cpus'.list[c])
      BY DEF Packed, OnCpu
    <3>2. q \in Packed <=> \E c \in Cpu : q \in Range(cpus.list[c])
      BY DEF Packed, OnCpu
    <3>. QED BY <1>6, <3>1, <3>2
  <2>. QED BY <2>2
<1>17. TimersInv'
  BY <1>0, <1>16 DEF TimersInv, Leaves
<1>18. RanksInv'
  <2>. SUFFICES ASSUME started', NEW c \in Cpu, NEW i \in 1 .. Len(cpus'.list[c])
                PROVE  ranks[cpus'.list[c][i]] = Rank(cpus'.list[c], i, task'.period)
    BY <1>10 DEF RanksInv
  <2>1. ranks[cpus'.list[c][i]] = Rank(cpus'.list[c], i, task.period)
    <3>1. CASE c = 0
      BY <1>9, <3>1
    <3>2. CASE c # 0
      <4>. DEFINE q == cpus'.list[c][i]
      <4>1. q \in Range(cpus'.list[c]) /\ q \in Process
        BY <1>7, RangeFacts
      <4>2. p \in OnCpu(0)
        <5>1. q \in OnCpu(c)
          BY <1>6, <4>1 DEF OnCpu
        <5>2. q \in Packed
          BY ONLY <5>1, Zenon DEF Packed
        <5>3. Packed # {}
          BY <5>2
        <5>. QED BY <5>3 DEF Removable
      <4>3. p \notin Range(cpus.list[c])
        BY <1>0, <1>7, <3>2, <4>2 DEF Held, OnCpu
      <4>4. cpus'.list[c] = cpus.list[c]
        <5>1. cpus'.list[c] = RemoveFirst(cpus.list[c], p)
          BY <1>5 DEF Without
        <5>2. cpus.list[c] \in Seq(Process)
          BY <1>0 DEF Held, CpuType
        <5>3. \A k \in 1 .. Len(cpus.list[c]) : cpus.list[c][k] \in Range(cpus.list[c])
          BY <5>2, RangeFacts
        <5>4. \A k \in 1 .. Len(cpus.list[c]) : cpus.list[c][k] # p
          BY <4>3, <5>3
        <5>5. RemoveFirst(cpus.list[c], p) = cpus.list[c]
          BY <5>2, <5>4, RemoveFirstFacts
        <5>. QED BY <5>1, <5>5
      <4>5. q \notin Range(cpus'.list[0]) /\ q # p
        <5>1. Range(cpus'.list[c]) \cap Range(cpus'.list[0]) = {}
          BY <1>6, <1>7, <3>2 DEF Held
        <5>. QED BY <1>6, <4>1, <5>1
      <4>6. ranks[q] = rt_priority[q]
        <5>. HIDE DEF q
        <5>. QED BY <1>9, <1>11, <4>1, <4>5
      <4>7. rt_priority[q] = Rank(cpus.list[c], i, task.period)
        <5>1. started
          BY DEF Leaves
        <5>. QED BY <4>4, <5>1 DEF Inv, RanksInv
      <4>. QED BY <4>4, <4>6, <4>7
    <3>. QED BY <3>1, <3>2
  <2>. QED BY <1>8, <2>1
<1>. QED BY <1>13, <1>14, <1>15, <1>17, <1>18 DEF Inv

\* So does the exit of a process without a reservation.
LEMMA ExitUnregisteredInv ==
  ASSUME Inv, NEW p \in Process, p \notin Registered, DoExit(p)
  PROVE  Inv'
<1>0. /\ TypeInv /\ RegistryInv /\ Held(task, cpus, affinity, Registered) /\ TimersInv /\ RanksInv
      /\ Granted(task, Registered) /\ registry \in Seq(Process) /\ Sorted(task.period, registry)
      /\ affinity \in [Process -> SUBSET Cpu]
  BY DEF Inv, TypeInv, RegistryInv
<1>1. p \notin is_budget_set
  BY <1>0 DEF RegistryInv
<1>2. /\ UNCHANGED <<period_timer, registry, cpus, rt_priority, started>>
      /\ alive' = alive \ {p} /\ is_budget_set' = is_budget_set
      /\ task' = [budget |-> [task.budget EXCEPT ![p] = Unset], period |-> [task.period EXCEPT ![p] = Unset]]
      /\ affinity' = [affinity EXCEPT ![p] = Cpu]
  BY <1>1 DEF DoExit
<1>3. Registered' = Registered /\ Packed' = Packed /\ Registered \subseteq Process \ {p}
  BY <1>0, <1>2, RangeFacts DEF Registered, Packed, OnCpu
<1>4. /\ task' \in [budget : [Process -> {r.budget : r \in Request} \cup {Unset}],
                    period : [Process -> {r.period : r \in Request} \cup {Unset}]]
      /\ Agree(task, task', Registered) /\ Granted(task', Registered)
  BY <1>0, <1>2, <1>3, TaskUnset
<1>5. affinity' \in [Process -> SUBSET Cpu] /\ \A q \in Registered : affinity'[q] = affinity[q]
  BY <1>0, <1>2, <1>3
<1>6. Sorted(task'.period, registry)
  BY <1>0, <1>4, SameTasks DEF Registered
<1>7. Held(task', cpus, affinity', Registered)
  <2>1. ASSUME NEW c \in Cpu PROVE HeldOn(task', cpus, affinity', c)
    <3>1. HeldOn(task, cpus, affinity, c) /\ Range(cpus.list[c]) \subseteq Registered /\ cpus.list[c] \in Seq(Process)
      BY <1>0 DEF Held, CpuType
    <3>2. /\ TaskArray(task', cpus.list[c]) = TaskArray(task, cpus.list[c])
          /\ Sorted(task.period, cpus.list[c]) => Sorted(task'.period, cpus.list[c])
          /\ UtilOn(task', Range(cpus.list[c])) = UtilOn(task, Range(cpus.list[c]))
      BY <1>4, <3>1, SameTasks
    <3>3. \A q \in Range(cpus.list[c]) : c \in affinity'[q]
      BY <1>5, <3>1 DEF HeldOn
    <3>. QED BY <3>1, <3>2, <3>3 DEF HeldOn
  <2>. QED BY <1>0, <2>1 DEF Held
<1>8. RanksInv'
  <2>. SUFFICES ASSUME started, NEW c \in Cpu, NEW i \in 1 .. Len(cpus.list[c])
                PROVE  rt_priority[cpus.list[c][i]] = Rank(cpus.list[c], i, task'.period)
    BY <1>2 DEF RanksInv
  <2>1. Range(cpus.list[c]) \subseteq Registered /\ cpus.list[c] \in Seq(Process)
    BY <1>0 DEF Held, CpuType
  <2>2. Agree(task, task', Registered)
    BY <1>4
  <2>3. \A k \in 1 .. Len(cpus.list[c]) :
          Rank(cpus.list[c], k, task'.period) = Rank(cpus.list[c], k, task.period)
    BY ONLY <2>1, <2>2, SameTasks
  <2>. QED BY <1>0, <2>3 DEF RanksInv
<1>9. TypeInv'
  BY <1>0, <1>2, <1>4, <1>5 DEF TypeInv
<1>10. RegistryInv'
  BY <1>0, <1>2, <1>3, <1>4, <1>6 DEF RegistryInv
<1>11. TimersInv'
  BY <1>0, <1>2, <1>3 DEF TimersInv
<1>12. Held(task, cpus, affinity, Registered)'
  BY <1>2, <1>3, <1>7
<1>. QED BY <1>8, <1>9, <1>10, <1>11, <1>12 DEF Inv

\* Every step keeps the invariant.
LEMMA NextInv == Inv /\ [Next]_vars => Inv'
<1>. SUFFICES ASSUME Inv, [Next]_vars PROVE Inv'
  OBVIOUS
<1>0. Registered \subseteq Process
  BY RangeFacts DEF Inv, TypeInv, Registered
<1>1. CASE \E p \in Process, r \in Request :
             /\ Packed = {}
             /\ p \in Registered => p \in is_budget_set
             /\ SetProcessBudget(p, r.budget, r.period)
  BY <1>1, SetProcessBudgetInv
<1>2. CASE \E scheme \in Scheme : cpus = EmptyCpus /\ SetBinPacking(scheme)
  BY <1>2, SetBinPackingInv
<1>3. CASE StartScheduling
  BY <1>3, StartSchedulingInv
<1>4. CASE StopScheduling
  BY <1>4, StopSchedulingInv
<1>5. CASE \E p \in Registered : Removable(p) /\ CancelBudget(p)
  <2>1. PICK p \in Registered : Removable(p) /\ CancelBudget(p)
    BY <1>5
  <2>2. Leaves(p)
    BY <2>1 DEF CancelBudget, Leaves
  <2>. QED BY <2>1, <2>2, LeavesInv
<1>6. CASE \E p \in Process : /\ p \in Registered => p \in is_budget_set /\ Removable(p)
                              /\ DoExit(p)
  <2>1. PICK p \in Process : (p \in Registered => p \in is_budget_set /\ Removable(p)) /\ DoExit(p)
    BY <1>6
  <2>2. CASE p \in Registered
    <3>1. Leaves(p)
      BY <2>1, <2>2 DEF DoExit, Leaves
    <3>. QED BY <2>1, <2>2, <3>1, LeavesInv
  <2>3. CASE p \notin Registered
    BY <2>1, <2>3, ExitUnregisteredInv
  <2>. QED BY <2>2, <2>3
<1>7. CASE UNCHANGED vars
  BY <1>7 DEF vars, Inv, TypeInv, RegistryInv, TimersInv, RanksInv, Registered, Packed, OnCpu
<1>. QED BY <1>1, <1>2, <1>3, <1>4, <1>5, <1>6, <1>7 DEF Next

-----------------------------------------------------------------------------

\* The inductive invariant of Partitioned holds throughout.
THEOREM PartitionedInvariant == Spec => []Inv
BY InitInv, NextInv, PTL DEF Spec

\* Every variable of the partitioned mode keeps its type.
THEOREM PartitionedTypeOK == Spec => []TypeOK
<1>1. Inv => TypeOK
  <2>. SUFFICES ASSUME Inv PROVE TypeOK
    OBVIOUS
  <2>1. TypeInv /\ Held(task, cpus, affinity, Registered) /\ Granted(task, Registered)
    BY DEF Inv, RegistryInv
  <2>2. DOMAIN cpus = {"list", "size", "util"}
    BY <2>1 DEF Held, CpuType
  <2>3. ASSUME NEW c \in Cpu
        PROVE  /\ cpus.list[c] \in Seq(Process) /\ cpus.size[c] \in 0 .. Cardinality(Process)
               /\ cpus.util[c] \in Int
    <3>1. /\ cpus.list[c] \in Seq(Process) /\ cpus.util[c] \in Int /\ cpus.size[c] = Len(cpus.list[c])
          /\ IsInjective(cpus.list[c]) /\ Sorted(task.period, cpus.list[c])
          /\ Range(cpus.list[c]) \subseteq Registered
      BY <2>1 DEF Held, HeldOn, CpuType
    <3>2. Len(cpus.list[c]) <= Cardinality(Process) /\ Cardinality(Process) \in Nat
      BY <2>1, <3>1, RankedAndBounded
    <3>3. Len(cpus.list[c]) \in Nat
      BY <3>1
    <3>. QED BY <3>1, <3>2, <3>3
  <2>. QED BY <2>1, <2>2, <2>3 DEF TypeOK, TypeInv
<1>. QED BY <1>1, PartitionedInvariant, PTL

\* The per-CPU lists hold each process once, on one CPU of its affinity mask, in the
\* order of periods and with the counter right, whatever was packed, cancelled or
\* exited before.
THEOREM CpuListsStayConsistent == Spec => []CpuListsConsistent
<1>1. Inv => CpuListsConsistent
  <2>. SUFFICES ASSUME Inv, NEW c \in Cpu
                PROVE  /\ cpus.size[c] = Len(cpus.list[c])
                       /\ Cardinality(OnCpu(c)) = Len(cpus.list[c])
                       /\ OnCpu(c) \subseteq Registered \cap alive
                       /\ \A d \in Cpu \ {c} : OnCpu(c) \cap OnCpu(d) = {}
                       /\ \A p \in OnCpu(c) : c \in affinity[p]
                       /\ \A i \in 2 .. Len(cpus.list[c]) :
                            task.period[cpus.list[c][i - 1]] <= task.period[cpus.list[c][i]]
    BY DEF CpuListsConsistent
  <2>1. RegistryInv /\ Held(task, cpus, affinity, Registered)
    BY DEF Inv
  <2>2. /\ cpus.list[c] \in Seq(Process) /\ cpus.size[c] = Len(cpus.list[c])
        /\ IsInjective(cpus.list[c]) /\ Sorted(task.period, cpus.list[c])
        /\ Range(cpus.list[c]) \subseteq Registered
        /\ \A p \in Range(cpus.list[c]) : c \in affinity[p]
        /\ \A d \in Cpu \ {c} : Range(cpus.list[c]) \cap Range(cpus.list[d]) = {}
    BY <2>1 DEF Held, HeldOn, CpuType
  <2>3. Cardinality(Range(cpus.list[c])) = Len(cpus.list[c])
    BY <2>2, RangeFacts
  <2>4. \A i \in 2 .. Len(cpus.list[c]) : i \in 1 .. Len(cpus.list[c]) /\ i - 1 \in 1 .. Len(cpus.list[c]) /\ i - 1 <= i
    BY <2>2
  <2>5. \A i \in 2 .. Len(cpus.list[c]) : task.period[cpus.list[c][i - 1]] <= task.period[cpus.list[c][i]]
    BY <2>2, <2>4 DEF Sorted
  <2>6. Range(cpus.list[c]) \subseteq Registered \cap alive
    BY <2>1, <2>2 DEF RegistryInv
  <2>. QED BY <2>2, <2>3, <2>5, <2>6 DEF OnCpu
<1>. QED BY <1>1, PartitionedInvariant, PTL

\* What bin packing put on a CPU meets its deadlines there, for every scheme and
\* every number of CPUs, also after some of it was cancelled or has exited.
THEOREM PackedProcessesMeetDeadlines == Spec => []CpusMeetDeadlines
<1>1. Inv => CpusMeetDeadlines
  <2>. SUFFICES ASSUME Inv, NEW c \in Cpu PROVE MeetsDeadlines(TaskArray(task, cpus.list[c]))
    BY DEF CpusMeetDeadlines
  <2>1. /\ Granted(task, Registered) /\ cpus.list[c] \in Seq(Process) /\ Sorted(task.period, cpus.list[c])
        /\ Range(cpus.list[c]) \subseteq Registered /\ __check_admission(TaskArray(task, cpus.list[c]))
    BY DEF Inv, RegistryInv, Held, HeldOn, CpuType
  <2>2. TaskArray(task, cpus.list[c]) \in TaskList /\ ByPeriod(TaskArray(task, cpus.list[c]))
    BY <2>1, TaskArrayFacts
  <2>. QED BY <2>1, <2>2, AdmissionIsExact
<1>. QED BY <1>1, PartitionedInvariant, PTL

\* The room a CPU believes it has is never more than its utilisation leaves.
THEOREM RoomIsNeverOverstated == Spec => []RoomNotOverstated
<1>1. Inv => RoomNotOverstated
  BY DEF Inv, Held, HeldOn, UtilOn, RoomNotOverstated, OnCpu
<1>. QED BY <1>1, PartitionedInvariant, PTL

\* From startScheduling to the next stop, every process on a CPU has its flag and a
\* period timer that replenishes it, whatever timers earlier stops failed to cancel.
THEOREM PackedAreReplenished == Spec => []PackedIsReplenished
<1>1. Inv => PackedIsReplenished
  BY DEF Inv, TimersInv, PackedIsReplenished
<1>. QED BY <1>1, PartitionedInvariant, PTL

\* From startScheduling to the next stop, the priorities on each CPU follow the
\* periods, from 1 without a gap, after cancellations and exits too.
THEOREM PerCpuRanksFollowPeriods == Spec => []RanksFollowPeriodsPerCpu
<1>1. Inv => RanksFollowPeriodsPerCpu
  <2>. SUFFICES ASSUME Inv, NEW c \in Cpu, started
                PROVE  /\ \A p, q \in OnCpu(c) :
                            rt_priority[p] < rt_priority[q] <=> task.period[p] < task.period[q]
                       /\ {rt_priority[p] : p \in OnCpu(c)} = 1 .. Cardinality({rt_priority[p] : p \in OnCpu(c)})
    BY DEF RanksFollowPeriodsPerCpu
  <2>. DEFINE o == cpus.list[c]
              n == Len(o)
              rank(i) == Rank(o, i, task.period)
              R == {rt_priority[p] : p \in OnCpu(c)}
  <2>1. /\ Granted(task, Registered) /\ o \in Seq(Process) /\ IsInjective(o) /\ Sorted(task.period, o)
        /\ Range(o) \subseteq Registered
        /\ \A i \in 1 .. n : rt_priority[o[i]] = rank(i)
    BY DEF Inv, RegistryInv, Held, HeldOn, CpuType, RanksInv
  <2>2. OnCpu(c) = {o[i] : i \in 1 .. n}
    BY <2>1 DEF OnCpu, Range
  <2>3. RankedList(o, n, task.period)
    BY <2>1, RankedAndBounded
  <2>. HIDE DEF o, n
  <2>4. /\ \A i, j \in 1 .. n : rank(i) < rank(j) <=> task.period[o[i]] < task.period[o[j]]
        /\ \E m \in Nat : {rank(i) : i \in 1 .. n} = 1 .. m
    BY <2>3, RankFacts
  <2>. HIDE DEF rank
  <2>5. \A p, q \in OnCpu(c) : rt_priority[p] < rt_priority[q] <=> task.period[p] < task.period[q]
    BY <2>1, <2>2, <2>4
  <2>6. PICK m \in Nat : {rank(i) : i \in 1 .. n} = 1 .. m
    BY <2>4
  <2>7. R = {rank(i) : i \in 1 .. n}
    BY <2>1, <2>2
  <2>8. R = 1 .. m
    BY <2>6, <2>7
  <2>. HIDE DEF R
  <2>9. Cardinality(1 .. m) = m
    BY FS_Interval
  <2>10. R = 1 .. Cardinality(R)
    BY <2>8, <2>9
  <2>. QED BY <2>5, <2>10 DEF R
<1>. QED BY <1>1, PartitionedInvariant, PTL

\* The registry is a task array sorted by period.
LEMMA ListFacts ==
  ASSUME Inv
  PROVE  list \in TaskList /\ ByPeriod(list) /\ DOMAIN list = 1 .. Len(list)
<1>1. /\ Granted(task, Registered) /\ registry \in Seq(Process) /\ Sorted(task.period, registry)
      /\ Range(registry) \subseteq Registered
  BY DEF Inv, TypeInv, RegistryInv, Registered
<1>2. list \in TaskList /\ ByPeriod(list)
  <2>1. CASE Fresh
    <3>1. list = TaskArray(task, registry)
      BY <2>1 DEF list
    <3>. QED BY <1>1, <3>1, TaskArrayFacts
  <2>2. CASE ~Fresh
    BY <2>2 DEF list, TaskList, ByPeriod
  <2>. QED BY <2>1, <2>2
<1>. QED BY <1>2 DEF TaskList

\* On the registry, rt_test agrees with time-demand analysis in every reachable state.
THEOREM RtTestIsTimeDemandAlways == Spec => []RtTestIsTimeDemand
<1>1. Inv => RtTestIsTimeDemand
  BY ListFacts, RtTestIsTimeDemandAnalysis DEF RtTestIsTimeDemand
<1>. QED BY <1>1, PartitionedInvariant, PTL

\* __check_admission passes the registry exactly if it meets its deadlines.
THEOREM AdmissionMeetsDeadlinesAlways == Spec => []AdmissionMeetsDeadlines
<1>1. Inv => AdmissionMeetsDeadlines
  BY ListFacts, AdmissionIsExact DEF AdmissionMeetsDeadlines
<1>. QED BY <1>1, PartitionedInvariant, PTL

\* The outcome does not depend on the order of reservations of equal period.
THEOREM TieOrderIrrelevantAlways == Spec => []TieOrderIrrelevant
<1>1. Inv => TieOrderIrrelevant
  BY ListFacts, TieOrder DEF TieOrderIrrelevant
<1>. QED BY <1>1, PartitionedInvariant, PTL

\* Where sysclock's flag in_bzp starts a task with its busy period, the alpha it
\* stores is the least frequency at which the task meets its deadline, or twice the
\* highest if that is the least: for every registry that can be granted.
THEOREM AlphaIsLeastFrequencyAlways == Spec => []AlphaIsLeastFrequency
<1>1. ASSUME Inv, Positive, __check_admission(list), NEW pos \in DOMAIN list,
             AlphaTrace(list)[pos - 1].in_bzp
      PROVE  LET alpha == Alphas(list)[pos]
                 least == LeastFrequency(list, pos)
             IN  alpha = least \/ (alpha = 2 * SCALE_UP_FACTOR /\ least = SCALE_UP_FACTOR)
  <2>1. list \in TaskList /\ DOMAIN list = 1 .. Len(list)
    BY <1>1, ListFacts
  <2>2. PositiveBudgets(list)
    BY <1>1, <2>1 DEF Positive, PositiveBudgets
  <2>3. pos \in 1 .. Len(list)
    BY <2>1
  <2>4. PICK l : l = list
    OBVIOUS
  <2>5. /\ l \in TaskList /\ PositiveBudgets(l) /\ __check_admission(l) /\ pos \in 1 .. Len(l)
        /\ AlphaTrace(l)[pos - 1].in_bzp
    BY <1>1, <2>1, <2>2, <2>3, <2>4
  <2>6. \/ Alphas(l)[pos] = LeastFrequency(l, pos)
        \/ Alphas(l)[pos] = 2 * SCALE_UP_FACTOR /\ LeastFrequency(l, pos) = SCALE_UP_FACTOR
    BY ONLY <2>5, AlphasAreLeast
  <2>. QED BY <2>4, <2>6
<1>2. Inv => AlphaIsLeastFrequency
  BY <1>1 DEF AlphaIsLeastFrequency
<1>. QED BY <1>2, PartitionedInvariant, PTL

-----------------------------------------------------------------------------

\* A CPU admits a process exactly if its list with the process passes the test.
LEMMA AdmitsIff ==
  ASSUME NEW t, NEW S, Granted(t, S), S \subseteq Process, NEW Done, NEW s, Packing(t, S, Done, s),
         NEW c \in Cpu, NEW p \in S, p \notin Range(s.cpus.list[c])
  PROVE  /\ Admits(s, c, p) <=> __check_admission(TaskArray(t, Joined(t, s.cpus.list[c], p)))
         /\ s.cpus.list[c] \in Seq(Process) /\ IsInjective(s.cpus.list[c])
         /\ Sorted(t.period, s.cpus.list[c]) /\ Range(s.cpus.list[c]) \subseteq S
         /\ Joined(t, s.cpus.list[c], p) \in Seq(Process) /\ IsInjective(Joined(t, s.cpus.list[c], p))
         /\ Sorted(t.period, Joined(t, s.cpus.list[c], p))
         /\ Range(Joined(t, s.cpus.list[c], p)) = Range(s.cpus.list[c]) \cup {p}
<1>. DEFINE o == s.cpus.list[c]
<1>1. /\ o \in Seq(Process) /\ IsInjective(o) /\ Sorted(t.period, o) /\ Range(o) \subseteq S
      /\ s.cpus.size[c] = Len(o) /\ s.task = t
  BY DEF Packing, PackType, Held, HeldOn, CpuType
<1>2. Admits(s, c, p) <=> AdmitsTo(TaskArray(t, o), Usecs(t, p))
  <2>1. (IF s.cpus.size[c] = 0 THEN <<>> ELSE TaskArray(t, o)) = TaskArray(t, o)
    <3>1. CASE s.cpus.size[c] = 0
      <4>1. o = <<>>
        <5>1. o \in Seq(Process) /\ Len(o) = 0
          BY <1>1, <3>1
        <5>. HIDE DEF o
        <5>. QED BY <5>1
      <4>2. TaskArray(t, <<>>) = <<>>
        BY DEF TaskArray
      <4>. QED BY <3>1, <4>1, <4>2
    <3>2. CASE s.cpus.size[c] # 0
      BY <3>2
    <3>. QED BY <3>1, <3>2
  <2>. QED BY <1>1, <2>1 DEF Admits, check_admission_per_cpu
<1>3. p \notin Range(o)
  OBVIOUS
<1>. HIDE DEF o
<1>4. /\ AdmitsTo(TaskArray(t, o), Usecs(t, p)) <=> __check_admission(TaskArray(t, Joined(t, o, p)))
      /\ Joined(t, o, p) \in Seq(Process) /\ IsInjective(Joined(t, o, p))
      /\ Sorted(t.period, Joined(t, o, p)) /\ Range(Joined(t, o, p)) = Range(o) \cup {p}
  BY <1>1, <1>3, JoinedFacts
<1>. QED BY <1>1, <1>2, <1>4 DEF o

\* p is on a CPU of s, or next fit has left it out and no CPU would take it.
Settled(scheme, s, p) ==
    \/ \E c \in Cpu : p \in Range(s.cpus.list[c])
    \/ scheme = NextFit /\ \A c \in Cpu : ~Admits(s, c, p)

\* A CPU that refuses a process refuses it with more processes too.
LEMMA RefusalStays ==
  ASSUME NEW t, NEW S, Granted(t, S), S \subseteq Process,
         NEW Done, NEW s, Packing(t, S, Done, s), NEW Done2, NEW r, Packing(t, S, Done2, r),
         NEW c \in Cpu, Range(s.cpus.list[c]) \subseteq Range(r.cpus.list[c]),
         NEW p \in S, p \notin Range(r.cpus.list[c]), ~Admits(s, c, p)
  PROVE  ~Admits(r, c, p)
<1>. SUFFICES ASSUME Admits(r, c, p) PROVE FALSE
  OBVIOUS
<1>. DEFINE a == Joined(t, s.cpus.list[c], p)
            b == Joined(t, r.cpus.list[c], p)
<1>0. p \notin Range(s.cpus.list[c])
  OBVIOUS
<1>1. /\ Admits(s, c, p) <=> __check_admission(TaskArray(t, a))
      /\ a \in Seq(Process) /\ IsInjective(a) /\ Sorted(t.period, a)
      /\ Range(a) = Range(s.cpus.list[c]) \cup {p}
  BY <1>0, AdmitsIff
<1>2. /\ Admits(r, c, p) <=> __check_admission(TaskArray(t, b))
      /\ b \in Seq(Process) /\ IsInjective(b) /\ Sorted(t.period, b)
      /\ Range(b) = Range(r.cpus.list[c]) \cup {p} /\ Range(r.cpus.list[c]) \subseteq S
  BY ONLY Granted(t, S), S \subseteq Process, Packing(t, S, Done2, r), c \in Cpu, p \in S,
          p \notin Range(r.cpus.list[c]), AdmitsIff
<1>. HIDE DEF a, b
<1>3. Range(a) \subseteq Range(b) /\ Range(b) \subseteq S
  BY <1>1, <1>2
<1>4. __check_admission(TaskArray(t, a))
  BY <1>1, <1>2, <1>3, FitsPart
<1>. QED BY <1>1, <1>4

\* A process that is settled stays so: CPUs only gain processes.
LEMMA SettledStays ==
  ASSUME NEW t, NEW S, Granted(t, S), S \subseteq Process,
         NEW Done, NEW s, Packing(t, S, Done, s), NEW Done2, NEW r, Packing(t, S, Done2, r),
         \A c \in Cpu : Range(s.cpus.list[c]) \subseteq Range(r.cpus.list[c]),
         NEW scheme, NEW p \in S, Settled(scheme, s, p)
  PROVE  Settled(scheme, r, p)
<1>1. CASE \E c \in Cpu : p \in Range(r.cpus.list[c])
  BY <1>1 DEF Settled
<1>2. CASE \A c \in Cpu : p \notin Range(r.cpus.list[c])
  <2>1. scheme = NextFit /\ \A c \in Cpu : ~Admits(s, c, p)
    BY <1>2 DEF Settled
  <2>2. \A c \in Cpu : ~Admits(r, c, p)
    BY <1>2, <2>1, RefusalStays
  <2>. QED BY <2>1, <2>2 DEF Settled
<1>. QED BY <1>1, <1>2

\* A packing that does not fail settles every process.
LEMMA PackingSettles ==
  ASSUME NEW t, NEW S, Granted(t, S), S \subseteq Process,
         NEW reg \in Seq(Process), IsInjective(reg), Range(reg) = S,
         NEW scheme \in Scheme, NEW aff \in [Process -> SUBSET Cpu]
  PROVE  LET s == bin_packing(t, reg, scheme, EmptyCpus, aff)
         IN  ~s.failed => \A p \in S : Settled(scheme, s, p)
<1>. DEFINE n == Len(reg)
            order == sort_periodic_tasklist(t, reg)
            Done(k) == {order[i] : i \in 1 .. k}
<1>1. PICK f : PackTurns(t, reg, scheme, EmptyCpus, aff, f)
  BY PackingTurns
<1>2. /\ \A k \in 0 .. n : Packing(t, S, Done(k), f[k])
      /\ \A k \in 1 .. n : order[k] \in S /\ PackOutcome(t, scheme, f[k - 1], order[k], f[k])
  BY <1>1, PackingRun
<1>3. n \in Nat /\ \A p \in S : \E k \in 1 .. n : order[k] = p
  <2>1. Range(reg) \subseteq S
    OBVIOUS
  <2>. QED BY <2>1, PackingOrder
<1>4. bin_packing(t, reg, scheme, EmptyCpus, aff) = f[n]
  BY <1>1 DEF PackTurns
<1>. HIDE DEF order, n
<1>. DEFINE settled(k) == ~f[k].failed => \A i \in 1 .. k : Settled(scheme, f[k], order[i])
            T == {k \in Nat : k <= n => settled(k)}
<1>5. 0 \in T
  OBVIOUS
<1>6. ASSUME NEW k \in Nat, k \in T PROVE k + 1 \in T
  <2>. SUFFICES ASSUME k + 1 <= n, ~f[k + 1].failed, NEW i \in 1 .. k + 1
                PROVE  Settled(scheme, f[k + 1], order[i])
    OBVIOUS
  <2>. DEFINE s == f[k]
              r == f[k + 1]
              p == order[k + 1]
  <2>1. k \in 0 .. n /\ k + 1 \in 0 .. n /\ k + 1 \in 1 .. n /\ (k + 1) - 1 = k /\ k <= n /\ i \in 1 .. n
    BY <1>3
  <2>2. Packing(t, S, Done(k), s) /\ Packing(t, S, Done(k + 1), r) /\ PackOutcome(t, scheme, s, p, r)
        /\ order[i] \in S
    BY <1>2, <2>1
  <2>3. settled(k)
    BY <1>6, <2>1
  <2>. HIDE DEF Done
  <2>4. /\ ~s.failed /\ (\A c \in Cpu : Range(s.cpus.list[c]) \subseteq Range(r.cpus.list[c]))
        /\ Settled(scheme, r, p)
    <3>1. CASE s.failed /\ r = s
      BY <3>1
    <3>2. CASE ~s.failed /\ r.failed
      BY <3>2
    <3>3. CASE ~s.failed /\ \E c \in Cpu : PlacedOn(t, s, c, p, r)
      <4>1. PICK c \in Cpu : PlacedOn(t, s, c, p, r)
        BY <3>3
      <4>2. \A d \in Cpu : Range(s.cpus.list[d]) \subseteq Range(r.cpus.list[d])
        <5>. SUFFICES ASSUME NEW d \in Cpu PROVE Range(s.cpus.list[d]) \subseteq Range(r.cpus.list[d])
          OBVIOUS
        <5>1. CASE d = c
          BY <4>1, <5>1 DEF PlacedOn
        <5>2. CASE d # c
          BY <4>1, <5>2 DEF PlacedOn
        <5>. QED BY <5>1, <5>2
      <4>3. p \in Range(r.cpus.list[c])
        BY <4>1 DEF PlacedOn
      <4>. QED BY <3>3, <4>2, <4>3 DEF Settled
    <3>4. CASE ~s.failed /\ r = s /\ scheme = NextFit /\ \A c \in Cpu : ~Admits(s, c, p)
      BY <3>4 DEF Settled
    <3>. QED BY <2>2, <3>1, <3>2, <3>3, <3>4 DEF PackOutcome
  <2>5. CASE i = k + 1
    BY <2>4, <2>5
  <2>6. CASE i # k + 1
    <3>1. i \in 1 .. k
      BY <2>6
    <3>2. Settled(scheme, s, order[i])
      BY <2>3, <2>4, <3>1
    <3>. HIDE DEF s, r, p
    <3>3. Settled(scheme, r, order[i])
      BY <2>2, <2>4, <3>2, SettledStays
    <3>. QED BY <3>3 DEF r
  <2>. QED BY <2>5, <2>6
<1>7. Nat \subseteq T
  <2>. HIDE DEF T
  <2>. QED BY <1>5, <1>6, SetInduction
<1>8. settled(n)
  BY <1>3, <1>7
<1>9. ASSUME ~f[n].failed, NEW p \in S PROVE Settled(scheme, f[n], p)
  BY <1>3, <1>8, <1>9
<1>. QED BY <1>4, <1>9

\* What the invariant says of the registry.
LEMMA Registrations ==
  ASSUME Inv
  PROVE  /\ Granted(task, Registered) /\ Registered \subseteq Process /\ registry \in Seq(Process)
         /\ IsInjective(registry) /\ Range(registry) = Registered /\ Sorted(task.period, registry)
         /\ affinity \in [Process -> SUBSET Cpu]
BY RangeFacts DEF Inv, TypeInv, RegistryInv, Registered

\* A packing that reports success has every registered process on a CPU, or was
\* next fit and left out what no CPU admits.
THEOREM PackingIsTotalAlways == Spec => []PackingIsTotal
<1>1. Inv => PackingIsTotal
  <2>. SUFFICES ASSUME Inv, NEW scheme \in Scheme, ~PackedBy(scheme).failed, NEW p \in Registered
                PROVE  Settled(scheme, PackedBy(scheme), p)
    BY DEF PackingIsTotal, Settled
  <2>. QED BY Registrations, PackingSettles DEF PackedBy
<1>. QED BY <1>1, PartitionedInvariant, PTL

\* A turn of first fit: the process goes to the first CPU that admits it.
LEMMA FirstFitTurn ==
  ASSUME NEW t, NEW S, Granted(t, S), S \subseteq Process, NEW Done, NEW s, Packing(t, S, Done, s),
         NEW p \in S, p \notin Done, ~s.failed
  PROVE  \/ /\ PlaceByAttempts(s, 0, p).cpus = s.cpus /\ \A c \in Cpu : ~Admits(s, c, p)
         \/ \E c \in Cpu : /\ PlacedOn(t, s, c, p, PlaceByAttempts(s, 0, p))
                           /\ \A d \in 0 .. c - 1 : ~Admits(s, d, p)
<1>. DEFINE accepted == {j \in Cpu : Admits(s, j, p)}
            r == PlaceByAttempts(s, 0, p)
            j == Min(accepted)
            a == Place(s, j, p)
<1>1. s \in PackType(t) /\ Cpu \subseteq Nat /\ \A c \in Cpu : \A d \in 0 .. c - 1 : d \in Cpu /\ d < c
  BY MaxCpuAssumption DEF Packing, Cpu
<1>2. \A i : Attempt(s, 0, i) = i
  BY DEF Attempt
<1>3. r = IF accepted = {} THEN [s EXCEPT !.failed = TRUE]
          ELSE [a EXCEPT !.bins = Max({@, j + 1})]
  BY <1>2 DEF PlaceByAttempts
<1>4. CASE accepted = {}
  <2>1. r.cpus = s.cpus
    BY <1>1, <1>3, <1>4 DEF PackType
  <2>. QED BY <1>4, <2>1
<1>5. CASE accepted # {}
  <2>1. j \in accepted /\ \A i \in accepted : j <= i
    <3>1. accepted \in SUBSET Nat
      BY <1>1
    <3>. HIDE DEF accepted
    <3>. QED BY <1>5, <3>1, MinIn
  <2>. HIDE DEF j
  <2>2. j \in Cpu /\ j \in Nat /\ Admits(s, j, p)
    BY <1>1, <2>1
  <2>3. \A d \in 0 .. j - 1 : ~Admits(s, d, p)
    BY <1>1, <2>1, <2>2
  <2>4. a \in PackType(t) /\ PlacedOn(t, s, j, p, a)
    BY <2>2, PlaceFacts
  <2>. HIDE DEF a, accepted
  <2>5. r.cpus = a.cpus /\ r.failed = a.failed
    BY <1>3, <1>5, <2>4 DEF PackType
  <2>. HIDE DEF r
  <2>6. PlacedOn(t, s, j, p, r)
    BY <2>4, <2>5 DEF PlacedOn
  <2>. QED BY <2>2, <2>3, <2>6 DEF r
<1>. QED BY <1>4, <1>5

\* What first fit keeps: the CPUs before its own refuse a process, and a failure is over
\* one that all refuse.
FirstFits(reg, S, s) ==
    /\ \A c \in Cpu : \A d \in 0 .. c - 1, p \in Range(s.cpus.list[c]) : ~Admits(s, d, p)
    /\ s.failed => reg = <<>> \/ \E p \in S : \A c \in Cpu : ~Admits(s, c, p)

\* A turn of first fit keeps it.
LEMMA FirstFitKeeps ==
  ASSUME NEW t, NEW S, Granted(t, S), S \subseteq Process, NEW Done, NEW s, Packing(t, S, Done, s),
         NEW p \in S, p \notin Done, NEW reg, ~s.failed, FirstFits(reg, S, s)
  PROVE  FirstFits(reg, S, PlaceByAttempts(s, 0, p))
<1>. DEFINE r == PlaceByAttempts(s, 0, p)
<1>1. Packing(t, S, Done \cup {p}, r)
  <2>1. 0 \in Scheme /\ 0 # NextFit
    BY DEF Scheme, NextFit
  <2>. QED BY <2>1, AttemptsStep
<1>2. \/ r.cpus = s.cpus /\ \A c \in Cpu : ~Admits(s, c, p)
      \/ \E c \in Cpu : PlacedOn(t, s, c, p, r) /\ \A d \in 0 .. c - 1 : ~Admits(s, d, p)
  BY FirstFitTurn
<1>. HIDE DEF r
<1>3. /\ \A c \in Cpu : Range(s.cpus.list[c]) \subseteq Done /\ Range(r.cpus.list[c]) \subseteq S
      /\ \A c, d \in Cpu : c # d => Range(r.cpus.list[c]) \cap Range(r.cpus.list[d]) = {}
  BY <1>1 DEF Packing, Held
<1>4. \A c \in Cpu : \A d \in 0 .. c - 1 : d \in Cpu /\ d # c
  BY MaxCpuAssumption DEF Cpu
<1>5. CASE r.cpus = s.cpus /\ \A c \in Cpu : ~Admits(s, c, p)
  <2>1. \A c \in Cpu : p \notin Range(r.cpus.list[c])
    BY <1>3, <1>5
  <2>2. ASSUME NEW c \in Cpu, NEW q \in S, q \notin Range(r.cpus.list[c]), ~Admits(s, c, q)
        PROVE  ~Admits(r, c, q)
    <3>1. Range(s.cpus.list[c]) \subseteq Range(r.cpus.list[c])
      BY <1>5
    <3>. QED BY <1>1, <2>2, <3>1, RefusalStays
  <2>3. \A c \in Cpu : ~Admits(r, c, p)
    BY <1>5, <2>1, <2>2
  <2>4. ASSUME NEW c \in Cpu, NEW d \in 0 .. c - 1, NEW q \in Range(r.cpus.list[c])
        PROVE  ~Admits(r, d, q)
    <3>1. d \in Cpu /\ d # c /\ q \in S /\ q \notin Range(r.cpus.list[d])
      BY <1>3, <1>4
    <3>2. ~Admits(s, d, q)
      BY <1>5 DEF FirstFits
    <3>. QED BY <2>2, <3>1, <3>2
  <2>. QED BY <2>3, <2>4 DEF FirstFits, r
<1>6. ASSUME NEW e \in Cpu, PlacedOn(t, s, e, p, r), \A d \in 0 .. e - 1 : ~Admits(s, d, p)
      PROVE  FirstFits(reg, S, r)
  <2>1. /\ Range(r.cpus.list[e]) = Range(s.cpus.list[e]) \cup {p}
        /\ \A d \in Cpu \ {e} : r.cpus.list[d] = s.cpus.list[d]
        /\ ~r.failed
    BY <1>6 DEF PlacedOn
  <2>2. ASSUME NEW c \in Cpu, NEW q \in S, q \notin Range(r.cpus.list[c]), ~Admits(s, c, q)
        PROVE  ~Admits(r, c, q)
    <3>1. Range(s.cpus.list[c]) \subseteq Range(r.cpus.list[c])
      <4>1. CASE c = e
        BY <2>1, <4>1
      <4>2. CASE c # e
        BY <2>1, <4>2
      <4>. QED BY <4>1, <4>2
    <3>. QED BY <1>1, <2>2, <3>1, RefusalStays
  <2>3. ASSUME NEW c \in Cpu, NEW d \in 0 .. c - 1, NEW q \in Range(r.cpus.list[c])
        PROVE  ~Admits(r, d, q)
    <3>1. d \in Cpu /\ d # c /\ q \in S /\ q \notin Range(r.cpus.list[d])
      BY <1>3, <1>4
    <3>2. q \in Range(s.cpus.list[c]) \/ (c = e /\ q = p)
      <4>1. CASE c = e
        BY <2>1, <4>1
      <4>2. CASE c # e
        BY <2>1, <4>2
      <4>. QED BY <4>1, <4>2
    <3>3. ~Admits(s, d, q)
      BY <1>6, <3>2 DEF FirstFits
    <3>. QED BY <2>2, <3>1, <3>3
  <2>. QED BY <2>1, <2>3 DEF FirstFits
<1>7. CASE \E c \in Cpu : PlacedOn(t, s, c, p, r) /\ \A d \in 0 .. c - 1 : ~Admits(s, d, p)
  BY <1>6, <1>7 DEF r
<1>. QED BY <1>2, <1>5, <1>7

\* So all turns do, from empty CPUs.
LEMMA FirstFit ==
  ASSUME NEW t, NEW S, Granted(t, S), S \subseteq Process,
         NEW reg \in Seq(Process), IsInjective(reg), Range(reg) = S,
         NEW aff \in [Process -> SUBSET Cpu]
  PROVE  FirstFits(reg, S, bin_packing(t, reg, 0, EmptyCpus, aff))
<1>. DEFINE n == Len(reg)
            order == sort_periodic_tasklist(t, reg)
            Done(k) == {order[i] : i \in 1 .. k}
<1>0. 0 \in Scheme /\ 0 # NextFit
  BY DEF Scheme, NextFit
<1>1. PICK f : PackTurns(t, reg, 0, EmptyCpus, aff, f)
  BY PackingTurns
<1>2. \A k \in 0 .. n : Packing(t, S, Done(k), f[k])
  BY <1>0, <1>1, PackingRun
<1>3. n \in Nat /\ order \in [1 .. n -> S] /\ IsInjective(order)
  <2>1. Range(reg) \subseteq S
    OBVIOUS
  <2>. QED BY <2>1, PackingOrder
<1>4. /\ bin_packing(t, reg, 0, EmptyCpus, aff) = f[n]
      /\ f[0] = PackStart(t, reg, 0, EmptyCpus, aff)
      /\ \A k \in 1 .. n : f[k] = PackStep(0, f[k - 1], order[k])
  BY <1>1 DEF PackTurns
<1>. HIDE DEF order, n
<1>. DEFINE T == {k \in Nat : k <= n => FirstFits(reg, S, f[k])}
<1>5. 0 \in T
  <2>1. f[0].cpus = EmptyCpus /\ (f[0].failed <=> reg = <<>>)
    <3>1. PICK b \in BOOLEAN : b = (reg = <<>>)
      OBVIOUS
    <3>2. f[0].cpus = EmptyCpus /\ f[0].failed = b
      BY <1>4, <3>1 DEF PackStart
    <3>. QED BY <3>1, <3>2
  <2>2. \A c \in Cpu : f[0].cpus.list[c] = <<>>
    BY <2>1, EmptyHeld
  <2>3. \A c \in Cpu : Range(f[0].cpus.list[c]) = {}
    BY <2>2 DEF Range
  <2>4. FirstFits(reg, S, f[0])
    BY <2>1, <2>3 DEF FirstFits
  <2>. QED BY <2>4
<1>6. ASSUME NEW k \in Nat, k \in T PROVE k + 1 \in T
  <2>. SUFFICES ASSUME k + 1 <= n PROVE FirstFits(reg, S, f[k + 1])
    OBVIOUS
  <2>. DEFINE s == f[k]
              p == order[k + 1]
  <2>1. k \in 0 .. n /\ k + 1 \in 1 .. n /\ (k + 1) - 1 = k /\ k <= n
    BY <1>3
  <2>2. Packing(t, S, Done(k), s) /\ FirstFits(reg, S, s) /\ f[k + 1] = PackStep(0, s, p) /\ p \in S
    BY <1>2, <1>3, <1>4, <1>6, <2>1
  <2>3. p \notin Done(k)
    <3>1. \A i \in 1 .. k : i \in 1 .. n /\ i # k + 1
      BY <1>3, <2>1
    <3>. QED BY <1>3, <2>1, <3>1 DEF IsInjective
  <2>. HIDE DEF s, p, Done
  <2>4. CASE s.failed
    BY <2>2, <2>4 DEF PackStep
  <2>5. CASE ~s.failed
    <3>1. f[k + 1] = PlaceByAttempts(s, 0, p)
      BY <1>0, <2>2, <2>5 DEF PackStep
    <3>. QED BY <2>2, <2>3, <2>5, <3>1, FirstFitKeeps
  <2>. QED BY <2>4, <2>5
<1>7. Nat \subseteq T
  <2>. HIDE DEF T
  <2>. QED BY <1>5, <1>6, SetInduction
<1>. QED BY <1>3, <1>4, <1>7

\* First fit puts a process only where all CPUs before refuse it, with what they hold in
\* the end, and fails only over a process that every CPU refuses.
THEOREM FirstFitLeavesNoRoomAlways == Spec => []FirstFitLeavesNoRoom
<1>1. Inv => FirstFitLeavesNoRoom
  <2>. SUFFICES ASSUME Inv PROVE FirstFits(registry, Registered, PackedBy(0))
    BY DEF FirstFitLeavesNoRoom, FirstFits
  <2>. QED BY Registrations, FirstFit DEF PackedBy
<1>. QED BY <1>1, PartitionedInvariant, PTL

\* The loop of worst fit while it has not failed: the processes done are on CPU 0,
\* the only one in use.
OnlyCpuZero(S, Done, s) ==
    /\ ~s.failed /\ s.bins = 1
    /\ Range(s.cpus.list[0]) = Done
    /\ \A c \in Cpu \ {0} : s.cpus.util[c] = SCALE_UP_FACTOR

\* The first bin by room is CPU 0 where that has no more room than any other.
LEMMA FullestIsZero ==
  ASSUME NEW util, NEW b \in Nat \ {0}, \A c \in 0 .. b - 1 : util[c] \in Int /\ util[0] <= util[c]
  PROVE  get_util_bin(util, 0, b) = 0
<1>. DEFINE bins == 0 .. b - 1
            below(x) == {c \in bins : util[c] < util[x]}
            upto(x) == {c \in bins : util[c] <= util[x]}
            N == {x \in bins : Cardinality(below(x)) <= 0 /\ 0 < Cardinality(upto(x))}
<1>1. 0 \in bins /\ IsFiniteSet(bins) /\ bins \subseteq Nat
  BY FS_Interval
<1>2. below(0) = {} /\ 0 \in upto(0)
  BY <1>1
<1>3. Cardinality(below(0)) = 0
  BY <1>2, FS_EmptySet
<1>4. IsFiniteSet(upto(0)) /\ Cardinality(upto(0)) \in Nat /\ Cardinality(upto(0)) # 0
  <2>1. upto(0) \in SUBSET bins
    OBVIOUS
  <2>. HIDE DEF upto, bins
  <2>2. IsFiniteSet(upto(0))
    BY <1>1, <2>1, FS_Subset
  <2>. QED BY <1>2, <2>2, FS_CardinalityType, FS_EmptySet
<1>5. 0 \in N
  <2>1. 0 < Cardinality(upto(0)) /\ Cardinality(below(0)) <= 0
    <3>. HIDE DEF upto, below
    <3>. QED BY <1>3, <1>4
  <2>. QED BY <1>1, <2>1
<1>6. get_util_bin(util, 0, b) = Min(N)
  BY DEF get_util_bin
<1>7. N \in SUBSET Nat
  BY <1>1
<1>. HIDE DEF N
<1>. DEFINE m == Min(N)
<1>8. m \in N /\ m <= 0
  BY <1>5, <1>7, MinIn
<1>. HIDE DEF m
<1>9. m \in Nat
  BY <1>7, <1>8
<1>10. m = 0
  BY <1>8, <1>9
<1>. QED BY <1>6, <1>10 DEF m

\* A turn of scheme 3: with one bin in use its attempt is always CPU 0.
LEMMA WorstFitTurn ==
  ASSUME NEW t, NEW S, Granted(t, S), S \subseteq Process, NEW Done, NEW s, Packing(t, S, Done, s),
         OnlyCpuZero(S, Done, s), NEW p \in S, p \notin Done
  PROVE  /\ Admits(s, 0, p) => OnlyCpuZero(S, Done \cup {p}, PlaceByAttempts(s, 3, p))
         /\ ~Admits(s, 0, p) => PlaceByAttempts(s, 3, p).failed
<1>. DEFINE accepted == {j \in Cpu : Admits(s, Attempt(s, 3, j), p)}
            util == s.cpus.util
<1>0. /\ s \in PackType(t) /\ s.bins = 1 /\ MAX_CPU \in Nat \ {0} /\ 0 \in Cpu /\ Cpu \subseteq Nat
      /\ util \in [Cpu -> Int] /\ ~s.failed
  <2>1. s \in PackType(t) /\ s.bins = 1 /\ ~s.failed
    BY DEF Packing, OnlyCpuZero
  <2>2. util \in [Cpu -> Int]
    BY <2>1 DEF PackType, CpuType
  <2>3. MAX_CPU \in Nat \ {0} /\ 0 \in Cpu /\ Cpu \subseteq Nat
    BY MaxCpuAssumption DEF Cpu
  <2>. QED BY <2>1, <2>2, <2>3
<1>1. \A c \in Cpu : util[c] \in Int /\ util[0] <= util[c]
  <2>1. util[0] <= SCALE_UP_FACTOR
    <3>1. /\ s.cpus.list[0] \in Seq(Process) /\ Range(s.cpus.list[0]) \subseteq S
          /\ util[0] <= SCALE_UP_FACTOR - UtilOn(t, Range(s.cpus.list[0]))
      BY <1>0 DEF Packing, Held, HeldOn, CpuType
    <3>2. UtilOn(t, Range(s.cpus.list[0])) \in Nat
      <4>1. IsFiniteSet(Range(s.cpus.list[0]))
        BY <3>1, RangeFacts
      <4>. QED BY <3>1, <4>1, UtilFacts
    <3>3. util[0] \in Int
      BY <1>0
    <3>. QED BY <3>1, <3>2, <3>3 DEF SCALE_UP_FACTOR
  <2>2. \A c \in Cpu : c = 0 \/ util[c] = SCALE_UP_FACTOR
    BY DEF OnlyCpuZero
  <2>3. \A c \in Cpu : util[c] \in Int
    BY <1>0
  <2>. HIDE DEF util
  <2>. QED BY <1>0, <2>1, <2>2, <2>3
<1>2. ASSUME NEW j \in Cpu PROVE Attempt(s, 3, j) = 0
  <2>1. j \in Nat /\ j \in 0 .. MAX_CPU - 1
    BY <1>0 DEF Cpu
  <2>2. Max({s.bins, j + 1}) = j + 1
    BY <1>0, <2>1, MaxPair
  <2>3. Attempt(s, 3, j) = get_util_bin(util, (j + 1) - 1 - j, j + 1)
    <3>. DEFINE bins == Max({s.bins, j + 1})
    <3>1. Attempt(s, 3, j) = get_util_bin(util, bins - 1 - j, bins)
      BY DEF Attempt
    <3>. HIDE DEF bins
    <3>2. bins = j + 1
      BY <2>2 DEF bins
    <3>. QED BY ONLY <3>1, <3>2, Zenon
  <2>4. (j + 1) - 1 - j = 0 /\ j + 1 \in Nat \ {0} /\ 0 .. (j + 1) - 1 \subseteq 0 .. MAX_CPU - 1
    BY <1>0, <2>1
  <2>5. \A c \in 0 .. (j + 1) - 1 : util[c] \in Int /\ util[0] <= util[c]
    BY <1>1, <2>4 DEF Cpu
  <2>. HIDE DEF util
  <2>6. get_util_bin(util, 0, j + 1) = 0
    BY ONLY <2>4, <2>5, FullestIsZero
  <2>. QED BY <2>3, <2>4, <2>6
<1>3. ASSUME ~Admits(s, 0, p) PROVE PlaceByAttempts(s, 3, p).failed
  <2>1. accepted = {}
    BY <1>2, <1>3
  <2>2. PlaceByAttempts(s, 3, p) = [s EXCEPT !.failed = TRUE]
    BY <2>1 DEF PlaceByAttempts
  <2>. QED BY <1>0, <2>2 DEF PackType
<1>4. ASSUME Admits(s, 0, p) PROVE OnlyCpuZero(S, Done \cup {p}, PlaceByAttempts(s, 3, p))
  <2>. DEFINE a == Place(s, 0, p)
              r == PlaceByAttempts(s, 3, p)
  <2>1. accepted = Cpu
    BY <1>2, <1>4
  <2>2. Min(Cpu) = 0
    <3>. DEFINE m == Min(Cpu)
    <3>1. m \in Cpu /\ m <= 0
      BY <1>0, MinIn
    <3>. HIDE DEF m
    <3>2. m \in Nat
      BY <1>0, <3>1
    <3>3. m = 0
      BY <3>1, <3>2
    <3>. QED BY <3>3 DEF m
  <2>3. accepted # {} /\ Min(accepted) = 0
    BY <1>0, <2>1, <2>2
  <2>4. r = [Place(s, Attempt(s, 3, 0), p) EXCEPT !.bins = Max({@, 0 + 1})]
    BY <2>3 DEF PlaceByAttempts
  <2>5. Attempt(s, 3, 0) = 0
    BY <1>0, <1>2
  <2>6. r = [a EXCEPT !.bins = Max({@, 0 + 1})]
    BY <2>4, <2>5
  <2>7. a \in PackType(t) /\ a.bins = s.bins /\ PlacedOn(t, s, 0, p, a)
    BY <1>0, <1>4, PlaceFacts
  <2>. HIDE DEF a
  <2>8. Max({a.bins, 0 + 1}) = 1
    BY <1>0, <2>7, MaxPair
  <2>9. r = [a EXCEPT !.bins = 1]
    BY <2>6, <2>8
  <2>. HIDE DEF r
  <2>10. r.bins = 1 /\ r.cpus = a.cpus /\ r.failed = a.failed
    BY <2>7, <2>9 DEF PackType
  <2>11. Range(r.cpus.list[0]) = Done \cup {p} /\ ~r.failed
    BY <1>0, <2>7, <2>10 DEF PlacedOn, OnlyCpuZero
  <2>12. \A c \in Cpu \ {0} : r.cpus.util[c] = SCALE_UP_FACTOR
    <3>1. r.cpus.util = [util EXCEPT ![0] = util[0] - Util(t, p)]
      BY <2>7, <2>10 DEF PlacedOn, JoinedCpus
    <3>2. \A c \in Cpu \ {0} : r.cpus.util[c] = util[c]
      BY <1>0, <3>1
    <3>. QED BY <3>2 DEF OnlyCpuZero
  <2>13. OnlyCpuZero(S, Done \cup {p}, r)
    BY <2>10, <2>11, <2>12 DEF OnlyCpuZero
  <2>. QED BY <2>13 DEF r
<1>. QED BY <1>3, <1>4

\* Scheme 3 packs the registry exactly if one CPU alone would pass it.
LEMMA WorstFit ==
  ASSUME NEW t, NEW S, Granted(t, S), S \subseteq Process,
         NEW reg \in Seq(Process), IsInjective(reg), Range(reg) = S, Sorted(t.period, reg), reg # <<>>,
         NEW aff \in [Process -> SUBSET Cpu]
  PROVE  bin_packing(t, reg, 3, EmptyCpus, aff).failed <=> ~__check_admission(TaskArray(t, reg))
<1>. DEFINE n == Len(reg)
            order == sort_periodic_tasklist(t, reg)
            Done(k) == {order[i] : i \in 1 .. k}
            fits == __check_admission(TaskArray(t, reg))
<1>0. 3 \in Scheme /\ 3 # NextFit
  BY DEF Scheme, NextFit
<1>1. PICK f : PackTurns(t, reg, 3, EmptyCpus, aff, f)
  BY PackingTurns
<1>2. \A k \in 0 .. n : Packing(t, S, Done(k), f[k])
  BY <1>0, <1>1, PackingRun
<1>3. /\ n \in Nat /\ order \in [1 .. n -> S] /\ IsInjective(order)
      /\ \A p \in S : \E k \in 1 .. n : order[k] = p
  <2>1. Range(reg) \subseteq S
    OBVIOUS
  <2>. QED BY <2>1, PackingOrder
<1>4. /\ bin_packing(t, reg, 3, EmptyCpus, aff) = f[n]
      /\ f[0] = PackStart(t, reg, 3, EmptyCpus, aff)
      /\ \A k \in 1 .. n : f[k] = PackStep(3, f[k - 1], order[k])
  BY <1>1 DEF PackTurns
<1>. HIDE DEF order, n, fits
<1>5. Done(0) = {} /\ Done(n) = S
  BY <1>3
<1>6. \A k \in 0 .. n - 1 : /\ order[k + 1] \in S /\ order[k + 1] \notin Done(k)
                            /\ Done(k + 1) = Done(k) \cup {order[k + 1]} /\ Done(k) \subseteq S
  <2>. SUFFICES ASSUME NEW k \in 0 .. n - 1
                PROVE  /\ order[k + 1] \in S /\ order[k + 1] \notin Done(k)
                       /\ Done(k + 1) = Done(k) \cup {order[k + 1]} /\ Done(k) \subseteq S
    OBVIOUS
  <2>1. k + 1 \in 1 .. n /\ k + 1 \in 1 .. k + 1
    BY <1>3
  <2>2. \A i \in 1 .. k : i \in 1 .. n /\ i # k + 1 /\ i \in 1 .. k + 1
    BY <1>3
  <2>3. \A i \in 1 .. k + 1 : i \in 1 .. k \/ i = k + 1
    OBVIOUS
  <2>4. order[k + 1] \in S /\ order[k + 1] \notin Done(k)
    BY <1>3, <2>1, <2>2 DEF IsInjective
  <2>5. Done(k) \subseteq S
    BY <1>3, <2>2
  <2>6. Done(k + 1) \subseteq Done(k) \cup {order[k + 1]}
    BY <2>3
  <2>7. Done(k) \cup {order[k + 1]} \subseteq Done(k + 1)
    BY <2>1, <2>2
  <2>. QED BY <2>4, <2>5, <2>6, <2>7
<1>. HIDE DEF Done
<1>. DEFINE good(k) == IF f[k].failed THEN ~fits ELSE OnlyCpuZero(S, Done(k), f[k])
            T == {k \in Nat : k <= n => good(k)}
<1>7. 0 \in T
  <2>1. ~f[0].failed /\ f[0].bins = 1 /\ f[0].cpus = EmptyCpus
    <3>1. /\ PackStart(t, reg, 3, EmptyCpus, aff).bins = 1
          /\ PackStart(t, reg, 3, EmptyCpus, aff).cpus = EmptyCpus
      BY DEF PackStart
    <3>2. PackStart(t, reg, 3, EmptyCpus, aff).failed <=> reg = <<>>
      BY DEF PackStart
    <3>. QED BY <1>4, <3>1, <3>2
  <2>2. /\ Range(EmptyCpus.list[0]) = {}
        /\ \A c \in Cpu \ {0} : EmptyCpus.util[c] = SCALE_UP_FACTOR
    BY MaxCpuAssumption DEF EmptyCpus, Range, Cpu
  <2>. QED BY <1>5, <2>1, <2>2 DEF OnlyCpuZero
<1>8. ASSUME NEW k \in Nat, k \in T PROVE k + 1 \in T
  <2>. SUFFICES ASSUME k + 1 <= n PROVE good(k + 1)
    OBVIOUS
  <2>. DEFINE s == f[k]
              p == order[k + 1]
              D == Done(k)
              l == s.cpus.list[0]
              j == Joined(t, l, p)
  <2>1. k \in 0 .. n /\ k \in 0 .. n - 1 /\ k + 1 \in 1 .. n /\ (k + 1) - 1 = k /\ k <= n
    BY <1>3
  <2>2. Packing(t, S, D, s) /\ f[k + 1] = PackStep(3, s, p)
    BY <1>2, <1>4, <2>1
  <2>3. p \in S /\ p \notin D /\ Done(k + 1) = D \cup {p} /\ D \subseteq S
    BY <1>6, <2>1
  <2>4. good(k)
    BY <1>8, <2>1
  <2>5. CASE s.failed
    BY <2>2, <2>4, <2>5 DEF PackStep
  <2>6. CASE ~s.failed
    <3>1. f[k + 1] = PlaceByAttempts(s, 3, p)
      BY <1>0, <2>2, <2>6 DEF PackStep
    <3>2. OnlyCpuZero(S, D, s)
      BY <2>4, <2>6
    <3>. HIDE DEF s, p, D
    <3>3. /\ Admits(s, 0, p) => OnlyCpuZero(S, D \cup {p}, PlaceByAttempts(s, 3, p))
          /\ ~Admits(s, 0, p) => PlaceByAttempts(s, 3, p).failed
      BY <2>2, <2>3, <3>2, WorstFitTurn
    <3>4. CASE Admits(s, 0, p)
      <4>1. OnlyCpuZero(S, Done(k + 1), f[k + 1])
        BY <2>3, <3>1, <3>3, <3>4
      <4>. QED BY <4>1 DEF OnlyCpuZero
    <3>5. CASE ~Admits(s, 0, p)
      <4>1. f[k + 1].failed
        BY <3>1, <3>3, <3>5
      <4>2. 0 \in Cpu /\ Range(l) = D
        BY <3>2, MaxCpuAssumption DEF Cpu, OnlyCpuZero
      <4>3. /\ Admits(s, 0, p) <=> __check_admission(TaskArray(t, j))
            /\ j \in Seq(Process) /\ IsInjective(j) /\ Sorted(t.period, j) /\ Range(j) = Range(l) \cup {p}
        <5>1. p \notin Range(s.cpus.list[0])
          BY <2>3, <4>2
        <5>2. p \in S /\ 0 \in Cpu
          BY <2>3, <4>2
        <5>. HIDE DEF l, j
        <5>3. /\ Admits(s, 0, p) <=> __check_admission(TaskArray(t, Joined(t, s.cpus.list[0], p)))
              /\ Joined(t, s.cpus.list[0], p) \in Seq(Process) /\ IsInjective(Joined(t, s.cpus.list[0], p))
              /\ Sorted(t.period, Joined(t, s.cpus.list[0], p))
              /\ Range(Joined(t, s.cpus.list[0], p)) = Range(s.cpus.list[0]) \cup {p}
          BY <2>2, <5>1, <5>2, AdmitsIff
        <5>. QED BY <5>3 DEF l, j
      <4>. HIDE DEF j, l
      <4>4. Range(j) \subseteq Range(reg) /\ Range(reg) \subseteq S
        BY <2>3, <4>2, <4>3
      <4>5. ASSUME fits PROVE FALSE
        <5>1. __check_admission(TaskArray(t, reg))
          BY <4>5 DEF fits
        <5>2. __check_admission(TaskArray(t, j))
          BY <4>3, <4>4, <5>1, FitsPart
        <5>. QED BY <3>5, <4>3, <5>2
      <4>. QED BY <4>1, <4>5
    <3>. QED BY <3>4, <3>5
  <2>. QED BY <2>5, <2>6
<1>9. Nat \subseteq T
  <2>. HIDE DEF T
  <2>. QED BY <1>7, <1>8, SetInduction
<1>10. good(n)
  BY <1>3, <1>9
<1>11. ASSUME ~f[n].failed PROVE fits
  <2>. DEFINE l == f[n].cpus.list[0]
  <2>0. 0 \in Cpu /\ n \in 0 .. n
    BY <1>3, MaxCpuAssumption DEF Cpu
  <2>1. Range(l) = S
    BY <1>5, <1>10, <1>11 DEF OnlyCpuZero
  <2>2. Packing(t, S, Done(n), f[n])
    BY <1>2, <2>0
  <2>3. l \in Seq(Process) /\ IsInjective(l) /\ Sorted(t.period, l) /\ __check_admission(TaskArray(t, l))
    BY <2>0, <2>2 DEF Packing, Held, HeldOn, CpuType
  <2>. HIDE DEF l
  <2>4. Range(reg) \subseteq Range(l) /\ Range(l) \subseteq S
    BY <2>1
  <2>5. __check_admission(TaskArray(t, reg))
    BY <2>3, <2>4, FitsPart
  <2>. QED BY <2>5 DEF fits
<1>. QED BY <1>4, <1>10, <1>11 DEF fits

\* A defect, stated exactly: scheme 3 opens CPUs and never uses them, so that it fails
\* exactly if the registry does not fit on one CPU, however many are idle.
THEOREM WorstFitFailsBeyondOneCpu ==
    Spec => [](list # <<>> => (PackedBy(3).failed <=> ~__check_admission(list)))
<1>1. Inv => (list # <<>> => (PackedBy(3).failed <=> ~__check_admission(list)))
  <2>. SUFFICES ASSUME Inv, list # <<>>
                PROVE  PackedBy(3).failed <=> ~__check_admission(list)
    OBVIOUS
  <2>1. list = TaskArray(task, registry)
    BY DEF list
  <2>2. registry # <<>>
    <3>1. TaskArray(task, <<>>) = <<>>
      BY DEF TaskArray
    <3>. QED BY <2>1, <3>1
  <2>. QED BY <2>1, <2>2, Registrations, WorstFit DEF PackedBy
<1>. QED BY <1>1, PartitionedInvariant, PTL
=============================================================================
