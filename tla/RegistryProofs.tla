---------------------------- MODULE RegistryProofs ----------------------------
(***************************************************************************)
(* RTRegistry, whatever the processes, budgets and periods: the links of   *)
(* the registry form one ring through the reserved processes, in the order *)
(* of their periods, and what is on it meets its deadlines in nanoseconds. *)
(* The sequence of processes the ring spells out is the ghost the proofs   *)
(* reason about; Traversal computes it.  With it the registry is shown to  *)
(* implement ReservationSet.                                               *)
(***************************************************************************)
EXTENDS RTRegistry, AdmissionProofs

\* fine is the task array in nanoseconds, coarse the same in whole microseconds:
\* budgets are multiples of a microsecond, periods are rounded down.
Refines(fine, coarse) ==
    /\ Len(fine) = Len(coarse)
    /\ \A i \in 1 .. Len(fine) : /\ fine[i].budget = coarse[i].budget * NsPerUs
                                 /\ coarse[i].period * NsPerUs <= fine[i].period

\* In microseconds no job is released later than in nanoseconds.
LEMMA CoarseCeiling ==
  ASSUME NEW a \in Nat, NEW p \in Nat \ {0}, NEW q \in Nat \ {0}, p * NsPerUs <= q
  PROVE  a * NsPerUs \in Nat /\ ceiling(a * NsPerUs, q) <= ceiling(a, p)
<1>. DEFINE c == ceiling(a, p)
            n == NsPerUs
<1>0. n \in Nat \ {0} /\ p * n \in Nat /\ a * n \in Nat
  BY NsPerUsAssumption
<1>1. c \in Nat /\ a <= c * p
  BY CeilingBounds
<1>. HIDE DEF c, n
<1>2. c * p \in Nat /\ a * n <= (c * p) * n
  BY <1>0, <1>1, TimesMonotone
<1>3. (c * p) * n = (p * n) * c
  BY <1>0, <1>1
<1>4. (p * n) * c <= q * c
  <2>1. p * n <= q
    BY DEF n
  <2>. QED BY <1>0, <1>1, <2>1, TimesMonotone
<1>5. a * n <= c * q
  <2>1. q * c = c * q /\ c * q \in Int /\ (c * p) * n \in Int
    BY <1>0, <1>1, <1>2
  <2>. QED BY <1>0, <1>2, <1>3, <1>4, <2>1
<1>6. ceiling(a * n, q) <= c
  BY <1>0, <1>1, <1>5, CeilingLeast
<1>. QED BY <1>0, <1>6 DEF c, n

\* A demand that fits at some moment in microseconds fits in nanoseconds.
LEMMA CoarseDemand ==
  ASSUME NEW fine \in TaskList, NEW coarse \in TaskList, Refines(fine, coarse),
         NEW pos \in 1 .. Len(fine), TimeDemandMet(coarse, pos)
  PROVE  TimeDemandMet(fine, pos)
<1>. DEFINE n == NsPerUs
<1>0. /\ n \in Nat \ {0} /\ Len(fine) \in Nat /\ pos \in 1 .. Len(coarse) /\ pos \in 1 .. Len(fine)
      /\ \A i \in 1 .. Len(fine) : fine[i].budget \in Nat /\ fine[i].period \in Nat \ {0}
      /\ \A i \in 1 .. Len(fine) : coarse[i].budget \in Nat /\ coarse[i].period \in Nat \ {0}
      /\ \A i \in 1 .. Len(fine) : fine[i].budget = coarse[i].budget * n /\ coarse[i].period * n <= fine[i].period
  BY NsPerUsAssumption, TaskListFacts DEF Refines
<1>1. PICK a \in 1 .. coarse[pos].period : demand(coarse, pos, a) <= a
  BY DEF TimeDemandMet
<1>. DEFINE m == a * n
            f == Released(fine, m)
            g == Released(coarse, a)
            h == [i \in 1 .. Len(fine) |-> g[i] * n]
            P == 1 .. pos - 1
<1>2. a \in Nat \ {0} /\ a <= coarse[pos].period
  BY <1>0, <1>1
<1>3. m \in 1 .. fine[pos].period
  <2>1. m \in Nat /\ 1 <= m
    <3>1. 1 * n <= a * n
      BY <1>0, <1>2, TimesMonotone
    <3>2. 1 * n = n /\ m \in Nat
      BY <1>0, <1>2
    <3>. QED BY <1>0, <3>1, <3>2
  <2>2. m <= coarse[pos].period * n
    <3>1. a \in Int /\ coarse[pos].period \in Int /\ n \in Nat
      BY <1>0, <1>2
    <3>. QED BY ONLY <1>2, <3>1, TimesMonotone DEF m
  <2>3. coarse[pos].period * n <= fine[pos].period /\ fine[pos].period \in Nat /\ coarse[pos].period * n \in Nat
    BY <1>0
  <2>. QED BY <2>1, <2>2, <2>3
<1>. HIDE DEF m
<1>4. ASSUME NEW i \in 1 .. Len(fine)
      PROVE  f[i] \in Nat /\ g[i] \in Nat /\ h[i] \in Nat /\ h[i] = g[i] * n /\ f[i] <= h[i]
  <2>. DEFINE cf == ceiling(m, fine[i].period)
              cg == ceiling(a, coarse[i].period)
              b == coarse[i].budget
  <2>1. cf <= cg
    BY <1>0, <1>2, CoarseCeiling DEF m
  <2>2. cf \in Nat /\ cg \in Nat /\ b \in Nat /\ b * n \in Nat
    <3>1. m \in Nat
      BY <1>0, <1>3
    <3>. QED BY <1>0, <1>2, <3>1, CeilingBounds
  <2>3. f[i] = cf * (b * n) /\ g[i] = cg * b
    BY <1>0 DEF Released, Refines
  <2>. HIDE DEF cf, cg, b
  <2>4. cf * (b * n) <= cg * (b * n)
    BY <2>1, <2>2, TimesMonotone
  <2>5. cg * (b * n) = (cg * b) * n /\ cf * (b * n) \in Nat /\ cg * b \in Nat /\ (cg * b) * n \in Nat
    BY <1>0, <2>2
  <2>. HIDE DEF f, g
  <2>. QED BY <2>3, <2>4, <2>5
<1>. HIDE DEF f, g
<1>5. IsFiniteSet(P) /\ P \subseteq 1 .. Len(fine)
  <2>1. pos - 1 \in 0 .. Len(fine)
    BY <1>0
  <2>. QED BY <1>0, <2>1, Prefix
<1>6. /\ SumFunctionOnSet(f, P) <= SumFunctionOnSet(h, P)
      /\ SumFunctionOnSet(h, P) = SumFunctionOnSet(g, P) * n
      /\ SumFunctionOnSet(f, P) \in Nat /\ SumFunctionOnSet(g, P) \in Nat
  <2>1. \A i \in P : f[i] \in Nat /\ g[i] \in Nat /\ h[i] \in Nat /\ h[i] = g[i] * n /\ f[i] <= h[i]
    BY <1>4, <1>5
  <2>. HIDE DEF h, P
  <2>2. SumFunctionOnSet(f, P) \in Nat /\ SumFunctionOnSet(g, P) \in Nat
    BY <1>5, <2>1, SumNat
  <2>3. \A i \in P : f[i] \in Int /\ g[i] \in Int /\ h[i] \in Int
    BY <2>1
  <2>4. SumFunctionOnSet(f, P) <= SumFunctionOnSet(h, P)
    BY <1>5, <2>1, <2>3, SumLeq
  <2>5. n \in Int
    BY <1>0
  <2>6. SumFunctionOnSet(h, P) = SumFunctionOnSet(g, P) * n
    BY <1>5, <2>1, <2>3, <2>5, SumScale
  <2>. QED BY <2>2, <2>4, <2>6
<1>7. /\ demand(fine, pos, m) = fine[pos].budget + SumFunctionOnSet(f, P)
      /\ demand(coarse, pos, a) = coarse[pos].budget + SumFunctionOnSet(g, P)
  <2>1. m \in Nat /\ a \in Nat
    BY <1>0, <1>2, <1>3
  <2>. QED BY <1>0, <2>1, DemandIsSum DEF f, g
<1>. DEFINE F == SumFunctionOnSet(f, P)
            G == SumFunctionOnSet(g, P)
            b == coarse[pos].budget
<1>8. b \in Nat /\ F \in Nat /\ G \in Nat /\ F <= G * n /\ fine[pos].budget = b * n /\ b + G <= a
  BY <1>0, <1>1, <1>6, <1>7
<1>. HIDE DEF F, G, b, h
<1>9. (b + G) * n <= a * n /\ (b + G) * n = b * n + G * n /\ b * n \in Nat /\ G * n \in Nat /\ a * n \in Nat
  <2>1. n \in Nat /\ a \in Int /\ b + G \in Int /\ b + G <= a
    BY <1>0, <1>2, <1>8
  <2>2. (b + G) * n <= a * n
    BY ONLY <2>1, TimesMonotone
  <2>3. (b + G) * n = b * n + G * n /\ b * n \in Nat /\ G * n \in Nat /\ a * n \in Nat
    BY <1>0, <1>2, <1>8
  <2>. QED BY <2>2, <2>3
<1>10. demand(fine, pos, m) <= m
  <2>1. demand(fine, pos, m) = b * n + F
    BY <1>7, <1>8 DEF F
  <2>. QED BY <1>8, <1>9, <2>1 DEF m
<1>. QED BY <1>3, <1>10 DEF TimeDemandMet

\* check_admission converts to microseconds and rounds the periods down: what passes
\* meets its deadlines in nanoseconds.
THEOREM CoarseTestIsSafe ==
  ASSUME NEW fine \in TaskList, NEW coarse \in TaskList, Refines(fine, coarse), ByPeriod(fine),
         __check_admission(coarse)
  PROVE  MeetsDeadlines(fine)
<1>1. Len(fine) = Len(coarse)
  BY DEF Refines
<1>2. ASSUME NEW pos \in 1 .. Len(fine) PROVE rt_test(fine, pos)
  <2>1. pos \in 1 .. Len(coarse)
    BY <1>1
  <2>2. TimeDemandMet(coarse, pos)
    BY <2>1, RtTestIsTimeDemandAnalysis DEF __check_admission
  <2>3. TimeDemandMet(fine, pos)
    BY <2>2, CoarseDemand
  <2>. QED BY <2>3, RtTestIsTimeDemandAnalysis
<1>. QED BY <1>2, AdmissionIsExact DEF __check_admission

-----------------------------------------------------------------------------

\* The registry, with no bound on the counter.
ListType == [next : [Node -> Link], prev : [Node -> Link], size : Nat, fault : BOOLEAN]

\* The node at place i of the ring that spells out o: the head at both ends.
At(o, i) == IF i \in 1 .. Len(o) THEN o[i] ELSE Anchor

\* next and prev of l go around through o and the head.
Ring(l, o) ==
    \A i \in 0 .. Len(o) : l.next[At(o, i)] = At(o, i + 1) /\ l.prev[At(o, i + 1)] = At(o, i)

\* The list l holds exactly o, in this order: the counter is its length, and the
\* links are its ring; of an empty list the head points at no process.
Chained(l, o) ==
    /\ l \in ListType
    /\ o \in Seq(Process)
    /\ IsInjective(o)
    /\ l.size = Len(o)
    /\ ~l.fault
    /\ o # <<>> => Ring(l, o)
    /\ o = <<>> => l.next[Anchor] \notin Process

\* The nodes of a ring are different.
LEMMA NodesOf ==
  ASSUME NEW o \in Seq(Process), IsInjective(o)
  PROVE  /\ Len(o) \in Nat
         /\ \A i : At(o, i) \in Node
         /\ \A i \in 1 .. Len(o) : At(o, i) = o[i] /\ o[i] \in Process /\ At(o, i) # Anchor
         /\ \A i : i \notin 1 .. Len(o) => At(o, i) = Anchor
         /\ \A i, j \in 0 .. Len(o) : At(o, i) = At(o, j) => i = j
         /\ \A i, j \in 1 .. Len(o) + 1 : At(o, i) = At(o, j) => i = j
<1>1. Len(o) \in Nat /\ DOMAIN o = 1 .. Len(o)
  OBVIOUS
<1>2. \A i \in 1 .. Len(o) : At(o, i) = o[i] /\ o[i] \in Process /\ At(o, i) # Anchor
  BY RegistryAssumption DEF At
<1>3. \A i : i \notin 1 .. Len(o) => At(o, i) = Anchor
  BY DEF At
<1>4. \A i : At(o, i) \in Node
  BY <1>2, <1>3 DEF Node
<1>5. \A i, j \in 1 .. Len(o) : At(o, i) = At(o, j) => i = j
  BY <1>1, <1>2 DEF IsInjective
<1>6. \A i, j \in 0 .. Len(o) : At(o, i) = At(o, j) => i = j
  <2>. SUFFICES ASSUME NEW i \in 0 .. Len(o), NEW j \in 0 .. Len(o), At(o, i) = At(o, j) PROVE i = j
    OBVIOUS
  <2>1. i \in 1 .. Len(o) \/ (i = 0 /\ i \notin 1 .. Len(o))
    BY <1>1
  <2>2. j \in 1 .. Len(o) \/ (j = 0 /\ j \notin 1 .. Len(o))
    BY <1>1
  <2>. QED BY <1>2, <1>3, <1>5, <2>1, <2>2
<1>7. \A i, j \in 1 .. Len(o) + 1 : At(o, i) = At(o, j) => i = j
  <2>. SUFFICES ASSUME NEW i \in 1 .. Len(o) + 1, NEW j \in 1 .. Len(o) + 1, At(o, i) = At(o, j) PROVE i = j
    OBVIOUS
  <2>1. i \in 1 .. Len(o) \/ (i = Len(o) + 1 /\ i \notin 1 .. Len(o))
    BY <1>1
  <2>2. j \in 1 .. Len(o) \/ (j = Len(o) + 1 /\ j \notin 1 .. Len(o))
    BY <1>1
  <2>. QED BY <1>2, <1>3, <1>5, <2>1, <2>2
<1>. QED BY <1>1, <1>2, <1>3, <1>4, <1>6, <1>7

\* The first k processes of a list.
LEMMA FrontOf ==
  ASSUME NEW o \in Seq(Process), NEW k \in 0 .. Len(o)
  PROVE  /\ SubSeq(o, 1, k) \in Seq(Process) /\ Len(SubSeq(o, 1, k)) = k
         /\ SubSeq(o, 1, 0) = <<>>
         /\ SubSeq(o, 1, Len(o)) = o
         /\ k > 0 => /\ SubSeq(o, 1, k) # <<>>
                     /\ Last(SubSeq(o, 1, k)) = o[k]
                     /\ SubSeq(o, 1, k) = Append(SubSeq(o, 1, k - 1), o[k])
<1>1. Len(o) \in Nat /\ k \in Nat /\ k <= Len(o)
  OBVIOUS
<1>2. SubSeq(o, 1, k) \in Seq(Process) /\ Len(SubSeq(o, 1, k)) = k /\ \A i \in 1 .. k : SubSeq(o, 1, k)[i] = o[i]
  BY <1>1
<1>3. SubSeq(o, 1, 0) = <<>>
  OBVIOUS
<1>4. SubSeq(o, 1, Len(o)) = o
  OBVIOUS
<1>5. ASSUME k > 0 PROVE SubSeq(o, 1, k) = Append(SubSeq(o, 1, k - 1), o[k])
  <2>. DEFINE a == SubSeq(o, 1, k - 1)
              b == SubSeq(o, 1, k)
  <2>1. a \in Seq(Process) /\ Len(a) = k - 1 /\ \A i \in 1 .. k - 1 : a[i] = o[i]
    BY <1>1, <1>5
  <2>2. o[k] \in Process
    BY <1>1, <1>5
  <2>3. b \in Seq(Process) /\ Len(b) = k /\ \A i \in 1 .. k : b[i] = o[i]
    BY <1>2
  <2>. HIDE DEF a, b
  <2>4. /\ Append(a, o[k]) \in Seq(Process) /\ Len(Append(a, o[k])) = k
        /\ \A i \in 1 .. k : Append(a, o[k])[i] = o[i]
    BY <1>1, <1>5, <2>1, <2>2
  <2>5. b = Append(a, o[k])
    BY <2>3, <2>4, SeqEqual
  <2>. QED BY <2>5 DEF a, b
<1>6. ASSUME k > 0 PROVE SubSeq(o, 1, k) # <<>> /\ Last(SubSeq(o, 1, k)) = o[k]
  BY <1>1, <1>2, <1>6 DEF Last
<1>. QED BY <1>2, <1>3, <1>4, <1>5, <1>6

\* One turn of list_for_each: v is what was visited.
Walk(l, v) ==
    LET at == IF v = <<>> THEN Anchor ELSE Last(v)
    IN  IF l.next[at] \in Process THEN Append(v, l.next[at]) ELSE v

\* Along a ring the walk visits the next process, and stops at the head.
LEMMA WalkStep ==
  ASSUME NEW l, NEW o, Chained(l, o), NEW k \in 0 .. Len(o)
  PROVE  Walk(l, SubSeq(o, 1, k)) = SubSeq(o, 1, IF k < Len(o) THEN k + 1 ELSE k)
<1>0. o \in Seq(Process) /\ IsInjective(o) /\ Len(o) \in Nat /\ k \in Nat /\ k <= Len(o)
  BY DEF Chained
<1>. DEFINE v == SubSeq(o, 1, k)
            at == IF v = <<>> THEN Anchor ELSE Last(v)
<1>1. at = At(o, k)
  <2>1. k = 0 => v = <<>> /\ k \notin 1 .. Len(o)
    BY <1>0, FrontOf
  <2>2. k > 0 => v # <<>> /\ Last(v) = o[k] /\ k \in 1 .. Len(o)
    <3>1. k > 0 => v # <<>> /\ Last(v) = o[k]
      BY <1>0, FrontOf, Zenon
    <3>2. k > 0 => k \in 1 .. Len(o)
      BY <1>0
    <3>. QED BY <3>1, <3>2
  <2>. HIDE DEF v
  <2>. QED BY <1>0, <2>1, <2>2 DEF At
<1>2. CASE o = <<>>
  <2>1. k = 0 /\ Len(o) = 0
    BY <1>0, <1>2
  <2>2. l.next[at] \notin Process
    <3>1. at = Anchor
      BY <1>1, <2>1 DEF At
    <3>. QED BY <1>2, <3>1 DEF Chained
  <2>3. Walk(l, v) = v
    BY <2>2 DEF Walk
  <2>. QED BY <2>1, <2>3
<1>3. CASE o # <<>>
  <2>1. l.next[at] = At(o, k + 1)
    BY <1>0, <1>1, <1>3 DEF Chained, Ring
  <2>2. CASE k < Len(o)
    <3>1. k + 1 \in 1 .. Len(o) /\ k + 1 \in 0 .. Len(o) /\ k + 1 > 0 /\ (k + 1) - 1 = k
      BY <1>0, <2>2
    <3>2. l.next[at] = o[k + 1] /\ o[k + 1] \in Process
      BY <1>0, <2>1, <3>1, NodesOf
    <3>3. Walk(l, v) = Append(v, o[k + 1])
      BY <3>2 DEF Walk
    <3>4. SubSeq(o, 1, k + 1) = Append(SubSeq(o, 1, (k + 1) - 1), o[k + 1])
      BY <1>0, <3>1, FrontOf
    <3>. QED BY <2>2, <3>1, <3>3, <3>4
  <2>3. CASE ~(k < Len(o))
    <3>1. k + 1 \notin 1 .. Len(o)
      BY <1>0, <2>3
    <3>2. l.next[at] \notin Process
      BY <1>0, <2>1, <3>1, NodesOf, RegistryAssumption
    <3>3. Walk(l, v) = v
      BY <3>2 DEF Walk
    <3>. QED BY <2>3, <3>3
  <2>. QED BY <2>2, <2>3
<1>. QED BY <1>2, <1>3

\* list_for_each visits exactly what the list holds, in its order.
LEMMA TraversalIs ==
  ASSUME NEW l, NEW o, Chained(l, o)
  PROVE  Traversal(l) = o
<1>. DEFINE N == Cardinality(Process)
            upto(g) == g = [k \in 0 .. N |-> IF k = 0 THEN <<>> ELSE Walk(l, g[k - 1])]
            f == CHOOSE g : upto(g)
            least(k) == IF k <= Len(o) THEN k ELSE Len(o)
            w == [k \in 0 .. N |-> SubSeq(o, 1, least(k))]
<1>1. Traversal(l) = f[N]
  BY DEF Traversal, Walk
<1>2. o \in Seq(Process) /\ IsInjective(o) /\ Len(o) \in Nat
  BY DEF Chained
<1>3. N \in Nat /\ Len(o) <= N
  <2>1. Range(o) \subseteq Process /\ Cardinality(Range(o)) = Len(o)
    BY <1>2, RangeFacts
  <2>. QED BY <2>1, ProcessAssumption, FS_Subset, FS_CardinalityType
<1>. HIDE DEF N
<1>4. \A k \in Nat : /\ least(k) \in 0 .. Len(o)
                     /\ least(0) = 0
                     /\ least(k + 1) = IF least(k) < Len(o) THEN least(k) + 1 ELSE least(k)
  BY <1>2
<1>5. least(N) = Len(o)
  BY <1>2, <1>3
<1>. HIDE DEF least
<1>6. ASSUME NEW k \in Nat PROVE Walk(l, SubSeq(o, 1, least(k))) = SubSeq(o, 1, least(k + 1))
  <2>1. least(k) \in 0 .. Len(o)
    BY <1>4
  <2>2. least(k + 1) = IF least(k) < Len(o) THEN least(k) + 1 ELSE least(k)
    BY <1>4
  <2>3. Walk(l, SubSeq(o, 1, least(k))) = SubSeq(o, 1, IF least(k) < Len(o) THEN least(k) + 1 ELSE least(k))
    BY <2>1, WalkStep, Zenon
  <2>. QED BY <2>2, <2>3
<1>7. SubSeq(o, 1, least(0)) = <<>> /\ SubSeq(o, 1, least(N)) = o
  BY <1>2, <1>4, <1>5, FrontOf
<1>8. upto(w)
  <2>1. ASSUME NEW k \in 0 .. N
        PROVE  SubSeq(o, 1, least(k)) = IF k = 0 THEN <<>> ELSE Walk(l, w[k - 1])
    <3>1. CASE k = 0
      BY <1>7, <3>1
    <3>2. CASE k # 0
      <4>1. k - 1 \in Nat /\ k - 1 \in 0 .. N /\ (k - 1) + 1 = k
        BY <1>3, <3>2
      <4>2. w[k - 1] = SubSeq(o, 1, least(k - 1))
        BY <4>1
      <4>3. Walk(l, SubSeq(o, 1, least(k - 1))) = SubSeq(o, 1, least(k))
        BY <1>6, <4>1
      <4>. QED BY <3>2, <4>2, <4>3
    <3>. QED BY <3>1, <3>2
  <2>. QED BY <2>1
<1>9. upto(f)
  <2>. HIDE DEF upto, w
  <2>. QED BY <1>8, Zenon
<1>. HIDE DEF f, w
<1>10. \A k \in 0 .. N : f[k] = IF k = 0 THEN <<>> ELSE Walk(l, f[k - 1])
  BY <1>9
<1>. DEFINE T == {k \in Nat : k \in 0 .. N => f[k] = SubSeq(o, 1, least(k))}
<1>11. 0 \in T
  BY <1>3, <1>7, <1>10
<1>12. ASSUME NEW k \in Nat, k \in T PROVE k + 1 \in T
  <2>. SUFFICES ASSUME k + 1 \in 0 .. N PROVE f[k + 1] = SubSeq(o, 1, least(k + 1))
    OBVIOUS
  <2>1. k \in 0 .. N /\ (k + 1) - 1 = k /\ k + 1 # 0
    BY <1>3
  <2>2. f[k + 1] = Walk(l, f[k])
    BY <1>10, <2>1
  <2>3. f[k] = SubSeq(o, 1, least(k))
    BY <1>12, <2>1
  <2>. QED BY <1>6, <2>2, <2>3
<1>13. Nat \subseteq T
  <2>. HIDE DEF T
  <2>. QED BY <1>11, <1>12, SetInduction
<1>14. N \in T /\ N \in 0 .. N
  BY <1>3, <1>13
<1>. QED BY <1>1, <1>7, <1>14

\* The places of the others when one process is taken out.
LEMMA RemovedAt ==
  ASSUME NEW o \in Seq(Process), IsInjective(o), NEW k \in 1 .. Len(o)
  PROVE  LET q == RemoveFirst(o, o[k])
         IN  /\ q \in Seq(Process) /\ IsInjective(q) /\ Len(q) = Len(o) - 1
             /\ Range(q) = Range(o) \ {o[k]}
             /\ \A i \in 0 .. Len(o) : At(q, i) = At(o, IF i < k THEN i ELSE i + 1)
<1>. DEFINE q == RemoveFirst(o, o[k])
<1>0. Len(o) \in Nat /\ DOMAIN o = 1 .. Len(o) /\ o[k] \in Range(o)
  BY DEF Range
<1>1. /\ q \in Seq(Process) /\ IsInjective(q) /\ Len(q) = Len(o) - 1
      /\ Range(q) = Range(o) \ {o[k]}
  BY <1>0, RemoveFirstPart
<1>2. \E j \in 1 .. Len(o) :
        o[j] = o[k] /\ \A m \in 1 .. Len(o) - 1 : q[m] = IF m < j THEN o[m] ELSE o[m + 1]
  <2>. DEFINE e == o[k]
  <2>1. o \in Seq(Process) /\ ~ \A m \in 1 .. Len(o) : o[m] # e
    OBVIOUS
  <2>. HIDE DEF e
  <2>2. \E j \in 1 .. Len(o) :
          /\ o[j] = e
          /\ \A m \in 1 .. Len(o) - 1 :
               RemoveFirst(o, e)[m] = IF m < j THEN o[m] ELSE o[m + 1]
    BY ONLY <2>1, RemoveFirstFacts
  <2>. QED BY <2>2, Zenon DEF e
<1>3. \A m \in 1 .. Len(o) - 1 : q[m] = IF m < k THEN o[m] ELSE o[m + 1]
  BY <1>0, <1>2 DEF IsInjective
<1>. HIDE DEF q
<1>4. ASSUME NEW i \in 0 .. Len(o) PROVE At(q, i) = At(o, IF i < k THEN i ELSE i + 1)
  <2>1. CASE i \in 1 .. Len(o) - 1
    <3>1. i \in 1 .. Len(q) /\ i \in 1 .. Len(o) /\ i + 1 \in 1 .. Len(o)
      BY <1>0, <1>1, <2>1
    <3>. QED BY <1>3, <2>1, <3>1 DEF At
  <2>2. CASE i \notin 1 .. Len(o) - 1
    <3>1. i \notin 1 .. Len(q) /\ (i < k => i \notin 1 .. Len(o)) /\ (~(i < k) => i + 1 \notin 1 .. Len(o))
      BY <1>0, <1>1, <2>2
    <3>. QED BY <3>1 DEF At
  <2>. QED BY <2>1, <2>2
<1>. QED BY <1>1, <1>4 DEF q

\* The places of the others when one process is put in.
LEMMA InsertedAt ==
  ASSUME NEW o \in Seq(Process), IsInjective(o), NEW n \in Process, n \notin Range(o), NEW k \in 1 .. Len(o) + 1
  PROVE  LET q == InsertAt(o, k, n)
         IN  /\ q \in Seq(Process) /\ IsInjective(q) /\ Len(q) = Len(o) + 1
             /\ Range(q) = Range(o) \cup {n}
             /\ \A i \in 0 .. Len(o) + 2 :
                  At(q, i) = IF i < k THEN At(o, i) ELSE IF i = k THEN n ELSE At(o, i - 1)
<1>. DEFINE q == InsertAt(o, k, n)
<1>0. /\ Len(o) \in Nat /\ o \in Seq(Process) /\ n \in Process /\ k \in 1 .. Len(o) + 1
      /\ IsInjective(o) /\ n \notin Range(o)
  OBVIOUS
<1>1. /\ q \in Seq(Process) /\ IsInjective(q) /\ Len(q) = Len(o) + 1
      /\ Range(q) = Range(o) \cup {n}
  BY ONLY <1>0, InsertAtPart DEF q
<1>2. \A m \in 1 .. Len(o) + 1 : q[m] = IF m < k THEN o[m] ELSE IF m = k THEN n ELSE o[m - 1]
  <2>1. \A m \in 1 .. Len(o) + 1 :
          InsertAt(o, k, n)[m] = IF m < k THEN o[m] ELSE IF m = k THEN n ELSE o[m - 1]
    BY ONLY <1>0, InsertAtFacts
  <2>. QED BY <2>1
<1>. HIDE DEF q
<1>3. ASSUME NEW i \in 0 .. Len(o) + 2
      PROVE  At(q, i) = IF i < k THEN At(o, i) ELSE IF i = k THEN n ELSE At(o, i - 1)
  <2>1. CASE i \in 1 .. Len(o) + 1
    <3>1. /\ i \in 1 .. Len(q) /\ (i < k => i \in 1 .. Len(o))
          /\ (~(i < k) /\ i # k => i - 1 \in 1 .. Len(o))
      BY <1>0, <1>1, <2>1
    <3>. QED BY <1>2, <2>1, <3>1 DEF At
  <2>2. CASE i \notin 1 .. Len(o) + 1
    <3>1. /\ i \notin 1 .. Len(q) /\ i # k /\ (i < k => i \notin 1 .. Len(o))
          /\ (~(i < k) => i - 1 \notin 1 .. Len(o))
      BY <1>0, <1>1, <2>2
    <3>. QED BY <3>1 DEF At
  <2>. QED BY <2>1, <2>2
<1>. QED BY <1>1, <1>3 DEF q

\* del_periodic_task takes a process off the list: no link is followed that is not
\* one, the counter follows, and the ring closes.
LEMMA Unlinked ==
  ASSUME NEW l, NEW o, Chained(l, o), NEW k \in 1 .. Len(o), Range(o) \subseteq alive
  PROVE  Chained(del_periodic_task(l, o[k]), RemoveFirst(o, o[k]))
<1>. DEFINE n == o[k]
            q == RemoveFirst(o, n)
            P == At(o, k - 1)
            X == At(o, k + 1)
            nx == [l.next EXCEPT ![P] = X, ![n] = Poison]
            pv == [l.prev EXCEPT ![X] = P, ![n] = Poison]
            r == [next |-> nx, prev |-> pv, size |-> l.size - 1, fault |-> FALSE]
<1>0. /\ l \in ListType /\ o \in Seq(Process) /\ IsInjective(o) /\ l.size = Len(o) /\ l.fault = FALSE
      /\ Len(o) \in Nat /\ o # <<>> /\ Ring(l, o) /\ l.size > 0
  BY DEF Chained, ListType
<1>1. n = At(o, k) /\ n \in Process /\ n # Anchor /\ n \in Node /\ P \in Node /\ X \in Node /\ n # P /\ n # X
  <2>1. k \in 0 .. Len(o) /\ k - 1 \in 0 .. Len(o) /\ k + 1 \in 1 .. Len(o) + 1 /\ k \in 1 .. Len(o) + 1
        /\ k - 1 # k /\ k + 1 # k
    BY <1>0
  <2>2. n = At(o, k) /\ n \in Process /\ n # Anchor
    BY <1>0, NodesOf
  <2>3. P \in Node /\ X \in Node
    BY <1>0, NodesOf
  <2>4. n # P
    BY <1>0, <2>1, <2>2, NodesOf
  <2>5. n # X
    BY <1>0, <2>1, <2>2, NodesOf
  <2>. QED BY <2>2, <2>3, <2>4, <2>5 DEF Node
<1>2. l.prev[n] = P /\ l.next[n] = X
  <2>1. k \in 0 .. Len(o) /\ k - 1 \in 0 .. Len(o) /\ (k - 1) + 1 = k
    BY <1>0
  <2>2. l.next[At(o, k)] = At(o, k + 1) /\ l.prev[At(o, (k - 1) + 1)] = At(o, k - 1)
    BY <1>0, <2>1 DEF Ring
  <2>. QED BY <1>1, <2>1, <2>2
<1>3. Valid(X) /\ Valid(P)
  <2>1. \A i : At(o, i) \in alive \cup {Anchor}
    BY <1>0, RangeFacts DEF At
  <2>. QED BY <2>1 DEF Valid
<1>. HIDE DEF P, X
<1>4. del_periodic_task(l, n) = r
  BY <1>0, <1>2, <1>3 DEF del_periodic_task, Unlink, ListType
<1>5. r \in ListType
  BY <1>0, <1>1 DEF ListType, Link
<1>6. /\ q \in Seq(Process) /\ IsInjective(q) /\ Len(q) = Len(o) - 1
      /\ \A i \in 0 .. Len(o) : At(q, i) = At(o, IF i < k THEN i ELSE i + 1)
  BY <1>0, RemovedAt
<1>. HIDE DEF n, q
<1>7. ASSUME NEW i \in 0 .. Len(o) - 1
      PROVE  nx[At(q, i)] = At(q, i + 1)
  <2>. DEFINE j == IF i < k THEN i ELSE i + 1
  <2>1. /\ j \in 0 .. Len(o) /\ i \in 0 .. Len(o) /\ i + 1 \in 0 .. Len(o) /\ k \in 0 .. Len(o)
        /\ k - 1 \in 0 .. Len(o) /\ j # k /\ (i = k - 1 <=> j = k - 1)
    BY <1>0
  <2>2. At(q, i) = At(o, j) /\ At(q, i + 1) = At(o, IF i + 1 < k THEN i + 1 ELSE (i + 1) + 1)
    BY <1>6, <2>1, Zenon
  <2>3. At(o, j) # n /\ (At(o, j) = P => j = k - 1) /\ At(o, j) \in Node /\ l.next[At(o, j)] = At(o, j + 1)
    BY <1>0, <1>1, <2>1, NodesOf DEF P, Ring
  <2>4. nx[At(o, j)] = IF At(o, j) = P THEN X ELSE l.next[At(o, j)]
    BY <1>0, <1>1, <2>3 DEF ListType
  <2>. HIDE DEF nx
  <2>5. CASE i = k - 1
    <3>1. j = k - 1 /\ At(o, j) = P /\ ~(i + 1 < k) /\ (i + 1) + 1 = k + 1
      BY <1>0, <2>1, <2>5 DEF P
    <3>. QED BY <2>2, <2>4, <3>1 DEF X
  <2>6. CASE i # k - 1
    <3>1. At(o, j) # P
      BY <2>1, <2>3, <2>6
    <3>2. j + 1 = IF i + 1 < k THEN i + 1 ELSE (i + 1) + 1
      BY <1>0, <2>6
    <3>. QED BY <2>2, <2>3, <2>4, <3>1, <3>2
  <2>. QED BY <2>5, <2>6
<1>8. ASSUME NEW i \in 0 .. Len(o) - 1
      PROVE  pv[At(q, i + 1)] = At(q, i)
  <2>. DEFINE j == IF i + 1 < k THEN i + 1 ELSE (i + 1) + 1
  <2>1. /\ j \in 1 .. Len(o) + 1 /\ i \in 0 .. Len(o) /\ i + 1 \in 0 .. Len(o) /\ k \in 1 .. Len(o) + 1
        /\ k + 1 \in 1 .. Len(o) + 1 /\ j # k /\ (i = k - 1 <=> j = k + 1)
        /\ j - 1 \in 0 .. Len(o) /\ (j - 1) + 1 = j
    BY <1>0
  <2>2. At(q, i + 1) = At(o, j) /\ At(q, i) = At(o, IF i < k THEN i ELSE i + 1)
    BY <1>6, <2>1, Zenon
  <2>3. At(o, j) # n /\ (At(o, j) = X => j = k + 1) /\ At(o, j) \in Node
    BY <1>0, <1>1, <2>1, NodesOf DEF X
  <2>4. l.prev[At(o, j)] = At(o, j - 1)
    <3>1. l.prev[At(o, (j - 1) + 1)] = At(o, j - 1)
      BY <1>0, <2>1 DEF Ring
    <3>. QED BY <2>1, <3>1
  <2>5. pv[At(o, j)] = IF At(o, j) = X THEN P ELSE l.prev[At(o, j)]
    BY <1>0, <1>1, <2>3 DEF ListType
  <2>. HIDE DEF pv
  <2>6. CASE i = k - 1
    <3>1. j = k + 1 /\ At(o, j) = X /\ i < k
      BY <1>0, <2>1, <2>6 DEF X
    <3>. QED BY <2>2, <2>5, <2>6, <3>1 DEF P
  <2>7. CASE i # k - 1
    <3>1. At(o, j) # X
      BY <2>1, <2>3, <2>7
    <3>2. j - 1 = IF i < k THEN i ELSE i + 1
      BY <1>0, <2>7
    <3>. QED BY <2>2, <2>4, <2>5, <3>1, <3>2
  <2>. QED BY <2>6, <2>7
<1>9. Ring(r, q)
  <2>1. Len(q) = Len(o) - 1 /\ r.next = nx /\ r.prev = pv
    BY <1>6
  <2>. HIDE DEF nx, pv, r
  <2>. QED BY <1>7, <1>8, <2>1 DEF Ring
<1>10. q = <<>> => r.next[Anchor] \notin Process
  <2>. SUFFICES ASSUME q = <<>> PROVE r.next[Anchor] \notin Process
    OBVIOUS
  <2>1. \A i : At(q, i) = Anchor
    BY DEF At
  <2>2. 0 \in 0 .. Len(q)
    OBVIOUS
  <2>3. r.next[At(q, 0)] = At(q, 0 + 1)
    BY <1>9, <2>2 DEF Ring
  <2>. HIDE DEF r
  <2>. QED BY <2>1, <2>3, RegistryAssumption
<1>11. r.size = Len(q) /\ ~r.fault
  BY <1>0, <1>6
<1>. HIDE DEF r
<1>12. Chained(r, q)
  BY <1>5, <1>6, <1>9, <1>10, <1>11 DEF Chained
<1>. QED BY <1>4, <1>12 DEF n, q

\* Where add_periodic_task puts n: before the first process with a longer period.
Place(o, n, period) == First(Len(o), {i \in 1 .. Len(o) : period[o[i]] > period[n]})

\* list_add_tail before a node of the ring, or into an initialised empty list.
LEMMA LinkedBefore ==
  ASSUME NEW m \in ListType, NEW o \in Seq(Process), IsInjective(o), m.size = Len(o), ~m.fault, Ring(m, o),
         NEW n \in Process, n \notin Range(o), NEW j \in 1 .. Len(o) + 1
  PROVE  Chained(LinkBefore([m EXCEPT !.size = @ + 1], n, At(o, j)), InsertAt(o, j, n))
<1>. DEFINE q == InsertAt(o, j, n)
            P == At(o, j - 1)
            N == At(o, j)
            nx == [m.next EXCEPT ![n] = N, ![P] = n]
            pv == [m.prev EXCEPT ![n] = P, ![N] = n]
            r == LinkBefore([m EXCEPT !.size = @ + 1], n, N)
<1>0. Len(o) \in Nat /\ m.fault = FALSE
  BY DEF ListType
<1>1. /\ q \in Seq(Process) /\ IsInjective(q) /\ Len(q) = Len(o) + 1
      /\ \A i \in 0 .. Len(o) + 2 :
           At(q, i) = IF i < j THEN At(o, i) ELSE IF i = j THEN n ELSE At(o, i - 1)
  BY InsertedAt
<1>2. n \in Node /\ P \in Node /\ N \in Node /\ \A i : At(o, i) # n /\ At(o, i) \in Node
  <2>1. \A i : At(o, i) # n
    BY RangeFacts, RegistryAssumption DEF At
  <2>. QED BY <2>1, NodesOf DEF Node
<1>3. m.prev[N] = P
  <2>1. j - 1 \in 0 .. Len(o) /\ (j - 1) + 1 = j
    BY <1>0
  <2>2. m.prev[At(o, (j - 1) + 1)] = At(o, j - 1)
    BY <2>1 DEF Ring
  <2>. QED BY <2>1, <2>2
<1>. HIDE DEF P, N
<1>4. nx \in [Node -> Link] /\ pv \in [Node -> Link]
  BY <1>2 DEF ListType, Link, Node
<1>5. /\ r.next = nx /\ r.prev = pv /\ r.size = m.size + 1 /\ r.fault = FALSE
      /\ r \in ListType
  <2>. DEFINE c == [m EXCEPT !.size = @ + 1]
  <2>1. /\ c.next = m.next /\ c.prev = m.prev /\ c.size = m.size + 1 /\ c.fault = FALSE
        /\ c \in ListType
    BY <1>0 DEF ListType
  <2>. HIDE DEF c
  <2>2. /\ r.next = [c.next EXCEPT ![n] = N, ![c.prev[N]] = n]
        /\ r.prev = [c.prev EXCEPT ![n] = c.prev[N], ![N] = n]
        /\ r.size = c.size /\ r.fault = c.fault
        /\ r = [c EXCEPT !.next = r.next, !.prev = r.prev]
    BY <2>1 DEF LinkBefore, ListType, c
  <2>3. r.next = nx /\ r.prev = pv
    BY <1>3, <2>1, <2>2
  <2>. HIDE DEF r
  <2>4. r \in ListType
    BY <1>4, <2>1, <2>2, <2>3 DEF ListType
  <2>. QED BY <2>1, <2>2, <2>3, <2>4
<1>. HIDE DEF r
<1>. HIDE DEF q
<1>6. \A x \in Node : nx[x] = IF x = P THEN n ELSE IF x = n THEN N ELSE m.next[x]
  BY <1>2 DEF ListType
<1>7. \A x \in Node : pv[x] = IF x = N THEN n ELSE IF x = n THEN P ELSE m.prev[x]
  BY <1>2 DEF ListType
<1>. HIDE DEF nx, pv
<1>8. /\ \A i \in 0 .. Len(o) : i # j - 1 => At(o, i) # P
      /\ \A i \in 1 .. Len(o) + 1 : i # j => At(o, i) # N
      /\ P # n /\ N # n
  <2>1. j - 1 \in 0 .. Len(o)
    BY <1>0
  <2>. QED BY <1>2, <2>1, NodesOf DEF P, N
<1>9. \A i \in 0 .. Len(o) : m.next[At(o, i)] = At(o, i + 1) /\ m.prev[At(o, i + 1)] = At(o, i)
  BY DEF Ring
<1>10. ASSUME NEW i \in 0 .. Len(o) + 1 PROVE nx[At(q, i)] = At(q, i + 1)
  <2>0. i \in 0 .. Len(o) + 2 /\ i + 1 \in 0 .. Len(o) + 2
    BY <1>0
  <2>1. CASE i < j - 1
    <3>1. i \in 0 .. Len(o) /\ i # j - 1 /\ i < j /\ i + 1 < j
      BY <1>0, <2>1
    <3>2. At(q, i) = At(o, i) /\ At(q, i + 1) = At(o, i + 1)
      BY <1>1, <2>0, <3>1
    <3>3. nx[At(o, i)] = m.next[At(o, i)]
      BY <1>2, <1>6, <1>8, <3>1
    <3>. QED BY <1>9, <3>1, <3>2, <3>3
  <2>2. CASE i = j - 1
    <3>1. i < j /\ i + 1 = j
      BY <1>0, <2>2
    <3>2. At(q, i) = P /\ At(q, i + 1) = n
      BY <1>1, <2>0, <2>2, <3>1 DEF P
    <3>. QED BY <1>2, <1>6, <3>2
  <2>3. CASE i = j
    <3>1. ~(i < j) /\ ~(i + 1 < j) /\ i + 1 # j /\ (i + 1) - 1 = j
      BY <1>0, <2>3
    <3>2. At(q, i) = n /\ At(q, i + 1) = N
      BY <1>1, <2>0, <2>3, <3>1 DEF N
    <3>. QED BY <1>2, <1>6, <1>8, <3>2
  <2>4. CASE i > j
    <3>1. /\ ~(i < j) /\ i # j /\ ~(i + 1 < j) /\ i + 1 # j /\ (i + 1) - 1 = i
          /\ i - 1 \in 0 .. Len(o) /\ i - 1 # j - 1 /\ (i - 1) + 1 = i
      BY <1>0, <2>4
    <3>2. At(q, i) = At(o, i - 1) /\ At(q, i + 1) = At(o, i)
      BY <1>1, <2>0, <3>1
    <3>3. nx[At(o, i - 1)] = m.next[At(o, i - 1)]
      BY <1>2, <1>6, <1>8, <3>1
    <3>4. m.next[At(o, i - 1)] = At(o, (i - 1) + 1)
      BY <1>9, <3>1
    <3>. QED BY <3>1, <3>2, <3>3, <3>4
  <2>. QED BY <1>0, <2>1, <2>2, <2>3, <2>4
<1>11. ASSUME NEW i \in 0 .. Len(o) + 1 PROVE pv[At(q, i + 1)] = At(q, i)
  <2>0. i \in 0 .. Len(o) + 2 /\ i + 1 \in 0 .. Len(o) + 2
    BY <1>0
  <2>1. CASE i < j - 1
    <3>1. i \in 0 .. Len(o) /\ i + 1 \in 1 .. Len(o) + 1 /\ i + 1 # j /\ i < j /\ i + 1 < j
      BY <1>0, <2>1
    <3>2. At(q, i) = At(o, i) /\ At(q, i + 1) = At(o, i + 1)
      BY <1>1, <2>0, <3>1
    <3>3. pv[At(o, i + 1)] = m.prev[At(o, i + 1)]
      BY <1>2, <1>7, <1>8, <3>1
    <3>. QED BY <1>9, <3>1, <3>2, <3>3
  <2>2. CASE i = j - 1
    <3>1. i < j /\ i + 1 = j
      BY <1>0, <2>2
    <3>2. At(q, i) = P /\ At(q, i + 1) = n
      BY <1>1, <2>0, <2>2, <3>1 DEF P
    <3>. QED BY <1>2, <1>7, <1>8, <3>2
  <2>3. CASE i = j
    <3>1. ~(i < j) /\ ~(i + 1 < j) /\ i + 1 # j /\ (i + 1) - 1 = j
      BY <1>0, <2>3
    <3>2. At(q, i) = n /\ At(q, i + 1) = N
      BY <1>1, <2>0, <2>3, <3>1 DEF N
    <3>. QED BY <1>2, <1>7, <3>2
  <2>4. CASE i > j
    <3>1. /\ ~(i < j) /\ i # j /\ ~(i + 1 < j) /\ i + 1 # j /\ (i + 1) - 1 = i
          /\ i - 1 \in 0 .. Len(o) /\ i \in 1 .. Len(o) + 1 /\ (i - 1) + 1 = i
      BY <1>0, <2>4
    <3>2. At(q, i) = At(o, i - 1) /\ At(q, i + 1) = At(o, i)
      BY <1>1, <2>0, <3>1
    <3>3. pv[At(o, i)] = m.prev[At(o, i)]
      BY <1>2, <1>7, <1>8, <3>1
    <3>4. m.prev[At(o, (i - 1) + 1)] = At(o, i - 1)
      BY <1>9, <3>1
    <3>. QED BY <3>1, <3>2, <3>3, <3>4
  <2>. QED BY <1>0, <2>1, <2>2, <2>3, <2>4
<1>12. Ring(r, q)
  BY <1>1, <1>5, <1>10, <1>11 DEF Ring
<1>13. r.size = Len(q) /\ ~r.fault /\ q # <<>>
  BY <1>0, <1>1, <1>5
<1>14. Chained(r, q)
  BY <1>1, <1>5, <1>12, <1>13 DEF Chained
<1>. QED BY <1>14 DEF q, r, N

\* Before that place no period is longer, at it one is.
LEMMA PlaceFacts ==
  ASSUME NEW o \in Seq(Process), NEW n, NEW period
  PROVE  /\ Place(o, n, period) \in 1 .. Len(o) + 1
         /\ \A k \in 1 .. Len(o) : k < Place(o, n, period) => ~(period[o[k]] > period[n])
         /\ Place(o, n, period) <= Len(o) => period[o[Place(o, n, period)]] > period[n]
<1>. DEFINE A == {i \in 1 .. Len(o) : period[o[i]] > period[n]}
<1>1. Len(o) \in Nat /\ A \in SUBSET (1 .. Len(o))
  OBVIOUS
<1>2. \A k \in 1 .. Len(o) : k \in A <=> period[o[k]] > period[n]
  OBVIOUS
<1>. HIDE DEF A
<1>3. /\ First(Len(o), A) \in 1 .. Len(o) + 1
      /\ \A k \in 1 .. Len(o) : k < First(Len(o), A) => k \notin A
      /\ First(Len(o), A) <= Len(o) => First(Len(o), A) \in A
  BY <1>1, FirstIn
<1>4. Place(o, n, period) = First(Len(o), A)
  BY DEF Place, A
<1>5. \A k \in 1 .. Len(o) + 1 : k <= Len(o) => k \in 1 .. Len(o)
  BY <1>1
<1>. QED BY <1>2, <1>3, <1>4, <1>5

\* add_periodic_task puts a process that is not on the list at its place.
LEMMA Linked ==
  ASSUME NEW l, NEW o, Chained(l, o), NEW n \in Process, n \notin Range(o), NEW period
  PROVE  Chained(add_periodic_task(l, n, period), InsertAt(o, Place(o, n, period), n))
<1>. DEFINE empty == [l EXCEPT !.next[Anchor] = Anchor, !.prev[Anchor] = Anchor]
            m == IF l.size = 0 THEN empty ELSE l
            at == SelectInSeq(o, LAMBDA t : period[t] > period[n])
            j == Place(o, n, period)
<1>0. /\ l \in ListType /\ o \in Seq(Process) /\ IsInjective(o) /\ l.size = Len(o) /\ l.fault = FALSE
      /\ Len(o) \in Nat
  BY DEF Chained, ListType
<1>1. j \in 1 .. Len(o) + 1
  BY <1>0, PlaceFacts
<1>2. /\ m \in ListType /\ m.size = Len(o) /\ m.fault = FALSE
      /\ m.size = 0 => m.next[Anchor] = Anchor /\ m.prev[Anchor] = Anchor
  BY <1>0 DEF ListType, Node, Link
<1>3. Ring(m, o)
  <2>1. CASE l.size = 0
    <3>1. Len(o) = 0 /\ \A i : At(o, i) = Anchor
      BY <1>0, <2>1 DEF At
    <3>2. m.size = 0
      BY <1>2, <3>1
    <3>. HIDE DEF m
    <3>. QED BY <1>2, <3>1, <3>2 DEF Ring
  <2>2. CASE l.size # 0
    <3>1. m = l /\ o # <<>>
      BY <1>0, <2>2
    <3>. QED BY <3>1 DEF Chained
  <2>. QED BY <2>1, <2>2
<1>4. Chained(m, o)
  <2>1. o = <<>> => m.next[Anchor] \notin Process
    BY <1>2, RegistryAssumption
  <2>. HIDE DEF m
  <2>. QED BY <1>0, <1>2, <1>3, <2>1 DEF Chained
<1>5. Traversal(m) = o
  BY <1>4, TraversalIs
<1>6. (IF at = 0 THEN Anchor ELSE o[at]) = At(o, j)
  <2>. DEFINE A == {i \in 1 .. Len(o) : period[o[i]] > period[n]}
  <2>1. at = IF A # {} THEN Min(A) ELSE 0
    BY DEF SelectInSeq
  <2>2. j = IF at = 0 THEN Len(o) + 1 ELSE at
    BY <2>1 DEF Place, First
  <2>. HIDE DEF at, j
  <2>3. CASE at = 0
    <3>1. j = Len(o) + 1 /\ j \notin 1 .. Len(o)
      BY <1>0, <2>2, <2>3
    <3>. QED BY <2>3, <3>1 DEF At
  <2>4. CASE at # 0
    <3>1. j = at /\ A # {} /\ at = Min(A)
      BY <2>1, <2>2, <2>4
    <3>2. at \in A
      <4>1. A \in SUBSET Nat
        OBVIOUS
      <4>. HIDE DEF A
      <4>2. \E x \in A : \A y \in A : x <= y
        BY <3>1, <4>1, NatLeast
      <4>. QED BY <3>1, <4>2 DEF Min
    <3>. QED BY <2>4, <3>1, <3>2 DEF At
  <2>. QED BY <2>3, <2>4
<1>7. add_periodic_task(l, n, period) = LinkBefore([m EXCEPT !.size = @ + 1], n, At(o, j))
  <2>1. add_periodic_task(l, n, period)
          = LET order == Traversal(m)
                k == SelectInSeq(order, LAMBDA t : period[t] > period[n])
            IN  LinkBefore([m EXCEPT !.size = @ + 1], n, IF k = 0 THEN Anchor ELSE order[k])
    BY <1>0 DEF add_periodic_task
  <2>. HIDE DEF m
  <2>. QED BY <1>5, <1>6, <2>1, Zenon
<1>. HIDE DEF m, j
<1>8. Chained(LinkBefore([m EXCEPT !.size = @ + 1], n, At(o, j)), InsertAt(o, j, n))
  BY <1>0, <1>1, <1>2, <1>3, LinkedBefore
<1>. QED BY <1>7, <1>8 DEF j

-----------------------------------------------------------------------------

\* The reservations of the processes of o, in nanoseconds.
Fine(b, d, o) == [i \in DOMAIN o |-> [budget |-> b[o[i]], period |-> d[o[i]]]]

\* The same as check_admission sees them, in microseconds.
Coarse(b, d, o) == [i \in DOMAIN o |-> InUsecs([budget |-> b[o[i]], period |-> d[o[i]]])]

\* Each process of S has a budget of whole microseconds below its period, and a
\* period of a microsecond or more.
Granted(b, d, S) ==
    \A p \in S : /\ b[p] \in Nat /\ d[p] \in Nat
                 /\ b[p] < d[p] /\ d[p] >= NsPerUs /\ b[p] % NsPerUs = 0

\* The types of the variables but the list; only processes that live are flagged.
TypeInv ==
    /\ alive \subseteq Process
    /\ is_budget_set \subseteq alive
    /\ time_period \in [Process -> Periods \cup {Unset}]
    /\ min_budget_time \in [Process -> Nat \cup {Unset}]
    /\ fifo \subseteq Process
    /\ rt_priority \in [Process -> 0 .. Cardinality(Process)]
    /\ prio \in [Process -> MAX_RT_PRIO - 1 - Cardinality(Process) .. DEFAULT_PRIO]

\* The list holds the reserved processes, in the order o: sorted by period, passing
\* the admission test, and with the ranks of this order as priorities.
OrderInv(o) ==
    /\ Chained(list, o)
    /\ Range(o) = Reserved
    /\ Sorted(time_period, o)
    /\ __check_admission(Coarse(min_budget_time, time_period, o))
    /\ \A i \in 1 .. Len(o) : rt_priority[o[i]] = Rank(o, i, time_period)

\* The inductive invariant of DisciplinedSpec.
Inv ==
    /\ TypeInv
    /\ Granted(min_budget_time, time_period, Reserved)
    /\ OrderInv(Traversal(list))

\* Division with remainder.
LEMMA Quotient ==
  ASSUME NEW a \in Nat, NEW n \in Nat \ {0}
  PROVE  LET q == a \div n
         IN  a % n \in Nat /\ q * n \in Nat /\ a = q * n + (a % n)
OBVIOUS

\* What the conversion of a granted reservation to microseconds keeps.
LEMMA InUsecsFacts ==
  ASSUME NEW x \in Nat, NEW y \in Nat, x < y, y >= NsPerUs, x % NsPerUs = 0
  PROVE  LET u == InUsecs([budget |-> x, period |-> y])
         IN  /\ u \in TaskRecord
             /\ x = u.budget * NsPerUs /\ u.period * NsPerUs <= y
             /\ u.budget <= u.period /\ u.period = y \div NsPerUs
<1>. DEFINE n == NsPerUs
            u == InUsecs([budget |-> x, period |-> y])
            bu == x \div n
            pu == y \div n
<1>0. n \in Nat \ {0}
  BY NsPerUsAssumption
<1>1. u = [budget |-> bu, period |-> pu]
  BY DEF InUsecs, convert_to_usecs
<1>2. bu \in Nat /\ pu \in Nat /\ bu <= pu /\ pu >= 1
  BY <1>0, DivMonotone
<1>3. x = bu * n
  <2>1. bu * n \in Nat /\ x = bu * n + (x % n)
    BY <1>0, Quotient
  <2>. HIDE DEF bu
  <2>. QED BY <2>1
<1>4. pu * n <= y
  <2>1. y % n \in Nat /\ pu * n \in Nat /\ y = pu * n + (y % n)
    BY <1>0, Quotient
  <2>. HIDE DEF pu, n
  <2>. QED BY <2>1
<1>5. u \in TaskRecord
  <2>. HIDE DEF bu, pu, u
  <2>. QED BY <1>1, <1>2 DEF TaskRecord
<1>. QED BY <1>1, <1>2, <1>3, <1>4, <1>5

\* The reservations of granted processes are task arrays, the coarse of the fine.
LEMMA TaskArrays ==
  ASSUME NEW b, NEW d, NEW o \in Seq(Process), Granted(b, d, Range(o))
  PROVE  /\ Fine(b, d, o) \in TaskList /\ Coarse(b, d, o) \in TaskList
         /\ Len(Fine(b, d, o)) = Len(o) /\ Len(Coarse(b, d, o)) = Len(o)
         /\ Refines(Fine(b, d, o), Coarse(b, d, o))
         /\ \A i \in 1 .. Len(o) : Coarse(b, d, o)[i].budget <= Coarse(b, d, o)[i].period
         /\ Sorted(d, o) => ByPeriod(Fine(b, d, o)) /\ ByPeriod(Coarse(b, d, o))
<1>. DEFINE f == Fine(b, d, o)
            c == Coarse(b, d, o)
            t(i) == [budget |-> b[o[i]], period |-> d[o[i]]]
<1>1. /\ DOMAIN o = 1 .. Len(o) /\ Len(o) \in Nat
      /\ \A i \in 1 .. Len(o) : o[i] \in Range(o)
  BY RangeFacts
<1>2. ASSUME NEW i \in 1 .. Len(o)
      PROVE  /\ t(i) \in TaskRecord
             /\ InUsecs(t(i)) \in TaskRecord
             /\ t(i).budget = InUsecs(t(i)).budget * NsPerUs
             /\ InUsecs(t(i)).period * NsPerUs <= t(i).period
             /\ InUsecs(t(i)).budget <= InUsecs(t(i)).period
             /\ InUsecs(t(i)).period = d[o[i]] \div NsPerUs /\ t(i).period = d[o[i]]
             /\ d[o[i]] \in Nat
  <2>. DEFINE x == b[o[i]]
              y == d[o[i]]
  <2>1. x \in Nat /\ y \in Nat /\ x < y /\ y >= NsPerUs /\ x % NsPerUs = 0
    BY <1>1 DEF Granted
  <2>. HIDE DEF x, y
  <2>. DEFINE u == InUsecs([budget |-> x, period |-> y])
  <2>2. /\ u \in TaskRecord
        /\ x = u.budget * NsPerUs /\ u.period * NsPerUs <= y
        /\ u.budget <= u.period /\ u.period = y \div NsPerUs
    BY <2>1, InUsecsFacts
  <2>3. [budget |-> x, period |-> y] \in TaskRecord
    BY <2>1 DEF TaskRecord
  <2>. HIDE DEF u
  <2>4. t(i) = [budget |-> x, period |-> y] /\ InUsecs(t(i)) = u
    BY DEF x, y, u
  <2>. HIDE DEF t
  <2>5. t(i).budget = x /\ t(i).period = y
    BY <2>4
  <2>. QED BY <2>1, <2>2, <2>3, <2>4, <2>5 DEF y
<1>3. f = [i \in 1 .. Len(o) |-> t(i)] /\ c = [i \in 1 .. Len(o) |-> InUsecs(t(i))]
  BY <1>1 DEF Fine, Coarse
<1>. HIDE DEF f, c, t
<1>4. f \in TaskList /\ c \in TaskList /\ Len(f) = Len(o) /\ Len(c) = Len(o)
  BY <1>1, <1>2, <1>3 DEF TaskList
<1>5. \A i \in 1 .. Len(o) : f[i] = t(i) /\ c[i] = InUsecs(t(i))
  BY <1>3
<1>6. Refines(f, c)
  BY <1>2, <1>4, <1>5 DEF Refines
<1>7. \A i \in 1 .. Len(o) : c[i].budget <= c[i].period
  BY <1>2, <1>5
<1>8. ASSUME Sorted(d, o) PROVE ByPeriod(f) /\ ByPeriod(c)
  <2>1. \A i \in 1 .. Len(o) : f[i].period = d[o[i]] /\ c[i].period = d[o[i]] \div NsPerUs /\ d[o[i]] \in Nat
    BY <1>2, <1>5
  <2>2. \A i, j \in 1 .. Len(o) : i <= j => d[o[i]] <= d[o[j]]
    BY <1>8 DEF Sorted
  <2>3. \A i, j \in 1 .. Len(o) : i <= j => d[o[i]] \div NsPerUs <= d[o[j]] \div NsPerUs
    BY <2>1, <2>2, NsPerUsAssumption, DivMonotone
  <2>. QED BY <1>4, <2>1, <2>2, <2>3 DEF ByPeriod
<1>. QED BY <1>4, <1>6, <1>7, <1>8 DEF f, c

\* When a process leaves, what remains would pass the test, which is not repeated.
LEMMA StillAdmitted ==
  ASSUME NEW b, NEW d, NEW o \in Seq(Process), IsInjective(o), Granted(b, d, Range(o)), Sorted(d, o),
         __check_admission(Coarse(b, d, o)), NEW t
  PROVE  __check_admission(Coarse(b, d, RemoveFirst(o, t)))
<1>. DEFINE q == RemoveFirst(o, t)
            w == Coarse(b, d, o)
            c == Coarse(b, d, q)
<1>1. /\ q \in Seq(Process) /\ IsInjective(q) /\ Range(q) \subseteq Range(o)
      /\ \E h \in [1 .. Len(q) -> 1 .. Len(o)] :
           Increasing(h, Len(q)) /\ \A k \in 1 .. Len(q) : q[k] = o[h[k]]
  <2>1. o \in Seq(Process) /\ IsInjective(o)
    OBVIOUS
  <2>2. q \in Seq(Process) /\ IsInjective(q) /\ Range(q) = Range(o) \ {t}
    BY <2>1, RemoveFirstPart
  <2>3. \E h \in [1 .. Len(q) -> 1 .. Len(o)] :
           Increasing(h, Len(q)) /\ \A k \in 1 .. Len(q) : q[k] = o[h[k]]
    BY ONLY <2>1, RemoveFirstPart
  <2>. HIDE DEF q
  <2>. QED BY <2>2, <2>3
<1>2. PICK h \in [1 .. Len(q) -> 1 .. Len(o)] :
           Increasing(h, Len(q)) /\ \A k \in 1 .. Len(q) : q[k] = o[h[k]]
  BY <1>1
<1>3. Sorted(d, q) /\ Granted(b, d, Range(q))
  BY <1>1, RemoveFirstSorted DEF Granted
<1>. HIDE DEF q
<1>4. /\ w \in TaskList /\ Len(w) = Len(o) /\ ByPeriod(w)
      /\ c \in TaskList /\ Len(c) = Len(q) /\ ByPeriod(c)
  BY <1>1, <1>3, TaskArrays
<1>5. \A k \in 1 .. Len(c) : c[k] = w[h[k]]
  <2>1. DOMAIN q = 1 .. Len(q) /\ DOMAIN o = 1 .. Len(o)
    BY <1>1
  <2>. QED BY <1>2, <1>4, <2>1 DEF Coarse
<1>6. \A i, j \in 1 .. Len(c) : h[i] = h[j] => i = j
  <2>. SUFFICES ASSUME NEW i \in 1 .. Len(q), NEW j \in 1 .. Len(q), i # j PROVE h[i] # h[j]
    BY <1>4
  <2>1. h[i] \in Int /\ h[j] \in Int /\ (i < j => h[i] < h[j]) /\ (j < i => h[j] < h[i])
    BY <1>2 DEF Increasing
  <2>. QED BY <2>1
<1>. HIDE DEF w, c
<1>7. h \in [1 .. Len(c) -> 1 .. Len(w)] /\ __check_admission(w)
  BY <1>2, <1>4 DEF w
<1>8. __check_admission(c)
  BY <1>4, <1>5, <1>6, <1>7, AdmissionOfPart, Zenon
<1>. QED BY <1>8 DEF c, q

\* A task array has a place for each task.
LEMMA PlaceByPeriod ==
  ASSUME NEW c \in TaskList, ByPeriod(c), NEW new \in TaskRecord
  PROVE  \E j \in 1 .. Len(c) + 1 : InsertAt(c, j, new) \in TaskList /\ ByPeriod(InsertAt(c, j, new))
<1>. DEFINE A == {k \in 1 .. Len(c) : c[k].period > new.period}
            j == First(Len(c), A)
<1>1. /\ Len(c) \in Nat /\ new.period \in Nat
      /\ \A k \in 1 .. Len(c) : c[k].period \in Nat
  BY TaskListFacts DEF TaskRecord
<1>2. A \in SUBSET (1 .. Len(c)) /\ \A k \in 1 .. Len(c) : k \in A <=> c[k].period > new.period
  OBVIOUS
<1>. HIDE DEF A
<1>3. /\ j \in 1 .. Len(c) + 1
      /\ \A k \in 1 .. Len(c) : k < j => k \notin A
      /\ j <= Len(c) => j \in A
  BY <1>1, <1>2, FirstIn
<1>. HIDE DEF j
<1>4. \A k \in 1 .. Len(c) : k < j => c[k].period <= new.period
  BY <1>1, <1>2, <1>3
<1>5. \A k \in 1 .. Len(c) : k >= j => new.period <= c[k].period
  <2>. SUFFICES ASSUME NEW k \in 1 .. Len(c), k >= j PROVE new.period <= c[k].period
    OBVIOUS
  <2>1. j \in 1 .. Len(c) /\ j <= k /\ j \in A
    BY <1>1, <1>3
  <2>2. c[j].period > new.period /\ c[j].period <= c[k].period
    BY <1>2, <2>1 DEF ByPeriod
  <2>. QED BY <1>1, <2>1, <2>2
<1>6. InsertAt(c, j, new) \in TaskList /\ ByPeriod(InsertAt(c, j, new))
  BY <1>3, <1>4, <1>5, InsertByPeriod
<1>. QED BY <1>3, <1>6, Zenon

\* The reservation of t is new or changed, o2 is the list after it, o the list before.
Moved(b, d, o, t, b2, d2, o2) ==
    /\ o \in Seq(Process) /\ IsInjective(o) /\ Granted(b, d, Range(o)) /\ Sorted(d, o)
    /\ \A p \in Process \ {t} : b2[p] = b[p] /\ d2[p] = d[p]
    /\ o2 \in Seq(Process) /\ IsInjective(o2) /\ Granted(b2, d2, Range(o2)) /\ Sorted(d2, o2)
    /\ t \in Range(o2) /\ Range(o2) \subseteq Range(o) \cup {t}

\* What setProcessBudget tests is the new reservation next to the old list, the old
\* reservation of t included; the list it makes would pass too.
LEMMA NowAdmitted ==
  ASSUME NEW b, NEW d, NEW o, NEW t, NEW b2, NEW d2, NEW o2, Moved(b, d, o, t, b2, d2, o2),
         check_admission(Fine(b, d, o), b2[t], d2[t])
  PROVE  __check_admission(Coarse(b2, d2, o2))
<1>. DEFINE new == InUsecs([budget |-> b2[t], period |-> d2[t]])
            c == Coarse(b, d, o)
            c2 == Coarse(b2, d2, o2)
            task(p) == InUsecs([budget |-> b[p], period |-> d[p]])
            task2(p) == InUsecs([budget |-> b2[p], period |-> d2[p]])
<1>1. /\ o \in Seq(Process) /\ IsInjective(o) /\ Granted(b, d, Range(o)) /\ Sorted(d, o)
      /\ \A p \in Process \ {t} : b2[p] = b[p] /\ d2[p] = d[p]
      /\ o2 \in Seq(Process) /\ IsInjective(o2) /\ Granted(b2, d2, Range(o2)) /\ Sorted(d2, o2)
      /\ t \in Range(o2) /\ Range(o2) \subseteq Range(o) \cup {t}
  BY DEF Moved
<1>2. /\ DOMAIN o = 1 .. Len(o) /\ Len(o) \in Nat /\ DOMAIN o2 = 1 .. Len(o2) /\ Len(o2) \in Nat
      /\ \A i \in 1 .. Len(o2) : o2[i] \in Range(o2) /\ o2[i] \in Process
  BY <1>1, RangeFacts
<1>3. new \in TaskRecord /\ new.budget <= new.period
  <2>. DEFINE x == b2[t]
              y == d2[t]
  <2>1. x \in Nat /\ y \in Nat /\ x < y /\ y >= NsPerUs /\ x % NsPerUs = 0
    BY <1>1 DEF Granted
  <2>. HIDE DEF x, y
  <2>2. LET u == InUsecs([budget |-> x, period |-> y]) IN u \in TaskRecord /\ u.budget <= u.period
    BY <2>1, InUsecsFacts
  <2>. QED BY <2>2 DEF x, y
<1>4. /\ c \in TaskList /\ Len(c) = Len(o) /\ ByPeriod(c)
      /\ c2 \in TaskList /\ Len(c2) = Len(o2) /\ ByPeriod(c2)
  BY <1>1, TaskArrays
<1>5. AdmitsTo(c, new)
  <2>1. Len(Fine(b, d, o)) = Len(o)
    BY <1>1, TaskArrays
  <2>2. [i \in 1 .. Len(o) |-> InUsecs(Fine(b, d, o)[i])] = c
    BY <1>2 DEF Fine, Coarse
  <2>. QED BY <2>1, <2>2 DEF check_admission
<1>6. /\ \A k \in 1 .. Len(o) : c[k] = task(o[k])
      /\ \A k \in 1 .. Len(o2) : c2[k] = task2(o2[k])
  BY <1>2 DEF Coarse
<1>7. task2(t) = new /\ \A p \in Process : p # t => task2(p) = task(p)
  BY <1>1
<1>. HIDE DEF c, c2, new, task, task2
<1>8. PICK j \in 1 .. Len(c) + 1 : InsertAt(c, j, new) \in TaskList /\ ByPeriod(InsertAt(c, j, new))
  BY <1>3, <1>4, PlaceByPeriod
<1>. DEFINE w == InsertAt(c, j, new)
<1>9. __check_admission(w)
  BY <1>3, <1>4, <1>5, <1>8, AdmittedMayJoin
<1>10. /\ Len(w) = Len(o) + 1
       /\ \A k \in 1 .. Len(o) + 1 : w[k] = IF k < j THEN c[k] ELSE IF k = j THEN new ELSE c[k - 1]
  BY <1>3, <1>4, <1>8, TaskInsert
<1>. HIDE DEF w
<1>. DEFINE m(k) == CHOOSE x \in 1 .. Len(o) : o[x] = o2[k]
            h == [k \in 1 .. Len(o2) |-> IF o2[k] = t THEN j ELSE IF m(k) < j THEN m(k) ELSE m(k) + 1]
<1>11. \A k \in 1 .. Len(o2) : o2[k] # t => m(k) \in 1 .. Len(o) /\ o[m(k)] = o2[k]
  <2>. SUFFICES ASSUME NEW k \in 1 .. Len(o2), o2[k] # t PROVE m(k) \in 1 .. Len(o) /\ o[m(k)] = o2[k]
    OBVIOUS
  <2>1. o2[k] \in Range(o)
    BY <1>1, <1>2
  <2>2. \E x \in 1 .. Len(o) : o[x] = o2[k]
    BY <1>2, <2>1 DEF Range
  <2>. QED BY <2>2
<1>. HIDE DEF m
<1>12. ASSUME NEW k \in 1 .. Len(o2)
       PROVE  /\ h[k] \in 1 .. Len(o) + 1
              /\ o2[k] = t => h[k] = j
              /\ o2[k] # t => h[k] # j /\ h[k] = IF m(k) < j THEN m(k) ELSE m(k) + 1
              /\ c2[k] = w[h[k]]
  <2>0. j \in 1 .. Len(o) + 1
    BY <1>4, <1>8
  <2>1. CASE o2[k] = t
    <3>1. h[k] = j
      BY <2>1
    <3>2. c2[k] = new /\ w[j] = new
      BY <1>2, <1>6, <1>7, <1>10, <2>0, <2>1
    <3>. QED BY <2>0, <2>1, <3>1, <3>2
  <2>2. CASE o2[k] # t
    <3>1. m(k) \in 1 .. Len(o) /\ o[m(k)] = o2[k]
      BY <1>11, <2>2
    <3>2. h[k] = IF m(k) < j THEN m(k) ELSE m(k) + 1
      BY <2>2
    <3>. HIDE DEF h
    <3>3. h[k] \in 1 .. Len(o) + 1 /\ h[k] # j
      BY <1>2, <2>0, <3>1, <3>2
    <3>4. w[h[k]] = c[m(k)]
      <4>1. CASE m(k) < j
        <5>1. h[k] = m(k) /\ h[k] < j
          BY <3>2, <4>1
        <5>. QED BY <1>10, <3>3, <5>1
      <4>2. CASE ~(m(k) < j)
        <5>1. ~(h[k] < j) /\ h[k] - 1 = m(k)
          BY <1>2, <2>0, <3>1, <3>2, <4>2
        <5>. QED BY <1>10, <3>3, <5>1
      <4>. QED BY <4>1, <4>2
    <3>5. c[m(k)] = task(o2[k]) /\ c2[k] = task2(o2[k])
      BY <1>6, <3>1
    <3>6. task2(o2[k]) = task(o2[k])
      BY <1>2, <1>7, <2>2
    <3>. QED BY <2>2, <3>2, <3>3, <3>4, <3>5, <3>6
  <2>. QED BY <2>1, <2>2
<1>13. \A i, k \in 1 .. Len(o2) : h[i] = h[k] => i = k
  <2>. SUFFICES ASSUME NEW i \in 1 .. Len(o2), NEW k \in 1 .. Len(o2), h[i] = h[k] PROVE i = k
    OBVIOUS
  <2>. HIDE DEF h
  <2>0. \A x, y \in 1 .. Len(o2) : o2[x] = o2[y] => x = y
    BY <1>1, <1>2 DEF IsInjective
  <2>1. CASE o2[i] = t \/ o2[k] = t
    <3>1. o2[i] = t /\ o2[k] = t
      BY <1>12, <2>1
    <3>. QED BY <2>0, <3>1
  <2>2. CASE o2[i] # t /\ o2[k] # t
    <3>1. m(i) \in 1 .. Len(o) /\ m(k) \in 1 .. Len(o) /\ o[m(i)] = o2[i] /\ o[m(k)] = o2[k]
      BY <1>11, <2>2
    <3>2. /\ h[i] = IF m(i) < j THEN m(i) ELSE m(i) + 1
          /\ h[k] = IF m(k) < j THEN m(k) ELSE m(k) + 1
      BY <1>12, <2>2
    <3>3. j \in Int
      BY <1>4, <1>8
    <3>4. \A x, y, z \in Int : (IF x < z THEN x ELSE x + 1) = (IF y < z THEN y ELSE y + 1) => x = y
      OBVIOUS
    <3>5. m(i) \in Int /\ m(k) \in Int
      BY <3>1
    <3>6. m(i) = m(k)
      BY <3>2, <3>3, <3>4, <3>5, Zenon
    <3>. QED BY <2>0, <3>1, <3>6
  <2>. QED BY <2>1, <2>2
<1>14. h \in [1 .. Len(c2) -> 1 .. Len(w)]
  BY <1>4, <1>10, <1>12
<1>. HIDE DEF h
<1>15. __check_admission(c2)
  <2>1. w \in TaskList /\ ByPeriod(w)
    BY <1>8 DEF w
  <2>2. (\A i, k \in 1 .. Len(c2) : h[i] = h[k] => i = k) /\ \A i \in 1 .. Len(c2) : c2[i] = w[h[i]]
    BY <1>4, <1>12, <1>13
  <2>. QED BY <1>4, <1>9, <1>14, <2>1, <2>2, AdmissionOfPart, Zenon
<1>. QED BY <1>15 DEF c2

-----------------------------------------------------------------------------

\* A list is no longer than there are processes.
LEMMA ListLength ==
  ASSUME NEW o \in Seq(Process), IsInjective(o)
  PROVE  /\ Len(o) \in Nat /\ DOMAIN o = 1 .. Len(o)
         /\ Cardinality(Process) \in Nat /\ Len(o) <= Cardinality(Process)
<1>1. /\ Len(o) \in Nat /\ DOMAIN o = 1 .. Len(o)
      /\ Cardinality(Range(o)) = Len(o) /\ Range(o) \subseteq Process
  BY RangeFacts
<1>2. Len(o) <= Cardinality(Process) /\ Cardinality(Process) \in Nat
  BY <1>1, ProcessAssumption, FS_Subset, FS_CardinalityType
<1>. QED BY <1>1, <1>2

\* The ranks of a sorted list of granted reservations are defined.
LEMMA RankedByPeriod ==
  ASSUME NEW b, NEW d, NEW o \in Seq(Process), Granted(b, d, Range(o)), Sorted(d, o)
  PROVE  RankedList(o, Len(o), d)
<1>1. Len(o) \in Nat /\ \A i \in 1 .. Len(o) : o[i] \in Range(o)
  BY RangeFacts
<1>2. \A p \in Range(o) : d[p] \in Nat \ {0}
  <2>. SUFFICES ASSUME NEW p \in Range(o) PROVE d[p] \in Nat \ {0}
    OBVIOUS
  <2>1. d[p] \in Nat /\ d[p] >= NsPerUs
    BY DEF Granted
  <2>. QED BY <2>1, NsPerUsAssumption
<1>. QED BY <1>1, <1>2 DEF RankedList, Sorted

\* The priorities that ranks from 1 to the number of processes give.
Prios == MAX_RT_PRIO - 1 - Cardinality(Process) .. DEFAULT_PRIO

\* set_rt_priorities gives each listed process its rank, and nobody a priority out
\* of bounds.
LEMMA RanksSet ==
  ASSUME NEW l, NEW o, Chained(l, o), NEW d, RankedList(o, Len(o), d),
         NEW f \in SUBSET Process, NEW pr \in [Process -> Prios],
         NEW rt \in [Process -> 0 .. Cardinality(Process)],
         set_rt_priorities(l, f, pr, rt, d)
  PROVE  /\ fifo' \subseteq Process
         /\ rt_priority' \in [Process -> 0 .. Cardinality(Process)]
         /\ prio' \in [Process -> Prios]
         /\ \A i \in 1 .. Len(o) : rt_priority'[o[i]] = Rank(o, i, d)
<1>. DEFINE C == Cardinality(Process)
            pos(t) == CHOOSE i \in DOMAIN o : o[i] = t
            rank(t) == Rank(o, pos(t), d)
<1>1. /\ l \in ListType /\ o \in Seq(Process) /\ IsInjective(o) /\ l.size = Len(o)
      /\ Len(o) \in Nat /\ DOMAIN o = 1 .. Len(o) /\ C \in Nat /\ Len(o) <= C
  BY ListLength DEF Chained
<1>2. (IF l.size > 0 THEN Range(o) ELSE {}) = Range(o)
  BY <1>1 DEF Range
<1>3. /\ rt_priority' = [t \in Process |-> IF t \in Range(o) THEN rank(t) ELSE rt[t]]
      /\ prio' = [t \in Process |-> IF t \in Range(o) \ f THEN MAX_RT_PRIO - 1 - rank(t) ELSE pr[t]]
      /\ fifo' = f \cup Range(o)
  <2>1. Traversal(l) = o
    BY TraversalIs
  <2>. QED BY <1>2, <2>1 DEF set_rt_priorities
<1>4. ASSUME NEW i \in 1 .. Len(o) PROVE pos(o[i]) = i
  BY <1>1 DEF IsInjective
<1>5. \A i \in 1 .. Len(o) : Rank(o, i, d) \in 1 .. i
  BY RankFacts
<1>6. \A t \in Range(o) : rank(t) \in 1 .. C
  <2>. SUFFICES ASSUME NEW t \in Range(o) PROVE rank(t) \in 1 .. C
    OBVIOUS
  <2>1. PICK i \in 1 .. Len(o) : o[i] = t
    BY <1>1 DEF Range
  <2>2. rank(t) = Rank(o, i, d)
    BY <1>4, <2>1
  <2>3. Rank(o, i, d) \in 1 .. i
    BY <1>5
  <2>. HIDE DEF rank
  <2>. QED BY <1>1, <2>2, <2>3
<1>7. \A i \in 1 .. Len(o) : o[i] \in Range(o) /\ o[i] \in Process /\ rank(o[i]) = Rank(o, i, d)
  BY <1>1, <1>4, RangeFacts
<1>. HIDE DEF rank, pos
<1>8. \A t \in Process : (IF t \in Range(o) THEN rank(t) ELSE rt[t]) \in 0 .. C
  BY <1>1, <1>6
<1>9. \A t \in Process : (IF t \in Range(o) \ f THEN MAX_RT_PRIO - 1 - rank(t) ELSE pr[t]) \in Prios
  <2>. SUFFICES ASSUME NEW t \in Process, t \in Range(o) PROVE MAX_RT_PRIO - 1 - rank(t) \in Prios
    OBVIOUS
  <2>1. rank(t) \in 1 .. C
    BY <1>6
  <2>. QED BY <1>1, <2>1 DEF Prios, MAX_RT_PRIO, DEFAULT_PRIO
<1>10. Range(o) \subseteq Process
  BY <1>1, RangeFacts
<1>. HIDE DEF C
<1>11. rt_priority' \in [Process -> 0 .. C] /\ prio' \in [Process -> Prios] /\ fifo' \subseteq Process
  BY <1>3, <1>8, <1>9, <1>10
<1>12. \A i \in 1 .. Len(o) : rt_priority'[o[i]] = Rank(o, i, d)
  BY <1>3, <1>7
<1>. QED BY <1>11, <1>12 DEF C

\* The invariant, from some order of the list.
LEMMA InvFrom ==
  ASSUME TypeInv', Granted(min_budget_time, time_period, Reserved)', NEW o, OrderInv(o)'
  PROVE  Inv'
<1>1. Traversal(list') = o
  BY TraversalIs DEF OrderInv
<1>2. OrderInv(Traversal(list))'
  BY <1>1 DEF OrderInv
<1>. QED BY <1>2 DEF Inv

\* What the invariant gives: the order of the list.
LEMMA InvThen ==
  ASSUME Inv
  PROVE  /\ TypeInv /\ Granted(min_budget_time, time_period, Reserved)
         /\ \E o \in Seq(Process) :
              /\ IsInjective(o) /\ OrderInv(o) /\ Traversal(list) = o
              /\ Reservations(list) = Fine(min_budget_time, time_period, o)
<1>. DEFINE o == Traversal(list)
<1>1. OrderInv(o) /\ TypeInv /\ Granted(min_budget_time, time_period, Reserved)
  BY DEF Inv
<1>2. o \in Seq(Process) /\ IsInjective(o)
  BY <1>1 DEF OrderInv, Chained
<1>3. Reservations(list) = Fine(min_budget_time, time_period, o)
  BY DEF Reservations, Fine
<1>. QED BY <1>1, <1>2, <1>3

\* The invariant holds initially.
LEMMA InitInv ==
  ASSUME Init
  PROVE  Inv
<1>. DEFINE o == <<>>
<1>1. o \in Seq(Process) /\ IsInjective(o) /\ Len(o) = 0 /\ DOMAIN o = {} /\ Range(o) = {}
  BY DEF IsInjective, Range
<1>2. Reserved = {}
  BY DEF Init, Reserved
<1>3. Chained(list, o)
  <2>1. list \in ListType
    BY DEF Init, ListType, Link
  <2>2. list.size = 0 /\ list.fault = FALSE /\ list.next[Anchor] = Null
    BY DEF Init, Node
  <2>3. Null \notin Process
    BY RegistryAssumption
  <2>. QED BY <1>1, <2>1, <2>2, <2>3 DEF Chained
<1>4. Sorted(time_period, o) /\ \A i \in 1 .. Len(o) : rt_priority[o[i]] = Rank(o, i, time_period)
  BY <1>1 DEF Sorted
<1>5. __check_admission(Coarse(min_budget_time, time_period, o))
  <2>1. Len(Coarse(min_budget_time, time_period, o)) = 0
    BY <1>1 DEF Coarse
  <2>. QED BY <2>1 DEF __check_admission
<1>6. Traversal(list) = o
  BY <1>3, TraversalIs
<1>7. OrderInv(Traversal(list))
  BY <1>1, <1>2, <1>3, <1>4, <1>5, <1>6 DEF OrderInv
<1>8. TypeInv
  <2>1. Cardinality(Process) \in Nat
    BY ProcessAssumption, FS_CardinalityType
  <2>. QED BY <2>1 DEF Init, TypeInv, MAX_RT_PRIO, DEFAULT_PRIO, Unset
<1>9. Granted(min_budget_time, time_period, Reserved)
  BY <1>2 DEF Granted
<1>. QED BY <1>7, <1>8, <1>9 DEF Inv

\* The registry after a reserved process was taken off, by cancelBudget or do_exit.
LEMMA Departed ==
  ASSUME Inv, NEW t \in Reserved, NEW d, \A p \in Process \ {t} : d[p] = time_period[p]
  PROVE  \E q \in Seq(Process) :
           /\ Chained(del_periodic_task(list, t), q)
           /\ Range(q) = Reserved \ {t}
           /\ Sorted(d, q)
           /\ __check_admission(Coarse(min_budget_time, d, q))
           /\ RankedList(q, Len(q), d)
<1>1. PICK o \in Seq(Process) : IsInjective(o) /\ OrderInv(o)
  BY InvThen
<1>2. TypeInv /\ Granted(min_budget_time, time_period, Reserved)
  BY InvThen
<1>3. /\ Chained(list, o) /\ Range(o) = Reserved /\ Sorted(time_period, o)
      /\ __check_admission(Coarse(min_budget_time, time_period, o))
  BY <1>1 DEF OrderInv
<1>. DEFINE q == RemoveFirst(o, t)
<1>4. /\ q \in Seq(Process) /\ IsInjective(q) /\ Range(q) = Reserved \ {t}
  BY <1>1, <1>3, RemoveFirstPart
<1>5. Chained(del_periodic_task(list, t), q)
  <2>1. DOMAIN o = 1 .. Len(o) /\ Range(o) \subseteq alive
    BY <1>1, <1>2, <1>3 DEF TypeInv, Reserved
  <2>2. PICK k \in 1 .. Len(o) : o[k] = t
    BY <1>3, <2>1 DEF Range
  <2>3. Chained(del_periodic_task(list, o[k]), RemoveFirst(o, o[k]))
    BY <1>3, <2>1, Unlinked
  <2>. QED BY <2>2, <2>3
<1>6. Sorted(time_period, q) /\ __check_admission(Coarse(min_budget_time, time_period, q))
  BY <1>1, <1>2, <1>3, RemoveFirstSorted, StillAdmitted
<1>. HIDE DEF q
<1>7. /\ Len(q) \in Nat /\ DOMAIN q = 1 .. Len(q)
      /\ \A i \in 1 .. Len(q) : q[i] \in Range(q) /\ d[q[i]] = time_period[q[i]]
  <2>1. /\ Len(q) \in Nat /\ DOMAIN q = 1 .. Len(q)
        /\ \A i \in 1 .. Len(q) : q[i] \in Range(q) /\ q[i] \in Process
    BY <1>4, RangeFacts
  <2>. QED BY <1>4, <2>1
<1>8. Sorted(d, q)
  BY <1>6, <1>7 DEF Sorted
<1>9. Coarse(min_budget_time, d, q) = Coarse(min_budget_time, time_period, q)
  BY <1>7 DEF Coarse
<1>10. Granted(min_budget_time, d, Range(q))
  <2>. SUFFICES ASSUME NEW p \in Range(q)
                PROVE  /\ min_budget_time[p] \in Nat /\ d[p] \in Nat
                       /\ min_budget_time[p] < d[p] /\ d[p] >= NsPerUs /\ min_budget_time[p] % NsPerUs = 0
    BY DEF Granted
  <2>1. p \in Reserved /\ d[p] = time_period[p]
    BY <1>2, <1>4 DEF TypeInv, Reserved
  <2>. QED BY <1>2, <2>1 DEF Granted
<1>11. RankedList(q, Len(q), d)
  BY <1>4, <1>8, <1>10, RankedByPeriod
<1>. QED BY <1>4, <1>5, <1>6, <1>8, <1>9, <1>11

\* cancelBudget keeps the invariant.
LEMMA CancelBudgetInv ==
  ASSUME Inv, NEW t \in Reserved, CancelBudget(t)
  PROVE  Inv'
<1>. DEFINE d == time_period'
            pr == IF t \in fifo THEN [prio EXCEPT ![t] = DEFAULT_PRIO] ELSE prio
            rt == IF t \in fifo THEN [rt_priority EXCEPT ![t] = 0] ELSE rt_priority
<1>1. TypeInv /\ Granted(min_budget_time, time_period, Reserved)
  BY InvThen
<1>2. /\ is_budget_set' = is_budget_set \ {t}
      /\ d = [time_period EXCEPT ![t] = Unset]
      /\ list' = del_periodic_task(list, t)
      /\ set_rt_priorities(list', fifo \ {t}, pr, rt, d)
      /\ alive' = alive /\ min_budget_time' = min_budget_time
  BY DEF CancelBudget
<1>3. d \in [Process -> Periods \cup {Unset}] /\ \A p \in Process \ {t} : d[p] = time_period[p]
  BY <1>1, <1>2 DEF TypeInv
<1>4. Cardinality(Process) \in Nat
  BY ProcessAssumption, FS_CardinalityType
<1>5. pr \in [Process -> Prios] /\ rt \in [Process -> 0 .. Cardinality(Process)]
  BY <1>1, <1>4 DEF TypeInv, Prios, MAX_RT_PRIO, DEFAULT_PRIO
<1>6. Reserved' = Reserved \ {t} /\ Reserved \subseteq Process
  BY <1>1, <1>2 DEF Reserved, TypeInv
<1>. HIDE DEF d, pr, rt
<1>7. PICK q \in Seq(Process) :
           /\ Chained(del_periodic_task(list, t), q)
           /\ Range(q) = Reserved \ {t}
           /\ Sorted(d, q)
           /\ __check_admission(Coarse(min_budget_time, d, q))
           /\ RankedList(q, Len(q), d)
  BY <1>3, Departed
<1>8. Chained(list', q)
  BY <1>2, <1>7
<1>9. /\ fifo' \subseteq Process
      /\ rt_priority' \in [Process -> 0 .. Cardinality(Process)]
      /\ prio' \in [Process -> Prios]
      /\ \A i \in 1 .. Len(q) : rt_priority'[q[i]] = Rank(q, i, d)
  <2>1. fifo \ {t} \in SUBSET Process
    BY <1>1 DEF TypeInv
  <2>. QED BY <1>2, <1>5, <1>7, <1>8, <2>1, RanksSet
<1>10. OrderInv(q)'
  BY <1>2, <1>6, <1>7, <1>8, <1>9 DEF OrderInv, d
<1>11. TypeInv'
  <2>1. is_budget_set' \subseteq alive' /\ alive' \subseteq Process
    BY <1>1, <1>2 DEF TypeInv
  <2>. QED BY <1>1, <1>2, <1>3, <1>9, <2>1 DEF TypeInv, Prios, d
<1>12. Granted(min_budget_time, time_period, Reserved)'
  <2>1. \A p \in Reserved \ {t} : d[p] = time_period[p]
    BY <1>3, <1>6
  <2>2. Granted(min_budget_time, d, Reserved \ {t})
    BY <1>1, <2>1 DEF Granted
  <2>. QED BY <1>2, <1>6, <2>2 DEF Granted, d
<1>. QED BY <1>10, <1>11, <1>12, InvFrom

\* do_exit keeps the invariant: a flagged process that runs to its exit is reserved.
LEMMA DoExitInv ==
  ASSUME Inv, NEW t \in Process, DoExit(t)
  PROVE  Inv'
<1>1. TypeInv /\ Granted(min_budget_time, time_period, Reserved)
  BY InvThen
<1>2. /\ Runs(t) /\ alive' = alive \ {t} /\ is_budget_set' = is_budget_set \ {t}
      /\ time_period' = time_period /\ min_budget_time' = min_budget_time
  BY DEF DoExit
<1>3. Reserved' = Reserved \ {t} /\ Reserved \subseteq Process
  BY <1>1, <1>2 DEF Reserved, TypeInv
<1>4. Granted(min_budget_time, time_period, Reserved)'
  BY <1>1, <1>2, <1>3 DEF Granted
<1>5. CASE t \in is_budget_set
  <2>1. t \in Reserved
    BY <1>2, <1>5 DEF Runs, Reserved
  <2>2. /\ list' = del_periodic_task(list, t)
        /\ set_rt_priorities(list', fifo, prio, rt_priority, time_period)
    BY <1>5 DEF DoExit
  <2>3. PICK q \in Seq(Process) :
           /\ Chained(del_periodic_task(list, t), q)
           /\ Range(q) = Reserved \ {t}
           /\ Sorted(time_period, q)
           /\ __check_admission(Coarse(min_budget_time, time_period, q))
           /\ RankedList(q, Len(q), time_period)
    BY <2>1, Departed
  <2>4. Chained(list', q)
    BY <2>2, <2>3
  <2>5. /\ fifo \in SUBSET Process /\ prio \in [Process -> Prios]
        /\ rt_priority \in [Process -> 0 .. Cardinality(Process)]
    BY <1>1 DEF TypeInv, Prios
  <2>6. /\ fifo' \subseteq Process
        /\ rt_priority' \in [Process -> 0 .. Cardinality(Process)]
        /\ prio' \in [Process -> Prios]
        /\ \A i \in 1 .. Len(q) : rt_priority'[q[i]] = Rank(q, i, time_period)
    BY <2>2, <2>3, <2>4, <2>5, RanksSet
  <2>7. OrderInv(q)'
    BY <1>2, <1>3, <2>3, <2>4, <2>6 DEF OrderInv
  <2>8. TypeInv'
    BY <1>1, <1>2, <2>6 DEF TypeInv, Prios
  <2>. QED BY <1>4, <2>7, <2>8, InvFrom
<1>6. CASE t \notin is_budget_set
  <2>1. UNCHANGED <<list, fifo, prio, rt_priority>>
    BY <1>6 DEF DoExit
  <2>2. t \notin Reserved
    BY <1>6 DEF Reserved
  <2>3. PICK o \in Seq(Process) : OrderInv(o)
    BY InvThen
  <2>4. Reserved' = Reserved
    BY <1>3, <2>2
  <2>5. OrderInv(o)'
    BY <1>2, <2>1, <2>3, <2>4 DEF OrderInv
  <2>6. TypeInv'
    BY <1>1, <1>2, <1>6, <2>1 DEF TypeInv
  <2>. QED BY <1>4, <2>5, <2>6, InvFrom
<1>. QED BY <1>5, <1>6

\* fork keeps the invariant: the links a child copies are on no path of the ring.
LEMMA ForkInv ==
  ASSUME Inv, NEW parent \in Process, NEW t \in Process, Fork(parent, t)
  PROVE  Inv'
<1>1. TypeInv /\ Granted(min_budget_time, time_period, Reserved)
  BY InvThen
<1>2. PICK o \in Seq(Process) : IsInjective(o) /\ OrderInv(o)
  BY InvThen
<1>3. /\ parent \in alive /\ t \notin alive
      /\ alive' = alive \cup {t}
      /\ is_budget_set' = IF parent \in is_budget_set THEN is_budget_set \cup {t}
                          ELSE is_budget_set \ {t}
      /\ list' = [list EXCEPT !.next[t] = list.next[parent], !.prev[t] = list.prev[parent]]
      /\ time_period' = [time_period EXCEPT ![t] = time_period[parent]]
      /\ min_budget_time' = [min_budget_time EXCEPT ![t] = Unset]
      /\ fifo' = IF parent \in fifo THEN fifo \cup {t} ELSE fifo \ {t}
      /\ rt_priority' = [rt_priority EXCEPT ![t] = rt_priority[parent]]
      /\ prio' = [prio EXCEPT ![t] = prio[parent]]
  BY DEF Fork, Runs
<1>4. t \notin Reserved /\ Reserved \subseteq Process
  BY <1>1, <1>3 DEF Reserved, TypeInv
<1>5. /\ \A p \in Process : p # t => /\ min_budget_time'[p] = min_budget_time[p]
                                     /\ time_period'[p] = time_period[p]
                                     /\ rt_priority'[p] = rt_priority[p]
      /\ min_budget_time'[t] = Unset
  BY <1>1, <1>3 DEF TypeInv
<1>6. Reserved' = Reserved
  BY <1>1, <1>3, <1>4, <1>5 DEF Reserved, TypeInv
<1>7. /\ Chained(list, o) /\ Range(o) = Reserved /\ Sorted(time_period, o)
      /\ __check_admission(Coarse(min_budget_time, time_period, o))
      /\ \A i \in 1 .. Len(o) : rt_priority[o[i]] = Rank(o, i, time_period)
  BY <1>2 DEF OrderInv
<1>8. /\ Len(o) \in Nat /\ DOMAIN o = 1 .. Len(o)
      /\ \A i \in 1 .. Len(o) : o[i] \in Process /\ o[i] # t
  BY <1>2, <1>4, <1>7, RangeFacts
<1>9. /\ \A i \in 1 .. Len(o) : min_budget_time'[o[i]] = min_budget_time[o[i]]
      /\ \A i \in 1 .. Len(o) : time_period'[o[i]] = time_period[o[i]]
      /\ \A i \in 1 .. Len(o) : rt_priority'[o[i]] = rt_priority[o[i]]
  BY <1>5, <1>8
<1>10. Chained(list', o)
  <2>. DEFINE l == list'
  <2>1. /\ list \in ListType /\ IsInjective(o) /\ list.size = Len(o) /\ ~list.fault
        /\ o # <<>> => Ring(list, o)
        /\ o = <<>> => list.next[Anchor] \notin Process
    BY <1>7 DEF Chained
  <2>2. t \in Node /\ parent \in Node /\ t # Anchor
    BY RegistryAssumption DEF Node
  <2>3. /\ list.next \in [Node -> Link] /\ list.prev \in [Node -> Link]
        /\ list.size \in Nat /\ list.fault \in BOOLEAN
    BY <2>1 DEF ListType
  <2>4. /\ l.next = [list.next EXCEPT ![t] = list.next[parent]]
        /\ l.prev = [list.prev EXCEPT ![t] = list.prev[parent]]
        /\ l.size = list.size /\ l.fault = list.fault
        /\ l \in ListType
    BY <1>3, <2>1, <2>2, <2>3 DEF ListType
  <2>. HIDE DEF l
  <2>5. \A n \in Node : n # t => l.next[n] = list.next[n] /\ l.prev[n] = list.prev[n]
    BY <2>2, <2>3, <2>4
  <2>6. \A i : At(o, i) \in Node /\ At(o, i) # t
    BY <1>2, <1>8, <2>2 DEF At, Node
  <2>7. o # <<>> => Ring(l, o)
    BY <2>1, <2>5, <2>6 DEF Ring
  <2>8. o = <<>> => l.next[Anchor] \notin Process
    BY <2>1, <2>2, <2>5 DEF Node
  <2>9. Chained(l, o)
    BY <2>1, <2>4, <2>7, <2>8 DEF Chained
  <2>. QED BY <2>9 DEF l
<1>11. Sorted(time_period', o)
  BY <1>7, <1>9 DEF Sorted
<1>12. Coarse(min_budget_time', time_period', o) = Coarse(min_budget_time, time_period, o)
  BY <1>8, <1>9 DEF Coarse
<1>13. \A i \in 1 .. Len(o) : Rank(o, i, time_period') = Rank(o, i, time_period)
  <2>. DEFINE d == time_period'
              e == time_period
              n == Len(o)
  <2>. SUFFICES ASSUME NEW i \in 1 .. n PROVE Rank(o, i, d) = Rank(o, i, e)
    OBVIOUS
  <2>1. SamePeriods(o, n, d, e)
    BY <1>8, <1>9 DEF SamePeriods
  <2>. HIDE DEF d, e, n
  <2>. QED BY ONLY <2>1, RankAgree, i \in 1 .. n
<1>14. OrderInv(o)'
  BY <1>6, <1>7, <1>9, <1>10, <1>11, <1>12, <1>13 DEF OrderInv
<1>15. Granted(min_budget_time, time_period, Reserved)'
  <2>1. \A p \in Reserved : min_budget_time'[p] = min_budget_time[p] /\ time_period'[p] = time_period[p]
    BY <1>4, <1>5
  <2>2. Granted(min_budget_time', time_period', Reserved)
    BY <1>1, <2>1 DEF Granted
  <2>. QED BY <1>6, <2>2 DEF Granted
<1>16. TypeInv'
  <2>1. alive' \subseteq Process /\ is_budget_set' \subseteq alive' /\ fifo' \subseteq Process
    BY <1>1, <1>3 DEF TypeInv
  <2>2. /\ time_period' \in [Process -> Periods \cup {Unset}]
        /\ min_budget_time' \in [Process -> Nat \cup {Unset}]
    BY <1>1, <1>3 DEF TypeInv
  <2>3. rt_priority' \in [Process -> 0 .. Cardinality(Process)]
    BY <1>1, <1>3 DEF TypeInv
  <2>4. prio' \in [Process -> Prios]
    BY <1>1, <1>3 DEF TypeInv, Prios
  <2>. QED BY <2>1, <2>2, <2>3, <2>4 DEF TypeInv, Prios
<1>. QED BY <1>14, <1>15, <1>16, InvFrom

\* setProcessBudget turns cycles into whole microseconds.
LEMMA WholeMicroseconds ==
  ASSUME NEW cycles \in Nat
  PROVE  task_budget(cycles) \in Nat /\ task_budget(cycles) % NsPerUs = 0
<1>. DEFINE q == cycles \div MaxFreq
            a == q * NsPerUs
<1>1. q \in Nat
  BY RegistryAssumption
<1>. HIDE DEF q
<1>2. NsPerUs \in Nat \ {0} /\ a \in Nat
  BY <1>1, NsPerUsAssumption
<1>3. 0 \in 0 .. NsPerUs - 1 /\ a = q * NsPerUs + 0
  BY <1>1, <1>2
<1>. HIDE DEF a
<1>4. a % NsPerUs = 0
  BY <1>1, <1>2, <1>3, DivUnique
<1>. QED BY <1>2, <1>4 DEF task_budget, a, q

\* The registry before setProcessBudget puts t on it: without t.
LEMMA TakenOff ==
  ASSUME Inv, NEW t \in Process, t \in is_budget_set => t \in Reserved,
         NEW d, \A p \in Process \ {t} : d[p] = time_period[p]
  PROVE  \E q \in Seq(Process) :
           /\ Chained(IF t \in is_budget_set THEN del_periodic_task(list, t) ELSE list, q)
           /\ Range(q) = Reserved \ {t}
           /\ Sorted(d, q)
<1>1. CASE t \in is_budget_set
  <2>1. t \in Reserved
    BY <1>1
  <2>. QED BY <1>1, <2>1, Departed
<1>2. CASE t \notin is_budget_set
  <2>1. PICK o \in Seq(Process) : OrderInv(o)
    BY InvThen
  <2>2. Chained(list, o) /\ Range(o) = Reserved /\ Sorted(time_period, o)
    BY <2>1 DEF OrderInv
  <2>3. Reserved \ {t} = Reserved
    BY <1>2 DEF Reserved
  <2>4. \A i \in 1 .. Len(o) : d[o[i]] = time_period[o[i]]
    <3>1. \A i \in 1 .. Len(o) : o[i] \in Range(o) /\ o[i] \in Process
      BY RangeFacts
    <3>. QED BY <2>2, <2>3, <3>1
  <2>5. Sorted(d, o)
    BY <2>2, <2>4 DEF Sorted
  <2>. QED BY <1>2, <2>2, <2>3, <2>5
<1>. QED BY <1>1, <1>2

\* setProcessBudget keeps the invariant, for a new reservation and a changed one.
LEMMA SetProcessBudgetInv ==
  ASSUME Inv, NEW t \in (Process \ is_budget_set) \cup Reserved, NEW cycles \in Cycles,
         NEW period \in Periods, SetProcessBudget(t, cycles, period)
  PROVE  Inv'
<1>. DEFINE x == task_budget(cycles)
            b == min_budget_time'
            d == time_period'
            l == IF t \in is_budget_set THEN del_periodic_task(list, t) ELSE list
<1>1. TypeInv /\ Granted(min_budget_time, time_period, Reserved)
  BY InvThen
<1>2. PICK o \in Seq(Process) :
           /\ IsInjective(o) /\ OrderInv(o)
           /\ Reservations(list) = Fine(min_budget_time, time_period, o)
  BY InvThen
<1>3. /\ t \in alive /\ x < period
      /\ check_admission(Reservations(list), x, period)
      /\ is_budget_set' = is_budget_set \cup {t}
      /\ d = [time_period EXCEPT ![t] = period]
      /\ b = [min_budget_time EXCEPT ![t] = x]
      /\ list' = add_periodic_task(l, t, d)
      /\ set_rt_priorities(list', fifo, prio, rt_priority, d)
      /\ alive' = alive
  BY DEF SetProcessBudget
<1>4. t \in Process /\ (t \in is_budget_set => t \in Reserved) /\ Reserved \subseteq Process
  BY <1>1 DEF TypeInv, Reserved
<1>5. x \in Nat /\ x % NsPerUs = 0 /\ period \in Nat /\ period >= NsPerUs
  BY WholeMicroseconds, RegistryAssumption
<1>6. /\ d \in [Process -> Periods \cup {Unset}] /\ b \in [Process -> Nat \cup {Unset}]
      /\ d[t] = period /\ b[t] = x
      /\ \A p \in Process \ {t} : b[p] = min_budget_time[p] /\ d[p] = time_period[p]
  <2>. HIDE DEF x
  <2>. QED BY <1>1, <1>3, <1>4, <1>5 DEF TypeInv
<1>. HIDE DEF x, b, d, l
<1>7. Reserved' = (Reserved \ {t}) \cup {t}
  <2>1. \A p \in Process \ {t} : min_budget_time'[p] = min_budget_time[p]
    BY <1>6 DEF b
  <2>2. min_budget_time'[t] # Unset
    BY <1>5, <1>6 DEF b, Unset
  <2>3. is_budget_set \subseteq Process
    BY <1>1 DEF TypeInv
  <2>. QED BY <1>3, <1>4, <2>1, <2>2, <2>3 DEF Reserved
<1>8. Granted(b, d, (Reserved \ {t}) \cup {t})
  <2>. SUFFICES ASSUME NEW p \in (Reserved \ {t}) \cup {t}
                PROVE  /\ b[p] \in Nat /\ d[p] \in Nat
                       /\ b[p] < d[p] /\ d[p] >= NsPerUs /\ b[p] % NsPerUs = 0
    BY DEF Granted
  <2>1. CASE p = t
    BY <1>3, <1>5, <1>6, <2>1
  <2>2. CASE p # t
    <3>1. p \in Reserved /\ b[p] = min_budget_time[p] /\ d[p] = time_period[p]
      BY <1>4, <1>6, <2>2
    <3>. QED BY <1>1, <3>1 DEF Granted
  <2>. QED BY <2>1, <2>2
<1>9. PICK q \in Seq(Process) :
           Chained(l, q) /\ Range(q) = Reserved \ {t} /\ Sorted(d, q)
  BY <1>4, <1>6, TakenOff DEF l
<1>. DEFINE j == Place(q, t, d)
            o2 == InsertAt(q, j, t)
<1>10. IsInjective(q) /\ t \notin Range(q)
  BY <1>9 DEF Chained
<1>11. Chained(list', o2)
  BY <1>3, <1>4, <1>9, <1>10, Linked
<1>12. /\ Len(q) \in Nat
       /\ j \in 1 .. Len(q) + 1
       /\ \A k \in 1 .. Len(q) : k < j => ~(d[q[k]] > d[t])
       /\ j <= Len(q) => d[q[j]] > d[t]
  BY <1>9, PlaceFacts
<1>. HIDE DEF j
<1>13. o2 \in Seq(Process) /\ IsInjective(o2) /\ Range(o2) = (Reserved \ {t}) \cup {t}
  BY <1>4, <1>9, <1>10, <1>12, InsertAtPart
<1>14. Sorted(d, o2)
  <2>1. d[t] \in Nat /\ \A k \in 1 .. Len(q) : d[q[k]] \in Nat
    <3>1. \A k \in 1 .. Len(q) : q[k] \in Range(q)
      BY RangeFacts
    <3>. QED BY <1>8, <1>9, <3>1 DEF Granted
  <2>2. \A k \in 1 .. Len(q) : k < j => d[q[k]] <= d[t]
    BY <1>12, <2>1
  <2>3. \A k \in 1 .. Len(q) : k >= j => d[t] <= d[q[k]]
    <3>. SUFFICES ASSUME NEW k \in 1 .. Len(q), k >= j PROVE d[t] <= d[q[k]]
      OBVIOUS
    <3>1. j \in 1 .. Len(q) /\ j <= k
      BY <1>12
    <3>2. d[q[j]] > d[t] /\ d[q[j]] <= d[q[k]]
      BY <1>9, <1>12, <3>1 DEF Sorted
    <3>. QED BY <2>1, <3>1, <3>2
  <2>. QED BY <1>4, <1>9, <1>12, <2>1, <2>2, <2>3, SortedInsert
<1>. HIDE DEF o2
<1>15. Granted(b, d, Range(o2))
  BY <1>8, <1>13
<1>16. __check_admission(Coarse(b, d, o2))
  <2>. DEFINE b1 == min_budget_time
              d1 == time_period
  <2>1. Range(o) = Reserved /\ Sorted(d1, o)
    BY <1>2 DEF OrderInv
  <2>2. Granted(b1, d1, Range(o))
    BY <1>1, <2>1
  <2>3. Moved(b1, d1, o, t, b, d, o2)
    <3>1. t \in Range(o2) /\ Range(o2) \subseteq Range(o) \cup {t}
      BY <1>13, <2>1
    <3>. QED BY <1>2, <1>6, <1>13, <1>14, <1>15, <2>1, <2>2, <3>1 DEF Moved
  <2>4. check_admission(Fine(b1, d1, o), b[t], d[t])
    BY <1>2, <1>3, <1>6, Zenon
  <2>. HIDE DEF b1, d1
  <2>. QED BY <2>3, <2>4, NowAdmitted
<1>17. RankedList(o2, Len(o2), d)
  BY <1>13, <1>14, <1>15, RankedByPeriod
<1>18. /\ fifo' \subseteq Process
       /\ rt_priority' \in [Process -> 0 .. Cardinality(Process)]
       /\ prio' \in [Process -> Prios]
       /\ \A i \in 1 .. Len(o2) : rt_priority'[o2[i]] = Rank(o2, i, d)
  <2>1. /\ fifo \in SUBSET Process /\ prio \in [Process -> Prios]
        /\ rt_priority \in [Process -> 0 .. Cardinality(Process)]
    BY <1>1 DEF TypeInv, Prios
  <2>. QED BY <1>3, <1>11, <1>17, <2>1, RanksSet
<1>19. PICK w : w = o2
  OBVIOUS
<1>20. OrderInv(w)'
  BY <1>7, <1>11, <1>13, <1>14, <1>16, <1>18, <1>19 DEF OrderInv, b, d
<1>21. TypeInv'
  <2>1. alive' \subseteq Process /\ is_budget_set' \subseteq alive'
    BY <1>1, <1>3 DEF TypeInv
  <2>. QED BY <1>6, <1>18, <2>1 DEF TypeInv, Prios, b, d
<1>22. Granted(min_budget_time, time_period, Reserved)'
  BY <1>7, <1>8 DEF Granted, b, d
<1>. QED BY <1>20, <1>21, <1>22, InvFrom

\* Every step keeps the invariant.
LEMMA NextInv ==
  ASSUME Inv, [DisciplinedNext]_vars
  PROVE  Inv'
<1>1. CASE UNCHANGED vars
  BY <1>1 DEF vars, Inv, TypeInv, Granted, OrderInv, Reserved
<1>2. ASSUME NEW t \in (Process \ is_budget_set) \cup Reserved, NEW cycles \in Cycles,
             NEW period \in Periods, SetProcessBudget(t, cycles, period)
      PROVE  Inv'
  BY <1>2, SetProcessBudgetInv
<1>3. ASSUME NEW t \in Reserved, CancelBudget(t) PROVE Inv'
  BY <1>3, CancelBudgetInv
<1>4. ASSUME NEW t \in Process, DoExit(t) PROVE Inv'
  BY <1>4, DoExitInv
<1>5. ASSUME NEW parent \in Process, NEW t \in Process, Fork(parent, t) PROVE Inv'
  BY <1>5, ForkInv
<1>. QED BY <1>1, <1>2, <1>3, <1>4, <1>5 DEF DisciplinedNext

\* The inductive invariant of the registry holds throughout.
THEOREM RegistryInvariant == DisciplinedSpec => []Inv
<1>1. Init => Inv
  BY InitInv
<1>2. Inv /\ [DisciplinedNext]_vars => Inv'
  BY NextInv
<1>. QED BY <1>1, <1>2, PTL DEF DisciplinedSpec

\* With fewer processes than the kernel has real-time priorities every variable keeps
\* its type: no rank reaches the clamp of set_rt_priorities.
THEOREM RegistryTypeOK ==
  ASSUME Cardinality(Process) < MAX_RT_PRIO
  PROVE  DisciplinedSpec => []TypeOK
<1>1. Inv => TypeOK
  <2>. SUFFICES ASSUME Inv PROVE TypeOK
    OBVIOUS
  <2>1. TypeInv
    BY InvThen
  <2>2. PICK o \in Seq(Process) : IsInjective(o) /\ OrderInv(o)
    BY InvThen
  <2>3. Cardinality(Process) \in Nat /\ Len(o) \in Nat /\ Len(o) <= Cardinality(Process)
    BY <2>2, ListLength
  <2>4. /\ alive \subseteq Process /\ is_budget_set \subseteq Process /\ fifo \subseteq Process
        /\ time_period \in [Process -> Periods \cup {Unset}]
        /\ min_budget_time \in [Process -> Nat \cup {Unset}]
    BY <2>1 DEF TypeInv
  <2>5. list \in ListType /\ list.size = Len(o)
    BY <2>2 DEF OrderInv, Chained
  <2>6. list \in [next : [Node -> Link], prev : [Node -> Link],
                  size : 0 .. Cardinality(Process), fault : BOOLEAN]
    BY <2>3, <2>5 DEF ListType
  <2>. DEFINE C == Cardinality(Process)
  <2>7. C \in Nat /\ C < 100
    BY <2>3 DEF MAX_RT_PRIO
  <2>. HIDE DEF C
  <2>8. /\ \A x \in 0 .. C : x \in 0 .. 100 - 1
        /\ \A x \in 100 - 1 - C .. 120 : x \in 0 .. 120
    BY <2>7
  <2>9. rt_priority \in [Process -> 0 .. MAX_RT_PRIO - 1] /\ prio \in [Process -> 0 .. DEFAULT_PRIO]
    BY <2>1, <2>8 DEF TypeInv, C, MAX_RT_PRIO, DEFAULT_PRIO
  <2>. QED BY <2>4, <2>6, <2>9 DEF TypeOK
<1>. QED BY <1>1, RegistryInvariant, PTL

\* The list holds each reserved process once and nothing else, can be walked both
\* ways, agrees with its counter, and no bad link was followed: after any history of
\* setProcessBudget, cancelBudget, fork and exit.
THEOREM RegistryStaysConsistent == DisciplinedSpec => []RegistryConsistent
<1>1. Inv => RegistryConsistent
  <2>. SUFFICES ASSUME Inv PROVE RegistryConsistent
    OBVIOUS
  <2>1. PICK o \in Seq(Process) : IsInjective(o) /\ OrderInv(o) /\ Traversal(list) = o
    BY InvThen
  <2>2. Chained(list, o) /\ Range(o) = Reserved
    BY <2>1 DEF OrderInv
  <2>3. Reserved \subseteq alive
    BY InvThen DEF TypeInv, Reserved
  <2>4. Len(o) \in Nat /\ Cardinality(Reserved) = Len(o)
    BY <2>1, <2>2, RangeFacts
  <2>5. ASSUME o # <<>>
        PROVE  /\ list.prev[o[1]] = Anchor /\ list.prev[Anchor] = Last(o)
               /\ \A i \in 2 .. Len(o) : list.prev[o[i]] = o[i - 1]
    <3>1. \A i \in 0 .. Len(o) : list.prev[At(o, i + 1)] = At(o, i)
      BY <2>2, <2>5 DEF Chained, Ring
    <3>2. Len(o) >= 1
      BY <2>4, <2>5
    <3>3. \A i \in 1 .. Len(o) : At(o, i) = o[i]
      BY DEF At
    <3>4. At(o, 0) = Anchor /\ At(o, Len(o) + 1) = Anchor
      BY <2>4 DEF At
    <3>5. list.prev[o[1]] = Anchor
      <4>1. list.prev[At(o, 0 + 1)] = At(o, 0)
        BY <2>4, <3>1
      <4>. QED BY <2>4, <3>2, <3>3, <3>4, <4>1
    <3>6. list.prev[Anchor] = Last(o)
      <4>1. list.prev[At(o, Len(o) + 1)] = At(o, Len(o))
        BY <2>4, <3>1
      <4>. QED BY <2>4, <3>2, <3>3, <3>4, <4>1 DEF Last
    <3>7. ASSUME NEW i \in 2 .. Len(o) PROVE list.prev[o[i]] = o[i - 1]
      <4>1. i - 1 \in 0 .. Len(o) /\ i - 1 \in 1 .. Len(o) /\ i \in 1 .. Len(o) /\ (i - 1) + 1 = i
        BY <2>4
      <4>2. list.prev[At(o, (i - 1) + 1)] = At(o, i - 1)
        BY <3>1, <4>1
      <4>. QED BY <3>3, <4>1, <4>2
    <3>. QED BY <3>5, <3>6, <3>7
  <2>6. ~list.fault /\ list.size = Len(o)
    BY <2>2 DEF Chained
  <2>. QED BY <2>1, <2>2, <2>3, <2>4, <2>5, <2>6 DEF RegistryConsistent
<1>. QED BY <1>1, RegistryInvariant, PTL

\* The registry stays sorted by period.
THEOREM StaysSortedByPeriod == DisciplinedSpec => []SortedByPeriod
<1>1. Inv => SortedByPeriod
  <2>. SUFFICES ASSUME Inv, NEW i \in 2 .. Len(Traversal(list))
                PROVE  time_period[Traversal(list)[i - 1]] <= time_period[Traversal(list)[i]]
    BY DEF SortedByPeriod
  <2>1. PICK o \in Seq(Process) : OrderInv(o) /\ Traversal(list) = o
    BY InvThen
  <2>2. i \in 1 .. Len(o) /\ i - 1 \in 1 .. Len(o) /\ i - 1 <= i
    BY <2>1
  <2>. QED BY <2>1, <2>2 DEF OrderInv, Sorted
<1>. QED BY <1>1, RegistryInvariant, PTL

\* The admitted reservations meet their deadlines in nanoseconds, whatever was
\* added, changed, cancelled or has exited since each was tested.
THEOREM AdmittedProcessesMeetDeadlines == DisciplinedSpec => []AdmittedMeetDeadlines
<1>1. Inv => AdmittedMeetDeadlines
  <2>. SUFFICES ASSUME Inv PROVE AdmittedMeetDeadlines
    OBVIOUS
  <2>. DEFINE b == min_budget_time
              d == time_period
  <2>1. Granted(b, d, Reserved)
    BY InvThen
  <2>2. PICK o \in Seq(Process) : OrderInv(o) /\ Reservations(list) = Fine(b, d, o)
    BY InvThen
  <2>3. Range(o) = Reserved /\ Sorted(d, o) /\ __check_admission(Coarse(b, d, o))
    BY <2>2 DEF OrderInv
  <2>4. Granted(b, d, Range(o))
    BY <2>1, <2>3
  <2>. HIDE DEF b, d
  <2>5. /\ Fine(b, d, o) \in TaskList /\ Coarse(b, d, o) \in TaskList
        /\ Refines(Fine(b, d, o), Coarse(b, d, o)) /\ ByPeriod(Fine(b, d, o))
    BY <2>3, <2>4, TaskArrays
  <2>6. MeetsDeadlines(Fine(b, d, o))
    BY <2>3, <2>5, CoarseTestIsSafe
  <2>. QED BY <2>2, <2>6 DEF AdmittedMeetDeadlines
<1>. QED BY <1>1, RegistryInvariant, PTL

\* The priorities that set_rt_priorities asks for number the distinct periods from 1
\* without a gap.
THEOREM RanksStayRateMonotonic == DisciplinedSpec => []RanksFollowPeriods
<1>1. Inv => RanksFollowPeriods
  <2>. SUFFICES ASSUME Inv PROVE RanksFollowPeriods
    OBVIOUS
  <2>. DEFINE b == min_budget_time
              d == time_period
              ranks == {rt_priority[t] : t \in Reserved}
  <2>1. Granted(b, d, Reserved)
    BY InvThen
  <2>2. PICK o \in Seq(Process) : OrderInv(o)
    BY InvThen
  <2>3. /\ Range(o) = Reserved /\ Sorted(d, o)
        /\ \A i \in 1 .. Len(o) : rt_priority[o[i]] = Rank(o, i, d)
    BY <2>2 DEF OrderInv
  <2>4. DOMAIN o = 1 .. Len(o) /\ Len(o) \in Nat
    OBVIOUS
  <2>5. RankedList(o, Len(o), d)
    BY <2>1, <2>3, RankedByPeriod
  <2>. HIDE DEF d
  <2>. DEFINE n == Len(o)
  <2>. HIDE DEF n
  <2>6. RankedList(o, n, d)
    BY <2>5 DEF n
  <2>7. \A i, j \in 1 .. n : Rank(o, i, d) < Rank(o, j, d) <=> d[o[i]] < d[o[j]]
    BY ONLY <2>6, RankFacts
  <2>8. Dense(o, n, d)
    BY ONLY <2>6, RanksDense
  <2>9. ASSUME NEW t \in Reserved, NEW u \in Reserved
        PROVE  rt_priority[t] < rt_priority[u] <=> d[t] < d[u]
    <3>1. PICK i \in 1 .. Len(o) : o[i] = t
      BY <2>3, <2>4 DEF Range
    <3>2. PICK j \in 1 .. Len(o) : o[j] = u
      BY <2>3, <2>4 DEF Range
    <3>. QED BY <2>3, <2>7, <3>1, <3>2 DEF n
  <2>10. ranks = {Rank(o, i, d) : i \in 1 .. Len(o)}
    <3>1. \A t \in Reserved : \E i \in 1 .. Len(o) : o[i] = t
      BY <2>3, <2>4 DEF Range
    <3>2. \A i \in 1 .. Len(o) : o[i] \in Reserved
      BY <2>3, <2>4 DEF Range
    <3>. QED BY <2>3, <3>1, <3>2
  <2>11. PICK m \in Nat : ranks = 1 .. m
    BY <2>8, <2>10 DEF n, Dense
  <2>12. Cardinality(1 .. m) = m
    <3>1. 1 \in Int /\ m \in Int
      OBVIOUS
    <3>2. Cardinality(1 .. m) = IF 1 > m THEN 0 ELSE m - 1 + 1
      BY <3>1, FS_Interval, Zenon
    <3>. QED BY <3>2
  <2>13. ranks = 1 .. Cardinality(ranks)
    BY <2>11, <2>12
  <2>. QED BY <2>9, <2>13 DEF RanksFollowPeriods, d
<1>. QED BY <1>1, RegistryInvariant, PTL

-----------------------------------------------------------------------------
(***************************************************************************)
(* The refinement of ReservationSet.                                       *)
(***************************************************************************)

\* The sum of the abstract specification is that of the model.
LEMMA AbstractSum ==
  ASSUME NEW f, NEW A
  PROVE  Abstract!SumFunctionOnSet(f, A) = SumFunctionOnSet(f, A)
  BY DEF Abstract!SumFunctionOnSet, SumFunctionOnSet, Abstract!FoldFunctionOnSet,
         FoldFunctionOnSet, Abstract!MapThenFoldSet, MapThenFoldSet

\* What passed the test in microseconds fits in nanoseconds, as a set.
LEMMA AdmittedFits ==
  ASSUME NEW b, NEW d, NEW o \in Seq(Process), IsInjective(o), Granted(b, d, Range(o)), Sorted(d, o),
         __check_admission(Coarse(b, d, o)),
         NEW g, g = [p \in Range(o) |-> [budget |-> b[p], period |-> d[p]]]
  PROVE  Abstract!Fits(g)
<1>. DEFINE fine == Fine(b, d, o)
            coarse == Coarse(b, d, o)
<1>1. /\ fine \in TaskList /\ coarse \in TaskList
      /\ Len(fine) = Len(o) /\ Len(coarse) = Len(o) /\ Refines(fine, coarse)
  BY TaskArrays
<1>2. /\ DOMAIN o = 1 .. Len(o) /\ Len(o) \in Nat
      /\ \A i \in 1 .. Len(o) : o[i] \in Range(o)
  BY RangeFacts
<1>3. \A i \in 1 .. Len(o) : fine[i].budget = b[o[i]] /\ fine[i].period = d[o[i]]
  BY <1>2 DEF Fine
<1>4. \A q \in Range(o) : /\ b[q] \in Nat /\ d[q] \in Nat \ {0}
                          /\ g[q].budget = b[q] /\ g[q].period = d[q]
  <2>1. \A q \in Range(o) : b[q] \in Nat /\ d[q] \in Nat /\ d[q] >= NsPerUs
    BY DEF Granted
  <2>2. NsPerUs > 0 /\ NsPerUs \in Nat
    BY NsPerUsAssumption
  <2>3. \A q \in Range(o) : d[q] \in Nat \ {0}
    BY <2>1, <2>2
  <2>. QED BY <2>1, <2>3
<1>0. DOMAIN g = Range(o) /\ \A i \in 1 .. Len(o) : d[o[i]] \in Nat
  BY <1>2, <1>4
<1>. SUFFICES ASSUME NEW p \in Range(o)
              PROVE  \E a \in 1 .. g[p].period : Abstract!Demand(g, p, a) <= a
  BY DEF Abstract!Fits
<1>5. PICK j \in 1 .. Len(o) : o[j] = p
  BY <1>2 DEF Range
<1>6. PICK pos \in 1 .. Len(o) :
           d[o[pos]] <= d[p] /\ \A i \in 1 .. Len(o) : d[o[i]] <= d[p] => i <= pos
  <2>. DEFINE I == {i \in Nat : i \in 1 .. Len(o) /\ d[o[i]] <= d[p]}
  <2>1. j \in I
    BY <1>2, <1>4, <1>5
  <2>2. \A i \in I : i <= Len(o)
    BY <1>2
  <2>3. I \in SUBSET Nat
    OBVIOUS
  <2>4. \E m \in I : \A i \in I : i <= m
    <3>. HIDE DEF I
    <3>. QED BY <1>2, <2>1, <2>2, <2>3, NatGreatest
  <2>. QED BY <2>4
<1>7. \A i \in 1 .. Len(o) : d[o[i]] <= d[p] <=> i <= pos
  <2>1. \A i \in 1 .. Len(o) : i <= pos => d[o[i]] <= d[o[pos]]
    BY <1>6 DEF Sorted
  <2>2. d[p] \in Nat /\ d[o[pos]] <= d[p] /\ d[o[pos]] \in Nat
    BY <1>0, <1>4, <1>6
  <2>. SUFFICES ASSUME NEW i \in 1 .. Len(o) PROVE d[o[i]] <= d[p] <=> i <= pos
    OBVIOUS
  <2>3. d[o[i]] \in Nat /\ (i <= pos => d[o[i]] <= d[o[pos]])
    BY <1>0, <2>1
  <2>4. i <= pos => d[o[i]] <= d[p]
    BY <2>2, <2>3
  <2>. QED BY <1>6, <2>4
<1>8. d[o[pos]] = d[p]
  <2>1. j <= pos
    <3>1. d[o[j]] <= d[p]
      BY <1>0, <1>5
    <3>. QED BY <1>7, <3>1
  <2>2. d[p] <= d[o[pos]]
    BY <1>5, <2>1 DEF Sorted
  <2>3. d[p] \in Nat /\ d[o[pos]] \in Nat /\ d[o[pos]] <= d[p]
    BY <1>0, <1>4, <1>6
  <2>. QED BY <2>2, <2>3
<1>9. TimeDemandMet(fine, pos)
  <2>1. rt_test(coarse, pos)
    BY <1>1, <1>2 DEF __check_admission
  <2>. HIDE DEF fine, coarse
  <2>2. TimeDemandMet(coarse, pos)
    BY <1>1, <2>1, RtTestIsTimeDemandAnalysis
  <2>. QED BY <1>1, <2>2, CoarseDemand
<1>10. PICK a \in 1 .. fine[pos].period : demand(fine, pos, a) <= a
  BY <1>9 DEF TimeDemandMet
<1>11. fine[pos].period = d[p] /\ g[p].period = d[p]
  BY <1>2, <1>3, <1>4, <1>8
<1>. DEFINE f == [q \in DOMAIN g |-> Abstract!Jobs(g[q].period, a) * g[q].budget]
            A == {q \in DOMAIN g : g[q].period <= g[p].period}
            r == Released(fine, a)
<1>12. demand(fine, pos, a) = SumFunctionOnSet(r, 1 .. pos)
  <2>. HIDE DEF fine
  <2>. QED BY <1>1, <1>2, DemandUpToDeadline
<1>13. a \in Nat \ {0}
  BY <1>4, <1>11
<1>14. \A q \in Range(o) : /\ f[q] = ceiling(a, d[q]) * b[q]
                           /\ f[q] \in Int
  <2>. SUFFICES ASSUME NEW q \in Range(o) PROVE f[q] = ceiling(a, d[q]) * b[q] /\ f[q] \in Int
    OBVIOUS
  <2>1. f[q] = ((a - 1) \div d[q] + 1) * b[q]
    <3>1. f[q] = Abstract!Jobs(g[q].period, a) * g[q].budget
      BY <1>0
    <3>. QED BY <1>4, <3>1 DEF Abstract!Jobs
  <2>2. ceiling(a, d[q]) = (a - 1) \div d[q] + 1 /\ ceiling(a, d[q]) \in Nat
    BY <1>4, <1>13, CeilingIsReleases, CeilingBounds
  <2>3. ceiling(a, d[q]) * b[q] \in Int
    <3>1. PICK k, e : k = ceiling(a, d[q]) /\ e = b[q]
      OBVIOUS
    <3>2. k \in Nat /\ e \in Nat
      BY <1>4, <2>2, <3>1
    <3>3. k * e \in Int
      BY <3>2
    <3>. QED BY <3>1, <3>3
  <2>. QED BY <2>1, <2>2, <2>3
<1>15. r = [i \in 1 .. Len(o) |-> f[o[i]]]
  <2>. HIDE DEF fine, f
  <2>1. r = [i \in 1 .. Len(o) |-> ceiling(a, fine[i].period) * fine[i].budget]
    BY <1>1 DEF Released
  <2>2. ASSUME NEW i \in 1 .. Len(o)
        PROVE  ceiling(a, fine[i].period) * fine[i].budget = f[o[i]]
    <3>1. fine[i].period = d[o[i]] /\ fine[i].budget = b[o[i]]
      BY <1>3
    <3>2. f[o[i]] = ceiling(a, d[o[i]]) * b[o[i]]
      BY <1>2, <1>14
    <3>. QED BY <3>1, <3>2
  <2>. HIDE DEF r
  <2>. QED BY <2>1, <2>2
<1>16. A = {o[i] : i \in 1 .. pos}
  <2>1. A = {q \in Range(o) : d[q] <= d[p]}
    BY <1>4, <1>11
  <2>2. \A q \in Range(o) : \E i \in 1 .. Len(o) : o[i] = q
    BY <1>2 DEF Range
  <2>3. \A i \in 1 .. pos : i \in 1 .. Len(o)
    BY <1>2
  <2>4. \A i \in 1 .. Len(o) : i <= pos => i \in 1 .. pos
    BY <1>2
  <2>5. \A i \in 1 .. pos : i <= pos
    OBVIOUS
  <2>. HIDE DEF A
  <2>6. ASSUME NEW q \in A PROVE q \in {o[i] : i \in 1 .. pos}
    BY <1>7, <2>1, <2>2, <2>4, <2>6
  <2>7. ASSUME NEW i \in 1 .. pos PROVE o[i] \in A
    BY <1>2, <1>7, <2>1, <2>3, <2>5, <2>7
  <2>. QED BY <2>6, <2>7
<1>. HIDE DEF f, A, r, fine, coarse
<1>17. Reindexed(Range(o), Len(o), o, f, r, pos, A)
  <2>1. \A x, y \in 1 .. Len(o) : o[x] = o[y] => x = y
    BY <1>2 DEF IsInjective
  <2>2. pos \in 0 .. Len(o)
    BY <1>2
  <2>. QED BY <1>2, <1>14, <1>15, <1>16, <2>1, <2>2 DEF Reindexed
<1>18. SumFunctionOnSet(r, 1 .. pos) = SumFunctionOnSet(f, A)
  BY ONLY <1>17, SumOverImage
<1>19. Abstract!Demand(g, p, a) = SumFunctionOnSet(f, A)
  BY AbstractSum DEF Abstract!Demand, f, A
<1>. QED BY <1>10, <1>11, <1>12, <1>18, <1>19

\* In every reachable state the walk finds the reserved processes, and what they
\* hold fits.
ListedInv ==
    /\ Listed = [t \in Reserved |-> Holds(t)]
    /\ Reserved \subseteq Process
    /\ Abstract!Fits(Listed)

\* The inductive invariant gives that.
LEMMA ListedFits == Inv => ListedInv
<1>. SUFFICES ASSUME Inv PROVE ListedInv
  OBVIOUS
<1>. DEFINE b == min_budget_time
            d == time_period
<1>1. TypeInv /\ Granted(b, d, Reserved)
  BY InvThen
<1>2. PICK o \in Seq(Process) : IsInjective(o) /\ OrderInv(o) /\ Traversal(list) = o
  BY InvThen
<1>3. Range(o) = Reserved /\ Sorted(d, o) /\ __check_admission(Coarse(b, d, o))
  BY <1>2 DEF OrderInv
<1>4. Listed = [p \in Range(o) |-> [budget |-> b[p], period |-> d[p]]]
  BY <1>2 DEF Listed, Holds
<1>5. Reserved \subseteq Process
  BY <1>1 DEF TypeInv, Reserved
<1>6. Granted(b, d, Range(o))
  BY <1>1, <1>3
<1>7. PICK g, bb, dd : g = Listed /\ bb = b /\ dd = d
  OBVIOUS
<1>8. /\ Granted(bb, dd, Range(o)) /\ Sorted(dd, o) /\ __check_admission(Coarse(bb, dd, o))
      /\ g = [p \in Range(o) |-> [budget |-> bb[p], period |-> dd[p]]]
  BY <1>3, <1>4, <1>6, <1>7
<1>9. Abstract!Fits(g)
  BY <1>2, <1>8, AdmittedFits
<1>10. Listed = [t \in Reserved |-> Holds(t)]
  BY <1>2, <1>3 DEF Listed
<1>. QED BY <1>5, <1>7, <1>9, <1>10 DEF ListedInv

\* The same after a step.
LEMMA ListedFitsNext == Inv' => ListedInv'
BY ListedFits, PTL

\* An accepted setProcessBudget is a grant to its caller.
LEMMA RefineSetProcessBudget ==
  ASSUME Inv, Inv', NEW t \in (Process \ is_budget_set) \cup Reserved, NEW cycles \in Cycles,
         NEW period \in Periods, SetProcessBudget(t, cycles, period)
  PROVE  Abstract!Grant(t)
<1>. DEFINE x == task_budget(cycles)
            r == [budget |-> x, period |-> period]
<1>1. TypeInv
  BY InvThen
<1>2. /\ Listed = [p \in Reserved |-> Holds(p)] /\ Reserved \subseteq Process
      /\ Listed' = [p \in Reserved' |-> Holds(p)'] /\ Reserved' \subseteq Process
      /\ Abstract!Fits(Listed')
  BY ListedFits, ListedFitsNext DEF ListedInv
<1>3. /\ x < period
      /\ is_budget_set' = is_budget_set \cup {t}
      /\ time_period' = [time_period EXCEPT ![t] = period]
      /\ min_budget_time' = [min_budget_time EXCEPT ![t] = x]
  BY DEF SetProcessBudget
<1>4. t \in Process /\ is_budget_set \subseteq Process
  BY <1>1, <1>2 DEF TypeInv
<1>5. x \in Nat
  BY WholeMicroseconds, RegistryAssumption
<1>. HIDE DEF x
<1>6. /\ time_period'[t] = period /\ min_budget_time'[t] = x
      /\ \A p \in Process \ {t} : /\ time_period'[p] = time_period[p]
                                 /\ min_budget_time'[p] = min_budget_time[p]
  BY <1>1, <1>3, <1>4 DEF TypeInv
<1>7. Reserved' = Reserved \cup {t}
  <2>1. min_budget_time'[t] # Unset
    BY <1>5, <1>6 DEF Unset
  <2>. QED BY <1>3, <1>4, <1>6, <2>1 DEF Reserved
<1>8. Holds(t)' = r /\ \A p \in Process \ {t} : Holds(p)' = Holds(p)
  BY <1>6 DEF Holds
<1>9. r \in {[budget |-> task_budget(c), period |-> e] : c \in Cycles, e \in Periods}
  BY DEF x
<1>10. DOMAIN Listed' = Reserved \cup {t} /\ DOMAIN Listed = Reserved /\ Listed'[t] = r
  BY <1>2, <1>7, <1>8
<1>11. Listed' = [q \in DOMAIN Listed \cup {t} |-> IF q = t THEN Listed'[t] ELSE Listed[q]]
  <2>1. ASSUME NEW q \in Reserved \cup {t}
        PROVE  Listed'[q] = IF q = t THEN Listed'[t] ELSE Listed[q]
    BY <1>2, <1>7, <1>8
  <2>2. Listed' = [q \in Reserved \cup {t} |-> Listed'[q]]
    BY <1>2, <1>7
  <2>. QED BY <1>10, <2>1, <2>2
<1>12. r.budget < r.period
  BY <1>3
<1>13. \E new \in {Listed'} :
         /\ t \in DOMAIN new
         /\ new[t] \in {[budget |-> task_budget(c), period |-> e] : c \in Cycles, e \in Periods}
         /\ new[t].budget < new[t].period
         /\ new = [q \in DOMAIN Listed \cup {t} |-> IF q = t THEN new[t] ELSE Listed[q]]
         /\ Abstract!Fits(new)
  <2>. HIDE DEF r
  <2>. QED BY <1>2, <1>9, <1>10, <1>11, <1>12
<1>. QED BY <1>13 DEF Abstract!Grant

\* A reserved process that leaves the list withdraws, and nobody else does.
LEMMA Withdrawn ==
  ASSUME Inv, Inv', NEW t \in Reserved, Reserved' = Reserved \ {t},
         \A p \in Process \ {t} : Holds(p)' = Holds(p)
  PROVE  Abstract!Withdraw(t)
<1>1. /\ Listed = [p \in Reserved |-> Holds(p)] /\ Reserved \subseteq Process
      /\ Listed' = [p \in Reserved' |-> Holds(p)']
  BY ListedFits, ListedFitsNext DEF ListedInv
<1>2. DOMAIN Listed = Reserved /\ \A p \in Reserved : Listed[p] = Holds(p)
  BY <1>1
<1>3. Listed' = [p \in DOMAIN Listed \ {t} |-> Listed[p]]
  BY <1>1, <1>2
<1>. QED BY <1>2, <1>3 DEF Abstract!Withdraw

\* Where nobody's reservation changes, nothing happens.
LEMMA Unnoticed ==
  ASSUME Inv, Inv', Reserved' = Reserved, \A p \in Reserved : Holds(p)' = Holds(p)
  PROVE  Listed' = Listed
<1>1. /\ Listed = [p \in Reserved |-> Holds(p)]
      /\ Listed' = [p \in Reserved' |-> Holds(p)']
  BY ListedFits, ListedFitsNext DEF ListedInv
<1>. QED BY <1>1

\* cancelBudget of a reserved process withdraws its reservation.
LEMMA RefineCancelBudget ==
  ASSUME Inv, Inv', NEW t \in Reserved, CancelBudget(t)
  PROVE  Abstract!Withdraw(t)
<1>1. TypeInv
  BY InvThen
<1>2. /\ is_budget_set' = is_budget_set \ {t} /\ min_budget_time' = min_budget_time
      /\ time_period' = [time_period EXCEPT ![t] = Unset]
  BY DEF CancelBudget
<1>3. \A p \in Process \ {t} : Holds(p)' = Holds(p)
  BY <1>1, <1>2 DEF Holds, TypeInv
<1>4. Reserved' = Reserved \ {t}
  BY <1>2 DEF Reserved
<1>. QED BY <1>3, <1>4, Withdrawn

\* The hook in do_exit withdraws the reservation of a process that holds one.
LEMMA RefineDoExit ==
  ASSUME Inv, Inv', NEW t \in Process, DoExit(t)
  PROVE  Abstract!Withdraw(t) \/ Listed' = Listed
<1>1. /\ is_budget_set' = is_budget_set \ {t}
      /\ min_budget_time' = min_budget_time /\ time_period' = time_period
  BY DEF DoExit
<1>2. \A p : Holds(p)' = Holds(p)
  BY <1>1 DEF Holds
<1>3. Reserved' = Reserved \ {t}
  BY <1>1 DEF Reserved
<1>4. CASE t \in Reserved
  BY <1>2, <1>3, <1>4, Withdrawn
<1>5. CASE t \notin Reserved
  <2>1. Reserved' = Reserved
    BY <1>3, <1>5
  <2>. QED BY <1>2, <2>1, Unnoticed
<1>. QED BY <1>4, <1>5

\* fork changes no reservation: the child of a reserved process has its flag and its
\* links, and is not found.
LEMMA RefineFork ==
  ASSUME Inv, Inv', NEW parent \in Process, NEW t \in Process, Fork(parent, t)
  PROVE  Listed' = Listed
<1>1. TypeInv
  BY InvThen
<1>2. /\ t \notin alive
      /\ is_budget_set' = IF parent \in is_budget_set THEN is_budget_set \cup {t}
                          ELSE is_budget_set \ {t}
      /\ time_period' = [time_period EXCEPT ![t] = time_period[parent]]
      /\ min_budget_time' = [min_budget_time EXCEPT ![t] = Unset]
  BY DEF Fork
<1>3. is_budget_set \subseteq Process /\ t \notin is_budget_set
  BY <1>1, <1>2 DEF TypeInv
<1>4. /\ min_budget_time'[t] = Unset
      /\ \A p \in Process \ {t} : /\ time_period'[p] = time_period[p]
                                 /\ min_budget_time'[p] = min_budget_time[p]
  BY <1>1, <1>2 DEF TypeInv
<1>5. Reserved' = Reserved
  BY <1>2, <1>3, <1>4 DEF Reserved
<1>6. \A p \in Reserved : Holds(p)' = Holds(p)
  BY <1>3, <1>4 DEF Reserved, Holds
<1>. QED BY <1>5, <1>6, Unnoticed

\* The registry, link by link, implements ReservationSet: no history of calls, forks
\* and exits changes the reservation of a process that did not ask for it, and
\* nothing is on the list that does not fit.
THEOREM RegistryImplementsReservationSet == DisciplinedSpec => ImplementsReservationSet
<1>1. Init => Abstract!Init
  <2>. SUFFICES ASSUME Init PROVE Abstract!Init
    OBVIOUS
  <2>1. Inv
    BY InitInv
  <2>2. Reserved = {}
    BY DEF Init, Reserved
  <2>3. Listed = [p \in {} |-> Holds(p)]
    BY <2>1, <2>2, ListedFits DEF ListedInv
  <2>. QED BY <2>3 DEF Abstract!Init
<1>2. Inv /\ Inv' /\ [DisciplinedNext]_vars => [Abstract!Next]_Listed
  <2>. SUFFICES ASSUME Inv, Inv', [DisciplinedNext]_vars
                PROVE  Abstract!Next \/ Listed' = Listed
    OBVIOUS
  <2>1. CASE UNCHANGED vars
    BY <2>1 DEF vars, Listed, Holds
  <2>2. ASSUME NEW t \in (Process \ is_budget_set) \cup Reserved, NEW cycles \in Cycles,
               NEW period \in Periods, SetProcessBudget(t, cycles, period)
        PROVE  Abstract!Next
    <3>1. Abstract!Grant(t)
      BY <2>2, RefineSetProcessBudget
    <3>2. t \in Process
      BY ListedFits DEF ListedInv
    <3>. QED BY <3>1, <3>2 DEF Abstract!Next
  <2>3. ASSUME NEW t \in Reserved, CancelBudget(t) PROVE Abstract!Next
    <3>1. Abstract!Withdraw(t)
      BY <2>3, RefineCancelBudget
    <3>2. t \in Process
      BY ListedFits DEF ListedInv
    <3>. QED BY <3>1, <3>2 DEF Abstract!Next
  <2>4. ASSUME NEW t \in Process, DoExit(t) PROVE Abstract!Next \/ Listed' = Listed
    BY <2>4, RefineDoExit DEF Abstract!Next
  <2>5. ASSUME NEW parent \in Process, NEW t \in Process, Fork(parent, t) PROVE Listed' = Listed
    BY <2>5, RefineFork
  <2>. QED BY <2>1, <2>2, <2>3, <2>4, <2>5 DEF DisciplinedNext
<1>. QED BY <1>1, <1>2, RegistryInvariant, PTL DEF DisciplinedSpec, ImplementsReservationSet, Abstract!Spec
=============================================================================
