--------------------------- MODULE AdmissionProofs ---------------------------
(***************************************************************************)
(* The admission test decides what it is meant to decide: rt_test is       *)
(* time-demand analysis, __check_admission passes exactly the task sets    *)
(* that meet their deadlines on a rate-monotonic processor, and neither the *)
(* order of ties nor the loss of a task turns a passing set into a failing one. *)
(***************************************************************************)
EXTENDS RTAdmission, SumProofs, SequenceTheorems

\* The ceiling of sched.c: the least number of periods that cover a.
LEMMA CeilingBounds ==
  ASSUME NEW a \in Nat, NEW p \in Nat \ {0}
  PROVE  /\ ceiling(a, p) \in Nat
         /\ a <= ceiling(a, p) * p
         /\ a > 0 => (ceiling(a, p) - 1) * p < a
<1>1. a \div p \in Nat /\ a % p \in 0 .. p - 1 
  OBVIOUS
<1>2. a = p * (a \div p) + (a % p)
  OBVIOUS
<1>3. (a \div p) * p = p * (a \div p) /\ ((a \div p) + 1) * p = p * (a \div p) + p /\ ((a \div p) - 1) * p = p * (a \div p) - p
  BY <1>1
<1>4. CASE a % p > 0
  <2>1. ceiling(a, p) = a \div p + 1 /\ ceiling(a, p) - 1 = a \div p
    BY <1>1, <1>4 DEF ceiling
  <2>. QED BY <1>1, <1>2, <1>3, <1>4, <2>1
<1>5. CASE a % p = 0
  <2>1. ceiling(a, p) = a \div p
    BY <1>1, <1>5 DEF ceiling
  <2>. QED BY <1>1, <1>2, <1>3, <1>5, <2>1
<1>. QED BY <1>1, <1>4, <1>5

\* Multiplication by a natural number is monotone.
LEMMA TimesMonotone ==
  ASSUME NEW a \in Int, NEW b \in Int, NEW p \in Nat, a <= b
  PROVE  a * p <= b * p
<1>1. (b - a) * p >= 0 /\ (b - a) * p = b * p - a * p
  OBVIOUS
<1>2. a * p \in Int /\ b * p \in Int
  OBVIOUS
<1>. QED BY <1>1, <1>2

\* No fewer periods than the ceiling cover a.
LEMMA CeilingLeast ==
  ASSUME NEW a \in Nat, NEW p \in Nat \ {0}, NEW k \in Nat, a <= k * p
  PROVE  ceiling(a, p) <= k
<1>. DEFINE c == ceiling(a, p)
<1>1. c \in Nat /\ (a > 0 => (c - 1) * p < a)
  BY CeilingBounds
<1>2. CASE a = 0
  BY <1>2 DEF ceiling
<1>3. CASE a > 0
  <2>. SUFFICES ASSUME c > k PROVE FALSE
    BY <1>1
  <2>. HIDE DEF c
  <2>1. k * p <= (c - 1) * p
    BY <1>1, TimesMonotone
  <2>2. k * p \in Int /\ (c - 1) * p \in Int
    BY <1>1
  <2>. QED BY <1>1, <1>3, <2>1, <2>2
<1>. QED BY <1>2, <1>3

\* A later moment has had no fewer releases.
LEMMA CeilingMonotone ==
  ASSUME NEW a \in Nat, NEW b \in Nat, NEW p \in Nat \ {0}, a <= b
  PROVE  ceiling(a, p) <= ceiling(b, p)
<1>1. ceiling(b, p) \in Nat /\ b <= ceiling(b, p) * p
  BY CeilingBounds
<1>2. a <= ceiling(b, p) * p
  BY <1>1
<1>. QED BY <1>1, <1>2, CeilingLeast

\* Up to the end of the first period one job was released.
LEMMA CeilingOne ==
  ASSUME NEW a \in Nat \ {0}, NEW p \in Nat \ {0}
  PROVE  /\ ceiling(a, p) >= 1
         /\ a <= p => ceiling(a, p) = 1
<1>1. ceiling(a, p) \in Nat /\ a <= ceiling(a, p) * p
  BY CeilingBounds
<1>2. ceiling(a, p) # 0
  BY <1>1
<1>3. a <= p => ceiling(a, p) <= 1
  BY CeilingLeast
<1>. QED BY <1>1, <1>2, <1>3

\* The jobs released before a are those released up to a - 1.
LEMMA CeilingIsReleases ==
  ASSUME NEW a \in Nat \ {0}, NEW p \in Nat \ {0}
  PROVE  ceiling(a, p) = (a - 1) \div p + 1
<1>. DEFINE q == (a - 1) \div p
            c == ceiling(a, p)
<1>1. a - 1 \in Nat /\ q \in Nat /\ (a - 1) % p \in 0 .. p - 1
      /\ a - 1 = p * q + ((a - 1) % p)
  OBVIOUS
<1>2. p * q = q * p /\ (q + 1) * p = q * p + p /\ q * p \in Int /\ (q + 1) * p \in Int
  BY <1>1
<1>3. q * p < a /\ a <= (q + 1) * p
  BY <1>1, <1>2
<1>4. c \in Nat /\ a <= c * p
  BY CeilingBounds
<1>5. c <= q + 1
  BY <1>1, <1>3, CeilingLeast
<1>6. c > q
  <2>. SUFFICES ASSUME c <= q PROVE FALSE
    BY <1>1, <1>4
  <2>. HIDE DEF c, q
  <2>1. c * p <= q * p
    BY <1>1, <1>4, TimesMonotone
  <2>2. c * p \in Int
    BY <1>4
  <2>. QED BY <1>2, <1>3, <1>4, <2>1, <2>2
<1>. HIDE DEF c, q
<1>7. c = q + 1
  BY <1>1, <1>4, <1>5, <1>6
<1>. QED BY <1>7 DEF c, q

\* The task arrays of the admission test, in microseconds.
TaskRecord == [budget : Nat, period : Nat \ {0}]
TaskList == Seq(TaskRecord)

\* What is in a task array.
LEMMA TaskListFacts ==
  ASSUME NEW list \in TaskList
  PROVE  /\ Len(list) \in Nat
         /\ \A i \in 1 .. Len(list) : list[i].budget \in Nat /\ list[i].period \in Nat \ {0}
<1>1. Len(list) \in Nat /\ \A i \in 1 .. Len(list) : list[i] \in TaskRecord
  BY DEF TaskList
<1>2. \A t \in TaskRecord : t.budget \in Nat /\ t.period \in Nat \ {0}
  BY DEF TaskRecord
<1>. QED BY <1>1, <1>2

\* The work task i has released before the moment a.
Released(list, a) == [i \in 1 .. Len(list) |-> ceiling(a, list[i].period) * list[i].budget]

\* Released work grows with time, and is one budget until the first deadline.
LEMMA ReleasedFacts ==
  ASSUME NEW list \in TaskList, NEW i \in 1 .. Len(list)
  PROVE  /\ \A a \in Nat : Released(list, a)[i] \in Nat
         /\ \A a, b \in Nat : a <= b => Released(list, a)[i] <= Released(list, b)[i]
         /\ \A a \in Nat \ {0} : list[i].budget <= Released(list, a)[i]
         /\ \A a \in 1 .. list[i].period : Released(list, a)[i] = list[i].budget
<1>. DEFINE c(a) == ceiling(a, list[i].period)
            b == list[i].budget
<1>1. b \in Nat /\ list[i].period \in Nat \ {0}
  BY TaskListFacts
<1>2. \A a \in Nat : c(a) \in Nat
  BY <1>1, CeilingBounds
<1>3. \A a1, a2 \in Nat : a1 <= a2 => c(a1) <= c(a2)
  BY <1>1, CeilingMonotone
<1>4. \A a \in Nat \ {0} : c(a) >= 1 /\ (a <= list[i].period => c(a) = 1)
  BY <1>1, CeilingOne
<1>5. \A a : Released(list, a)[i] = c(a) * b
  BY DEF Released
<1>. HIDE DEF c, b
<1>6. ASSUME NEW a \in Nat PROVE Released(list, a)[i] \in Nat
  <2>1. c(a) \in Nat /\ \A x, y \in Nat : x * y \in Nat
    BY <1>2
  <2>. QED BY <1>1, <1>5, <2>1
<1>7. ASSUME NEW a1 \in Nat, NEW a2 \in Nat, a1 <= a2
      PROVE  Released(list, a1)[i] <= Released(list, a2)[i]
  <2>1. c(a1) \in Int /\ c(a2) \in Int /\ c(a1) <= c(a2)
    BY <1>2, <1>3, <1>7
  <2>2. c(a1) * b <= c(a2) * b
    BY <1>1, <2>1, TimesMonotone
  <2>. QED BY <1>5, <2>2
<1>8. ASSUME NEW a \in Nat \ {0} PROVE b <= Released(list, a)[i]
  <2>0. c(a) \in Nat
    BY <1>2
  <2>a. c(a) >= 1
    BY <1>4
  <2>1. c(a) \in Int /\ 1 <= c(a)
    BY <2>0, <2>a
  <2>2. 1 * b <= c(a) * b
    <3>1. 1 \in Int /\ b \in Nat
      BY <1>1
    <3>. QED BY ONLY <2>1, <3>1, TimesMonotone, Zenon
  <2>3. 1 * b = b
    BY <1>1
  <2>. QED BY <1>5, <2>2, <2>3
<1>9. ASSUME NEW a \in 1 .. list[i].period PROVE Released(list, a)[i] = b
  <2>1. a \in Nat \ {0} /\ a <= list[i].period
    BY <1>1
  <2>2. c(a) = 1 /\ 1 * b = b
    BY <1>1, <1>4, <2>1
  <2>. QED BY <1>5, <2>2
<1>. QED BY <1>6, <1>7, <1>8, <1>9 DEF b

\* The tasks before a position.
LEMMA Prefix ==
  ASSUME NEW n \in Nat, NEW k \in 0 .. n
  PROVE  /\ IsFiniteSet(1 .. k) /\ 1 .. k \subseteq 1 .. n
         /\ k > 0 => k \in 1 .. k /\ (1 .. k) \ {k} = 1 .. k - 1 /\ k - 1 \in 0 .. n
<1>1. k \in Int /\ 1 \in Int
  OBVIOUS
<1>. QED BY <1>1, FS_Interval

\* The inner loop of rt_test adds up the released work of the tasks before pos.
LEMMA DemandIsSum ==
  ASSUME NEW list \in TaskList, NEW pos \in 1 .. Len(list), NEW a \in Nat
  PROVE  demand(list, pos, a) = list[pos].budget + SumFunctionOnSet(Released(list, a), 1 .. pos - 1)
<1>. DEFINE f == [i \in 1 .. pos - 1 |-> ceiling(a, list[i].period) * list[i].budget]
<1>1. Len(list) \in Nat /\ pos - 1 \in 0 .. Len(list) /\ IsFiniteSet(1 .. pos - 1) /\ 1 .. pos - 1 \subseteq 1 .. Len(list)
  <2>1. Len(list) \in Nat /\ pos - 1 \in 0 .. Len(list)
    BY TaskListFacts
  <2>. QED BY <2>1, Prefix
<1>2. \A i \in 1 .. pos - 1 : f[i] \in Int /\ f[i] = Released(list, a)[i]
  <2>. SUFFICES ASSUME NEW i \in 1 .. pos - 1 PROVE f[i] \in Int /\ f[i] = Released(list, a)[i]
    OBVIOUS
  <2>1. i \in 1 .. Len(list)
    BY <1>1
  <2>2. f[i] = Released(list, a)[i]
    BY <2>1 DEF Released
  <2>3. Released(list, a)[i] \in Nat
    BY <2>1, ReleasedFacts
  <2>. QED BY <2>2, <2>3
<1>3. SumFunction(f) = SumFunctionOnSet(f, 1 .. pos - 1)
  BY DEF SumFunction
<1>4. SumFunctionOnSet(f, 1 .. pos - 1) = SumFunctionOnSet(Released(list, a), 1 .. pos - 1)
  <2>. HIDE DEF f
  <2>. QED BY <1>1, <1>2, SumEqual
<1>. QED BY <1>3, <1>4 DEF demand

\* The demand is a natural number, and grows with time.
LEMMA DemandFacts ==
  ASSUME NEW list \in TaskList, NEW pos \in 1 .. Len(list)
  PROVE  /\ \A a \in Nat : demand(list, pos, a) \in Nat
         /\ \A a, b \in Nat : a <= b => demand(list, pos, a) <= demand(list, pos, b)
<1>. DEFINE D == 1 .. pos - 1
            sum(a) == SumFunctionOnSet(Released(list, a), D)
<1>1. IsFiniteSet(D) /\ D \subseteq 1 .. Len(list)
  <2>1. Len(list) \in Nat /\ pos - 1 \in 0 .. Len(list)
    BY TaskListFacts
  <2>. QED BY <2>1, Prefix
<1>2. list[pos].budget \in Nat
  BY TaskListFacts
<1>. HIDE DEF D
<1>3. \A a \in Nat : sum(a) \in Nat
  <2>. SUFFICES ASSUME NEW a \in Nat PROVE sum(a) \in Nat
    OBVIOUS
  <2>1. \A i \in D : Released(list, a)[i] \in Nat
    BY <1>1, ReleasedFacts
  <2>. QED BY <1>1, <2>1, SumNat
<1>4. \A a, b \in Nat : a <= b => sum(a) <= sum(b)
  <2>. SUFFICES ASSUME NEW a \in Nat, NEW b \in Nat, a <= b PROVE sum(a) <= sum(b)
    OBVIOUS
  <2>1. \A i \in D : Released(list, a)[i] \in Int /\ Released(list, b)[i] \in Int
                       /\ Released(list, a)[i] <= Released(list, b)[i]
    BY <1>1, ReleasedFacts
  <2>. QED BY <1>1, <2>1, SumLeq
<1>5. \A a \in Nat : demand(list, pos, a) = list[pos].budget + sum(a)
  BY DemandIsSum DEF D
<1>. HIDE DEF sum
<1>6. ASSUME NEW a \in Nat, NEW b \in Nat, a <= b PROVE demand(list, pos, a) <= demand(list, pos, b)
  <2>1. sum(a) \in Nat /\ sum(b) \in Nat /\ sum(a) <= sum(b)
    BY <1>3, <1>4, <1>6
  <2>2. list[pos].budget + sum(a) <= list[pos].budget + sum(b)
    BY <1>2, <2>1
  <2>. QED BY <1>5, <2>2
<1>7. ASSUME NEW a \in Nat PROVE demand(list, pos, a) \in Nat
  <2>1. sum(a) \in Nat
    BY <1>3
  <2>2. list[pos].budget + sum(a) \in Nat
    BY <1>2, <2>1
  <2>. QED BY <1>5, <2>2
<1>. QED BY <1>6, <1>7

\* A bounded set of natural numbers that is not empty has a greatest element.
LEMMA NatGreatest ==
  ASSUME NEW A \in SUBSET Nat, A # {}, NEW b \in Nat, \A a \in A : a <= b
  PROVE  \E m \in A : \A a \in A : a <= m
<1>. DEFINE B == {b - a : a \in A}
<1>0. \A a \in A : a \in Nat /\ b - a \in Nat
  OBVIOUS
<1>1. B \in SUBSET Nat /\ B # {}
  BY <1>0
<1>2. PICK d \in B : \A e \in B : d <= e
  <2>. HIDE DEF B
  <2>. QED BY <1>1, NatLeast
<1>3. PICK m \in A : d = b - m
  OBVIOUS
<1>4. ASSUME NEW a \in A PROVE a <= m
  <2>1. b - a \in B
    OBVIOUS
  <2>2. b - m <= b - a
    BY <1>2, <1>3, <2>1
  <2>3. a \in Nat /\ m \in Nat
    OBVIOUS
  <2>. QED BY <2>2, <2>3
<1>. QED BY <1>4

\* The recursion of rt_test, with the demand as a function.
Stationary(D, T, f) == f = [a \in Nat |-> a <= T /\ (D[a] # a => f[D[a]])]

\* The while loop of rt_test ends: the recursion has a solution whether the demand
\* grows past the deadline or comes to rest.
LEMMA StationaryExists ==
  ASSUME NEW D, \A a \in Nat : D[a] \in Nat, NEW T \in Nat
  PROVE  \E f : Stationary(D, T, f)
<1>. DEFINE Closed(X) == \A x \in X : x <= T /\ (D[x] # x => D[x] \in X)
            G == UNION {X \in SUBSET Nat : Closed(X)}
            f == [a \in Nat |-> a \in G]
<1>1. Closed(G) /\ G \subseteq Nat
  OBVIOUS
<1>2. ASSUME NEW a \in Nat, a <= T, D[a] # a => D[a] \in G PROVE a \in G
  <2>1. Closed(G \cup {a})
    BY <1>1, <1>2
  <2>2. G \cup {a} \in SUBSET Nat
    BY <1>1
  <2>. HIDE DEF Closed
  <2>. QED BY <2>1, <2>2
<1>. HIDE DEF G
<1>3. ASSUME NEW a \in Nat PROVE f[a] = (a <= T /\ (D[a] # a => f[D[a]]))
  <2>1. f[a] = (a \in G) /\ f[D[a]] = (D[a] \in G)
    OBVIOUS
  <2>2. a \in G <=> a <= T /\ (D[a] # a => D[a] \in G)
    BY <1>1, <1>2
  <2>3. (a \in G) = (a <= T /\ (D[a] # a => D[a] \in G))
    BY <2>2
  <2>4. (a \in G) = (a <= T /\ (D[a] # a => f[D[a]]))
    BY <2>1, <2>3
  <2>. QED BY <2>1, <2>4
<1>4. f = [a \in Nat |-> f[a]]
  OBVIOUS
<1>. HIDE DEF f
<1>5. f = [a \in Nat |-> a <= T /\ (D[a] # a => f[D[a]])]
  BY <1>3, <1>4
<1>. QED BY <1>5 DEF Stationary

\* The iteration, begun below every fixed point, succeeds exactly if the demand
\* fits at some moment up to T; it cannot jump over the least such moment.
LEMMA StationaryIsFixedPoint ==
  ASSUME NEW D, \A a \in Nat : D[a] \in Nat,
         \A a, b \in Nat : a <= b => D[a] <= D[b],
         NEW T \in Nat \ {0}, NEW s \in Nat,
         \A a \in Nat \ {0} : s <= D[a],
         s = 0 => D[0] = 0 /\ D[1] = 0,
         NEW f, Stationary(D, T, f)
  PROVE  f[s] <=> \E a \in 1 .. T : D[a] <= a
<1>0. \A a \in Nat : f[a] <=> a <= T /\ (D[a] # a => f[D[a]])
  BY DEF Stationary
<1>1. CASE s = 0
  <2>1. f[0]
    BY <1>0, <1>1
  <2>2. 1 \in 1 .. T /\ D[1] <= 1
    BY <1>1
  <2>. QED BY <1>1, <2>1, <2>2
<1>2. CASE s # 0
  <2>0. s \in Nat \ {0} /\ s <= D[s]
    BY <1>2
  <2>1. ASSUME f[s], \A a \in 1 .. T : ~(D[a] <= a) PROVE FALSE
    <3>. DEFINE A == {a \in 1 .. T : f[a] /\ a <= D[a]}
    <3>1. s \in A
      BY <1>0, <2>0, <2>1
    <3>2. PICK m \in A : \A a \in A : a <= m
      <4>1. A \in SUBSET Nat /\ A # {} /\ T \in Nat /\ \A a \in A : a <= T
        BY <3>1
      <4>. HIDE DEF A
      <4>. QED BY <4>1, NatGreatest
    <3>3. m \in 1 .. T /\ m \in Nat /\ f[m] /\ D[m] \in Nat /\ ~(D[m] <= m)
      BY <2>1
    <3>4. f[D[m]] /\ D[m] <= T
      BY <1>0, <3>3
    <3>5. D[m] \in 1 .. T /\ D[m] <= D[D[m]]
      BY <3>3, <3>4
    <3>6. D[m] \in A
      BY <3>4, <3>5
    <3>7. D[m] <= m
      BY <3>2, <3>6
    <3>. QED BY <3>3, <3>7
  <2>2. ASSUME NEW w \in 1 .. T, D[w] <= w, ~f[s] PROVE FALSE
    <3>. DEFINE A == {a \in Nat : a <= w /\ a <= D[a] /\ ~f[a]}
    <3>0. w \in Nat /\ w \in Nat \ {0} /\ w <= T /\ D[w] \in Nat
      OBVIOUS
    <3>1. s \in A
      <4>1. s <= D[w]
        BY <3>0
      <4>2. s <= w
        BY <4>1, <3>0, <2>2
      <4>. QED BY <2>0, <2>2, <4>2
    <3>2. PICK m \in A : \A a \in A : a <= m
      <4>1. A \in SUBSET Nat /\ A # {} /\ w \in Nat /\ \A a \in A : a <= w
        BY <3>1
      <4>. HIDE DEF A
      <4>. QED BY <4>1, NatGreatest
    <3>3. m \in Nat /\ m <= w /\ m <= D[m] /\ ~f[m] /\ D[m] \in Nat /\ m <= T
      BY <3>0
    <3>4. D[m] # m /\ ~f[D[m]]
      BY <1>0, <3>3
    <3>5. D[m] <= D[D[m]] /\ D[m] <= D[w]
      BY <3>0, <3>3
    <3>6. D[m] <= w
      BY <2>2, <3>0, <3>3, <3>5
    <3>7. D[m] \in A
      BY <3>3, <3>4, <3>5, <3>6
    <3>8. D[m] <= m
      BY <3>2, <3>7
    <3>. QED BY <3>3, <3>4, <3>8
  <2>. QED BY <2>1, <2>2
<1>. QED BY <1>1, <1>2

\* The start of rt_test's iteration is the demand at the first moment.
LEMMA FirstGuess ==
  ASSUME NEW list \in TaskList, NEW pos \in 1 .. Len(list)
  PROVE  LET s == SumFunction([i \in 1 .. pos |-> list[i].budget])
         IN  /\ s \in Nat
             /\ s = demand(list, pos, 1)
<1>. DEFINE f == [i \in 1 .. pos |-> list[i].budget]
            R == Released(list, 1)
            D == 1 .. pos - 1
<1>1. /\ IsFiniteSet(1 .. pos) /\ 1 .. pos \subseteq 1 .. Len(list) /\ pos \in 1 .. pos
      /\ IsFiniteSet(D) /\ (1 .. pos) \ {pos} = D
  <2>1. Len(list) \in Nat /\ pos \in 0 .. Len(list) /\ pos > 0 /\ pos - 1 \in 0 .. Len(list)
    BY TaskListFacts
  <2>. QED BY <2>1, Prefix
<1>2. ASSUME NEW i \in 1 .. pos
      PROVE  f[i] = list[i].budget /\ f[i] \in Nat /\ R[i] = list[i].budget
  <2>1. i \in 1 .. Len(list)
    BY <1>1
  <2>2. list[i].budget \in Nat /\ list[i].period \in Nat \ {0}
    BY <2>1, TaskListFacts
  <2>3. 1 \in 1 .. list[i].period
    BY <2>2
  <2>. QED BY <2>1, <2>2, <2>3, ReleasedFacts
<1>3. SumFunction(f) = SumFunctionOnSet(f, 1 .. pos)
  BY DEF SumFunction
<1>4. demand(list, pos, 1) = list[pos].budget + SumFunctionOnSet(R, D)
  BY DemandIsSum
<1>5. (\A i \in 1 .. pos : f[i] \in Nat /\ f[i] \in Int) /\ f[pos] = list[pos].budget
      /\ \A i \in D : f[i] \in Int /\ f[i] = R[i]
  BY <1>1, <1>2
<1>. HIDE DEF f, R, D
<1>6. SumFunctionOnSet(f, 1 .. pos) \in Nat
  BY <1>1, <1>5, SumNat
<1>7. SumFunctionOnSet(f, 1 .. pos) = f[pos] + SumFunctionOnSet(f, (1 .. pos) \ {pos})
  BY <1>1, <1>5, SumStep
<1>8. SumFunctionOnSet(f, D) = SumFunctionOnSet(R, D)
  BY <1>1, <1>5, SumEqual
<1>9. SumFunction(f) \in Nat /\ SumFunction(f) = demand(list, pos, 1)
  BY <1>1, <1>3, <1>4, <1>5, <1>6, <1>7, <1>8
<1>. QED BY <1>9 DEF f

\* rt_test of task pos succeeds exactly if its work and that of the tasks before it
\* fits at some moment up to its deadline, for every task array.
THEOREM RtTestIsTimeDemandAnalysis ==
  ASSUME NEW list \in TaskList, NEW pos \in 1 .. Len(list)
  PROVE  rt_test(list, pos) <=> TimeDemandMet(list, pos)
<1>. DEFINE T == list[pos].period
            D == [a \in Nat |-> demand(list, pos, a)]
            s == SumFunction([i \in 1 .. pos |-> list[i].budget])
            step(f) == [a \in Nat |-> /\ a <= list[pos].period
                                      /\ demand(list, pos, a) # a => f[demand(list, pos, a)]]
            f == CHOOSE f : f = step(f)
<1>1. T \in Nat \ {0}
  BY TaskListFacts
<1>2. \A a \in Nat : D[a] = demand(list, pos, a) /\ D[a] \in Nat
  BY DemandFacts
<1>3. \A a, b \in Nat : a <= b => D[a] <= D[b]
  BY <1>2, DemandFacts
<1>4. s \in Nat /\ s = D[1]
  BY <1>2, FirstGuess
<1>5. \A g : Stationary(D, T, g) <=> g = step(g)
  <2>. SUFFICES ASSUME NEW g
                PROVE  step(g) = [a \in Nat |-> a <= T /\ (D[a] # a => g[D[a]])]
    BY DEF Stationary
  <2>. QED BY <1>2
<1>. HIDE DEF D, T, s
<1>6. Stationary(D, T, f)
  <2>1. \E g : Stationary(D, T, g)
    BY <1>1, <1>2, StationaryExists
  <2>2. \E g : g = step(g)
    BY <1>5, <2>1
  <2>3. f = step(f)
    BY <2>2
  <2>. QED BY <1>5, <2>3 DEF Recursion
<1>7. rt_test(list, pos) <=> f[s]
  BY DEF rt_test, s
<1>8. TimeDemandMet(list, pos) <=> \E a \in 1 .. T : D[a] <= a
  <2>1. \A a \in 1 .. T : D[a] = demand(list, pos, a)
    BY <1>1, <1>2
  <2>. QED BY <2>1 DEF TimeDemandMet, T
<1>. HIDE DEF f, step
<1>9. (\A a \in Nat \ {0} : s <= D[a]) /\ (s = 0 => D[0] = 0 /\ D[1] = 0)
  <2>1. D[0] <= D[1] /\ D[0] \in Nat
    BY <1>2, <1>3
  <2>2. \A a \in Nat \ {0} : a \in Nat /\ 1 <= a
    OBVIOUS
  <2>. QED BY <1>3, <1>4, <2>1, <2>2
<1>10. f[s] <=> \E a \in 1 .. T : D[a] <= a
  <2>1. /\ \A a \in Nat : D[a] \in Nat
        /\ s \in Nat
    BY <1>2, <1>4
  <2>. QED BY ONLY <1>1, <1>3, <1>6, <1>9, <2>1, StationaryIsFixedPoint, Zenon
<1>. QED BY <1>7, <1>8, <1>10

-----------------------------------------------------------------------------

\* The recursion of Served: the state at the critical instant, and what a unit of
\* time makes of the state s.
ServedStart(list) ==
    [pending |-> [i \in DOMAIN list |-> list[i].budget], done |-> [i \in DOMAIN list |-> 0]]

ServedStep(list, s, now) ==
    LET ready == {i \in DOMAIN list : s.pending[i] > 0}
        runs(i) == ready # {} /\ i = Min(ready)
        released(i) == IF now % list[i].period = 0 THEN list[i].budget ELSE 0
    IN  [pending |-> [i \in DOMAIN list |-> s.pending[i] + released(i)
                                              - (IF runs(i) THEN 1 ELSE 0)],
         done |-> [i \in DOMAIN list |-> s.done[i] + (IF runs(i) THEN 1 ELSE 0)]]

\* The processor of the reference: its state at 0 and after each unit of time.
LEMMA ServedRecursion ==
  ASSUME NEW list \in TaskList
  PROVE  LET at == Served(list)
         IN  /\ at[0] = ServedStart(list)
             /\ \A n \in Nat : at[n + 1] = ServedStep(list, at[n], n + 1)
             /\ \A n \in Nat : \A i \in DOMAIN list : at[n].done[i] \in Int /\ at[n].pending[i] \in Int
<1>. DEFINE job == DOMAIN list
            S == [pending : [job -> Int], done : [job -> Int]]
            F == [n \in Nat |-> [s \in S |-> ServedStep(list, s, n)]]
            step(at) == [now \in Nat |-> IF now = 0 THEN ServedStart(list)
                                         ELSE ServedStep(list, at[now - 1], now)]
            at == CHOOSE at : at = step(at)
<1>1. \A i \in job : list[i].budget \in Int /\ list[i].budget \in Nat
  BY TaskListFacts DEF TaskList
<1>2. ServedStart(list) \in S
  BY <1>1 DEF ServedStart
<1>3. ASSUME NEW s \in S, NEW n \in Nat PROVE ServedStep(list, s, n) \in S
  <2>1. \A i \in job : s.pending[i] \in Int /\ s.done[i] \in Int
    OBVIOUS
  <2>. DEFINE ready == {i \in DOMAIN list : s.pending[i] > 0}
              runs(i) == ready # {} /\ i = Min(ready)
              released(i) == IF n % list[i].period = 0 THEN list[i].budget ELSE 0
              unit(i) == IF runs(i) THEN 1 ELSE 0
  <2>2. \A i \in job : released(i) \in Int /\ unit(i) \in Int
    BY <1>1
  <2>3. ServedStep(list, s, n) =
          [pending |-> [i \in job |-> s.pending[i] + released(i) - unit(i)],
           done |-> [i \in job |-> s.done[i] + unit(i)]]
    BY DEF ServedStep
  <2>. HIDE DEF released, unit
  <2>4. \A i \in job : s.pending[i] + released(i) - unit(i) \in Int /\ s.done[i] + unit(i) \in Int
    BY <2>1, <2>2
  <2>. QED BY <2>3, <2>4
<1>4. \A n \in Nat, s \in S : F[n][s] = ServedStep(list, s, n) /\ F[n][s] \in S
  BY <1>3
<1>. HIDE DEF F
<1>5. PICK g : Recursion(S, ServedStart(list), F, g)
  <2>1. \A n \in Nat, s \in S : F[n][s] \in S
    BY <1>4
  <2>. HIDE DEF S
  <2>. QED BY <1>2, <2>1, RecursionExists
<1>6. g = step(g)
  <2>. HIDE DEF S
  <2>1. \A n \in Nat : n # 0 => n - 1 \in Nat
    OBVIOUS
  <2>2. \A n \in Nat : n # 0 => F[n][g[n - 1]] = ServedStep(list, g[n - 1], n)
    BY <1>4, <1>5, <2>1 DEF Recursion
  <2>3. [n \in Nat |-> IF n = 0 THEN ServedStart(list) ELSE F[n][g[n - 1]]] = step(g)
    BY <2>2
  <2>. QED BY <1>5, <2>3 DEF Recursion
<1>7. at = step(at)
  BY <1>6, Zenon
<1>8. Served(list) = at
  BY DEF Served, ServedStart, ServedStep
<1>. HIDE DEF at
<1>9. at[0] = ServedStart(list) /\ \A n \in Nat : at[n + 1] = ServedStep(list, at[n], n + 1)
  <2>1. \A n \in Nat : at[n] = IF n = 0 THEN ServedStart(list) ELSE ServedStep(list, at[n - 1], n)
    BY <1>7
  <2>2. ASSUME NEW n \in Nat PROVE n + 1 \in Nat /\ n + 1 # 0 /\ (n + 1) - 1 = n
    OBVIOUS
  <2>. QED BY <2>1, <2>2
<1>10. \A n \in Nat : at[n] \in S
  <2>. DEFINE T == {n \in Nat : at[n] \in S}
  <2>1. 0 \in T
    BY <1>2, <1>9
  <2>2. ASSUME NEW n \in Nat, n \in T PROVE n + 1 \in T
    <3>. HIDE DEF S
    <3>1. n + 1 \in Nat
      OBVIOUS
    <3>2. at[n + 1] \in S
      BY <1>3, <1>9, <2>2, <3>1
    <3>. QED BY <3>1, <3>2
  <2>3. Nat \subseteq T
    <3>. HIDE DEF T
    <3>. QED BY <2>1, <2>2, SetInduction
  <2>. QED BY <2>3
<1>11. \A n \in Nat : \A i \in job : at[n].done[i] \in Int /\ at[n].pending[i] \in Int
  BY <1>10
<1>. QED BY <1>8, <1>9, <1>11

\* Quotient and remainder are unique.
LEMMA DivUnique ==
  ASSUME NEW a \in Nat, NEW p \in Nat \ {0}, NEW q \in Nat, NEW r \in 0 .. p - 1, a = q * p + r
  PROVE  a \div p = q /\ a % p = r
<1>. DEFINE d == a \div p
            m == a % p
<1>1. d \in Nat /\ m \in 0 .. p - 1 /\ a = p * d + m
  OBVIOUS
<1>. HIDE DEF d, m
<1>2. p * d = d * p /\ (d + 1) * p = d * p + p /\ (q + 1) * p = q * p + p
      /\ d * p \in Int /\ q * p \in Int
  BY <1>1
<1>3. ~(d < q)
  <2>. SUFFICES ASSUME d + 1 <= q PROVE FALSE
    BY <1>1
  <2>1. (d + 1) * p <= q * p
    BY <1>1, TimesMonotone
  <2>. QED BY <1>1, <1>2, <2>1
<1>4. ~(q < d)
  <2>. SUFFICES ASSUME q + 1 <= d PROVE FALSE
    BY <1>1
  <2>1. (q + 1) * p <= d * p
    BY <1>1, TimesMonotone
  <2>. QED BY <1>1, <1>2, <2>1
<1>5. d = q
  BY <1>1, <1>3, <1>4
<1>6. m = r
  BY <1>1, <1>2, <1>5
<1>. QED BY <1>5, <1>6 DEF d, m

\* A job is released at each multiple of the period.
LEMMA CeilingStep ==
  ASSUME NEW n \in Nat, NEW p \in Nat \ {0}
  PROVE  ceiling(n + 2, p) = ceiling(n + 1, p) + (IF (n + 1) % p = 0 THEN 1 ELSE 0)
<1>. DEFINE q == n \div p
            r == n % p
<1>1. q \in Nat /\ r \in 0 .. p - 1 /\ n = p * q + r
  OBVIOUS
<1>2. ceiling(n + 1, p) = q + 1 /\ ceiling(n + 2, p) = (n + 1) \div p + 1
  <2>1. n + 1 \in Nat \ {0} /\ n + 2 \in Nat \ {0} /\ (n + 1) - 1 = n /\ (n + 2) - 1 = n + 1
    OBVIOUS
  <2>. QED BY <2>1, CeilingIsReleases
<1>. HIDE DEF q, r
<1>3. p * q = q * p /\ (q + 1) * p = q * p + p /\ q * p \in Int
  BY <1>1
<1>4. CASE r = p - 1
  <2>1. n + 1 = (q + 1) * p + 0 /\ n + 1 \in Nat /\ q + 1 \in Nat /\ 0 \in 0 .. p - 1
    BY <1>1, <1>3, <1>4
  <2>2. (n + 1) \div p = q + 1 /\ (n + 1) % p = 0
    BY <2>1, DivUnique
  <2>. QED BY <1>1, <1>2, <2>2
<1>5. CASE r # p - 1
  <2>1. n + 1 = q * p + (r + 1) /\ n + 1 \in Nat /\ r + 1 \in 0 .. p - 1 /\ r + 1 # 0
    BY <1>1, <1>3, <1>5
  <2>2. (n + 1) \div p = q /\ (n + 1) % p = r + 1
    BY <1>1, <2>1, DivUnique
  <2>. QED BY <1>1, <1>2, <2>1, <2>2
<1>. QED BY <1>4, <1>5

\* The task that runs in the unit of time that begins at n.
RunsAt(list, n, i) ==
    /\ Served(list)[n].pending[i] > 0
    /\ \A j \in DOMAIN list : Served(list)[n].pending[j] > 0 => i <= j

\* A unit of time: the task that runs has done one unit more, and what is released
\* is pending.
LEMMA ServedUnit ==
  ASSUME NEW list \in TaskList, NEW n \in Nat, NEW i \in DOMAIN list
  PROVE  LET s == Served(list)[n]
             t == Served(list)[n + 1]
             unit == IF RunsAt(list, n, i) THEN 1 ELSE 0
         IN  /\ t.done[i] = s.done[i] + unit
             /\ t.pending[i] = s.pending[i] - unit
                                 + (Released(list, n + 2)[i] - Released(list, n + 1)[i])
<1>. DEFINE s == Served(list)[n]
            t == Served(list)[n + 1]
            ready == {k \in DOMAIN list : s.pending[k] > 0}
            runs(k) == ready # {} /\ k = Min(ready)
            rel == IF (n + 1) % list[i].period = 0 THEN list[i].budget ELSE 0
            unit == IF runs(i) THEN 1 ELSE 0
<1>0. DOMAIN list = 1 .. Len(list) /\ i \in 1 .. Len(list) /\ i \in Nat
  BY TaskListFacts DEF TaskList
<1>1. t = ServedStep(list, s, n + 1) /\ s.done[i] \in Int /\ s.pending[i] \in Int
  BY ServedRecursion
<1>2. t.done[i] = s.done[i] + unit /\ t.pending[i] = s.pending[i] + rel - unit
  BY <1>1 DEF ServedStep
<1>3. runs(i) <=> RunsAt(list, n, i)
  <2>1. ready \in SUBSET Nat
    BY <1>0
  <2>2. ready # {} => Min(ready) \in ready /\ \A k \in ready : Min(ready) <= k
    <3>1. ready # {} => \E x \in ready : \A y \in ready : x <= y
      <4>. HIDE DEF ready
      <4>. QED BY <2>1, NatLeast
    <3>. QED BY <3>1 DEF Min
  <2>3. RunsAt(list, n, i) <=> i \in ready /\ \A k \in ready : i <= k
    BY DEF RunsAt
  <2>. HIDE DEF ready
  <2>4. runs(i) => RunsAt(list, n, i)
    BY <2>2, <2>3
  <2>5. ASSUME RunsAt(list, n, i) PROVE runs(i)
    <3>1. i \in ready /\ ready # {} /\ Min(ready) \in Nat /\ i <= Min(ready) /\ Min(ready) <= i
      BY <2>1, <2>2, <2>3, <2>5
    <3>. QED BY <1>0, <3>1
  <2>. QED BY <2>4, <2>5
<1>4. Released(list, n + 2)[i] - Released(list, n + 1)[i] = rel /\ rel \in Int
  <2>1. list[i].budget \in Nat /\ list[i].period \in Nat \ {0}
    BY <1>0, TaskListFacts
  <2>. DEFINE c == ceiling(n + 1, list[i].period)
              b == list[i].budget
              e == IF (n + 1) % list[i].period = 0 THEN 1 ELSE 0
  <2>2. c \in Nat /\ ceiling(n + 2, list[i].period) = c + e /\ e \in Nat
    <3>1. n + 1 \in Nat
      OBVIOUS
    <3>. QED BY <2>1, <3>1, CeilingBounds, CeilingStep
  <2>3. Released(list, n + 2)[i] = (c + e) * b /\ Released(list, n + 1)[i] = c * b
    BY <1>0, <2>2 DEF Released
  <2>4. rel = e * b /\ b \in Nat
    BY <2>1
  <2>. HIDE DEF c, b, e, rel
  <2>5. (c + e) * b - c * b = e * b /\ e * b \in Int
    BY <2>2, <2>4
  <2>. QED BY <2>3, <2>4, <2>5
<1>5. unit \in Int /\ unit = IF RunsAt(list, n, i) THEN 1 ELSE 0
  BY <1>3
<1>. HIDE DEF s, t, rel, unit
<1>6. s.pending[i] + rel - unit = s.pending[i] - unit + rel
  BY <1>1, <1>4, <1>5
<1>. QED BY <1>2, <1>4, <1>5, <1>6 DEF s, t

\* What was released is done or pending.
LEMMA ServedInvariant ==
  ASSUME NEW list \in TaskList, NEW i \in DOMAIN list, NEW n \in Nat
  PROVE  LET s == Served(list)[n]
         IN  /\ s.done[i] \in Nat /\ s.pending[i] \in Nat
             /\ s.pending[i] + s.done[i] = Released(list, n + 1)[i]
<1>. DEFINE d(m) == Served(list)[m].done[i]
            p(m) == Served(list)[m].pending[i]
            r(m) == Released(list, m)[i]
            T == {m \in Nat : d(m) \in Nat /\ p(m) \in Nat /\ p(m) + d(m) = r(m + 1)}
<1>0. i \in 1 .. Len(list)
  BY DEF TaskList
<1>1. \A m \in Nat : r(m) \in Nat
  BY <1>0, ReleasedFacts
<1>2. \A m \in Nat : r(m + 1) <= r(m + 2)
  <2>. SUFFICES ASSUME NEW m \in Nat PROVE r(m + 1) <= r(m + 2)
    OBVIOUS
  <2>1. m + 1 \in Nat /\ m + 2 \in Nat /\ m + 1 <= m + 2
    OBVIOUS
  <2>. QED BY <1>0, <2>1, ReleasedFacts
<1>3. 0 \in T
  <2>0. Served(list)[0] = ServedStart(list)
    BY ServedRecursion
  <2>1. d(0) = 0 /\ p(0) = list[i].budget
    BY <2>0 DEF ServedStart
  <2>2. list[i].budget \in Nat /\ list[i].period \in Nat \ {0}
    BY <1>0, TaskListFacts
  <2>3. 1 \in 1 .. list[i].period
    BY <2>2
  <2>4. r(1) = list[i].budget
    BY <1>0, <2>3, ReleasedFacts
  <2>5. 0 + 1 = 1
    OBVIOUS
  <2>. HIDE DEF d, p, r
  <2>. QED BY <2>1, <2>2, <2>4, <2>5
<1>4. ASSUME NEW m \in Nat, m \in T PROVE m + 1 \in T
  <2>. DEFINE u == IF RunsAt(list, m, i) THEN 1 ELSE 0
  <2>1. d(m + 1) = d(m) + u /\ p(m + 1) = p(m) - u + (r(m + 2) - r(m + 1))
    BY ServedUnit
  <2>2. u = 1 => p(m) > 0
    BY DEF RunsAt
  <2>3. u \in {0, 1}
    OBVIOUS
  <2>4. m + 1 \in Nat /\ m + 2 \in Nat /\ (m + 1) + 1 = m + 2
    OBVIOUS
  <2>5. d(m) \in Nat /\ p(m) \in Nat /\ p(m) + d(m) = r(m + 1)
    BY <1>4
  <2>6. r(m + 1) \in Nat /\ r(m + 2) \in Nat /\ r(m + 1) <= r(m + 2)
    BY <1>1, <1>2, <2>4
  <2>. HIDE DEF d, p, r, u
  <2>7. d(m + 1) \in Nat /\ p(m + 1) \in Nat /\ p(m + 1) + d(m + 1) = r(m + 2)
    BY <2>1, <2>2, <2>3, <2>5, <2>6
  <2>. QED BY <2>4, <2>7
<1>5. Nat \subseteq T
  <2>. HIDE DEF T
  <2>. QED BY <1>3, <1>4, SetInduction
<1>. QED BY <1>5

\* Work that is done stays done.
LEMMA DoneGrows ==
  ASSUME NEW list \in TaskList, NEW i \in DOMAIN list, NEW n \in Nat, NEW m \in Nat, n <= m
  PROVE  Served(list)[n].done[i] <= Served(list)[m].done[i]
<1>. DEFINE d(k) == Served(list)[k].done[i]
            T == {k \in Nat : d(n) <= d(n + k)}
<1>0. \A k \in Nat : d(k) \in Nat
  BY ServedInvariant
<1>1. 0 \in T
  <2>1. n + 0 = n /\ d(n) \in Nat
    BY <1>0
  <2>. QED BY <2>1
<1>2. ASSUME NEW k \in Nat, k \in T PROVE k + 1 \in T
  <2>1. n + k \in Nat /\ n + (k + 1) = (n + k) + 1 /\ k + 1 \in Nat
    OBVIOUS
  <2>2. d((n + k) + 1) = d(n + k) + IF RunsAt(list, n + k, i) THEN 1 ELSE 0
    BY <2>1, ServedUnit
  <2>3. d(n) \in Nat /\ d(n + k) \in Nat /\ d(n) <= d(n + k)
    BY <1>0, <1>2, <2>1
  <2>. HIDE DEF d
  <2>4. d(n) <= d((n + k) + 1)
    BY <2>2, <2>3
  <2>. QED BY <2>1, <2>4
<1>3. Nat \subseteq T
  <2>. HIDE DEF T
  <2>. QED BY <1>1, <1>2, SetInduction
<1>4. m - n \in Nat /\ n + (m - n) = m
  OBVIOUS
<1>. QED BY <1>3, <1>4

\* No more is done by n than was released before n.
LEMMA DoneWasReleased ==
  ASSUME NEW list \in TaskList, NEW i \in DOMAIN list, NEW n \in Nat
  PROVE  Served(list)[n].done[i] <= Released(list, n)[i]
<1>0. i \in 1 .. Len(list)
  BY DEF TaskList
<1>1. CASE n = 0
  <2>0. Served(list)[0] = ServedStart(list)
    BY ServedRecursion
  <2>1. Served(list)[0].done[i] = 0
    BY <2>0 DEF ServedStart
  <2>2. Released(list, 0)[i] \in Nat
    BY <1>0, ReleasedFacts
  <2>. QED BY <1>1, <2>1, <2>2
<1>2. CASE n # 0
  <2>. DEFINE m == n - 1
              d == Served(list)[m].done[i]
              p == Served(list)[m].pending[i]
              u == IF RunsAt(list, m, i) THEN 1 ELSE 0
  <2>1. m \in Nat /\ m + 1 = n
    BY <1>2
  <2>. HIDE DEF m
  <2>2. d \in Nat /\ p \in Nat /\ p + d = Released(list, m + 1)[i]
    BY <2>1, ServedInvariant
  <2>3. Served(list)[m + 1].done[i] = d + u
    BY <2>1, ServedUnit
  <2>4. u \in {0, 1} /\ (u = 1 => p > 0)
    BY DEF RunsAt
  <2>. HIDE DEF d, p, u
  <2>5. d + u <= p + d
    BY <2>2, <2>4
  <2>. QED BY <2>1, <2>2, <2>3, <2>5
<1>. QED BY <1>1, <1>2

\* The time the first k tasks have had by n.
WorkDone(list, k, n) == SumFunctionOnSet(Served(list)[n].done, 1 .. k)

\* The first k tasks get the unit of time exactly if one of them has pending work.
LEMMA WorkUnit ==
  ASSUME NEW list \in TaskList, NEW k \in 0 .. Len(list), NEW n \in Nat
  PROVE  /\ WorkDone(list, k, n) \in Nat
         /\ WorkDone(list, k, n + 1)
              = WorkDone(list, k, n)
                  + IF \E i \in 1 .. k : Served(list)[n].pending[i] > 0 THEN 1 ELSE 0
<1>. DEFINE D == 1 .. k
            f == Served(list)[n].done
            g == Served(list)[n + 1].done
            p == Served(list)[n].pending
<1>0. DOMAIN list = 1 .. Len(list) /\ Len(list) \in Nat
  BY TaskListFacts DEF TaskList
<1>1. IsFiniteSet(D) /\ D \subseteq DOMAIN list /\ D \subseteq Nat
  BY <1>0, Prefix
<1>2. ASSUME NEW i \in DOMAIN list
      PROVE  /\ f[i] \in Nat /\ g[i] \in Nat /\ p[i] \in Nat
             /\ g[i] = f[i] + IF RunsAt(list, n, i) THEN 1 ELSE 0
  <2>1. n + 1 \in Nat
    OBVIOUS
  <2>. QED BY <2>1, ServedInvariant, ServedUnit
<1>3. \A i \in DOMAIN list : RunsAt(list, n, i) <=>
        p[i] > 0 /\ \A j \in DOMAIN list : p[j] > 0 => i <= j
  BY DEF RunsAt
<1>4. WorkDone(list, k, n) = SumFunctionOnSet(f, D) /\ WorkDone(list, k, n + 1) = SumFunctionOnSet(g, D)
  BY DEF WorkDone
<1>. HIDE DEF D, f, g, p
<1>5. \A i \in D : f[i] \in Nat /\ g[i] \in Nat /\ f[i] \in Int /\ g[i] \in Int
  BY <1>1, <1>2
<1>6. SumFunctionOnSet(f, D) \in Nat
  BY <1>1, <1>5, SumNat
<1>7. CASE \E i \in D : p[i] > 0
  <2>. DEFINE ready == {i \in DOMAIN list : p[i] > 0}
  <2>1. ready \in SUBSET Nat /\ ready # {}
    BY <1>0, <1>1, <1>7
  <2>2. PICK x \in ready : \A y \in ready : x <= y
    <3>. HIDE DEF ready
    <3>. QED BY <2>1, NatLeast
  <2>3. x \in D
    <3>1. PICK i \in D : p[i] > 0
      BY <1>7
    <3>2. x <= i /\ x \in 1 .. Len(list)
      BY <1>0, <1>1, <2>2, <3>1
    <3>. QED BY <1>0, <3>2 DEF D
  <2>4. x \in DOMAIN list /\ RunsAt(list, n, x)
    BY <1>3, <2>2
  <2>5. \A y \in D \ {x} : ~RunsAt(list, n, y)
    <3>. SUFFICES ASSUME NEW y \in D, y # x, RunsAt(list, n, y) PROVE FALSE
      OBVIOUS
    <3>1. y \in DOMAIN list /\ y \in ready
      BY <1>1, <1>3
    <3>2. x <= y /\ y <= x
      BY <1>3, <2>2, <2>4, <3>1
    <3>. QED BY <1>0, <2>4, <3>1, <3>2
  <2>6. g[x] = f[x] + 1
    BY <1>2, <2>4
  <2>7. ASSUME NEW y \in D \ {x} PROVE g[y] = f[y]
    <3>1. g[y] = f[y] + 0 /\ f[y] \in Nat
      BY <1>1, <1>2, <2>5
    <3>. QED BY <3>1
  <2>8. SumFunctionOnSet(g, D) = SumFunctionOnSet(f, D) + 1
    <3>1. 1 \in Int
      OBVIOUS
    <3>. QED BY ONLY <1>1, <1>5, <2>3, <2>6, <2>7, <3>1, SumBump
  <2>. QED BY <1>4, <1>6, <1>7, <2>8 DEF D, p
<1>8. CASE ~\E i \in D : p[i] > 0
  <2>1. ASSUME NEW i \in D PROVE g[i] = f[i]
    <3>1. ~RunsAt(list, n, i)
      BY <1>1, <1>3, <1>8
    <3>2. g[i] = f[i] + 0 /\ f[i] \in Nat
      BY <1>1, <1>2, <3>1
    <3>. QED BY <3>2
  <2>2. SumFunctionOnSet(f, D) = SumFunctionOnSet(g, D)
    BY <1>1, <1>5, <2>1, SumEqual
  <2>. QED BY <1>4, <1>6, <1>8, <2>2 DEF D, p
<1>. QED BY <1>7, <1>8

\* The first k tasks have had no more than all the time there was.
LEMMA WorkBound ==
  ASSUME NEW list \in TaskList, NEW k \in 0 .. Len(list)
  PROVE  /\ WorkDone(list, k, 0) = 0
         /\ \A n \in Nat : WorkDone(list, k, n) <= n
<1>. DEFINE w(n) == WorkDone(list, k, n)
            T == {n \in Nat : w(n) <= n}
<1>0. DOMAIN list = 1 .. Len(list) /\ Len(list) \in Nat
  BY TaskListFacts DEF TaskList
<1>1. w(0) = 0
  <2>. DEFINE f == Served(list)[0].done
  <2>1. Served(list)[0] = ServedStart(list)
    BY ServedRecursion
  <2>2. \A i \in DOMAIN list : f[i] = 0
    BY <2>1 DEF ServedStart
  <2>3. IsFiniteSet(1 .. k) /\ 1 .. k \subseteq DOMAIN list
    BY <1>0, Prefix
  <2>. HIDE DEF f
  <2>4. SumFunctionOnSet(f, 1 .. k) = 0
    BY <2>2, <2>3, SumZero
  <2>. QED BY <2>4 DEF WorkDone, f
<1>2. ASSUME NEW n \in Nat
      PROVE  w(n) \in Nat /\ (w(n + 1) = w(n) \/ w(n + 1) = w(n) + 1)
  <2>. DEFINE busy == \E i \in 1 .. k : Served(list)[n].pending[i] > 0
  <2>1. w(n) \in Nat /\ w(n + 1) = w(n) + IF busy THEN 1 ELSE 0
    BY WorkUnit, Zenon
  <2>. HIDE DEF busy, w
  <2>. QED BY <2>1
<1>. HIDE DEF w
<1>3. 0 \in T
  BY <1>1
<1>4. ASSUME NEW n \in Nat, n \in T PROVE n + 1 \in T
  <2>1. w(n) \in Nat /\ w(n) <= n /\ (w(n + 1) = w(n) \/ w(n + 1) = w(n) + 1)
    BY <1>2, <1>4
  <2>2. w(n + 1) <= n + 1
    BY <2>1
  <2>. QED BY <2>2
<1>5. Nat \subseteq T
  <2>. HIDE DEF T
  <2>. QED BY <1>3, <1>4, SetInduction
<1>. QED BY <1>1, <1>5 DEF w

\* The time of the tasks up to pos is that of pos and that of the ones before.
LEMMA WorkSplit ==
  ASSUME NEW list \in TaskList, NEW pos \in 1 .. Len(list), NEW n \in Nat
  PROVE  /\ WorkDone(list, pos, n) = Served(list)[n].done[pos] + WorkDone(list, pos - 1, n)
         /\ WorkDone(list, pos - 1, n) \in Nat
         /\ WorkDone(list, pos - 1, n) <= SumFunctionOnSet(Released(list, n), 1 .. pos - 1)
<1>. DEFINE f == Served(list)[n].done
            r == Released(list, n)
            D == 1 .. pos - 1
<1>0. DOMAIN list = 1 .. Len(list) /\ Len(list) \in Nat /\ pos \in 0 .. Len(list)
      /\ pos - 1 \in 0 .. Len(list) /\ pos > 0
  BY TaskListFacts DEF TaskList
<1>1. /\ IsFiniteSet(1 .. pos) /\ 1 .. pos \subseteq DOMAIN list /\ pos \in 1 .. pos
      /\ (1 .. pos) \ {pos} = D /\ IsFiniteSet(D) /\ D \subseteq DOMAIN list
  BY <1>0, Prefix
<1>2. \A i \in DOMAIN list : f[i] \in Nat /\ f[i] \in Int /\ f[i] <= r[i]
  <2>. SUFFICES ASSUME NEW i \in DOMAIN list PROVE f[i] \in Nat /\ f[i] <= r[i]
    OBVIOUS
  <2>. QED BY ServedInvariant, DoneWasReleased
<1>3. \A i \in DOMAIN list : r[i] \in Nat /\ r[i] \in Int
  BY <1>0, ReleasedFacts
<1>4. WorkDone(list, pos, n) = SumFunctionOnSet(f, 1 .. pos)
      /\ WorkDone(list, pos - 1, n) = SumFunctionOnSet(f, D)
  BY DEF WorkDone
<1>. HIDE DEF f, r, D
<1>5. SumFunctionOnSet(f, 1 .. pos) = f[pos] + SumFunctionOnSet(f, (1 .. pos) \ {pos})
  <2>1. \A i \in 1 .. pos : f[i] \in Int
    BY <1>1, <1>2
  <2>. QED BY <1>1, <2>1, SumStep
<1>6. SumFunctionOnSet(f, D) \in Nat
  <2>1. \A i \in D : f[i] \in Nat
    BY <1>1, <1>2
  <2>. QED BY <1>1, <2>1, SumNat
<1>7. SumFunctionOnSet(f, D) <= SumFunctionOnSet(r, D)
  <2>1. \A i \in D : f[i] \in Int /\ r[i] \in Int /\ f[i] <= r[i]
    BY <1>1, <1>2, <1>3
  <2>. QED BY <1>1, <2>1, SumLeq
<1>. QED BY <1>1, <1>4, <1>5, <1>6, <1>7 DEF f, r, D

\* If the demand fits at some moment up to the deadline, the job is done by then.
LEMMA DemandMetIsServed ==
  ASSUME NEW list \in TaskList, NEW pos \in 1 .. Len(list), TimeDemandMet(list, pos)
  PROVE  Served(list)[list[pos].period].done[pos] >= list[pos].budget
<1>. DEFINE T == list[pos].period
            b == list[pos].budget
            d(n) == Served(list)[n].done[pos]
            p(n) == Served(list)[n].pending[pos]
            w(n) == WorkDone(list, pos, n)
<1>0. b \in Nat /\ T \in Nat \ {0} /\ pos \in DOMAIN list /\ pos \in 0 .. Len(list) /\ pos \in 1 .. pos
  BY TaskListFacts DEF TaskList
<1>1. PICK a \in 1 .. T : demand(list, pos, a) <= a
  BY DEF TimeDemandMet
<1>2. a \in Nat /\ a <= T
  BY <1>0
<1>3. \A n \in Nat : d(n) \in Nat /\ p(n) \in Nat /\ p(n) + d(n) = Released(list, n + 1)[pos]
  BY <1>0, ServedInvariant
<1>4. d(a) <= d(T)
  BY <1>0, <1>2, DoneGrows
<1>5. ASSUME d(a) < b PROVE FALSE
  <2>1. ASSUME NEW n \in Nat, n < a PROVE p(n) > 0
    <3>1. d(n) <= d(a)
      BY <1>0, <1>2, <2>1, DoneGrows
    <3>2. b <= Released(list, n + 1)[pos]
      <4>1. n + 1 \in Nat \ {0}
        OBVIOUS
      <4>. QED BY <4>1, ReleasedFacts
    <3>3. d(n) \in Nat /\ p(n) \in Nat /\ d(a) \in Nat /\ p(n) + d(n) = Released(list, n + 1)[pos]
      BY <1>2, <1>3
    <3>. HIDE DEF d, p, b
    <3>. QED BY <1>0, <1>5, <3>1, <3>2, <3>3
  <2>. DEFINE U == {n \in Nat : n <= a => w(n) = n}
  <2>2. 0 \in U
    BY <1>0, WorkBound
  <2>3. ASSUME NEW n \in Nat, n \in U PROVE n + 1 \in U
    <3>. SUFFICES ASSUME n + 1 <= a PROVE w(n + 1) = n + 1
      OBVIOUS
    <3>1. n < a /\ n <= a
      BY <1>2
    <3>2. p(n) > 0 /\ w(n) = n
      BY <2>1, <2>3, <3>1
    <3>3. \E i \in 1 .. pos : Served(list)[n].pending[i] > 0
      BY <1>0, <3>2
    <3>4. w(n + 1) = w(n) + 1
      BY <1>0, <3>3, WorkUnit
    <3>. QED BY <3>2, <3>4
  <2>4. Nat \subseteq U
    <3>. HIDE DEF U
    <3>. QED BY <2>2, <2>3, SetInduction
  <2>5. w(a) = a
    BY <1>2, <2>4
  <2>. DEFINE rest == WorkDone(list, pos - 1, a)
              r == SumFunctionOnSet(Released(list, a), 1 .. pos - 1)
  <2>6. w(a) = d(a) + rest /\ rest \in Nat /\ rest <= r
    BY <1>2, WorkSplit
  <2>7. demand(list, pos, a) = b + r /\ r \in Int
    <3>1. demand(list, pos, a) = b + r
      BY <1>2, DemandIsSum
    <3>2. IsFiniteSet(1 .. pos - 1) /\ 1 .. pos - 1 \subseteq 1 .. Len(list)
      <4>1. Len(list) \in Nat /\ pos - 1 \in 0 .. Len(list)
        BY TaskListFacts
      <4>. QED BY <4>1, Prefix
    <3>3. \A i \in 1 .. pos - 1 : Released(list, a)[i] \in Int
      BY <1>2, <3>2, ReleasedFacts
    <3>4. r \in Int
      BY <3>2, <3>3, SumType
    <3>. QED BY <3>1, <3>4
  <2>8. d(a) \in Nat
    BY <1>2, <1>3
  <2>. HIDE DEF w, d, rest, r, b
  <2>9. b + r <= a
    BY <1>1, <2>7
  <2>. QED BY <1>0, <1>2, <1>5, <2>5, <2>6, <2>7, <2>8, <2>9
<1>6. d(a) \in Nat /\ d(T) \in Nat
  BY <1>0, <1>2, <1>3
<1>. HIDE DEF d, b
<1>7. d(T) >= b
  BY <1>0, <1>4, <1>5, <1>6
<1>. QED BY <1>7 DEF d, b

\* If the job is done by the deadline, the demand fits at the moment it ends.
LEMMA ServedIsDemandMet ==
  ASSUME NEW list \in TaskList, NEW pos \in 1 .. Len(list), list[pos].budget > 0,
         Served(list)[list[pos].period].done[pos] >= list[pos].budget
  PROVE  TimeDemandMet(list, pos)
<1>. DEFINE T == list[pos].period
            b == list[pos].budget
            d(n) == Served(list)[n].done[pos]
            late == {n \in Nat : d(n) >= b}
<1>0. /\ b \in Nat /\ T \in Nat \ {0} /\ pos \in DOMAIN list /\ DOMAIN list = 1 .. Len(list)
      /\ Len(list) \in Nat /\ pos \in 0 .. Len(list) /\ pos - 1 \in 0 .. Len(list) /\ b > 0
  BY TaskListFacts DEF TaskList
<1>1. T \in late
  BY <1>0
<1>2. PICK a \in late : \A n \in late : a <= n
  <2>1. late \in SUBSET Nat /\ late # {}
    BY <1>1
  <2>. HIDE DEF late
  <2>. QED BY <2>1, NatLeast
<1>3. a \in Nat /\ a <= T /\ d(a) >= b
  BY <1>1, <1>2
<1>4. a # 0
  <2>. SUFFICES d(0) = 0
    BY <1>0, <1>3
  <2>1. Served(list)[0] = ServedStart(list)
    BY ServedRecursion
  <2>. QED BY <1>0, <2>1 DEF ServedStart
<1>. DEFINE m == a - 1
<1>5. m \in Nat /\ m + 1 = a /\ a \in 1 .. T /\ m < a
  BY <1>0, <1>3, <1>4
<1>. HIDE DEF m
<1>6. d(m) < b /\ d(m) \in Nat
  <2>1. m \notin late
    <3>. HIDE DEF late
    <3>. QED BY <1>2, <1>3, <1>5
  <2>2. d(m) \in Nat
    BY <1>0, <1>5, ServedInvariant
  <2>. HIDE DEF d, b
  <2>3. ~(d(m) >= b)
    BY <1>5, <2>1
  <2>. QED BY <1>0, <2>2, <2>3
<1>7. d(a) = d(m) + IF RunsAt(list, m, pos) THEN 1 ELSE 0
  BY <1>0, <1>5, ServedUnit
<1>8. RunsAt(list, m, pos) /\ d(a) = b
  <2>. HIDE DEF d, b
  <2>. QED BY <1>0, <1>3, <1>6, <1>7
<1>. DEFINE D == 1 .. pos - 1
            f == Served(list)[a].done
            r == Released(list, a)
<1>9. IsFiniteSet(D) /\ D \subseteq DOMAIN list /\ \A i \in D : i < pos
  <2>1. \A i \in D : i < pos
    BY <1>0
  <2>. QED BY <1>0, <2>1, Prefix
<1>10. ASSUME NEW i \in D PROVE f[i] \in Int /\ f[i] = r[i]
  <2>0. i \in DOMAIN list /\ i < pos /\ i \in Nat
    BY <1>9
  <2>. DEFINE s == Served(list)[m]
  <2>1. s.done[i] \in Nat /\ s.pending[i] \in Nat /\ s.pending[i] + s.done[i] = r[i]
    BY <1>5, <2>0, ServedInvariant
  <2>2. s.pending[i] = 0 /\ ~RunsAt(list, m, i)
    <3>1. ~(s.pending[i] > 0)
      BY <1>0, <1>8, <2>0 DEF RunsAt
    <3>. QED BY <2>1, <3>1 DEF RunsAt
  <2>3. f[i] = s.done[i] + IF RunsAt(list, m, i) THEN 1 ELSE 0
    BY <1>5, <2>0, ServedUnit
  <2>4. f[i] = s.done[i] + 0
    BY <2>2, <2>3
  <2>. HIDE DEF s, f, r
  <2>. QED BY <2>1, <2>2, <2>4
<1>11. SumFunctionOnSet(f, D) = SumFunctionOnSet(r, D)
  <2>. HIDE DEF f, r, D
  <2>. QED BY <1>9, <1>10, SumEqual
<1>12. WorkDone(list, pos, a) = d(a) + SumFunctionOnSet(f, D)
  <2>1. WorkDone(list, pos, a) = d(a) + WorkDone(list, pos - 1, a)
    BY <1>3, WorkSplit
  <2>. QED BY <2>1 DEF WorkDone
<1>13. demand(list, pos, a) = b + SumFunctionOnSet(r, D)
  BY <1>3, DemandIsSum
<1>14. WorkDone(list, pos, a) <= a
  BY <1>0, <1>3, WorkBound
<1>15. demand(list, pos, a) <= a
  <2>. HIDE DEF d, b, f, r, D
  <2>. QED BY <1>8, <1>11, <1>12, <1>13, <1>14
<1>. QED BY <1>5, <1>15 DEF TimeDemandMet

\* Shorter periods first.
ByPeriod(list) == \A i, j \in 1 .. Len(list) : i <= j => list[i].period <= list[j].period

\* A task without work meets its demand where the task before it does: the test has
\* no moment 0, so the task alone would not.
LEMMA ZeroBudgetDemandMet ==
  ASSUME NEW list \in TaskList, ByPeriod(list), NEW pos \in 1 .. Len(list), list[pos].budget = 0,
         pos > 1 => TimeDemandMet(list, pos - 1)
  PROVE  TimeDemandMet(list, pos)
<1>0. /\ Len(list) \in Nat /\ pos \in 0 .. Len(list) /\ list[pos].period \in Nat \ {0}
  BY TaskListFacts
<1>1. CASE pos = 1
  <2>1. demand(list, pos, 1) = 0 + SumFunctionOnSet(Released(list, 1), 1 .. pos - 1)
    BY DemandIsSum
  <2>2. 1 .. pos - 1 = {} /\ 1 \in 1 .. list[pos].period
    BY <1>0, <1>1
  <2>3. SumFunctionOnSet(Released(list, 1), 1 .. pos - 1) = 0
    BY <2>2, SumEmpty
  <2>4. demand(list, pos, 1) = 0
    BY <2>1, <2>3
  <2>. QED BY <2>2, <2>4 DEF TimeDemandMet
<1>2. CASE pos > 1
  <2>. DEFINE q == pos - 1
              D == 1 .. pos - 1
  <2>1. /\ q \in 1 .. Len(list) /\ q \in 0 .. Len(list) /\ q > 0 /\ q <= pos
    BY <1>0, <1>2
  <2>2. /\ list[q].period \in Nat \ {0} /\ list[q].budget \in Nat
        /\ list[q].period <= list[pos].period
    BY <1>0, <2>1, TaskListFacts DEF ByPeriod
  <2>3. IsFiniteSet(D) /\ D \subseteq 1 .. Len(list) /\ q \in D /\ D \ {q} = 1 .. q - 1
    BY <1>0, <2>1, Prefix
  <2>4. PICK a \in 1 .. list[q].period : demand(list, q, a) <= a
    BY <1>2 DEF TimeDemandMet
  <2>5. a \in Nat /\ a \in 1 .. list[pos].period
    BY <1>0, <2>2
  <2>. DEFINE r == Released(list, a)
  <2>6. demand(list, q, a) = list[q].budget + SumFunctionOnSet(r, 1 .. q - 1)
    BY <2>1, <2>5, DemandIsSum
  <2>7. demand(list, pos, a) = 0 + SumFunctionOnSet(r, D)
    BY <2>5, DemandIsSum
  <2>8. r[q] = list[q].budget
    BY <2>1, ReleasedFacts
  <2>9. \A i \in D : r[i] \in Int
    BY <2>3, <2>5, ReleasedFacts
  <2>. HIDE DEF r, D, q
  <2>10. SumFunctionOnSet(r, D) = r[q] + SumFunctionOnSet(r, D \ {q})
    BY ONLY <2>3, <2>9, SumStep
  <2>11. SumFunctionOnSet(r, D) \in Int
    BY <2>3, <2>9, SumType
  <2>12. SumFunctionOnSet(r, D) = demand(list, q, a)
    BY ONLY <2>3, <2>6, <2>8, <2>10
  <2>13. demand(list, pos, a) = SumFunctionOnSet(r, D)
    BY ONLY <2>7, <2>11
  <2>14. demand(list, pos, a) <= a
    BY ONLY <2>4, <2>12, <2>13
  <2>. QED BY <2>5, <2>14 DEF TimeDemandMet
<1>. QED BY <1>0, <1>1, <1>2

\* __check_admission passes a task array sorted by period exactly if every task
\* meets its deadline on a preemptive processor that serves the shorter period
\* first: it admits no task set that misses one and refuses none that does not.
THEOREM AdmissionIsExact ==
  ASSUME NEW list \in TaskList, ByPeriod(list)
  PROVE  __check_admission(list) <=> MeetsDeadlines(list)
<1>. DEFINE met(i) == Served(list)[list[i].period].done[i] >= list[i].budget
<1>0. DOMAIN list = 1 .. Len(list) /\ Len(list) \in Nat
  BY TaskListFacts DEF TaskList
<1>1. __check_admission(list) <=> \A pos \in 1 .. Len(list) : TimeDemandMet(list, pos)
  BY RtTestIsTimeDemandAnalysis DEF __check_admission
<1>2. MeetsDeadlines(list) <=> \A pos \in 1 .. Len(list) : met(pos)
  BY <1>0 DEF MeetsDeadlines
<1>3. ASSUME NEW pos \in 1 .. Len(list), TimeDemandMet(list, pos) PROVE met(pos)
  BY <1>3, DemandMetIsServed
<1>4. ASSUME \A pos \in 1 .. Len(list) : met(pos)
      PROVE  \A pos \in 1 .. Len(list) : TimeDemandMet(list, pos)
  <2>. DEFINE T == {n \in Nat : n \in 1 .. Len(list) => TimeDemandMet(list, n)}
  <2>1. 0 \in T
    OBVIOUS
  <2>2. ASSUME NEW n \in Nat, n \in T PROVE n + 1 \in T
    <3>. SUFFICES ASSUME n + 1 \in 1 .. Len(list) PROVE TimeDemandMet(list, n + 1)
      OBVIOUS
    <3>1. list[n + 1].budget \in Nat
      BY TaskListFacts
    <3>2. CASE list[n + 1].budget > 0
      BY <1>4, <3>2, ServedIsDemandMet
    <3>3. CASE list[n + 1].budget = 0
      <4>1. (n + 1) - 1 = n /\ (n + 1 > 1 => n \in 1 .. Len(list))
        BY <1>0
      <4>2. n + 1 > 1 => TimeDemandMet(list, (n + 1) - 1)
        BY <2>2, <4>1
      <4>. QED BY <3>3, <4>2, ZeroBudgetDemandMet
    <3>. QED BY <3>1, <3>2, <3>3
  <2>3. Nat \subseteq T
    <3>. HIDE DEF T
    <3>. QED BY <2>1, <2>2, SetInduction
  <2>. QED BY <1>0, <2>3
<1>. HIDE DEF met
<1>. QED BY <1>1, <1>2, <1>3, <1>4

\* Up to its deadline a task has released one job: the demand is the work of the
\* tasks up to pos.
LEMMA DemandUpToDeadline ==
  ASSUME NEW list \in TaskList, NEW pos \in 1 .. Len(list), NEW a \in 1 .. list[pos].period
  PROVE  /\ a \in Nat
         /\ demand(list, pos, a) = SumFunctionOnSet(Released(list, a), 1 .. pos)
         /\ IsFiniteSet(1 .. pos) /\ 1 .. pos \subseteq 1 .. Len(list)
         /\ \A i \in 1 .. Len(list) : Released(list, a)[i] \in Nat
<1>. DEFINE r == Released(list, a)
<1>0. /\ Len(list) \in Nat /\ pos \in 0 .. Len(list) /\ pos > 0 /\ list[pos].period \in Nat \ {0}
  BY TaskListFacts
<1>1. /\ IsFiniteSet(1 .. pos) /\ 1 .. pos \subseteq 1 .. Len(list) /\ pos \in 1 .. pos
      /\ (1 .. pos) \ {pos} = 1 .. pos - 1
  BY <1>0, Prefix
<1>2. a \in Nat
  BY <1>0
<1>3. \A i \in 1 .. Len(list) : r[i] \in Nat
  BY <1>2, ReleasedFacts
<1>4. r[pos] = list[pos].budget
  BY ReleasedFacts
<1>5. demand(list, pos, a) = list[pos].budget + SumFunctionOnSet(r, 1 .. pos - 1)
  BY <1>2, DemandIsSum
<1>. HIDE DEF r
<1>6. \A i \in 1 .. pos : r[i] \in Int
  BY <1>1, <1>3
<1>7. SumFunctionOnSet(r, 1 .. pos) = r[pos] + SumFunctionOnSet(r, (1 .. pos) \ {pos})
  BY ONLY <1>1, <1>6, SumStep
<1>8. demand(list, pos, a) = SumFunctionOnSet(r, 1 .. pos)
  BY ONLY <1>1, <1>4, <1>5, <1>7
<1>. QED BY <1>1, <1>2, <1>3, <1>8 DEF r

\* The demand on a part of the tasks, in any order of ties, fits where that on all does.
LEMMA TimeDemandOfPart ==
  ASSUME NEW list \in TaskList, ByPeriod(list), NEW part \in TaskList, ByPeriod(part),
         NEW h \in [1 .. Len(part) -> 1 .. Len(list)],
         \A i, j \in 1 .. Len(part) : h[i] = h[j] => i = j,
         \A i \in 1 .. Len(part) : part[i] = list[h[i]],
         \A pos \in 1 .. Len(list) : TimeDemandMet(list, pos),
         NEW pos \in 1 .. Len(part)
  PROVE  TimeDemandMet(part, pos)
<1>. DEFINE n == Len(list)
            P == part[pos].period
            A == {j \in 1 .. n : list[j].period <= P}
<1>0. n \in Nat /\ Len(part) \in Nat /\ P \in Nat \ {0} /\ h[pos] \in 1 .. n
  BY TaskListFacts
<1>1. \A j \in 1 .. n : list[j].period \in Nat \ {0}
  BY TaskListFacts
<1>2. P = list[h[pos]].period /\ h[pos] \in A
  BY <1>0, <1>1
<1>3. PICK k \in A : \A j \in A : j <= k
  <2>1. A \in SUBSET Nat /\ A # {} /\ n \in Nat /\ \A j \in A : j <= n
    BY <1>0, <1>2
  <2>. HIDE DEF A, n
  <2>. QED BY <2>1, NatGreatest
<1>4. k \in 1 .. n /\ list[k].period = P
  <2>1. k \in 1 .. n /\ list[k].period <= P /\ h[pos] <= k
    BY <1>2, <1>3
  <2>2. P <= list[k].period
    BY <1>0, <1>2, <2>1 DEF ByPeriod
  <2>. QED BY <1>0, <1>1, <2>1, <2>2
<1>5. PICK a \in 1 .. P : demand(list, k, a) <= a
  BY <1>4 DEF TimeDemandMet
<1>. DEFINE r == Released(list, a)
            R == {h[i] : i \in 1 .. pos}
<1>6. /\ a \in Nat /\ demand(list, k, a) = SumFunctionOnSet(r, 1 .. k)
      /\ IsFiniteSet(1 .. k) /\ 1 .. k \subseteq 1 .. n /\ \A i \in 1 .. n : r[i] \in Nat
  BY <1>4, DemandUpToDeadline
<1>7. /\ demand(part, pos, a) = SumFunctionOnSet(Released(part, a), 1 .. pos)
      /\ IsFiniteSet(1 .. pos) /\ 1 .. pos \subseteq 1 .. Len(part)
      /\ \A i \in 1 .. Len(part) : Released(part, a)[i] \in Nat
  BY DemandUpToDeadline
<1>8. Released(part, a) = [i \in 1 .. Len(part) |-> r[h[i]]]
  <2>1. \A i \in 1 .. Len(part) : Released(part, a)[i] = r[h[i]]
    BY DEF Released
  <2>2. Released(part, a) = [i \in 1 .. Len(part) |-> Released(part, a)[i]]
    BY DEF Released
  <2>. QED BY <2>1, <2>2
<1>9. R \subseteq 1 .. k
  <2>. SUFFICES ASSUME NEW i \in 1 .. pos PROVE h[i] \in 1 .. k
    OBVIOUS
  <2>0. i \in 1 .. Len(part) /\ i <= pos
    BY <1>0
  <2>1. i \in 1 .. Len(part) /\ i <= pos /\ h[i] \in 1 .. n
    BY <2>0
  <2>2. part[i].period <= P
    BY <2>1 DEF ByPeriod
  <2>3. h[i] \in A
    BY <2>1, <2>2
  <2>4. h[i] <= k
    <3>. HIDE DEF A
    <3>. QED BY <1>3, <2>3
  <2>. QED BY <1>0, <1>4, <2>1, <2>4
<1>10. SumFunctionOnSet([i \in 1 .. Len(part) |-> r[h[i]]], 1 .. pos) = SumFunctionOnSet(r, R)
  <2>a. pos \in 0 .. Len(part)
    BY <1>0
  <2>b. \A i \in 1 .. n : r[i] \in Int
    <3>. HIDE DEF r, n
    <3>. QED BY <1>6
  <2>1. (\A i \in 1 .. n : r[i] \in Int) /\ pos \in 0 .. Len(part)
    BY <2>a, <2>b
  <2>2. (\A i \in 1 .. Len(part) : h[i] \in 1 .. n) /\ \A i, j \in 1 .. Len(part) : h[i] = h[j] => i = j
    BY Zenon
  <2>3. R = {h[i] : i \in 1 .. pos}
    OBVIOUS
  <2>. DEFINE g == [i \in 1 .. Len(part) |-> r[h[i]]]
  <2>4. g = [i \in 1 .. Len(part) |-> r[h[i]]]
    OBVIOUS
  <2>5. SumFunctionOnSet(g, 1 .. pos) = SumFunctionOnSet(r, R)
    <3>. HIDE DEF r, n, R, g
    <3>1. Reindexed(1 .. n, Len(part), h, r, g, pos, R)
      BY <1>0, <2>1, <2>2, <2>3, <2>4 DEF Reindexed
    <3>. QED BY ONLY <3>1, SumOverImage
  <2>. QED BY <2>5
<1>11. SumFunctionOnSet(r, R) <= SumFunctionOnSet(r, 1 .. k)
  <2>1. \A i \in 1 .. k : r[i] \in Nat
    BY <1>6
  <2>. HIDE DEF r, R
  <2>. QED BY <1>6, <1>9, <2>1, SumMore
<1>12. SumFunctionOnSet(r, R) \in Nat /\ SumFunctionOnSet(r, 1 .. k) \in Nat
  <2>1. IsFiniteSet(R)
    BY <1>6, <1>9, FS_Subset
  <2>2. (\A i \in R : r[i] \in Nat) /\ \A i \in 1 .. k : r[i] \in Nat
    BY <1>6, <1>9
  <2>. HIDE DEF r, R
  <2>. QED BY <1>6, <2>1, <2>2, SumNat
<1>13. demand(part, pos, a) = SumFunctionOnSet(r, R)
  BY <1>7, <1>8, <1>10
<1>14. demand(part, pos, a) <= a
  <2>. HIDE DEF r, R
  <2>. QED BY <1>5, <1>6, <1>11, <1>12, <1>13
<1>. QED BY <1>14 DEF TimeDemandMet

\* The test need not be repeated when a reservation is cancelled or exits, nor when
\* the list orders ties otherwise: what passes still passes after tasks are taken out.
THEOREM AdmissionOfPart ==
  ASSUME NEW list \in TaskList, ByPeriod(list), NEW part \in TaskList, ByPeriod(part),
         NEW h \in [1 .. Len(part) -> 1 .. Len(list)],
         \A i, j \in 1 .. Len(part) : h[i] = h[j] => i = j,
         \A i \in 1 .. Len(part) : part[i] = list[h[i]],
         __check_admission(list)
  PROVE  __check_admission(part)
<1>1. \A pos \in 1 .. Len(list) : TimeDemandMet(list, pos)
  BY RtTestIsTimeDemandAnalysis DEF __check_admission
<1>2. \A pos \in 1 .. Len(part) : TimeDemandMet(part, pos)
  BY <1>1, TimeDemandOfPart
<1>. QED BY <1>2, RtTestIsTimeDemandAnalysis DEF __check_admission

\* Swapping neighbours of equal period does not change the outcome of the test:
\* the list of sched.c orders ties otherwise than the array that is tested.
THEOREM TieOrder ==
  ASSUME NEW list \in TaskList, ByPeriod(list), NEW i \in 1 .. Len(list) - 1,
         list[i].period = list[i + 1].period
  PROVE  __check_admission(list)
           <=> __check_admission([list EXCEPT ![i] = list[i + 1], ![i + 1] = list[i]])
<1>. DEFINE n == Len(list)
            swapped == [list EXCEPT ![i] = list[i + 1], ![i + 1] = list[i]]
            h == [k \in 1 .. n |-> IF k = i THEN i + 1 ELSE IF k = i + 1 THEN i ELSE k]
<1>1. n \in Nat /\ i \in 1 .. n /\ i + 1 \in 1 .. n /\ i \in Int
  BY TaskListFacts
<1>2. DOMAIN list = 1 .. n /\ \A k \in 1 .. n : list[k] \in TaskRecord
  BY DEF TaskList
<1>3. swapped \in TaskList /\ Len(swapped) = n
  <2>1. swapped \in [1 .. n -> TaskRecord]
    BY <1>1, <1>2
  <2>. QED BY <1>1, <2>1 DEF TaskList
<1>4. h \in [1 .. n -> 1 .. n] /\ \A k, m \in 1 .. n : h[k] = h[m] => k = m
  BY <1>1
<1>5. \A k \in 1 .. n : h[h[k]] = k /\ swapped[k] = list[h[k]]
  BY <1>1, <1>2
<1>6. \A k \in 1 .. n : list[k] = swapped[h[k]]
  <2>. HIDE DEF h, swapped
  <2>. QED BY <1>4, <1>5
<1>7. \A k \in 1 .. n : swapped[k].period = list[k].period
  BY <1>1, <1>2
<1>8. ByPeriod(swapped)
  BY <1>3, <1>7 DEF ByPeriod
<1>. HIDE DEF h, swapped
<1>9. __check_admission(list) => __check_admission(swapped)
  BY <1>3, <1>4, <1>5, <1>8, AdmissionOfPart
<1>10. __check_admission(swapped) => __check_admission(list)
  BY <1>3, <1>4, <1>6, <1>8, AdmissionOfPart
<1>. QED BY <1>9, <1>10 DEF swapped

\* InsertAt, element by element.
LEMMA InsertAtFacts ==
  ASSUME NEW S, NEW s \in Seq(S), NEW e \in S, NEW i \in 1 .. Len(s) + 1
  PROVE  /\ InsertAt(s, i, e) \in Seq(S)
         /\ Len(InsertAt(s, i, e)) = Len(s) + 1
         /\ \A k \in 1 .. Len(s) + 1 :
              InsertAt(s, i, e)[k] = IF k < i THEN s[k] ELSE IF k = i THEN e ELSE s[k - 1]
<1>. DEFINE a == SubSeq(s, 1, i - 1)
            b == SubSeq(s, i, Len(s))
<1>1. /\ a \in Seq(S) /\ Len(a) = i - 1 /\ \A k \in 1 .. i - 1 : a[k] = s[k]
      /\ b \in Seq(S) /\ Len(b) = Len(s) + 1 - i
      /\ \A k \in 1 .. Len(s) + 1 - i : b[k] = s[i - 1 + k]
  OBVIOUS
<1>. DEFINE c == a \o <<e>>
<1>2. c \in Seq(S) /\ Len(c) = i /\ (\A k \in 1 .. i - 1 : c[k] = s[k]) /\ c[i] = e
  <2>. HIDE DEF a, b
  <2>. QED BY <1>1
<1>. DEFINE t == c \o b
<1>3. InsertAt(s, i, e) = t
  BY DEF InsertAt
<1>. HIDE DEF a, b, c
<1>4. /\ t \in Seq(S) /\ Len(t) = Len(s) + 1
      /\ \A k \in 1 .. Len(s) + 1 : t[k] = IF k <= i THEN c[k] ELSE b[k - i]
  <2>1. /\ t \in Seq(S) /\ Len(t) = Len(c) + Len(b)
        /\ \A k \in 1 .. Len(c) + Len(b) : t[k] = IF k <= Len(c) THEN c[k] ELSE b[k - Len(c)]
    BY ONLY <1>1, <1>2, ConcatProperties, Zenon DEF t
  <2>2. Len(c) + Len(b) = Len(s) + 1 /\ Len(c) = i
    BY <1>1, <1>2
  <2>. HIDE DEF t
  <2>. QED BY <2>1, <2>2
<1>. HIDE DEF t
<1>5. ASSUME NEW k \in 1 .. Len(s) + 1
      PROVE  t[k] = IF k < i THEN s[k] ELSE IF k = i THEN e ELSE s[k - 1]
  <2>1. CASE k < i
    BY <1>2, <1>4, <2>1
  <2>2. CASE k = i
    BY <1>2, <1>4, <2>2
  <2>3. CASE k > i
    <3>1. k - i \in 1 .. Len(s) + 1 - i /\ i - 1 + (k - i) = k - 1
      BY <2>3
    <3>2. b[k - i] = s[k - 1]
      BY ONLY <1>1, <3>1
    <3>3. t[k] = b[k - i]
      BY <1>4, <2>3
    <3>. QED BY <2>3, <3>2, <3>3
  <2>4. k < i \/ k = i \/ k > i
    OBVIOUS
  <2>. QED BY <2>1, <2>2, <2>3, <2>4
<1>. QED BY <1>3, <1>4, <1>5

\* RemoveFirst, element by element.
LEMMA RemoveFirstFacts ==
  ASSUME NEW S, NEW s \in Seq(S), NEW e
  PROVE  \/ /\ \A k \in 1 .. Len(s) : s[k] # e
            /\ RemoveFirst(s, e) = s
         \/ \E i \in 1 .. Len(s) :
              /\ s[i] = e
              /\ RemoveFirst(s, e) \in Seq(S)
              /\ Len(RemoveFirst(s, e)) = Len(s) - 1
              /\ \A k \in 1 .. Len(s) - 1 :
                   RemoveFirst(s, e)[k] = IF k < i THEN s[k] ELSE s[k + 1]
<1>. DEFINE A == {k \in 1 .. Len(s) : s[k] = e}
            i == Min(A)
<1>1. CASE A = {}
  BY <1>1 DEF RemoveFirst
<1>2. CASE A # {}
  <2>1. \E m \in A : \A k \in A : m <= k
    <3>1. A \in SUBSET Nat
      OBVIOUS
    <3>. HIDE DEF A
    <3>. QED BY <1>2, <3>1, NatLeast
  <2>2. i \in A
    <3>. HIDE DEF A
    <3>. QED BY <2>1 DEF Min
  <2>3. RemoveFirst(s, e) = RemoveAt(s, i)
    BY <1>2 DEF RemoveFirst, SelectInSeq
  <2>. DEFINE a == SubSeq(s, 1, i - 1)
              b == SubSeq(s, i + 1, Len(s))
  <2>4. RemoveAt(s, i) = a \o b
    BY DEF RemoveAt
  <2>5. i \in 1 .. Len(s) /\ s[i] = e
    BY <2>2
  <2>. HIDE DEF i, A
  <2>6. /\ a \in Seq(S) /\ Len(a) = i - 1 /\ \A k \in 1 .. i - 1 : a[k] = s[k]
        /\ b \in Seq(S) /\ Len(b) = Len(s) - i
        /\ \A k \in 1 .. Len(s) - i : b[k] = s[i + k]
    BY <2>5
  <2>. HIDE DEF a, b
  <2>. DEFINE t == a \o b
  <2>7. /\ t \in Seq(S) /\ Len(t) = Len(s) - 1
        /\ \A k \in 1 .. Len(s) - 1 : t[k] = IF k <= i - 1 THEN a[k] ELSE b[k - (i - 1)]
    <3>1. /\ t \in Seq(S) /\ Len(t) = Len(a) + Len(b)
          /\ \A k \in 1 .. Len(a) + Len(b) : t[k] = IF k <= Len(a) THEN a[k] ELSE b[k - Len(a)]
      BY <2>6, ConcatProperties
    <3>2. Len(a) + Len(b) = Len(s) - 1 /\ Len(a) = i - 1
      BY <2>5, <2>6
    <3>. HIDE DEF t
    <3>. QED BY <3>1, <3>2
  <2>4a. RemoveFirst(s, e) = t
    BY <2>3, <2>4
  <2>. HIDE DEF t
  <2>8. ASSUME NEW k \in 1 .. Len(s) - 1
        PROVE  t[k] = IF k < i THEN s[k] ELSE s[k + 1]
    <3>1. CASE k < i
      BY <2>5, <2>6, <2>7, <3>1
    <3>2. CASE k >= i
      <4>1. k - (i - 1) \in 1 .. Len(s) - i /\ i + (k - (i - 1)) = k + 1
        BY <2>5, <3>2
      <4>. QED BY <2>5, <2>6, <2>7, <3>2, <4>1
    <3>3. k < i \/ k >= i
      BY <2>5
    <3>. QED BY <3>1, <3>2, <3>3
  <2>. QED BY <2>4a, <2>5, <2>7, <2>8
<1>. QED BY <1>1, <1>2

\* h is increasing on the first n positions.
Increasing(h, n) == \A i, j \in 1 .. n : i < j => h[i] < h[j]

\* Without one element a list keeps the others, in their order.
LEMMA RemoveFirstPart ==
  ASSUME NEW S, NEW s \in Seq(S), NEW e, IsInjective(s)
  PROVE  /\ RemoveFirst(s, e) \in Seq(S) /\ IsInjective(RemoveFirst(s, e))
         /\ Range(RemoveFirst(s, e)) = Range(s) \ {e}
         /\ Len(RemoveFirst(s, e)) = IF e \in Range(s) THEN Len(s) - 1 ELSE Len(s)
         /\ \E h \in [1 .. Len(RemoveFirst(s, e)) -> 1 .. Len(s)] :
              /\ Increasing(h, Len(RemoveFirst(s, e)))
              /\ \A k \in 1 .. Len(RemoveFirst(s, e)) : RemoveFirst(s, e)[k] = s[h[k]]
<1>. DEFINE t == RemoveFirst(s, e)
<1>0. /\ Len(s) \in Nat /\ DOMAIN s = 1 .. Len(s)
      /\ \A i, j \in 1 .. Len(s) : s[i] = s[j] => i = j
  BY DEF IsInjective
<1>1. CASE (\A k \in 1 .. Len(s) : s[k] # e) /\ t = s
  <2>1. e \notin Range(s) /\ Range(t) = Range(s) \ {e}
    BY <1>0, <1>1 DEF Range
  <2>. DEFINE h == [k \in 1 .. Len(s) |-> k]
  <2>2. h \in [1 .. Len(s) -> 1 .. Len(s)] /\ Increasing(h, Len(s)) /\ \A k \in 1 .. Len(s) : s[k] = s[h[k]]
    BY DEF Increasing
  <2>. HIDE DEF h
  <2>. QED BY <1>1, <2>1, <2>2
<1>2. ASSUME NEW i \in 1 .. Len(s), s[i] = e, t \in Seq(S), Len(t) = Len(s) - 1,
             \A k \in 1 .. Len(s) - 1 : t[k] = IF k < i THEN s[k] ELSE s[k + 1]
      PROVE  /\ t \in Seq(S) /\ IsInjective(t) /\ Range(t) = Range(s) \ {e}
             /\ Len(t) = IF e \in Range(s) THEN Len(s) - 1 ELSE Len(s)
             /\ \E h \in [1 .. Len(t) -> 1 .. Len(s)] :
                  Increasing(h, Len(t)) /\ \A k \in 1 .. Len(t) : t[k] = s[h[k]]
  <2>. HIDE DEF t
  <2>. DEFINE h == [k \in 1 .. Len(t) |-> IF k < i THEN k ELSE k + 1]
  <2>1. DOMAIN t = 1 .. Len(t) /\ Len(t) \in Nat
    BY <1>2
  <2>2. h \in [1 .. Len(t) -> 1 .. Len(s)] /\ \A k \in 1 .. Len(t) : h[k] # i
    BY <1>0, <1>2
  <2>3. Increasing(h, Len(t))
    BY <1>0, <1>2 DEF Increasing
  <2>4. \A k \in 1 .. Len(t) : t[k] = s[h[k]]
    BY <1>0, <1>2
  <2>5. \A j \in 1 .. Len(s) : j # i => \E k \in 1 .. Len(t) : h[k] = j
    <3>. SUFFICES ASSUME NEW j \in 1 .. Len(s), j # i PROVE \E k \in 1 .. Len(t) : h[k] = j
      OBVIOUS
    <3>1. CASE j < i
      BY <1>0, <1>2, <3>1
    <3>2. CASE j > i
      <4>1. j - 1 \in 1 .. Len(t) /\ h[j - 1] = j
        BY <1>0, <1>2, <3>2
      <4>. QED BY <4>1
    <3>. QED BY <3>1, <3>2
  <2>. HIDE DEF h
  <2>6. IsInjective(t)
    <3>. SUFFICES ASSUME NEW k \in 1 .. Len(t), NEW m \in 1 .. Len(t), t[k] = t[m] PROVE k = m
      BY <2>1 DEF IsInjective
    <3>1. h[k] = h[m]
      BY <1>0, <2>2, <2>4
    <3>2. h[k] \in Int /\ h[m] \in Int
      BY <2>2
    <3>. QED BY <2>1, <2>3, <3>1, <3>2 DEF Increasing
  <2>7. Range(t) = Range(s) \ {e}
    <3>1. ASSUME NEW k \in 1 .. Len(t) PROVE t[k] \in Range(s) \ {e}
      <4>1. h[k] \in 1 .. Len(s) /\ h[k] # i /\ t[k] = s[h[k]]
        BY <2>2, <2>4
      <4>2. s[h[k]] # s[i]
        BY <1>0, <4>1
      <4>. QED BY <1>0, <1>2, <4>1, <4>2 DEF Range
    <3>2. ASSUME NEW x \in Range(s) \ {e} PROVE x \in Range(t)
      <4>1. PICK j \in 1 .. Len(s) : x = s[j]
        BY <1>0 DEF Range
      <4>2. j # i
        BY <1>2, <4>1
      <4>3. PICK k \in 1 .. Len(t) : h[k] = j
        BY <2>5, <4>2
      <4>. QED BY <2>1, <2>4, <4>1, <4>3 DEF Range
    <3>. QED BY <2>1, <3>1, <3>2 DEF Range
  <2>8. e \in Range(s)
    BY <1>0, <1>2 DEF Range
  <2>. QED BY <1>2, <2>2, <2>3, <2>4, <2>6, <2>7, <2>8
<1>. HIDE DEF t
<1>3. \/ (\A k \in 1 .. Len(s) : s[k] # e) /\ t = s
      \/ \E i \in 1 .. Len(s) :
           /\ s[i] = e
           /\ t \in Seq(S)
           /\ Len(t) = Len(s) - 1
           /\ \A k \in 1 .. Len(s) - 1 : t[k] = IF k < i THEN s[k] ELSE s[k + 1]
  BY RemoveFirstFacts DEF t
<1>. QED BY <1>1, <1>2, <1>3 DEF t

\* With one element more a list still repeats nothing.
LEMMA InsertAtPart ==
  ASSUME NEW S, NEW s \in Seq(S), NEW e \in S, NEW i \in 1 .. Len(s) + 1,
         IsInjective(s), e \notin Range(s)
  PROVE  /\ InsertAt(s, i, e) \in Seq(S) /\ IsInjective(InsertAt(s, i, e))
         /\ Range(InsertAt(s, i, e)) = Range(s) \cup {e}
         /\ Len(InsertAt(s, i, e)) = Len(s) + 1
<1>. DEFINE t == InsertAt(s, i, e)
<1>0. /\ Len(s) \in Nat /\ DOMAIN s = 1 .. Len(s)
      /\ \A k, j \in 1 .. Len(s) : s[k] = s[j] => k = j
      /\ \A k \in 1 .. Len(s) : s[k] # e
  BY DEF IsInjective, Range
<1>1. /\ t \in Seq(S) /\ Len(t) = Len(s) + 1
      /\ \A k \in 1 .. Len(s) + 1 : t[k] = IF k < i THEN s[k] ELSE IF k = i THEN e ELSE s[k - 1]
  BY InsertAtFacts
<1>. HIDE DEF t
<1>2. DOMAIN t = 1 .. Len(s) + 1 /\ Len(t) = Len(s) + 1
  BY <1>1
<1>. DEFINE f(k) == IF k < i THEN k ELSE k - 1
<1>3. \A k \in 1 .. Len(s) + 1 : k # i => f(k) \in 1 .. Len(s) /\ t[k] = s[f(k)]
  BY <1>0, <1>1
<1>4. \A k, j \in 1 .. Len(s) + 1 : k # i /\ j # i /\ f(k) = f(j) => k = j
  BY <1>0
<1>5. t[i] = e
  BY <1>1
<1>6. \A j \in 1 .. Len(s) : \E k \in 1 .. Len(s) + 1 : k # i /\ f(k) = j
  <2>. SUFFICES ASSUME NEW j \in 1 .. Len(s) PROVE \E k \in 1 .. Len(s) + 1 : k # i /\ f(k) = j
    OBVIOUS
  <2>1. CASE j < i
    BY <1>0, <2>1
  <2>2. CASE j >= i
    <3>1. j + 1 \in 1 .. Len(s) + 1 /\ j + 1 # i /\ f(j + 1) = j
      BY <1>0, <2>2
    <3>. QED BY <3>1
  <2>. QED BY <2>1, <2>2
<1>. HIDE DEF f
<1>7. IsInjective(t)
  <2>. SUFFICES ASSUME NEW k \in 1 .. Len(s) + 1, NEW j \in 1 .. Len(s) + 1, t[k] = t[j] PROVE k = j
    BY <1>2 DEF IsInjective
  <2>1. CASE k # i /\ j # i
    BY <1>0, <1>3, <1>4, <2>1
  <2>2. CASE k = i \/ j = i
    BY <1>0, <1>3, <1>5, <2>2
  <2>. QED BY <2>1, <2>2
<1>8. Range(t) = Range(s) \cup {e}
  <2>1. ASSUME NEW k \in 1 .. Len(s) + 1 PROVE t[k] \in Range(s) \cup {e}
    BY <1>0, <1>3, <1>5 DEF Range
  <2>2. e \in Range(t)
    BY <1>2, <1>5 DEF Range
  <2>3. ASSUME NEW x \in Range(s) PROVE x \in Range(t)
    <3>1. PICK j \in 1 .. Len(s) : x = s[j]
      BY <1>0 DEF Range
    <3>2. PICK k \in 1 .. Len(s) + 1 : k # i /\ f(k) = j
      BY <1>6
    <3>. QED BY <1>2, <1>3, <3>1, <3>2 DEF Range
  <2>. QED BY <1>2, <2>1, <2>2, <2>3 DEF Range
<1>. QED BY <1>1, <1>7, <1>8 DEF t

\* The first of n positions that is in A, else the one behind the last.
First(n, A) ==
    LET at == IF A # {} THEN Min(A) ELSE 0
    IN  IF at = 0 THEN n + 1 ELSE at

\* No position before the first is in A.
LEMMA FirstIn ==
  ASSUME NEW n \in Nat, NEW A \in SUBSET (1 .. n)
  PROVE  /\ First(n, A) \in 1 .. n + 1
         /\ \A k \in 1 .. n : k < First(n, A) => k \notin A
         /\ First(n, A) <= n => First(n, A) \in A
<1>. DEFINE at == IF A # {} THEN Min(A) ELSE 0
            i == IF at = 0 THEN n + 1 ELSE at
<1>. SUFFICES i \in 1 .. n + 1 /\ (\A k \in 1 .. n : k < i => k \notin A) /\ (i <= n => i \in A)
  BY DEF First
<1>1. CASE A = {}
  BY <1>1
<1>2. CASE A # {}
  <2>1. \E m \in A : \A k \in A : m <= k
    <3>1. A \in SUBSET Nat
      OBVIOUS
    <3>. QED BY <1>2, <3>1, NatLeast
  <2>2. Min(A) \in A /\ \A k \in A : Min(A) <= k
    BY <2>1 DEF Min
  <2>3. at = Min(A)
    BY <1>2
  <2>4. at \in A /\ at \in 1 .. n /\ \A k \in A : at <= k
    BY ONLY <2>2, <2>3, A \in SUBSET (1 .. n)
  <2>5. i = at
    BY <2>4
  <2>. HIDE DEF i, at
  <2>. QED BY <2>4, <2>5
<1>. QED BY <1>1, <1>2

\* A task put behind the shorter and before the longer periods keeps the array sorted.
LEMMA InsertByPeriod ==
  ASSUME NEW list \in TaskList, ByPeriod(list), NEW new \in TaskRecord, NEW i \in 1 .. Len(list) + 1,
         \A k \in 1 .. Len(list) : k < i => list[k].period <= new.period,
         \A k \in 1 .. Len(list) : k >= i => new.period <= list[k].period
  PROVE  InsertAt(list, i, new) \in TaskList /\ ByPeriod(InsertAt(list, i, new))
<1>. DEFINE t == InsertAt(list, i, new)
            n == Len(list)
<1>1. /\ t \in Seq(TaskRecord) /\ Len(t) = n + 1
      /\ \A k \in 1 .. n + 1 : t[k] = IF k < i THEN list[k] ELSE IF k = i THEN new ELSE list[k - 1]
  BY InsertAtFacts DEF TaskList
<1>2. n \in Nat /\ (\A k \in 1 .. n : list[k].period \in Nat) /\ new.period \in Nat
  BY TaskListFacts DEF TaskRecord
<1>. HIDE DEF t, n
<1>3. \A k \in 1 .. n + 1 : t[k].period = IF k < i THEN list[k].period ELSE IF k = i THEN new.period
                                           ELSE list[k - 1].period
  BY <1>1
<1>4. ASSUME NEW k \in 1 .. n + 1, NEW m \in 1 .. n + 1, k <= m
      PROVE  t[k].period <= t[m].period
  <2>0. i \in 1 .. n + 1 /\ (k < i => k \in 1 .. n) /\ (k > i => k - 1 \in 1 .. n)
        /\ (m < i => m \in 1 .. n) /\ (m > i => m - 1 \in 1 .. n)
    BY <1>2 DEF n
  <2>1. \A a, b \in 1 .. n : a <= b => list[a].period <= list[b].period
    BY DEF ByPeriod, n
  <2>2. CASE m < i
    BY <1>2, <1>3, <1>4, <2>0, <2>1, <2>2
  <2>3. CASE k > i
    <3>1. k - 1 \in 1 .. n /\ m - 1 \in 1 .. n /\ k - 1 <= m - 1 /\ m > i
      BY <1>4, <2>0, <2>3
    <3>2. t[k].period = list[k - 1].period /\ t[m].period = list[m - 1].period
      BY <1>3, <2>0, <2>3, <3>1
    <3>. QED BY <2>1, <3>1, <3>2
  <2>4. CASE k < i /\ m > i
    <3>1. k \in 1 .. n /\ m - 1 \in 1 .. n /\ k <= m - 1
      BY <2>0, <2>4
    <3>2. t[k].period = list[k].period /\ t[m].period = list[m - 1].period
      BY <1>3, <2>0, <2>4, <3>1
    <3>. QED BY <2>1, <3>1, <3>2
  <2>5. CASE k = i /\ m > i
    <3>1. m - 1 \in 1 .. n /\ m - 1 >= i
      BY <2>0, <2>5
    <3>2. new.period <= list[m - 1].period
      BY <3>1 DEF n
    <3>3. t[k].period = new.period /\ t[m].period = list[m - 1].period
      BY <1>3, <2>0, <2>5, <3>1
    <3>. QED BY <3>2, <3>3
  <2>6. CASE k < i /\ m = i
    <3>1. k \in 1 .. n /\ list[k].period <= new.period
      BY <2>0, <2>6 DEF n
    <3>2. t[k].period = list[k].period /\ t[m].period = new.period
      BY <1>3, <2>0, <2>6
    <3>. QED BY <3>1, <3>2
  <2>7. CASE k = i /\ m = i
    <3>1. t[k].period = t[m].period /\ t[k].period \in Nat
      BY <1>2, <1>3, <2>7
    <3>. QED BY <3>1
  <2>8. m < i \/ k > i \/ (k < i /\ m > i) \/ (k = i /\ m > i) \/ (k < i /\ m = i) \/ (k = i /\ m = i)
    BY <1>4, <2>0
  <2>. QED BY <2>2, <2>3, <2>4, <2>5, <2>6, <2>7, <2>8
<1>5. ByPeriod(t)
  BY <1>1, <1>4 DEF ByPeriod
<1>. QED BY <1>1, <1>5 DEF t, TaskList

\* InsertAt, element by element, of a task array.
LEMMA TaskInsert ==
  ASSUME NEW list \in TaskList, NEW new \in TaskRecord, NEW i \in 1 .. Len(list) + 1
  PROVE  /\ InsertAt(list, i, new) \in TaskList
         /\ Len(InsertAt(list, i, new)) = Len(list) + 1
         /\ \A k \in 1 .. Len(list) + 1 :
              InsertAt(list, i, new)[k] = IF k < i THEN list[k] ELSE IF k = i THEN new ELSE list[k - 1]
<1>1. list \in Seq(TaskRecord)
  BY DEF TaskList
<1>2. new \in TaskRecord /\ i \in 1 .. Len(list) + 1
  OBVIOUS
<1>3. InsertAt(list, i, new) \in Seq(TaskRecord)
  BY ONLY <1>1, <1>2, InsertAtFacts
<1>4. Len(InsertAt(list, i, new)) = Len(list) + 1
  BY ONLY <1>1, <1>2, InsertAtFacts
<1>5. \A k \in 1 .. Len(list) + 1 :
        InsertAt(list, i, new)[k] = IF k < i THEN list[k] ELSE IF k = i THEN new ELSE list[k - 1]
  BY ONLY <1>1, <1>2, InsertAtFacts
<1>. QED BY <1>3, <1>4, <1>5 DEF TaskList

\* Where among equal periods a task is put does not matter to the test.
LEMMA InsertAnywhere ==
  ASSUME NEW list \in TaskList, NEW new \in TaskRecord,
         NEW i \in 1 .. Len(list) + 1, NEW j \in 1 .. Len(list) + 1,
         ByPeriod(InsertAt(list, i, new)), ByPeriod(InsertAt(list, j, new)),
         __check_admission(InsertAt(list, i, new))
  PROVE  __check_admission(InsertAt(list, j, new))
<1>. DEFINE n == Len(list)
            t == InsertAt(list, i, new)
            u == InsertAt(list, j, new)
            from(k) == IF k < j THEN k ELSE k - 1
            h == [k \in 1 .. n + 1 |-> IF k = j THEN i ELSE IF from(k) < i THEN from(k) ELSE from(k) + 1]
<1>1. /\ t \in TaskList /\ Len(t) = n + 1
      /\ \A k \in 1 .. n + 1 : t[k] = IF k < i THEN list[k] ELSE IF k = i THEN new ELSE list[k - 1]
  BY TaskInsert
<1>2. /\ u \in TaskList /\ Len(u) = n + 1
      /\ \A k \in 1 .. n + 1 : u[k] = IF k < j THEN list[k] ELSE IF k = j THEN new ELSE list[k - 1]
  BY TaskInsert
<1>3. n \in Nat /\ i \in 1 .. n + 1 /\ j \in 1 .. n + 1
  BY TaskListFacts
<1>4. ByPeriod(t) /\ ByPeriod(u) /\ __check_admission(t)
  OBVIOUS
<1>. HIDE DEF t, u, n
<1>5. h \in [1 .. n + 1 -> 1 .. n + 1] /\ \A k, m \in 1 .. n + 1 : h[k] = h[m] => k = m
  BY <1>3
<1>6. \A k \in 1 .. n + 1 : u[k] = t[h[k]]
  <2>. SUFFICES ASSUME NEW k \in 1 .. n + 1 PROVE u[k] = t[h[k]]
    OBVIOUS
  <2>1. CASE k = j
    BY <1>1, <1>2, <1>3, <2>1
  <2>2. CASE k # j
    <3>1. from(k) \in 1 .. n /\ u[k] = list[from(k)]
      BY <1>2, <1>3, <2>2
    <3>2. h[k] = IF from(k) < i THEN from(k) ELSE from(k) + 1
      BY <2>2
    <3>. HIDE DEF from, h
    <3>3. CASE from(k) < i
      BY <1>1, <1>3, <3>1, <3>2, <3>3
    <3>4. CASE from(k) >= i
      <4>1. h[k] = from(k) + 1 /\ h[k] \in 1 .. n + 1 /\ h[k] > i /\ h[k] - 1 = from(k)
        BY <1>3, <3>1, <3>2, <3>4
      <4>. QED BY <1>1, <1>3, <3>1, <4>1
    <3>. QED BY <1>3, <3>1, <3>3, <3>4
  <2>. QED BY <2>1, <2>2
<1>. HIDE DEF h
<1>7. /\ h \in [1 .. Len(u) -> 1 .. Len(t)] /\ (\A k, m \in 1 .. Len(u) : h[k] = h[m] => k = m)
      /\ \A k \in 1 .. Len(u) : u[k] = t[h[k]]
  BY ONLY <1>1, <1>2, <1>5, <1>6
<1>8. __check_admission(u)
  BY ONLY <1>1, <1>2, <1>4, <1>7, AdmissionOfPart
<1>. QED BY <1>8 DEF u

\* A task alone whose budget is not more than its period passes.
LEMMA AdmittedAlone ==
  ASSUME NEW list \in TaskList, Len(list) = 1, list[1].budget <= list[1].period
  PROVE  __check_admission(list)
<1>1. list[1].budget \in Nat /\ list[1].period \in Nat \ {0} /\ 1 \in 1 .. Len(list)
  BY TaskListFacts
<1>2. list[1].period \in 1 .. list[1].period /\ list[1].period \in Nat
  BY <1>1
<1>3. demand(list, 1, list[1].period) = list[1].budget + SumFunctionOnSet(Released(list, list[1].period), 1 .. 1 - 1)
  BY <1>1, <1>2, DemandIsSum
<1>4. SumFunctionOnSet(Released(list, list[1].period), 1 .. 1 - 1) = 0
  <2>1. 1 .. 1 - 1 = {}
    OBVIOUS
  <2>. QED BY <2>1, SumEmpty
<1>5. demand(list, 1, list[1].period) <= list[1].period
  BY <1>1, <1>3, <1>4
<1>6. TimeDemandMet(list, 1)
  BY <1>2, <1>5 DEF TimeDemandMet
<1>7. rt_test(list, 1)
  BY <1>1, <1>6, RtTestIsTimeDemandAnalysis
<1>. QED BY <1>7 DEF __check_admission

\* Where check_admission puts the new task for the test, the array stays sorted.
LEMMA PlaceOfNew ==
  ASSUME NEW list \in TaskList, ByPeriod(list), NEW new \in TaskRecord, list # <<>>
  PROVE  \E i \in 1 .. Len(list) + 1 :
           /\ AdmitsTo(list, new) <=> __check_admission(InsertAt(list, i, new))
           /\ ByPeriod(InsertAt(list, i, new))
<1>. DEFINE n == Len(list)
            A == {k \in 1 .. n : new.period <= list[k].period}
            later == SelectInSeq(list, LAMBDA u : new.period <= u.period)
            i == IF later = 0 THEN n + 1 ELSE later
<1>0. n \in Nat
  BY TaskListFacts
<1>1. AdmitsTo(list, new) <=> __check_admission(InsertAt(list, i, new))
  BY DEF AdmitsTo
<1>2. i = First(n, A)
  BY DEF First, SelectInSeq
<1>3. A \in SUBSET (1 .. n)
  OBVIOUS
<1>4. i \in 1 .. n + 1 /\ (\A k \in 1 .. n : k < i => k \notin A) /\ (i <= n => i \in A)
  <2>. HIDE DEF A, later, i
  <2>. QED BY <1>0, <1>2, <1>3, FirstIn
<1>5. new.period \in Nat /\ \A k \in 1 .. n : list[k].period \in Nat
  BY TaskListFacts DEF TaskRecord
<1>. HIDE DEF i
<1>6. \A k \in 1 .. n : k < i => list[k].period <= new.period
  BY <1>4, <1>5
<1>7. \A k \in 1 .. n : k >= i => new.period <= list[k].period
  <2>. SUFFICES ASSUME NEW k \in 1 .. n, k >= i PROVE new.period <= list[k].period
    OBVIOUS
  <2>1. i \in 1 .. n
    BY <1>0, <1>4
  <2>2. new.period <= list[i].period
    BY <1>4, <2>1
  <2>3. list[i].period <= list[k].period
    BY <2>1 DEF ByPeriod
  <2>. QED BY <1>5, <2>1, <2>2, <2>3
<1>8. ByPeriod(InsertAt(list, i, new))
  BY <1>4, <1>6, <1>7, InsertByPeriod
<1>. QED BY <1>1, <1>4, <1>8

\* check_admission admits a task exactly if the list with it, at any place that
\* keeps it sorted, passes: it tests before the first period that is not shorter,
\* add_periodic_task inserts before the first that is longer.
THEOREM AdmittedMayJoin ==
  ASSUME NEW list \in TaskList, ByPeriod(list), NEW new \in TaskRecord, new.budget <= new.period,
         NEW j \in 1 .. Len(list) + 1, ByPeriod(InsertAt(list, j, new))
  PROVE  AdmitsTo(list, new) <=> __check_admission(InsertAt(list, j, new))
<1>. DEFINE n == Len(list)
<1>0. n \in Nat
  BY TaskListFacts
<1>1. CASE list = <<>>
  <2>1. j = 1 /\ n = 0
    BY <1>1
  <2>2. /\ InsertAt(list, j, new) \in TaskList /\ Len(InsertAt(list, j, new)) = n + 1
        /\ \A k \in 1 .. n + 1 : InsertAt(list, j, new)[k]
                                  = IF k < j THEN list[k] ELSE IF k = j THEN new ELSE list[k - 1]
    BY TaskInsert
  <2>3. Len(InsertAt(list, j, new)) = 1 /\ InsertAt(list, j, new)[1] = new
    BY <2>1, <2>2
  <2>4. __check_admission(InsertAt(list, j, new))
    BY <2>2, <2>3, AdmittedAlone
  <2>5. AdmitsTo(list, new)
    <3>. DEFINE b == new.budget
                d == new.period
    <3>1. b \in Nat /\ d \in Nat \ {0} /\ b <= d
      BY DEF TaskRecord
    <3>. HIDE DEF b, d
    <3>2. b * SCALE_UP_FACTOR \in Nat /\ SCALE_UP_FACTOR * d \in Nat /\ b * SCALE_UP_FACTOR <= SCALE_UP_FACTOR * d
      BY <3>1 DEF SCALE_UP_FACTOR
    <3>3. (b * SCALE_UP_FACTOR) \div d <= SCALE_UP_FACTOR
      <4>. DEFINE x == b * SCALE_UP_FACTOR
                  q == x \div d
                  m == x % d
      <4>0. x \in Nat
        BY <3>2
      <4>. HIDE DEF x
      <4>1. x \in Nat /\ q \in Nat /\ m \in 0 .. d - 1 /\ x = q * d + m
        BY <3>1, <4>0
      <4>. HIDE DEF q, m
      <4>2. q <= SCALE_UP_FACTOR
        <5>. SUFFICES ASSUME SCALE_UP_FACTOR + 1 <= q PROVE FALSE
          BY <4>1 DEF SCALE_UP_FACTOR
        <5>1. (SCALE_UP_FACTOR + 1) * d <= q * d
          BY <3>1, <4>1, TimesMonotone DEF SCALE_UP_FACTOR
        <5>2. (SCALE_UP_FACTOR + 1) * d = SCALE_UP_FACTOR * d + d /\ q * d \in Int
          BY <3>1, <4>1 DEF SCALE_UP_FACTOR
        <5>3. x <= SCALE_UP_FACTOR * d
          BY <3>2 DEF x
        <5>. QED BY <3>1, <3>2, <4>1, <5>1, <5>2, <5>3
      <4>. QED BY <4>2 DEF q, x
    <3>. QED BY <1>1, <3>3 DEF AdmitsTo, b, d
  <2>. QED BY <2>4, <2>5
<1>2. CASE list # <<>>
  <2>1. PICK i \in 1 .. n + 1 : /\ AdmitsTo(list, new) <=> __check_admission(InsertAt(list, i, new))
                                /\ ByPeriod(InsertAt(list, i, new))
    BY <1>2, PlaceOfNew
  <2>. QED BY <2>1, InsertAnywhere
<1>. QED BY <1>1, <1>2

\* The first n tasks of order have a period each and are sorted.
RankedList(order, n, period) ==
    /\ n \in Nat
    /\ \A i \in 1 .. n : period[order[i]] \in Nat \ {0}
    /\ \A i, j \in 1 .. n : i <= j => period[order[i]] <= period[order[j]]

\* The rank grows by one where the period does.
LEMMA RankStep ==
  ASSUME NEW order, NEW n, NEW period, RankedList(order, n, period)
  PROVE  /\ n > 0 => Rank(order, 1, period) = 1
         /\ \A k \in 1 .. n : Rank(order, k, period) \in Nat
         /\ \A k \in 1 .. n - 1 :
              Rank(order, k + 1, period) = Rank(order, k, period)
                + IF period[order[k + 1]] > period[order[k]] THEN 1 ELSE 0
<1>. DEFINE up(i) == period[order[i]] > (IF i = 1 THEN 0 ELSE period[order[i - 1]])
            U(k) == {i \in 1 .. k : up(i)}
<1>0. n \in Nat
  BY DEF RankedList
<1>1. \A k : Rank(order, k, period) = Cardinality(U(k))
  BY DEF Rank
<1>2. \A k \in Nat : IsFiniteSet(U(k)) /\ Cardinality(U(k)) \in Nat
  <2>. SUFFICES ASSUME NEW k \in Nat PROVE IsFiniteSet(U(k)) /\ Cardinality(U(k)) \in Nat
    OBVIOUS
  <2>1. IsFiniteSet(1 .. k) /\ U(k) \in SUBSET (1 .. k)
    BY FS_Interval
  <2>2. IsFiniteSet(U(k))
    <3>. HIDE DEF U
    <3>. QED BY <2>1, FS_Subset
  <2>. HIDE DEF U
  <2>. QED BY <2>2, FS_CardinalityType
<1>3. ASSUME n > 0 PROVE Rank(order, 1, period) = 1
  <2>1. up(1)
    BY <1>0, <1>3 DEF RankedList
  <2>2. U(1) = {1}
    BY <2>1
  <2>. QED BY <1>1, <2>2, FS_Singleton
<1>4. ASSUME NEW k \in 1 .. n - 1
      PROVE  Rank(order, k + 1, period) = Rank(order, k, period)
               + IF period[order[k + 1]] > period[order[k]] THEN 1 ELSE 0
  <2>0. k \in Nat /\ k + 1 # 1 /\ (k + 1) - 1 = k
    BY <1>0
  <2>1. up(k + 1) <=> period[order[k + 1]] > period[order[k]]
    BY <2>0
  <2>. HIDE DEF up
  <2>2. CASE up(k + 1)
    <3>1. U(k + 1) = U(k) \cup {k + 1} /\ k + 1 \notin U(k)
      BY <2>0, <2>2
    <3>2. IsFiniteSet(U(k)) /\ Cardinality(U(k)) \in Nat
      BY <1>2, <2>0
    <3>. HIDE DEF U
    <3>3. Cardinality(U(k) \cup {k + 1}) = Cardinality(U(k)) + 1
      BY ONLY <3>1, <3>2, FS_AddElement
    <3>. QED BY <1>1, <2>1, <2>2, <3>1, <3>3
  <2>3. CASE ~up(k + 1)
    <3>1. U(k + 1) = U(k)
      BY <2>0, <2>3
    <3>2. Cardinality(U(k)) \in Nat
      BY <1>2, <2>0
    <3>. HIDE DEF U
    <3>. QED BY <1>1, <2>1, <2>3, <3>1, <3>2
  <2>. QED BY <2>2, <2>3
<1>5. \A k \in 1 .. n : Rank(order, k, period) \in Nat
  <2>. HIDE DEF U
  <2>. QED BY <1>0, <1>1, <1>2
<1>. QED BY <1>3, <1>4, <1>5

\* The ranks are positive, follow the periods and leave no gap.
LEMMA RankFacts ==
  ASSUME NEW order, NEW n, NEW period, RankedList(order, n, period)
  PROVE  /\ \A i \in 1 .. n : Rank(order, i, period) \in 1 .. i
         /\ \A i, j \in 1 .. n : Rank(order, i, period) < Rank(order, j, period)
                                   <=> period[order[i]] < period[order[j]]
         /\ \E m \in Nat : {Rank(order, i, period) : i \in 1 .. n} = 1 .. m
<1>. DEFINE r(i) == Rank(order, i, period)
            q(i) == period[order[i]]
<1>0. /\ n \in Nat
      /\ \A i \in 1 .. n : q(i) \in Nat \ {0}
      /\ \A i, j \in 1 .. n : i <= j => q(i) <= q(j)
  BY DEF RankedList
<1>1. /\ n > 0 => r(1) = 1
      /\ \A k \in 1 .. n : r(k) \in Nat
      /\ \A k \in 1 .. n - 1 : r(k + 1) = r(k) + IF q(k + 1) > q(k) THEN 1 ELSE 0
  BY RankStep
<1>. HIDE DEF r, q
<1>2. ASSUME NEW i \in 1 .. n
      PROVE  \A j \in 1 .. n : i <= j => r(i) <= r(j) /\ (r(i) = r(j) <=> q(i) = q(j))
  <2>. DEFINE T == {d \in Nat : i + d <= n => r(i) <= r(i + d) /\ (r(i) = r(i + d) <=> q(i) = q(i + d))}
  <2>1. 0 \in T
    BY <1>0, <1>1
  <2>2. ASSUME NEW d \in Nat, d \in T PROVE d + 1 \in T
    <3>. SUFFICES ASSUME i + (d + 1) <= n
                  PROVE  /\ r(i) <= r(i + (d + 1))
                         /\ r(i) = r(i + (d + 1)) <=> q(i) = q(i + (d + 1))
      OBVIOUS
    <3>1. i + d \in 1 .. n - 1 /\ i + d \in 1 .. n /\ i + (d + 1) = (i + d) + 1 /\ (i + d) + 1 \in 1 .. n
          /\ i <= i + d /\ i + d <= (i + d) + 1 /\ i + d <= n
      BY <1>0
    <3>2. r(i) <= r(i + d) /\ (r(i) = r(i + d) <=> q(i) = q(i + d))
      BY <2>2, <3>1
    <3>3. r((i + d) + 1) = r(i + d) + IF q((i + d) + 1) > q(i + d) THEN 1 ELSE 0
      BY <1>1, <3>1
    <3>4. q(i) <= q(i + d) /\ q(i + d) <= q((i + d) + 1)
      BY <1>0, <3>1
    <3>5. r(i) \in Nat /\ r(i + d) \in Nat /\ q(i) \in Nat /\ q(i + d) \in Nat /\ q((i + d) + 1) \in Nat
      BY <1>0, <1>1, <3>1
    <3>. QED BY <3>1, <3>2, <3>3, <3>4, <3>5
  <2>3. Nat \subseteq T
    <3>. HIDE DEF T
    <3>. QED BY <2>1, <2>2, SetInduction
  <2>4. ASSUME NEW j \in 1 .. n, i <= j
        PROVE  r(i) <= r(j) /\ (r(i) = r(j) <=> q(i) = q(j))
    <3>1. j - i \in Nat /\ i + (j - i) = j /\ j <= n
      BY <1>0, <2>4
    <3>2. j - i \in T
      BY <2>3, <3>1
    <3>. QED BY <3>1, <3>2
  <2>. QED BY <2>4
<1>3. ASSUME NEW i \in 1 .. n, NEW j \in 1 .. n PROVE r(i) < r(j) <=> q(i) < q(j)
  <2>1. r(i) \in Nat /\ r(j) \in Nat /\ q(i) \in Nat /\ q(j) \in Nat
    BY <1>0, <1>1
  <2>2. CASE i <= j
    BY <1>0, <1>2, <2>1, <2>2
  <2>3. CASE j <= i
    BY <1>0, <1>2, <2>1, <2>3
  <2>. QED BY <1>0, <2>2, <2>3
<1>. DEFINE T == {k \in Nat : k + 1 <= n => /\ r(k + 1) \in 1 .. k + 1
                                            /\ {r(i) : i \in 1 .. k + 1} = 1 .. r(k + 1)}
<1>4. 0 \in T
  <2>. SUFFICES ASSUME 1 <= n PROVE r(1) \in 1 .. 1 /\ {r(i) : i \in 1 .. 1} = 1 .. r(1)
    OBVIOUS
  <2>1. r(1) = 1
    BY <1>0, <1>1
  <2>2. {r(i) : i \in 1 .. 1} = {r(1)}
    OBVIOUS
  <2>3. 1 .. 1 = {1}
    OBVIOUS
  <2>. QED BY <2>1, <2>2, <2>3
<1>5. ASSUME NEW k \in Nat, k \in T PROVE k + 1 \in T
  <2>. SUFFICES ASSUME (k + 1) + 1 <= n
                PROVE  /\ r((k + 1) + 1) \in 1 .. (k + 1) + 1
                       /\ {r(i) : i \in 1 .. (k + 1) + 1} = 1 .. r((k + 1) + 1)
    OBVIOUS
  <2>1. k + 1 \in 1 .. n - 1 /\ k + 1 <= n
    BY <1>0
  <2>2. r(k + 1) \in 1 .. k + 1 /\ {r(i) : i \in 1 .. k + 1} = 1 .. r(k + 1)
    BY <1>5, <2>1
  <2>3. r((k + 1) + 1) = r(k + 1) \/ r((k + 1) + 1) = r(k + 1) + 1
    BY <1>1, <2>1, <2>2
  <2>4. {r(i) : i \in 1 .. (k + 1) + 1} = {r(i) : i \in 1 .. k + 1} \cup {r((k + 1) + 1)}
    <3>1. \A i : i \in 1 .. (k + 1) + 1 <=> i \in 1 .. k + 1 \/ i = (k + 1) + 1
      OBVIOUS
    <3>. QED BY <3>1
  <2>. DEFINE a == r(k + 1)
              b == r((k + 1) + 1)
  <2>5. a \in Nat /\ a >= 1 /\ a <= k + 1 /\ (b = a \/ b = a + 1)
    BY <2>2, <2>3
  <2>. HIDE DEF a, b
  <2>6. (1 .. a) \cup {b} = 1 .. b
    BY <2>5
  <2>7. b \in 1 .. (k + 1) + 1
    BY <2>5
  <2>. QED BY <2>2, <2>4, <2>6, <2>7 DEF a, b
<1>6. Nat \subseteq T
  <2>. HIDE DEF T
  <2>. QED BY <1>4, <1>5, SetInduction
<1>7. ASSUME NEW i \in 1 .. n PROVE r(i) \in 1 .. i /\ {r(j) : j \in 1 .. i} = 1 .. r(i)
  <2>1. i - 1 \in Nat /\ (i - 1) + 1 = i /\ i <= n
    BY <1>0
  <2>2. i - 1 \in T
    BY <1>6, <2>1
  <2>. QED BY <2>1, <2>2
<1>8. \E m \in Nat : {r(i) : i \in 1 .. n} = 1 .. m
  <2>1. CASE n = 0
    <3>1. {r(i) : i \in 1 .. n} = 1 .. 0
      BY <2>1
    <3>. QED BY <3>1
  <2>2. CASE n # 0
    <3>1. n \in 1 .. n
      BY <1>0, <2>2
    <3>2. {r(j) : j \in 1 .. n} = 1 .. r(n) /\ r(n) \in Nat
      BY <1>1, <1>7, <3>1
    <3>. QED BY <3>2
  <2>. QED BY <2>1, <2>2
<1>. QED BY <1>3, <1>7, <1>8 DEF r, q

-----------------------------------------------------------------------------

\* The ranks of the first n tasks are the numbers from 1 on, without a gap.
Dense(order, n, period) == \E m \in Nat : {Rank(order, i, period) : i \in 1 .. n} = 1 .. m

\* The ranks that set_rt_priorities computes leave no gap.
LEMMA RanksDense ==
  ASSUME NEW order, NEW n, NEW period, RankedList(order, n, period)
  PROVE  Dense(order, n, period)
BY RankFacts DEF Dense

\* The processes of order have ascending periods.
Sorted(period, order) ==
    \A i, j \in 1 .. Len(order) : i <= j => period[order[i]] <= period[order[j]]

\* Division is monotone: the conversion to microseconds keeps the order of periods.
LEMMA DivMonotone ==
  ASSUME NEW a \in Nat, NEW b \in Nat, NEW n \in Nat \ {0}, a <= b
  PROVE  a \div n \in Nat /\ b \div n \in Nat /\ a \div n <= b \div n /\ (b >= n => b \div n >= 1)
<1>. DEFINE qa == a \div n
            qb == b \div n
            ra == a % n
            rb == b % n
<1>1. /\ qa \in Nat /\ qb \in Nat /\ ra \in 0 .. n - 1 /\ rb \in 0 .. n - 1
      /\ a = qa * n + ra /\ b = qb * n + rb
  OBVIOUS
<1>. HIDE DEF qa, qb, ra, rb
<1>2. qa <= qb
  <2>. SUFFICES ASSUME qb + 1 <= qa PROVE FALSE
    BY <1>1
  <2>1. (qb + 1) * n <= qa * n
    BY <1>1, TimesMonotone
  <2>2. (qb + 1) * n = qb * n + n /\ qb * n \in Int /\ qa * n \in Int
    BY <1>1
  <2>. QED BY <1>1, <2>1, <2>2
<1>3. b >= n => qb >= 1
  <2>. SUFFICES ASSUME b >= n, qb = 0 PROVE FALSE
    BY <1>1
  <2>1. qb * n = 0
    OBVIOUS
  <2>. QED BY <1>1, <2>1
<1>. QED BY <1>1, <1>2, <1>3 DEF qa, qb

\* A sequence and the set of its elements.
LEMMA RangeFacts ==
  ASSUME NEW S, NEW s \in Seq(S)
  PROVE  /\ DOMAIN s = 1 .. Len(s) /\ Len(s) \in Nat
         /\ IsFiniteSet(Range(s)) /\ Cardinality(Range(s)) \in Nat
         /\ Range(s) \subseteq S
         /\ \A i \in 1 .. Len(s) : s[i] \in Range(s) /\ s[i] \in S
         /\ IsInjective(s) => Cardinality(Range(s)) = Len(s)
<1>1. DOMAIN s = 1 .. Len(s) /\ Len(s) \in Nat
  OBVIOUS
<1>2. s \in Surjection(1 .. Len(s), Range(s))
  BY <1>1 DEF Surjection, Range
<1>3. IsFiniteSet(1 .. Len(s)) /\ Cardinality(1 .. Len(s)) = Len(s)
  <2>1. 1 \in Int /\ Len(s) \in Int
    BY <1>1
  <2>2. /\ IsFiniteSet(1 .. Len(s))
        /\ Cardinality(1 .. Len(s)) = IF 1 > Len(s) THEN 0 ELSE Len(s) - 1 + 1
    BY <2>1, FS_Interval, Zenon
  <2>. QED BY <1>1, <2>2
<1>4. /\ IsFiniteSet(Range(s))
      /\ Cardinality(Range(s)) = Len(s) <=> s \in Injection(1 .. Len(s), Range(s))
  BY <1>2, <1>3, FS_Surjection
<1>5. IsInjective(s) => s \in Injection(1 .. Len(s), Range(s))
  BY <1>1, <1>2 DEF IsInjective, Injection, IsInjective, Surjection
<1>6. Cardinality(Range(s)) \in Nat
  BY <1>4, FS_CardinalityType
<1>. QED BY <1>1, <1>4, <1>5, <1>6 DEF Range

\* A process put behind the shorter and before the longer periods keeps a list sorted.
LEMMA SortedInsert ==
  ASSUME NEW S, NEW period, NEW order \in Seq(S), Sorted(period, order),
         NEW p \in S, NEW i \in 1 .. Len(order) + 1,
         \A k \in 1 .. Len(order) : period[order[k]] \in Nat, period[p] \in Nat,
         \A k \in 1 .. Len(order) : k < i => period[order[k]] <= period[p],
         \A k \in 1 .. Len(order) : k >= i => period[p] <= period[order[k]]
  PROVE  Sorted(period, InsertAt(order, i, p))
<1>. DEFINE o == InsertAt(order, i, p)
            n == Len(order)
            q(k) == period[order[k]]
<1>1. /\ o \in Seq(S) /\ Len(o) = n + 1
      /\ \A k \in 1 .. n + 1 : o[k] = IF k < i THEN order[k] ELSE IF k = i THEN p ELSE order[k - 1]
  BY InsertAtFacts
<1>2. n \in Nat
  OBVIOUS
<1>3. (\A k \in 1 .. n : q(k) \in Nat) /\ period[p] \in Nat
  OBVIOUS
<1>4. \A k, m \in 1 .. n : k <= m => q(k) <= q(m)
  BY DEF Sorted
<1>. HIDE DEF o
<1>5. \A k \in 1 .. n + 1 : period[o[k]] = IF k < i THEN q(k) ELSE IF k = i THEN period[p] ELSE q(k - 1)
  BY <1>1
<1>6. (\A k \in 1 .. n : k < i => q(k) <= period[p]) /\ \A k \in 1 .. n : k >= i => period[p] <= q(k)
  OBVIOUS
<1>. DEFINE w(k) == period[o[k]]
            d == period[p]
<1>. HIDE DEF n, q, w, d
<1>7. ASSUME NEW k \in 1 .. n + 1, NEW m \in 1 .. n + 1, k <= m PROVE w(k) <= w(m)
  <2>1. /\ \A x \in 1 .. n + 1 : w(x) = IF x < i THEN q(x) ELSE IF x = i THEN d ELSE q(x - 1)
        /\ i \in 1 .. n + 1 /\ d \in Nat
        /\ (\A x \in 1 .. n : x < i => q(x) <= d) /\ \A x \in 1 .. n : x >= i => d <= q(x)
    BY <1>3, <1>5, <1>6 DEF w, d, n
  <2>2. /\ k < i => k \in 1 .. n /\ w(k) = q(k)
        /\ k = i => w(k) = d
        /\ k > i => k - 1 \in 1 .. n /\ k - 1 >= i /\ w(k) = q(k - 1)
    BY <1>2, <2>1
  <2>3. /\ m < i => m \in 1 .. n /\ w(m) = q(m)
        /\ m = i => w(m) = d
        /\ m > i => m - 1 \in 1 .. n /\ m - 1 >= i /\ w(m) = q(m - 1)
    BY <1>2, <2>1
  <2>4. CASE m < i
    BY <1>4, <1>7, <2>1, <2>2, <2>3, <2>4
  <2>5. CASE k > i
    <3>1. k - 1 <= m - 1 /\ m > i
      BY <1>7, <2>1, <2>5
    <3>. QED BY <1>4, <2>2, <2>3, <2>5, <3>1
  <2>6. CASE k < i /\ m > i
    <3>1. k <= m - 1
      BY <2>1, <2>6
    <3>. QED BY <1>4, <2>2, <2>3, <2>6, <3>1
  <2>7. CASE k = i /\ m > i
    BY <2>1, <2>2, <2>3, <2>7
  <2>8. CASE k < i /\ m = i
    BY <2>1, <2>2, <2>3, <2>8
  <2>9. CASE k = i /\ m = i
    BY <2>1, <2>2, <2>3, <2>9
  <2>. QED BY <1>7, <2>1, <2>4, <2>5, <2>6, <2>7, <2>8, <2>9
<1>8. Sorted(period, o)
  BY <1>1, <1>7 DEF Sorted, w, n
<1>. QED BY <1>8 DEF o

\* p and q give the first n tasks of order the same periods.
SamePeriods(order, n, p, q) == n \in Nat /\ \A i \in 1 .. n : p[order[i]] = q[order[i]]

\* A rank depends on the periods of the listed processes only.
LEMMA RankAgree ==
  ASSUME NEW order, NEW n, NEW p, NEW q, SamePeriods(order, n, p, q), NEW i \in 1 .. n
  PROVE  Rank(order, i, p) = Rank(order, i, q)
<1>0. n \in Nat /\ \A k \in 1 .. n : p[order[k]] = q[order[k]]
  BY DEF SamePeriods
<1>1. \A k \in 1 .. i : k \in 1 .. n /\ (k # 1 => k - 1 \in 1 .. n)
  BY <1>0
<1>2. \A k \in 1 .. i : p[order[k]] = q[order[k]]
  BY <1>0, <1>1
<1>3. \A k \in 1 .. i : k # 1 => p[order[k - 1]] = q[order[k - 1]]
  BY <1>0, <1>1
<1>4. {k \in 1 .. i : p[order[k]] > (IF k = 1 THEN 0 ELSE p[order[k - 1]])}
        = {k \in 1 .. i : q[order[k]] > (IF k = 1 THEN 0 ELSE q[order[k - 1]])}
  <2>. SUFFICES ASSUME NEW k \in 1 .. i
                PROVE  p[order[k]] > (IF k = 1 THEN 0 ELSE p[order[k - 1]])
                         <=> q[order[k]] > (IF k = 1 THEN 0 ELSE q[order[k - 1]])
    OBVIOUS
  <2>. QED BY <1>2, <1>3
<1>. QED BY <1>4 DEF Rank

\* A list that loses a process stays sorted.
LEMMA RemoveFirstSorted ==
  ASSUME NEW S, NEW period, NEW old \in Seq(S), IsInjective(old), Sorted(period, old), NEW p
  PROVE  Sorted(period, RemoveFirst(old, p))
<1>. DEFINE o == RemoveFirst(old, p)
<1>1. PICK h \in [1 .. Len(o) -> 1 .. Len(old)] :
            /\ Increasing(h, Len(o)) /\ \A k \in 1 .. Len(o) : o[k] = old[h[k]]
  BY RemoveFirstPart
<1>. HIDE DEF o
<1>2. \A i, j \in 1 .. Len(o) : i <= j => h[i] <= h[j]
  <2>. SUFFICES ASSUME NEW i \in 1 .. Len(o), NEW j \in 1 .. Len(o), i <= j PROVE h[i] <= h[j]
    OBVIOUS
  <2>1. h[i] \in Int /\ h[j] \in Int /\ (i < j => h[i] < h[j])
    BY <1>1 DEF Increasing
  <2>2. i < j \/ i = j
    OBVIOUS
  <2>. QED BY <2>1, <2>2
<1>3. Sorted(period, o)
  BY <1>1, <1>2 DEF Sorted
<1>. QED BY <1>3 DEF o

-----------------------------------------------------------------------------

\* Jobs of budgets within their periods, released before a deadline T no shorter
\* than the period, are less than twice T of work.
LEMMA ReleasedBound ==
  ASSUME NEW list \in TaskList, NEW T \in Nat, NEW a \in 0 .. T, NEW i \in 1 .. Len(list),
         list[i].budget <= list[i].period, list[i].period <= T
  PROVE  Released(list, a)[i] \in Nat /\ Released(list, a)[i] <= 2 * T
<1>1. PICK b, p, c : b = list[i].budget /\ p = list[i].period /\ c = ceiling(a, p)
  OBVIOUS
<1>2. b \in Nat /\ p \in Nat \ {0} /\ b <= p /\ p <= T /\ a \in Nat /\ a <= T
  BY <1>1, TaskListFacts
<1>3. c \in Nat /\ (a > 0 => (c - 1) * p < a)
  <2>1. ceiling(a, p) \in Nat /\ (a > 0 => (ceiling(a, p) - 1) * p < a)
    BY ONLY <1>2, CeilingBounds
  <2>. QED BY ONLY <1>1, <2>1
<1>4. c * b <= c * p /\ c * b \in Nat /\ c * p \in Nat
  <2>1. b * c <= p * c
    BY ONLY <1>2, <1>3, b \in Int, p \in Int, TimesMonotone
  <2>2. b * c = c * b /\ p * c = c * p /\ c * b \in Nat /\ c * p \in Nat
    BY ONLY <1>2, <1>3
  <2>. QED BY ONLY <2>1, <2>2
<1>5. c * p <= 2 * T
  <2>1. CASE a = 0
    <3>1. c <= 0
      <4>1. 0 \in Nat /\ a <= 0 * p
        BY <1>2, <2>1
      <4>2. ceiling(a, p) <= 0
        BY ONLY <1>2, <4>1, CeilingLeast
      <4>. QED BY ONLY <1>1, <4>2
    <3>2. c = 0
      BY ONLY <1>3, <3>1
    <3>. QED BY ONLY <1>2, <3>2, T \in Nat
  <2>2. CASE a > 0
    <3>1. (c - 1) * p = c * p - p
      BY ONLY <1>2, <1>3
    <3>2. PICK y : y = c * p
      OBVIOUS
    <3>3. y - p < a
      BY ONLY <1>3, <2>2, <3>1, <3>2
    <3>4. y \in Nat
      BY ONLY <1>4, <3>2
    <3>5. y <= 2 * T
      BY ONLY <1>2, <3>3, <3>4, T \in Nat
    <3>. QED BY ONLY <3>2, <3>5
  <2>. QED BY <1>2, <2>1, <2>2
<1>6. Released(list, a)[i] = c * b
  BY <1>1 DEF Released
<1>7. PICK y, z : y = c * b /\ z = c * p
  OBVIOUS
<1>8. y <= 2 * T /\ y \in Nat
  BY ONLY <1>4, <1>5, <1>7, T \in Nat
<1>. QED BY ONLY <1>6, <1>7, <1>8

\* The work of k tasks released before the deadline is at most 2 * k deadlines.
LEMMA ReleasedSumBound ==
  ASSUME NEW list \in TaskList, NEW T \in Nat, NEW a \in 0 .. T, NEW m \in 0 .. Len(list),
         \A i \in 1 .. m : list[i].budget <= list[i].period /\ list[i].period <= T
  PROVE  \A k \in 0 .. m : /\ SumFunctionOnSet(Released(list, a), 1 .. k) \in Nat
                           /\ SumFunctionOnSet(Released(list, a), 1 .. k) <= k * (2 * T)
<1>1. PICK r, n, D : r = Released(list, a) /\ n = Len(list) /\ D = 2 * T
  OBVIOUS
<1>2. n \in Nat /\ m \in Nat /\ m <= n /\ D \in Nat
  BY <1>1, TaskListFacts
<1>3. \A i \in 1 .. m : r[i] \in Nat /\ r[i] <= D
  <2>. TAKE i \in 1 .. m
  <2>1. i \in 1 .. Len(list)
    BY <1>1, <1>2
  <2>2. Released(list, a)[i] \in Nat /\ Released(list, a)[i] <= 2 * T
    BY <2>1, ReleasedBound
  <2>. QED BY <1>1, <2>2
<1>. DEFINE sum(k) == SumFunctionOnSet(r, 1 .. k)
            K == {k \in Nat : k <= m => sum(k) \in Nat /\ sum(k) <= k * D}
<1>4. 0 \in K
  <2>1. 1 .. 0 = {}
    OBVIOUS
  <2>2. sum(0) = 0
    BY <2>1, SumEmpty
  <2>3. 0 * D = 0
    BY <1>2
  <2>. QED BY <2>2, <2>3
<1>5. ASSUME NEW k \in Nat, k \in K PROVE k + 1 \in K
  <2>1. SUFFICES ASSUME k + 1 <= m PROVE sum(k + 1) \in Nat /\ sum(k + 1) <= (k + 1) * D
    OBVIOUS
  <2>2. PICK e : e = k + 1
    OBVIOUS
  <2>3. e \in 0 .. n /\ e > 0 /\ e - 1 = k /\ e \in 1 .. m /\ 1 .. e \subseteq 1 .. m
    BY <1>2, <2>1, <2>2
  <2>4. IsFiniteSet(1 .. e) /\ e \in 1 .. e /\ (1 .. e) \ {e} = 1 .. k
    BY <1>2, <2>3, Prefix
  <2>5. \A i \in 1 .. e : r[i] \in Int
    BY <1>3, <2>3
  <2>6. SumFunctionOnSet(r, 1 .. e) = r[e] + SumFunctionOnSet(r, (1 .. e) \ {e})
    BY ONLY <2>4, <2>5, SumStep
  <2>7. sum(k) \in Nat /\ sum(k) <= k * D
    BY <1>2, <1>5, <2>1
  <2>8. PICK x, y, z : x = r[e] /\ y = sum(k) /\ z = k * D
    OBVIOUS
  <2>9. x \in Nat /\ x <= D /\ y \in Nat /\ y <= z /\ z \in Nat
    BY <1>2, <1>3, <2>3, <2>7, <2>8
  <2>10. (k + 1) * D = z + D
    BY ONLY <1>2, <2>8, k \in Nat
  <2>11. sum(e) = x + y
    BY <2>4, <2>6, <2>8
  <2>12. x + y \in Nat /\ x + y <= z + D
    BY ONLY <1>2, <2>9
  <2>. QED BY ONLY <2>2, <2>10, <2>11, <2>12
<1>6. Nat \subseteq K
  <2>. HIDE DEF K
  <2>. QED BY <1>4, <1>5, SetInduction
<1>7. \A k \in 0 .. m : sum(k) \in Nat /\ sum(k) <= k * D
  <2>1. \A k \in 0 .. m : k \in Nat /\ k <= m
    BY <1>2
  <2>. HIDE DEF sum
  <2>. QED BY <1>6, <2>1
<1>. QED BY <1>1, <1>7

\* rt_test computes nothing above twice the deadline for each task up to pos: where
\* that fits the width of a long, the machine's arithmetic is the model's.  The
\* jobs released before 1 are the budgets that are summed up first.
THEOREM RtTestFits ==
  ASSUME NEW list \in TaskList, ByPeriod(list),
         \A i \in 1 .. Len(list) : list[i].budget <= list[i].period,
         NEW pos \in 1 .. Len(list), NEW widest \in Nat,
         pos * (2 * list[pos].period) <= widest
  PROVE  /\ \A k \in 1 .. pos : SumFunctionOnSet(Released(list, 1), 1 .. k) \in 0 .. widest
         /\ \A a \in 0 .. list[pos].period, k \in 1 .. pos - 1 :
              Released(list, a)[k] \in 0 .. widest
         /\ \A a \in 0 .. list[pos].period, k \in 0 .. pos - 1 :
              list[pos].budget + SumFunctionOnSet(Released(list, a), 1 .. k) \in 0 .. widest
<1>1. PICK T, D, b : T = list[pos].period /\ D = 2 * T /\ b = list[pos].budget
  OBVIOUS
<1>2. /\ T \in Nat \ {0} /\ D \in Nat /\ b \in Nat /\ b <= D /\ pos \in Nat /\ pos >= 1 /\ Len(list) \in Nat
      /\ pos * D <= widest /\ pos \in 0 .. Len(list)
  <2>1. Len(list) \in Nat /\ T \in Nat \ {0} /\ b \in Nat /\ b <= T
    BY <1>1, TaskListFacts
  <2>2. D \in Nat /\ b <= D
    BY ONLY <1>1, <2>1
  <2>. QED BY <1>1, <2>1, <2>2
<1>3. \A i \in 1 .. pos : list[i].budget <= list[i].period /\ list[i].period <= T
  <2>1. \A i \in 1 .. pos : i \in 1 .. Len(list) /\ i <= pos
    BY <1>2
  <2>. QED BY <1>1, <2>1 DEF ByPeriod
<1>4. ASSUME NEW a \in 0 .. T, NEW k \in 0 .. pos
      PROVE  /\ SumFunctionOnSet(Released(list, a), 1 .. k) \in Nat
             /\ SumFunctionOnSet(Released(list, a), 1 .. k) <= k * D
  <2>1. T \in Nat
    BY <1>2
  <2>2. /\ SumFunctionOnSet(Released(list, a), 1 .. k) \in Nat
        /\ SumFunctionOnSet(Released(list, a), 1 .. k) <= k * (2 * T)
    BY <1>2, <1>3, <2>1, ReleasedSumBound
  <2>. QED BY <1>1, <2>2
<1>5. ASSUME NEW k \in Nat, NEW l \in Nat, k <= l PROVE k * D <= l * D /\ k * D \in Nat /\ l * D \in Nat
  <2>1. k * D <= l * D
    BY ONLY <1>2, <1>5, k \in Int, l \in Int, TimesMonotone
  <2>. QED BY <1>2, <2>1
<1>6. ASSUME NEW k \in 1 .. pos PROVE SumFunctionOnSet(Released(list, 1), 1 .. k) \in 0 .. widest
  <2>1. PICK y, z, w : y = SumFunctionOnSet(Released(list, 1), 1 .. k) /\ z = k * D /\ w = pos * D
    OBVIOUS
  <2>2. 1 \in 0 .. T /\ k \in 0 .. pos /\ k \in Nat /\ k <= pos
    BY <1>2
  <2>3. y \in Nat /\ y <= z
    BY <1>4, <2>1, <2>2
  <2>4. z <= w /\ z \in Nat /\ w \in Nat /\ w <= widest
    BY <1>2, <1>5, <2>1, <2>2
  <2>5. y \in 0 .. widest
    BY ONLY <2>3, <2>4, widest \in Nat
  <2>. QED BY ONLY <2>1, <2>5
<1>7. ASSUME NEW a \in 0 .. T, NEW k \in 1 .. pos - 1 PROVE Released(list, a)[k] \in 0 .. widest
  <2>1. k \in 1 .. Len(list) /\ k \in 1 .. pos
    BY <1>2
  <2>2. Released(list, a)[k] \in Nat /\ Released(list, a)[k] <= D
    <3>1. T \in Nat
      BY <1>2
    <3>2. Released(list, a)[k] \in Nat /\ Released(list, a)[k] <= 2 * T
      BY <1>3, <2>1, <3>1, ReleasedBound
    <3>. QED BY <1>1, <3>2
  <2>3. PICK x, y, w : x = Released(list, a)[k] /\ y = 1 * D /\ w = pos * D
    OBVIOUS
  <2>4. y <= w /\ y = D /\ w \in Nat /\ w <= widest
    BY <1>2, <1>5, <2>3
  <2>5. x \in 0 .. widest
    BY ONLY <1>2, <2>2, <2>3, <2>4, widest \in Nat
  <2>. QED BY ONLY <2>3, <2>5
<1>8. ASSUME NEW a \in 0 .. T, NEW k \in 0 .. pos - 1
      PROVE  b + SumFunctionOnSet(Released(list, a), 1 .. k) \in 0 .. widest
  <2>1. PICK y, z, w, v : /\ y = SumFunctionOnSet(Released(list, a), 1 .. k) /\ z = k * D /\ w = pos * D
                          /\ v = (k + 1) * D
    OBVIOUS
  <2>2. k \in 0 .. pos /\ k \in Nat /\ k + 1 \in Nat /\ k + 1 <= pos
    BY <1>2
  <2>3. y \in Nat /\ y <= z
    BY <1>4, <2>1, <2>2
  <2>4. v <= w /\ v \in Nat /\ w \in Nat /\ w <= widest
    BY <1>2, <1>5, <2>1, <2>2
  <2>5. v = z + D /\ z \in Nat
    BY ONLY <1>2, <2>1, <2>2
  <2>6. b + y \in 0 .. widest
    BY ONLY <1>2, <2>3, <2>4, <2>5, widest \in Nat
  <2>. QED BY ONLY <2>1, <2>6
<1>. QED BY <1>1, <1>6, <1>7, <1>8
=============================================================================
