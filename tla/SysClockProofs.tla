--------------------------- MODULE SysClockProofs ---------------------------
(***************************************************************************)
(* Proofs about sysclock (SysClock.tla): its loops end, the alpha of a     *)
(* task is the least frequency that time-demand analysis asks for, and the *)
(* numbers of the computation stay in a known range.                       *)
(***************************************************************************)
EXTENDS SysClock, AdmissionProofs

\* f repeats nxt until the state is in done.
Repeats(S, done, nxt, f) == f = [s \in S |-> IF s \in done THEN s ELSE f[nxt[s]]]

\* A loop that stays in S has a function that says where it ends, whether or not it
\* ends: TLA+ takes a recursive function by CHOOSE, and this is what makes the choice
\* one that satisfies its equation.  Where the loop ends is in every set that holds
\* the start and the next of each of its members.
LEMMA TailRecursionExists ==
  ASSUME NEW S, NEW done, NEW nxt, \A s \in S : s \notin done => nxt[s] \in S
  PROVE  \E f : Repeats(S, done, nxt, f)
<1>. DEFINE closed(X) == \A x \in X : x \notin done => nxt[x] \in X
            ends(s) == {x \in S \cap done : \A X \in SUBSET S : closed(X) /\ s \in X => x \in X}
            f == [s \in S |-> CHOOSE x : x \in ends(s)]
<1>1. ASSUME NEW s \in S, s \in done PROVE f[s] = s
  <2>1. {s} \in SUBSET S /\ closed({s})
    BY <1>1
  <2>2. ends(s) = {s}
    BY <1>1, <2>1
  <2>. QED BY <2>2
<1>2. ASSUME NEW s \in S, s \notin done PROVE f[s] = f[nxt[s]]
  <2>1. nxt[s] \in S
    BY <1>2
  <2>2. ASSUME NEW x \in ends(nxt[s]) PROVE x \in ends(s)
    BY <1>2, <2>1, <2>2
  <2>3. ASSUME NEW x \in ends(s) PROVE x \in ends(nxt[s])
    <3>1. ASSUME NEW X \in SUBSET S, closed(X), nxt[s] \in X PROVE x \in X
      <4>1. X \cup {s} \in SUBSET S /\ closed(X \cup {s})
        BY <1>2, <3>1
      <4>2. x \in X \cup {s} /\ x # s
        BY <1>2, <2>3, <4>1
      <4>. QED BY <4>2
    <3>. QED BY <2>3, <3>1
  <2>4. ends(s) = ends(nxt[s])
    <3>. HIDE DEF ends
    <3>. QED BY <2>2, <2>3
  <2>5. f[s] = (CHOOSE x : x \in ends(s)) /\ f[nxt[s]] = (CHOOSE x : x \in ends(nxt[s]))
    BY <2>1
  <2>. HIDE DEF ends, f
  <2>. QED BY <2>4, <2>5
<1>3. f = [s \in S |-> IF s \in done THEN s ELSE f[nxt[s]]]
  <2>1. \A s \in S : f[s] = IF s \in done THEN s ELSE f[nxt[s]]
    <3>. HIDE DEF f
    <3>. QED BY <1>1, <1>2
  <2>2. f = [s \in S |-> f[s]]
    OBVIOUS
  <2>. HIDE DEF f
  <2>. QED BY <2>1, <2>2
<1>. QED BY <1>3 DEF Repeats

-----------------------------------------------------------------------------
(***************************************************************************)
(* The work released up to a moment.                                       *)
(***************************************************************************)

\* Division by a period, with quotient and remainder.
LEMMA DivMod ==
  ASSUME NEW a \in Nat, NEW p \in Nat \ {0}
  PROVE  a \div p \in Nat /\ a % p \in Nat /\ a % p < p /\ a = (a \div p) * p + (a % p)
<1>1. a \div p \in Nat /\ a % p \in 0 .. p - 1 /\ a = p * (a \div p) + (a % p)
  OBVIOUS
<1>2. PICK d, m : d = a \div p /\ m = a % p
  OBVIOUS
<1>3. p * d = d * p
  BY <1>1, <1>2
<1>. QED BY ONLY <1>1, <1>2, <1>3

\* sysclock's sum of ((C / period) + 1) * budget is what rt_test's sum of ceilings is
\* a microsecond later.
LEMMA WorkIsReleased ==
  ASSUME NEW list \in TaskList, NEW pos \in 1 .. Len(list), NEW C \in Nat
  PROVE  /\ IsFiniteSet(1 .. pos) /\ 1 .. pos \subseteq 1 .. Len(list)
         /\ \A j \in 1 .. pos : Released(list, C + 1)[j] \in Nat
                             /\ Released(list, C + 1)[j] = (C \div list[j].period + 1) * list[j].budget
         /\ WorkReleased(list, pos, C) = SumFunctionOnSet(Released(list, C + 1), 1 .. pos)
<1>. DEFINE f == [j \in 1 .. pos |-> (C \div list[j].period + 1) * list[j].budget]
            r == Released(list, C + 1)
<1>1. /\ Len(list) \in Nat /\ pos \in 0 .. Len(list)
      /\ \A j \in 1 .. Len(list) : list[j].budget \in Nat /\ list[j].period \in Nat \ {0}
  BY TaskListFacts
<1>2. IsFiniteSet(1 .. pos) /\ 1 .. pos \subseteq 1 .. Len(list)
  BY <1>1, Prefix
<1>3. ASSUME NEW j \in 1 .. pos PROVE f[j] = r[j] /\ r[j] \in Nat
  <2>1. j \in 1 .. Len(list) /\ list[j].period \in Nat \ {0}
    BY <1>1, <1>2
  <2>2. PICK a : a = C + 1
    OBVIOUS
  <2>3. a \in Nat \ {0} /\ a - 1 = C /\ a \in Nat
    BY <2>2
  <2>4. ceiling(a, list[j].period) = C \div list[j].period + 1
    BY ONLY <2>1, <2>3, CeilingIsReleases
  <2>5. r[j] = ceiling(a, list[j].period) * list[j].budget
    BY <2>1, <2>2 DEF Released
  <2>6. r[j] \in Nat
    BY <2>1, <2>2, <2>3, ReleasedFacts
  <2>. QED BY <2>4, <2>5, <2>6
<1>4. WorkReleased(list, pos, C) = SumFunctionOnSet(f, 1 .. pos)
  BY DEF WorkReleased, SumFunction
<1>5. \A j \in 1 .. pos : f[j] \in Int /\ f[j] = r[j]
  <2>. HIDE DEF f, r
  <2>. QED BY <1>3
<1>6. SumFunctionOnSet(f, 1 .. pos) = SumFunctionOnSet(r, 1 .. pos)
  <2>. HIDE DEF f, r
  <2>. QED BY <1>2, <1>5, SumEqual
<1>. QED BY <1>2, <1>3, <1>4, <1>6

\* The work released by C does not fall with C, and the work rt_test demands by t is
\* the work released before t.
LEMMA WorkFacts ==
  ASSUME NEW list \in TaskList, NEW pos \in 1 .. Len(list)
  PROVE  /\ \A C \in Nat : WorkReleased(list, pos, C) \in Nat
         /\ \A C, E \in Nat : C <= E => WorkReleased(list, pos, C) <= WorkReleased(list, pos, E)
         /\ \A t \in 1 .. list[pos].period :
              t - 1 \in Nat /\ demand(list, pos, t) = WorkReleased(list, pos, t - 1)
<1>. DEFINE W(C) == WorkReleased(list, pos, C)
<1>0. list[pos].period \in Nat
  BY TaskListFacts
<1>1. ASSUME NEW C \in Nat PROVE W(C) \in Nat
  <2>1. /\ IsFiniteSet(1 .. pos) /\ \A j \in 1 .. pos : Released(list, C + 1)[j] \in Nat
        /\ W(C) = SumFunctionOnSet(Released(list, C + 1), 1 .. pos)
    BY WorkIsReleased
  <2>2. SumFunctionOnSet(Released(list, C + 1), 1 .. pos) \in Nat
    BY ONLY <2>1, SumNat
  <2>. QED BY <2>1, <2>2
<1>2. ASSUME NEW C \in Nat, NEW E \in Nat, C <= E PROVE W(C) <= W(E)
  <2>1. C + 1 \in Nat /\ E + 1 \in Nat /\ C + 1 <= E + 1
    BY <1>2
  <2>2. IsFiniteSet(1 .. pos) /\ 1 .. pos \subseteq 1 .. Len(list)
    BY WorkIsReleased
  <2>3. \A j \in 1 .. pos : /\ Released(list, C + 1)[j] \in Int /\ Released(list, E + 1)[j] \in Int
                            /\ Released(list, C + 1)[j] <= Released(list, E + 1)[j]
    BY <2>1, <2>2, ReleasedFacts
  <2>4. SumFunctionOnSet(Released(list, C + 1), 1 .. pos) <= SumFunctionOnSet(Released(list, E + 1), 1 .. pos)
    BY <2>2, <2>3, SumLeq
  <2>. QED BY <2>4, WorkIsReleased
<1>3. ASSUME NEW t \in 1 .. list[pos].period
      PROVE  t - 1 \in Nat /\ demand(list, pos, t) = W(t - 1)
  <2>1. t - 1 \in Nat /\ (t - 1) + 1 = t
    BY <1>0
  <2>2. W(t - 1) = SumFunctionOnSet(Released(list, (t - 1) + 1), 1 .. pos)
    BY <2>1, WorkIsReleased
  <2>3. demand(list, pos, t) = SumFunctionOnSet(Released(list, t), 1 .. pos)
    BY DemandUpToDeadline
  <2>. QED BY <2>1, <2>2, <2>3
<1>. QED BY <1>1, <1>2, <1>3

\* A moment when task j is released has its budget more than any moment before.
LEMMA WorkAtRelease ==
  ASSUME NEW list \in TaskList, NEW pos \in 1 .. Len(list), NEW j \in 1 .. pos,
         NEW C \in Nat, NEW E \in Nat, C < E, E % list[j].period = 0
  PROVE  WorkReleased(list, pos, C) + list[j].budget <= WorkReleased(list, pos, E)
<1>. DEFINE p == list[j].period
            b == list[j].budget
            r == Released(list, C + 1)
            q == Released(list, E + 1)
            I == 1 .. pos
            rest == I \ {j}
<1>1. /\ IsFiniteSet(I) /\ I \subseteq 1 .. Len(list)
      /\ \A i \in I : r[i] \in Nat /\ r[i] = (C \div list[i].period + 1) * list[i].budget
      /\ WorkReleased(list, pos, C) = SumFunctionOnSet(r, I)
  BY WorkIsReleased
<1>2. /\ \A i \in I : q[i] \in Nat /\ q[i] = (E \div list[i].period + 1) * list[i].budget
      /\ WorkReleased(list, pos, E) = SumFunctionOnSet(q, I)
  BY WorkIsReleased
<1>3. p \in Nat \ {0} /\ b \in Nat
  BY <1>1, TaskListFacts
<1>4. \A i \in I : r[i] <= q[i]
  <2>1. C + 1 \in Nat /\ E + 1 \in Nat /\ C + 1 <= E + 1
    OBVIOUS
  <2>. QED BY <1>1, <2>1, ReleasedFacts
<1>5. r[j] + b <= q[j]
  <2>1. C \div p + 1 <= E \div p /\ C \div p \in Nat /\ E \div p \in Nat
    <3>. DEFINE c == C \div p
                e == E \div p
    <3>1. /\ c \in Nat /\ e \in Nat /\ C % p \in Nat
          /\ C = c * p + (C % p) /\ E = e * p + (E % p) /\ E % p = 0
      <4>. HIDE DEF p
      <4>1. /\ C \div p \in Nat /\ C % p \in Nat /\ C = (C \div p) * p + (C % p)
            /\ E \div p \in Nat /\ E = (E \div p) * p + (E % p)
        BY ONLY <1>3, C \in Nat, E \in Nat, DivMod
      <4>. QED BY <4>1 DEF p
    <3>2. E = e * p /\ c * p <= C
      <4>. HIDE DEF c, e, p
      <4>1. c * p \in Int /\ e * p \in Int
        BY <1>3, <3>1
      <4>. QED BY <3>1, <4>1
    <3>3. e > c
      <4>. SUFFICES ASSUME e <= c PROVE FALSE
        BY <3>1
      <4>. HIDE DEF c, e, p
      <4>1. e * p <= c * p
        BY <1>3, <3>1, TimesMonotone
      <4>2. e * p \in Int /\ c * p \in Int
        BY <1>3, <3>1
      <4>. QED BY <3>1, <3>2, <4>1, <4>2
    <3>. HIDE DEF c, e
    <3>4. c + 1 <= e
      BY <3>1, <3>3
    <3>. QED BY <3>1, <3>4 DEF c, e
  <2>2. PICK c, e : c = C \div p /\ e = E \div p
    OBVIOUS
  <2>3. c \in Nat /\ e \in Nat /\ (c + 1) + 1 <= e + 1
    BY ONLY <2>1, <2>2
  <2>4. ((c + 1) + 1) * b <= (e + 1) * b
    <3>1. (c + 1) + 1 \in Int /\ e + 1 \in Int
      BY <2>3
    <3>. HIDE DEF b
    <3>. QED BY ONLY <1>3, <2>3, <3>1, TimesMonotone
  <2>5. ((c + 1) + 1) * b = (c + 1) * b + b
    <3>. HIDE DEF b
    <3>. QED BY <1>3, <2>3
  <2>6. r[j] = (c + 1) * b /\ q[j] = (e + 1) * b
    BY <1>1, <1>2, <2>2
  <2>. QED BY <2>4, <2>5, <2>6
<1>. HIDE DEF r, q, b, I
<1>6. /\ SumFunctionOnSet(r, I) = r[j] + SumFunctionOnSet(r, rest)
      /\ SumFunctionOnSet(q, I) = q[j] + SumFunctionOnSet(q, rest)
  <2>1. j \in I
    BY DEF I
  <2>2. \A i \in I : r[i] \in Int /\ q[i] \in Int
    BY <1>1, <1>2
  <2>. QED BY <1>1, <2>1, <2>2, SumStep
<1>7. /\ SumFunctionOnSet(r, rest) <= SumFunctionOnSet(q, rest)
      /\ SumFunctionOnSet(r, rest) \in Nat /\ SumFunctionOnSet(q, rest) \in Nat
  <2>1. IsFiniteSet(rest)
    BY <1>1, FS_Subset
  <2>2. \A i \in rest : r[i] \in Int /\ q[i] \in Int /\ r[i] <= q[i] /\ r[i] \in Nat /\ q[i] \in Nat
    BY <1>1, <1>2, <1>4
  <2>. HIDE DEF rest
  <2>3. SumFunctionOnSet(r, rest) <= SumFunctionOnSet(q, rest)
    BY <2>1, <2>2, SumLeq
  <2>. QED BY <2>1, <2>2, <2>3, SumNat
<1>8. j \in I
  BY DEF I
<1>9. r[j] \in Nat /\ q[j] \in Nat
  BY <1>1, <1>2, <1>8
<1>10. WorkReleased(list, pos, C) + b <= WorkReleased(list, pos, E)
  <2>1. PICK x, y, v, w : /\ x = r[j] /\ y = q[j]
                         /\ v = SumFunctionOnSet(r, rest) /\ w = SumFunctionOnSet(q, rest)
    OBVIOUS
  <2>2. /\ x \in Nat /\ y \in Nat /\ v \in Nat /\ w \in Nat /\ b \in Nat
        /\ x + b <= y /\ v <= w
    BY <1>3, <1>5, <1>7, <1>9, <2>1
  <2>3. WorkReleased(list, pos, C) = x + v /\ WorkReleased(list, pos, E) = y + w
    BY <1>1, <1>2, <1>6, <2>1
  <2>. QED BY ONLY <2>2, <2>3
<1>. QED BY <1>10 DEF b

\* At every moment each of the tasks has been released once.
LEMMA WorkAtLeast ==
  ASSUME NEW list \in TaskList, NEW pos \in 1 .. Len(list), NEW C \in Nat
  PROVE  /\ list[pos].budget <= WorkReleased(list, pos, C)
         /\ \A j \in 1 .. pos : j # pos => list[pos].budget + list[j].budget <= WorkReleased(list, pos, C)
<1>. DEFINE r == Released(list, C + 1)
            I == 1 .. pos
            rest == I \ {pos}
<1>1. /\ IsFiniteSet(I) /\ I \subseteq 1 .. Len(list) /\ \A i \in I : r[i] \in Nat
      /\ WorkReleased(list, pos, C) = SumFunctionOnSet(r, I)
  BY WorkIsReleased
<1>2. \A i \in I : list[i].budget \in Nat /\ list[i].budget <= r[i]
  <2>1. C + 1 \in Nat \ {0}
    OBVIOUS
  <2>. QED BY <1>1, <2>1, ReleasedFacts, TaskListFacts
<1>3. pos \in I /\ IsFiniteSet(rest)
  BY <1>1, TaskListFacts, FS_Subset
<1>. HIDE DEF r, I
<1>4. SumFunctionOnSet(r, I) = r[pos] + SumFunctionOnSet(r, rest) /\ SumFunctionOnSet(r, rest) \in Nat
  <2>1. \A i \in I : r[i] \in Int
    BY <1>1
  <2>2. SumFunctionOnSet(r, I) = r[pos] + SumFunctionOnSet(r, rest)
    BY <1>1, <1>3, <2>1, SumStep
  <2>3. \A i \in rest : r[i] \in Nat
    BY <1>1
  <2>. HIDE DEF rest
  <2>4. SumFunctionOnSet(r, rest) \in Nat
    BY <1>3, <2>3, SumNat
  <2>. QED BY <2>2, <2>4
<1>5. ASSUME NEW j \in I, j # pos PROVE r[j] <= SumFunctionOnSet(r, rest)
  <2>1. \A i \in rest : r[i] \in Int /\ r[i] \in Nat
    BY <1>1
  <2>2. j \in rest /\ IsFiniteSet(rest \ {j})
    BY <1>3, <1>5, FS_Subset
  <2>3. \A i \in rest \ {j} : r[i] \in Nat
    BY <2>1
  <2>. HIDE DEF rest
  <2>4. SumFunctionOnSet(r, rest) = r[j] + SumFunctionOnSet(r, rest \ {j})
    BY <1>3, <2>1, <2>2, SumStep
  <2>5. SumFunctionOnSet(r, rest \ {j}) \in Nat
    <3>1. PICK R : R = rest \ {j}
      OBVIOUS
    <3>. QED BY <2>2, <2>3, <3>1, SumNat
  <2>. QED BY <2>1, <2>2, <2>4, <2>5
<1>6. list[pos].budget <= WorkReleased(list, pos, C)
  BY <1>1, <1>2, <1>3, <1>4
<1>7. ASSUME NEW j \in I, j # pos PROVE list[pos].budget + list[j].budget <= WorkReleased(list, pos, C)
  <2>1. PICK x, y, z : x = r[pos] /\ y = r[j] /\ z = SumFunctionOnSet(r, rest)
    OBVIOUS
  <2>2. /\ x \in Nat /\ y \in Nat /\ z \in Nat /\ list[pos].budget \in Nat /\ list[j].budget \in Nat
        /\ list[pos].budget <= x /\ list[j].budget <= y /\ y <= z
    BY <1>1, <1>2, <1>3, <1>4, <1>5, <1>7, <2>1
  <2>3. WorkReleased(list, pos, C) = x + z
    BY <1>1, <1>4, <2>1
  <2>. QED BY ONLY <2>2, <2>3
<1>. QED BY <1>6, <1>7 DEF I

\* No work is released between C and the next release of a task.
LEMMA WorkConstant ==
  ASSUME NEW list \in TaskList, NEW pos \in 1 .. Len(list), NEW C \in Nat, NEW E \in Nat, C <= E,
         \A j \in 1 .. pos : E < (C \div list[j].period + 1) * list[j].period
  PROVE  WorkReleased(list, pos, E) = WorkReleased(list, pos, C)
<1>. DEFINE r == Released(list, C + 1)
            q == Released(list, E + 1)
            I == 1 .. pos
<1>1. /\ IsFiniteSet(I) /\ I \subseteq 1 .. Len(list)
      /\ \A i \in I : r[i] \in Nat /\ r[i] = (C \div list[i].period + 1) * list[i].budget
      /\ WorkReleased(list, pos, C) = SumFunctionOnSet(r, I)
  BY WorkIsReleased
<1>2. /\ \A i \in I : q[i] \in Nat /\ q[i] = (E \div list[i].period + 1) * list[i].budget
      /\ WorkReleased(list, pos, E) = SumFunctionOnSet(q, I)
  BY WorkIsReleased
<1>3. ASSUME NEW j \in I PROVE E \div list[j].period = C \div list[j].period
  <2>1. PICK p, c : p = list[j].period /\ c = C \div p
    OBVIOUS
  <2>2. p \in Nat \ {0}
    BY <1>1, <2>1, TaskListFacts
  <2>3. c \in Nat /\ c * p <= C /\ c * p \in Nat
    <3>1. c \in Nat /\ C % p \in Nat /\ C = c * p + (C % p)
      <4>1. C \div p \in Nat /\ C % p \in Nat /\ C = (C \div p) * p + (C % p)
        BY ONLY <2>2, C \in Nat, DivMod
      <4>. QED BY ONLY <2>1, <4>1
    <3>2. c * p \in Nat
      BY <2>2, <3>1
    <3>3. PICK m : m = C % p
      OBVIOUS
    <3>. QED BY ONLY <3>1, <3>2, <3>3, C \in Nat
  <2>4. E < (c + 1) * p /\ (c + 1) * p = c * p + p
    <3>1. E < (c + 1) * p
      BY <2>1 DEF I
    <3>2. (c + 1) * p = c * p + p
      BY <2>2, <2>3
    <3>. QED BY <3>1, <3>2
  <2>5. PICK m : m = E - c * p
    OBVIOUS
  <2>6. m \in 0 .. p - 1 /\ E = c * p + m
    BY <2>2, <2>3, <2>4, <2>5
  <2>7. E \div p = c
    BY ONLY <2>2, <2>3, <2>6, E \in Nat, DivUnique
  <2>. QED BY <2>1, <2>7
<1>4. \A i \in I : r[i] \in Int /\ r[i] = q[i]
  BY <1>1, <1>2, <1>3
<1>. HIDE DEF r, q, I
<1>. QED BY <1>1, <1>2, <1>4, SumEqual

-----------------------------------------------------------------------------
(***************************************************************************)
(* The idle time.                                                          *)
(***************************************************************************)

\* The least of some natural numbers.
LEMMA MinNat ==
  ASSUME NEW A \in SUBSET Nat, A # {}
  PROVE  Min(A) \in A /\ Min(A) \in Nat /\ \A a \in A : Min(A) <= a
<1>1. PICK m \in A : \A n \in A : m <= n
  BY NatLeast
<1>2. Min(A) \in A /\ \A a \in A : Min(A) <= a
  BY <1>1 DEF Min
<1>. QED BY <1>2

\* The idle time that sysclock adds does not reach past the deadline; at a moment that
\* is no release it is positive and does not reach past the next release.
LEMMA IdleFacts ==
  ASSUME NEW list \in TaskList, NEW pos \in 1 .. Len(list), NEW C \in Nat, C < list[pos].period
  PROVE  /\ idle_duration(list, pos, C) \in Nat
         /\ C + idle_duration(list, pos, C) <= list[pos].period
         /\ (\A j \in 1 .. pos : C % list[j].period # 0) =>
              /\ idle_duration(list, pos, C) > 0
              /\ \A j \in 1 .. pos : C + idle_duration(list, pos, C)
                                       <= (C \div list[j].period + 1) * list[j].period
<1>. DEFINE T == list[pos].period
            gap(j) == ceiling(C, list[j].period) * list[j].period - C
            A == {gap(j) : j \in 1 .. pos} \cup {DummyIdle, T - C}
<1>1. /\ T \in Nat \ {0} /\ 1 .. pos \subseteq 1 .. Len(list)
      /\ \A j \in 1 .. pos : list[j].period \in Nat \ {0}
  <2>1. 1 .. pos \subseteq 1 .. Len(list)
    BY WorkIsReleased
  <2>. QED BY <2>1, TaskListFacts
<1>2. ASSUME NEW j \in 1 .. pos
      PROVE  /\ gap(j) \in Nat
             /\ C % list[j].period # 0 =>
                  gap(j) > 0 /\ gap(j) = (C \div list[j].period + 1) * list[j].period - C
  <2>1. PICK p : p = list[j].period
    OBVIOUS
  <2>2. p \in Nat \ {0}
    BY <1>1, <2>1
  <2>3. PICK c : c = ceiling(C, p)
    OBVIOUS
  <2>4. c \in Nat /\ C <= c * p
    <3>1. ceiling(C, p) \in Nat /\ C <= ceiling(C, p) * p
      BY ONLY <2>2, C \in Nat, CeilingBounds
    <3>. QED BY ONLY <2>3, <3>1
  <2>5. c * p \in Nat /\ gap(j) = c * p - C
    <3>1. c * p \in Nat
      BY ONLY <2>2, <2>4
    <3>. QED BY <2>1, <2>3, <3>1
  <2>6. gap(j) \in Nat
    BY <2>4, <2>5
  <2>7. ASSUME C % p # 0 PROVE c = C \div p + 1 /\ gap(j) > 0
    <3>1. C % p \in Nat /\ C \div p \in Nat /\ C % p < p /\ C = (C \div p) * p + (C % p)
      BY ONLY <2>2, C \in Nat, DivMod
    <3>2. c = C \div p + 1
      BY <2>3, <2>7, <3>1 DEF ceiling
    <3>3. PICK d, m : d = C \div p /\ m = C % p
      OBVIOUS
    <3>4. d \in Nat /\ m \in Nat /\ m < p /\ C = d * p + m /\ c = d + 1
      BY ONLY <3>1, <3>2, <3>3
    <3>5. (d + 1) * p = d * p + p /\ d * p \in Nat
      BY ONLY <2>2, <3>4
    <3>6. c * p - C > 0
      BY ONLY <2>2, <3>4, <3>5
    <3>. QED BY <2>5, <3>2, <3>6
  <2>8. C % p # 0 => gap(j) > 0 /\ gap(j) = (C \div p + 1) * p - C
    BY <2>5, <2>7
  <2>. QED BY <2>1, <2>6, <2>8
<1>3. T - C \in Nat /\ T - C > 0 /\ DummyIdle \in Nat /\ DummyIdle > 0
  BY <1>1 DEF DummyIdle
<1>4. idle_duration(list, pos, C) = Min(A)
  BY DEF idle_duration
<1>5. PICK d : d = Min(A)
  OBVIOUS
<1>. HIDE DEF gap, DummyIdle
<1>6. A \in SUBSET Nat /\ A # {}
  BY <1>2, <1>3
<1>7. d \in A /\ d \in Nat /\ \A a \in A : d <= a
  <2>. HIDE DEF A
  <2>. QED BY <1>5, <1>6, MinNat
<1>8. d <= T - C
  BY <1>7
<1>9. ASSUME \A j \in 1 .. pos : C % list[j].period # 0
      PROVE  d > 0 /\ \A j \in 1 .. pos : C + d <= (C \div list[j].period + 1) * list[j].period
  <2>1. d > 0
    BY <1>2, <1>3, <1>7, <1>9
  <2>2. ASSUME NEW j \in 1 .. pos PROVE C + d <= (C \div list[j].period + 1) * list[j].period
    <3>1. gap(j) \in Nat /\ d <= gap(j) /\ gap(j) = (C \div list[j].period + 1) * list[j].period - C
      BY <1>2, <1>7, <1>9
    <3>2. PICK x : x = (C \div list[j].period + 1) * list[j].period
      OBVIOUS
    <3>3. C \div list[j].period \in Nat
      BY <1>1, DivMod
    <3>4. x \in Nat
      BY <1>1, <3>2, <3>3
    <3>. QED BY <1>7, <3>1, <3>2, <3>4
  <2>. QED BY <2>1, <2>2
<1>10. C + d <= T
  BY <1>1, <1>7, <1>8
<1>. QED BY <1>4, <1>5, <1>7, <1>9, <1>10

-----------------------------------------------------------------------------

-----------------------------------------------------------------------------
(***************************************************************************)
(* The trace follows the schedule: the invariant of the two loops.         *)
(***************************************************************************)

\* Every budget lasts a microsecond or more.
PositiveBudgets(list) == \A i \in 1 .. Len(list) : list[i].budget > 0

\* The inductive invariant of sysclock's loops.  In a busy period the work released so
\* far reaches to C, and past it if C is a release; at the end of one the work is done
\* at C and C is no release.
Going(list, pos, s) ==
    LET done == s.slack + WorkReleased(list, pos, s.C)
    IN  s.C < list[pos].period =>
          IF s.in_bzp
          THEN /\ s.C <= done
               /\ \A j \in 1 .. pos : s.C % list[j].period = 0 => s.C < done
          ELSE /\ s.C = done
               /\ \A j \in 1 .. pos : s.C % list[j].period # 0

\* A moment C that the work released up to an earlier one B lasts to.
LEMMA GoingOn ==
  ASSUME NEW list \in TaskList, PositiveBudgets(list), NEW pos \in 1 .. Len(list),
         NEW B \in Nat, NEW C \in Nat, B < C, NEW S \in Nat, C = S + WorkReleased(list, pos, B)
  PROVE  /\ C <= S + WorkReleased(list, pos, C)
         /\ \A j \in 1 .. pos : C % list[j].period = 0 => C < S + WorkReleased(list, pos, C)
<1>. DEFINE W(c) == WorkReleased(list, pos, c)
<1>1. W(B) \in Nat /\ W(C) \in Nat /\ W(B) <= W(C)
  <2>1. B <= C
    OBVIOUS
  <2>. QED BY <2>1, WorkFacts
<1>2. ASSUME NEW j \in 1 .. pos, C % list[j].period = 0 PROVE W(B) < W(C)
  <2>1. W(B) + list[j].budget <= W(C)
    BY <1>2, WorkAtRelease
  <2>2. list[j].budget \in Nat /\ list[j].budget > 0
    <3>1. j \in 1 .. Len(list)
      BY WorkIsReleased
    <3>. QED BY <3>1, TaskListFacts DEF PositiveBudgets
  <2>. HIDE DEF W
  <2>. QED BY <1>1, <2>1, <2>2
<1>3. C = S + W(B)
  OBVIOUS
<1>. HIDE DEF W
<1>4. C <= S + W(C) /\ \A j \in 1 .. pos : C % list[j].period = 0 => C < S + W(C)
  BY <1>1, <1>2, <1>3
<1>. QED BY <1>4 DEF W

\* A turn of the inner loop moves C to the end of the work released so far, never
\* back, and leaves the loop if C stays.
LEMMA BusyTurn ==
  ASSUME NEW list \in TaskList, PositiveBudgets(list), NEW pos \in 1 .. Len(list),
         NEW s \in AlphaState, s.C < list[pos].period, s.in_bzp, Going(list, pos, s)
  PROVE  LET u == AlphaTurn(list, pos, s)
         IN  /\ u \in AlphaState /\ Going(list, pos, u)
             /\ u.slack = s.slack /\ u.alpha = s.alpha /\ u.C >= s.C
             /\ u.C = s.slack + WorkReleased(list, pos, s.C)
             /\ u.C = s.C => u.in_bzp = FALSE
<1>. DEFINE u == AlphaTurn(list, pos, s)
            W(c) == WorkReleased(list, pos, c)
            next == s.slack + W(s.C)
            T == list[pos].period
<1>1. /\ s.C \in Nat /\ s.C > 0 /\ s.slack \in Nat /\ s.alpha \in Nat /\ s.in_bzp = TRUE
      /\ s \in [C : Nat \ {0}, slack : Nat, alpha : Nat, in_bzp : BOOLEAN]
  BY DEF AlphaState
<1>2. u = [s EXCEPT !.C = next, !.in_bzp = next # s.C /\ next < T]
  BY <1>1 DEF AlphaTurn
<1>3. W(s.C) \in Nat
  BY <1>1, WorkFacts
<1>4. s.C <= next /\ \A j \in 1 .. pos : s.C % list[j].period = 0 => s.C < next
  BY <1>1 DEF Going
<1>5. next \in Nat /\ next > 0 /\ s.slack <= next
  BY <1>1, <1>3, <1>4
<1>. HIDE DEF next, T
<1>6. u.C = next /\ u.slack = s.slack /\ u.alpha = s.alpha /\ u.in_bzp = (next # s.C /\ next < T)
  BY <1>1, <1>2
<1>7. u \in AlphaState
  <2>1. u \in [C : Nat \ {0}, slack : Nat, alpha : Nat, in_bzp : BOOLEAN]
    <3>1. PICK b : b = (next # s.C /\ next < T)
      OBVIOUS
    <3>2. b \in BOOLEAN
      BY <3>1, Zenon
    <3>3. u = [s EXCEPT !.C = next, !.in_bzp = b]
      BY <1>2, <3>1
    <3>4. PICK n : n = next
      OBVIOUS
    <3>5. n \in Nat \ {0} /\ u = [s EXCEPT !.C = n, !.in_bzp = b]
      BY <1>5, <3>3, <3>4
    <3>. HIDE DEF u
    <3>. QED BY ONLY <1>1, <3>2, <3>5
  <2>. QED BY <1>5, <1>6, <2>1 DEF AlphaState
<1>8. Going(list, pos, u)
  <2>1. SUFFICES ASSUME next < T
                 PROVE  IF next # s.C
                        THEN /\ next <= s.slack + W(next)
                             /\ \A j \in 1 .. pos : next % list[j].period = 0 => next < s.slack + W(next)
                        ELSE /\ next = s.slack + W(next)
                             /\ \A j \in 1 .. pos : next % list[j].period # 0
    <3>. HIDE DEF u
    <3>. QED BY <1>6 DEF Going, T
  <2>2. CASE next = s.C
    <3>1. next = s.slack + W(s.C)
      BY DEF next
    <3>2. next = s.slack + W(next)
      BY <2>2, <3>1
    <3>3. \A j \in 1 .. pos : next % list[j].period # 0
      BY <1>1, <1>4, <2>2
    <3>. QED BY <2>2, <3>2, <3>3
  <2>3. CASE next # s.C
    <3>1. s.C < next /\ next = s.slack + W(s.C)
      BY <1>1, <1>4, <1>5, <2>3 DEF next
    <3>2. PICK B, C, S : B = s.C /\ C = next /\ S = s.slack
      OBVIOUS
    <3>3. B \in Nat /\ C \in Nat /\ S \in Nat /\ B < C /\ C = S + WorkReleased(list, pos, B)
      BY <1>1, <1>5, <3>1, <3>2
    <3>4. /\ C <= S + WorkReleased(list, pos, C)
          /\ \A j \in 1 .. pos : C % list[j].period = 0 => C < S + WorkReleased(list, pos, C)
      BY <3>3, GoingOn
    <3>. QED BY <2>3, <3>2, <3>4
  <2>. QED BY <2>2, <2>3
<1>9. u.C >= s.C /\ (u.C = s.C => u.in_bzp = FALSE)
  <2>. HIDE DEF u
  <2>. QED BY <1>1, <1>4, <1>5, <1>6
<1>. QED BY <1>6, <1>7, <1>8, <1>9 DEF next

\* A turn over idle time adds the same to C and to slack, and alpha becomes the lesser
\* of itself and the share of work in the time past.
LEMMA IdleTurnFacts ==
  ASSUME NEW list \in TaskList, NEW pos \in 1 .. Len(list),
         NEW s \in AlphaState, s.C < list[pos].period, ~s.in_bzp
  PROVE  LET u == AlphaTurn(list, pos, s)
             d == idle_duration(list, pos, s.C)
             x == ((u.C - u.slack) * SCALE_UP_FACTOR) \div u.C
         IN  /\ u \in AlphaState
             /\ u.C = s.C + d /\ u.slack = s.slack + d /\ u.in_bzp = TRUE
             /\ x \in Nat /\ u.alpha \in {s.alpha, x} /\ u.alpha <= s.alpha /\ u.alpha <= x
<1>. DEFINE u == AlphaTurn(list, pos, s)
            d == idle_duration(list, pos, s.C)
            tW == s.C + d
            S == s.slack + d
            x == ((tW - S) * SCALE_UP_FACTOR) \div tW
<1>1. /\ s.C \in Nat /\ s.C > 0 /\ s.slack \in Nat /\ s.slack <= s.C /\ s.alpha \in Nat /\ s.in_bzp = FALSE
  BY DEF AlphaState
<1>2. u = [C |-> tW, slack |-> S, in_bzp |-> TRUE, alpha |-> Min({s.alpha, x})]
  BY <1>1 DEF AlphaTurn
<1>3. d \in Nat
  BY <1>1, IdleFacts
<1>. HIDE DEF d
<1>4. tW \in Nat \ {0} /\ S \in Nat /\ S <= tW /\ tW - S \in Nat
  <2>1. PICK c, y : c = s.C /\ y = s.slack
    OBVIOUS
  <2>2. c \in Nat /\ c > 0 /\ y \in Nat /\ y <= c /\ tW = c + d /\ S = y + d
    BY <1>1, <2>1
  <2>. QED BY ONLY <1>3, <2>2
<1>. HIDE DEF tW, S
<1>5. x \in Nat
  <2>1. PICK w : w = (tW - S) * SCALE_UP_FACTOR
    OBVIOUS
  <2>2. w \in Nat
    BY <1>4, <2>1 DEF SCALE_UP_FACTOR
  <2>3. w \div tW \in Nat
    BY ONLY <1>4, <2>2, DivMod
  <2>. QED BY <2>1, <2>3
<1>. HIDE DEF x
<1>6. PICK m : m = Min({s.alpha, x})
  OBVIOUS
<1>7. m \in {s.alpha, x} /\ m \in Nat /\ m <= s.alpha /\ m <= x
  <2>1. {s.alpha, x} \in SUBSET Nat /\ {s.alpha, x} # {}
    BY <1>1, <1>5
  <2>2. Min({s.alpha, x}) \in {s.alpha, x} /\ \A a \in {s.alpha, x} : Min({s.alpha, x}) <= a
    BY <2>1, MinNat
  <2>. QED BY <1>1, <1>5, <1>6, <2>2
<1>8. /\ u.C = tW /\ u.slack = S /\ u.in_bzp = TRUE /\ u.alpha = m
      /\ u \in [C : Nat \ {0}, slack : Nat, alpha : Nat, in_bzp : BOOLEAN]
  BY <1>2, <1>4, <1>6, <1>7
<1>. HIDE DEF u
<1>9. u \in AlphaState
  BY <1>4, <1>8 DEF AlphaState
<1>10. x = ((u.C - u.slack) * SCALE_UP_FACTOR) \div u.C
  BY <1>8 DEF x
<1>. QED BY <1>5, <1>7, <1>8, <1>9, <1>10 DEF u, d, tW, S

\* A turn over idle time moves C on to the next release or the deadline, and the work
\* demanded by any moment of the idle time is the time past without its slack.
LEMMA IdleTurn ==
  ASSUME NEW list \in TaskList, PositiveBudgets(list), NEW pos \in 1 .. Len(list),
         NEW s \in AlphaState, s.C < list[pos].period, ~s.in_bzp, Going(list, pos, s)
  PROVE  LET u == AlphaTurn(list, pos, s)
         IN  /\ Going(list, pos, u) /\ s.C < u.C /\ u.C <= list[pos].period
             /\ \A t \in 1 .. list[pos].period :
                  s.C < t /\ t <= u.C => demand(list, pos, t) = u.C - u.slack
<1>. DEFINE u == AlphaTurn(list, pos, s)
            W(c) == WorkReleased(list, pos, c)
            T == list[pos].period
<1>1. PICK d : d = idle_duration(list, pos, s.C)
  OBVIOUS
<1>2. /\ s.C \in Nat /\ s.C > 0 /\ s.slack \in Nat /\ s.in_bzp = FALSE /\ T \in Nat
  BY TaskListFacts DEF AlphaState
<1>3. s.C = s.slack + W(s.C) /\ \A j \in 1 .. pos : s.C % list[j].period # 0
  BY <1>2 DEF Going
<1>4. /\ d \in Nat /\ s.C + d <= T /\ d > 0
      /\ \A j \in 1 .. pos : s.C + d <= (s.C \div list[j].period + 1) * list[j].period
  BY <1>1, <1>2, <1>3, IdleFacts
<1>5. u.C = s.C + d /\ u.slack = s.slack + d /\ u.in_bzp = TRUE
  BY <1>1, IdleTurnFacts
<1>. HIDE DEF u
<1>6. PICK B, C, S : B = s.C /\ C = u.C /\ S = u.slack
  OBVIOUS
<1>7. B \in Nat /\ C \in Nat /\ S \in Nat /\ B < C /\ C <= T
  BY <1>2, <1>4, <1>5, <1>6
<1>8. W(B) \in Nat /\ C = S + W(B)
  <2>1. W(B) \in Nat /\ W(s.C) = W(B)
    BY <1>6, <1>7, WorkFacts
  <2>. HIDE DEF W
  <2>. QED BY <1>2, <1>3, <1>4, <1>5, <1>6, <2>1
<1>9. Going(list, pos, u)
  <2>1. /\ C <= S + WorkReleased(list, pos, C)
        /\ \A j \in 1 .. pos : C % list[j].period = 0 => C < S + WorkReleased(list, pos, C)
    BY <1>7, <1>8, GoingOn
  <2>. QED BY <1>5, <1>6, <2>1 DEF Going
<1>10. ASSUME NEW t \in 1 .. T, B < t, t <= C PROVE demand(list, pos, t) = C - S
  <2>1. t - 1 \in Nat /\ B <= t - 1 /\ demand(list, pos, t) = W(t - 1)
    <3>1. t - 1 \in Nat /\ demand(list, pos, t) = W(t - 1)
      BY WorkFacts
    <3>2. t \in Nat /\ B <= t - 1
      BY <1>2, <1>7, <1>10
    <3>. QED BY <3>1, <3>2
  <2>2. PICK E : E = t - 1
    OBVIOUS
  <2>3. \A j \in 1 .. pos : E < (B \div list[j].period + 1) * list[j].period
    <3>. TAKE j \in 1 .. pos
    <3>1. s.C + d <= (s.C \div list[j].period + 1) * list[j].period
      BY <1>4
    <3>2. PICK y : y = (s.C \div list[j].period + 1) * list[j].period
      OBVIOUS
    <3>3. y \in Int
      <4>1. list[j].period \in Nat \ {0}
        BY WorkIsReleased, TaskListFacts
      <4>2. s.C \div list[j].period \in Nat
        BY <1>2, <4>1, DivMod
      <4>. QED BY <3>2, <4>1, <4>2
    <3>4. E < y
      <4>1. C <= y
        BY <1>5, <1>6, <3>1, <3>2
      <4>. QED BY <1>2, <1>7, <1>10, <2>2, <3>3, <4>1
    <3>. QED BY <1>6, <3>2, <3>4
  <2>4. W(E) = W(B)
    BY <1>7, <2>1, <2>2, <2>3, WorkConstant
  <2>. HIDE DEF W
  <2>. QED BY <1>7, <1>8, <2>1, <2>2, <2>4
<1>11. s.C < u.C /\ u.C <= T
  BY <1>6, <1>7
<1>. QED BY <1>6, <1>9, <1>10, <1>11 DEF u

\* The invariant holds where a task's own budget, after d of idle time, has been
\* counted: at the start of a trace, and behind the idle time a flag left over from
\* the task before adds first.
LEMMA StartsGoing ==
  ASSUME NEW list \in TaskList, PositiveBudgets(list), NEW pos \in 1 .. Len(list),
         NEW s \in AlphaState, s.C < list[pos].period, s.in_bzp, NEW d \in Nat,
         s.C = list[pos].budget + d, s.slack = d
  PROVE  Going(list, pos, s)
<1>. DEFINE W == WorkReleased(list, pos, s.C)
            b == list[pos].budget
<1>1. s.C \in Nat /\ s.C > 0 /\ b \in Nat /\ list[pos].period \in Nat \ {0}
  BY TaskListFacts DEF AlphaState
<1>2. W \in Nat /\ b <= W /\ \A j \in 1 .. pos : j # pos => b + list[j].budget <= W
  BY <1>1, WorkAtLeast, WorkFacts
<1>3. s.C <= d + W
  <2>. HIDE DEF W, b
  <2>. QED BY <1>1, <1>2 DEF b
<1>4. ASSUME NEW j \in 1 .. pos, s.C % list[j].period = 0 PROVE s.C < d + W
  <2>1. CASE j = pos
    <3>1. PICK p, q, r, c : p = list[pos].period /\ c = s.C /\ q = c \div p /\ r = c % p
      OBVIOUS
    <3>2. p \in Nat \ {0} /\ c \in Nat /\ c > 0 /\ c < p /\ r = 0
      BY <1>1, <1>4, <2>1, <3>1
    <3>3. c = q * p + r /\ q \in Nat
      <4>1. c \div p \in Nat /\ c = (c \div p) * p + (c % p)
        BY ONLY <3>2, DivMod
      <4>. QED BY ONLY <3>1, <4>1
    <3>4. q = 0 \/ p <= q * p
      <4>1. q >= 1 => 1 * p <= q * p
        <5>1. p \in Nat /\ q \in Int /\ 1 \in Int
          BY <3>2, <3>3
        <5>. QED BY ONLY <5>1, <3>3, TimesMonotone
      <4>. QED BY <3>2, <3>3, <4>1
    <3>5. q * p \in Nat /\ (q = 0 => q * p = 0)
      BY <3>2, <3>3
    <3>. QED BY ONLY <3>2, <3>3, <3>4, <3>5
  <2>2. CASE j # pos
    <3>1. b + list[j].budget <= W
      BY <1>2, <2>2
    <3>2. list[j].budget \in Nat /\ list[j].budget > 0
      BY WorkIsReleased, TaskListFacts DEF PositiveBudgets
    <3>3. s.C = b + d
      OBVIOUS
    <3>. HIDE DEF W, b
    <3>. QED BY <1>1, <1>2, <3>1, <3>2, <3>3
  <2>. QED BY <2>1, <2>2
<1>. QED BY <1>3, <1>4 DEF Going

\* Every turn leaves slack at most C and C positive, whatever the flag was.
LEMMA TurnType ==
  ASSUME NEW list \in TaskList, PositiveBudgets(list), NEW pos \in 1 .. Len(list),
         NEW s \in AlphaState, s.C < list[pos].period
  PROVE  AlphaTurn(list, pos, s) \in AlphaState
<1>1. CASE s.in_bzp
  <2>1. PICK n, b : /\ n = s.slack + WorkReleased(list, pos, s.C)
                    /\ b = (n # s.C /\ n < list[pos].period)
    OBVIOUS
  <2>2. /\ s.C \in Nat /\ s.slack \in Nat
        /\ s \in [C : Nat \ {0}, slack : Nat, alpha : Nat, in_bzp : BOOLEAN]
    BY DEF AlphaState
  <2>3. n \in Nat \ {0} /\ s.slack <= n
    <3>1. PICK w, c : w = WorkReleased(list, pos, s.C) /\ c = list[pos].budget
      OBVIOUS
    <3>2. w \in Nat /\ c <= w /\ c \in Nat /\ c > 0
      BY <2>2, <3>1, WorkFacts, WorkAtLeast, TaskListFacts DEF PositiveBudgets
    <3>. QED BY <2>1, <2>2, <3>1, <3>2
  <2>4. b \in BOOLEAN
    BY <2>1, Zenon
  <2>5. AlphaTurn(list, pos, s) = [s EXCEPT !.C = n, !.in_bzp = b]
    BY <1>1, <2>1 DEF AlphaTurn
  <2>6. PICK u : u = [s EXCEPT !.C = n, !.in_bzp = b]
    OBVIOUS
  <2>7. u \in [C : Nat \ {0}, slack : Nat, alpha : Nat, in_bzp : BOOLEAN] /\ u.C = n /\ u.slack = s.slack
    BY ONLY <2>2, <2>3, <2>4, <2>6
  <2>. QED BY <2>3, <2>5, <2>6, <2>7 DEF AlphaState
<1>2. CASE ~s.in_bzp
  BY <1>2, IdleTurnFacts
<1>. QED BY <1>1, <1>2

-----------------------------------------------------------------------------
(***************************************************************************)
(* alpha is the least share of work.                                       *)
(***************************************************************************)

\* m thousandths of the time up to C are no more than the work done by then.
Share(m, C, S) == m * C <= (C - S) * 1000

\* A share that holds at C holds while time passes without slack.
LEMMA ShareGrows ==
  ASSUME NEW m \in Nat, m <= 1000, NEW C \in Nat, NEW t \in Nat, NEW S \in Nat, C <= t,
         Share(m, C, S)
  PROVE  Share(m, t, S)
<1>0. m * C <= (C - S) * 1000
  BY DEF Share
<1>1. PICK e : e = t - C
  OBVIOUS
<1>2. e \in Nat /\ t = C + e
  BY <1>1
<1>3. m * t = m * C + m * e /\ m * C \in Nat /\ m * e \in Nat
  BY <1>2
<1>4. m * e <= 1000 * e
  BY ONLY <1>2, m \in Nat, m <= 1000, m \in Int, 1000 \in Int, TimesMonotone
<1>5. PICK x, y : x = m * C /\ y = m * e
  OBVIOUS
<1>6. x + y <= (t - S) * 1000
  BY <1>0, <1>2, <1>3, <1>4, <1>5
<1>7. m * t <= (t - S) * 1000
  BY <1>3, <1>5, <1>6
<1>. QED BY <1>7 DEF Share

\* alpha starts at twice the highest frequency: what it says is at most the highest.
Cap(alpha) == IF alpha <= SCALE_UP_FACTOR THEN alpha ELSE SCALE_UP_FACTOR

\* What alpha is in the middle of a trace: untouched, or the frequency some moment asks
\* for; and a lower bound of the frequency every moment up to C asks for.
LeastSoFar(list, pos, s) ==
    LET T == list[pos].period
    IN  /\ \/ s.alpha = 2 * SCALE_UP_FACTOR
           \/ /\ s.alpha <= SCALE_UP_FACTOR
              /\ \E t \in 1 .. T : s.alpha = (demand(list, pos, t) * SCALE_UP_FACTOR) \div t
        /\ Cap(s.alpha) * s.C <= (s.C - s.slack) * SCALE_UP_FACTOR
        /\ \A t \in 1 .. T : t <= s.C =>
              Cap(s.alpha) * t <= demand(list, pos, t) * SCALE_UP_FACTOR

\* A capped alpha is a number of thousandths.
LEMMA CapType ==
  ASSUME NEW alpha \in Nat
  PROVE  Cap(alpha) \in Nat /\ Cap(alpha) <= 1000 /\ Cap(alpha) <= alpha
BY DEF Cap, SCALE_UP_FACTOR

\* A turn of the inner loop: no moment in a busy period asks for less than alpha.
LEMMA BusyBound ==
  ASSUME NEW list \in TaskList, PositiveBudgets(list), NEW pos \in 1 .. Len(list),
         NEW s \in AlphaState, s.C < list[pos].period, s.in_bzp, Going(list, pos, s),
         LeastSoFar(list, pos, s)
  PROVE  LeastSoFar(list, pos, AlphaTurn(list, pos, s))
<1>. DEFINE T == list[pos].period
            W(c) == WorkReleased(list, pos, c)
            D(t) == demand(list, pos, t)
<1>1. PICK u : u = AlphaTurn(list, pos, s)
  OBVIOUS
<1>2. /\ u \in AlphaState /\ u.slack = s.slack /\ u.alpha = s.alpha /\ u.C >= s.C
      /\ u.C = s.slack + W(s.C)
  BY <1>1, BusyTurn
<1>3. PICK m, B, C, S : m = Cap(s.alpha) /\ B = s.C /\ C = u.C /\ S = s.slack
  OBVIOUS
<1>4. /\ m \in Nat /\ m <= 1000 /\ B \in Nat /\ C \in Nat /\ S \in Nat /\ B <= C /\ T \in Nat
      /\ W(B) \in Nat /\ C = S + W(B)
  <2>1. s.alpha \in Nat /\ s.C \in Nat /\ s.slack \in Nat /\ u.C \in Nat
    BY <1>2 DEF AlphaState
  <2>2. m \in Nat /\ m <= 1000
    <3>1. Cap(s.alpha) \in Nat /\ Cap(s.alpha) <= 1000
      <4>1. PICK y : y = s.alpha
        OBVIOUS
      <4>2. y \in Nat
        BY ONLY <2>1, <4>1
      <4>3. Cap(y) \in Nat /\ Cap(y) <= 1000
        BY ONLY <4>2, CapType
      <4>. QED BY ONLY <4>1, <4>3
    <3>. QED BY ONLY <1>3, <3>1
  <2>3. W(B) \in Nat /\ W(s.C) = W(B) /\ T \in Nat
    BY <1>3, <2>1, WorkFacts, TaskListFacts
  <2>. HIDE DEF W, T
  <2>. QED BY <1>2, <1>3, <2>1, <2>2, <2>3
<1>5. m * B <= (B - S) * 1000
  BY <1>3 DEF LeastSoFar, SCALE_UP_FACTOR
<1>6. m * C <= (C - S) * 1000
  <2>1. m \in Nat /\ m <= 1000 /\ B \in Nat /\ C \in Nat /\ S \in Nat /\ B <= C
    BY <1>4
  <2>2. Share(m, B, S)
    BY <1>5 DEF Share
  <2>3. Share(m, C, S)
    BY ONLY <2>1, <2>2, ShareGrows
  <2>. QED BY <2>3 DEF Share
<1>7. ASSUME NEW t \in 1 .. T, t <= C PROVE m * t <= D(t) * 1000
  <2>1. CASE t <= B
    BY <1>3, <2>1 DEF LeastSoFar, SCALE_UP_FACTOR
  <2>2. CASE ~(t <= B)
    <3>1. t \in Nat /\ B <= t /\ B <= t - 1 /\ t - 1 \in Nat
      BY <1>4, <2>2
    <3>2. D(t) = W(t - 1) /\ W(t - 1) \in Nat /\ W(B) <= W(t - 1)
      <4>1. D(t) = W(t - 1)
        BY WorkFacts
      <4>2. B \in Nat /\ t - 1 \in Nat /\ B <= t - 1
        BY <1>4, <3>1
      <4>3. W(t - 1) \in Nat /\ W(B) <= W(t - 1)
        BY ONLY <4>2, list \in TaskList, pos \in 1 .. Len(list), WorkFacts
      <4>. QED BY <4>1, <4>3
    <3>3. m * t <= (t - S) * 1000
      <4>1. m \in Nat /\ m <= 1000 /\ B \in Nat /\ t \in Nat /\ S \in Nat /\ B <= t
        BY <1>4, <3>1
      <4>2. Share(m, B, S)
        BY <1>5 DEF Share
      <4>3. Share(m, t, S)
        BY ONLY <4>1, <4>2, ShareGrows
      <4>. QED BY <4>3 DEF Share
    <3>4. PICK w, v, y : w = W(B) /\ v = D(t) /\ y = m * t
      OBVIOUS
    <3>5. w \in Nat /\ v \in Nat /\ w <= v /\ C = S + w /\ y <= (t - S) * 1000 /\ y \in Nat
      BY <1>4, <3>1, <3>2, <3>3, <3>4
    <3>6. y <= v * 1000
      BY ONLY <1>4, <1>7, <3>1, <3>5
    <3>. QED BY <3>4, <3>6
  <2>. QED BY <2>1, <2>2
<1>8. \/ u.alpha = 2 * SCALE_UP_FACTOR
      \/ /\ u.alpha <= SCALE_UP_FACTOR
         /\ \E t \in 1 .. T : u.alpha = (D(t) * SCALE_UP_FACTOR) \div t
  BY <1>2 DEF LeastSoFar
<1>9. Cap(u.alpha) * u.C <= (u.C - u.slack) * SCALE_UP_FACTOR
  BY <1>2, <1>3, <1>6 DEF SCALE_UP_FACTOR
<1>10. \A t \in 1 .. T : t <= u.C => Cap(u.alpha) * t <= D(t) * SCALE_UP_FACTOR
  BY <1>2, <1>3, <1>7 DEF SCALE_UP_FACTOR
<1>11. LeastSoFar(list, pos, u)
  BY <1>8, <1>9, <1>10 DEF LeastSoFar
<1>. QED BY <1>1, <1>11

\* Products with the lesser factor are less.
LEMMA Shrink ==
  ASSUME NEW m \in Nat, NEW n \in Nat, NEW t \in Nat, m <= n
  PROVE  m * t <= n * t /\ m * t \in Nat /\ n * t \in Nat
<1>1. m * t <= n * t
  BY ONLY m \in Nat, n \in Nat, m \in Int, n \in Int, t \in Nat, m <= n, TimesMonotone
<1>. QED BY <1>1

\* A turn over idle time: of its moments the last asks for the least, which is the
\* candidate the code takes.
LEMMA IdleBound ==
  ASSUME NEW list \in TaskList, PositiveBudgets(list), NEW pos \in 1 .. Len(list),
         NEW s \in AlphaState, s.C < list[pos].period, ~s.in_bzp, Going(list, pos, s),
         LeastSoFar(list, pos, s)
  PROVE  LeastSoFar(list, pos, AlphaTurn(list, pos, s))
<1>. DEFINE T == list[pos].period
            D(t) == demand(list, pos, t)
<1>1. PICK u : u = AlphaTurn(list, pos, s)
  OBVIOUS
<1>2. PICK x : x = ((u.C - u.slack) * SCALE_UP_FACTOR) \div u.C
  OBVIOUS
<1>3. /\ u \in AlphaState /\ x \in Nat
      /\ u.alpha \in {s.alpha, x} /\ u.alpha <= s.alpha /\ u.alpha <= x
  BY <1>1, <1>2, IdleTurnFacts
<1>4. /\ s.C < u.C /\ u.C <= T
      /\ \A t \in 1 .. T : s.C < t /\ t <= u.C => D(t) = u.C - u.slack
  BY <1>1, IdleTurn
<1>5. PICK m, n, B, C, w : /\ m = Cap(s.alpha) /\ n = Cap(u.alpha) /\ B = s.C /\ C = u.C
                           /\ w = u.C - u.slack
  OBVIOUS
<1>6. /\ m \in Nat /\ n \in Nat /\ B \in Nat /\ C \in Nat \ {0} /\ w \in Nat /\ T \in Nat
      /\ n <= x /\ n <= m /\ B < C /\ C <= T /\ w <= C
  <2>1. /\ s.alpha \in Nat /\ u.alpha \in Nat /\ s.C \in Nat /\ u.C \in Nat \ {0} /\ u.slack \in Nat
        /\ u.slack <= u.C
    BY <1>3 DEF AlphaState
  <2>2. m \in Nat /\ n \in Nat /\ n <= u.alpha /\ n <= m
    BY <1>3, <1>5, <2>1 DEF Cap, SCALE_UP_FACTOR
  <2>3. T \in Nat
    BY TaskListFacts
  <2>4. B \in Nat /\ C \in Nat \ {0} /\ B < C /\ C <= T
    BY <1>4, <1>5, <2>1
  <2>5. w \in Nat /\ w <= C
    <3>1. PICK y : y = u.slack
      OBVIOUS
    <3>2. y \in Nat /\ y <= C /\ w = C - y /\ C \in Nat
      BY <1>5, <2>1, <3>1
    <3>. QED BY ONLY <3>2
  <2>6. n <= x
    <3>1. PICK y : y = u.alpha
      OBVIOUS
    <3>2. y \in Nat /\ x \in Nat /\ n \in Nat /\ n <= y /\ y <= x
      BY <1>3, <2>1, <2>2, <3>1
    <3>. QED BY ONLY <3>2
  <2>. QED BY <2>2, <2>3, <2>4, <2>5, <2>6
<1>7. x * C <= w * 1000 /\ x <= 1000
  <2>1. PICK y : y = w * 1000
    OBVIOUS
  <2>2. y \in Nat /\ x = y \div C
    <3>1. y \in Nat
      BY ONLY <1>6, <2>1
    <3>2. x = (w * 1000) \div C
      BY ONLY <1>2, <1>5 DEF SCALE_UP_FACTOR
    <3>. QED BY <2>1, <3>1, <3>2
  <2>3. y % C \in Nat /\ y = (y \div C) * C + (y % C)
    BY ONLY <1>6, <2>2, DivMod
  <2>4. PICK r, z : r = y % C /\ z = x * C
    OBVIOUS
  <2>5. r \in Nat /\ y = z + r
    BY ONLY <2>2, <2>3, <2>4
  <2>6. z \in Nat
    BY <1>3, <1>6, <2>4
  <2>7. x * C <= y
    BY ONLY <2>2, <2>4, <2>5, <2>6
  <2>8. x <= 1000
    <3>. SUFFICES ASSUME x >= 1001 PROVE FALSE
      BY <1>3
    <3>1. 1001 * C <= x * C
      <4>1. PICK k : k = 1001
        OBVIOUS
      <4>2. k \in Nat /\ C \in Nat /\ x \in Nat /\ k <= x
        BY <1>3, <1>6, <4>1
      <4>3. k * C <= x * C
        BY ONLY <4>2, Shrink
      <4>. QED BY <4>1, <4>3
    <3>. QED BY ONLY <1>6, <2>1, <2>4, <2>6, <2>7, <3>1
  <2>. QED BY <2>1, <2>7, <2>8
<1>8. n * C <= w * 1000
  <2>1. n * C <= x * C /\ n * C \in Nat /\ x * C \in Nat
    BY ONLY <1>3, <1>6, C \in Nat, Shrink
  <2>2. PICK y, z : y = n * C /\ z = x * C
    OBVIOUS
  <2>. QED BY ONLY <1>6, <1>7, <2>1, <2>2
<1>9. ASSUME NEW t \in 1 .. T, t <= C PROVE n * t <= D(t) * 1000
  <2>1. t \in Nat
    BY <1>6
  <2>2. D(t) \in Nat
    BY <2>1, DemandFacts
  <2>3. CASE t <= B
    <3>1. m * t <= D(t) * 1000
      BY <1>5, <2>3 DEF LeastSoFar, SCALE_UP_FACTOR
    <3>2. n * t <= m * t /\ n * t \in Nat /\ m * t \in Nat
      BY ONLY <1>6, <2>1, Shrink
    <3>3. PICK y, z, v : y = n * t /\ z = m * t /\ v = D(t)
      OBVIOUS
    <3>. QED BY ONLY <2>2, <3>1, <3>2, <3>3
  <2>4. CASE ~(t <= B)
    <3>1. D(t) = w
      BY <1>4, <1>5, <1>6, <1>9, <2>1, <2>4
    <3>2. n * t <= n * C
      <4>1. t * n <= C * n
        BY ONLY <1>6, <1>9, <2>1, C \in Nat, Shrink
      <4>2. t * n = n * t /\ C * n = n * C
        BY <1>6, <2>1
      <4>. QED BY ONLY <4>1, <4>2
    <3>3. n * t \in Nat /\ n * C \in Nat
      BY <1>6, <2>1
    <3>4. PICK y, z : y = n * t /\ z = n * C
      OBVIOUS
    <3>5. y <= w * 1000
      BY ONLY <1>6, <1>8, <3>2, <3>3, <3>4
    <3>. QED BY <3>1, <3>4, <3>5
  <2>. QED BY <2>3, <2>4
<1>10. \/ u.alpha = 2 * SCALE_UP_FACTOR
       \/ /\ u.alpha <= SCALE_UP_FACTOR
          /\ \E t \in 1 .. T : u.alpha = (D(t) * SCALE_UP_FACTOR) \div t
  <2>1. CASE u.alpha = s.alpha
    BY <2>1 DEF LeastSoFar
  <2>2. CASE u.alpha = x
    <3>1. C \in 1 .. T /\ D(C) = w
      BY <1>4, <1>5, <1>6
    <3>2. x = (D(C) * SCALE_UP_FACTOR) \div C
      BY <1>2, <1>5, <3>1
    <3>3. u.alpha <= SCALE_UP_FACTOR
      BY <1>7, <2>2 DEF SCALE_UP_FACTOR
    <3>. HIDE DEF D
    <3>. QED BY <2>2, <3>1, <3>2, <3>3
  <2>. QED BY <1>3, <2>1, <2>2
<1>11. Cap(u.alpha) * u.C <= (u.C - u.slack) * SCALE_UP_FACTOR
  BY <1>5, <1>8 DEF SCALE_UP_FACTOR
<1>12. \A t \in 1 .. T : t <= u.C => Cap(u.alpha) * t <= D(t) * SCALE_UP_FACTOR
  BY <1>5, <1>9 DEF SCALE_UP_FACTOR
<1>13. LeastSoFar(list, pos, u)
  BY <1>10, <1>11, <1>12 DEF LeastSoFar
<1>. QED BY <1>1, <1>13

-----------------------------------------------------------------------------

-----------------------------------------------------------------------------
(***************************************************************************)
(* The whole trace of a task.                                              *)
(***************************************************************************)

\* From a state that satisfies the invariant the loops end, at or past the deadline,
\* and alpha is then the least.  Each turn makes 2 * (T - C) + in_bzp smaller.
LEMMA TraceEnds ==
  ASSUME NEW list \in TaskList, PositiveBudgets(list), NEW pos \in 1 .. Len(list), NEW f,
         f = [s \in AlphaState |-> IF s.C >= list[pos].period THEN s ELSE f[AlphaTurn(list, pos, s)]],
         NEW s \in AlphaState, Going(list, pos, s)
  PROVE  /\ f[s] \in AlphaState /\ f[s].C >= list[pos].period
         /\ LeastSoFar(list, pos, s) => LeastSoFar(list, pos, f[s])
<1>. DEFINE T == list[pos].period
            left(x) == 2 * (T - x.C) + (IF x.in_bzp THEN 1 ELSE 0)
            Good(x) == /\ f[x] \in AlphaState /\ f[x].C >= T
                       /\ LeastSoFar(list, pos, x) => LeastSoFar(list, pos, f[x])
            N == {n \in Nat : \A x \in AlphaState : Going(list, pos, x) /\ left(x) <= n => Good(x)}
<1>1. T \in Nat /\ \A x \in AlphaState : x.C \in Nat /\ left(x) \in Int
  BY TaskListFacts DEF AlphaState
<1>2. \A x \in AlphaState : f[x] = IF x.C >= T THEN x ELSE f[AlphaTurn(list, pos, x)]
  BY Zenon
<1>3. \A x \in AlphaState : x.C >= T => Good(x)
  BY <1>2
<1>4. ASSUME NEW x \in AlphaState, ~(x.C >= T), Going(list, pos, x)
      PROVE  LET u == AlphaTurn(list, pos, x)
             IN  /\ u \in AlphaState /\ Going(list, pos, u) /\ left(u) <= left(x) - 1
                 /\ LeastSoFar(list, pos, x) => LeastSoFar(list, pos, u)
  <2>1. PICK u : u = AlphaTurn(list, pos, x)
    OBVIOUS
  <2>2. x.C < T /\ x.C \in Nat
    BY <1>1, <1>4
  <2>3. u \in AlphaState
    BY <1>4, <2>1, <2>2, TurnType
  <2>4. u.C \in Nat
    BY <1>1, <2>3
  <2>. DEFINE bit(y) == IF y.in_bzp THEN 1 ELSE 0
  <2>7. PICK a, b, k, l : a = x.C /\ b = u.C /\ k = bit(x) /\ l = bit(u)
    OBVIOUS
  <2>8. /\ a \in Nat /\ b \in Nat /\ T \in Nat /\ k \in {0, 1} /\ l \in {0, 1}
        /\ left(x) = 2 * (T - a) + k /\ left(u) = 2 * (T - b) + l
    BY <1>1, <2>2, <2>4, <2>7
  <2>5. CASE x.in_bzp
    <3>1. Going(list, pos, u) /\ u.C >= x.C /\ (u.C = x.C => u.in_bzp = FALSE)
      BY <1>4, <2>1, <2>2, <2>5, BusyTurn
    <3>2. LeastSoFar(list, pos, x) => LeastSoFar(list, pos, u)
      BY <1>4, <2>1, <2>2, <2>5, BusyBound
    <3>3. left(u) <= left(x) - 1
      <4>1. k = 1 /\ a <= b /\ (a = b => l = 0)
        BY <2>2, <2>4, <2>5, <2>7, <3>1
      <4>. HIDE DEF left, T
      <4>. QED BY <2>8, <4>1
    <3>. QED BY <2>1, <2>3, <3>1, <3>2, <3>3
  <2>6. CASE ~x.in_bzp
    <3>1. Going(list, pos, u) /\ x.C < u.C
      BY <1>4, <2>1, <2>2, <2>6, IdleTurn
    <3>2. LeastSoFar(list, pos, x) => LeastSoFar(list, pos, u)
      BY <1>4, <2>1, <2>2, <2>6, IdleBound
    <3>3. left(u) <= left(x) - 1
      <4>1. a < b
        BY <2>7, <3>1
      <4>. HIDE DEF left, T
      <4>. QED BY <2>8, <4>1
    <3>. QED BY <2>1, <2>3, <3>1, <3>2, <3>3
  <2>. QED BY <2>5, <2>6
<1>5. 0 \in N
  <2>1. ASSUME NEW x \in AlphaState, left(x) <= 0 PROVE Good(x)
    <3>1. x.C >= T
      BY <1>1, <2>1
    <3>. QED BY <1>3, <3>1
  <2>. HIDE DEF Good, left
  <2>. QED BY <2>1
<1>6. ASSUME NEW n \in Nat, n \in N PROVE n + 1 \in N
  <2>1. ASSUME NEW x \in AlphaState, Going(list, pos, x), left(x) <= n + 1 PROVE Good(x)
    <3>1. CASE x.C >= T
      BY <1>3, <3>1
    <3>2. CASE ~(x.C >= T)
      <4>1. PICK u : u = AlphaTurn(list, pos, x)
        OBVIOUS
      <4>2. /\ u \in AlphaState /\ Going(list, pos, u) /\ left(u) <= left(x) - 1
            /\ LeastSoFar(list, pos, x) => LeastSoFar(list, pos, u)
        <5>. HIDE DEF left
        <5>. QED BY <1>4, <2>1, <3>2, <4>1
      <4>3. left(u) \in Int /\ left(x) \in Int
        BY <1>1, <4>2
      <4>4. left(u) <= n
        <5>. HIDE DEF left
        <5>. QED BY <2>1, <4>2, <4>3
      <4>5. Good(u)
        <5>. HIDE DEF left, Good
        <5>. QED BY <1>6, <4>2, <4>4
      <4>6. f[x] = f[u]
        BY <1>2, <3>2, <4>1
      <4>. QED BY <4>2, <4>5, <4>6
    <3>. QED BY <3>1, <3>2
  <2>. HIDE DEF left, Good
  <2>. QED BY <2>1
<1>7. Nat \subseteq N
  <2>. HIDE DEF N
  <2>. QED BY <1>5, <1>6, SetInduction
<1>8. \E n \in Nat : left(s) <= n
  <2>1. left(s) \in Int
    BY <1>1
  <2>2. CASE left(s) >= 0
    <3>. HIDE DEF left
    <3>. QED BY <2>1, <2>2
  <2>3. CASE ~(left(s) >= 0)
    <3>. HIDE DEF left
    <3>1. left(s) <= 0
      BY <2>1, <2>3
    <3>. QED BY <3>1
  <2>. QED BY <2>2, <2>3
<1>9. Good(s)
  <2>. HIDE DEF left, Good
  <2>. QED BY <1>7, <1>8
<1>. QED BY <1>9

\* The local variables of sysclock where the turn of task pos begins.
AlphaStart(list, pos, in_bzp) ==
    [C |-> list[pos].budget, slack |-> 0, alpha |-> 2 * SCALE_UP_FACTOR, in_bzp |-> in_bzp]

\* ComputeAlpha is its loop's function, at its start.
LEMMA TraceRecursion ==
  ASSUME NEW list \in TaskList, PositiveBudgets(list), NEW pos \in 1 .. Len(list), NEW b \in BOOLEAN
  PROVE  \E f : /\ f = [s \in AlphaState |-> IF s.C >= list[pos].period THEN s
                                              ELSE f[AlphaTurn(list, pos, s)]]
               /\ ComputeAlpha(list, pos, b) = f[AlphaStart(list, pos, b)]
               /\ AlphaStart(list, pos, b) \in AlphaState
<1>. DEFINE T == list[pos].period
            step(f) == [s \in AlphaState |-> IF s.C >= T THEN s ELSE f[AlphaTurn(list, pos, s)]]
            done == {s \in AlphaState : s.C >= T}
            nxt == [s \in AlphaState |-> AlphaTurn(list, pos, s)]
            f == CHOOSE f : f = step(f)
<1>1. T \in Nat /\ \A s \in AlphaState : s.C \in Nat
  BY TaskListFacts DEF AlphaState
<1>2. ASSUME NEW s \in AlphaState, s \notin done PROVE nxt[s] \in AlphaState
  <2>1. s.C < T
    BY <1>1, <1>2
  <2>2. AlphaTurn(list, pos, s) \in AlphaState
    BY <2>1, TurnType
  <2>. QED BY <2>2
<1>3. PICK g : Repeats(AlphaState, done, nxt, g)
  <2>. HIDE DEF nxt, done
  <2>1. \A s \in AlphaState : s \notin done => nxt[s] \in AlphaState
    BY <1>2
  <2>. QED BY ONLY <2>1, TailRecursionExists
<1>4. g = step(g)
  <2>1. \A s \in AlphaState : (IF s \in done THEN s ELSE g[nxt[s]])
                               = (IF s.C >= T THEN s ELSE g[AlphaTurn(list, pos, s)])
    OBVIOUS
  <2>2. [s \in AlphaState |-> IF s \in done THEN s ELSE g[nxt[s]]] = step(g)
    <3>. HIDE DEF nxt, done
    <3>. QED BY <2>1
  <2>. QED BY <1>3, <2>2 DEF Repeats
<1>5. f = step(f)
  <2>. HIDE DEF step
  <2>. QED BY <1>4, Zenon
<1>6. ComputeAlpha(list, pos, b) = f[AlphaStart(list, pos, b)]
  BY DEF ComputeAlpha, AlphaStart
<1>7. AlphaStart(list, pos, b) \in AlphaState
  <2>1. list[pos].budget \in Nat \ {0}
    BY TaskListFacts DEF PositiveBudgets
  <2>. QED BY <2>1 DEF AlphaStart, AlphaState, SCALE_UP_FACTOR
<1>. HIDE DEF f
<1>. QED BY <1>5, <1>6, <1>7

\* sysclock's while loops end for every task list with positive budgets, schedulable
\* or not and whatever the flag in_bzp was left at: every turn moves the trace C on or
\* leaves the busy period.  (With a budget of 0 they need not.)
THEOREM SysclockTraceEnds ==
  ASSUME NEW list \in TaskList, PositiveBudgets(list), NEW pos \in 1 .. Len(list), NEW b \in BOOLEAN
  PROVE  /\ ComputeAlpha(list, pos, b) \in AlphaState
         /\ ComputeAlpha(list, pos, b).C >= list[pos].period
<1>. DEFINE T == list[pos].period
<1>1. PICK f : /\ f = [s \in AlphaState |-> IF s.C >= T THEN s ELSE f[AlphaTurn(list, pos, s)]]
               /\ ComputeAlpha(list, pos, b) = f[AlphaStart(list, pos, b)]
               /\ AlphaStart(list, pos, b) \in AlphaState
  BY TraceRecursion
<1>2. PICK s : s = AlphaStart(list, pos, b)
  OBVIOUS
<1>3. /\ s \in AlphaState /\ s.C = list[pos].budget /\ s.slack = 0 /\ s.in_bzp = b
      /\ s.C \in Nat /\ T \in Nat
  BY <1>1, <1>2, TaskListFacts DEF AlphaStart
<1>4. f[s] = IF s.C >= T THEN s ELSE f[AlphaTurn(list, pos, s)]
  BY <1>1, <1>3, Zenon
<1>5. CASE s.C >= T
  BY <1>1, <1>2, <1>3, <1>4, <1>5
<1>6. CASE s.C < T /\ b = TRUE
  <2>1. Going(list, pos, s)
    <3>1. 0 \in Nat /\ s.C = list[pos].budget + 0 /\ s.C < list[pos].period /\ s.in_bzp
      BY <1>3, <1>6
    <3>. QED BY <1>3, <3>1, StartsGoing
  <2>2. f[s] \in AlphaState /\ f[s].C >= list[pos].period
    BY <1>1, <1>3, <2>1, TraceEnds
  <2>. QED BY <1>1, <1>2, <2>2
<1>7. CASE s.C < T /\ b = FALSE
  <2>1. PICK u, d : u = AlphaTurn(list, pos, s) /\ d = idle_duration(list, pos, s.C)
    OBVIOUS
  <2>2. u \in AlphaState /\ u.C = s.C + d /\ u.slack = s.slack + d /\ u.in_bzp = TRUE /\ d \in Nat
    BY <1>3, <1>7, <2>1, IdleTurnFacts, IdleFacts
  <2>3. Going(list, pos, u)
    <3>1. CASE u.C < list[pos].period
      <4>1. u.C = list[pos].budget + d /\ u.slack = d
        BY <1>3, <2>2
      <4>. QED BY <2>2, <3>1, <4>1, StartsGoing
    <3>2. CASE ~(u.C < list[pos].period)
      BY <3>2 DEF Going
    <3>. QED BY <3>1, <3>2
  <2>4. f[u] \in AlphaState /\ f[u].C >= list[pos].period
    BY <1>1, <2>2, <2>3, TraceEnds
  <2>5. f[s] = f[u]
    BY <1>3, <1>4, <1>7, <2>1
  <2>. QED BY <1>1, <1>2, <2>4, <2>5
<1>8. (s.C >= T \/ s.C < T) /\ (b = TRUE \/ b = FALSE)
  BY <1>3
<1>. QED BY <1>5, <1>6, <1>7, <1>8

\* At its start alpha bounds every moment up to C.
LEMMA AlphaStartsLeast ==
  ASSUME NEW list \in TaskList, PositiveBudgets(list), NEW pos \in 1 .. Len(list), NEW b \in BOOLEAN
  PROVE  LeastSoFar(list, pos, AlphaStart(list, pos, b))
<1>. DEFINE D(t) == demand(list, pos, t)
            T == list[pos].period
<1>1. PICK s, c : s = AlphaStart(list, pos, b) /\ c = list[pos].budget
  OBVIOUS
<1>2. c \in Nat /\ T \in Nat /\ s.C = c /\ s.slack = 0 /\ s.alpha = 2 * SCALE_UP_FACTOR /\ Cap(s.alpha) = 1000
  BY <1>1, TaskListFacts DEF AlphaStart, Cap, SCALE_UP_FACTOR
<1>3. ASSUME NEW t \in 1 .. T, t <= c PROVE 1000 * t <= D(t) * 1000
  <2>1. t - 1 \in Nat /\ D(t) = WorkReleased(list, pos, t - 1)
    BY WorkFacts
  <2>2. c <= D(t)
    BY <1>1, <2>1, WorkAtLeast
  <2>3. t \in Nat /\ D(t) \in Nat
    BY <1>2, <2>1, WorkFacts
  <2>. HIDE DEF D
  <2>. QED BY <1>2, <1>3, <2>2, <2>3
<1>4. 1000 * s.C <= (s.C - s.slack) * 1000
  BY <1>2
<1>5. LeastSoFar(list, pos, s)
  <2>1. \A t \in 1 .. T : t <= s.C => Cap(s.alpha) * t <= D(t) * SCALE_UP_FACTOR
    BY <1>2, <1>3 DEF SCALE_UP_FACTOR
  <2>2. Cap(s.alpha) * s.C <= (s.C - s.slack) * SCALE_UP_FACTOR
    BY <1>2, <1>4 DEF SCALE_UP_FACTOR
  <2>. QED BY <1>2, <2>1, <2>2 DEF LeastSoFar
<1>. QED BY <1>1, <1>5

\* A quotient is no less than a number whose multiple the dividend is no less than.
LEMMA DivAtLeast ==
  ASSUME NEW m \in Nat, NEW y \in Nat, NEW t \in Nat \ {0}
  PROVE  /\ m * t <= y => m <= y \div t
         /\ y <= m * t => y \div t <= m
<1>1. y \div t \in Nat /\ y % t \in Nat /\ y % t < t /\ y = (y \div t) * t + (y % t)
  BY DivMod
<1>2. PICK d, r : d = y \div t /\ r = y % t
  OBVIOUS
<1>3. d \in Nat /\ r \in Nat /\ r < t /\ y = d * t + r
  BY ONLY <1>1, <1>2
<1>4. d * t \in Nat /\ (d + 1) * t = d * t + t /\ m * t \in Nat /\ (m + 1) * t = m * t + t
  BY <1>3
<1>5. ASSUME m * t <= y PROVE m <= d
  <2>. SUFFICES ASSUME d + 1 <= m PROVE FALSE
    BY <1>3
  <2>1. (d + 1) * t <= m * t
    <3>1. d + 1 \in Nat /\ t \in Nat
      BY <1>3
    <3>. QED BY ONLY <3>1, m \in Nat, d + 1 <= m, Shrink
  <2>2. PICK u, v : u = d * t /\ v = m * t
    OBVIOUS
  <2>. QED BY ONLY <1>3, <1>4, <1>5, <2>1, <2>2, y \in Nat, t \in Nat \ {0}
<1>6. ASSUME y <= m * t PROVE d <= m
  <2>. SUFFICES ASSUME m + 1 <= d PROVE FALSE
    BY <1>3
  <2>1. (m + 1) * t <= d * t
    <3>1. m + 1 \in Nat /\ t \in Nat
      OBVIOUS
    <3>. QED BY ONLY <1>3, <3>1, m + 1 <= d, Shrink
  <2>2. PICK u, v : u = d * t /\ v = m * t
    OBVIOUS
  <2>. QED BY ONLY <1>3, <1>4, <1>6, <2>1, <2>2, y \in Nat, t \in Nat \ {0}
<1>. QED BY <1>2, <1>5, <1>6

\* For a task that rt_test passes, the alpha sysclock computes from a trace that
\* begins with the busy period is the least frequency time-demand analysis asks for
\* over all moments up to the deadline, although the code looks only at the ends of
\* idle times; where it never finds one it keeps 2 * SCALE_UP_FACTOR, and then nothing
\* below the highest frequency is enough.
THEOREM SysclockAlphaIsLeast ==
  ASSUME NEW list \in TaskList, PositiveBudgets(list), NEW pos \in 1 .. Len(list), rt_test(list, pos)
  PROVE  LET alpha == ComputeAlpha(list, pos, TRUE).alpha
             least == LeastFrequency(list, pos)
         IN  alpha = least \/ (alpha = 2 * SCALE_UP_FACTOR /\ least = SCALE_UP_FACTOR)
<1>. DEFINE T == list[pos].period
            D(t) == demand(list, pos, t)
            q(t) == (D(t) * SCALE_UP_FACTOR) \div t
            Q == {q(t) : t \in 1 .. T}
<1>1. PICK f : /\ f = [s \in AlphaState |-> IF s.C >= T THEN s ELSE f[AlphaTurn(list, pos, s)]]
               /\ ComputeAlpha(list, pos, TRUE) = f[AlphaStart(list, pos, TRUE)]
               /\ AlphaStart(list, pos, TRUE) \in AlphaState
  BY TraceRecursion
<1>2. PICK s, e : s = AlphaStart(list, pos, TRUE) /\ e = f[s]
  OBVIOUS
<1>3. T \in Nat \ {0} /\ \A t \in 1 .. T : t \in Nat \ {0} /\ D(t) \in Nat
  <2>1. T \in Nat \ {0}
    BY TaskListFacts
  <2>2. \A t \in 1 .. T : t \in Nat \ {0} /\ t \in Nat
    BY <2>1
  <2>. QED BY <2>1, <2>2, DemandFacts
<1>4. Going(list, pos, s)
  <2>1. /\ s \in AlphaState /\ s.C = list[pos].budget + 0 /\ s.slack = 0 /\ s.in_bzp
    BY <1>1, <1>2, TaskListFacts DEF AlphaStart
  <2>2. CASE s.C < list[pos].period
    BY <2>1, <2>2, 0 \in Nat, StartsGoing
  <2>3. CASE ~(s.C < list[pos].period)
    BY <2>3 DEF Going
  <2>. QED BY <2>2, <2>3
<1>5. e \in AlphaState /\ e.C >= T /\ LeastSoFar(list, pos, e)
  <2>1. LeastSoFar(list, pos, s)
    BY <1>2, AlphaStartsLeast
  <2>2. s \in AlphaState
    BY <1>1, <1>2
  <2>. QED BY <1>1, <1>2, <1>4, <2>1, <2>2, TraceEnds
<1>6. PICK m, alpha : m = Cap(e.alpha) /\ alpha = e.alpha
  OBVIOUS
<1>7. alpha \in Nat /\ m \in Nat /\ e.C \in Nat
  BY <1>5, <1>6, CapType DEF AlphaState
<1>8. ASSUME NEW t \in 1 .. T PROVE q(t) \in Nat /\ m <= q(t)
  <2>1. t <= e.C
    BY <1>3, <1>5, <1>7
  <2>2. m * t <= D(t) * SCALE_UP_FACTOR
    BY <1>5, <1>6, <2>1 DEF LeastSoFar
  <2>3. PICK y : y = D(t) * SCALE_UP_FACTOR
    OBVIOUS
  <2>4. y \in Nat /\ t \in Nat \ {0}
    BY <1>3, <2>3 DEF SCALE_UP_FACTOR
  <2>5. m * t <= y
    BY <2>2, <2>3
  <2>6. m <= y \div t /\ y \div t \in Nat
    BY ONLY <1>7, <2>4, <2>5, DivAtLeast, DivMod
  <2>. QED BY <2>3, <2>6
<1>9. LeastFrequency(list, pos) = Min(Q)
  BY DEF LeastFrequency
<1>10. Q \in SUBSET Nat /\ Q # {} /\ \A x \in Q : m <= x
  <2>. HIDE DEF q
  <2>1. 1 \in 1 .. T
    BY <1>3
  <2>. QED BY <1>8, <2>1
<1>11. Min(Q) \in Q /\ Min(Q) \in Nat /\ \A x \in Q : Min(Q) <= x
  <2>. HIDE DEF Q
  <2>. QED BY <1>10, MinNat
<1>12. m <= Min(Q)
  BY <1>10, <1>11
<1>13. CASE alpha <= SCALE_UP_FACTOR /\ \E t \in 1 .. T : alpha = q(t)
  <2>1. m = alpha /\ alpha \in Q
    BY <1>6, <1>13 DEF Cap
  <2>2. Min(Q) <= alpha
    BY <1>11, <2>1
  <2>3. alpha = Min(Q)
    <3>. HIDE DEF Q
    <3>. QED BY <1>7, <1>11, <1>12, <2>1, <2>2
  <2>. QED BY <1>1, <1>2, <1>6, <1>9, <2>3
<1>14. CASE alpha = 2 * SCALE_UP_FACTOR
  <2>1. m = 1000
    BY <1>6, <1>14 DEF Cap, SCALE_UP_FACTOR
  <2>2. PICK t \in 1 .. T : D(t) <= t
    BY RtTestIsTimeDemandAnalysis DEF TimeDemandMet
  <2>3. PICK y, k : y = D(t) * SCALE_UP_FACTOR /\ k = 1000
    OBVIOUS
  <2>4. y \in Nat /\ t \in Nat \ {0} /\ k \in Nat /\ y <= k * t
    BY <1>3, <2>2, <2>3 DEF SCALE_UP_FACTOR
  <2>5. y \div t <= k
    BY ONLY <2>4, DivAtLeast
  <2>6. q(t) \in Q /\ q(t) <= 1000
    BY <2>3, <2>5
  <2>7. Min(Q) <= q(t) /\ q(t) \in Nat
    BY <1>10, <1>11, <2>6
  <2>8. Min(Q) = 1000
    <3>. HIDE DEF Q, q
    <3>. QED BY <1>11, <1>12, <2>1, <2>6, <2>7
  <2>9. LeastFrequency(list, pos) = SCALE_UP_FACTOR
    BY <1>9, <2>8 DEF SCALE_UP_FACTOR
  <2>10. ComputeAlpha(list, pos, TRUE).alpha = alpha
    BY <1>1, <1>2, <1>6
  <2>. QED BY <1>14, <2>9, <2>10
<1>15. \/ alpha = 2 * SCALE_UP_FACTOR
       \/ alpha <= SCALE_UP_FACTOR /\ \E t \in 1 .. T : alpha = q(t)
  BY <1>5, <1>6 DEF LeastSoFar
<1>. QED BY <1>13, <1>14, <1>15

-----------------------------------------------------------------------------

-----------------------------------------------------------------------------
(***************************************************************************)
(* The outer loop over the tasks.                                          *)
(***************************************************************************)

\* at is the outer loop of sysclock over the first n tasks.
TraceOf(list, n, at) ==
    at = [pos \in 0 .. n |-> IF pos = 0 THEN [alpha |-> 0, in_bzp |-> TRUE]
                             ELSE ComputeAlpha(list, pos, at[pos - 1].in_bzp)]

\* The outer loop of sysclock has a function.
LEMMA TraceOfExists ==
  ASSUME NEW list, NEW n \in Nat
  PROVE  \E at : TraceOf(list, n, at)
<1>. DEFINE base == [alpha |-> 0, in_bzp |-> TRUE]
            T == {k \in Nat : \E at : TraceOf(list, k, at)}
<1>1. 0 \in T
  <2>. DEFINE at == [pos \in 0 .. 0 |-> base]
  <2>1. \A pos \in 0 .. 0 : pos = 0
    OBVIOUS
  <2>2. TraceOf(list, 0, at)
    <3>. HIDE DEF base
    <3>1. at = [pos \in 0 .. 0 |-> IF pos = 0 THEN base ELSE ComputeAlpha(list, pos, at[pos - 1].in_bzp)]
      BY <2>1
    <3>. QED BY <3>1 DEF TraceOf, base
  <2>. QED BY <2>2
<1>2. ASSUME NEW k \in Nat, k \in T PROVE k + 1 \in T
  <2>1. PICK g : TraceOf(list, k, g)
    BY <1>2
  <2>2. \A pos \in 0 .. k : g[pos] = IF pos = 0 THEN base ELSE ComputeAlpha(list, pos, g[pos - 1].in_bzp)
    BY <2>1 DEF TraceOf
  <2>. DEFINE at == [pos \in 0 .. k + 1 |-> IF pos <= k THEN g[pos] ELSE ComputeAlpha(list, pos, g[k].in_bzp)]
  <2>3. ASSUME NEW pos \in 0 .. k + 1
        PROVE  at[pos] = IF pos = 0 THEN base ELSE ComputeAlpha(list, pos, at[pos - 1].in_bzp)
    <3>. HIDE DEF base
    <3>1. CASE pos = 0
      <4>1. 0 \in 0 .. k /\ 0 \in 0 .. k + 1 /\ 0 <= k
        OBVIOUS
      <4>. QED BY <2>2, <3>1, <4>1
    <3>2. CASE pos # 0 /\ pos <= k
      <4>1. pos \in 0 .. k /\ pos - 1 \in 0 .. k + 1 /\ pos - 1 <= k
        BY <3>2
      <4>2. at[pos] = g[pos] /\ at[pos - 1] = g[pos - 1]
        BY <3>2, <4>1
      <4>. QED BY <2>2, <3>2, <4>1, <4>2
    <3>3. CASE pos # 0 /\ ~(pos <= k)
      <4>1. pos = k + 1 /\ pos - 1 = k /\ k \in 0 .. k + 1 /\ k <= k
        BY <3>3
      <4>2. at[pos] = ComputeAlpha(list, pos, g[k].in_bzp) /\ at[k] = g[k]
        BY <3>3, <4>1
      <4>. QED BY <3>3, <4>1, <4>2
    <3>. QED BY <3>1, <3>2, <3>3
  <2>4. at = [pos \in 0 .. k + 1 |-> at[pos]]
    OBVIOUS
  <2>5. TraceOf(list, k + 1, at)
    <3>. HIDE DEF at, base
    <3>1. at = [pos \in 0 .. k + 1 |-> IF pos = 0 THEN base
                                        ELSE ComputeAlpha(list, pos, at[pos - 1].in_bzp)]
      BY <2>3, <2>4
    <3>. QED BY <3>1 DEF TraceOf, base
  <2>6. k + 1 \in Nat
    OBVIOUS
  <2>. HIDE DEF at
  <2>. QED BY <2>5, <2>6
<1>3. Nat \subseteq T
  <2>. HIDE DEF T
  <2>. QED BY <1>1, <1>2, SetInduction
<1>. QED BY <1>3

\* Each task's trace starts with the flag that the one before it left.
LEMMA AlphaTraceFacts ==
  ASSUME NEW list \in TaskList, PositiveBudgets(list)
  PROVE  LET at == AlphaTrace(list)
         IN  /\ at[0].in_bzp = TRUE
             /\ \A pos \in 1 .. Len(list) :
                  /\ at[pos] = ComputeAlpha(list, pos, at[pos - 1].in_bzp)
                  /\ at[pos - 1].in_bzp \in BOOLEAN /\ at[pos].alpha \in Nat
<1>. DEFINE n == Len(list)
            base == [alpha |-> 0, in_bzp |-> TRUE]
<1>1. n \in Nat
  BY TaskListFacts
<1>2. PICK at : at = AlphaTrace(list)
  OBVIOUS
<1>3. at = CHOOSE f : TraceOf(list, n, f)
  BY <1>2 DEF AlphaTrace, TraceOf
<1>4. TraceOf(list, n, at)
  <2>1. \E f : TraceOf(list, n, f)
    BY <1>1, TraceOfExists
  <2>. QED BY <1>3, <2>1
<1>5. \A pos \in 0 .. n : at[pos] = IF pos = 0 THEN base ELSE ComputeAlpha(list, pos, at[pos - 1].in_bzp)
  BY <1>4 DEF TraceOf
<1>6. at[0].in_bzp = TRUE
  BY <1>1, <1>5
<1>7. \A pos \in 1 .. n : at[pos] = ComputeAlpha(list, pos, at[pos - 1].in_bzp)
  <2>1. \A pos \in 1 .. n : pos \in 0 .. n /\ pos # 0
    BY <1>1
  <2>. HIDE DEF base
  <2>. QED BY <1>5, <2>1
<1>8. ASSUME NEW pos \in 1 .. n, at[pos - 1].in_bzp \in BOOLEAN
      PROVE  at[pos].in_bzp \in BOOLEAN /\ at[pos].alpha \in Nat
  <2>1. PICK b : b = at[pos - 1].in_bzp
    OBVIOUS
  <2>2. ComputeAlpha(list, pos, b) \in AlphaState
    BY <1>8, <2>1, SysclockTraceEnds
  <2>3. at[pos] \in AlphaState
    BY <1>7, <2>1, <2>2
  <2>. QED BY <2>3 DEF AlphaState
<1>. DEFINE T == {k \in Nat : k < n => at[k].in_bzp \in BOOLEAN}
<1>9. 0 \in T
  BY <1>6
<1>10. ASSUME NEW k \in Nat, k \in T PROVE k + 1 \in T
  <2>1. SUFFICES ASSUME k + 1 < n PROVE at[k + 1].in_bzp \in BOOLEAN
    OBVIOUS
  <2>2. k + 1 \in 1 .. n /\ (k + 1) - 1 = k /\ k < n
    BY <1>1, <2>1
  <2>. QED BY <1>8, <1>10, <2>2
<1>11. Nat \subseteq T
  <2>. HIDE DEF T
  <2>. QED BY <1>9, <1>10, SetInduction
<1>12. \A pos \in 1 .. n : at[pos - 1].in_bzp \in BOOLEAN
  <2>1. \A pos \in 1 .. n : pos - 1 \in Nat /\ pos - 1 < n
    BY <1>1
  <2>. QED BY <1>11, <2>1
<1>. QED BY <1>2, <1>6, <1>7, <1>8, <1>12

\* The alphas sysclock stores in an admitted list: each is the least frequency of its
\* task where the task before it left in_bzp set.
THEOREM AlphasAreLeast ==
  ASSUME NEW list \in TaskList, PositiveBudgets(list), __check_admission(list),
         NEW pos \in 1 .. Len(list), AlphaTrace(list)[pos - 1].in_bzp
  PROVE  LET alpha == Alphas(list)[pos]
             least == LeastFrequency(list, pos)
         IN  alpha = least \/ (alpha = 2 * SCALE_UP_FACTOR /\ least = SCALE_UP_FACTOR)
<1>1. rt_test(list, pos)
  BY DEF __check_admission
<1>2. PICK at : at = AlphaTrace(list)
  OBVIOUS
<1>3. at[pos] = ComputeAlpha(list, pos, at[pos - 1].in_bzp) /\ at[pos - 1].in_bzp \in BOOLEAN
  BY <1>2, AlphaTraceFacts
<1>4. at[pos - 1].in_bzp = TRUE
  BY <1>2, <1>3
<1>5. Alphas(list)[pos] = ComputeAlpha(list, pos, TRUE).alpha
  <2>1. pos \in DOMAIN list
    BY DEF TaskList
  <2>2. Alphas(list)[pos] = at[pos].alpha
    BY <1>2, <2>1 DEF Alphas
  <2>. QED BY <1>3, <1>4, <2>2
<1>. QED BY <1>1, <1>5, SysclockAlphaIsLeast

\* Finitely many numbers have a bound.
LEMMA BoundExists ==
  ASSUME NEW n \in Nat, NEW g, \A i \in 1 .. n : g[i] \in Nat
  PROVE  \E b \in Nat : \A i \in 1 .. n : g[i] <= b
<1>. DEFINE T == {k \in Nat : k <= n => \E b \in Nat : \A i \in 1 .. k : g[i] <= b}
<1>1. 0 \in T
  <2>1. \A i \in 1 .. 0 : g[i] <= 0
    OBVIOUS
  <2>. QED BY <2>1
<1>2. ASSUME NEW k \in Nat, k \in T PROVE k + 1 \in T
  <2>1. SUFFICES ASSUME k + 1 <= n PROVE \E b \in Nat : \A i \in 1 .. k + 1 : g[i] <= b
    OBVIOUS
  <2>2. PICK b \in Nat : \A i \in 1 .. k : g[i] <= b
    BY <1>2, <2>1
  <2>3. PICK x : x = g[k + 1]
    OBVIOUS
  <2>4. x \in Nat
    BY <2>1, <2>3
  <2>5. \A i \in 1 .. k + 1 : g[i] <= b + x
    <3>. TAKE i \in 1 .. k + 1
    <3>1. g[i] \in Nat
      BY <2>1
    <3>2. CASE i = k + 1
      BY <2>3, <2>4, <3>2
    <3>3. CASE i # k + 1
      <4>1. i \in 1 .. k
        BY <3>3
      <4>. QED BY <2>2, <2>4, <3>1, <4>1
    <3>. QED BY <3>2, <3>3
  <2>6. b + x \in Nat
    BY <2>4
  <2>. QED BY <2>5, <2>6
<1>3. Nat \subseteq T
  <2>. HIDE DEF T
  <2>. QED BY <1>1, <1>2, SetInduction
<1>4. n \in T
  BY <1>3
<1>. QED BY <1>4

\* The frequency sysclock returns for an admitted list is enough for every task if
\* every task starts with in_bzp set.  That it is not always enough, which the run
\* sysclock_min shows, is due to the assignment in_bzp = 1 that the code makes once
\* before the loop over the tasks instead of for each of them.
THEOREM SysclockSufficesIfReset ==
  ASSUME NEW list \in TaskList, PositiveBudgets(list), __check_admission(list),
         \A pos \in 1 .. Len(list) : AlphaTrace(list)[pos - 1].in_bzp
  PROVE  \A pos \in 1 .. Len(list) : LeastFrequency(list, pos) <= sysclock(list)
<1>. DEFINE n == Len(list)
            A == {0} \cup Range(Alphas(list))
<1>1. n \in Nat /\ DOMAIN list = 1 .. n
  BY TaskListFacts DEF TaskList
<1>2. ASSUME NEW pos \in 1 .. n PROVE Alphas(list)[pos] \in Nat
  <2>1. AlphaTrace(list)[pos].alpha \in Nat
    BY AlphaTraceFacts
  <2>. QED BY <1>1, <2>1 DEF Alphas
<1>3. Range(Alphas(list)) = {Alphas(list)[pos] : pos \in 1 .. n}
  BY <1>1 DEF Range, Alphas
<1>4. PICK m \in A : \A a \in A : a <= m
  <2>1. PICK b \in Nat : \A pos \in 1 .. n : Alphas(list)[pos] <= b
    BY <1>1, <1>2, BoundExists
  <2>2. A \in SUBSET Nat /\ A # {} /\ \A a \in A : a <= b
    BY <1>2, <1>3, <2>1
  <2>. HIDE DEF A
  <2>. QED BY ONLY <2>2, b \in Nat, NatGreatest
<1>5. A \in SUBSET Nat
  BY <1>2, <1>3
<1>6. sysclock(list) \in A /\ \A a \in A : sysclock(list) >= a
  <2>1. sysclock(list) = Max(A)
    BY DEF sysclock
  <2>. HIDE DEF A
  <2>2. \A a \in A : m >= a
    BY <1>4, <1>5
  <2>3. Max(A) \in A /\ \A a \in A : Max(A) >= a
    BY <2>2 DEF Max
  <2>. QED BY <2>1, <2>3
<1>7. ASSUME NEW pos \in 1 .. n PROVE LeastFrequency(list, pos) <= sysclock(list)
  <2>1. PICK alpha, least : alpha = Alphas(list)[pos] /\ least = LeastFrequency(list, pos)
    OBVIOUS
  <2>2. alpha = least \/ (alpha = 2 * SCALE_UP_FACTOR /\ least = SCALE_UP_FACTOR)
    BY <2>1, AlphasAreLeast
  <2>3. alpha \in A /\ alpha \in Nat
    BY <1>2, <1>3, <2>1
  <2>4. least <= alpha
    BY <2>2, <2>3 DEF SCALE_UP_FACTOR
  <2>5. least \in Nat
    BY <2>2, <2>3 DEF SCALE_UP_FACTOR
  <2>6. sysclock(list) \in Nat /\ sysclock(list) >= alpha
    BY <1>5, <1>6, <2>3
  <2>7. least <= sysclock(list)
    BY <2>3, <2>4, <2>5, <2>6
  <2>. QED BY <2>1, <2>7
<1>. QED BY <1>7

-----------------------------------------------------------------------------

-----------------------------------------------------------------------------
(***************************************************************************)
(* The widths of the numbers.                                              *)
(***************************************************************************)

\* The numbers of a turn of sysclock's loops stay below a bound that depends on the
\* number of tasks and the period alone: (pos + 1) * 2 * T and 1000 * T.  The code's
\* unsigned long has 32 bits, so nothing wraps around for periods below 4.29 seconds
\* and up to 499 tasks.
THEOREM AlphaTurnFits ==
  ASSUME NEW list \in TaskList, PositiveBudgets(list), ByPeriod(list),
         \A i \in 1 .. Len(list) : list[i].budget <= list[i].period,
         NEW pos \in 1 .. Len(list), NEW s \in AlphaState, s.C < list[pos].period,
         NEW widest \in Nat, (pos + 1) * (2 * list[pos].period) <= widest,
         list[pos].period * SCALE_UP_FACTOR <= widest
  PROVE  LET u == AlphaTurn(list, pos, s)
         IN  /\ u.C \in 0 .. widest /\ u.slack \in 0 .. widest
             /\ \A j \in 1 .. pos : ceiling(s.C, list[j].period) * list[j].period \in 0 .. widest
             /\ ~s.in_bzp => (u.C - u.slack) * SCALE_UP_FACTOR \in 0 .. widest
<1>1. PICK T, D, u : T = list[pos].period /\ D = 2 * T /\ u = AlphaTurn(list, pos, s)
  OBVIOUS
<1>2. PICK c, y : c = s.C /\ y = s.slack
  OBVIOUS
<1>3. /\ T \in Nat /\ D \in Nat /\ c \in Nat /\ c < T /\ y \in Nat /\ y <= c
      /\ pos \in Nat /\ pos >= 1 /\ pos \in 0 .. Len(list)
      /\ (pos + 1) * D <= widest /\ T * 1000 <= widest
  <2>1. T \in Nat /\ Len(list) \in Nat
    BY <1>1, TaskListFacts
  <2>2. D \in Nat
    BY ONLY <1>1, <2>1
  <2>3. s.C \in Nat /\ s.slack \in Nat /\ s.slack <= s.C
    BY DEF AlphaState
  <2>. QED BY <1>1, <1>2, <2>1, <2>2, <2>3 DEF SCALE_UP_FACTOR
<1>4. (pos + 1) * D = pos * D + D /\ pos * D \in Nat /\ D <= pos * D
  <2>1. (pos + 1) * D = pos * D + D /\ pos * D \in Nat
    BY ONLY <1>3
  <2>2. 1 * D <= pos * D
    BY ONLY <1>3, 1 \in Int, pos \in Int, TimesMonotone
  <2>3. 1 * D = D
    BY ONLY <1>3
  <2>. QED BY ONLY <2>1, <2>2, <2>3
<1>5. PICK P : P = pos * D
  OBVIOUS
<1>6. P \in Nat /\ P + D <= widest /\ D <= P /\ D = 2 * T
  BY ONLY <1>1, <1>3, <1>4, <1>5
<1>7. \A i \in 1 .. pos : /\ list[i].budget <= list[i].period /\ list[i].period <= T
                           /\ list[i].period \in Nat \ {0}
  <2>1. \A i \in 1 .. pos : i \in 1 .. Len(list) /\ i <= pos
    BY <1>3
  <2>. QED BY <1>1, <2>1, TaskListFacts DEF ByPeriod
<1>8. ASSUME NEW j \in 1 .. pos PROVE ceiling(c, list[j].period) * list[j].period \in 0 .. widest
  <2>1. PICK p, q, x : p = list[j].period /\ q = ceiling(c, p) /\ x = q * p
    OBVIOUS
  <2>2. p \in Nat \ {0} /\ p <= T
    BY <1>7, <2>1
  <2>3. q \in Nat /\ (c > 0 => (q - 1) * p < c)
    <3>1. ceiling(c, p) \in Nat /\ (c > 0 => (ceiling(c, p) - 1) * p < c)
      BY ONLY <1>3, <2>2, CeilingBounds
    <3>. QED BY ONLY <2>1, <3>1
  <2>4. c > 0
    BY <1>2 DEF AlphaState
  <2>5. x \in Nat /\ (q - 1) * p = x - p
    BY ONLY <2>1, <2>2, <2>3
  <2>6. x \in 0 .. widest
    <3>1. x - p < c
      BY ONLY <2>3, <2>4, <2>5
    <3>. QED BY ONLY <1>3, <1>6, <2>2, <2>5, <3>1, widest \in Nat
  <2>. QED BY ONLY <2>1, <2>6
<1>9. CASE s.in_bzp
  <2>1. PICK w : w = WorkReleased(list, pos, c)
    OBVIOUS
  <2>2. w \in Nat /\ w <= P
    <3>1. PICK a : a = c + 1
      OBVIOUS
    <3>2. a \in 0 .. T /\ pos \in 0 .. pos
      BY ONLY <1>3, <3>1
    <3>3. w = SumFunctionOnSet(Released(list, a), 1 .. pos)
      BY <1>3, <2>1, <3>1, WorkIsReleased
    <3>4. \A i \in 1 .. pos : list[i].budget <= list[i].period /\ list[i].period <= T
      BY <1>7
    <3>5. /\ SumFunctionOnSet(Released(list, a), 1 .. pos) \in Nat
          /\ SumFunctionOnSet(Released(list, a), 1 .. pos) <= pos * (2 * T)
      BY ONLY <1>3, <3>2, <3>4, list \in TaskList, ReleasedSumBound
    <3>. QED BY ONLY <1>1, <1>5, <3>3, <3>5
  <2>3. u.C = y + w /\ u.slack = y
    <3>1. s \in [C : Nat \ {0}, slack : Nat, alpha : Nat, in_bzp : BOOLEAN]
      BY DEF AlphaState
    <3>2. PICK n, b : /\ n = s.slack + WorkReleased(list, pos, s.C)
                      /\ b = (n # s.C /\ n < list[pos].period)
      OBVIOUS
    <3>3. u = [s EXCEPT !.C = n, !.in_bzp = b]
      BY <1>1, <1>9, <3>2 DEF AlphaTurn
    <3>4. u.C = n /\ u.slack = s.slack
      BY ONLY <3>1, <3>3
    <3>. QED BY <1>2, <2>1, <3>2, <3>4
  <2>4. y + w \in 0 .. widest /\ y \in 0 .. widest
    BY ONLY <1>3, <1>6, <2>2, widest \in Nat
  <2>. QED BY <1>1, <1>2, <1>8, <1>9, <2>3, <2>4
<1>10. CASE ~s.in_bzp
  <2>1. PICK d : d = idle_duration(list, pos, s.C)
    OBVIOUS
  <2>2. d \in Nat /\ c + d <= T
    BY <1>1, <1>2, <1>3, <2>1, IdleFacts
  <2>3. u.C = c + d /\ u.slack = y + d
    BY <1>1, <1>2, <1>10, <2>1, IdleTurnFacts
  <2>4. c + d \in 0 .. widest /\ y + d \in 0 .. widest
    BY ONLY <1>3, <1>6, <2>2, widest \in Nat
  <2>5. (u.C - u.slack) * SCALE_UP_FACTOR \in 0 .. widest
    <3>1. PICK v : v = (c + d) - (y + d)
      OBVIOUS
    <3>2. v \in Nat /\ v <= T
      BY ONLY <1>3, <2>2, <3>1
    <3>3. v * 1000 \in 0 .. widest
      BY ONLY <1>3, <3>2, widest \in Nat
    <3>. QED BY <2>3, <3>1, <3>3 DEF SCALE_UP_FACTOR
  <2>. QED BY <1>1, <1>2, <1>8, <2>3, <2>4, <2>5
<1>. QED BY <1>9, <1>10
=============================================================================
