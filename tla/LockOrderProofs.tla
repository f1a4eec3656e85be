--------------------------- MODULE LockOrderProofs ---------------------------
(***************************************************************************)
(* Every deadlock needs a __schedule that waits with its run queue locked, *)
(* whatever the CPUs, tasks and run queues.  A program is in order if each *)
(* of its steps can be annotated with the locks its CPU holds and the      *)
(* callback it is in, so that locks are taken by level; the exceptions are *)
(* __schedule's.  The programs are in order, so is what is left of one,    *)
(* and CPUs that wait for each other without an exception would wait at    *)
(* ever higher levels.                                                     *)
(***************************************************************************)
EXTENDS LockOrder, SumProofs, SequenceTheorems

\* What a program is made of.
Steps == {Lock(l) : l \in Locks} \cup {Unlock(l) : l \in Locks}
           \cup {Cancel(timer) : timer \in Timers} \cup {End(timer) : timer \in Timers}

\* The locks a CPU holds and the callbacks it is in the middle of.  A lock may be written
\* to be taken again by its holder, who never gets past that step.
Doubly(held, again, running) == [held |-> held, again |-> again, running |-> running]
At(held, running) == Doubly(held, {}, running)
Idle == At({}, {})
Where == [held : SUBSET Locks, again : SUBSET Locks, running : SUBSET Timers]

\* The order the locks are taken in.  Level 1 is hrtimer_cancel, which waits for a
\* callback.
Level(l) == IF l.class = "tasklist_lock" THEN 0
            ELSE IF l.class = "task_spin_lock" THEN 2
            ELSE IF l.class = "siglock" THEN 3
            ELSE IF l.class = "pi_lock" THEN 4 ELSE 5
Levels == {0, 1, 2, 3, 4, 5}

\* c, with what it holds at x, may wait at level n: it holds lower levels only, or it is
\* __schedule with its run queue, at a task_spin_lock or in log_data_point with one; if
\* it holds a task_spin_lock while it waits it is __schedule or in the period callback
\* of that task; and no callback waits for tasklist_lock or for a callback.
Ordered(c, n, x) ==
    /\ rq_lock(c) \notin x.held => \A m \in x.held : Level(m) < n
    /\ rq_lock(c) \in x.held => n = 2 \/ \E t \in Task : task_spin_lock(t) \in x.held
    /\ \A t \in Task : task_spin_lock(t) \in x.held =>
         x.running = {period_timer(t)} \/ rq_lock(c) \in x.held
    /\ x.running # {} => n >= 2

\* The kinds of steps, from x to y.
Takes(c, step, x, y) ==
    \E l \in Locks : /\ step = Lock(l) /\ l \notin x.held /\ Ordered(c, Level(l), x)
                     /\ y = At(x.held \cup {l}, x.running)
Retakes(c, step, x, y) ==
    \E l \in x.held : /\ step = Lock(l) /\ Ordered(c, Level(l), x)
                      /\ y = Doubly(x.held, {l}, x.running)
Releases(step, x, y) ==
    \E l \in x.held : /\ step = Unlock(l) /\ x.again = {}
                      /\ y = At(x.held \ {l}, x.running)
Unretakes(step, x, y) ==
    \E l \in Locks : step = Unlock(l) /\ x.again = {l} /\ y = At(x.held, x.running)
Awaits(c, step, x, y) ==
    \E timer \in Timers : step = Cancel(timer) /\ Ordered(c, 1, x) /\ y = x
Returns(step, x, y) ==
    \E timer \in Timers : step = End(timer) /\ x.running = {timer} /\ y = At(x.held, {})

Good(c, step, x, y) ==
    \/ Takes(c, step, x, y) \/ Retakes(c, step, x, y)
    \/ Releases(step, x, y) \/ Unretakes(step, x, y)
    \/ Awaits(c, step, x, y) \/ Returns(step, x, y)

\* X annotates the program s from x to y.
Witness(c, s, x, y, X) ==
    /\ X \in [1 .. Len(s) + 1 -> Where]
    /\ X[1] = x /\ X[Len(s) + 1] = y
    /\ \A i \in 1 .. Len(s) : Good(c, s[i], X[i], X[i + 1])

\* The program s takes c from x to y in the order of the levels.
Traced(c, s, x, y) == s \in Seq(Steps) /\ \E X : Witness(c, s, x, y, X)

\* The empty program leads from x to x and nowhere else.
LEMMA TracedEmpty ==
  ASSUME NEW c, NEW x \in Where
  PROVE  Traced(c, <<>>, x, x) /\ \A y : Traced(c, <<>>, x, y) => y = x
<1>1. <<>> \in Seq(Steps) /\ Len(<<>>) = 0
  OBVIOUS
<1>. DEFINE X == [i \in 1 .. 1 |-> x]
<1>2. X \in [1 .. 0 + 1 -> Where] /\ X[1] = x /\ X[0 + 1] = x
  OBVIOUS
<1>. HIDE DEF X
<1>3. Witness(c, <<>>, x, x, X)
  BY <1>1, <1>2 DEF Witness
<1>4. ASSUME NEW y, Traced(c, <<>>, x, y) PROVE y = x
  <2>1. PICK Y : Witness(c, <<>>, x, y, Y)
    BY <1>4 DEF Traced
  <2>2. Y[1] = x /\ Y[0 + 1] = y
    BY <1>1, <2>1 DEF Witness
  <2>. QED BY <2>2
<1>. QED BY <1>1, <1>3, <1>4 DEF Traced

\* A good step is a program in order.
LEMMA TracedOne ==
  ASSUME NEW c, NEW step \in Steps, NEW x \in Where, NEW y \in Where, Good(c, step, x, y)
  PROVE  Traced(c, <<step>>, x, y)
<1>1. <<step>> \in Seq(Steps) /\ Len(<<step>>) = 1 /\ <<step>>[1] = step
  OBVIOUS
<1>. DEFINE X == [i \in 1 .. 1 + 1 |-> IF i = 1 THEN x ELSE y]
<1>2. X \in [1 .. 1 + 1 -> Where] /\ X[1] = x /\ X[1 + 1] = y
  OBVIOUS
<1>. HIDE DEF X
<1>3. Witness(c, <<step>>, x, y, X)
  BY <1>1, <1>2 DEF Witness
<1>. QED BY <1>1, <1>3 DEF Traced

\* Programs in order, one after the other, are in order.
LEMMA TracedThen ==
  ASSUME NEW c, NEW s, NEW r, NEW x, NEW y, NEW z, Traced(c, s, x, y), Traced(c, r, y, z)
  PROVE  Traced(c, s \o r, x, z)
<1>1. s \in Seq(Steps) /\ r \in Seq(Steps) /\ s \o r \in Seq(Steps)
  BY DEF Traced
<1>. DEFINE n == Len(s)
            m == Len(r)
            q == s \o r
<1>2. /\ n \in Nat /\ m \in Nat /\ Len(q) = n + m
      /\ \A i \in 1 .. n : q[i] = s[i]
      /\ \A i \in 1 .. m : q[n + i] = r[i]
  BY <1>1
<1>3. PICK X : Witness(c, s, x, y, X)
  BY DEF Traced
<1>4. PICK Y : Witness(c, r, y, z, Y)
  BY DEF Traced
<1>5. /\ X \in [1 .. n + 1 -> Where] /\ X[1] = x /\ X[n + 1] = y
      /\ \A i \in 1 .. n : Good(c, s[i], X[i], X[i + 1])
  BY <1>3 DEF Witness
<1>6. /\ Y \in [1 .. m + 1 -> Where] /\ Y[1] = y /\ Y[m + 1] = z
      /\ \A i \in 1 .. m : Good(c, r[i], Y[i], Y[i + 1])
  BY <1>4 DEF Witness
<1>. HIDE DEF n, m, q
<1>. DEFINE Z == [i \in 1 .. (n + m) + 1 |-> IF i <= n THEN X[i] ELSE Y[i - n]]
<1>7. Z \in [1 .. (n + m) + 1 -> Where]
  <2>. SUFFICES ASSUME NEW i \in 1 .. (n + m) + 1
                PROVE  (IF i <= n THEN X[i] ELSE Y[i - n]) \in Where
    OBVIOUS
  <2>1. i <= n => i \in 1 .. n + 1
    BY <1>2
  <2>2. ~(i <= n) => i - n \in 1 .. m + 1
    BY <1>2
  <2>. QED BY <1>5, <1>6, <2>1, <2>2
<1>8. \A i \in 1 .. (n + m) + 1 : Z[i] = IF i <= n THEN X[i] ELSE Y[i - n]
  OBVIOUS
<1>9. \A i \in 1 .. n + 1 : Z[i] = X[i]
  <2>. SUFFICES ASSUME NEW i \in 1 .. n + 1 PROVE Z[i] = X[i]
    OBVIOUS
  <2>. HIDE DEF Z
  <2>1. CASE i <= n
    <3>1. i \in 1 .. (n + m) + 1
      BY <1>2, <2>1
    <3>. QED BY <1>8, <2>1, <3>1
  <2>2. CASE ~(i <= n)
    <3>1. i = n + 1 /\ i \in 1 .. (n + m) + 1 /\ i - n = 1
      BY <1>2, <2>2
    <3>. QED BY <1>5, <1>6, <1>8, <2>2, <3>1
  <2>. QED BY <2>1, <2>2
<1>. HIDE DEF Z
<1>10. \A i \in 1 .. m + 1 : Z[n + i] = Y[i]
  <2>. SUFFICES ASSUME NEW i \in 1 .. m + 1 PROVE Z[n + i] = Y[i]
    OBVIOUS
  <2>1. n + i \in 1 .. (n + m) + 1 /\ ~(n + i <= n) /\ (n + i) - n = i
    BY <1>2
  <2>. QED BY <1>8, <2>1
<1>11. ASSUME NEW i \in 1 .. n + m PROVE Good(c, q[i], Z[i], Z[i + 1])
  <2>1. CASE i <= n
    <3>1. i \in 1 .. n /\ i \in 1 .. n + 1 /\ i + 1 \in 1 .. n + 1
      BY <1>2, <2>1
    <3>2. q[i] = s[i] /\ Z[i] = X[i] /\ Z[i + 1] = X[i + 1] /\ Good(c, s[i], X[i], X[i + 1])
      BY <1>2, <1>5, <1>9, <3>1
    <3>. QED BY <3>2, Zenon
  <2>2. CASE ~(i <= n)
    <3>. DEFINE j == i - n
    <3>1. j \in 1 .. m /\ j \in 1 .. m + 1 /\ j + 1 \in 1 .. m + 1 /\ n + j = i /\ n + (j + 1) = i + 1
      BY <1>2, <2>2
    <3>. HIDE DEF j
    <3>2. q[n + j] = r[j] /\ Z[n + j] = Y[j] /\ Z[n + (j + 1)] = Y[j + 1] /\ Good(c, r[j], Y[j], Y[j + 1])
      BY <1>2, <1>6, <1>10, <3>1
    <3>. QED BY <3>1, <3>2, Zenon
  <2>. QED BY <2>1, <2>2
<1>12. Z[1] = x /\ Z[(n + m) + 1] = z
  <2>1. 1 \in 1 .. n + 1 /\ m + 1 \in 1 .. m + 1 /\ n + (m + 1) = (n + m) + 1
    BY <1>2
  <2>. QED BY <1>5, <1>6, <1>9, <1>10, <2>1
<1>13. Witness(c, q, x, z, Z)
  BY <1>2, <1>7, <1>11, <1>12 DEF Witness
<1>. QED BY <1>1, <1>13 DEF Traced, q

\* What is left of a program in order is in order, from where its first step leads.
LEMMA TracedTail ==
  ASSUME NEW c, NEW s, NEW x, NEW y, Traced(c, s, x, y), s # <<>>
  PROVE  \E z \in Where : Good(c, Head(s), x, z) /\ Traced(c, Tail(s), z, y)
<1>. DEFINE n == Len(s)
            r == Tail(s)
<1>1. /\ s \in Seq(Steps) /\ n \in Nat /\ n >= 1 /\ r \in Seq(Steps) /\ Len(r) = n - 1
      /\ Head(s) = s[1] /\ \A i \in 1 .. n - 1 : r[i] = s[i + 1]
  BY DEF Traced
<1>2. PICK X : Witness(c, s, x, y, X)
  BY DEF Traced
<1>3. /\ X \in [1 .. n + 1 -> Where] /\ X[1] = x /\ X[n + 1] = y
      /\ \A i \in 1 .. n : Good(c, s[i], X[i], X[i + 1])
  BY <1>2 DEF Witness
<1>. HIDE DEF n, r
<1>. DEFINE z == X[2]
            Z == [i \in 1 .. n |-> X[i + 1]]
<1>4. z \in Where /\ Good(c, Head(s), x, z)
  <2>1. 1 \in 1 .. n /\ 1 + 1 = 2 /\ 2 \in 1 .. n + 1
    BY <1>1
  <2>. QED BY <1>1, <1>3, <2>1
<1>5. Z \in [1 .. n -> Where]
  <2>1. \A i \in 1 .. n : i + 1 \in 1 .. n + 1
    BY <1>1
  <2>. QED BY <1>3, <2>1
<1>6. \A i \in 1 .. n : Z[i] = X[i + 1]
  OBVIOUS
<1>7. 1 \in 1 .. n /\ n \in 1 .. n /\ (n - 1) + 1 = n /\ 1 + 1 = 2
  BY <1>1
<1>8. Z[1] = z /\ Z[n] = y
  BY <1>3, <1>6, <1>7
<1>. HIDE DEF Z, z
<1>9. ASSUME NEW i \in 1 .. n - 1 PROVE Good(c, r[i], Z[i], Z[i + 1])
  <2>1. i \in 1 .. n /\ i + 1 \in 1 .. n
    BY <1>1
  <2>2. r[i] = s[i + 1] /\ Z[i] = X[i + 1] /\ Z[i + 1] = X[(i + 1) + 1]
    BY <1>1, <1>6, <2>1
  <2>3. Good(c, s[i + 1], X[i + 1], X[(i + 1) + 1])
    BY <1>3, <2>1
  <2>. QED BY <2>2, <2>3, Zenon
<1>10. Witness(c, r, z, y, Z)
  BY <1>1, <1>5, <1>7, <1>8, <1>9 DEF Witness
<1>11. Traced(c, r, z, y)
  BY <1>1, <1>10 DEF Traced
<1>. QED BY <1>4, <1>11 DEF r

\* The callbacks that a program has still to finish.
Ends(s) == {timer \in Timers : \E i \in DOMAIN s : s[i] = End(timer)}

\* Different steps are different.
LEMMA Distinct ==
  /\ \A l, m \in Locks : Lock(l) # Unlock(m) /\ (Lock(l) = Lock(m) => l = m)
                           /\ (Unlock(l) = Unlock(m) => l = m)
  /\ \A l \in Locks, timer \in Timers :
       /\ Lock(l) # Cancel(timer) /\ Lock(l) # End(timer)
       /\ Unlock(l) # Cancel(timer) /\ Unlock(l) # End(timer)
  /\ \A a, b \in Timers : Cancel(a) # End(b) /\ (End(a) = End(b) => a = b)
                            /\ (Cancel(a) = Cancel(b) => a = b)
BY DEF Lock, Unlock, Cancel, End

\* Only the end of its callback changes what a CPU is in the middle of.
Ending(step, x, z) ==
    /\ \A timer \in Timers : step = End(timer) => x.running = {timer} /\ z.running = {}
    /\ (\A timer \in Timers : step # End(timer)) => z.running = x.running

\* A good step ends a callback that runs, or none.
LEMMA GoodStep ==
  ASSUME NEW c, NEW step, NEW x \in Where, NEW z \in Where, Good(c, step, x, z)
  PROVE  Ending(step, x, z)
<1>. USE DEF Ending
<1>1. CASE Takes(c, step, x, z)
  <2>1. PICK l \in Locks : step = Lock(l) /\ z = At(x.held \cup {l}, x.running)
    BY <1>1 DEF Takes
  <2>2. z.running = x.running
    BY <2>1 DEF At, Doubly
  <2>3. \A timer \in Timers : step # End(timer)
    BY <2>1, Distinct
  <2>. QED BY <2>2, <2>3
<1>5. CASE Retakes(c, step, x, z)
  <2>1. PICK l \in x.held : step = Lock(l) /\ z = Doubly(x.held, {l}, x.running)
    BY <1>5 DEF Retakes
  <2>2. z.running = x.running /\ l \in Locks
    BY <2>1 DEF Doubly, Where
  <2>3. \A timer \in Timers : step # End(timer)
    BY <2>1, <2>2, Distinct
  <2>. QED BY <2>2, <2>3
<1>6. CASE Unretakes(step, x, z)
  <2>1. PICK l \in Locks : step = Unlock(l) /\ z = At(x.held, x.running)
    BY <1>6 DEF Unretakes
  <2>2. z.running = x.running
    BY <2>1 DEF At, Doubly
  <2>3. \A timer \in Timers : step # End(timer)
    BY <2>1, Distinct
  <2>. QED BY <2>2, <2>3
<1>2. CASE Releases(step, x, z)
  <2>1. PICK l \in x.held : step = Unlock(l) /\ z = At(x.held \ {l}, x.running)
    BY <1>2 DEF Releases
  <2>2. z.running = x.running /\ l \in Locks
    BY <2>1 DEF At, Doubly, Where
  <2>3. \A timer \in Timers : step # End(timer)
    BY <2>1, <2>2, Distinct
  <2>. QED BY <2>2, <2>3
<1>3. CASE Awaits(c, step, x, z)
  <2>1. PICK timer \in Timers : step = Cancel(timer) /\ z = x
    BY <1>3 DEF Awaits
  <2>3. \A a \in Timers : step # End(a)
    BY <2>1, Distinct
  <2>. QED BY <2>1, <2>3
<1>4. CASE Returns(step, x, z)
  <2>1. PICK timer \in Timers : step = End(timer) /\ x.running = {timer} /\ z = At(x.held, {})
    BY <1>4 DEF Returns
  <2>2. z.running = {}
    BY <2>1 DEF At, Doubly
  <2>3. \A a \in Timers : step = End(a) => a = timer
    BY <2>1, Distinct
  <2>. QED BY <2>1, <2>2, <2>3
<1>. QED BY <1>1, <1>2, <1>3, <1>4, <1>5, <1>6 DEF Good

\* Behind its first step a program finishes the same callbacks but for that step.
LEMMA EndsOfTail ==
  ASSUME NEW s \in Seq(Steps), s # <<>>
  PROVE  Ends(s) = Ends(Tail(s)) \cup {timer \in Timers : Head(s) = End(timer)}
<1>. DEFINE n == Len(s)
            r == Tail(s)
<1>1. /\ n \in Nat /\ n >= 1 /\ Len(r) = n - 1 /\ Head(s) = s[1]
      /\ DOMAIN s = 1 .. n /\ DOMAIN r = 1 .. n - 1 /\ \A i \in 1 .. n - 1 : r[i] = s[i + 1]
  OBVIOUS
<1>. HIDE DEF n, r
<1>2. \A i \in 1 .. n : i = 1 \/ (i - 1 \in 1 .. n - 1 /\ (i - 1) + 1 = i)
  BY <1>1
<1>3. 1 \in 1 .. n /\ \A i \in 1 .. n - 1 : i + 1 \in 1 .. n
  BY <1>1
<1>4. ASSUME NEW timer \in Ends(s) PROVE timer \in Ends(r) \/ Head(s) = End(timer)
  <2>1. PICK i \in 1 .. n : s[i] = End(timer)
    BY <1>1, <1>4 DEF Ends
  <2>2. CASE i = 1
    BY <1>1, <2>1, <2>2
  <2>3. CASE i - 1 \in 1 .. n - 1 /\ (i - 1) + 1 = i
    <3>1. r[i - 1] = End(timer)
      BY <1>1, <2>1, <2>3
    <3>. QED BY <1>1, <1>4, <2>3, <3>1 DEF Ends
  <2>. QED BY <1>2, <2>2, <2>3
<1>5. ASSUME NEW timer \in Ends(r) PROVE timer \in Ends(s)
  <2>1. PICK i \in 1 .. n - 1 : r[i] = End(timer)
    BY <1>1, <1>5 DEF Ends
  <2>2. i + 1 \in 1 .. n /\ s[i + 1] = End(timer)
    BY <1>1, <1>3, <2>1
  <2>. QED BY <1>1, <1>5, <2>2 DEF Ends
<1>6. ASSUME NEW timer \in Timers, Head(s) = End(timer) PROVE timer \in Ends(s)
  BY <1>1, <1>3, <1>6 DEF Ends
<1>7. Ends(s) \subseteq Timers
  BY DEF Ends
<1>. QED BY <1>4, <1>5, <1>6, <1>7 DEF r

\* A program in order that ends idle finishes exactly the callbacks that run: by
\* induction on its length.
LEMMA EndsAre ==
  ASSUME NEW c, NEW s, NEW x \in Where, Traced(c, s, x, Idle)
  PROVE  Ends(s) = x.running
<1>. DEFINE T == {n \in Nat : \A r \in Seq(Steps), y \in Where :
                     Len(r) = n /\ Traced(c, r, y, Idle) => Ends(r) = y.running}
<1>1. 0 \in T
  <2>. SUFFICES ASSUME NEW r \in Seq(Steps), NEW y \in Where, Len(r) = 0, Traced(c, r, y, Idle)
                PROVE  Ends(r) = y.running
    OBVIOUS
  <2>1. r = <<>>
    OBVIOUS
  <2>2. Idle = y
    BY <2>1, TracedEmpty
  <2>3. y.running = {}
    BY <2>2 DEF Idle, At, Doubly
  <2>4. Ends(r) = {}
    BY <2>1 DEF Ends
  <2>. QED BY <2>3, <2>4
<1>2. ASSUME NEW n \in Nat, n \in T PROVE n + 1 \in T
  <2>. SUFFICES ASSUME NEW r \in Seq(Steps), NEW y \in Where, Len(r) = n + 1, Traced(c, r, y, Idle)
                PROVE  Ends(r) = y.running
    OBVIOUS
  <2>1. r # <<>> /\ Tail(r) \in Seq(Steps) /\ Len(Tail(r)) = n
    OBVIOUS
  <2>2. PICK z \in Where : Good(c, Head(r), y, z) /\ Traced(c, Tail(r), z, Idle)
    BY <2>1, TracedTail
  <2>3. Ends(Tail(r)) = z.running
    BY <1>2, <2>1, <2>2
  <2>4. Ends(r) = z.running \cup {timer \in Timers : Head(r) = End(timer)}
    BY <2>1, <2>3, EndsOfTail
  <2>5. /\ \A timer \in Timers : Head(r) = End(timer) => y.running = {timer} /\ z.running = {}
        /\ (\A timer \in Timers : Head(r) # End(timer)) => z.running = y.running
    <3>1. Ending(Head(r), y, z)
      BY <2>2, GoodStep
    <3>. QED BY <3>1 DEF Ending
  <2>6. CASE \A timer \in Timers : Head(r) # End(timer)
    BY <2>4, <2>5, <2>6
  <2>7. ASSUME NEW timer \in Timers, Head(r) = End(timer) PROVE Ends(r) = y.running
    <3>1. y.running = {timer} /\ z.running = {}
      BY <2>5, <2>7
    <3>2. \A a \in Timers : Head(r) = End(a) => a = timer
      BY <2>7, Distinct
    <3>. QED BY <2>4, <2>7, <3>1, <3>2
  <2>. QED BY <2>6, <2>7
<1>3. s \in Seq(Steps) /\ Len(s) \in Nat
  BY DEF Traced
<1>4. Len(s) \in T
  <2>. HIDE DEF T
  <2>1. Nat \subseteq T
    BY <1>1, <1>2, SetInduction
  <2>. QED BY <1>3, <2>1
<1>. QED BY <1>3, <1>4

\* The locks and their levels.
LEMMA LockTypes ==
  /\ tasklist_lock \in Locks /\ Level(tasklist_lock) = 0
  /\ \A c \in Cpu : rq_lock(c) \in Locks /\ Level(rq_lock(c)) = 5
  /\ \A t \in Task : /\ task_spin_lock(t) \in Locks /\ Level(task_spin_lock(t)) = 2
                     /\ siglock(t) \in Locks /\ Level(siglock(t)) = 3
                     /\ pi_lock(t) \in Locks /\ Level(pi_lock(t)) = 4
                     /\ budget_timer(t) \in Timers /\ period_timer(t) \in Timers
  /\ \A l \in Locks : /\ Level(l) \in Levels
                      /\ Level(l) = 2 => \E t \in Task : l = task_spin_lock(t)
  /\ \A t, u \in Task : task_spin_lock(t) = task_spin_lock(u) => t = u
<1>1. /\ tasklist_lock \in Locks
      /\ \A c \in Cpu : rq_lock(c) \in Locks
      /\ \A t \in Task : task_spin_lock(t) \in Locks /\ siglock(t) \in Locks /\ pi_lock(t) \in Locks
  BY DEF Locks
<1>2. \A t \in Task : budget_timer(t) \in Timers /\ period_timer(t) \in Timers
  BY DEF Timers
<1>3. /\ Level(tasklist_lock) = 0
      /\ \A c \in Cpu : Level(rq_lock(c)) = 5
      /\ \A t \in Task : /\ Level(task_spin_lock(t)) = 2
                         /\ Level(siglock(t)) = 3 /\ Level(pi_lock(t)) = 4
  BY DEF Level, tasklist_lock, rq_lock, task_spin_lock, siglock, pi_lock
<1>4. \A l \in Locks : \/ \E c \in Cpu : l = rq_lock(c)
                       \/ \E t \in Task : l = task_spin_lock(t)
                       \/ \E t \in Task : l = siglock(t)
                       \/ \E t \in Task : l = pi_lock(t)
                       \/ l = tasklist_lock
  BY DEF Locks
<1>5. ASSUME NEW l \in Locks
      PROVE  Level(l) \in Levels /\ (Level(l) = 2 => \E t \in Task : l = task_spin_lock(t))
  BY <1>3, <1>4 DEF Levels
<1>6. \A t, u \in Task : task_spin_lock(t) = task_spin_lock(u) => t = u
  BY DEF task_spin_lock
<1>. QED BY <1>1, <1>2, <1>3, <1>5, <1>6

\* What is in order under a lock stays so with the lock taken around it.
LEMMA TracedHolding ==
  ASSUME NEW c, NEW l \in Locks, NEW s, NEW A \in SUBSET Locks, NEW R \in SUBSET Timers,
         l \notin A, Ordered(c, Level(l), At(A, R)),
         Traced(c, s, At(A \cup {l}, R), At(A \cup {l}, R))
  PROVE  Traced(c, Holding(l, s), At(A, R), At(A, R))
<1>. DEFINE x == At(A, R)
            y == At(A \cup {l}, R)
<1>1. /\ x \in Where /\ y \in Where /\ x.held = A /\ x.running = R
      /\ y.held = A \cup {l} /\ y.running = R /\ y = At(x.held \cup {l}, x.running)
      /\ x = At(y.held \ {l}, y.running) /\ y.again = {}
  <2>1. (A \cup {l}) \ {l} = A
    OBVIOUS
  <2>. QED BY <2>1 DEF At, Doubly, Where
<1>2. Lock(l) \in Steps /\ Unlock(l) \in Steps
  BY DEF Steps
<1>. HIDE DEF x, y
<1>3. Ordered(c, Level(l), x)
  BY DEF x
<1>4. Good(c, Lock(l), x, y)
  BY <1>1, <1>3 DEF Good, Takes
<1>5. Good(c, Unlock(l), y, x)
  BY <1>1 DEF Good, Releases
<1>6. Traced(c, <<Lock(l)>>, x, y) /\ Traced(c, <<Unlock(l)>>, y, x)
  <2>1. PICK a : a = Lock(l)
    OBVIOUS
  <2>2. PICK b : b = Unlock(l)
    OBVIOUS
  <2>3. Traced(c, <<a>>, x, y)
    <3>1. a \in Steps /\ Good(c, a, x, y)
      BY <1>2, <1>4, <2>1
    <3>. QED BY ONLY <3>1, <1>1, TracedOne
  <2>4. Traced(c, <<b>>, y, x)
    <3>1. b \in Steps /\ Good(c, b, y, x)
      BY <1>2, <1>5, <2>2
    <3>. QED BY ONLY <3>1, <1>1, TracedOne
  <2>. QED BY <2>1, <2>2, <2>3, <2>4
<1>7. Traced(c, s, y, y)
  BY DEF y
<1>8. Traced(c, <<Lock(l)>> \o s, x, y)
  BY ONLY <1>6, <1>7, TracedThen
<1>9. Traced(c, (<<Lock(l)>> \o s) \o <<Unlock(l)>>, x, x)
  BY ONLY <1>6, <1>8, TracedThen
<1>. QED BY <1>9 DEF Holding, x

\* A lock that is written to be taken by its holder.
LEMMA TracedAgain ==
  ASSUME NEW c, NEW l \in Locks, NEW A \in SUBSET Locks, NEW R \in SUBSET Timers,
         l \in A, Ordered(c, Level(l), At(A, R))
  PROVE  Traced(c, Holding(l, <<>>), At(A, R), At(A, R))
<1>. DEFINE x == At(A, R)
            y == Doubly(A, {l}, R)
<1>1. /\ x \in Where /\ y \in Where /\ x.held = A /\ x.running = R
      /\ y.held = A /\ y.running = R /\ y.again = {l}
      /\ y = Doubly(x.held, {l}, x.running) /\ x = At(y.held, y.running)
  BY DEF At, Doubly, Where
<1>2. Lock(l) \in Steps /\ Unlock(l) \in Steps
  BY DEF Steps
<1>. HIDE DEF x, y
<1>3. Ordered(c, Level(l), x)
  BY DEF x
<1>4. Good(c, Lock(l), x, y)
  BY <1>1, <1>3 DEF Good, Retakes
<1>5. Good(c, Unlock(l), y, x)
  BY <1>1 DEF Good, Unretakes
<1>6. Traced(c, <<Lock(l)>>, x, y) /\ Traced(c, <<Unlock(l)>>, y, x)
  <2>1. PICK a : a = Lock(l)
    OBVIOUS
  <2>2. PICK b : b = Unlock(l)
    OBVIOUS
  <2>3. Traced(c, <<a>>, x, y)
    <3>1. a \in Steps /\ Good(c, a, x, y)
      BY <1>2, <1>4, <2>1
    <3>. QED BY ONLY <3>1, <1>1, TracedOne
  <2>4. Traced(c, <<b>>, y, x)
    <3>1. b \in Steps /\ Good(c, b, y, x)
      BY <1>2, <1>5, <2>2
    <3>. QED BY ONLY <3>1, <1>1, TracedOne
  <2>. QED BY <2>1, <2>2, <2>3, <2>4
<1>7. Traced(c, <<>>, y, y)
  BY <1>1, TracedEmpty
<1>8. Traced(c, <<Lock(l)>> \o <<>>, x, y)
  BY ONLY <1>6, <1>7, TracedThen
<1>9. Traced(c, (<<Lock(l)>> \o <<>>) \o <<Unlock(l)>>, x, x)
  BY ONLY <1>6, <1>8, TracedThen
<1>. QED BY <1>9 DEF Holding, x

\* try_to_wake_up and sched_setscheduler: pi_lock, then rq->lock, which __schedule may
\* hold already.
LEMMA TracedWake ==
  ASSUME NEW c \in Cpu, NEW t \in Task, NEW A \in SUBSET Locks, NEW R \in SUBSET Timers,
         Ordered(c, 4, At(A, R)), pi_lock(t) \notin A
  PROVE  /\ Traced(c, sched_setscheduler(t), At(A, R), At(A, R))
         /\ \A sleeps \in BOOLEAN : Traced(c, try_to_wake_up(t, sleeps), At(A, R), At(A, R))
<1>. DEFINE p == pi_lock(t)
            q == rq_lock(Home[t])
            B == A \cup {p}
            C == B \cup {q}
<1>0. Home[t] \in Cpu
  BY HomeAssumption
<1>1. p \in Locks /\ q \in Locks /\ Level(p) = 4 /\ Level(q) = 5 /\ rq_lock(c) # p
  BY <1>0, LockTypes
<1>2. /\ rq_lock(c) \notin A => \A m \in A : Level(m) < 4
      /\ rq_lock(c) \in A => \E u \in Task : task_spin_lock(u) \in A
      /\ R # {} => 4 >= 2
  BY DEF Ordered, At, Doubly
<1>3. \A u \in Task : task_spin_lock(u) \in A => R = {period_timer(u)} \/ rq_lock(c) \in A
  BY DEF Ordered, At, Doubly
<1>4. p \notin A /\ p # q
  BY <1>1
<1>5. \A u \in Task : task_spin_lock(u) # p
  BY <1>1, LockTypes
<1>. HIDE DEF p, q
<1>6. Ordered(c, 5, At(B, R))
  <2>1. rq_lock(c) \notin B => \A m \in B : Level(m) < 5
    BY <1>1, <1>2, LockTypes DEF Levels
  <2>2. \A u \in Task : task_spin_lock(u) \in B => R = {period_timer(u)} \/ rq_lock(c) \in B
    BY <1>3, <1>5
  <2>3. rq_lock(c) \in B => \E u \in Task : task_spin_lock(u) \in B
    BY <1>1, <1>2
  <2>. HIDE DEF B
  <2>. QED BY <2>1, <2>2, <2>3 DEF Ordered, At, Doubly
<1>7. B \in SUBSET Locks /\ C \in SUBSET Locks
  BY <1>1, <1>4
<1>. HIDE DEF B, C
<1>8. At(B, R) \in Where /\ At(C, R) \in Where
  BY <1>7 DEF At, Doubly, Where
<1>9. Traced(c, <<>>, At(B, R), At(B, R)) /\ Traced(c, <<>>, At(C, R), At(C, R))
  BY ONLY <1>8, TracedEmpty
<1>10. Traced(c, Holding(q, <<>>), At(B, R), At(B, R))
  <2>1. Traced(c, <<>>, At(B \cup {q}, R), At(B \cup {q}, R))
    BY <1>9 DEF C
  <2>2. Ordered(c, Level(q), At(B, R))
    BY <1>1, <1>6
  <2>3. CASE q \notin B
    BY ONLY <1>1, <1>7, <2>1, <2>2, <2>3, R \in SUBSET Timers, TracedHolding
  <2>4. CASE q \in B
    BY ONLY <1>1, <1>7, <2>2, <2>4, R \in SUBSET Timers, TracedAgain
  <2>. QED BY <2>3, <2>4
<1>11. \A s : Traced(c, s, At(B, R), At(B, R)) => Traced(c, Holding(p, s), At(A, R), At(A, R))
  <2>. SUFFICES ASSUME NEW s, Traced(c, s, At(B, R), At(B, R))
                PROVE  Traced(c, Holding(p, s), At(A, R), At(A, R))
    OBVIOUS
  <2>1. Traced(c, s, At(A \cup {p}, R), At(A \cup {p}, R))
    BY DEF B
  <2>2. Ordered(c, Level(p), At(A, R))
    BY <1>1
  <2>. QED BY ONLY <1>1, <1>4, <2>1, <2>2, A \in SUBSET Locks, R \in SUBSET Timers, TracedHolding
<1>12. Traced(c, Holding(p, Holding(q, <<>>)), At(A, R), At(A, R))
       /\ Traced(c, Holding(p, <<>>), At(A, R), At(A, R))
  BY <1>9, <1>10, <1>11
<1>. QED BY <1>12 DEF sched_setscheduler, try_to_wake_up, p, q

\* A section under task_spin_lock.
LEMMA TracedSpin ==
  ASSUME NEW c \in Cpu, NEW t \in Task, NEW A \in SUBSET Locks, NEW R \in SUBSET Timers,
         Ordered(c, 2, At(A, R)), task_spin_lock(t) \notin A
  PROVE  \A s : Traced(c, s, At(A \cup {task_spin_lock(t)}, R), At(A \cup {task_spin_lock(t)}, R))
                  => Traced(c, Holding(task_spin_lock(t), s), At(A, R), At(A, R))
<1>. DEFINE l == task_spin_lock(t)
<1>1. l \in Locks /\ Level(l) = 2
  BY LockTypes
<1>2. l \notin A
  OBVIOUS
<1>. HIDE DEF l
<1>3. Ordered(c, Level(l), At(A, R))
  BY <1>1
<1>4. ASSUME NEW s, Traced(c, s, At(A \cup {l}, R), At(A \cup {l}, R))
      PROVE  Traced(c, Holding(l, s), At(A, R), At(A, R))
  BY ONLY <1>1, <1>2, <1>3, <1>4, A \in SUBSET Locks, R \in SUBSET Timers, TracedHolding
<1>. QED BY <1>4 DEF l

\* A section under task_spin_lock that takes no other lock.
LEMMA TracedSpinEmpty ==
  ASSUME NEW c \in Cpu, NEW t \in Task, NEW A \in SUBSET Locks, NEW R \in SUBSET Timers,
         Ordered(c, 2, At(A, R)), task_spin_lock(t) \notin A
  PROVE  Traced(c, Holding(task_spin_lock(t), <<>>), At(A, R), At(A, R))
<1>1. At(A \cup {task_spin_lock(t)}, R) \in Where
  BY LockTypes DEF At, Doubly, Where
<1>2. Traced(c, <<>>, At(A \cup {task_spin_lock(t)}, R), At(A \cup {task_spin_lock(t)}, R))
  BY ONLY <1>1, TracedEmpty
<1>. QED BY <1>2, TracedSpin

\* What __schedule does about a log is in order: by the exception, tasklist_lock and the
\* locks of the user under its own run queue and a task_spin_lock.
LEMMA TracedLogging ==
  ASSUME NEW c \in Cpu, NEW t \in Task, NEW log \in Logging(t)
  PROVE  Traced(c, log, At({rq_lock(c)}, {}), At({rq_lock(c)}, {}))
<1>. DEFINE q == rq_lock(c)
            l == task_spin_lock(t)
            A == {q}
            B == A \cup {l}
            E == B \cup {tasklist_lock}
<1>1. /\ q \in Locks /\ Level(q) = 5 /\ l \in Locks /\ Level(l) = 2
      /\ tasklist_lock \in Locks /\ Level(tasklist_lock) = 0
      /\ \A u \in Task : task_spin_lock(u) # q
  BY LockTypes
<1>. HIDE DEF q, l
<1>2. A \in SUBSET Locks /\ B \in SUBSET Locks /\ E \in SUBSET Locks /\ {} \in SUBSET Timers
  BY <1>1
<1>3. l \notin A /\ tasklist_lock \notin B
  BY <1>1
<1>4. \A n : \A S : q \in S /\ l \in S => Ordered(c, n, At(S, {}))
  BY DEF Ordered, At, Doubly, q, l
<1>5. q \in B /\ l \in B /\ q \in E /\ l \in E
  OBVIOUS
<1>6. Ordered(c, 2, At(A, {}))
  BY <1>1 DEF Ordered, At, Doubly, q
<1>7. At(A, {}) \in Where /\ At(B, {}) \in Where
  BY <1>2 DEF At, Doubly, Where
<1>8. ASSUME NEW user \in Task, NEW sleeps \in BOOLEAN
      PROVE  Traced(c, Holding(tasklist_lock, send_sig_info(user, sleeps)), At(B, {}), At(B, {}))
  <2>. DEFINE g == siglock(user)
              F == E \cup {g}
  <2>1. g \in Locks /\ Level(g) = 3 /\ pi_lock(user) \in Locks /\ Level(pi_lock(user)) = 4
    BY LockTypes
  <2>. HIDE DEF g
  <2>2. F \in SUBSET Locks /\ g \notin E /\ q \in F /\ l \in F /\ pi_lock(user) \notin F
    BY <1>1, <1>2, <1>5, <2>1
  <2>3. Ordered(c, 4, At(F, {})) /\ Ordered(c, Level(g), At(E, {}))
        /\ Ordered(c, Level(tasklist_lock), At(B, {}))
    BY ONLY <1>4, <1>5, <2>2
  <2>. HIDE DEF F, E, B, A
  <2>4. Traced(c, try_to_wake_up(user, sleeps), At(F, {}), At(F, {}))
    BY <1>2, <2>2, <2>3, TracedWake
  <2>5. PICK s : s = try_to_wake_up(user, sleeps)
    OBVIOUS
  <2>6. Traced(c, s, At(E \cup {g}, {}), At(E \cup {g}, {}))
    BY <2>4, <2>5 DEF F
  <2>7. Traced(c, Holding(g, s), At(E, {}), At(E, {}))
    BY ONLY <1>2, <2>1, <2>2, <2>3, <2>6, TracedHolding
  <2>8. PICK r : r = Holding(g, s)
    OBVIOUS
  <2>9. Traced(c, r, At(B \cup {tasklist_lock}, {}), At(B \cup {tasklist_lock}, {}))
    BY <2>7, <2>8 DEF E
  <2>10. Traced(c, Holding(tasklist_lock, r), At(B, {}), At(B, {}))
    BY ONLY <1>1, <1>2, <1>3, <2>3, <2>9, TracedHolding
  <2>. QED BY <2>5, <2>8, <2>10 DEF send_sig_info, g
<1>. HIDE DEF A, B, E
<1>9. Traced(c, <<>>, At(A, {}), At(A, {})) /\ Traced(c, <<>>, At(B, {}), At(B, {}))
  BY <1>7, TracedEmpty
<1>10. \A entry \in log_data_point : Traced(c, entry, At(B, {}), At(B, {}))
  BY <1>8, <1>9 DEF log_data_point
<1>11. ASSUME NEW entry \in log_data_point
       PROVE  Traced(c, Holding(l, entry), At(A, {}), At(A, {}))
  <2>1. Traced(c, entry, At(A \cup {l}, {}), At(A \cup {l}, {}))
    BY <1>10 DEF B
  <2>2. Ordered(c, Level(l), At(A, {}))
    BY <1>1, <1>6
  <2>. QED BY ONLY <1>1, <1>2, <1>3, <2>1, <2>2, TracedHolding
<1>12. Traced(c, log, At(A, {}), At(A, {}))
  BY <1>9, <1>11 DEF Logging, l
<1>. QED BY <1>12 DEF A, q

\* __schedule is in order: by the exceptions, task_spin_lock under its own run queue, and
\* what it does about the logs.
LEMMA TracedSchedule ==
  ASSUME NEW c \in Cpu, NEW prev \in Task, NEW next \in Task,
         NEW log_prev \in Logging(prev), NEW log_next \in Logging(next)
  PROVE  Traced(c, __schedule(c, prev, next, log_prev, log_next), Idle, Idle)
<1>. DEFINE q == rq_lock(c)
            A == {q}
<1>1. q \in Locks /\ Level(q) = 5 /\ \A t \in Task : task_spin_lock(t) # q
  BY LockTypes
<1>a. Traced(c, log_prev, At(A, {}), At(A, {})) /\ Traced(c, log_next, At(A, {}), At(A, {}))
  BY TracedLogging
<1>. HIDE DEF q
<1>2. A \in SUBSET Locks /\ \A t \in Task : task_spin_lock(t) \notin A
  BY <1>1
<1>3. Ordered(c, 2, At(A, {}))
  BY <1>2 DEF Ordered, At, Doubly, q
<1>. HIDE DEF A
<1>4. \A t \in Task : Traced(c, Holding(task_spin_lock(t), <<>>), At(A, {}), At(A, {}))
  BY <1>2, <1>3, TracedSpinEmpty
<1>. DEFINE a == Holding(task_spin_lock(prev), <<>>)
            b == Holding(task_spin_lock(next), <<>>)
<1>5. Traced(c, a, At(A, {}), At(A, {})) /\ Traced(c, b, At(A, {}), At(A, {}))
  BY <1>4
<1>. HIDE DEF a, b
<1>. DEFINE s == (((a \o log_prev) \o b) \o b) \o log_next
<1>6. Traced(c, a \o log_prev, At(A, {}), At(A, {}))
  BY ONLY <1>5, <1>a, TracedThen
<1>7. Traced(c, (a \o log_prev) \o b, At(A, {}), At(A, {}))
  BY ONLY <1>5, <1>6, TracedThen
<1>b. Traced(c, ((a \o log_prev) \o b) \o b, At(A, {}), At(A, {}))
  BY ONLY <1>5, <1>7, TracedThen
<1>c. Traced(c, s, At(A, {}), At(A, {}))
  BY ONLY <1>a, <1>b, TracedThen
<1>8. Ordered(c, Level(q), At({}, {})) /\ q \notin {} /\ {} \in SUBSET Locks /\ {} \in SUBSET Timers
  BY DEF Ordered, At, Doubly
<1>. HIDE DEF s
<1>9. Traced(c, s, At({} \cup {q}, {}), At({} \cup {q}, {}))
  <2>1. {} \cup {q} = A
    BY DEF A
  <2>. QED BY <1>c, <2>1
<1>10. Traced(c, Holding(q, s), At({}, {}), At({}, {}))
  BY ONLY <1>1, <1>8, <1>9, TracedHolding
<1>. QED BY <1>10 DEF __schedule, Idle, a, b, q, s

\* The end of a callback.
LEMMA TracedEnd ==
  ASSUME NEW c, NEW timer \in Timers, NEW A \in SUBSET Locks
  PROVE  Traced(c, <<End(timer)>>, At(A, {timer}), At(A, {}))
<1>1. /\ At(A, {timer}) \in Where /\ At(A, {}) \in Where
      /\ At(A, {timer}).running = {timer} /\ At(A, {timer}).held = A
  BY DEF At, Doubly, Where
<1>2. End(timer) \in Steps
  BY DEF Steps
<1>3. Good(c, End(timer), At(A, {timer}), At(A, {}))
  BY <1>1 DEF Good, Returns
<1>4. PICK a : a = End(timer)
  OBVIOUS
<1>5. a \in Steps /\ Good(c, a, At(A, {timer}), At(A, {}))
  BY <1>2, <1>3, <1>4
<1>6. Traced(c, <<a>>, At(A, {timer}), At(A, {}))
  BY ONLY <1>1, <1>5, TracedOne
<1>. QED BY <1>4, <1>6

\* The callbacks are in order, also when they interrupt a holder of tasklist_lock.
LEMMA TracedCallbacks ==
  ASSUME NEW c \in Cpu, NEW t \in Task, NEW A \in SUBSET {tasklist_lock}
  PROVE  /\ Traced(c, budget_timer_callback(t), At(A, {budget_timer(t)}), At(A, {}))
         /\ \A sleeps \in BOOLEAN :
              Traced(c, period_timer_callback(t, sleeps), At(A, {period_timer(t)}), At(A, {}))
<1>. DEFINE l == task_spin_lock(t)
            B == A \cup {l}
<1>1. /\ A \in SUBSET Locks /\ l \in Locks /\ B \in SUBSET Locks
      /\ \A u \in Task : task_spin_lock(u) \notin A
      /\ \A m \in A : Level(m) = 0
      /\ rq_lock(c) \notin B /\ pi_lock(t) \notin B
  BY LockTypes
<1>2. budget_timer(t) \in Timers /\ period_timer(t) \in Timers
  BY LockTypes
<1>3. \A timer \in Timers : Ordered(c, 2, At(A, {timer}))
  BY <1>1 DEF Ordered, At, Doubly
<1>4. Ordered(c, 4, At(B, {period_timer(t)}))
  <2>1. \A m \in B : Level(m) < 4
    BY <1>1, LockTypes
  <2>2. \A u \in Task : task_spin_lock(u) \in B => u = t
    BY <1>1, LockTypes
  <2>. HIDE DEF B
  <2>. QED BY <1>1, <2>1, <2>2 DEF Ordered, At, Doubly
<1>5. Traced(c, Holding(l, <<>>), At(A, {budget_timer(t)}), At(A, {budget_timer(t)}))
  <2>1. PICK timer \in Timers : timer = budget_timer(t)
    BY <1>2
  <2>2. {timer} \in SUBSET Timers /\ l \notin A
    BY <1>1
  <2>3. Ordered(c, 2, At(A, {timer}))
    BY <1>3
  <2>4. Traced(c, Holding(l, <<>>), At(A, {timer}), At(A, {timer}))
    BY <1>1, <2>2, <2>3, TracedSpinEmpty
  <2>. QED BY <2>1, <2>4
<1>6. ASSUME NEW sleeps \in BOOLEAN
      PROVE  Traced(c, Holding(l, try_to_wake_up(t, sleeps)),
                    At(A, {period_timer(t)}), At(A, {period_timer(t)}))
  <2>1. PICK timer \in Timers : timer = period_timer(t)
    BY <1>2
  <2>2. {timer} \in SUBSET Timers /\ l \notin A
    BY <1>1
  <2>3. Ordered(c, 2, At(A, {timer})) /\ Ordered(c, 4, At(B, {timer}))
    BY <1>3, <1>4, <2>1
  <2>4. Traced(c, try_to_wake_up(t, sleeps), At(B, {timer}), At(B, {timer}))
    <3>. HIDE DEF B
    <3>. QED BY <1>1, <2>2, <2>3, TracedWake
  <2>5. Traced(c, Holding(l, try_to_wake_up(t, sleeps)), At(A, {timer}), At(A, {timer}))
    BY <1>1, <2>2, <2>3, <2>4, TracedSpin
  <2>. QED BY <2>1, <2>5
<1>7. /\ Traced(c, <<End(budget_timer(t))>>, At(A, {budget_timer(t)}), At(A, {}))
      /\ Traced(c, <<End(period_timer(t))>>, At(A, {period_timer(t)}), At(A, {}))
  BY <1>1, <1>2, TracedEnd
<1>8. Traced(c, Holding(l, <<>>) \o <<End(budget_timer(t))>>, At(A, {budget_timer(t)}), At(A, {}))
  BY ONLY <1>5, <1>7, TracedThen
<1>9. ASSUME NEW sleeps \in BOOLEAN
      PROVE  Traced(c, Holding(l, try_to_wake_up(t, sleeps)) \o <<End(period_timer(t))>>,
                    At(A, {period_timer(t)}), At(A, {}))
  BY ONLY <1>6, <1>7, TracedThen, sleeps \in BOOLEAN
<1>. QED BY <1>8, <1>9 DEF budget_timer_callback, period_timer_callback

\* In a syscall, under tasklist_lock.
Listed == At({tasklist_lock}, {})

\* A holder of tasklist_lock alone may wait for a callback and for a pi_lock.
LEMMA ListedOrder ==
  /\ Listed \in Where
  /\ \A c \in Cpu : Ordered(c, 1, Listed) /\ Ordered(c, 4, Listed)
  /\ \A t \in Task : pi_lock(t) \notin {tasklist_lock}
<1>1. /\ {tasklist_lock} \in SUBSET Locks /\ Level(tasklist_lock) = 0
      /\ \A t \in Task : task_spin_lock(t) # tasklist_lock /\ pi_lock(t) # tasklist_lock
      /\ \A c \in Cpu : rq_lock(c) # tasklist_lock
  BY LockTypes
<1>. QED BY <1>1 DEF Listed, Ordered, At, Doubly, Where

\* hrtimer_cancel under tasklist_lock.
LEMMA TracedCancel ==
  ASSUME NEW c \in Cpu, NEW timer \in Timers
  PROVE  Traced(c, <<Cancel(timer)>>, Listed, Listed)
<1>1. Cancel(timer) \in Steps
  BY DEF Steps
<1>2. Good(c, Cancel(timer), Listed, Listed)
  BY ListedOrder DEF Good, Awaits
<1>3. PICK a : a = Cancel(timer)
  OBVIOUS
<1>4. a \in Steps /\ Good(c, a, Listed, Listed)
  BY <1>1, <1>2, <1>3
<1>5. Listed \in Where
  BY ListedOrder
<1>6. Traced(c, <<a>>, Listed, Listed)
  BY ONLY <1>4, <1>5, TracedOne
<1>. QED BY <1>3, <1>6

\* A syscall is in order if what it does under tasklist_lock is.
LEMMA TracedUnderTasklist ==
  ASSUME NEW c, NEW s, Traced(c, s, Listed, Listed)
  PROVE  Traced(c, Holding(tasklist_lock, s), Idle, Idle)
<1>1. tasklist_lock \in Locks /\ tasklist_lock \notin {} /\ {} \in SUBSET Locks /\ {} \in SUBSET Timers
  BY LockTypes
<1>2. Ordered(c, Level(tasklist_lock), At({}, {}))
  BY DEF Ordered, At, Doubly
<1>3. Traced(c, s, At({} \cup {tasklist_lock}, {}), At({} \cup {tasklist_lock}, {}))
  <2>1. {} \cup {tasklist_lock} = {tasklist_lock}
    OBVIOUS
  <2>. QED BY <2>1 DEF Listed
<1>4. Traced(c, Holding(tasklist_lock, s), At({}, {}), At({}, {}))
  BY ONLY <1>1, <1>2, <1>3, TracedHolding
<1>. QED BY <1>4 DEF Idle

\* A program of two steps.
LEMMA TwoSteps ==
  ASSUME NEW a, NEW b
  PROVE  <<a>> \o <<b>> = <<a, b>>
<1>1. /\ <<a>> \o <<b>> \in Seq({a, b}) /\ <<a, b>> \in Seq({a, b})
      /\ Len(<<a>> \o <<b>>) = 2 /\ Len(<<a, b>>) = 2
      /\ (<<a>> \o <<b>>)[1] = a /\ (<<a>> \o <<b>>)[2] = b
      /\ <<a, b>>[1] = a /\ <<a, b>>[2] = b
  OBVIOUS
<1>2. \A i \in 1 .. 2 : i = 1 \/ i = 2
  OBVIOUS
<1>. DEFINE r == <<a>> \o <<b>>
            s == <<a, b>>
<1>3. \A i \in 1 .. Len(r) : r[i] = s[i]
  BY <1>1, <1>2
<1>4. Len(r) = Len(s) /\ r \in Seq({a, b}) /\ s \in Seq({a, b})
  BY <1>1
<1>. HIDE DEF r, s
<1>5. r = s
  BY <1>3, <1>4, SeqEqual
<1>. QED BY <1>5 DEF r, s

\* waitUntilNextPeriod is in order.
LEMMA TracedReader ==
  ASSUME NEW c \in Cpu
  PROVE  Traced(c, sys_waitUntilNextPeriod, Idle, Idle)
<1>1. Traced(c, <<>>, Listed, Listed)
  BY ListedOrder, TracedEmpty
<1>. QED BY <1>1, TracedUnderTasklist DEF sys_waitUntilNextPeriod

\* setProcessBudget and cancelBudget are in order.
LEMMA TracedSyscalls ==
  ASSUME NEW c \in Cpu, NEW t \in Task, NEW other \in Task,
         NEW power_scheme \in BOOLEAN, NEW sleeps \in BOOLEAN
  PROVE  /\ Traced(c, sys_setProcessBudget(t, other, power_scheme, sleeps), Idle, Idle)
         /\ Traced(c, sys_cancelBudget(t, other, sleeps), Idle, Idle)
<1>. DEFINE L(s) == Traced(c, s, Listed, Listed)
<1>1. \A r, s : L(r) /\ L(s) => L(r \o s)
  BY TracedThen
<1>2. L(<<>>)
  BY ListedOrder, TracedEmpty
<1>3. /\ L(sched_setscheduler(t)) /\ L(sched_setscheduler(other))
      /\ L(try_to_wake_up(t, sleeps)) /\ L(try_to_wake_up(other, sleeps))
  <2>1. {tasklist_lock} \in SUBSET Locks /\ {} \in SUBSET Timers
    BY LockTypes
  <2>2. Ordered(c, 4, At({tasklist_lock}, {})) /\ \A u \in Task : pi_lock(u) \notin {tasklist_lock}
    BY ListedOrder DEF Listed
  <2>. QED BY <2>1, <2>2, TracedWake DEF Listed
<1>4. L(<<Cancel(period_timer(t)), Cancel(budget_timer(t))>>)
  <2>1. L(<<Cancel(period_timer(t))>>) /\ L(<<Cancel(budget_timer(t))>>)
    BY LockTypes, TracedCancel
  <2>2. <<Cancel(period_timer(t))>> \o <<Cancel(budget_timer(t))>>
          = <<Cancel(period_timer(t)), Cancel(budget_timer(t))>>
    BY TwoSteps
  <2>3. L(<<Cancel(period_timer(t))>> \o <<Cancel(budget_timer(t))>>)
    BY ONLY <1>1, <2>1
  <2>. QED BY <2>2, <2>3
<1>. DEFINE cancels == <<Cancel(period_timer(t)), Cancel(budget_timer(t))>>
            set(u) == sched_setscheduler(u)
            wake(u) == try_to_wake_up(u, sleeps)
            maybe == IF power_scheme THEN wake(other) ELSE <<>>
<1>5. L(cancels) /\ L(set(t)) /\ L(set(other)) /\ L(wake(t)) /\ L(wake(other)) /\ L(maybe)
  BY <1>2, <1>3, <1>4
<1>6. \A s : L(s) => Traced(c, Holding(tasklist_lock, s), Idle, Idle)
  BY TracedUnderTasklist
<1>. HIDE DEF L, cancels, set, wake, maybe
<1>7. L(((cancels \o set(t)) \o set(other)) \o maybe)
  <2>1. L(cancels \o set(t))
    BY ONLY <1>1, <1>5
  <2>2. L((cancels \o set(t)) \o set(other))
    BY ONLY <1>1, <1>5, <2>1
  <2>. QED BY ONLY <1>1, <1>5, <2>2
<1>8. L((((set(t) \o cancels) \o wake(t)) \o set(other)) \o wake(other))
  <2>1. L(set(t) \o cancels)
    BY ONLY <1>1, <1>5
  <2>2. L((set(t) \o cancels) \o wake(t))
    BY ONLY <1>1, <1>5, <2>1
  <2>3. L(((set(t) \o cancels) \o wake(t)) \o set(other))
    BY ONLY <1>1, <1>5, <2>2
  <2>. QED BY ONLY <1>1, <1>5, <2>3
<1>9. /\ Traced(c, Holding(tasklist_lock, ((cancels \o set(t)) \o set(other)) \o maybe), Idle, Idle)
      /\ Traced(c, Holding(tasklist_lock,
                           (((set(t) \o cancels) \o wake(t)) \o set(other)) \o wake(other)), Idle, Idle)
  BY ONLY <1>2, <1>6, <1>7, <1>8
<1>10. sys_setProcessBudget(t, other, power_scheme, sleeps)
         = Holding(tasklist_lock, ((cancels \o set(t)) \o set(other)) \o maybe)
  BY Zenon DEF sys_setProcessBudget, cancels, set, wake, maybe
<1>11. sys_cancelBudget(t, other, sleeps)
         = Holding(tasklist_lock, (((set(t) \o cancels) \o wake(t)) \o set(other)) \o wake(other))
  BY Zenon DEF sys_cancelBudget, cancels, set, wake
<1>. QED BY <1>9, <1>10, <1>11, Zenon

\* The inductive invariant: what each CPU has left to do is in order from where it is, no
\* callback runs on two CPUs, and each timer in HRTIMER_STATE_CALLBACK is executed.
IInv ==
    /\ holder \in [Locks -> Cpu \cup {Free}]
    /\ active \subseteq Timers
    /\ program \in [Cpu -> Seq(Steps)]
    /\ \A c \in Cpu : Traced(c, program[c], At(Held(c), Executes(c)), Idle)
    /\ \A c, d \in Cpu : c # d => Executes(c) \cap Executes(d) = {}
    /\ \A timer \in active : \E c \in Cpu : timer \in Executes(c)

\* Where a CPU is, by the invariant: the callbacks it has to finish all run.
LEMMA StateTyped ==
  ASSUME IInv, NEW c \in Cpu
  PROVE  /\ At(Held(c), Executes(c)) \in Where
         /\ At(Held(c), Executes(c)).held = Held(c)
         /\ At(Held(c), Executes(c)).running = Executes(c)
         /\ At(Held(c), Executes(c)).again = {}
         /\ Ends(program[c]) = Executes(c)
         /\ Executes(c) \subseteq active
<1>1. Held(c) \subseteq Locks /\ Executes(c) \subseteq active /\ active \subseteq Timers
  BY DEF IInv, Held, Executes
<1>2. /\ At(Held(c), Executes(c)) \in Where
      /\ At(Held(c), Executes(c)).held = Held(c)
      /\ At(Held(c), Executes(c)).running = Executes(c)
      /\ At(Held(c), Executes(c)).again = {}
  BY <1>1 DEF At, Doubly, Where
<1>3. Traced(c, program[c], At(Held(c), Executes(c)), Idle)
  BY DEF IInv
<1>4. Ends(program[c]) = At(Held(c), Executes(c)).running
  BY <1>2, <1>3, EndsAre
<1>. QED BY <1>1, <1>2, <1>4

\* A callback that runs, runs on c or on another CPU.
LEMMA SomeoneRuns ==
  ASSUME IInv, NEW c \in Cpu
  PROVE  \A timer \in active : timer \in Executes(c) \/ \E d \in Cpu \ {c} : timer \in Executes(d)
<1>1. \A timer \in active : \E d \in Cpu : timer \in Executes(d)
  BY DEF IInv
<1>. QED BY <1>1

\* After a step of c, c is at z and in order from there.
Fits(c, z) ==
    /\ Traced(c, program'[c], z, Idle)
    /\ z.held = {l \in Locks : holder'[l] = c} /\ z.again = {}
    /\ z.running \subseteq active'
    /\ \A d \in Cpu \ {c} : z.running \cap Executes(d) = {}
    /\ \A timer \in active' : timer \in z.running \/ \E d \in Cpu \ {c} : timer \in Executes(d)

\* The step of c leaves the other CPUs where they are.
Others(c) ==
    \A d \in Cpu \ {c} : /\ program'[d] = program[d]
                         /\ Executes(d) \subseteq active'
                         /\ \A l \in Locks : holder'[l] = d <=> holder[l] = d

\* Such a step preserves the invariant.
LEMMA Preserved ==
  ASSUME IInv, NEW c \in Cpu, NEW z \in Where, Fits(c, z), Others(c),
         holder' \in [Locks -> Cpu \cup {Free}], active' \subseteq Timers,
         program' \in [Cpu -> Seq(Steps)]
  PROVE  IInv'
<1>2. Ends(program'[c]) = z.running
  BY EndsAre DEF Fits
<1>3. Executes(c)' = z.running
  <2>1. Executes(c)' = active' \cap Ends(program'[c])
    BY DEF Executes, Ends
  <2>2. z.running \subseteq active'
    BY DEF Fits
  <2>3. active' \cap Ends(program'[c]) = z.running
    BY <1>2, <2>2
  <2>. QED BY <2>1, <2>3, Zenon
<1>4. Held(c)' = z.held
  BY DEF Held, Fits
<1>5. z = At(z.held, z.running)
  BY DEF Where, At, Doubly, Fits
<1>6. Traced(c, program[c], At(Held(c), Executes(c)), Idle)'
  <2>1. Traced(c, program'[c], z, Idle)
    BY DEF Fits
  <2>2. z = At(Held(c)', Executes(c)')
    BY <1>3, <1>4, <1>5
  <2>. QED BY <2>1, <2>2 DEF At, Doubly, Idle, Traced
<1>7. ASSUME NEW d \in Cpu \ {c}
      PROVE  /\ Executes(d)' = Executes(d) /\ Held(d)' = Held(d)
             /\ Traced(d, program[d], At(Held(d), Executes(d)), Idle)'
  <2>1. Executes(d)' = Executes(d)
    <3>1. Executes(d)' = active' \cap Ends(program'[d])
      BY DEF Executes, Ends
    <3>2. Executes(d) \subseteq active' /\ program'[d] = program[d]
      BY DEF Others
    <3>3. Ends(program[d]) = Executes(d)
      BY StateTyped
    <3>4. active' \cap Ends(program'[d]) = Executes(d)
      BY <3>2, <3>3
    <3>. QED BY <3>1, <3>4, Zenon
  <2>2. Held(d)' = Held(d)
    BY DEF Held, Others
  <2>3. Traced(d, program[d], At(Held(d), Executes(d)), Idle)
    BY DEF IInv
  <2>4. program'[d] = program[d]
    BY DEF Others
  <2>. QED BY <2>1, <2>2, <2>3, <2>4
<1>8. \A d, e \in Cpu : d # e => (Executes(d) \cap Executes(e) = {})'
  <2>. SUFFICES ASSUME NEW d \in Cpu, NEW e \in Cpu, d # e
                PROVE  Executes(d)' \cap Executes(e)' = {}
    OBVIOUS
  <2>1. CASE d = c
    BY <1>3, <1>7, <2>1 DEF Fits
  <2>2. CASE e = c
    BY <1>3, <1>7, <2>2 DEF Fits
  <2>3. CASE d # c /\ e # c
    BY <1>7, <2>3 DEF IInv
  <2>. QED BY <2>1, <2>2, <2>3
<1>9. \A d \in Cpu : Traced(d, program[d], At(Held(d), Executes(d)), Idle)'
  BY <1>6, <1>7
<1>10. ASSUME NEW timer \in active' PROVE \E d \in Cpu : timer \in Executes(d)'
  <2>1. CASE timer \in z.running
    BY <1>3, <2>1
  <2>2. ASSUME NEW d \in Cpu \ {c}, timer \in Executes(d)
        PROVE  \E e \in Cpu : timer \in Executes(e)'
    <3>1. timer \in Executes(d)' /\ d \in Cpu
      BY <1>7, <2>2
    <3>. QED BY <3>1
  <2>. QED BY <1>10, <2>1, <2>2 DEF Fits
<1>. QED BY <1>8, <1>9, <1>10 DEF IInv

\* Idle CPUs.
LEMMA InitIInv == Init => IInv
<1>. SUFFICES ASSUME Init PROVE IInv
  OBVIOUS
<1>1. \A c \in Cpu : program[c] = <<>>
  BY DEF Init
<1>2. \A c \in Cpu : Held(c) = {}
  BY FreeAssumption DEF Init, Held
<1>3. \A c \in Cpu : Executes(c) = {}
  BY DEF Init, Executes
<1>4. Idle \in Where
  BY DEF Idle, At, Doubly, Where
<1>5. ASSUME NEW c \in Cpu PROVE Traced(c, program[c], At(Held(c), Executes(c)), Idle)
  <2>1. Traced(c, <<>>, Idle, Idle)
    BY <1>4, TracedEmpty
  <2>2. At(Held(c), Executes(c)) = Idle
    BY <1>2, <1>3 DEF Idle
  <2>. QED BY <1>1, <2>1, <2>2
<1>6. /\ holder \in [Locks -> Cpu \cup {Free}] /\ active \subseteq Timers
      /\ program \in [Cpu -> Seq(Steps)]
  BY DEF Init
<1>7. active = {}
  BY DEF Init
<1>. QED BY <1>3, <1>5, <1>6, <1>7 DEF IInv

\* __schedule or a syscall begins.
LEMMA StartIInv ==
  ASSUME IInv, NEW c \in Cpu, NEW steps, Traced(c, steps, Idle, Idle), Start(c, steps)
  PROVE  IInv'
<1>1. /\ program[c] = <<>> /\ program' = [program EXCEPT ![c] = steps]
      /\ holder' = holder /\ active' = active
  BY DEF Start
<1>2. /\ holder \in [Locks -> Cpu \cup {Free}] /\ active \subseteq Timers
      /\ program \in [Cpu -> Seq(Steps)]
  BY DEF IInv
<1>3. steps \in Seq(Steps)
  BY DEF Traced
<1>4. program' \in [Cpu -> Seq(Steps)] /\ program'[c] = steps
      /\ \A d \in Cpu \ {c} : program'[d] = program[d]
  BY <1>1, <1>2, <1>3
<1>5. Idle \in Where /\ Idle.held = {} /\ Idle.again = {} /\ Idle.running = {}
  BY DEF Idle, At, Doubly, Where
<1>6. Held(c) = {}
  <2>1. Traced(c, <<>>, At(Held(c), Executes(c)), Idle)
    BY <1>1 DEF IInv
  <2>2. At(Held(c), Executes(c)) = Idle
    BY <2>1, StateTyped, TracedEmpty
  <2>. QED BY <1>5, <2>2, StateTyped
<1>7. Fits(c, Idle)
  <2>1. Executes(c) = {}
    <3>1. Ends(<<>>) = {}
      BY DEF Ends
    <3>. QED BY <1>1, <3>1, StateTyped
  <2>2. \A timer \in active : \E d \in Cpu \ {c} : timer \in Executes(d)
    BY <2>1, SomeoneRuns
  <2>. QED BY <1>1, <1>4, <1>5, <1>6, <2>2 DEF Fits, Held
<1>8. Others(c)
  BY <1>1, <1>4, StateTyped DEF Others
<1>. QED BY <1>1, <1>2, <1>4, <1>5, <1>7, <1>8, Preserved

\* A callback begins, on an idle CPU or in the middle of a syscall.
LEMMA RunTimerIInv ==
  ASSUME IInv, NEW c \in Cpu, NEW timer \in Timers, NEW callback,
         Traced(c, callback, At(Held(c), {timer}), At(Held(c), {})),
         RunTimer(c, timer, callback)
  PROVE  IInv'
<1>1. /\ timer \notin active /\ Executes(c) = {} /\ active' = active \cup {timer}
      /\ program' = [program EXCEPT ![c] = callback \o program[c]] /\ holder' = holder
  BY DEF RunTimer
<1>2. /\ holder \in [Locks -> Cpu \cup {Free}] /\ active \subseteq Timers
      /\ program \in [Cpu -> Seq(Steps)]
  BY DEF IInv
<1>3. callback \o program[c] \in Seq(Steps)
  <2>1. callback \in Seq(Steps) /\ program[c] \in Seq(Steps)
    BY <1>2 DEF Traced
  <2>. QED BY <2>1
<1>4. program' \in [Cpu -> Seq(Steps)] /\ program'[c] = callback \o program[c]
      /\ \A d \in Cpu \ {c} : program'[d] = program[d]
  BY <1>1, <1>2, <1>3
<1>5. Held(c) \subseteq Locks
  BY DEF Held
<1>. DEFINE z == At(Held(c), {timer})
<1>6. z \in Where /\ z.held = Held(c) /\ z.again = {} /\ z.running = {timer}
  BY <1>5 DEF At, Doubly, Where
<1>7. Traced(c, callback \o program[c], z, Idle)
  <2>1. Traced(c, program[c], At(Held(c), {}), Idle)
    BY <1>1 DEF IInv
  <2>2. Traced(c, callback, z, At(Held(c), {}))
    OBVIOUS
  <2>. QED BY ONLY <2>1, <2>2, TracedThen
<1>. HIDE DEF z
<1>8. \A d \in Cpu : Executes(d) \subseteq active
  BY StateTyped
<1>9. Fits(c, z)
  <2>1. z.held = {l \in Locks : holder'[l] = c} /\ z.again = {}
    BY <1>1, <1>6 DEF Held
  <2>2. Traced(c, program'[c], z, Idle)
    BY <1>4, <1>7
  <2>3. z.running \subseteq active' /\ \A d \in Cpu \ {c} : z.running \cap Executes(d) = {}
    BY <1>1, <1>6, <1>8
  <2>4. \A u \in active' : u \in z.running \/ \E d \in Cpu \ {c} : u \in Executes(d)
    BY <1>1, <1>6, SomeoneRuns
  <2>. QED BY <2>1, <2>2, <2>3, <2>4 DEF Fits
<1>10. Others(c)
  BY <1>1, <1>4, <1>8 DEF Others
<1>11. active' \subseteq Timers /\ holder' \in [Locks -> Cpu \cup {Free}]
  BY <1>1, <1>2
<1>. QED BY <1>4, <1>6, <1>9, <1>10, <1>11, Preserved

\* A step of a program: one case for each kind.
LEMMA StepIInv ==
  ASSUME IInv, NEW c \in Cpu, Step(c)
  PROVE  IInv'
<1>. DEFINE x == At(Held(c), Executes(c))
            step == Head(program[c])
<1>1. program[c] # <<>> /\ ~Blocked(c) /\ program' = [program EXCEPT ![c] = Tail(program[c])]
  BY DEF Step
<1>2. /\ holder \in [Locks -> Cpu \cup {Free}] /\ active \subseteq Timers
      /\ program \in [Cpu -> Seq(Steps)] /\ Traced(c, program[c], x, Idle)
  BY DEF IInv
<1>3. x \in Where /\ x.held = Held(c) /\ x.again = {} /\ x.running = Executes(c)
  BY StateTyped
<1>. HIDE DEF x
<1>4. PICK z \in Where : Good(c, step, x, z) /\ Traced(c, Tail(program[c]), z, Idle)
  BY <1>1, <1>2, TracedTail
<1>5. program' \in [Cpu -> Seq(Steps)] /\ program'[c] = Tail(program[c])
      /\ \A d \in Cpu \ {c} : program'[d] = program[d]
  <2>1. Tail(program[c]) \in Seq(Steps)
    BY <1>4 DEF Traced
  <2>. QED BY <1>1, <1>2, <2>1
<1>6. Traced(c, program'[c], z, Idle)
  BY <1>4, <1>5
<1>7. /\ holder' = IF step.op = "lock" THEN [holder EXCEPT ![step.on] = c]
                   ELSE IF step.op = "unlock" THEN [holder EXCEPT ![step.on] = Free]
                   ELSE holder
      /\ active' = IF step.op = "end" THEN active \ {step.on} ELSE active
  BY DEF Step
<1>8. /\ step.op = "lock" => holder[step.on] = Free
      /\ step.op = "cancel" => step.on \notin active
  BY <1>1 DEF Blocked
<1>9. \A d \in Cpu : Executes(d) \subseteq active
  BY StateTyped
<1>10. \A d \in Cpu \ {c} : Executes(c) \cap Executes(d) = {}
  BY DEF IInv
<1>a. \A u \in active : u \in Executes(c) \/ \E d \in Cpu \ {c} : u \in Executes(d)
  BY SomeoneRuns
<1>. HIDE DEF step
<1>11. CASE Takes(c, step, x, z)
  <2>1. PICK l \in Locks : step = Lock(l) /\ z = At(x.held \cup {l}, x.running)
    BY <1>11 DEF Takes
  <2>2. holder' = [holder EXCEPT ![l] = c] /\ active' = active /\ holder[l] = Free
    BY <1>7, <1>8, <2>1 DEF Lock
  <2>3. z.held = Held(c) \cup {l} /\ z.again = {} /\ z.running = Executes(c)
    BY <1>3, <2>1 DEF At, Doubly
  <2>4. /\ holder' \in [Locks -> Cpu \cup {Free}] /\ holder'[l] = c
        /\ \A m \in Locks \ {l} : holder'[m] = holder[m]
    BY <1>2, <2>2
  <2>5. {m \in Locks : holder'[m] = c} = Held(c) \cup {l}
    BY <2>4 DEF Held
  <2>6. \A d \in Cpu \ {c} : \A m \in Locks : holder'[m] = d <=> holder[m] = d
    BY <2>2, <2>4, FreeAssumption
  <2>7. Fits(c, z)
    BY <1>6, <1>9, <1>10, <1>a, <2>2, <2>3, <2>5 DEF Fits
  <2>8. Others(c)
    BY <1>5, <1>9, <2>2, <2>6 DEF Others
  <2>9. active' \subseteq Timers
    BY <1>2, <2>2
  <2>. QED BY <1>5, <2>4, <2>7, <2>8, <2>9, Preserved
<1>12. CASE Releases(step, x, z)
  <2>1. PICK l \in x.held : step = Unlock(l) /\ z = At(x.held \ {l}, x.running)
    BY <1>12 DEF Releases
  <2>2. holder' = [holder EXCEPT ![l] = Free] /\ active' = active
    BY <1>7, <2>1 DEF Unlock
  <2>3. /\ z.held = Held(c) \ {l} /\ z.again = {} /\ z.running = Executes(c)
        /\ l \in Locks /\ holder[l] = c
    BY <1>3, <2>1 DEF At, Doubly, Held
  <2>4. /\ holder' \in [Locks -> Cpu \cup {Free}] /\ holder'[l] = Free
        /\ \A m \in Locks \ {l} : holder'[m] = holder[m]
    BY <1>2, <2>2, <2>3
  <2>5. {m \in Locks : holder'[m] = c} = Held(c) \ {l}
    BY <2>4, FreeAssumption DEF Held
  <2>6. \A d \in Cpu \ {c} : \A m \in Locks : holder'[m] = d <=> holder[m] = d
    BY <2>3, <2>4, FreeAssumption
  <2>7. Fits(c, z)
    BY <1>6, <1>9, <1>10, <1>a, <2>2, <2>3, <2>5 DEF Fits
  <2>8. Others(c)
    BY <1>5, <1>9, <2>2, <2>6 DEF Others
  <2>9. active' \subseteq Timers
    BY <1>2, <2>2
  <2>. QED BY <1>5, <2>4, <2>7, <2>8, <2>9, Preserved
<1>13. CASE Awaits(c, step, x, z)
  <2>1. PICK timer \in Timers : step = Cancel(timer) /\ z = x
    BY <1>13 DEF Awaits
  <2>2. holder' = holder /\ active' = active
    BY <1>7, <2>1 DEF Cancel
  <2>3. z.held = Held(c) /\ z.again = {} /\ z.running = Executes(c)
    BY <1>3, <2>1
  <2>7. Fits(c, z)
    BY <1>6, <1>9, <1>10, <1>a, <2>2, <2>3 DEF Fits, Held
  <2>8. Others(c)
    BY <1>5, <1>9, <2>2 DEF Others
  <2>9. active' \subseteq Timers /\ holder' \in [Locks -> Cpu \cup {Free}]
    BY <1>2, <2>2
  <2>. QED BY <1>5, <2>7, <2>8, <2>9, Preserved
<1>14. CASE Returns(step, x, z)
  <2>1. PICK timer \in Timers : step = End(timer) /\ x.running = {timer} /\ z = At(x.held, {})
    BY <1>14 DEF Returns
  <2>2. holder' = holder /\ active' = active \ {timer}
    BY <1>7, <2>1 DEF End
  <2>3. z.held = Held(c) /\ z.again = {} /\ z.running = {}
    BY <1>3, <2>1 DEF At, Doubly
  <2>4. \A d \in Cpu \ {c} : Executes(d) \subseteq active'
    BY <1>3, <1>9, <1>10, <2>1, <2>2
  <2>7. Fits(c, z)
    <3>1. \A u \in active' : \E d \in Cpu \ {c} : u \in Executes(d)
      BY <1>3, <1>a, <2>1, <2>2
    <3>. QED BY <1>6, <2>2, <2>3, <3>1 DEF Fits, Held
  <2>8. Others(c)
    BY <1>5, <2>2, <2>4 DEF Others
  <2>9. active' \subseteq Timers /\ holder' \in [Locks -> Cpu \cup {Free}]
    BY <1>2, <2>2
  <2>. QED BY <1>5, <2>7, <2>8, <2>9, Preserved
<1>15. CASE Retakes(c, step, x, z)
  <2>1. PICK l \in x.held : step = Lock(l)
    BY <1>15 DEF Retakes
  <2>2. holder[l] = Free /\ holder[l] = c
    BY <1>3, <1>8, <2>1 DEF Lock, Held
  <2>. QED BY <2>2, FreeAssumption
<1>16. CASE Unretakes(step, x, z)
  <2>1. PICK l \in Locks : x.again = {l}
    BY <1>16 DEF Unretakes
  <2>. QED BY <1>3, <2>1
<1>. QED BY <1>4, <1>11, <1>12, <1>13, <1>14, <1>15, <1>16 DEF Good

\* Every action preserves the invariant.
LEMMA NextIInv ==
  ASSUME IInv, [Next]_vars
  PROVE  IInv'
<1>1. ASSUME NEW c \in Cpu, StartSchedule(c) PROVE IInv'
  <2>1. PICK prev \in Task, next \in Task :
            \E log_prev \in Logging(prev), log_next \in Logging(next) :
              Start(c, __schedule(c, prev, next, log_prev, log_next))
    BY <1>1 DEF StartSchedule
  <2>2. PICK log_prev \in Logging(prev), log_next \in Logging(next) :
            Start(c, __schedule(c, prev, next, log_prev, log_next))
    BY <2>1
  <2>. QED BY <2>2, TracedSchedule, StartIInv
<1>2. ASSUME NEW c \in Cpu, StartSyscall(c) PROVE IInv'
  <2>1. ASSUME NEW t \in Task, NEW other \in Task, NEW power_scheme \in BOOLEAN,
               NEW sleeps \in BOOLEAN,
               Start(c, sys_setProcessBudget(t, other, power_scheme, sleeps))
        PROVE  IInv'
    BY <2>1, TracedSyscalls, StartIInv
  <2>2. ASSUME NEW t \in Task, NEW other \in Task, NEW sleeps \in BOOLEAN,
               Start(c, sys_cancelBudget(t, other, sleeps))
        PROVE  IInv'
    <3>1. Traced(c, sys_cancelBudget(t, other, sleeps), Idle, Idle)
      BY TracedSyscalls
    <3>. QED BY <2>2, <3>1, StartIInv
  <2>3. CASE Start(c, sys_waitUntilNextPeriod)
    BY <2>3, TracedReader, StartIInv
  <2>. QED BY <1>2, <2>1, <2>2, <2>3 DEF StartSyscall
<1>3. ASSUME NEW c \in Cpu, Interrupt(c) PROVE IInv'
  <2>1. PICK t \in Task :
            \/ RunTimer(c, budget_timer(t), budget_timer_callback(t))
            \/ \E sleeps \in BOOLEAN :
                 RunTimer(c, period_timer(t), period_timer_callback(t, sleeps))
    BY <1>3 DEF Interrupt
  <2>2. budget_timer(t) \in Timers /\ period_timer(t) \in Timers
    BY LockTypes
  <2>3. Held(c) \in SUBSET {tasklist_lock}
    BY <2>1 DEF RunTimer
  <2>4. /\ Traced(c, budget_timer_callback(t), At(Held(c), {budget_timer(t)}), At(Held(c), {}))
        /\ \A sleeps \in BOOLEAN :
             Traced(c, period_timer_callback(t, sleeps), At(Held(c), {period_timer(t)}),
                    At(Held(c), {}))
    BY <2>3, TracedCallbacks
  <2>5. CASE RunTimer(c, budget_timer(t), budget_timer_callback(t))
    BY <2>2, <2>4, <2>5, RunTimerIInv
  <2>6. ASSUME NEW sleeps \in BOOLEAN,
               RunTimer(c, period_timer(t), period_timer_callback(t, sleeps))
        PROVE  IInv'
    BY <2>2, <2>4, <2>6, RunTimerIInv
  <2>. QED BY <2>1, <2>5, <2>6
<1>4. ASSUME NEW c \in Cpu, Step(c) PROVE IInv'
  BY <1>4, StepIInv
<1>5. CASE UNCHANGED vars
  <2>1. program' = program /\ holder' = holder /\ active' = active
    BY <1>5 DEF vars
  <2>2. \A c \in Cpu : Held(c)' = Held(c) /\ Executes(c)' = Executes(c)
    BY <2>1 DEF Held, Executes
  <2>. QED BY <2>1, <2>2 DEF IInv
<1>. QED BY <1>1, <1>2, <1>3, <1>4, <1>5 DEF Next

\* c waits at level n.
Waits(c, n) ==
    /\ n \in Levels
    /\ Ordered(c, n, At(Held(c), Executes(c)))
    /\ LET step == Head(program[c])
       IN  \/ \E l \in Locks : step = Lock(l) /\ Level(l) = n
           \/ n = 1 /\ \E timer \in Timers : step = Cancel(timer)

\* A blocked CPU waits at some level, in order.
LEMMA BlockedWaits ==
  ASSUME IInv, NEW c \in Cpu, Blocked(c)
  PROVE  \E n : Waits(c, n)
<1>. DEFINE x == At(Held(c), Executes(c))
            step == Head(program[c])
<1>1. program[c] # <<>> /\ Traced(c, program[c], x, Idle)
  BY DEF Blocked, IInv
<1>2. step.op = "lock" \/ step.op = "cancel"
  BY DEF Blocked
<1>3. x \in Where
  BY StateTyped
<1>. HIDE DEF x
<1>4. PICK z \in Where : Good(c, step, x, z)
  BY <1>1, <1>3, TracedTail
<1>. HIDE DEF step
<1>5. CASE Takes(c, step, x, z)
  <2>1. PICK l \in Locks : step = Lock(l) /\ Ordered(c, Level(l), x)
    BY <1>5 DEF Takes
  <2>2. Level(l) \in Levels
    BY LockTypes
  <2>3. Waits(c, Level(l))
    BY <2>1, <2>2 DEF Waits, x, step
  <2>. QED BY <2>3
<1>6. CASE Releases(step, x, z) \/ Unretakes(step, x, z)
  <2>1. PICK l : step = Unlock(l)
    BY <1>6 DEF Releases, Unretakes
  <2>. QED BY <1>2, <2>1 DEF Unlock
<1>9. CASE Retakes(c, step, x, z)
  <2>1. PICK l \in x.held : step = Lock(l) /\ Ordered(c, Level(l), x)
    BY <1>9 DEF Retakes
  <2>2. l \in Locks /\ Level(l) \in Levels
    BY <1>3, LockTypes DEF Where
  <2>3. Waits(c, Level(l))
    BY <2>1, <2>2 DEF Waits, x, step
  <2>. QED BY <2>3
<1>7. CASE Awaits(c, step, x, z)
  <2>1. PICK timer \in Timers : step = Cancel(timer) /\ Ordered(c, 1, x)
    BY <1>7 DEF Awaits
  <2>2. Waits(c, 1)
    BY <2>1 DEF Waits, Levels, x, step
  <2>. QED BY <2>2
<1>8. CASE Returns(step, x, z)
  BY <1>2, <1>8 DEF Returns, End
<1>. QED BY <1>4, <1>5, <1>6, <1>7, <1>8, <1>9 DEF Good

\* The __schedule that DeadlocksNeedSchedule names.
Cause(D) ==
    \E c \in D, t \in Task :
        /\ holder[rq_lock(c)] = c
        /\ \/ /\ Head(program[c]) = Lock(task_spin_lock(t))
              /\ \E d \in D : /\ holder[task_spin_lock(t)] = d
                              /\ period_timer(t) \in Executes(d)
           \/ holder[task_spin_lock(t)] = c

\* In a deadlock without such a __schedule, whoever waits waits for somebody who waits at
\* a higher level.
LEMMA WaitsHigher ==
  ASSUME IInv, NEW D \in SUBSET Cpu, Deadlocked(D), ~Cause(D),
         NEW c \in D, NEW n, Waits(c, n)
  PROVE  \E d \in D : \E m : Waits(d, m) /\ n < m
<1>. DEFINE x(d) == At(Held(d), Executes(d))
            step(d) == Head(program[d])
<1>1. \A d \in D : \E m : Waits(d, m)
  BY BlockedWaits DEF Deadlocked
<1>2. \A d \in D : \/ step(d).op = "lock" /\ holder[step(d).on] \in D
                   \/ step(d).op = "cancel" /\ \E e \in D : step(d).on \in Executes(e)
  BY DEF Deadlocked
<1>3. \A d \in D : x(d).held = Held(d) /\ x(d).running = Executes(d)
  BY StateTyped
<1>4. \A d \in D : \A m : Waits(d, m) =>
        /\ m \in Levels /\ Ordered(d, m, x(d))
        /\ \/ \E l \in Locks : step(d) = Lock(l) /\ Level(l) = m
           \/ m = 1 /\ \E timer \in Timers : step(d) = Cancel(timer)
  BY DEF Waits
<1>. HIDE DEF x, step
<1>5. \A d \in D, l \in Locks : step(d) = Lock(l) => holder[l] \in D
  BY <1>2 DEF Lock
<1>6. \A d \in D, timer \in Timers : step(d) = Cancel(timer) => \E e \in D : timer \in Executes(e)
  BY <1>2 DEF Cancel
<1>7. ASSUME NEW l \in Locks, step(c) = Lock(l), Level(l) = n
      PROVE  \E d \in D : \E m : Waits(d, m) /\ n < m
  <2>1. PICK d \in D : holder[l] = d
    BY <1>5, <1>7
  <2>2. PICK m : Waits(d, m)
    BY <1>1
  <2>3. l \in x(d).held
    BY <1>3, <2>1 DEF Held
  <2>4. m \in Levels /\ Ordered(d, m, x(d))
    BY <1>4, <2>2
  <2>5. CASE rq_lock(d) \notin x(d).held
    <3>1. Level(l) < m
      BY <2>3, <2>4, <2>5 DEF Ordered
    <3>. QED BY <1>7, <2>2, <3>1
  <2>6. CASE rq_lock(d) \in x(d).held
    <3>1. holder[rq_lock(d)] = d
      BY <1>3, <2>6 DEF Held
    <3>2. \A t \in Task : task_spin_lock(t) \in x(d).held => Cause(D)
      BY <1>3, <3>1 DEF Held, Cause
    <3>3. m = 2
      BY <2>4, <2>6, <3>2 DEF Ordered
    <3>4. PICK k \in Locks : step(d) = Lock(k) /\ Level(k) = 2
      BY <1>4, <2>2, <3>3
    <3>5. PICK t \in Task : k = task_spin_lock(t)
      BY <3>4, LockTypes
    <3>6. PICK e \in D : holder[k] = e
      BY <1>5, <3>4
    <3>7. PICK j : Waits(e, j)
      BY <1>1
    <3>8. Ordered(e, j, x(e)) /\ k \in x(e).held
      BY <1>3, <1>4, <3>6, <3>7 DEF Held
    <3>9. x(e).running = {period_timer(t)} \/ rq_lock(e) \in x(e).held
      BY <3>5, <3>8 DEF Ordered
    <3>10. CASE x(e).running = {period_timer(t)}
      <4>1. period_timer(t) \in Executes(e)
        BY <1>3, <3>10
      <4>. QED BY <3>1, <3>4, <3>5, <3>6, <4>1 DEF Cause, step
    <3>11. CASE rq_lock(e) \in x(e).held
      <4>1. holder[rq_lock(e)] = e
        BY <1>3, <3>11 DEF Held
      <4>. QED BY <3>5, <3>6, <4>1 DEF Cause
    <3>. QED BY <3>9, <3>10, <3>11
  <2>. QED BY <2>5, <2>6
<1>8. ASSUME n = 1, NEW timer \in Timers, step(c) = Cancel(timer)
      PROVE  \E d \in D : \E m : Waits(d, m) /\ n < m
  <2>1. PICK d \in D : timer \in Executes(d)
    BY <1>6, <1>8
  <2>2. PICK m : Waits(d, m)
    BY <1>1
  <2>3. m \in Levels /\ Ordered(d, m, x(d)) /\ x(d).running # {}
    BY <1>3, <1>4, <2>1, <2>2
  <2>4. m >= 2
    BY <2>3 DEF Ordered
  <2>5. n < m
    BY <1>8, <2>3, <2>4 DEF Levels
  <2>. QED BY <2>2, <2>5
<1>. QED BY <1>4, <1>7, <1>8

\* Levels end at 5: so every deadlock contains such a __schedule.
LEMMA DeadlockCause ==
  ASSUME IInv, NEW D \in SUBSET Cpu, Deadlocked(D)
  PROVE  Cause(D)
<1>. SUFFICES ASSUME ~Cause(D) PROVE FALSE
  OBVIOUS
<1>. DEFINE W == {n \in Levels : \E c \in D : Waits(c, n)}
<1>1. \A n \in W : \E m \in W : n < m
  <2>. SUFFICES ASSUME NEW n \in W PROVE \E m \in W : n < m
    OBVIOUS
  <2>1. PICK c \in D : Waits(c, n)
    OBVIOUS
  <2>. DEFINE Higher(d) == \E m : Waits(d, m) /\ n < m
  <2>a. PICK d \in D : Higher(d)
    BY <2>1, WaitsHigher
  <2>2. PICK m : Waits(d, m) /\ n < m
    BY <2>a
  <2>3. m \in Levels
    BY <2>2 DEF Waits
  <2>. QED BY <2>2, <2>3
<1>2. W # {}
  <2>1. PICK c \in D : Blocked(c)
    BY DEF Deadlocked
  <2>2. PICK n : Waits(c, n)
    BY <2>1, BlockedWaits
  <2>3. n \in Levels
    BY <2>2 DEF Waits
  <2>. QED BY <2>2, <2>3
<1>3. W \subseteq Levels
  OBVIOUS
<1>. HIDE DEF W
<1>. USE DEF Levels
<1>a. 5 \notin W
  BY <1>1, <1>3
<1>4. 4 \notin W
  BY <1>1, <1>3, <1>a
<1>5. 3 \notin W
  BY <1>1, <1>3, <1>a, <1>4
<1>6. 2 \notin W
  BY <1>1, <1>3, <1>a, <1>4, <1>5
<1>7. 1 \notin W
  BY <1>1, <1>3, <1>a, <1>4, <1>5, <1>6
<1>8. 0 \notin W
  BY <1>1, <1>3, <1>a, <1>4, <1>5, <1>6, <1>7
<1>. QED BY <1>2, <1>3, <1>a, <1>4, <1>5, <1>6, <1>7, <1>8

\* What __schedule, the callbacks and the syscalls have left to do is always in order
\* from the locks they hold: by level, but for what __schedule waits for with its run
\* queue locked, a task_spin_lock or, with one, the locks of log_data_point.
THEOREM LockInvariant == Spec => []IInv
<1>1. Init => IInv
  BY InitIInv
<1>2. IInv /\ [Next]_vars => IInv'
  BY NextIInv
<1>. QED BY <1>1, <1>2, PTL DEF Spec

\* For any CPUs, tasks and run queues every deadlock contains a __schedule that waits with
\* its run queue locked, for the task_spin_lock of a period callback in its wake-up or
\* in log_data_point: hrtimer_cancel under tasklist_lock, the priority changes and the
\* wake-ups of the syscalls are in order.
THEOREM DeadlocksAreOfSchedule == Spec => []DeadlocksNeedSchedule
<1>1. IInv => DeadlocksNeedSchedule
  BY DeadlockCause DEF DeadlocksNeedSchedule, Cause
<1>. QED BY <1>1, LockInvariant, PTL

\* Whoever waits, for a lock or in hrtimer_cancel, waits for a CPU with steps left to
\* do: no program returns with a lock, and no timer stays marked behind its callback.
THEOREM WaitsAreForBusyCpus == Spec => []WaitsForBusyCpu
<1>1. IInv => WaitsForBusyCpu
  <2>. SUFFICES ASSUME IInv, NEW c \in Cpu, Blocked(c)
                PROVE  \E d \in Cpu : /\ program[d] # <<>>
                                      /\ \/ Head(program[c]).op = "lock" /\ holder[Head(program[c]).on] = d
                                         \/ Head(program[c]).op = "cancel" /\ Head(program[c]).on \in Executes(d)
    BY DEF WaitsForBusyCpu
  <2>1. ASSUME NEW d \in Cpu, program[d] = <<>> PROVE Held(d) = {} /\ Executes(d) = {}
    <3>1. Traced(d, <<>>, At(Held(d), Executes(d)), Idle)
      BY <2>1 DEF IInv
    <3>2. At(Held(d), Executes(d)) = Idle
      BY <3>1, StateTyped, TracedEmpty
    <3>. QED BY <3>2, StateTyped DEF Idle, At, Doubly
  <2>2. PICK n : Waits(c, n)
    BY BlockedWaits
  <2>. DEFINE step == Head(program[c])
  <2>3. \/ \E l \in Locks : step = Lock(l)
        \/ \E timer \in Timers : step = Cancel(timer)
    BY <2>2 DEF Waits
  <2>4. \/ step.op = "lock" /\ holder[step.on] # Free
        \/ step.op = "cancel" /\ step.on \in active
    BY DEF Blocked
  <2>. HIDE DEF step
  <2>5. ASSUME NEW l \in Locks, step = Lock(l)
        PROVE  \E d \in Cpu : program[d] # <<>> /\ step.op = "lock" /\ holder[step.on] = d
    <3>1. step.op = "lock" /\ step.on = l
      BY <2>5 DEF Lock
    <3>2. holder[l] # Free /\ holder[l] \in Cpu \cup {Free}
      BY <2>4, <3>1 DEF IInv
    <3>3. PICK d \in Cpu : holder[l] = d
      BY <3>2
    <3>4. l \in Held(d)
      BY <3>3 DEF Held
    <3>. QED BY <2>1, <3>1, <3>3, <3>4
  <2>6. ASSUME NEW timer \in Timers, step = Cancel(timer)
        PROVE  \E d \in Cpu : program[d] # <<>> /\ step.op = "cancel" /\ step.on \in Executes(d)
    <3>1. step.op = "cancel" /\ step.on = timer
      BY <2>6 DEF Cancel
    <3>2. timer \in active
      BY <2>4, <3>1
    <3>3. PICK d \in Cpu : timer \in Executes(d)
      BY <3>2 DEF IInv
    <3>. QED BY <2>1, <3>1, <3>3
  <2>. QED BY <2>3, <2>5, <2>6 DEF step
<1>. QED BY <1>1, LockInvariant, PTL
=============================================================================
