------------------------------- MODULE SysClock -------------------------------
(***************************************************************************)
(* The frequency the reservations need: SysClock, one frequency for all    *)
(* tasks, and PM-Clock, a frequency for each task that does not grow with  *)
(* the period.  Pure functions over a task set sorted by period, in        *)
(* microseconds; frequencies are thousandths of the highest one.           *)
(*                                                                         *)
(* A budget of 0, which setProcessBudget accepts, makes the code divide by *)
(* 0: the functions are for positive budgets.                              *)
(***************************************************************************)
EXTENDS RTAdmission

DummyIdle == 234567      \* "dummy high value"

\* Mutant: the tasks of lower priority count, too.
WorkOfAll(list, pos, C) ==
    SumFunction([j \in DOMAIN list |-> (C \div list[j].period + 1) * list[j].budget])

\* The work released up to and at the moment C.
WorkReleased(list, pos, C) ==
    SumFunction([j \in 1 .. pos |-> (C \div list[j].period + 1) * list[j].budget])

\* From C to the next release of a task, but not past the deadline.
idle_duration(list, pos, C) ==
    Min({ceiling(C, list[j].period) * list[j].period - C : j \in 1 .. pos}
          \cup {DummyIdle, list[pos].period - C})

\* A turn of the inner loop, which follows the busy period to its end, or of the
\* outer one over the idle time behind it, where the share of the work in the time
\* past is a candidate.  in_bzp says which.
AlphaTurn(list, pos, s) ==
    LET next == s.slack + WorkReleased(list, pos, s.C)
        idle == idle_duration(list, pos, s.C)
        tW == s.C + idle
        slack == s.slack + idle
    IN  IF s.in_bzp
        THEN [s EXCEPT !.C = next,
                       !.in_bzp = next # s.C /\ next < list[pos].period]
        ELSE [C |-> tW, slack |-> slack, in_bzp |-> TRUE,
              alpha |-> Min({s.alpha, ((tW - slack) * SCALE_UP_FACTOR) \div tW})]

AlphaState ==
    {s \in [C : Nat \ {0}, slack : Nat, alpha : Nat, in_bzp : BOOLEAN] : s.slack <= s.C}

\* From the critical instant to the deadline of task pos.
ComputeAlpha(list, pos, in_bzp) ==
    LET trace[s \in AlphaState] ==
          IF s.C >= list[pos].period THEN s ELSE trace[AlphaTurn(list, pos, s)]
    IN  trace[[C |-> list[pos].budget, slack |-> 0,
               alpha |-> 2 * SCALE_UP_FACTOR, in_bzp |-> in_bzp]]

\* in_bzp is not set again when the next task's turn comes.
AlphaTrace(list) ==
    LET at[pos \in 0 .. Len(list)] ==
          IF pos = 0 THEN [alpha |-> 0, in_bzp |-> TRUE]
          ELSE ComputeAlpha(list, pos, at[pos - 1].in_bzp)
    IN  at

Alphas(list) == [pos \in DOMAIN list |-> AlphaTrace(list)[pos].alpha]

\* In thousandths of the highest frequency; 0 without a task.
sysclock(list) == Max({0} \cup Range(Alphas(list)))

-----------------------------------------------------------------------------
(***************************************************************************)
(* PM-Clock.                                                               *)
(***************************************************************************)

get_max(freq, pos) == Max({freq[j] : j \in pos .. Len(freq)})

\* Mutant: the work is not stretched.
InflatedNot(list, pm_freq, T, w) ==
    MapThenSumSet(LAMBDA j : list[j].budget * (w \div list[j].period + 1),
                  {j \in DOMAIN list : list[j].period <= T /\ pm_freq[j] # 0})

\* What the tasks that have their frequency (pm_freq # 0) and those that have not
\* released up to the moment w, of the tasks with a period up to T.
Inflated(list, pm_freq, T, w) ==
    MapThenSumSet(LAMBDA j : ((list[j].budget * SCALE_UP_FACTOR) \div pm_freq[j])
                               * (w \div list[j].period + 1),
                  {j \in DOMAIN list : list[j].period <= T /\ pm_freq[j] # 0})

Uninflated(list, pm_freq, T, w) ==
    MapThenSumSet(LAMBDA j : list[j].budget * (w \div list[j].period + 1),
                  {j \in DOMAIN list : list[j].period <= T /\ pm_freq[j] = 0})

\* The least frequency for the tasks that have none, with the work of the others
\* stretched by theirs.
inflated_freq(list, pos, pm_freq) ==
    LET T == list[pos].period
        ib(w) == Inflated(list, pm_freq, T, w)
        b(w) == Uninflated(list, pm_freq, T, w)
        busyEnd(S) ==
          LET end[w \in Nat] == IF w < T /\ ib(w) + b(w) + S # w
                                THEN end[ib(w) + b(w) + S] ELSE w
          IN  end
        idle(w) == Min({T - w} \cup {list[j].period * ceiling(w, list[j].period) - w :
                                     j \in 1 .. pos})
        trace[s \in [w : Nat, S : Nat, alpha : Nat]] ==
          LET w == busyEnd(s.S)[s.w]
              t == w + idle(w)
          IN  IF s.w >= T \/ w >= T THEN s.alpha
              ELSE trace[[w |-> t, S |-> s.S + idle(w),
                          alpha |-> Min({s.alpha,
                                         (b(w) * SCALE_UP_FACTOR) \div (t - ib(w))})]]
    IN  trace[[w |-> list[pos].budget, S |-> 0, alpha |-> SCALE_UP_FACTOR]]

\* Where the frequencies still needed are below the one of the task before, they
\* are computed anew.
pmclock(list, alpha) ==
    LET n == Len(list)
        at[i \in 0 .. n] ==
          IF i = 0 THEN [min_freq |-> alpha, pm_freq |-> [j \in 1 .. n |-> 0]]
          ELSE LET s == at[i - 1]
                   lower == i > 1 /\ s.pm_freq[i - 1] > get_max(s.min_freq, i)
                   min_freq == IF lower
                               THEN [j \in 1 .. n |-> IF j < i THEN s.min_freq[j]
                                                      ELSE inflated_freq(list, j, s.pm_freq)]
                               ELSE s.min_freq
               IN  [min_freq |-> min_freq,
                    pm_freq |-> [s.pm_freq EXCEPT ![i] = get_max(min_freq, i)]]
    IN  at[n].pm_freq

-----------------------------------------------------------------------------
(***************************************************************************)
(* References.                                                             *)
(***************************************************************************)

\* The least frequency, in whole thousandths below, at which time-demand analysis
\* finds a moment up to the deadline when the work of task pos is done.
LeastFrequency(list, pos) ==
    Min({(demand(list, pos, t) * SCALE_UP_FACTOR) \div t : t \in 1 .. list[pos].period})

\* Every task meets its deadline when task i runs at freq[i]: time-demand analysis
\* in parts of a microsecond.  The work done at one frequency is rounded up once, so
\* that with a single frequency the comparison is exact.
Resolution == 10000

FeasibleAt(list, freq) ==
    LET jobs(pos, i, t) == IF i = pos THEN 1 ELSE ceiling(t, list[i].period)
        workAt(pos, f, t) == MapThenSumSet(LAMBDA i : jobs(pos, i, t) * list[i].budget,
                                           {i \in 1 .. pos : freq[i] = f})
        time(pos, f, t) == ceiling(workAt(pos, f, t) * Resolution * SCALE_UP_FACTOR, f)
    IN  \A pos \in DOMAIN list : \E t \in 1 .. list[pos].period :
            MapThenSumSet(LAMBDA f : time(pos, f, t), {freq[i] : i \in 1 .. pos})
              <= t * Resolution
=============================================================================
