--------------------------- MODULE ReservationSet ---------------------------
(***************************************************************************)
(* What the registry of reservations promises its callers, without links,  *)
(* counters, flags, an order or a test: who holds which reservation.  One  *)
(* is granted only if all of them then fit the processor, and a grant or a *)
(* withdrawal changes the reservation of nobody else.                      *)
(*                                                                         *)
(* RTRegistry implements this specification (its Abstract).                *)
(***************************************************************************)
EXTENDS Integers, Functions

CONSTANTS
    Process,      \* who may hold a reservation
    Request       \* the reservations callers ask for, [budget, period] records

VARIABLE granted  \* the reservation of each process that holds one

\* The jobs a reservation has released before the moment a.
Jobs(period, a) == (a - 1) \div period + 1

\* The work the processes with periods up to that of p have released before a.
Demand(g, p, a) ==
    SumFunctionOnSet([q \in DOMAIN g |-> Jobs(g[q].period, a) * g[q].budget],
                     {q \in DOMAIN g : g[q].period <= g[p].period})

\* Everyone has a moment up to the deadline when all that work is done.
Fits(g) == \A p \in DOMAIN g : \E a \in 1 .. g[p].period : Demand(g, p, a) <= a

Init == granted = [p \in {} |-> p]

\* p gets a reservation, in place of the one it had if it had one.  (new is a bound
\* variable so that TLC evaluates the mapping to granted' once.)
Grant(p) ==
    \E new \in {granted'} :
        /\ p \in DOMAIN new
        /\ new[p] \in Request
        /\ new[p].budget < new[p].period
        /\ new = [q \in DOMAIN granted \cup {p} |-> IF q = p THEN new[p] ELSE granted[q]]
        /\ Fits(new)

Withdraw(p) ==
    /\ p \in DOMAIN granted
    /\ granted' = [q \in DOMAIN granted \ {p} |-> granted[q]]

Next == \E p \in Process : Grant(p) \/ Withdraw(p)

Spec == Init /\ [][Next]_granted
=============================================================================
