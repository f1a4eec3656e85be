----------------------------- MODULE MCLockOrder -----------------------------
(* All tasks on the run queue of one CPU.  That one switch logs only one of its    *)
(* tasks, BothLogs = FALSE, is a bound: the logs are written one after the other.  *)
EXTENDS LockOrder, TLC

CONSTANT MCBusyCpu

MCSymmetry == Permutations(Task) \cup Permutations(Cpu \ {MCBusyCpu})

MCHome == [t \in Task |-> MCBusyCpu]
=============================================================================
