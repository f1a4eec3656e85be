---------------------------- MODULE MCRTRegistry ----------------------------
(* Small instances of RTRegistry. *)
EXTENDS RTRegistry

MCSymmetry == Permutations(Process)
=============================================================================
