---------------------------- MODULE MCSelfUpdate ----------------------------
(***************************************************************************)
(* SelfUpdate on small instances.                                          *)
(***************************************************************************)
EXTENDS SelfUpdate, TLC

CONSTANTS r1, r2, r3, p1, p2, p3

\* r1 and r2 come up, r3 does not; the process slots are interchangeable.
Symmetry == Permutations({r1, r2}) \cup Permutations(Procs)
=============================================================================
