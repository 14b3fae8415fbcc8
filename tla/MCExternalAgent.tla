--------------------------- MODULE MCExternalAgent ---------------------------
(***************************************************************************)
(* ExternalAgent on small instances.                                       *)
(***************************************************************************)
EXTENDS ExternalAgent, TLC

CONSTANTS r1, r2, r3

\* r1 and r2 are interchangeable; r3 is the release that never gets healthy.
Symmetry == Permutations({r1, r2})
=============================================================================
