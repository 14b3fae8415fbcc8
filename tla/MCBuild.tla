------------------------------- MODULE MCBuild -------------------------------
(***************************************************************************)
(* Build on every pointer of up to three edges over two releases, and a    *)
(* blob of a few frames.                                                   *)
(***************************************************************************)
EXTENDS Build
=============================================================================
