------------------------------ MODULE GoAware ------------------------------
(***************************************************************************)
(* The two levels at which the Go-aware codec runs concurrently: a content *)
(* map built by several goroutines, and a prediction, in which every map   *)
(* is the one a single pass builds.  A behaviour is one or the other.      *)
(***************************************************************************)
EXTENDS Predict, Sections, ShardedMap

GoAwareInit == (MapInit /\ PredictIdle) \/ (PredictInit /\ MapIdle)

GoAwareNext ==
  \/ MapNext /\ UNCHANGED pvars
  \/ PredictNext /\ UNCHANGED mvars

GoAwareSpec == GoAwareInit /\ [][GoAwareNext]_<<mvars, pvars>>
=============================================================================
