------------------------------ MODULE CasStore ------------------------------
(***************************************************************************)
(* What store.go promises a publisher of one object, the pointer: a read   *)
(* returns the current version, a Put with IfMatch replaces exactly the    *)
(* version it was computed from, and a Put that returned nil survives a    *)
(* power loss.  Nothing here knows of locks, ETags or temporary files.     *)
(***************************************************************************)
EXTENDS Naturals, Sequences

CONSTANTS Writers, None

VARIABLES
  log,     \* the durable version, then the versions put since, in order
  seen,    \* the version each writer read last
  mine,    \* the version a writer has put and not yet heard about
  used,    \* every version ever put: a version is never put twice
  acked    \* the versions whose Put returned nil

casVars == <<log, seen, mine, used, acked>>

CasInit ==
  /\ log = <<None>>
  /\ seen = [w \in Writers |-> None]
  /\ mine = [w \in Writers |-> None]
  /\ used = {}
  /\ acked = {}

(* A reader sees the last version put, durable or not.                     *)
Read(w) ==
  /\ seen' = [seen EXCEPT ![w] = log[Len(log)]]
  /\ UNCHANGED <<log, mine, used, acked>>

(* The compare-and-swap: the version replaced is the one the writer read.  *)
Swap(w, v) ==
  /\ seen[w] = log[Len(log)]
  /\ v \notin used
  /\ log' = Append(log, v)
  /\ mine' = [mine EXCEPT ![w] = v]
  /\ used' = used \cup {v}
  /\ UNCHANGED <<seen, acked>>

Settle ==
  /\ log' = <<log[Len(log)]>>
  /\ UNCHANGED <<seen, mine, used, acked>>

(* Put returns nil only once a power loss can no longer undo it.           *)
Acknowledge(w) ==
  /\ \A i \in 2..Len(log) : log[i] # mine[w]
  /\ mine[w] # None
  /\ mine' = [mine EXCEPT ![w] = None]
  /\ seen' = [seen EXCEPT ![w] = None]
  /\ acked' = acked \cup {mine[w]}
  /\ UNCHANGED <<log, used>>

(* Put returns an error, or its process dies: the version may or may not   *)
(* have replaced the old one, and the writer does not know.                *)
GiveUp(w) ==
  /\ mine' = [mine EXCEPT ![w] = None]
  /\ seen' = [seen EXCEPT ![w] = None]
  /\ UNCHANGED <<log, used, acked>>

(* The directory falls back to the durable version or to one put since.    *)
PowerLoss ==
  /\ \E i \in 1..Len(log) : log' = <<log[i]>>
  /\ seen' = [w \in Writers |-> None]
  /\ mine' = [w \in Writers |-> None]
  /\ UNCHANGED <<used, acked>>

CasNext ==
  \/ \E w \in Writers : Read(w) \/ Acknowledge(w) \/ GiveUp(w)
  \/ \E w \in Writers : \E v \in (used' \ used) : Swap(w, v)
  \/ Settle
  \/ PowerLoss

CasSpec == CasInit /\ [][CasNext]_casVars
=============================================================================
