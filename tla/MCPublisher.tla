----------------------------- MODULE MCPublisher -----------------------------
(***************************************************************************)
(* Publisher on small instances.                                           *)
(***************************************************************************)
EXTENDS Publisher, TLC

CONSTANTS r1, r2, r3, p1, p2

\* Both machines run one encoder version, or one each.
SameEncoder == p1 :> 1 @@ p2 :> 1
TwoEncoders == p1 :> 1 @@ p2 :> 2

\* With one encoder version the machines are interchangeable.
Machines == Permutations({p1, p2})

\* Three runs of two machines, or five of one.
Runs == TRUE :> 3 @@ FALSE :> 5

\* The patch from r3 to r1 is as large as a blob.
Big == {<<r3, r1>>}

=============================================================================
