----------------------------- MODULE FuncMatch -----------------------------
(***************************************************************************)
(* Pairing the functions of two releases: src/delta/match.go.              *)
(*                                                                         *)
(* A match is [n2o, o2n], per function of one release the index of its     *)
(* counterpart in the other, 0 for none.                                   *)
(***************************************************************************)
EXTENDS GoBin, X86

CONSTANTS
  Numbered,   \* name cells that stand for .func, .deferwrap and .gowrap
  Digits      \* name cells that are numbers

(* normName: the numbers the compiler appends become one mark.             *)
NormName(s) ==
  [i \in 1..Len(s) |-> IF i > 1 /\ s[i - 1] \in Numbered /\ s[i] \in Digits THEN 0 ELSE s[i]]

Unpaired(to) == SelectSeq([i \in 1..Len(to) |-> i], LAMBDA i : to[i] = 0)

(* pair: among the functions still unpaired, the k-th new one of a key     *)
(* takes the k-th old one of it.                                           *)
Pair(m, OldKey(_), NewKey(_)) ==
  LET cand(j) == SelectSeq(Unpaired(m.o2n), LAMBDA i : OldKey(i) = NewKey(j))
      rank(j) == Cardinality({k \in 1..j : m.n2o[k] = 0 /\ NewKey(k) = NewKey(j)})
      n2o == [j \in 1..Len(m.n2o) |->
                IF m.n2o[j] # 0 THEN m.n2o[j]
                ELSE IF rank(j) <= Len(cand(j)) THEN cand(j)[rank(j)] ELSE 0]
      back(i) == {j \in 1..Len(n2o) : n2o[j] = i}
  IN [n2o |-> n2o, o2n |-> [i \in 1..Len(m.o2n) |-> IF back(i) = {} THEN 0 ELSE Max(back(i))]]

(* contentHashes: the code of each function, displacements masked.         *)
ContentHashes(b) == [i \in 1..Len(b.funcs) |-> ContentHash(FuncBytes(b, b.funcs[i]))]

(* matchFuncs: by name, then by normalised name, then by code.             *)
MatchFuncs(old, new) ==
  LET none == [n2o |-> [j \in 1..Len(new.funcs) |-> 0], o2n |-> [i \in 1..Len(old.funcs) |-> 0]]
      exact == Pair(none, LAMBDA i : old.funcs[i].name, LAMBDA j : new.funcs[j].name)
      norm == Pair(exact, LAMBDA i : NormName(old.funcs[i].name), LAMBDA j : NormName(new.funcs[j].name))
      oh == ContentHashes(old)
      nh == ContentHashes(new)
  IN Pair(norm, LAMBDA i : oh[i], LAMBDA j : nh[j])
=============================================================================
