--------------------------- MODULE MCMutableCommit ---------------------------
(* Instances of MutableCommit for TLC.                                      *)
EXTENDS MutableCommit, TLC

CONSTANTS k1, K1, k2, o1, o2, small, other, large, w1, w2, p1, p2

\* k1 and K1 differ only in case.
MCFold == [k \in Keys |-> IF k = k2 THEN o2 ELSE o1]

\* One cell, one cell and two cells, none filled to its end.
MCSize == [v \in Values |-> IF v = large THEN 66 ELSE 2]

OneProcessEach == [w \in Writers |-> IF w = w1 THEN p1 ELSE p2]
SameProcess == [w \in Writers |-> p1]

\* Two writers in a process each are alike, and so are two objects with a key each:
\* exchanging names together with what belongs to them turns a behaviour into another.
Exchanges ==
  {f @@ g @@ h @@ i : f \in Permutations(Writers), g \in Permutations(Processes),
                      h \in Permutations(Keys), i \in Permutations(Objects)}
Alike ==
  {e \in Exchanges :
     /\ \A w \in Writers : e[ProcessOf[w]] = ProcessOf[e[w]]
     /\ \A k \in Keys : e[Fold[k]] = Fold[e[k]]}
=============================================================================
