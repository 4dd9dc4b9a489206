--------------------------- MODULE MCMutableReader ---------------------------
(* Instances of MutableReader for TLC.                                      *)
EXTENDS MutableReader, TLC

CONSTANTS k1, k2, o1, o2, small, large, w1, p1, p2

MCFold == [k \in Keys |-> IF k = k2 THEN o2 ELSE o1]
MCSize == [v \in Values |-> IF v = large THEN 100 ELSE 40]
MCProcess == [w \in Writers |-> p1]

\* Without a power loss nothing reads the disk: states that differ only in
\* ddir and ddata have the same future.
PageCache == <<region, lock, pc, locals, allowed, reader, session>>

\* The two objects are alike: exchanging their names and their keys together
\* turns a behaviour into another.
Exchanges == {f @@ g : f \in Permutations(Objects), g \in Permutations(Keys)}
Alike == {h \in Exchanges : \A k \in Keys : h[Fold[k]] = Fold[h[k]]}
=============================================================================
