----------------------------- MODULE MCFreeExtent -----------------------------
(* Instances of FreeExtent for TLC: every placement of up to three extents.   *)
EXTENDS FreeExtent, TLC

CONSTANTS k0, k1, k2, v

KeyAt(s) == IF s = 0 THEN k0 ELSE IF s = 1 THEN k1 ELSE k2
MCFold == [k \in Keys |-> k]
MCSize == [x \in Values |-> 8]

\* Extents of part of a cell, a cell, and more than a cell; some overlap, some
\* reach past the end of the data area, and are unusable then.
Extents(s) ==
  {Free} \cup
  {[state |-> "active", key |-> KeyAt(s), off |-> off, cap |-> size, val |-> v, gen |-> 1] :
     off \in {0, 64, 128, 192}, size \in {40, 64, 100}}

MCDirectories == {d \in [Slots -> UNION {Extents(s) : s \in Slots}] : \A s \in Slots : d[s] \in Extents(s)}
=============================================================================
