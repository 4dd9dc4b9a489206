--------------------------- MODULE MCStatsSession ---------------------------
(* An instance of StatsSession for TLC.                                      *)
EXTENDS StatsSession

\* Every document over these names and numbers; 9 is past the limit.
Over(names) == UNION {[ns -> {0, 1, 9}] : ns \in SUBSET names}

Nested == {[n \in DOMAIN d \cup {"achievements"} |-> IF n = "achievements" THEN 0 ELSE d[n]] :
             d \in Over({"unlocked", "total", "hardcore"})}

\* The checks of a parser concern one group of fields each.
MCForeignDocs == Over({"play", "first", "last"}) \cup Over({"play", "percent"}) \cup Nested
=============================================================================
