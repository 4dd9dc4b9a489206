----------------------------- MODULE MCContainer -----------------------------
(* Instances of Container for TLC.                                           *)
EXTENDS Container

\* One to three entries, empty ones included, with every entrypoint; mutable
\* regions that fit and ones that are refused.
MCJobs ==
  {[sizes |-> s, start |-> e, metadata |-> m, cover |-> v, capacity |-> c, slots |-> n] :
     s \in UNION {[1 .. k -> 0 .. 2] : k \in 1 .. 3}, e \in 1 .. 3,
     m \in 0 .. 1, v \in {0, 2}, c \in {0, 5, 6, 8}, n \in 2 .. 4}
=============================================================================
