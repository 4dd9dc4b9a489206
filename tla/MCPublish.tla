------------------------------ MODULE MCPublish ------------------------------
(* Instances of Publish for TLC.                                             *)
EXTENDS Publish, TLC

CONSTANTS c1, c2, t1, t2, i1, i2, i3, v1

\* Both publishers, with and without each flag.  A call with neither flag is the
\* link of one and the lack of a flush of another.
MCRequests ==
  {[by |-> "writer", val |-> v1, replace |-> FALSE, durable |-> TRUE],
   [by |-> "writer", val |-> v1, replace |-> TRUE, durable |-> FALSE],
   [by |-> "extract", val |-> v1, replace |-> TRUE, durable |-> TRUE]}

\* A file that nothing holds is never looked at again before it is made anew.
Live(f) == [i \in Inodes \ Unused |-> f[i]]
Held == <<dir, ddir, Live(cont), Live(dcont), Live(made), pc, req, temp, file, placed, stray>>

Symmetric == Permutations({c1, c2}) \cup Permutations({t1, t2}) \cup Permutations({i1, i2, i3})
=============================================================================
