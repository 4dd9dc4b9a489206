------------------------------ MODULE MCBundle ------------------------------
(* An instance of Bundle for TLC.  Paths 1 and 3 differ only in case, and    *)
(* path 2 comes between them.                                                *)
EXTENDS Bundle

MCPathSize == <<1, 1, 2>>
MCFold == <<1, 2, 1>>

\* An empty file, one that ends inside a unit of alignment, two versions of one
\* that crosses a boundary.
MCContents == {<<>>, <<7>>, <<7, 8, 7>>, <<8, 8, 8>>}

MCRequests == {<<>>, <<3>>, <<2, 1>>, <<2, 3>>, <<3, 2, 1>>}
=============================================================================
