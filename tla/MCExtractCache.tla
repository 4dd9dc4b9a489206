--------------------------- MODULE MCExtractCache ---------------------------
(* Instances of ExtractCache for TLC.                                        *)
EXTENDS ExtractCache, TLC

CONSTANTS c1, c2, a, b

MCOriginal == <<a, a>>

Symmetric == Permutations({c1, c2})
=============================================================================
