---------------------------- MODULE MCEntryAccess ----------------------------
(* An instance of EntryAccess for TLC: every entry of a file of three pages. *)
EXTENDS EntryAccess

MCEntries == {[offset |-> a, size |-> n] : a \in 0 .. FileSize - 1, n \in 0 .. FileSize}
               \cap {[offset |-> a, size |-> b - a] : a \in 0 .. FileSize - 1, b \in 0 .. FileSize}

MCCursorEntries == {[offset |-> 1, size |-> 3]}
=============================================================================
