---------------------------- MODULE ExtractCache ----------------------------
(***************************************************************************)
(* romx_extract_payload_cache (src/src/extract.c): a directory of payloads *)
(* extracted earlier, each under the name of its SHA-256.  A call reads    *)
(* the container up to three times (integrity, name, copy), looks at the   *)
(* entry before and after, and takes no lock; other calls extract to the   *)
(* same directory, the container may be changed in place, and anything may *)
(* happen to the entries, of which nothing in the library takes care.      *)
(*                                                                         *)
(* How a file reaches its name is the subject of Publish; here it is one   *)
(* step.  A SHA-256 stands for the content it is computed over, so that an *)
(* entry's name is the content it should hold.                             *)
(***************************************************************************)
EXTENDS Naturals, Sequences

CONSTANTS
  Callers,   \* threads that extract, each in any process
  Bytes,     \* values of one chunk of the payload
  Length,    \* chunks of the payload
  Original,  \* the payload when the container was written
  Changes,   \* bound on the changes made to the container
  Spoilt,    \* a file of another size, or bytes that no container holds
  None

Contents == [1 .. Length -> Bytes]

ASSUME ExtractCacheAssumption ==
  /\ Length \in Nat \ {0}
  /\ Original \in Contents
  /\ Changes \in Nat
  /\ None \notin Contents \cup {Spoilt}
  /\ Spoilt \notin Contents \cup {None}

VARIABLES
  payload,   \* the container's payload
  footer,    \* the immutable SHA-256 in its footer, if it has one
  entry,     \* per name, the file in the cache directory
  pc,        \* per call: its next step
  seen,      \* per call: what it has read of the payload in the present pass
  want,      \* per call: the SHA-256 it has computed
  changes,   \* the changes made to the container
  foreign,   \* history: names whose file was last written from outside
  changed,   \* history: calls during which the container changed
  touched    \* history: calls whose entry an outsider touched since their last look

ghosts == <<foreign, changed, touched>>
vars == <<payload, footer, entry, pc, seen, want, changes, ghosts>>

Passes == {"validate", "hash", "copy"}

Init ==
  /\ payload = Original
  /\ footer \in {None, Original}
  /\ entry = [h \in Contents |-> None]
  /\ pc = [c \in Callers |-> "idle"]
  /\ seen = [c \in Callers |-> <<>>]
  /\ want = [c \in Callers |-> None]
  /\ changes = 0
  /\ foreign = {}
  /\ changed = {}
  /\ touched = {}

Goto(c, step) ==
  /\ pc' = [pc EXCEPT ![c] = step]
  /\ seen' = [seen EXCEPT ![c] = IF step = "publish" THEN @ ELSE <<>>]

-----------------------------------------------------------------------------
\* Mutant: the container is not checked against its footer.
BeginUnchecked(c) ==
  /\ pc[c] = "idle"
  /\ Goto(c, "hash")
  /\ changed' = changed \ {c}
  /\ touched' = touched \ {c}
  /\ UNCHANGED <<payload, footer, entry, want, changes, foreign>>

\* romx_validate_required_integrity reads nothing when the footer has no hash.
Begin(c) ==
  /\ pc[c] = "idle"
  /\ Goto(c, IF footer = None THEN "hash" ELSE "validate")
  /\ changed' = changed \ {c}
  /\ touched' = touched \ {c}
  /\ UNCHANGED <<payload, footer, entry, want, changes, foreign>>

\* One round of the loops in romx_hash_region and write_region_temp.
ReadChunk(c) ==
  /\ pc[c] \in Passes
  /\ Len(seen[c]) < Length
  /\ seen' = [seen EXCEPT ![c] = Append(@, payload[Len(@) + 1])]
  /\ UNCHANGED <<payload, footer, entry, pc, want, changes, ghosts>>

Read(c) == Len(seen[c]) = Length

\* The immutable hash is compared with the footer's.
Validated(c) ==
  /\ pc[c] = "validate"
  /\ Read(c)
  /\ Goto(c, IF seen[c] = footer THEN "hash" ELSE "failed")
  /\ UNCHANGED <<payload, footer, entry, want, changes, ghosts>>

\* The path is made of the hash.
Named(c) ==
  /\ pc[c] = "hash"
  /\ Read(c)
  /\ want' = [want EXCEPT ![c] = seen[c]]
  /\ Goto(c, "match")
  /\ UNCHANGED <<payload, footer, entry, changes, ghosts>>

\* Mutant: a file of that name will do.
MatchesName(h) == entry[h] # None

\* existing_file_matches: size and SHA-256 of the file that is there.
Matches(h) == entry[h] = h

\* The entry is there already: no byte is copied and no flush takes place,
\* whatever the call's flags.  A file that cannot be read is no match.
Match(c) ==
  /\ pc[c] = "match"
  /\ \/ Matches(want[c]) /\ Goto(c, "ok")
     \/ Goto(c, "copy")
  /\ touched' = touched \ {c}
  /\ UNCHANGED <<payload, footer, entry, want, changes, foreign, changed>>

\* Mutant: what was copied is not compared with the name.
CopiedUnchecked(c) ==
  /\ pc[c] = "copy"
  /\ Read(c)
  /\ Goto(c, "publish")
  /\ UNCHANGED <<payload, footer, entry, want, changes, ghosts>>

\* The end of write_region_temp: a copy with another hash is removed again.
Copied(c) ==
  /\ pc[c] = "copy"
  /\ Read(c)
  /\ Goto(c, IF seen[c] = want[c] THEN "publish" ELSE "failed")
  /\ UNCHANGED <<payload, footer, entry, want, changes, ghosts>>

\* Mutant: the inner call has the caller's flags and leaves an entry alone.
PlaceNew(c) ==
  /\ pc[c] = "publish"
  /\ entry' = [entry EXCEPT ![want[c]] = IF @ = None THEN seen[c] ELSE @]
  /\ foreign' = IF entry[want[c]] = None THEN foreign \ {want[c]} ELSE foreign
  /\ Goto(c, "again")
  /\ UNCHANGED <<payload, footer, want, changes, changed, touched>>

\* The flags of the inner call always ask for a replacement, so that two calls
\* that copy the same payload both succeed.
Place(c) ==
  /\ pc[c] = "publish"
  /\ entry' = [entry EXCEPT ![want[c]] = seen[c]]
  /\ foreign' = foreign \ {want[c]}
  /\ Goto(c, "again")
  /\ UNCHANGED <<payload, footer, want, changes, changed, touched>>

\* The second look gives one answer for a file with other bytes and for a file
\* that cannot be opened or read, whatever is in it.
MatchAgain(c) ==
  /\ pc[c] = "again"
  /\ \/ Matches(want[c]) /\ Goto(c, "ok") /\ touched' = touched \ {c}
     \/ Goto(c, "mismatch") /\ touched' = touched
  /\ UNCHANGED <<payload, footer, entry, want, changes, foreign, changed>>

\* Anything else: memory, a buffer too small for the path, the directory, a
\* read or write error, the flush, the rename.
Fails(c) ==
  /\ pc[c] \in Passes \cup {"match", "publish"}
  /\ Goto(c, "failed")
  /\ UNCHANGED <<payload, footer, entry, want, changes, ghosts>>

\* The call returns, or is killed.
Leave(c) ==
  /\ pc[c] # "idle"
  /\ Goto(c, "idle")
  /\ want' = [want EXCEPT ![c] = None]
  /\ changed' = changed \ {c}
  /\ touched' = touched \ {c}
  /\ UNCHANGED <<payload, footer, entry, changes, foreign>>

-----------------------------------------------------------------------------
\* The container is not locked by a reader: a chunk of it may change in place.
Change(i, b) ==
  /\ changes < Changes
  /\ payload[i] # b
  /\ payload' = [payload EXCEPT ![i] = b]
  /\ changes' = changes + 1
  /\ changed' = {c \in Callers : pc[c] # "idle"}
  /\ UNCHANGED <<footer, entry, pc, seen, want, foreign, touched>>

\* An entry is removed, cut short, overwritten, or lost with the power.
Tamper(h, f) ==
  /\ entry[h] # f
  /\ entry' = [entry EXCEPT ![h] = f]
  /\ foreign' = foreign \cup {h}
  /\ touched' = touched \cup {c \in Callers : want[c] = h}
  /\ UNCHANGED <<payload, footer, pc, seen, want, changes, changed>>

Step(c) ==
  \/ Begin(c) \/ ReadChunk(c) \/ Validated(c) \/ Named(c) \/ Match(c)
  \/ Copied(c) \/ Place(c) \/ MatchAgain(c) \/ Fails(c) \/ Leave(c)

Next ==
  \/ \E c \in Callers : Step(c)
  \/ \E i \in 1 .. Length, b \in Bytes : Change(i, b)
  \/ \E h \in Contents, f \in {None, Spoilt} : Tamper(h, f)

Spec == Init /\ [][Next]_vars

-----------------------------------------------------------------------------
\* A path that is returned names a file that holds the payload its name says,
\* unless an outsider touched the file after the call last looked at it: no
\* other call of the library can take it away or put something else there.
PathHolds == \A c \in Callers : pc[c] = "ok" => entry[want[c]] = want[c] \/ c \in touched

\* What the library has put under a name is what the name says, even when the
\* container changes between the pass that makes the name and the one that copies.
EntriesHoldTheirHash == \A h \in Contents \ foreign : entry[h] \in {None, h}

\* A container with a hash in its footer is extracted as it was written,
\* unless it changed during the call.
AuthenticUnlessChanged ==
  footer # None => \A c \in Callers : pc[c] = "ok" => want[c] = footer \/ c \in changed

\* From its publication until the call has returned, also when the second look
\* says "published cache payload failed verification", the file is at its name:
\* no race of the library's own calls for the entry takes it away, so that the
\* answer tells of an outsider or of a file that could not be read.
PublishedStays ==
  \A c \in Callers :
    pc[c] \in {"again", "mismatch"} => entry[want[c]] = want[c] \/ c \in touched
=============================================================================
