---------------------------- MODULE MCFolderTree ----------------------------
(***************************************************************************)
(* Instances of FolderTree for TLC: folders a and b, b inside a; one or    *)
(* two calls of each kind.                                                 *)
(***************************************************************************)
EXTENDS FolderTree

CONSTANTS a, b, n1, m1, m2, d1, p1, t1

Nested == [s \in Seed |-> IF s = b THEN a ELSE Home]
NoSeedFile == [s \in SeedFile |-> Home]

\* Three clients: one moves one folder at a time (and its files while nothing else
\* is going on), one deletes while nothing else is going on, one keeps to both.
OneMoveAtATime == (Move \X Move) \cup ((Put \cup Arrive) \X Call) \cup (Call \X (Put \cup Arrive))
LoneDeletes == (Drop \X Call) \cup (Call \X Drop)
Disciplined == {OneMoveAtATime, LoneDeletes, LoneDeletes \cup (Move \X Move)}
=============================================================================
