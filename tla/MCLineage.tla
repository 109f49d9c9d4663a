----------------------------- MODULE MCLineage -----------------------------
(***************************************************************************)
(* Instances of Lineage for TLC: two uploaded files f and g, two new       *)
(* versions, two restores, a rewrite and a delete.                         *)
(***************************************************************************)
EXTENDS Lineage, TLC

CONSTANTS f, g, u1, u2, s1, s2, w1, d1

\* A client that keeps nothing apart, one that keeps its uploads and edits
\* apart from everything else, and one that keeps its edits and deletes apart.
Careless == {{}}
EveryDiscipline == {{}, Upload \cup Rewrite, Rewrite \cup Delete}

Twins == Permutations({u1, u2}) \cup Permutations({s1, s2}) \cup Permutations({f, g})
=============================================================================
