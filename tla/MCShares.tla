------------------------------ MODULE MCShares ------------------------------
(***************************************************************************)
(* Instances of Shares for TLC.                                            *)
(***************************************************************************)
EXTENDS Shares, TLC

CONSTANTS v1, v2

Visitors == Permutations(Visitor)
EachOnce == [e \in Event |-> 1]

\* A link for a single download, one that is locked and expires, and a maximum of zero,
\* which the field lets the owner type.
Forms == {[NoForm EXCEPT !.limit = 1], [limit |-> NoLimit, locked |-> TRUE, expires |-> TRUE],
          [NoForm EXCEPT !.limit = 0]}
=============================================================================
