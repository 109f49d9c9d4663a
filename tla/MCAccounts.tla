----------------------------- MODULE MCAccounts -----------------------------
(***************************************************************************)
(* Instances of Accounts for TLC.                                          *)
(***************************************************************************)
EXTENDS Accounts, TLC

CONSTANTS t1, t2, p1, p2, n1, n2

Alike == Permutations(Tab) \cup Permutations(Password) \cup Permutations(Name)
EachOnce == [e \in Event |-> 1]
=============================================================================
