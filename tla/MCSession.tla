------------------------------ MODULE MCSession ------------------------------
(***************************************************************************)
(* Instances of Session for TLC.                                           *)
(***************************************************************************)
EXTENDS Session

CONSTANTS q1, q2

Few(events) == [e \in Event |-> IF e \in events THEN 1 ELSE 0]

Everything == Few(Event)
Nothing == Few({})
=============================================================================
