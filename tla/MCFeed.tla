------------------------------- MODULE MCFeed -------------------------------
(***************************************************************************)
(* Instances of Feed for TLC.                                              *)
(***************************************************************************)
EXTENDS Feed

CONSTANTS s1, s2, m1

\* A browser and services that keep nothing apart, and the least that each property asks.
EachDiscipline == {{"mark"}, {"fetch"}, {"fetch", "notify"}}

EachOnce == [e \in Event |-> 1]
=============================================================================
