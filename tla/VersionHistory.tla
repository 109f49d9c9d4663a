--------------------------- MODULE VersionHistory ---------------------------
(***************************************************************************)
(* What version history promises of each file: an upload adds the next     *)
(* version and shows it, a restore shows a version that is there, and a    *)
(* delete takes them all. Each happens at once, or not at all.             *)
(***************************************************************************)
EXTENDS Naturals

CONSTANTS Root, Version, NoFile

VARIABLES
    history,  \* the versions of each file, with their numbers
    shown     \* the version of each file the listings show

vars == <<history, shown>>

Init ==
    /\ history = [r \in Root |-> {<<r, 1>>}]
    /\ shown = [r \in Root |-> r]

IsNew(v) == \A r \in Root : \A entry \in history[r] : entry[1] # v

Add(r, v) ==
    /\ IsNew(v)
    /\ \E last \in history[r] :
        /\ \A entry \in history[r] : entry[2] <= last[2]
        /\ history' = [history EXCEPT ![r] = @ \cup {<<v, last[2] + 1>>}]
    /\ shown' = [shown EXCEPT ![r] = v]

Show(r, v) ==
    /\ \E entry \in history[r] : entry[1] = v
    /\ shown' = [shown EXCEPT ![r] = v]
    /\ UNCHANGED history

Remove(r) ==
    /\ history' = [history EXCEPT ![r] = {}]
    /\ shown' = [shown EXCEPT ![r] = NoFile]

Next == \E r \in Root : Remove(r) \/ \E v \in Version : Add(r, v) \/ Show(r, v)

Spec == Init /\ [][Next]_vars
=============================================================================
