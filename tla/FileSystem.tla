----------------------------- MODULE FileSystem -----------------------------
(***************************************************************************)
(* What folders promise: every folder and every file is in one place, the  *)
(* top level or a folder there is; a folder never moves into itself or     *)
(* what is below it; deleting a folder deletes what is below it and        *)
(* nothing else. Each happens at once, or not at all.                      *)
(***************************************************************************)
EXTENDS Naturals

CONSTANTS Folder, File, Home, SeedParent, SeedFolder, Create, Arrive

VARIABLES
    parent,  \* of each folder there is: the folder it is in, or Home
    place,   \* of each file there is: the folder it is in, or Home
    fresh    \* the ids nothing has had yet

vars == <<parent, place, fresh>>

Init == parent = SeedParent /\ place = SeedFolder /\ fresh = Create \cup Arrive

Target(p) == p = Home \/ p \in DOMAIN parent

\* A set that is closed downwards, and the least one that holds folder x.
HoldsChildren(S) == \A y \in DOMAIN parent : parent[y] \in S => y \in S
Below(x) ==
    {y \in DOMAIN parent :
        \A S \in SUBSET DOMAIN parent : x \in S /\ HoldsChildren(S) => y \in S}

With(at, x, p) == [y \in DOMAIN at \cup {x} |-> IF y = x THEN p ELSE at[y]]

NewFolder(x, p) ==
    /\ x \in fresh /\ Target(p)
    /\ parent' = With(parent, x, p) /\ fresh' = fresh \ {x} /\ UNCHANGED place

NewFile(x, p) ==
    /\ x \in fresh /\ Target(p)
    /\ place' = With(place, x, p) /\ fresh' = fresh \ {x} /\ UNCHANGED parent

MoveFolder(x, p) ==
    /\ x \in DOMAIN parent /\ Target(p) /\ p \notin Below(x)
    /\ parent' = With(parent, x, p) /\ UNCHANGED <<place, fresh>>

MoveFile(x, p) ==
    /\ x \in DOMAIN place /\ Target(p)
    /\ place' = With(place, x, p) /\ UNCHANGED <<parent, fresh>>

Delete(x) ==
    /\ x \in DOMAIN parent
    /\ parent' = [y \in DOMAIN parent \ Below(x) |-> parent[y]]
    /\ place' = [y \in {z \in DOMAIN place : place[z] \notin Below(x)} |-> place[y]]
    /\ UNCHANGED fresh

Next ==
    \/ \E x \in Folder, p \in Folder \cup {Home} : NewFolder(x, p) \/ MoveFolder(x, p)
    \/ \E x \in File, p \in Folder \cup {Home} : NewFile(x, p) \/ MoveFile(x, p)
    \/ \E x \in Folder : Delete(x)

Spec == Init /\ [][Next]_vars
=============================================================================
