----------------------------- MODULE MCListing ------------------------------
(***************************************************************************)
(* Instances of Listing for TLC.                                           *)
(***************************************************************************)
EXTENDS Listing

CONSTANTS f0, f1, f2, n1, d1, d2

Once == [e \in Event |-> 1]

\* One event of each kind; a lost call; and a call about a file that is deleted meanwhile.
Combined == {{e} : e \in Event} \cup {{"net", "renameFolder"}, {"renameFile", "deleteFile"}}
=============================================================================
