--------------------------- MODULE FileLifecycle ---------------------------
(***************************************************************************)
(* What the processing pipeline promises of one upload: it is accepted     *)
(* once, an image or video is then processed once, and the outcome is      *)
(* final.                                                                  *)
(***************************************************************************)
CONSTANTS File, Media       \* Media: the files that need a worker

VARIABLE status

Init == status = [f \in File |-> "pending"]

Accept(f) ==
    /\ status[f] = "pending"
    /\ status' = [status EXCEPT ![f] = IF f \in Media THEN "processing" ELSE "ready"]

Finish(f) ==
    /\ status[f] = "processing"
    /\ \E outcome \in {"ready", "failed"} : status' = [status EXCEPT ![f] = outcome]

Next == \E f \in File : Accept(f) \/ Finish(f)

SafeSpec == Init /\ [][Next]_status

Spec == SafeSpec /\ \A f \in File : WF_status(Finish(f))
=============================================================================
