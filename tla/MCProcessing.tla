---------------------------- MODULE MCProcessing ----------------------------
(***************************************************************************)
(* Instances of Processing for TLC: at most three files a, b and c, three  *)
(* complete calls and one updateFile call.                                 *)
(***************************************************************************)
EXTENDS Processing

CONSTANTS a, b, c, r1, r2, r3, u1

\* Which file each call is about.
FileEach == [call \in Request \cup Rename |->
                IF call = r2 THEN b ELSE IF call = r3 THEN c ELSE a]

RetryOnce == [k \in TaskKind |-> 1]

Faults(kinds) == [k \in Fault |-> IF k \in kinds THEN 1 ELSE 0]

\* The ordinary failures of an attempt, or a worker that dies, or a deadline that leaves
\* the handler of an attempt running beside the next one: MaxRetry leaves room for one
\* of the last two, not for more.
FailuresCrashOrTimeout ==
    {Faults({"work", "read", "db"}), Faults({"crash"}), Faults({"timeout"})}
DeploymentFaults ==
    {Faults({"crash", "timeout", "enqueue", "mark", "push"}), Faults({"read"})}
NoFaults == {Faults({})}
=============================================================================
