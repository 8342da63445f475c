---------------------------- MODULE JobLifecycle ----------------------------
(***************************************************************************)
(* What the API promises a client that polls GET /verify/{job_id}: the job *)
(* appears as pending, moves forward only, shows growing progress, and     *)
(* publishes its results once, whole.  A published job can still be        *)
(* revoked to "failed" (the write that completed it was applied but        *)
(* answered with an error); a failed job never changes again.              *)
(***************************************************************************)
EXTENDS Naturals

CONSTANTS Jobs,     \* job ids
          NoReport  \* what a job shows before its results are published
VARIABLES phase,    \* what the status field of each job shows, "absent" before it exists
          shown,    \* the progress field, in percent
          report    \* the published results and overall grade

vars == <<phase, shown, report>>

Init ==
    /\ phase = [j \in Jobs |-> "absent"]
    /\ shown = [j \in Jobs |-> 0]
    /\ report = [j \in Jobs |-> NoReport]

Register(j) ==
    /\ phase[j] = "absent"
    /\ phase' = [phase EXCEPT ![j] = "pending"]
    /\ UNCHANGED <<shown, report>>

Advance(j) ==
    /\ phase[j] \in {"pending", "running"}
    /\ phase' = [phase EXCEPT ![j] = "running"]
    /\ \E n \in shown[j] .. 99 : shown' = [shown EXCEPT ![j] = n]
    /\ UNCHANGED report

Publish(j) ==
    /\ phase[j] \in {"pending", "running"}
    /\ phase' = [phase EXCEPT ![j] = "completed"]
    /\ shown' = [shown EXCEPT ![j] = 100]
    /\ report'[j] # NoReport
    /\ report' = [report EXCEPT ![j] = report'[j]]

Abort(j) ==
    /\ phase[j] \in {"pending", "running", "completed"}
    /\ phase' = [phase EXCEPT ![j] = "failed"]
    /\ UNCHANGED <<shown, report>>

Next == \E j \in Jobs : Register(j) \/ Advance(j) \/ Publish(j) \/ Abort(j)

Spec == Init /\ [][Next]_vars

=============================================================================
