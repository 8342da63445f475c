------------------------- MODULE MCVerificationTask -------------------------
(***************************************************************************)
(* Instances of VerificationTask: two basic jobs at a time, or one of any  *)
(* template.                                                               *)
(***************************************************************************)
EXTENDS VerificationTask

CONSTANTS j1, j2

TwoJobs == {j1, j2}
OneJob == {j1}

Basic == {"basic"}
OnlyC == {"C"}

\* A longer job is alone, and so is one that meets a zero reference.
Load ==
    \/ \A j \in Jobs : template[j] = "basic" /\ Storable(computed[j])
    \/ template[j2] = "basic" /\ pc[j2] = "idle"

=============================================================================
