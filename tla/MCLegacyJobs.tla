---------------------------- MODULE MCLegacyJobs ----------------------------
(* Instances of LegacyJobs for TLC.                                        *)
EXTENDS LegacyJobs

CONSTANTS q1, q2, e1, e2, r1, EAM

TwoRequests == {q1, q2}
TwoExecutions == {e1, e2}
OneReader == {r1}
OneName == {EAM}

\* A list the worker computes in part, and one of which it computes nothing.
SomeLists == {<<"lattice_constant", "bulk_modulus", "elastic_constants">>, <<"bulk_modulus">>}

=============================================================================
