-------------------------- MODULE MCElasticBackfill --------------------------
(* Instances of ElasticBackfill for TLC.                                   *)
EXTENDS ElasticBackfill

CONSTANTS p1, p2, p3

Rec(prop, phase) == [element_system |-> "Mo", phase |-> phase, property |-> prop,
                     source |-> "nucpot-autovc:EAM_Mo"]
Res(rec, parses, in_range) == [record |-> rec, parses |-> parses, in_range |-> in_range]

C11 == Res(Rec("C11", "bcc"), TRUE, TRUE)
C12 == Res(Rec("C12", "bcc"), TRUE, TRUE)
C44 == Res(Rec("C44", "bcc"), TRUE, TRUE)
Garbled == Res(Rec("C44", "bcc"), FALSE, TRUE)
TooBig == Res(Rec("C44", "bcc"), TRUE, FALSE)
C33 == Res(Rec("C33", "bcc"), TRUE, TRUE)

AllResults == {C11, C12, C44, Garbled, TooBig, C33}

\* Two verifications of one potential give the same records twice.
SomeFetches == {<<C11, C12, C11>>, <<C12, TooBig, C11>>, <<C33, C11, Garbled, C44>>, <<>>}

Passes3 == {p1, p2, p3}
OnlyP3 == {p3}
StoredC44 == {Rec("C44", "bcc")}

=============================================================================
