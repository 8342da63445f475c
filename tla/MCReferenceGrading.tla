------------------------- MODULE MCReferenceGrading -------------------------
(* Instances of ReferenceGrading for TLC.                                  *)
EXTENDS ReferenceGrading

RowOf(n, prop, v, conf, st) ==
    [id |-> n, element_system |-> "Mo", phase |-> "BCC", property |-> prop,
     value |-> v, confidence |-> conf, status |-> st]

\* Three values of one property, one of them 0, under the confidences, and
\* one of a property the lattice guess may stand in for.
SomeRows ==
    {RowOf(1, "C11", 463000, conf, st) : conf \in {"high", None}, st \in {"active", "deleted"}}
        \cup {RowOf(2, "C11", v, "medium", "active") : v \in {450000, 0}}
        \cup {RowOf(3, "lattice_constant", 3147, "high", "active")}

\* The default structure and one from lammps_config, a material of the
\* hardcoded set and one of neither set.
SomeQuestions ==
    {<<"Mo", s, p>> : s \in {"bcc", "BCC"}, p \in {"C11", "lattice_constant"}}
        \cup {<<"W", "bcc", "lattice_constant">>}

\* Around the thresholds of the reference values and of the guesses.
SomeValues == {0, 3000, 3147, 3400, 459000, 490000, -463000}

=============================================================================
