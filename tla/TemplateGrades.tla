--------------------------- MODULE TemplateGrades ---------------------------
(***************************************************************************)
(* The data of LAMMPSRunner.run_template: which properties a template      *)
(* runs, how far each one moves the progress bar, what a property's result *)
(* dict holds, and the overall grade computed from the dicts.              *)
(*                                                                         *)
(* A result dict is abstracted to what the job's properties tell apart:    *)
(*   kind   "absent" the key is not in all_results, "empty" the dict says  *)
(*          {"value": None, ...}, "value" the dict carries a number;       *)
(*   grade  the top-level "grade" key, "none" for None or a missing key;   *)
(*   nested the worst letter under elastic_constants' "grades" dict;       *)
(*   finite FALSE when an error ratio in the dict is float("inf").         *)
(***************************************************************************)
EXTENDS Naturals, Sequences

Property == {"lattice_constant", "cohesive_energy", "elastic_constants",
             "bulk_modulus", "vacancy_formation_energy"}

Template == {"basic", "mechanical", "defect", "comprehensive"}

TEMPLATE_PROPERTIES ==
    [basic         |-> <<"lattice_constant", "cohesive_energy">>,
     mechanical    |-> <<"lattice_constant", "cohesive_energy",
                         "elastic_constants", "bulk_modulus">>,
     defect        |-> <<"lattice_constant", "cohesive_energy",
                         "vacancy_formation_energy">>,
     comprehensive |-> <<"lattice_constant", "cohesive_energy",
                         "elastic_constants", "bulk_modulus",
                         "vacancy_formation_energy">>]

PropertiesOf(t) == {TEMPLATE_PROPERTIES[t][k] : k \in 1 .. Len(TEMPLATE_PROPERTIES[t])}

\* Progress milestones, in percent.
PROGRESS_MAP ==
    [lattice_constant |-> 15, cohesive_energy |-> 30, elastic_constants |-> 50,
     bulk_modulus |-> 60, vacancy_formation_energy |-> 75]

\* LAMMPS processes one run_property call awaits, one after the other: the
\* reference cell and six strained cells for the elastic constants, and
\* bulk_modulus recomputes the elastic constants from scratch.
LAMMPS_RUNS ==
    [lattice_constant |-> 1, cohesive_energy |-> 1, elastic_constants |-> 7,
     bulk_modulus |-> 7, vacancy_formation_energy |-> 1]

Grade == {"A", "B", "C", "D", "F"}

GradeRank == [A |-> 0, B |-> 1, C |-> 2, D |-> 3, F |-> 4]

\* The letter a set of letters is summarised by: max(..., key=rank), None if
\* there is no letter.
Worst(gs) == IF gs = {} THEN "none"
             ELSE CHOOSE g \in gs : \A h \in gs : GradeRank[h] <= GradeRank[g]

Outcome == [kind : {"absent", "empty", "value"}, grade : Grade \cup {"none"},
            nested : Grade \cup {"none"}, finite : BOOLEAN]

Absent == [kind |-> "absent", grade |-> "none", nested |-> "none", finite |-> TRUE]
Empty  == [Absent EXCEPT !.kind = "empty"]

\* _grade_property against a reference: a letter, or no letter without a
\* reference.  A zero reference gives rel_err = inf, which grades F.
Graded(g)     == [Empty EXCEPT !.kind = "value", !.grade = g]
ZeroReference == [Graded("F") EXCEPT !.finite = FALSE]

\* What run_property can return for a property without raising, given the
\* letters the reference table can produce (gs) and whether it holds a zero
\* reference.  The elastic dict has no top-level "grade", the bulk modulus is
\* never graded, and the scalar properties may come back "not computed".
OutcomesOf(prop, gs, zero) ==
    LET scalar == {Graded(g) : g \in gs \cup {"none"}}
                    \cup IF zero THEN {ZeroReference} ELSE {}
    IN  CASE prop = "bulk_modulus"      -> {Graded("none")}
          [] prop = "elastic_constants" ->
                {[o EXCEPT !.grade = "none", !.nested = o.grade] : o \in scalar}
          [] OTHER                      -> scalar \cup {Empty}

NoResults == [p \in Property |-> Absent]

\* run_template's last block: the worst of the top-level "grade" keys.
OverallGrade(results) == Worst({results[p].grade : p \in Property} \ {"none"})

=============================================================================
