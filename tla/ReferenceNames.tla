--------------------------- MODULE ReferenceNames ---------------------------
(***************************************************************************)
(* How a reference value is found and how a property is graded with it:    *)
(* the name maps and the query of reference/data.py, the hardcoded set it  *)
(* falls back to, the flags of runners/reference_lookup.py, and the        *)
(* runner's letter grade.  Numbers are thousandths of the property's unit. *)
(***************************************************************************)
EXTENDS Integers

CONSTANT None   \* Python's None: no value, no letter, a NULL column

ASSUME NoneAssumption == None \notin Int \cup {"high", "low", "medium"}

\* autovc's structure and property names in the terms of reference_values;
\* a name without an entry stands for itself.
STRUCTURE_MAP ==
    [BCC_gamma |-> "BCC", BCC |-> "BCC", bcc |-> "BCC", fcc |-> "FCC", hcp |-> "HCP",
     sc |-> "SC", FCC |-> "FCC", HCP |-> "HCP", diamond |-> "Diamond",
     diamond_cubic |-> "Diamond", SC |-> "SC", Orthorhombic |-> "Orthorhombic",
     Cubic |-> "Cubic"]
PROPERTY_MAP ==
    [elastic_constants_C11 |-> "C11", elastic_constants_C12 |-> "C12",
     elastic_constants_C44 |-> "C44"]

Mapped(map, name) == IF name \in DOMAIN map THEN map[name] ELSE name
Phase(structure) == Mapped(STRUCTURE_MAP, structure)
PgProperty(name) == Mapped(PROPERTY_MAP, name)

\* The hardcoded set, as entries <<material, structure, property, value>>.
FALLBACK ==
    {<<"U", "BCC_gamma", "lattice_constant", 3470>>,
     <<"U", "BCC_gamma", "cohesive_energy", -5490>>,
     <<"U", "BCC_gamma", "elastic_constants_C11", 74000>>,
     <<"U", "BCC_gamma", "elastic_constants_C12", 51000>>,
     <<"U", "BCC_gamma", "elastic_constants_C44", 73000>>,
     <<"Mo", "BCC", "lattice_constant", 3147>>,
     <<"Mo", "BCC", "cohesive_energy", -6820>>,
     <<"Mo", "BCC", "elastic_constants_C11", 463000>>,
     <<"Mo", "BCC", "elastic_constants_C12", 161000>>,
     <<"Mo", "BCC", "elastic_constants_C44", 109000>>,
     <<"Zr", "BCC", "lattice_constant", 3609>>,
     <<"Zr", "BCC", "cohesive_energy", -6250>>,
     <<"U-Mo", "BCC_gamma", "lattice_constant", 3390>>,
     <<"U-Mo", "BCC_gamma", "elastic_constants_C11", 140000>>,
     <<"U-Zr", "BCC_gamma", "lattice_constant", 3520>>}

\* ORDER BY confidence DESC, value: the column is text, so the order is that
\* of the words, and PostgreSQL puts a missing confidence first.
Confidence == {"high", "low", "medium", None}
Place(c) == CASE c = None -> 1 [] c = "medium" -> 2 [] c = "low" -> 3 [] c = "high" -> 4
Precedes(r, s) == \/ Place(r.confidence) < Place(s.confidence)
                  \/ r.confidence = s.confidence /\ r.value <= s.value

\* The rows a lookup by PG names selects, and the value of the first one.
\* Neither status nor needs_review is part of the query.
Selected(table, sys, phase, prop) ==
    {r \in table : r.element_system = sys /\ r.phase = phase /\ r.property = prop}
query_pg(table, up, sys, phase, prop) ==
    LET found == Selected(table, sys, phase, prop)
    IN  IF ~up \/ found = {} THEN None
        ELSE (CHOOSE r \in found : \A s \in found : Precedes(r, s)).value

Hardcoded(material, structure, prop) ==
    {e \in FALLBACK : e[1] = material /\ e[2] = structure /\ e[3] = prop}

\* The table first, by mapped names; then the hardcoded set, by the names as
\* they came.
get_reference_value(table, up, material, structure, prop) ==
    LET pg   == query_pg(table, up, material, Phase(structure), PgProperty(prop))
        hard == Hardcoded(material, structure, prop)
    IN  IF pg # None THEN pg
        ELSE IF hard # {} THEN (CHOOSE e \in hard : TRUE)[4] ELSE None

-----------------------------------------------------------------------------
\* LATTICE_GUESS and its default.
Guess(material) ==
    CASE material = "U"    -> 2850
      [] material = "Mo"   -> 3150
      [] material = "Zr"   -> 3610
      [] material = "U-Zr" -> 3450
      [] OTHER             -> 3400

Flag == {"reference_ok", "dev_fallback", "reference_missing"}

\* A guess stands in for a missing lattice constant in development only.
lookup_reference(table, up, dev, material, structure, prop) ==
    LET v == get_reference_value(table, up, material, structure, prop)
    IN  IF v # None THEN [value |-> v, flag |-> "reference_ok"]
        ELSE IF prop = "lattice_constant" /\ dev
             THEN [value |-> Guess(material), flag |-> "dev_fallback"]
        ELSE [value |-> None, flag |-> "reference_missing"]

\* Slip: what a lookup without a guard would grade with.
AnyValue(ref) == ref.value # None

is_real_reference(ref) == ref.flag = "reference_ok"

-----------------------------------------------------------------------------
Distance(c, r) == IF c >= r THEN c - r ELSE r - c
Size(r) == Distance(r, 0)

\* Slip: the deviation keeps its sign.
SignedWithin(c, r, pct) == 100 * (c - r) <= pct * Size(r)

\* relative_error <= pct/100, for a reference other than 0.
Within(c, r, pct) == 100 * Distance(c, r) <= pct * Size(r)

\* The first letter whose threshold the deviation does not exceed.
Letter(c, r, a, b, cc, d) ==
    CASE Within(c, r, a) -> "A"
      [] ~Within(c, r, a) /\ Within(c, r, b) -> "B"
      [] ~Within(c, r, b) /\ Within(c, r, cc) -> "C"
      [] ~Within(c, r, cc) /\ Within(c, r, d) -> "D"
      [] OTHER -> "F"

\* The runner's _grade_property, GRADE_THRESHOLDS = 2, 5, 10, 20 %.
run_grade(c, r) ==
    IF r = None THEN None ELSE IF r = 0 THEN "F" ELSE Letter(c, r, 2, 5, 10, 20)

=============================================================================
