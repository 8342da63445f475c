-------------------------- MODULE PropertyMapping --------------------------
(***************************************************************************)
(* What property-mapping.json says of the twelve reference properties, and *)
(* how the three adapters turn a record of their source into a candidate   *)
(* for reference_values.  Pure functions.  Numbers are thousandths; the    *)
(* Chinese names of the wiki are written in pinyin.                        *)
(***************************************************************************)
EXTENDS Integers, Sequences

\* Per property: unit, NFMD names and symbols in lower case, ontology keys, range.
Entry(unit, names, symbols, keys, min, max) ==
    [ref_unit |-> unit, nfmd_names |-> names, nfmd_symbols |-> symbols,
     ontofuel_keys |-> keys, min |-> min, max |-> max]
MAPPING ==
    [lattice_constant |-> Entry("AA", {"lattice parameter", "lattice constant", "a0", "lattice parameter a"},
                                {"a", "a0", "a_lat"}, {"latticeConstant"}, 2000, 6500),
     cohesive_energy |-> Entry("eV/atom", {"cohesive energy"}, {"e_coh", "e_c"}, {}, -10000, 0),
     C11 |-> Entry("GPa", {"elastic constant c11", "c11"}, {"c11"}, {"elasticConstantC11"}, 10000, 600000),
     C12 |-> Entry("GPa", {"elastic constant c12", "c12"}, {"c12"}, {"elasticConstantC12"}, 5000, 400000),
     C44 |-> Entry("GPa", {"elastic constant c44", "c44"}, {"c44"}, {"elasticConstantC44"}, 5000, 400000),
     C33 |-> Entry("GPa", {"elastic constant c33", "c33"}, {"c33"}, {"elasticConstantC33"}, 10000, 600000),
     bulk_modulus |-> Entry("GPa", {"bulk modulus", "isothermal bulk modulus"}, {"b", "k", "b0"}, {}, 10000, 400000),
     vacancy_formation_energy |->
        Entry("eV", {"vacancy formation energy"}, {"e_vf", "e_vac"}, {}, 500, 5000),
     formation_energy |-> Entry("eV/atom", {"formation energy", "enthalpy of formation"}, {"e_f", "dh_f"},
                                {"formationEnergy"}, -2000, 2000),
     surface_energy |-> Entry("J/m2", {"surface energy"}, {"gamma", "e_surf"}, {}, 500, 5000),
     melting_point |-> Entry("K", {"melting point", "melting temperature"}, {"t_m", "t_melt"},
                             {"meltingPoint"}, 300000, 4500000),
     thermal_conductivity |-> Entry("W/mK", {"thermal conductivity"}, {"kappa", "k", "lambda"},
                                    {"thermalConductivity"}, 100, 500000)]
Property == DOMAIN MAPPING

\* The file's order, which decides between entries with one symbol.
ORDER == <<"lattice_constant", "cohesive_energy", "C11", "C12", "C44", "C33", "bulk_modulus",
           "vacancy_formation_energy", "formation_energy", "surface_energy", "melting_point",
           "thermal_conductivity">>
Rank(p) == CHOOSE k \in DOMAIN ORDER : ORDER[k] = p

\* One text is part of another; names are in lower case.
Contains(text, part) ==
    \E k \in 0 .. Len(text) - Len(part) : SubSeq(text, k + 1, k + Len(part)) = part

Unmapped == "unmapped"   \* no property: an adapter raises

-----------------------------------------------------------------------------
(* NFMD parameters.                                                        *)

\* The dicts of _build_lookups, by symbol and by name: of two entries for one
\* key the later one wins.
Latest(listed) ==
    IF listed = {} THEN Unmapped ELSE CHOOSE p \in listed : \A q \in listed : Rank(q) <= Rank(p)
BySymbol(symbol) == Latest({p \in Property : symbol \in MAPPING[p].nfmd_symbols})
ByName(name) == Latest({p \in Property : name \in MAPPING[p].nfmd_names})
ContainedIn(name) ==
    {key \in UNION {MAPPING[p].nfmd_names : p \in Property} : Contains(name, key)}
FirstNaming(keys) ==
    LET naming == {p \in Property : MAPPING[p].nfmd_names \cap keys # {}}
    IN  IF naming = {} THEN Unmapped
        ELSE CHOOSE p \in naming : \A q \in naming : Rank(p) <= Rank(q)

\* Slip: a listed name counts for no more than a name that is contained.
ResolveContained(name, symbol) ==
    IF BySymbol(symbol) # Unmapped THEN BySymbol(symbol)
    ELSE Latest({p \in Property : MAPPING[p].nfmd_names \cap ContainedIn(name) # {}})

\* The symbol, else the name, else the longest name contained in it.
resolve_property(name, symbol) ==
    LET contained == ContainedIn(name)
        longest == {key \in contained : \A other \in contained : Len(other) <= Len(key)}
    IN  IF BySymbol(symbol) # Unmapped THEN BySymbol(symbol)
        ELSE IF ByName(name) # Unmapped THEN ByName(name)
        ELSE FirstNaming(longest)

UNIT_MAP(unit) == IF unit = "AA" THEN "angstrom" ELSE unit
VAGUE_SOURCES == {"Experiment", "experiment", "Unknown", "unknown", ""}

Candidate(sys, phase, property, value, unit, method, source, confidence) ==
    [element_system |-> sys, phase |-> phase, property |-> property, value |-> value,
     unit |-> unit, method |-> method, source |-> source, confidence |-> confidence]

\* The method a record states, or the default of its reader.
MethodOr(record, default, none) == IF record.method = none THEN default ELSE record.method

adapt_nfmd_param(p, phase, none) ==
    Candidate(p.material_raw, phase, resolve_property(p.name, p.symbol), p.value_scalar,
              UNIT_MAP(p.unit), MethodOr(p, "", none), p.source_file,
              IF p.source_file \in VAGUE_SOURCES THEN "low" ELSE "medium")

-----------------------------------------------------------------------------
(* Wiki parameters.                                                        *)

ZH_TO_REF_PROPERTY ==
    [jinggechangshu |-> "lattice_constant", neijuneng |-> "cohesive_energy",
     tanxingchangshuC11 |-> "C11", tanxingchangshuC12 |-> "C12", tanxingchangshuC44 |-> "C44",
     tanxingchangshuC33 |-> "C33", timoliang |-> "bulk_modulus",
     kongweixingchengneng |-> "vacancy_formation_energy", xingchengneng |-> "formation_energy",
     biaomianneng |-> "surface_energy", rongdian |-> "melting_point", redaolv |-> "thermal_conductivity"]

\* The entry whose name the given one starts with; none starts with another.
map_property(name) ==
    LET starts == {key \in DOMAIN ZH_TO_REF_PROPERTY :
                      Len(key) <= Len(name) /\ SubSeq(name, 1, Len(key)) = key}
    IN  IF starts = {} THEN Unmapped ELSE ZH_TO_REF_PROPERTY[CHOOSE key \in starts : TRUE]

\* A unit is its text, and that stripped and in lower case, which decides.
\* Slip: the factor is lost.
ConvertedName(value, unit) ==
    CASE unit.lower \in {"nm", "bohr"} -> <<value, "angstrom">>
      [] unit.lower = "mbar" -> <<value, "GPa">>
      [] OTHER -> <<value, unit.text>>

\* Three digits of the Bohr radius.
convert_unit(value, unit) ==
    CASE unit.lower = "nm"   -> <<10 * value, "angstrom">>
      [] unit.lower = "bohr" -> <<(529 * value) \div 1000, "angstrom">>
      [] unit.lower = "mbar" -> <<100 * value, "GPa">>
      [] OTHER               -> <<value, unit.text>>

\* A name is a prefix (a Greek letter, bcc, fcc), a text, and the text without
\* percentages.  The first rule that matches is the only one.
normalize_system(s) == IF s.prefix # "" THEN s.text ELSE s.elements

adapt_wiki_param(w, none) ==
    LET converted == convert_unit(w.value, w.unit)
    IN  Candidate(normalize_system(w.system), w.phase, map_property(w.property_zh),
                  converted[1], converted[2], MethodOr(w, "", none), w.source, w.confidence)

-----------------------------------------------------------------------------
(* Individuals of the ontology.                                            *)

CLASS_TO_ELEMENT ==
    [Uranium |-> "U", Plutonium |-> "Pu", Molybdenum |-> "Mo", Zirconium |-> "Zr", Niobium |-> "Nb",
     Iron |-> "Fe", Chromium |-> "Cr", Silicon |-> "Si", Carbon |-> "C", Nitrogen |-> "N",
     Oxygen |-> "O", Aluminum |-> "Al", SiliconCarbide |-> "SiC", UraniumMolybdenumAlloy |-> "U-Mo",
     UraniumZirconiumAlloy |-> "U-Zr", UraniumPlutoniumZirconiumAlloy |-> "U-Pu-Zr",
     UraniumSilicide |-> "U3Si2", UraniumNitride |-> "UN", UraniumCarbide |-> "UC",
     UraniumDioxide |-> "UO2"]
normalize_class_name(class) ==
    IF class \in DOMAIN CLASS_TO_ELEMENT THEN CLASS_TO_ELEMENT[class] ELSE class

\* A candidate for each property with a listed key and a value, of no phase and
\* no method; a missing unit is taken to be that of the mapping.
adapt_ontology_individual(i, none) ==
    LET listed == {pd \in Property \X i.properties :
                      pd[2].key \in MAPPING[pd[1]].ontofuel_keys /\ pd[2].value # none}
    IN  {Candidate(normalize_class_name(i.class), none, pd[1], pd[2].value,
                   IF pd[2].unit = none THEN MAPPING[pd[1]].ref_unit ELSE pd[2].unit, none, i.source,
                   "medium") : pd \in listed}

=============================================================================
