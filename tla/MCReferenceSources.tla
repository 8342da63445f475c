------------------------- MODULE MCReferenceSources -------------------------
(***************************************************************************)
(* Instances of MaterialChoice and GapFilling, which share no state: an    *)
(* initial state is for a search of the one or the filling of the other.   *)
(* Tables are empty, reviewed or pending; lists of NFMD parameters have a  *)
(* material inside another's name, two units, an unlisted name, a symbol   *)
(* of two properties, methods or none; wiki records claim to be certain,   *)
(* are in units to convert, one in millibar, one in L3 as well.            *)
(***************************************************************************)
EXTENDS MaterialChoice, GapFilling, TLC

VARIABLE part   \* "search" or "fill"

SourcesInit ==
    \/ /\ part = "search" /\ SearchInit
       /\ refs = <<>> /\ l2 = <<>> /\ l3 = <<>> /\ last = Nothing /\ filled = <<>>
    \/ part = "fill" /\ Init /\ docs = <<>> /\ preferred = Absent
SourcesNext ==
    \/ part = "search" /\ SearchNext /\ UNCHANGED <<vars, part>>
    \/ part = "fill" /\ Next /\ UNCHANGED <<searchVars, part>>
SourcesSpec == SourcesInit /\ [][SourcesNext]_<<vars, searchVars, part>>

-----------------------------------------------------------------------------
(* The searches.                                                           *)

Doc(spacegroup, crystal_system, hull, bulk) ==
    [spacegroup |-> spacegroup, crystal_system |-> crystal_system,
     energy_above_hull |-> hull, bulk_modulus |-> bulk, lattice |-> TRUE,
     formation_energy |-> hull # Absent, tensor |-> IF bulk = Absent THEN {} ELSE {"C11", "C12"}]

\* The table's names are in lower case.
SomeSystems == {"Cubic"}

\* bcc, fcc and hcp materials on, near and far off the hull, with and without
\* elastic data or an energy, one of an unlisted system, one without symmetry.
SomeDocuments ==
    {Doc(229, "cubic", 0, Absent), Doc(229, "cubic", 60, 96), Doc(225, "cubic", 10, 96),
     Doc(229, "cubic", Absent, 96), Doc(194, "hexagonal", 0, 96), Doc(194, "hexagonal", 11, -5),
     Doc(194, "hexagonal", 11, Absent), Doc(63, "orthorhombic", 5, 110),
     Doc(225, "Cubic", 200, Absent), Doc(Absent, Absent, 0, Absent)}

-----------------------------------------------------------------------------
(* The filling.                                                            *)

MCLower == [U |-> "u", Mo |-> "mo", Zr |-> "zr", Nb |-> "nb", Pu |-> "pu", Fe |-> "fe", Cr |-> "cr",
            Cu |-> "cu", SiC |-> "sic"]
           @@ ("U-Mo" :> "u-mo") @@ ("U-Zr" :> "u-zr") @@ ("U-Nb" :> "u-nb") @@ ("U-Pu" :> "u-pu")
           @@ ("U-Pu-Zr" :> "u-pu-zr")

Stored(sys, phase, property, value, unit, pending) ==
    [element_system |-> sys, phase |-> phase, property |-> property, value |-> value, unit |-> unit,
     method |-> "DFT", source |-> "a paper", needs_review |-> pending]
MCTables == {<<>>, <<Stored("U", "BCC", "C11", 100000, "GPa", FALSE)>>,
             <<Stored("Zr", "HCP", "lattice_constant", 3230, "AA", TRUE)>>}

Parameter(material, name, symbol, value, unit, method, source) ==
    [material_raw |-> material, name |-> name, symbol |-> symbol, value_scalar |-> value, unit |-> unit,
     method |-> method, source_file |-> source]
MCParameters ==
    {<<Parameter("Cu", "lattice constant", "a0", 3610, "AA", "EAM", "cu.pdf")>>,
     <<Parameter("U", "elastic constant c11", "-", 100000, "GPa", None, "u.pdf"),
       Parameter("U", "elastic constant c12", "-", 1000, "Mbar", "DFT", "unknown")>>,
     <<Parameter("Zr", "bulk modulus", "k", 95000, "GPa", None, "zr.pdf")>>,
     <<Parameter("U-Zr", "vacancy formation energy", "e", 1500, "eV", "DFT", "uzr.pdf"),
       Parameter("U", "hardness", "hv", 2000, "GPa", None, "")>>,
     <<Parameter("Zr", "isothermal bulk modulus", "b", 95000, "GPa", None, "")>>}

Item(sys, phase, property, value, unit, method) ==
    [element_system |-> sys, phase |-> phase, property |-> property, value |-> value, unit |-> unit,
     method |-> method, source |-> "llm-wiki"]
MCWikiItems == {<<>>, <<Item("Zr", "HCP", "lattice_constant", 3230, "AA", None),
                        Item("Zr", "BCC", "lattice_constant", 3570, "AA", None)>>,
                <<Item("SiC", None, "C11", 390000, "GPa", "DFT")>>}

System(prefix, text, elements) == [prefix |-> prefix, text |-> text, elements |-> elements]
Unit(text, lower) == [text |-> text, lower |-> lower]
Wiki(sys, phase, property, value, unit, method, source, confidence) ==
    [system |-> sys, phase |-> phase, property_zh |-> property, value |-> value, unit |-> unit,
     method |-> method, source |-> source, confidence |-> confidence]
MCWikiParams ==
    {Wiki(System("gamma", "U", "U"), "BCC", "jinggechangshu", 350, Unit("nm", "nm"), "DFT", "wiki", "high"),
     Wiki(System("", "U-7wt%Mo", "U-Mo"), "BCC", "jinggechangshu a", 6001, Unit("bohr", "bohr"), None,
          "wiki", "medium"),
     Wiki(System("bcc", "U-7wt%Mo", "U-Mo"), "BCC", "timoliang", 1000, Unit("Mbar", "mbar"), "DFT",
          "wiki", "High"),
     Wiki(System("", "Zr", "Zr"), "HCP", "jinggechangshu", 323, Unit("nm", "nm"), None, "llm-wiki", "low"),
     Wiki(System("", "Zr", "Zr"), "BCC", "tanxingchangshuC44", 1000, Unit("mbar", "mbar"), None, "wiki", "low"),
     Wiki(System("", "Zr", "Zr"), "BCC", "yingdu", 1000, Unit("GPa", "gpa"), None, "wiki", "high")}

MCIndividuals ==
    {[class |-> "Zirconium", source |-> "ontofuel extraction",
      properties |-> {[key |-> "latticeConstant", value |-> 3230, unit |-> None],
                      [key |-> "meltingPoint", value |-> None, unit |-> "K"]}]}

=============================================================================
