--------------------------- MODULE MaterialChoice ---------------------------
(***************************************************************************)
(* The Materials Project adapter: which of the materials a search answers  *)
(* stand for an element system, and which reference values are taken from  *)
(* them.  Pure functions of the list a search returns; the list grows by   *)
(* one document per step so that every list up to a length is reached.     *)
(* Energies are in meV, scores in thousandths.                             *)
(***************************************************************************)
EXTENDS Integers, Sequences, FiniteSets

CONSTANTS
    Absent,           \* absent: no symmetry, no energy, no preferred phase
    OtherSystems,   \* names of crystal systems that the adapter's table lacks
    Documents,      \* summary documents a search can return
    MaxDocuments    \* bound: documents per search

BCC_SPACEGROUPS == {229, 211, 221}
HCP_SPACEGROUPS == {194, 191, 187}

CrystalSystems == {"cubic", "tetragonal", "hexagonal", "trigonal", "orthorhombic",
                   "monoclinic", "triclinic"}
Phases == {"BCC", "BCT", "HCP", "ORC", "MON", "TRI", "unknown"}

\* tensor holds the constants the elasticity endpoint has usable values for;
\* lattice says whether a lies between 2 and 7 angstrom.
Document ==
    [spacegroup : Nat \cup {Absent}, crystal_system : CrystalSystems \cup OtherSystems \cup {Absent},
     energy_above_hull : Nat \cup {Absent}, bulk_modulus : Int \cup {Absent},
     lattice : BOOLEAN, formation_energy : BOOLEAN, tensor : SUBSET {"C11", "C12", "C44"}]

ASSUME AbsentAssumption == Absent \notin Int \cup Phases
ASSUME DocumentsAssumption == Documents \subseteq Document
ASSUME LengthAssumption == MaxDocuments \in Nat

VARIABLES
    docs,       \* what the search has returned so far
    preferred   \* the phase TARGET_SYSTEMS names for the system, or Absent

searchVars == <<docs, preferred>>

\* A name that the table lacks is its own phase.
CRYSTAL_SYSTEM_TO_PHASE(cs) ==
    CASE cs = "cubic" -> "BCC"
      [] cs = "tetragonal" -> "BCT"
      [] cs \in {"hexagonal", "trigonal"} -> "HCP"
      [] cs = "orthorhombic" -> "ORC"
      [] cs = "monoclinic" -> "MON"
      [] cs = "triclinic" -> "TRI"
      [] cs = Absent -> "unknown"
      [] OTHER -> cs

\* The space group decides, else the crystal system: every cubic material that
\* is not in a listed group is called BCC, too.
determine_phase(d) ==
    IF d.spacegroup \in BCC_SPACEGROUPS THEN "BCC"
    ELSE IF d.spacegroup \in HCP_SPACEGROUPS THEN "HCP"
    ELSE CRYSTAL_SYSTEM_TO_PHASE(d.crystal_system)

Hull(d) == IF d.energy_above_hull = Absent THEN 999000 ELSE d.energy_above_hull
OnHull(d) == Hull(d) <= 10
HasElastic(d) == d.bulk_modulus # Absent

\* Slip: elastic data outweighs being on the hull.
ScoreElasticFirst(d, phase) ==
    Hull(d) - (IF phase # Absent /\ determine_phase(d) = phase THEN 1000000 ELSE 0)
            - (IF OnHull(d) THEN 10000 ELSE 0)
            - (IF HasElastic(d) THEN 100000 ELSE 0)

\* Slip: the bonus of the phase is lost next to that of the hull.
ScorePhaseLast(d, phase) ==
    Hull(d) - (IF phase # Absent /\ determine_phase(d) = phase THEN 1000 ELSE 0)
            - (IF OnHull(d) THEN 100000 ELSE 0)
            - (IF HasElastic(d) THEN 10000 ELSE 0)

Score(d, phase) ==
    Hull(d) - (IF phase # Absent /\ determine_phase(d) = phase THEN 1000000 ELSE 0)
            - (IF OnHull(d) THEN 100000 ELSE 0)
            - (IF HasElastic(d) THEN 10000 ELSE 0)

\* The order after the sort, which is stable.
Before(s, phase, h, k) ==
    \/ Score(s[h], phase) < Score(s[k], phase)
    \/ Score(s[h], phase) = Score(s[k], phase) /\ h < k

\* Slip: phases already seen are not remembered.
LeadersAll(s, phase) == DOMAIN s

\* The first document of each phase.
Leaders(s, phase) ==
    {k \in DOMAIN s : \A h \in DOMAIN s :
        determine_phase(s[h]) = determine_phase(s[k]) => ~Before(s, phase, h, k)}

\* Slip: the cut after three comes before the sort.
PickFirstThree(s, phase) == {k \in Leaders(s, phase) : k <= 3}

\* The first three of them, as positions in the list.
pick_best_material(s, phase) ==
    {k \in Leaders(s, phase) :
        Cardinality({h \in Leaders(s, phase) : Before(s, phase, h, k)}) < 3}

\* What is taken from one document.
Extracted(d) ==
    (IF d.bulk_modulus # Absent /\ d.bulk_modulus > 0 THEN {"bulk_modulus"} ELSE {})
    \cup (IF d.lattice THEN {"lattice_constant"} ELSE {})
    \cup (IF d.formation_energy THEN {"formation_energy"} ELSE {})
    \cup d.tensor

\* The values of a system: position, phase, property.
extract_system(s, phase) ==
    UNION {{<<k, determine_phase(s[k]), property>> : property \in Extracted(s[k])} :
                k \in pick_best_material(s, phase)}

-----------------------------------------------------------------------------
SearchInit == docs = <<>> /\ preferred \in {"BCC", "HCP", Absent}

\* The search returns one more document.
Return ==
    /\ Len(docs) < MaxDocuments
    /\ \E d \in Documents : docs' = Append(docs, d)
    /\ UNCHANGED preferred

SearchNext == Return
SearchSpec == SearchInit /\ [][SearchNext]_searchVars

-----------------------------------------------------------------------------
(* Properties                                                              *)

Picked == pick_best_material(docs, preferred)
Phase(k) == determine_phase(docs[k])

\* Types; a document has a phase the adapter knows unless its crystal system is
\* one the table lacks.
TypeOK ==
    /\ docs \in Seq(Documents) /\ Len(docs) <= MaxDocuments
    /\ preferred \in Phases \cup {Absent}
    /\ \A k \in DOMAIN docs : Phase(k) \in Phases \cup OtherSystems
    /\ extract_system(docs, preferred) \subseteq
          (DOMAIN docs) \X (Phases \cup OtherSystems)
             \X {"bulk_modulus", "lattice_constant", "formation_energy", "C11", "C12", "C44"}

\* A system gets at most one value per phase and property, from one material,
\* however many materials of a phase the search returns.
OneValueEach ==
    \A v, w \in extract_system(docs, preferred) :
        v[2] = w[2] /\ v[3] = w[3] => v = w

\* If a material of the preferred phase is known to lie less than 890 eV above
\* the hull, one of that phase is picked before all others.
PreferredFirst ==
    (\E k \in DOMAIN docs : Phase(k) = preferred /\ Hull(docs[k]) < 890000)
        => \E k \in Picked :
              /\ Phase(k) = preferred
              /\ \A h \in Picked \ {k} : Before(docs, preferred, k, h)

\* The material that stands for a phase is on the hull if one of that phase is,
\* and among those as stable and as well measured the one nearest to the hull.
BestOfItsPhase ==
    \A k \in Picked : \A h \in DOMAIN docs :
        Phase(h) = Phase(k) =>
            /\ OnHull(docs[h]) => OnHull(docs[k])
            /\ OnHull(docs[h]) = OnHull(docs[k]) /\ HasElastic(docs[h]) = HasElastic(docs[k])
                  => Hull(docs[k]) <= Hull(docs[h])

\* The order in which the search returns the materials decides only between
\* materials that score alike: exchanging two neighbours, at any place of any
\* list, leaves the scores of the picked ones as they are.
Scores(s) == {Score(s[k], preferred) : k \in pick_best_material(s, preferred)}
Exchanged(s, k) == [s EXCEPT ![k] = s[k + 1], ![k + 1] = s[k]]
OrderIndependent ==
    \A k \in 1 .. Len(docs) - 1 : Scores(Exchanged(docs, k)) = Scores(docs)

=============================================================================
