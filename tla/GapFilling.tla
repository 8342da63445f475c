----------------------------- MODULE GapFilling -----------------------------
(***************************************************************************)
(* Filling reference_values from three caches: which target values are     *)
(* missing, which cache answers for one, and what the gate before the      *)
(* table makes of the answer, or of a record an adapter has converted.     *)
(* The program has these functions without the loop that calls them; the   *)
(* caller here stores what write_ref_value calls written, and asks and     *)
(* adapts in any order.                                                    *)
(***************************************************************************)
EXTENDS PropertyMapping, FiniteSets

CONSTANTS
    None,        \* Python's None, or a key that a record lacks
    Lower,       \* str.lower of the names of systems and materials
    Tables,      \* contents of reference_values to start with
    Parameters,  \* lists of NFMD parameters that L2 can hold
    WikiItems,   \* lists of items that L3 can hold
    WikiParams,  \* wiki parameters to adapt
    Individuals, \* individuals of the ontology to adapt
    MaxWrites    \* bound: rows written

Row == [element_system : STRING, phase : STRING \cup {None}, property : STRING, value : Int,
        unit : STRING, method : STRING \cup {None}, source : STRING, needs_review : BOOLEAN]

ASSUME TablesAssumption == Tables \subseteq Seq(Row)
ASSUME WikiAssumption == \A w \in WikiParams : w.value \in Int
ASSUME BoundAssumption == MaxWrites \in Nat

VARIABLES
    refs,       \* the rows of reference_values
    l2, l3,     \* what the other caches hold
    last,       \* the last candidate: where from, what for, what became of it
    filled      \* history: where each row written came from, and its record's method

vars == <<refs, l2, l3, last, filled>>
writes == Len(filled)

-----------------------------------------------------------------------------
(* Gaps: the target values without a row; the caller takes them in any     *)
(* order, that of their priorities too.                                    *)

TARGET_SYSTEMS ==
    ({"U", "Mo", "Zr", "Nb", "U-Mo", "U-Zr", "U-Nb", "U-Pu", "U-Pu-Zr", "Pu", "Fe", "Cr"} \X {"BCC"})
        \cup {<<"Zr", "HCP">>, <<"SiC", None>>}
REQUIRED_PROPERTIES == {"lattice_constant", "cohesive_energy", "C11", "C12", "C44", "C33",
                        "bulk_modulus", "vacancy_formation_energy"}

Key(r) == <<r.element_system, r.phase, r.property>>
load_existing_refs(rows) == {Key(rows[k]) : k \in DOMAIN rows}
Targets == {<<t[1], t[2], p>> : t \in TARGET_SYSTEMS, p \in REQUIRED_PROPERTIES}
compute_gaps(existing) == Targets \ existing

-----------------------------------------------------------------------------
(* The three levels.  The first entry that matches is the answer: its      *)
(* level, the candidate made of it, the value and unit it has itself, and  *)
(* the method it states.                                                   *)

First(matching) == CHOOSE k \in matching : \A j \in matching : k <= j

Answer(level, candidate, given, stated) ==
    [level |-> level, candidate |-> candidate, given |-> given, stated |-> stated]
Miss == Answer("none", None, None, None)

query_l1(rows, key) ==
    LET matching == {k \in DOMAIN rows : Key(rows[k]) = key}
        row == rows[First(matching)]
    IN  IF matching = {} THEN Miss
        ELSE Answer("L1", Candidate(key[1], key[2], key[3], row.value, row.unit, row.method, row.source,
                                    IF row.needs_review THEN "medium" ELSE "high"),
                    <<row.value, row.unit>>, row.method)

\* A material whose name contains that of the system; a name or a symbol that is
\* listed for the property.
Offers(p, key) ==
    /\ Contains(Lower[p.material_raw], Lower[key[1]])
    /\ p.name \in MAPPING[key[3]].nfmd_names \/ p.symbol \in MAPPING[key[3]].nfmd_symbols

\* Slip: the parameter's phase, which it does not state.
QueryL2NoPhase(params, key) ==
    LET matching == {k \in DOMAIN params : Offers(params[k], key)}
        p == params[First(matching)]
    IN  IF matching = {} THEN Miss
        ELSE Answer("L2", Candidate(key[1], None, key[3], p.value_scalar, MAPPING[key[3]].ref_unit,
                                    MethodOr(p, "", None), p.source_file, "medium"),
                    <<p.value_scalar, p.unit>>, p.method)

\* Slip: the default of L3, which the adapter of NFMD does not share.
QueryL2Literature(params, key) ==
    LET matching == {k \in DOMAIN params : Offers(params[k], key)}
        p == params[First(matching)]
    IN  IF matching = {} THEN Miss
        ELSE Answer("L2", Candidate(key[1], key[2], key[3], p.value_scalar, MAPPING[key[3]].ref_unit,
                                    MethodOr(p, "literature", None), p.source_file, "medium"),
                    <<p.value_scalar, p.unit>>, p.method)

\* The value as it is, in the unit of the mapping, and of the phase asked for.
query_l2(params, key) ==
    LET matching == {k \in DOMAIN params : Offers(params[k], key)}
        p == params[First(matching)]
    IN  IF matching = {} THEN Miss
        ELSE Answer("L2", Candidate(key[1], key[2], key[3], p.value_scalar, MAPPING[key[3]].ref_unit,
                                    MethodOr(p, "", None), p.source_file, "medium"),
                    <<p.value_scalar, p.unit>>, p.method)

InWiki(items, key) ==
    {k \in DOMAIN items : items[k].element_system = key[1] /\ items[k].property = key[3]}

\* Slip: a value found in the wiki is trusted.
WikiTrusted(items, key) ==
    LET i == items[First(InWiki(items, key))]
    IN  IF InWiki(items, key) = {} THEN Miss
        ELSE Answer("L3", Candidate(key[1], i.phase, key[3], i.value, i.unit,
                                    MethodOr(i, "literature", None), i.source, "high"),
                    <<i.value, i.unit>>, i.method)

\* Of whatever phase the item is.
query_l3_wiki(items, key) ==
    LET i == items[First(InWiki(items, key))]
    IN  IF InWiki(items, key) = {} THEN Miss
        ELSE Answer("L3", Candidate(key[1], i.phase, key[3], i.value, i.unit,
                                    MethodOr(i, "literature", None), i.source, "low"),
                    <<i.value, i.unit>>, i.method)

\* Slip: the big store before the table.
CacheQueryL2First(key) ==
    IF query_l2(l2, key) # Miss THEN query_l2(l2, key)
    ELSE IF query_l1(refs, key) # Miss THEN query_l1(refs, key)
    ELSE query_l3_wiki(l3, key)

cache_query(key) ==
    IF query_l1(refs, key) # Miss THEN query_l1(refs, key)
    ELSE IF query_l2(l2, key) # Miss THEN query_l2(l2, key)
    ELSE query_l3_wiki(l3, key)

-----------------------------------------------------------------------------
(* The gate.                                                               *)

passes_range_check(property, value) ==
    property \in Property => MAPPING[property].min <= value /\ value <= MAPPING[property].max
passes_quality_gate(c) == c.source # "" /\ passes_range_check(c.property, c.value)

\* The fields that make a row the same.
DEDUP_FIELDS(r) == <<Key(r), r.method, r.source>>

\* Slip: the source makes no record a duplicate.
DedupNever(c, rows) == FALSE

dedup_check(c, rows) == \E k \in DOMAIN rows : DEDUP_FIELDS(rows[k]) = DEDUP_FIELDS(c)

write_ref_value(c, rows) ==
    CASE ~passes_quality_gate(c) -> "rejected"
      [] passes_quality_gate(c) /\ dedup_check(c, rows) -> "duplicate"
      [] OTHER -> IF c.confidence \in {"high", "High"} THEN "written_auto" ELSE "written_pending_review"

-----------------------------------------------------------------------------
Nothing == [from |-> "none", key |-> None, candidate |-> None, given |-> None, status |-> "none"]

Init ==
    /\ refs \in Tables /\ l2 \in Parameters /\ l3 \in WikiItems
    /\ last = Nothing /\ filled = <<>>

\* The unit a text spells in whatever case, but for Mbar: in another case it may
\* be the millibar.
Spelled(unit) ==
    CASE unit.lower = "nm"   -> "nm"
      [] unit.lower = "bohr" -> "Bohr"
      [] unit.lower = "mbar" -> IF unit.text = "Mbar" THEN "Mbar" ELSE "mbar"
      [] OTHER               -> unit.text

\* The caller hands a candidate to the gate and stores it if it is written.
Offer(from, key, c, given, stated) ==
    LET status == write_ref_value(c, refs)
        written == status \in {"written_auto", "written_pending_review"}
    IN  /\ written => writes < MaxWrites
        /\ last' = [from |-> from, key |-> key, candidate |-> c, given |-> given, status |-> status]
        /\ IF written
           THEN /\ refs' = Append(refs,
                        [element_system |-> c.element_system, phase |-> c.phase, property |-> c.property,
                         value |-> c.value, unit |-> c.unit, method |-> c.method, source |-> c.source,
                         needs_review |-> status = "written_pending_review"])
                /\ filled' = Append(filled, [from |-> from, stated |-> stated])
           ELSE UNCHANGED <<refs, filled>>
        /\ UNCHANGED <<l2, l3>>

\* A query for a target, a gap or not.
Ask ==
    \E key \in Targets :
        LET answer == cache_query(key)
        IN  answer # Miss /\ Offer(answer.level, key, answer.candidate, answer.given, answer.stated)

\* A record is adapted, unless its property is not known.
AdaptNfmd ==
    \E k \in DOMAIN l2, t \in TARGET_SYSTEMS :
        LET c == adapt_nfmd_param(l2[k], t[2], None)
        IN  /\ c.property # Unmapped
            /\ Offer("nfmd", Key(c), c, <<l2[k].value_scalar, l2[k].unit>>, l2[k].method)
AdaptWiki ==
    \E w \in WikiParams :
        LET c == adapt_wiki_param(w, None)
        IN  c.property # Unmapped /\ Offer("wiki", Key(c), c, <<w.value, Spelled(w.unit)>>, w.method)
AdaptOntology ==
    \E i \in Individuals : \E c \in adapt_ontology_individual(i, None) :
        Offer("ontology", Key(c), c, <<c.value, c.unit>>, None)

Next == Ask \/ AdaptNfmd \/ AdaptWiki \/ AdaptOntology
Spec == Init /\ [][Next]_vars

-----------------------------------------------------------------------------
(* Properties                                                              *)

\* However often and in whatever order records are asked for and adapted: what
\* filling adds differs from a row alike in system, phase, property and source by
\* its method, and from one whose record states the same method only if that is
\* none and the two readers call it differently: 'literature' is L3's, '' that of
\* L2 and the adapters of NFMD and wiki, None the ontology's.  So the two ways of
\* an NFMD parameter store it once, those of a wiki record perhaps twice.
Filled(k) == k > Len(refs) - writes
Origin(k) == filled[k - (Len(refs) - writes)]
StoredOnce ==
    \A j, k \in DOMAIN refs :
        Key(refs[j]) = Key(refs[k]) /\ refs[j].source = refs[k].source /\ Filled(k) /\ j # k =>
            /\ refs[j].method # refs[k].method
            /\ Filled(j) /\ Origin(j).stated = Origin(k).stated =>
                  /\ Origin(k).stated = None /\ Origin(j).from # Origin(k).from
                  /\ ~({Origin(j).from, Origin(k).from} \subseteq {"L2", "nfmd", "wiki"})

\* Nothing but a wiki record that calls itself certain enters the table without
\* review: the caches' certain answers are rows it has already.
AutoOnlyByClaim ==
    last.status = "written_auto" => last.from = "wiki" /\ last.candidate.confidence \in {"high", "High"}

\* A quantity, by its amount in the smallest of the units of its kind.
Amount(value, unit) ==
    CASE unit \in {"AA", "angstrom"} -> <<"length", 1000 * value>>
      [] unit = "nm"   -> <<"length", 10000 * value>>
      [] unit = "Bohr" -> <<"length", 529 * value>>
      [] unit = "GPa"  -> <<"pressure", value>>
      [] unit = "Mbar" -> <<"pressure", 100 * value>>
      [] OTHER         -> <<unit, value>>
\* The amount, or of a length what is left of it by cutting the last digit.
Kept(given, c) ==
    LET stated == Amount(given[1], given[2])
        kept == Amount(c.value, c.unit)
    IN  \/ kept = stated
        \/ kept[1] = "length" /\ stated[1] = "length" /\ stated[2] - kept[2] \in 0 .. 999

\* Adapters and caches but L2 pass on the quantity the source states, in whatever
\* unit and spelling, except that the wiki's adapter makes a Mbar of every mbar.
QuantityKept ==
    last.from \in {"L1", "L3", "nfmd", "wiki"} =>
        \/ Kept(last.given, last.candidate)
        \/ last.from = "wiki" /\ last.given[2] = "mbar"

\* A written answer closes its gap, unless the wiki has the value of another phase.
OpenExplained ==
    last.from \in {"L2", "L3"} /\ last.status \in {"written_auto", "written_pending_review"} =>
        \/ last.key \notin compute_gaps(load_existing_refs(refs))
        \/ last.from = "L3" /\ last.candidate.phase # last.key[2]

\* A parameter that L2 offers for a property is adapted as that property, unless
\* its symbol is listed for another one.
ResolutionsAgree ==
    \A k \in DOMAIN l2, p \in Property :
        l2[k].name \in MAPPING[p].nfmd_names \/ l2[k].symbol \in MAPPING[p].nfmd_symbols
            => \/ resolve_property(l2[k].name, l2[k].symbol) = p
               \/ \E q \in Property \ {p} : l2[k].symbol \in MAPPING[q].nfmd_symbols

\* The caches are asked only for what the table lacks.
TableFirst ==
    [][last' # last /\ last'.from \in {"L2", "L3"} =>
           last'.key \in compute_gaps(load_existing_refs(refs))]_vars

=============================================================================
