-------------------------- MODULE ReferenceGrading --------------------------
(***************************************************************************)
(* Properties graded with reference values while the table changes under   *)
(* them: rows are added, reviewed and removed, the database comes and      *)
(* goes, and run_property looks a value up at the moment it has computed   *)
(* one.  An unreachable database is not an error: query_pg answers None.   *)
(***************************************************************************)
EXTENDS ReferenceNames

CONSTANTS
    Records,       \* rows the table may hold
    Questions,  \* <<material, structure, property>> the runner asks for
    Results    \* values LAMMPS may compute

ASSUME RecordsAssumption ==
    \A r \in Records : r.confidence \in Confidence /\ r.value \in Int
ASSUME ResultsAssumption == Results \subseteq Int

VARIABLES
    table,      \* reference_values
    pgUp,       \* does the database answer
    dev,        \* is NUCPOT_ENV or NFM_ENV a development name
    last        \* the last property graded

gradingVars == <<table, pgUp, dev, last>>

NoGrade == [asked |-> <<"none", "none", "none">>, computed |-> 0,
            ref |-> [value |-> None, flag |-> "reference_missing"], grade |-> None]

GradingInit == table = {} /\ pgUp \in BOOLEAN /\ dev \in BOOLEAN /\ last = NoGrade

\* A row is inserted or changed, by review or by a backfill; a hard DELETE.
Store(r) ==
    /\ table' = {s \in table : s.id # r.id} \cup {r}
    /\ UNCHANGED <<pgUp, dev, last>>
Remove(r) ==
    /\ r \in table
    /\ table' = table \ {r}
    /\ UNCHANGED <<pgUp, dev, last>>

\* The database stops or starts answering.
Outage ==
    /\ pgUp' = ~pgUp
    /\ UNCHANGED <<table, dev, last>>

\* run_property, once LAMMPS has computed c for the property asked: the
\* reference is used only if it is a real one.
GradeProperty(ask, c) ==
    LET ref == lookup_reference(table, pgUp, dev, ask[1], ask[2], ask[3])
        ref_v == IF is_real_reference(ref) THEN ref.value ELSE None
    IN  /\ last' = [asked |-> ask, computed |-> c, ref |-> ref, grade |-> run_grade(c, ref_v)]
        /\ UNCHANGED <<table, pgUp, dev>>

GradingNext ==
    \/ \E r \in Records : Store(r) \/ Remove(r)
    \/ Outage
    \/ \E ask \in Questions, c \in Results : GradeProperty(ask, c)

GradingSpec == GradingInit /\ [][GradingNext]_gradingVars

-----------------------------------------------------------------------------
(* Properties                                                              *)

Letters == {"A", "B", "C", "D", "F"}

GradingTypeOK ==
    /\ table \subseteq Records
    /\ \A r, s \in table : r.id = s.id => r = s
    /\ pgUp \in BOOLEAN /\ dev \in BOOLEAN
    /\ last.ref.flag \in Flag /\ last.ref.value \in Int \cup {None}
    /\ last.grade \in Letters \cup {None}

\* A letter is given only against a value that the table holds, for the
\* material, phase and property in question, or the hardcoded set does: never
\* against a guess, however the environment is set and whether or not the
\* database answers (the misgrade the module docstring calls BUG-20).
RealValues(t, up, ask) ==
    {r.value : r \in {s \in t : up /\ s.element_system = ask[1] /\ s.phase = Phase(ask[2])
                                   /\ s.property = PgProperty(ask[3])}}
        \cup {e[4] : e \in Hardcoded(ask[1], ask[2], ask[3])}
GradedOnReal ==
    [][last' # last /\ last'.grade # None
          => last'.ref.value \in RealValues(table, pgUp, last'.asked)]_gradingVars

\* A value nearer to the reference never gets a worse letter.
Rank == [A |-> 0, B |-> 1, C |-> 2, D |-> 3, F |-> 4]
NearerIsNoWorse ==
    last.grade # None =>
        \A c \in Results :
            Distance(c, last.ref.value) <= Distance(last.computed, last.ref.value)
                => Rank[run_grade(c, last.ref.value)] <= Rank[last.grade]

=============================================================================
