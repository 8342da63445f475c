---------------------------- MODULE RunnerProofs ----------------------------
(***************************************************************************)
(* What the runner computes and how it grades it: ReferenceGrading, for    *)
(* any rows, questions and computed values, and LammpsScripts, for any     *)
(* crystals, numbers of elements and processes that print nan.             *)
(***************************************************************************)
EXTENDS ReferenceGrading, LammpsScripts, SequenceTheorems, FiniteSetTheorems, WellFoundedInduction, TLAPS

-----------------------------------------------------------------------------
(* The letters.                                                            *)

\* A distance is a natural number, and 0 has size 0.
LEMMA DistanceFacts ==
    \A c, r \in Int : Distance(c, r) \in Nat /\ Size(r) \in Nat
BY DEF Distance, Size

\* A wider threshold admits what a narrower one admits.
LEMMA WithinWider ==
    ASSUME NEW c \in Int, NEW r \in Int
    PROVE  /\ Within(c, r, 2) => Within(c, r, 5)
           /\ Within(c, r, 5) => Within(c, r, 10)
           /\ Within(c, r, 10) => Within(c, r, 20)
<1> DEFINE d == Distance(c, r)
           z == Size(r)
<1>1. d \in Nat /\ z \in Nat
    BY DistanceFacts
<1> HIDE DEF d, z
<1>2. 2 * z <= 5 * z /\ 5 * z <= 10 * z /\ 10 * z <= 20 * z
    BY <1>1
<1>3. \A pct \in Nat : Within(c, r, pct) <=> 100 * d <= pct * z
    BY DEF Within, d, z
<1>4. QED
    BY <1>1, <1>2, <1>3

\* A threshold admits every value nearer than one it admits.
LEMMA WithinNearer ==
    ASSUME NEW c \in Int, NEW d \in Int, NEW r \in Int, NEW pct \in Nat,
           Distance(c, r) <= Distance(d, r), Within(d, r, pct)
    PROVE  Within(c, r, pct)
<1>1. /\ Distance(c, r) \in Nat /\ Distance(d, r) \in Nat
      /\ 100 * Distance(d, r) <= pct * Size(r)
    BY DistanceFacts DEF Within
<1>2. 100 * Distance(c, r) <= 100 * Distance(d, r)
    BY <1>1
<1>3. pct * Size(r) \in Int
    BY DistanceFacts
<1>4. QED
    BY <1>1, <1>2, <1>3 DEF Within

\* What each letter means.
LEMMA LetterCases ==
    ASSUME NEW c \in Int, NEW r \in Int
    PROVE  LET g == Letter(c, r, 2, 5, 10, 20)
           IN  \/ g = "A" /\ Within(c, r, 2)
               \/ g = "B" /\ ~Within(c, r, 2) /\ Within(c, r, 5)
               \/ g = "C" /\ ~Within(c, r, 5) /\ Within(c, r, 10)
               \/ g = "D" /\ ~Within(c, r, 10) /\ Within(c, r, 20)
               \/ g = "F" /\ ~Within(c, r, 20)
<1> DEFINE g == Letter(c, r, 2, 5, 10, 20)
<1>1. CASE Within(c, r, 2)
    <2>1. g = "A"
        BY <1>1, WithinWider DEF Letter
    <2>2. QED
        BY <1>1, <2>1
<1>2. CASE ~Within(c, r, 2) /\ Within(c, r, 5)
    <2>1. g = "B"
        BY <1>2, WithinWider DEF Letter
    <2>2. QED
        BY <1>2, <2>1
<1>3. CASE ~Within(c, r, 5) /\ Within(c, r, 10)
    <2>1. g = "C"
        BY <1>3, WithinWider DEF Letter
    <2>2. QED
        BY <1>3, <2>1
<1>4. CASE ~Within(c, r, 10) /\ Within(c, r, 20)
    <2>1. g = "D"
        BY <1>4, WithinWider DEF Letter
    <2>2. QED
        BY <1>4, <2>1
<1>5. CASE ~Within(c, r, 20)
    <2>1. g = "F"
        BY <1>5, WithinWider DEF Letter
    <2>2. QED
        BY <1>5, <2>1
<1>6. QED
    BY <1>1, <1>2, <1>3, <1>4, <1>5

\* Of two values the one nearer to the reference gets no worse a letter.
LEMMA LetterNearer ==
    ASSUME NEW c \in Int, NEW d \in Int, NEW r \in Int,
           Distance(c, r) <= Distance(d, r)
    PROVE  Rank[Letter(c, r, 2, 5, 10, 20)] <= Rank[Letter(d, r, 2, 5, 10, 20)]
<1>1. \A pct \in {2, 5, 10, 20} : Within(d, r, pct) => Within(c, r, pct)
    BY WithinNearer
<1> DEFINE g == Letter(c, r, 2, 5, 10, 20)
           h == Letter(d, r, 2, 5, 10, 20)
<1>2. \/ g = "A" /\ Within(c, r, 2)
      \/ g = "B" /\ ~Within(c, r, 2) /\ Within(c, r, 5)
      \/ g = "C" /\ ~Within(c, r, 5) /\ Within(c, r, 10)
      \/ g = "D" /\ ~Within(c, r, 10) /\ Within(c, r, 20)
      \/ g = "F" /\ ~Within(c, r, 20)
    BY LetterCases
<1>3. \/ h = "A" /\ Within(d, r, 2)
      \/ h = "B" /\ ~Within(d, r, 2) /\ Within(d, r, 5)
      \/ h = "C" /\ ~Within(d, r, 5) /\ Within(d, r, 10)
      \/ h = "D" /\ ~Within(d, r, 10) /\ Within(d, r, 20)
      \/ h = "F" /\ ~Within(d, r, 20)
    BY LetterCases
<1> HIDE DEF g, h
<1>4. Rank[g] <= Rank[h]
    BY <1>1, <1>2, <1>3, WithinWider DEF Rank
<1>5. QED
    BY <1>4 DEF g, h

-----------------------------------------------------------------------------
(* The rows a query chooses from.                                          *)

\* The order of the query is total and transitive on rows.
LEMMA PrecedesOrder ==
    /\ \A r, s \in Records : Precedes(r, s) \/ Precedes(s, r)
    /\ \A r, s, t \in Records : Precedes(r, s) /\ Precedes(s, t) => Precedes(r, t)
<1>1. \A c, d \in Confidence : Place(c) \in 1 .. 4 /\ (Place(c) = Place(d) => c = d)
    BY NoneAssumption DEF Confidence, Place
<1>2. \A r \in Records : r.confidence \in Confidence /\ r.value \in Int
    BY RecordsAssumption
<1>3. \A r, s \in Records : Precedes(r, s) \/ Precedes(s, r)
    BY <1>1, <1>2 DEF Precedes
<1>4. \A r, s, t \in Records : Precedes(r, s) /\ Precedes(s, t) => Precedes(r, t)
    BY <1>1, <1>2 DEF Precedes
<1>5. QED
    BY <1>3, <1>4

\* Any rows the table holds have a first one: what makes LIMIT 1 well defined.
HasFirst(X) == \E r \in X : \A s \in X : Precedes(r, s)
Ordered(t) == t \subseteq Records /\ \A X \in SUBSET t : X # {} => HasFirst(X)

\* One more row keeps the table ordered.
LEMMA OrderedStore ==
    ASSUME NEW t, Ordered(t), NEW u \in SUBSET t, NEW r \in Records
    PROVE  Ordered(u \cup {r})
<1> SUFFICES ASSUME NEW X \in SUBSET (u \cup {r}), X # {}
             PROVE  HasFirst(X)
    BY DEF Ordered
<1>1. X \subseteq Records
    BY DEF Ordered
<1>2. CASE X \ {r} = {}
    <2>1. X = {r}
        BY <1>2
    <2>2. Precedes(r, r)
        BY PrecedesOrder
    <2>3. QED
        BY <2>1, <2>2 DEF HasFirst
<1>3. CASE X \ {r} # {}
    <2>1. HasFirst(X \ {r})
        BY <1>3 DEF Ordered
    <2>2. PICK m \in X \ {r} : \A s \in X \ {r} : Precedes(m, s)
        BY <2>1 DEF HasFirst
    <2>3. CASE r \in X /\ Precedes(r, m)
        <3>1. \A s \in X : Precedes(r, s)
            BY <1>1, <2>2, <2>3, PrecedesOrder
        <3>2. QED
            BY <2>3, <3>1 DEF HasFirst
    <2>4. CASE r \notin X \/ Precedes(m, r)
        <3>1. \A s \in X : Precedes(m, s)
            BY <2>2, <2>4
        <3>2. QED
            BY <2>2, <3>1 DEF HasFirst
    <2>5. QED
        BY <1>1, <2>2, <2>3, <2>4, PrecedesOrder
<1>4. QED
    BY <1>2, <1>3

\* The query answers None or the value of a row it selects.
LEMMA QueryFacts ==
    ASSUME NEW t, Ordered(t), NEW up \in BOOLEAN, NEW sys, NEW phase, NEW prop,
           query_pg(t, up, sys, phase, prop) # None
    PROVE  /\ up
           /\ \E r \in Selected(t, sys, phase, prop) :
                    r \in Records /\ query_pg(t, up, sys, phase, prop) = r.value
<1> DEFINE found == Selected(t, sys, phase, prop)
<1>1. up /\ found # {}
    BY DEF query_pg
<1>2. found \in SUBSET t
    BY DEF Selected
<1>3. HasFirst(found)
    BY <1>1, <1>2 DEF Ordered
<1>4. query_pg(t, up, sys, phase, prop)
        = (CHOOSE r \in found : \A s \in found : Precedes(r, s)).value
    BY <1>1 DEF query_pg
<1> HIDE DEF found
<1>5. (CHOOSE r \in found : \A s \in found : Precedes(r, s)) \in found
    BY <1>3, Zenon DEF HasFirst
<1>6. QED
    BY <1>1, <1>2, <1>4, <1>5 DEF Ordered, found

\* A lookup flagged reference_ok carries an integer that the table or the
\* hardcoded set holds under the names asked for.
LEMMA LookupFacts ==
    ASSUME NEW t, Ordered(t), NEW up \in BOOLEAN, NEW d \in BOOLEAN, NEW ask,
           is_real_reference(lookup_reference(t, up, d, ask[1], ask[2], ask[3]))
    PROVE  LET v == lookup_reference(t, up, d, ask[1], ask[2], ask[3]).value
           IN  v \in Int /\ v \in RealValues(t, up, ask)
<1> DEFINE sys  == ask[1]
           ph   == Phase(ask[2])
           prop == PgProperty(ask[3])
           pg   == query_pg(t, up, sys, ph, prop)
           hard == Hardcoded(ask[1], ask[2], ask[3])
           v    == get_reference_value(t, up, ask[1], ask[2], ask[3])
<1>1. v # None /\ lookup_reference(t, up, d, ask[1], ask[2], ask[3]).value = v
    BY DEF lookup_reference, is_real_reference
<1>2. v = IF pg # None THEN pg ELSE IF hard # {} THEN (CHOOSE e \in hard : TRUE)[4] ELSE None
    BY DEF get_reference_value
<1>3. CASE pg # None
    <2>1. /\ up
          /\ \E r \in Selected(t, sys, ph, prop) : r \in Records /\ pg = r.value
        BY <1>3, QueryFacts
    <2>2. PICK r \in Selected(t, sys, ph, prop) : r \in Records /\ pg = r.value
        BY <2>1
    <2>3. r.value \in Int
        BY <2>2, RecordsAssumption
    <2>4. r \in {s \in t : up /\ s.element_system = ask[1] /\ s.phase = Phase(ask[2])
                             /\ s.property = PgProperty(ask[3])}
        BY <2>1, <2>2 DEF Selected
    <2>5. QED
        BY <1>1, <1>2, <1>3, <2>2, <2>3, <2>4 DEF RealValues
<1>4. CASE pg = None
    <2>1. hard # {} /\ v = (CHOOSE e \in hard : TRUE)[4]
        BY <1>1, <1>2, <1>4
    <2>2. PICK e \in hard : v = e[4]
        BY <2>1
    <2>3. e \in FALLBACK
        BY <2>2 DEF Hardcoded
    <2>4. e[4] \in Int
        BY <2>3 DEF FALLBACK
    <2>5. QED
        BY <1>1, <2>2, <2>4 DEF RealValues
<1>5. QED
    BY <1>3, <1>4
-----------------------------------------------------------------------------
(* The specification.                                                      *)

\* What a letter was given for is recorded with it.
Recorded ==
    last.grade # None =>
        /\ last.computed \in Int /\ last.ref.value \in Int
        /\ last.grade = run_grade(last.computed, last.ref.value)

GInv == Ordered(table) /\ pgUp \in BOOLEAN /\ dev \in BOOLEAN /\ Recorded

\* The invariant holds at first.
LEMMA GInit == GradingInit => GInv
<1> SUFFICES ASSUME GradingInit
             PROVE  GInv
    OBVIOUS
<1>1. Ordered(table)
    BY DEF GradingInit, Ordered
<1>2. last.grade = None
    BY DEF GradingInit, NoGrade
<1>3. QED
    BY <1>1, <1>2 DEF GradingInit, GInv, Recorded

\* What GradeProperty leaves in last.
LEMMA GradeStep ==
    ASSUME GInv, NEW ask \in Questions, NEW c \in Results, GradeProperty(ask, c), last'.grade # None
    PROVE  /\ last'.asked = ask /\ last'.computed = c /\ c \in Int
           /\ last'.ref.value \in Int
           /\ last'.ref.value \in RealValues(table, pgUp, ask)
           /\ last'.grade = run_grade(c, last'.ref.value)
<1> DEFINE ref == lookup_reference(table, pgUp, dev, ask[1], ask[2], ask[3])
           ref_v == IF is_real_reference(ref) THEN ref.value ELSE None
<1>1. last' = [asked |-> ask, computed |-> c, ref |-> ref, grade |-> run_grade(c, ref_v)]
    BY DEF GradeProperty
<1> HIDE DEF ref
<1>2. /\ last'.asked = ask /\ last'.computed = c /\ last'.ref = ref
      /\ last'.grade = run_grade(c, ref_v)
    BY <1>1
<1>3. ref_v # None
    BY <1>2 DEF run_grade
<1>4. is_real_reference(ref) /\ ref_v = ref.value
    BY <1>3
<1>5. ref.value \in Int /\ ref.value \in RealValues(table, pgUp, ask)
    BY <1>4, LookupFacts DEF GInv, ref
<1>6. QED
    BY <1>2, <1>4, <1>5, ResultsAssumption

\* Every step keeps it.
LEMMA GNext == GInv /\ [GradingNext]_gradingVars => GInv'
<1> SUFFICES ASSUME GInv, [GradingNext]_gradingVars
             PROVE  GInv'
    OBVIOUS
<1>1. ASSUME NEW r \in Records, Store(r)
      PROVE  GInv'
    <2>1. Ordered(table')
        BY <1>1, OrderedStore DEF GInv, Store
    <2>2. QED
        BY <1>1, <2>1 DEF GInv, Store, Recorded
<1>2. ASSUME NEW r \in Records, Remove(r)
      PROVE  GInv'
    <2>1. table' \subseteq table
        BY <1>2 DEF Remove
    <2>2. Ordered(table')
        BY <2>1 DEF GInv, Ordered
    <2>3. QED
        BY <1>2, <2>2 DEF GInv, Remove, Recorded
<1>3. CASE Outage
    BY <1>3 DEF GInv, Outage, Recorded
<1>4. ASSUME NEW ask \in Questions, NEW c \in Results, GradeProperty(ask, c)
      PROVE  GInv'
    <2>1. Recorded'
        BY <1>4, GradeStep DEF Recorded
    <2>2. QED
        BY <1>4, <2>1 DEF GInv, GradeProperty
<1>5. CASE UNCHANGED gradingVars
    BY <1>5 DEF GInv, gradingVars, Recorded
<1>6. QED
    BY <1>1, <1>2, <1>3, <1>4, <1>5 DEF GradingNext

\* Records have a first one in the query's order, and a letter is the one of the
\* value and reference recorded with it.
THEOREM GradingInvariance == GradingSpec => []GInv
BY GInit, GNext, PTL DEF GradingSpec

\* A lookup answers a flagged integer, or None; a letter is one of the five.
LEMMA GradeTypes ==
    ASSUME GInv, NEW ask, NEW c \in Int,
           NEW ref, ref = lookup_reference(table, pgUp, dev, ask[1], ask[2], ask[3])
    PROVE  /\ ref.flag \in Flag /\ ref.value \in Int \cup {None}
           /\ run_grade(c, IF is_real_reference(ref) THEN ref.value ELSE None) \in Letters \cup {None}
<1> DEFINE v == get_reference_value(table, pgUp, ask[1], ask[2], ask[3])
<1>1. \/ v # None /\ ref = [value |-> v, flag |-> "reference_ok"]
      \/ ref = [value |-> Guess(ask[1]), flag |-> "dev_fallback"]
      \/ ref = [value |-> None, flag |-> "reference_missing"]
    BY DEF lookup_reference
<1> HIDE DEF v
<1>2. CASE is_real_reference(ref)
  <2>1. ref.value \in Int
      BY <1>2, LookupFacts DEF GInv
  <2>2. ref.flag = "reference_ok"
      BY <1>2 DEF is_real_reference
  <2>3. Letter(c, ref.value, 2, 5, 10, 20) \in Letters
      BY <2>1, LetterCases DEF Letters
  <2>4. run_grade(c, ref.value) \in Letters \cup {None}
      BY <2>3 DEF run_grade, Letters
  <2>5. QED
      BY <1>2, <2>1, <2>2, <2>4 DEF Flag
<1>3. CASE ~is_real_reference(ref)
  <2>1. Guess(ask[1]) \in Int
      BY DEF Guess
  <2>2. ref.flag \in Flag /\ ref.value \in Int \cup {None}
      BY <1>1, <1>3, <2>1 DEF is_real_reference, Flag
  <2>3. run_grade(c, None) \in Letters \cup {None}
      BY DEF run_grade
  <2>4. QED
      BY <1>3, <2>2, <2>3
<1>4. QED
    BY <1>2, <1>3

\* An id is in the table once, and a lookup answers with a flag of its kind.
THEOREM TypeCorrectness == GradingSpec => []GradingTypeOK
<1>1. GradingInit => GradingTypeOK
    BY DEF GradingInit, NoGrade, GradingTypeOK, Flag
<1>2. ASSUME GInv, GradingTypeOK, [GradingNext]_gradingVars PROVE GradingTypeOK'
  <2>1. ASSUME NEW ask \in Questions, NEW c \in Results, GradeProperty(ask, c) PROVE GradingTypeOK'
    <3> DEFINE ref == lookup_reference(table, pgUp, dev, ask[1], ask[2], ask[3])
               grade == run_grade(c, IF is_real_reference(ref) THEN ref.value ELSE None)
    <3>1. last' = [asked |-> ask, computed |-> c, ref |-> ref, grade |-> grade]
        BY <2>1 DEF GradeProperty
    <3>2. ref.flag \in Flag /\ ref.value \in Int \cup {None} /\ grade \in Letters \cup {None}
        BY <1>2, GradeTypes, ResultsAssumption
    <3> HIDE DEF ref, grade
    <3>3. last'.ref.flag \in Flag /\ last'.ref.value \in Int \cup {None} /\ last'.grade \in Letters \cup {None}
        BY <3>1, <3>2
    <3>4. QED
        BY <3>3, <2>1, <1>2 DEF GradingTypeOK, GradeProperty
  <2>2. ASSUME NEW r \in Records, Store(r) \/ Remove(r) PROVE GradingTypeOK'
      BY <2>2, <1>2 DEF GradingTypeOK, Store, Remove
  <2>3. CASE Outage \/ UNCHANGED gradingVars
      BY <2>3, <1>2 DEF GradingTypeOK, Outage, gradingVars
  <2>4. QED
      BY <2>1, <2>2, <2>3, <1>2 DEF GradingNext
<1>3. QED
    BY <1>1, <1>2, GradingInvariance, PTL DEF GradingSpec

\* A letter is given only against a value that the table or the hardcoded set
\* holds for the question, whatever the environment and however the database
\* comes and goes.
THEOREM GradesAreReal == GradingSpec => GradedOnReal
<1>1. ASSUME GInv, [GradingNext]_gradingVars
      PROVE  [last' # last /\ last'.grade # None
                => last'.ref.value \in RealValues(table, pgUp, last'.asked)]_gradingVars
    <2> SUFFICES ASSUME last' # last, last'.grade # None
                 PROVE  last'.ref.value \in RealValues(table, pgUp, last'.asked)
        OBVIOUS
    <2>1. PICK ask \in Questions, c \in Results : GradeProperty(ask, c)
        BY <1>1 DEF GradingNext, Store, Remove, Outage, gradingVars
    <2>2. QED
        BY <1>1, <2>1, GradeStep
<1>2. QED
    BY <1>1, GradingInvariance, PTL DEF GradingSpec, GradedOnReal

\* Of two computed values the one nearer to the reference of the last grade
\* gets no worse a letter.
THEOREM NearerIsNoWorseHolds == GradingSpec => []NearerIsNoWorse
<1>1. GInv => NearerIsNoWorse
    <2> SUFFICES ASSUME GInv, last.grade # None, NEW c \in Results,
                        Distance(c, last.ref.value) <= Distance(last.computed, last.ref.value)
                 PROVE  Rank[run_grade(c, last.ref.value)] <= Rank[last.grade]
        BY DEF NearerIsNoWorse
    <2> DEFINE r == last.ref.value
               d == last.computed
    <2>1. r \in Int /\ d \in Int /\ c \in Int /\ last.grade = run_grade(d, r)
        BY ResultsAssumption DEF GInv, Recorded
    <2>2. r # None
        BY <2>1, NoneAssumption
    <2>3. CASE r = 0
        <3>1. run_grade(c, r) = "F" /\ run_grade(d, r) = "F"
            BY <2>2, <2>3 DEF run_grade
        <3>2. QED
            BY <2>1, <3>1 DEF Rank
    <2>4. CASE r # 0
        <3>1. /\ run_grade(c, r) = Letter(c, r, 2, 5, 10, 20)
              /\ run_grade(d, r) = Letter(d, r, 2, 5, 10, 20)
            BY <2>2, <2>4 DEF run_grade
        <3>2. QED
            BY <2>1, <3>1, LetterNearer
    <2>5. QED
        BY <2>3, <2>4
<1>2. QED
    BY <1>1, GradingInvariance, PTL

-----------------------------------------------------------------------------
(* The scripts: commands that set the crystal up, and the lines after them. *)

Task == [property : Property, crystal : Crystals, meta : {get_potential(r) : r \in Rows},
         n : Sizes, deviation : Deviations]
LatticeRun(t)  == t.property \in {"lattice_constant", "cohesive_energy"}
StrainedRun(t) == t.property \in {"elastic_constants", "bulk_modulus"}
VacancyRun(t)  == t.property = "vacancy_formation_energy"
SurfaceRun(t)  == t.property = "surface_energy"

Setup(t, k) ==
    IF LatticeRun(t) THEN Cell("p", multi_element_box_block(t.n), t.meta) \o <<<<"box_relax">>>>
    ELSE IF StrainedRun(t) THEN Cell("p", create(t.n), t.meta) \o Strain(Strains[k])
    ELSE IF VacancyRun(t) THEN Cell("p", multi_element_box_block(t.n), t.meta)
    ELSE Cell("s", multi_element_box_block(t.n), t.meta)
Rest(t) == IF LatticeRun(t) THEN LATTICE ELSE IF StrainedRun(t) THEN STRAINED
           ELSE IF VacancyRun(t) THEN VACANCY ELSE SURFACE

-----------------------------------------------------------------------------
(* Sums.                                                                   *)

\* A set of natural numbers has a least element.
LEMMA LeastNat ==
    ASSUME NEW T, T \subseteq Nat, T # {}
    PROVE  \E m \in T : \A n \in T : m <= n
<1> DEFINE Less == {ss \in Nat \X Nat : ss[1] < ss[2]}
<1>1. IsWellFoundedOn(Less, Nat)
    BY NatLessThanWellFounded, SMT DEF OpToRel
<1>2. PICK m \in T : \A n \in T : ~(<<n, m>> \in Less)
    BY <1>1, WFMin
<1>3. \A n \in T : ~(n < m)
    BY <1>2
<1>4. QED
    BY <1>3

\* The equation that defines the sums of s up to k.
IsSums(f, s, k) == f = [j \in 0 .. k |-> IF j = 0 THEN 0 ELSE f[j - 1] + s[j]]

\* Some function satisfies it, for every k: a least k for which none does is impossible.
LEMMA SumsExist ==
    ASSUME NEW s, NEW n \in Nat
    PROVE  \E f : IsSums(f, s, n)
<1> DEFINE missing == {k \in 0 .. n : ~\E f : IsSums(f, s, k)}
<1>1. SUFFICES missing = {}
    OBVIOUS
<1>2. SUFFICES ASSUME missing # {} PROVE FALSE
    OBVIOUS
<1>3. PICK k \in missing : \A j \in missing : k <= j
  <2>1. missing \subseteq Nat
      OBVIOUS
  <2> HIDE DEF missing
  <2>2. QED
      BY <1>2, <2>1, LeastNat
<1>4. CASE k = 0
  <2> DEFINE f == [j \in 0 .. 0 |-> 0]
  <2>1. IsSums(f, s, 0)
      BY DEF IsSums
  <2>2. QED
      BY <1>3, <1>4, <2>1
<1>5. CASE k # 0
  <2>1. k \in Nat /\ k - 1 \in 0 .. n /\ k - 1 \notin missing
      BY <1>3, <1>5
  <2>2. PICK f : IsSums(f, s, k - 1)
      BY <2>1
  <2> DEFINE g == [j \in 0 .. k |-> IF j = k THEN f[k - 1] + s[k] ELSE f[j]]
  <2>3. \A j \in 0 .. k - 1 : g[j] = IF j = 0 THEN 0 ELSE f[j - 1] + s[j]
      BY <2>1, <2>2 DEF IsSums
  <2>4. \A j \in 0 .. k : g[j] = IF j = 0 THEN 0 ELSE g[j - 1] + s[j]
      BY <2>1, <2>3, <1>5
  <2>5. g = [j \in 0 .. k |-> g[j]]
      OBVIOUS
  <2> HIDE DEF g
  <2>6. g = [j \in 0 .. k |-> IF j = 0 THEN 0 ELSE g[j - 1] + s[j]]
      BY <2>4, <2>5
  <2>7. IsSums(g, s, k)
      BY <2>6 DEF IsSums
  <2>8. QED
      BY <1>3, <2>7
<1>6. QED
    BY <1>4, <1>5

\* Hence the sums of the model are what they are meant to be.
LEMMA SumsStep ==
    ASSUME NEW s, Len(s) \in Nat
    PROVE  /\ Sums(s)[0] = 0
           /\ \A k \in 1 .. Len(s) : Sums(s)[k] = Sums(s)[k - 1] + s[k]
<1> DEFINE n == Len(s)
           f == Sums(s)
<1>1. IsSums(CHOOSE g : IsSums(g, s, n), s, n)
    BY SumsExist
<1>2. f = CHOOSE g : IsSums(g, s, n)
    BY DEF Sums, IsSums
<1>3. f = [j \in 0 .. n |-> IF j = 0 THEN 0 ELSE f[j - 1] + s[j]]
    BY <1>1, <1>2 DEF IsSums
<1> HIDE DEF f
<1>4. \A j \in 0 .. n : f[j] = IF j = 0 THEN 0 ELSE f[j - 1] + s[j]
    BY <1>3
<1>5. QED
    BY <1>4 DEF f

\* The sums of integers are integers.
LEMMA SumsInt ==
    ASSUME NEW s \in Seq(Int)
    PROVE  \A k \in 0 .. Len(s) : Sums(s)[k] \in Int
<1> DEFINE wrong == {k \in 0 .. Len(s) : Sums(s)[k] \notin Int}
<1>1. SUFFICES ASSUME wrong # {} PROVE FALSE
    OBVIOUS
<1>2. PICK k \in wrong : \A j \in wrong : k <= j
  <2>1. wrong \subseteq Nat
      OBVIOUS
  <2> HIDE DEF wrong
  <2>2. QED
      BY <1>1, <2>1, LeastNat
<1>3. k # 0
    BY <1>2, SumsStep
<1>4. k \in 1 .. Len(s) /\ k - 1 \in 0 .. Len(s) /\ k - 1 \notin wrong
    BY <1>2, <1>3
<1>5. Sums(s)[k] = Sums(s)[k - 1] + s[k] /\ s[k] \in Int /\ Sums(s)[k - 1] \in Int
    BY <1>4, SumsStep
<1>6. QED
    BY <1>2, <1>5

\* The total of a function to integers is an integer.
LEMMA TotalInt ==
    ASSUME NEW s \in Seq(Int) PROVE Total(s) \in Int
BY SumsInt DEF Total

\* Only the first number is not 0.
LEMMA TotalFirst ==
    ASSUME NEW s \in Seq(Int), Len(s) >= 1, \A k \in 2 .. Len(s) : s[k] = 0
    PROVE  Total(s) = s[1]
<1> DEFINE wrong == {k \in 1 .. Len(s) : Sums(s)[k] # s[1]}
<1>1. SUFFICES ASSUME wrong # {} PROVE FALSE
    BY DEF Total
<1>2. PICK k \in wrong : \A j \in wrong : k <= j
  <2>1. wrong \subseteq Nat
      OBVIOUS
  <2> HIDE DEF wrong
  <2>2. QED
      BY <1>1, <2>1, LeastNat
<1>3. Sums(s)[k] = Sums(s)[k - 1] + s[k] /\ Sums(s)[0] = 0
    BY <1>2, SumsStep
<1>4. CASE k = 1
    BY <1>2, <1>3, <1>4
<1>5. CASE k # 1
  <2>1. k - 1 \in 1 .. Len(s) /\ k - 1 \notin wrong
      BY <1>2, <1>5
  <2>2. Sums(s)[k - 1] = s[1] /\ s[k] = 0 /\ s[1] \in Int
      BY <1>2, <1>5, <2>1
  <2>3. QED
      BY <1>2, <1>3, <2>2
<1>6. QED
    BY <1>4, <1>5

\* One number changes.
LEMMA TotalChange ==
    ASSUME NEW s \in Seq(Int), NEW i \in 1 .. Len(s), NEW v \in Int
    PROVE  Total([s EXCEPT ![i] = v]) = Total(s) - s[i] + v
<1> DEFINE u == [s EXCEPT ![i] = v]
           wrong == {k \in 0 .. Len(s) :
                        Sums(u)[k] # Sums(s)[k] + IF k >= i THEN v - s[i] ELSE 0}
<1>1. u \in Seq(Int) /\ Len(u) = Len(s) /\ u[i] = v /\ \A k \in 1 .. Len(s) : k # i => u[k] = s[k]
    OBVIOUS
<1> HIDE DEF u
<1>2. SUFFICES ASSUME wrong # {} PROVE FALSE
  <2>1. CASE wrong = {}
    <3>1. Sums(u)[Len(s)] = Sums(s)[Len(s)] + (v - s[i])
        BY <2>1
    <3>2. Sums(s)[Len(s)] \in Int /\ s[i] \in Int
        BY SumsInt
    <3>3. QED
        BY <3>1, <3>2, <1>1 DEF Total, u
  <2>2. QED
      BY <2>1
<1>3. PICK k \in wrong : \A j \in wrong : k <= j
  <2>1. wrong \subseteq Nat
      OBVIOUS
  <2> HIDE DEF wrong
  <2>2. QED
      BY <1>2, <2>1, LeastNat
<1>4. Sums(u)[0] = 0 /\ Sums(s)[0] = 0
    BY <1>1, SumsStep
<1>5. k # 0
    BY <1>3, <1>4
<1>6. k \in 1 .. Len(s) /\ k - 1 \in 0 .. Len(s) /\ k - 1 \notin wrong
    BY <1>3, <1>5
<1>7. Sums(u)[k] = Sums(u)[k - 1] + u[k] /\ Sums(s)[k] = Sums(s)[k - 1] + s[k]
  <2>1. Len(u) \in Nat /\ k \in 1 .. Len(u) /\ Len(s) \in Nat /\ k \in 1 .. Len(s)
      BY <1>1, <1>6
  <2>2. Sums(u)[k] = Sums(u)[k - 1] + u[k]
      BY Zenon, <2>1, SumsStep
  <2>3. Sums(s)[k] = Sums(s)[k - 1] + s[k]
      BY Zenon, <2>1, SumsStep
  <2>4. QED
      BY Zenon, <2>2, <2>3
<1>8. /\ Sums(u)[k - 1] = Sums(s)[k - 1] + IF k - 1 >= i THEN v - s[i] ELSE 0
      /\ Sums(s)[k - 1] \in Int /\ s[k] \in Int /\ s[i] \in Int
    BY <1>6, SumsInt
<1>9. Sums(u)[k] = Sums(s)[k] + IF k >= i THEN v - s[i] ELSE 0
  <2>1. u[k] = IF k = i THEN v ELSE s[k]
      BY <1>1, <1>6
  <2>2. k \in Int /\ i \in Int
      BY <1>6
  <2> HIDE DEF u, wrong
  <2>3. CASE k = i
    <3>1. Sums(u)[k - 1] = Sums(s)[k - 1] + 0 /\ u[k] = v
        BY <1>8, <2>1, <2>2, <2>3
    <3>2. QED
        BY <1>7, <1>8, <2>2, <2>3, <3>1
  <2>4. CASE k < i
    <3>1. Sums(u)[k - 1] = Sums(s)[k - 1] + 0 /\ u[k] = s[k]
        BY <1>8, <2>1, <2>2, <2>4
    <3>2. QED
        BY <1>7, <1>8, <2>2, <2>4, <3>1
  <2>5. CASE k > i
    <3>1. Sums(u)[k - 1] = Sums(s)[k - 1] + (v - s[i]) /\ u[k] = s[k]
        BY <1>8, <2>1, <2>2, <2>5
    <3>2. QED
        BY <1>7, <1>8, <2>2, <2>5, <3>1
  <2>6. QED
      BY <2>2, <2>3, <2>4, <2>5
<1>10. QED
    BY <1>3, <1>9

-----------------------------------------------------------------------------
\* How a concatenation is indexed.
LEMMA Joined ==
    ASSUME NEW S, NEW s \in Seq(S), NEW u \in Seq(S)
    PROVE  /\ s \o u \in Seq(S) /\ Len(s \o u) = Len(s) + Len(u)
           /\ \A i \in 1 .. Len(s) : (s \o u)[i] = s[i]
           /\ \A j \in 1 .. Len(u) : (s \o u)[Len(s) + j] = u[j]
OBVIOUS

\* No row has a column named type.
LEMMA NoPlugin ==
    ASSUME NEW t \in Task PROVE plugin_load_line(t.meta) = <<>>
<1>1. PICK r \in Rows : t.meta = get_potential(r)
    BY DEF Task
<1>2. DOMAIN t.meta = {"style", "subtype"}
    BY <1>1 DEF get_potential
<1>3. QED
    BY <1>2 DEF plugin_load_line, is_dp

\* Every command a script may hold.
Commands(t) ==
    {<<"boundary", "p">>, <<"boundary", "s">>, <<"create_atoms", t.n>>,
     <<"pair_style", t.meta.style>>, <<"box_relax">>}
    \cup {<<"set_type", i, t.n>> : i \in 1 .. t.n}
    \cup {<<"change_box", j, x>> : j \in 1 .. 3, x \in {-1, 1}}
    \cup {Rest(t)[i] : i \in 1 .. Len(Rest(t))}

\* The atoms of a cell of n elements: created, then shared out type by type.
LEMMA MultiFacts ==
    ASSUME NEW t \in Task, t.n \in Nat, t.n >= 1
    PROVE  LET b == multi_element_box_block(t.n)
           IN  /\ b \in Seq(Commands(t)) /\ Len(b) = t.n
               /\ b[1] = <<"create_atoms", t.n>>
               /\ \A i \in 2 .. t.n : b[i] = <<"set_type", i - 1, t.n>>
<1> DEFINE n == t.n
           C == Commands(t)
           one == <<<<"create_atoms", n>>>>
           more == [i \in 1 .. n - 1 |-> <<"set_type", i, n>>]
<1>1. one \in Seq(C) /\ Len(one) = 1 /\ one[1] = <<"create_atoms", n>>
    BY DEF Commands
<1>2. more \in Seq(C) /\ Len(more) = n - 1 /\ \A i \in 1 .. n - 1 : more[i] = <<"set_type", i, n>>
    BY DEF Commands
<1>3. multi_element_box_block(n) = one \o more
    BY DEF multi_element_box_block, create
<1> HIDE DEF one, more, C
<1>4. /\ one \o more \in Seq(C) /\ Len(one \o more) = n
      /\ (one \o more)[1] = <<"create_atoms", n>>
      /\ \A j \in 1 .. n - 1 : (one \o more)[1 + j] = more[j]
    BY <1>1, <1>2, Joined
<1>5. \A i \in 2 .. n : (one \o more)[i] = <<"set_type", i - 1, n>>
  <2> TAKE i \in 2 .. n
  <2>1. i - 1 \in 1 .. n - 1 /\ i = 1 + (i - 1)
      OBVIOUS
  <2>2. QED
      BY <2>1, <1>2, <1>4
<1>6. QED
    BY <1>3, <1>4, <1>5 DEF C

\* The commands of a cell: z, its atoms, the pair style.
CellShape(t, z, atoms, b) ==
    /\ b \in Seq(Commands(t)) /\ Len(b) = Len(atoms) + 2
    /\ b[1] = <<"boundary", z>>
    /\ \A i \in 1 .. Len(atoms) : b[1 + i] = atoms[i]
    /\ b[Len(atoms) + 2] = <<"pair_style", t.meta.style>>

\* The commands of a cell, by their places.
LEMMA CellFacts ==
    ASSUME NEW t \in Task, NEW z \in {"p", "s"}, NEW atoms \in Seq(Commands(t)),
           NEW b, b = Cell(z, atoms, t.meta)
    PROVE  CellShape(t, z, atoms, b)
<1> DEFINE C == Commands(t)
           first == <<<<"boundary", z>>>>
           final == <<<<"pair_style", t.meta.style>>>>
<1>1. first \in Seq(C) /\ Len(first) = 1 /\ first[1] = <<"boundary", z>>
    BY DEF Commands
<1>2. final \in Seq(C) /\ Len(final) = 1 /\ final[1] = <<"pair_style", t.meta.style>>
    BY DEF Commands
<1>3. b = first \o atoms \o <<>> \o final
    BY NoPlugin DEF Cell
<1> HIDE DEF first, final, C
<1>4. first \o atoms \in Seq(C) /\ Len(first \o atoms) = 1 + Len(atoms)
      /\ (first \o atoms)[1] = <<"boundary", z>>
      /\ \A i \in 1 .. Len(atoms) : (first \o atoms)[1 + i] = atoms[i]
    BY <1>1, Joined DEF C
<1>5. first \o atoms \o <<>> = first \o atoms
    BY <1>4
<1>6. QED
    BY <1>2, <1>3, <1>4, <1>5, Joined DEF C, CellShape

\* The strains one by one, and the commands that apply them.
LEMMA StrainList ==
    /\ DOMAIN Strains = 1 .. 7
    /\ Strains[1] = <<0, 0, 0>>
    /\ Strains[2] = <<1, 0, 0>>
    /\ Strains[3] = <<-1, 0, 0>>
    /\ Strains[4] = <<0, 1, 0>>
    /\ Strains[5] = <<1, 1, 0>>
    /\ Strains[6] = <<0, 0, 1>>
    /\ Strains[7] = <<0, 0, -1>>
BY DEF Strains

\* Two commands in a row.
LEMMA Pair ==
    ASSUME NEW x, NEW y PROVE <<x>> \o <<y>> \o <<>> = <<x, y>>
<1> DEFINE p == <<x>> \o <<y>>
<1>1. p \in Seq({x, y}) /\ Len(p) = 2 /\ p[1] = x /\ p[2] = y
    OBVIOUS
<1> HIDE DEF p
<1>2. p = <<x, y>>
    BY <1>1
<1>3. p \o <<>> = p
    BY <1>1
<1>4. QED
    BY <1>2, <1>3 DEF p

\* The commands of a strain, cell by cell.
LEMMA StrainCommands ==
    /\ Strain(Strains[1]) = <<>>
    /\ Strain(Strains[2]) = <<<<"change_box", 1, 1>>>>
    /\ Strain(Strains[3]) = <<<<"change_box", 1, -1>>>>
    /\ Strain(Strains[4]) = <<<<"change_box", 2, 1>>>>
    /\ Strain(Strains[5]) = <<<<"change_box", 1, 1>>, <<"change_box", 2, 1>>>>
    /\ Strain(Strains[6]) = <<<<"change_box", 3, 1>>>>
    /\ Strain(Strains[7]) = <<<<"change_box", 3, -1>>>>
<1>1. Strain(Strains[1]) = <<>>
    BY StrainList DEF Strain
<1>2. Strain(Strains[2]) = <<<<"change_box", 1, 1>>>>
    BY StrainList DEF Strain
<1>3. Strain(Strains[3]) = <<<<"change_box", 1, -1>>>>
    BY StrainList DEF Strain
<1>4. Strain(Strains[4]) = <<<<"change_box", 2, 1>>>>
    BY StrainList DEF Strain
<1>5. Strain(Strains[5]) = <<<<"change_box", 1, 1>>, <<"change_box", 2, 1>>>>
    BY StrainList, Pair DEF Strain
<1>6. Strain(Strains[6]) = <<<<"change_box", 3, 1>>>>
    BY StrainList DEF Strain
<1>7. Strain(Strains[7]) = <<<<"change_box", 3, -1>>>>
    BY StrainList DEF Strain
<1>8. QED
    BY <1>1, <1>2, <1>3, <1>4, <1>5, <1>6, <1>7

\* A box is strained once along each axis along which its strain is not 0.
LEMMA StrainFacts ==
    ASSUME NEW t \in Task, NEW k \in 1 .. 7
    PROVE  LET b == Strain(Strains[k])
           IN  /\ b \in Seq(Commands(t))
               /\ \A j \in 1 .. 3 : Strains[k][j] \in {-1, 0, 1}
               /\ \A i \in 1 .. Len(b) : \E j \in 1 .. 3 :
                     b[i] = <<"change_box", j, Strains[k][j]>> /\ Strains[k][j] # 0
               /\ \A j \in 1 .. 3 : Strains[k][j] # 0 =>
                     \E i \in 1 .. Len(b) : b[i] = <<"change_box", j, Strains[k][j]>>
               /\ \A i, l \in 1 .. Len(b) : b[i][2] = b[l][2] => i = l
<1>1. CASE k = 1
  <2> DEFINE b == Strain(Strains[k])
  <2>1. b = <<>> /\ Strains[k] = <<0, 0, 0>>
      BY <1>1, StrainList, StrainCommands
  <2> HIDE DEF b
  <2>2. Len(b) = 0
      BY <2>1
  <2>3. b \in Seq(Commands(t))
      BY <2>1 DEF Commands
  <2>4. QED
      BY <2>1, <2>2, <2>3 DEF b
<1>2. CASE k = 2
  <2> DEFINE b == Strain(Strains[k])
  <2>1. b = <<<<"change_box", 1, 1>>>> /\ Strains[k] = <<1, 0, 0>>
      BY <1>2, StrainList, StrainCommands
  <2> HIDE DEF b
  <2>2. Len(b) = 1 /\ b[1] = <<"change_box", 1, 1>>
      BY <2>1
  <2>3. b \in Seq(Commands(t))
      BY <2>1 DEF Commands
  <2>4. QED
      BY <2>1, <2>2, <2>3 DEF b
<1>3. CASE k = 3
  <2> DEFINE b == Strain(Strains[k])
  <2>1. b = <<<<"change_box", 1, -1>>>> /\ Strains[k] = <<-1, 0, 0>>
      BY <1>3, StrainList, StrainCommands
  <2> HIDE DEF b
  <2>2. Len(b) = 1 /\ b[1] = <<"change_box", 1, -1>>
      BY <2>1
  <2>3. b \in Seq(Commands(t))
      BY <2>1 DEF Commands
  <2>4. QED
      BY <2>1, <2>2, <2>3 DEF b
<1>4. CASE k = 4
  <2> DEFINE b == Strain(Strains[k])
  <2>1. b = <<<<"change_box", 2, 1>>>> /\ Strains[k] = <<0, 1, 0>>
      BY <1>4, StrainList, StrainCommands
  <2> HIDE DEF b
  <2>2. Len(b) = 1 /\ b[1] = <<"change_box", 2, 1>>
      BY <2>1
  <2>3. b \in Seq(Commands(t))
      BY <2>1 DEF Commands
  <2>4. QED
      BY <2>1, <2>2, <2>3 DEF b
<1>5. CASE k = 5
  <2> DEFINE b == Strain(Strains[k])
  <2>1. b = <<<<"change_box", 1, 1>>, <<"change_box", 2, 1>>>> /\ Strains[k] = <<1, 1, 0>>
      BY <1>5, StrainList, StrainCommands
  <2> HIDE DEF b
  <2>2. Len(b) = 2 /\ b[1] = <<"change_box", 1, 1>> /\ b[2] = <<"change_box", 2, 1>>
      BY <2>1
  <2>3. b \in Seq(Commands(t))
      BY <2>1 DEF Commands
  <2>4. QED
      BY <2>1, <2>2, <2>3 DEF b
<1>6. CASE k = 6
  <2> DEFINE b == Strain(Strains[k])
  <2>1. b = <<<<"change_box", 3, 1>>>> /\ Strains[k] = <<0, 0, 1>>
      BY <1>6, StrainList, StrainCommands
  <2> HIDE DEF b
  <2>2. Len(b) = 1 /\ b[1] = <<"change_box", 3, 1>>
      BY <2>1
  <2>3. b \in Seq(Commands(t))
      BY <2>1 DEF Commands
  <2>4. QED
      BY <2>1, <2>2, <2>3 DEF b
<1>7. CASE k = 7
  <2> DEFINE b == Strain(Strains[k])
  <2>1. b = <<<<"change_box", 3, -1>>>> /\ Strains[k] = <<0, 0, -1>>
      BY <1>7, StrainList, StrainCommands
  <2> HIDE DEF b
  <2>2. Len(b) = 1 /\ b[1] = <<"change_box", 3, -1>>
      BY <2>1
  <2>3. b \in Seq(Commands(t))
      BY <2>1 DEF Commands
  <2>4. QED
      BY <2>1, <2>2, <2>3 DEF b
<1>8. k = 1 \/ k = 2 \/ k = 3 \/ k = 4 \/ k = 5 \/ k = 6 \/ k = 7
    OBVIOUS
<1>9. QED
    BY Zenon, <1>1, <1>2, <1>3, <1>4, <1>5, <1>6, <1>7, <1>8

\* What a task is made of.
LEMMA TaskTypes ==
    ASSUME NEW t \in Task
    PROVE  /\ t.property \in Property /\ t.crystal \in Crystals /\ t.crystal \in Crystal
           /\ t.n \in Nat /\ t.n >= 1 /\ t.n <= Len(t.crystal.ecoh)
           /\ t.crystal.area > 0 /\ t.crystal.volume > 0
<1>1. t.n \in Sizes /\ t.crystal \in Crystals /\ t.property \in Property
    BY DEF Task
<1>2. \A m \in Sizes : m \in Nat /\ m >= 1
    BY SizesAssumption
<1>3. t.n <= Len(t.crystal.ecoh)
    BY <1>1, SizesAssumption
<1>4. t.crystal \in Crystal /\ t.crystal.area > 0 /\ t.crystal.volume > 0
    BY <1>1, CrystalsAssumption
<1>5. t.n \in Nat /\ t.n >= 1
    BY <1>1, <1>2
<1>6. QED
    BY <1>1, <1>3, <1>4, <1>5

\* The four kinds of script, and how many processes run one.
LEMMA TaskKinds ==
    ASSUME NEW t \in Task
    PROVE  /\ LatticeRun(t) \/ StrainedRun(t) \/ VacancyRun(t) \/ SurfaceRun(t)
           /\ LatticeRun(t) => ~StrainedRun(t) /\ ~VacancyRun(t) /\ ~SurfaceRun(t)
           /\ StrainedRun(t) => ~VacancyRun(t) /\ ~SurfaceRun(t)
           /\ VacancyRun(t) => ~SurfaceRun(t)
           /\ Runs(t.property) = IF StrainedRun(t) THEN 7 ELSE 1
<1>1. Len(Strains) = 7
    BY DEF Strains
<1>2. t.property \in Property
    BY DEF Task
<1>3. QED
    BY <1>1, <1>2 DEF LatticeRun, StrainedRun, VacancyRun, SurfaceRun, Property, Runs

\* The scripts of the model are a setup and the rest.
LEMMA ScriptParts ==
    ASSUME NEW t \in Task, NEW k PROVE Script(t, k) = Setup(t, k) \o Rest(t)
BY DEF Task, Script, Setup, Rest, LatticeRun, StrainedRun, VacancyRun, SurfaceRun, Property,
   generate_lattice_input, generate_strained_input, generate_vacancy_input, generate_surface_energy_input

\* The rest is a sequence of commands.
LEMMA RestFacts ==
    ASSUME NEW t \in Task PROVE Rest(t) \in Seq(Commands(t)) /\ Len(Rest(t)) \in Nat
<1>1. \A i \in 1 .. Len(Rest(t)) : Rest(t)[i] \in Commands(t)
    BY DEF Commands
<1> HIDE DEF Commands
<1>2. \E S : Rest(t) \in Seq(S)
  <2>1. LATTICE \in Seq({LATTICE[i] : i \in 1 .. 5})
      BY DEF LATTICE
  <2>2. STRAINED \in Seq({STRAINED[i] : i \in 1 .. 4})
      BY DEF STRAINED
  <2>3. VACANCY \in Seq({VACANCY[i] : i \in 1 .. 11})
      BY DEF VACANCY
  <2>4. SURFACE \in Seq({SURFACE[i] : i \in 1 .. 11})
      BY DEF SURFACE
  <2>5. Rest(t) \in {LATTICE, STRAINED, VACANCY, SURFACE}
      BY DEF Rest
  <2>6. QED
      BY <2>1, <2>2, <2>3, <2>4, <2>5
<1>3. QED
    BY <1>1, <1>2

\* The setup: boundary, atoms, types, pair style, then what moves the box.
SetupCommand(t, k, i, cmd) ==
    \/ cmd = <<"set_type", i - 2, t.n>> /\ i - 2 \in 1 .. t.n - 1 /\ ~StrainedRun(t)
    \/ cmd = <<"pair_style", t.meta.style>>
    \/ cmd = <<"box_relax">> /\ LatticeRun(t) /\ i = Len(Setup(t, k))
    \/ StrainedRun(t) /\ \E j \in 1 .. 3 : cmd = <<"change_box", j, Strains[k][j]>> /\ Strains[k][j] # 0

\* The setup of a cell of n elements.
LEMMA MultiCell ==
    ASSUME NEW t \in Task, NEW z \in {"p", "s"}, NEW c, c = Cell(z, multi_element_box_block(t.n), t.meta)
    PROVE  /\ c \in Seq(Commands(t)) /\ Len(c) >= 3
           /\ c[1] = <<"boundary", z>> /\ c[2] = <<"create_atoms", t.n>>
           /\ \A i \in 3 .. Len(c) : \/ c[i] = <<"set_type", i - 2, t.n>> /\ i - 2 \in 1 .. t.n - 1
                                     \/ c[i] = <<"pair_style", t.meta.style>>
<1> DEFINE n == t.n
           multi == multi_element_box_block(n)
<1>1. n \in Nat /\ n >= 1
    BY TaskTypes
<1>2. /\ multi \in Seq(Commands(t)) /\ Len(multi) = n /\ multi[1] = <<"create_atoms", n>>
      /\ \A i \in 2 .. n : multi[i] = <<"set_type", i - 1, n>>
    BY <1>1, MultiFacts
<1>3. c = Cell(z, multi, t.meta)
    OBVIOUS
<1> HIDE DEF multi
<1>4. /\ c \in Seq(Commands(t)) /\ Len(c) = Len(multi) + 2 /\ c[1] = <<"boundary", z>>
      /\ \A i \in 1 .. Len(multi) : c[1 + i] = multi[i]
      /\ c[Len(multi) + 2] = <<"pair_style", t.meta.style>>
  <2>1. multi \in Seq(Commands(t))
      BY <1>2
  <2>2. CellShape(t, z, multi, c)
      BY <2>1, <1>3, CellFacts
  <2>3. QED
      BY <2>2 DEF CellShape
<1> HIDE DEF n
<1>5. c[2] = <<"create_atoms", n>>
  <2>1. 1 \in 1 .. Len(multi) /\ 2 = 1 + 1
      BY <1>1, <1>2
  <2>2. c[1 + 1] = multi[1]
      BY <2>1, <1>4
  <2>3. QED
      BY <2>2, <1>2
<1>6. ASSUME NEW i \in 3 .. Len(c), i # n + 2
      PROVE  c[i] = <<"set_type", i - 2, n>> /\ i - 2 \in 1 .. n - 1
  <2>1. i - 1 \in 2 .. n /\ i = 1 + (i - 1) /\ (i - 1) - 1 = i - 2
      BY <1>1, <1>2, <1>4, <1>6
  <2>2. c[1 + (i - 1)] = multi[i - 1]
      BY <2>1, <1>2, <1>4
  <2>3. QED
      BY <2>1, <2>2, <1>1, <1>2
<1>7. Len(c) >= 3
    BY <1>1, <1>2, <1>4
<1>8. QED
    BY <1>2, <1>4, <1>5, <1>6, <1>7 DEF n

\* The setup of a cell whose atoms are all of the first type.
LEMMA OneCell ==
    ASSUME NEW t \in Task, NEW c, c = Cell("p", create(t.n), t.meta)
    PROVE  /\ c \in Seq(Commands(t)) /\ Len(c) = 3
           /\ c[1] = <<"boundary", "p">> /\ c[2] = <<"create_atoms", t.n>>
           /\ c[3] = <<"pair_style", t.meta.style>>
<1> DEFINE one == create(t.n)
<1>1. one \in Seq(Commands(t)) /\ Len(one) = 1 /\ one[1] = <<"create_atoms", t.n>>
    BY DEF create, Commands
<1>2. c = Cell("p", one, t.meta)
    OBVIOUS
<1> HIDE DEF one
<1>3. /\ c \in Seq(Commands(t)) /\ Len(c) = 3 /\ c[1] = <<"boundary", "p">>
      /\ \A i \in 1 .. 1 : c[1 + i] = one[i]
      /\ c[3] = <<"pair_style", t.meta.style>>
  <2>1. one \in Seq(Commands(t)) /\ Len(one) = 1
      BY <1>1
  <2>2. CellShape(t, "p", one, c)
      BY <2>1, <1>2, CellFacts
  <2>3. QED
      BY <2>1, <2>2 DEF CellShape
<1>4. c[1 + 1] = one[1]
    BY <1>3
<1>5. QED
    BY <1>1, <1>3, <1>4

\* The shape of a setup b.
SetupShape(t, k, b) ==
    /\ b \in Seq(Commands(t)) /\ Len(b) >= 3
    /\ b[1] = <<"boundary", IF SurfaceRun(t) THEN "s" ELSE "p">>
    /\ b[2] = <<"create_atoms", t.n>>
    /\ \A i \in 3 .. Len(b) : SetupCommand(t, k, i, b[i])
    /\ LatticeRun(t) => b[Len(b)] = <<"box_relax">>
    /\ StrainedRun(t) =>
          /\ \A j \in 1 .. 3 : Strains[k][j] # 0 =>
                \E i \in 3 .. Len(b) : b[i] = <<"change_box", j, Strains[k][j]>>
          /\ \A i, l \in 3 .. Len(b) :
                b[i][1] = "change_box" /\ b[l][1] = "change_box" /\ b[i][2] = b[l][2] => i = l

\* Every setup has that shape.
LEMMA SetupFacts ==
    ASSUME NEW t \in Task, NEW k \in 1 .. Runs(t.property)
    PROVE  SetupShape(t, k, Setup(t, k))
<1> DEFINE b == Setup(t, k)
<1>1. CASE LatticeRun(t)
  <2> DEFINE c == Cell("p", multi_element_box_block(t.n), t.meta)
             relax == <<<<"box_relax">>>>
  <2>1. ~StrainedRun(t) /\ ~SurfaceRun(t)
      BY <1>1, TaskKinds
  <2>2. b = c \o relax
      BY <1>1 DEF Setup
  <2>3. relax \in Seq(Commands(t)) /\ Len(relax) = 1 /\ relax[1] = <<"box_relax">>
      BY DEF Commands
  <2>4. /\ c \in Seq(Commands(t)) /\ Len(c) >= 3
        /\ c[1] = <<"boundary", "p">> /\ c[2] = <<"create_atoms", t.n>>
        /\ \A i \in 3 .. Len(c) : \/ c[i] = <<"set_type", i - 2, t.n>> /\ i - 2 \in 1 .. t.n - 1
                                  \/ c[i] = <<"pair_style", t.meta.style>>
      BY MultiCell
  <2> HIDE DEF c, relax, b
  <2>5. /\ b \in Seq(Commands(t)) /\ Len(b) = Len(c) + 1 /\ \A i \in 1 .. Len(c) : b[i] = c[i]
        /\ b[Len(c) + 1] = relax[1]
    <3>1. /\ c \o relax \in Seq(Commands(t)) /\ Len(c \o relax) = Len(c) + Len(relax)
          /\ \A i \in 1 .. Len(c) : (c \o relax)[i] = c[i]
          /\ \A i \in 1 .. Len(relax) : (c \o relax)[Len(c) + i] = relax[i]
      <4>1. c \in Seq(Commands(t)) /\ relax \in Seq(Commands(t))
          BY <2>3, <2>4
      <4>2. QED
          BY <4>1, Joined
    <3>2. QED
        BY <3>1, <2>2, <2>3
  <2>6. ASSUME NEW i \in 3 .. Len(b) PROVE SetupCommand(t, k, i, b[i])
    <3>1. CASE i = Len(b)
        BY <3>1, <1>1, <2>3, <2>5 DEF SetupCommand, b
    <3>2. CASE i # Len(b)
      <4>1. i \in 3 .. Len(c)
          BY <3>2, <2>4, <2>5
      <4>2. b[i] = c[i]
          BY <4>1, <2>5
      <4>3. QED
          BY <4>1, <4>2, <2>1, <2>4 DEF SetupCommand
    <3>3. QED
        BY <3>1, <3>2
  <2>7. b[1] = <<"boundary", "p">> /\ b[2] = <<"create_atoms", t.n>> /\ Len(b) >= 3
      BY <2>4, <2>5
  <2>8. b[Len(b)] = <<"box_relax">>
      BY <2>3, <2>4, <2>5
  <2>9. QED
      BY <2>1, <2>5, <2>6, <2>7, <2>8 DEF SetupShape, b
<1>2. CASE VacancyRun(t) \/ SurfaceRun(t)
  <2> DEFINE z == IF SurfaceRun(t) THEN "s" ELSE "p"
  <2>1. ~StrainedRun(t) /\ ~LatticeRun(t)
      BY <1>2, TaskKinds
  <2>2. b = Cell(z, multi_element_box_block(t.n), t.meta) /\ z \in {"p", "s"}
      BY <1>2, <2>1, TaskKinds DEF Setup
  <2> HIDE DEF b
  <2>3. /\ b \in Seq(Commands(t)) /\ Len(b) >= 3
        /\ b[1] = <<"boundary", z>> /\ b[2] = <<"create_atoms", t.n>>
        /\ \A i \in 3 .. Len(b) : \/ b[i] = <<"set_type", i - 2, t.n>> /\ i - 2 \in 1 .. t.n - 1
                                  \/ b[i] = <<"pair_style", t.meta.style>>
      BY <2>2, MultiCell
  <2>4. \A i \in 3 .. Len(b) : SetupCommand(t, k, i, b[i])
      BY <2>1, <2>3 DEF SetupCommand
  <2>5. QED
      BY <2>1, <2>3, <2>4 DEF SetupShape, b
<1>3. CASE StrainedRun(t)
  <2> DEFINE c == Cell("p", create(t.n), t.meta)
             r == Strain(Strains[k])
  <2>1. ~LatticeRun(t) /\ ~SurfaceRun(t) /\ Runs(t.property) = 7
      BY <1>3, TaskKinds
  <2>2. b = c \o r
      BY <1>3, <2>1 DEF Setup
  <2>3. /\ c \in Seq(Commands(t)) /\ Len(c) = 3 /\ c[1] = <<"boundary", "p">>
        /\ c[2] = <<"create_atoms", t.n>> /\ c[3] = <<"pair_style", t.meta.style>>
      BY OneCell
  <2>4. /\ r \in Seq(Commands(t))
        /\ \A i \in 1 .. Len(r) : \E j \in 1 .. 3 :
              r[i] = <<"change_box", j, Strains[k][j]>> /\ Strains[k][j] # 0
        /\ \A j \in 1 .. 3 : Strains[k][j] # 0 =>
              \E i \in 1 .. Len(r) : r[i] = <<"change_box", j, Strains[k][j]>>
        /\ \A i, l \in 1 .. Len(r) : r[i][2] = r[l][2] => i = l
      BY <2>1, StrainFacts
  <2> HIDE DEF c, r, b
  <2>5. /\ b \in Seq(Commands(t)) /\ Len(b) = 3 + Len(r) /\ \A i \in 1 .. 3 : b[i] = c[i]
        /\ \A i \in 1 .. Len(r) : b[3 + i] = r[i]
    <3>1. /\ c \o r \in Seq(Commands(t)) /\ Len(c \o r) = Len(c) + Len(r)
          /\ \A i \in 1 .. Len(c) : (c \o r)[i] = c[i]
          /\ \A i \in 1 .. Len(r) : (c \o r)[Len(c) + i] = r[i]
      <4>1. c \in Seq(Commands(t)) /\ r \in Seq(Commands(t))
          BY <2>3, <2>4
      <4>2. QED
          BY <4>1, Joined
    <3>2. QED
        BY <3>1, <2>2, <2>3
  <2>6. /\ b[1] = <<"boundary", "p">> /\ b[2] = <<"create_atoms", t.n>>
        /\ b[3] = <<"pair_style", t.meta.style>> /\ Len(b) >= 3
      BY <2>3, <2>4, <2>5
  <2>7. ASSUME NEW i \in 4 .. Len(b) PROVE i - 3 \in 1 .. Len(r) /\ b[i] = r[i - 3]
    <3>1. Len(r) \in Nat
        BY <2>4
    <3>2. i - 3 \in 1 .. Len(r) /\ i = 3 + (i - 3)
        BY <3>1, <2>5
    <3>3. QED
        BY <3>2, <2>5
  <2>8. ASSUME NEW i \in 3 .. Len(b) PROVE SetupCommand(t, k, i, b[i])
    <3>1. CASE i = 3
        BY <3>1, <2>6 DEF SetupCommand
    <3>2. CASE i # 3
      <4>1. i - 3 \in 1 .. Len(r) /\ b[i] = r[i - 3]
          BY <3>2, <2>7
      <4>2. QED
          BY <4>1, <1>3, <2>4 DEF SetupCommand
    <3>3. QED
        BY <3>1, <3>2
  <2>9. ASSUME NEW j \in 1 .. 3, Strains[k][j] # 0
        PROVE  \E i \in 3 .. Len(b) : b[i] = <<"change_box", j, Strains[k][j]>>
    <3>1. \A h \in 1 .. 3 : Strains[k][h] # 0 =>
              \E i \in 1 .. Len(r) : r[i] = <<"change_box", h, Strains[k][h]>>
        BY <2>4
    <3>2. PICK i \in 1 .. Len(r) : r[i] = <<"change_box", j, Strains[k][j]>>
        BY Zenon, <3>1, <2>9
    <3>3. Len(r) \in Nat
        BY <2>4
    <3>4. 3 + i \in 3 .. Len(b) /\ b[3 + i] = r[i]
        BY <3>3, <2>5
    <3>5. QED
        BY <3>2, <3>4
  <2>10. ASSUME NEW i \in 3 .. Len(b), NEW l \in 3 .. Len(b),
                b[i][1] = "change_box", b[l][1] = "change_box", b[i][2] = b[l][2]
         PROVE  i = l
    <3>1. b[3][1] # "change_box"
        BY <2>6
    <3>2. i \in 4 .. Len(b) /\ l \in 4 .. Len(b)
        BY <3>1, <2>10
    <3>3. i - 3 \in 1 .. Len(r) /\ b[i] = r[i - 3] /\ l - 3 \in 1 .. Len(r) /\ b[l] = r[l - 3]
        BY <3>2, <2>7
    <3>4. i - 3 = l - 3
        BY <3>3, <2>4, <2>10
    <3>5. QED
        BY <3>4
  <2>11. \A j \in 1 .. 3 : Strains[k][j] # 0 =>
            \E i \in 3 .. Len(b) : b[i] = <<"change_box", j, Strains[k][j]>>
      BY <2>9
  <2>12. \A i, l \in 3 .. Len(b) :
            b[i][1] = "change_box" /\ b[l][1] = "change_box" /\ b[i][2] = b[l][2] => i = l
      BY <2>10
  <2>13. QED
      BY <2>1, <2>5, <2>6, <2>8, <2>11, <2>12 DEF SetupShape, b
<1>4. QED
    BY <1>1, <1>2, <1>3, TaskKinds

\* A script is its setup and the rest.
ScriptShape(t, k, s) ==
    LET base == Len(Setup(t, k))
    IN  /\ base \in Nat /\ base >= 3 /\ Len(s) = base + Len(Rest(t))
        /\ s[1] = <<"boundary", IF SurfaceRun(t) THEN "s" ELSE "p">>
        /\ s[2] = <<"create_atoms", t.n>>
        /\ \A i \in 3 .. base : SetupCommand(t, k, i, s[i])
        /\ LatticeRun(t) => s[base] = <<"box_relax">>
        /\ StrainedRun(t) =>
              /\ \A j \in 1 .. 3 : Strains[k][j] # 0 =>
                    \E i \in 3 .. base : s[i] = <<"change_box", j, Strains[k][j]>>
              /\ \A i, l \in 3 .. base :
                    s[i][1] = "change_box" /\ s[l][1] = "change_box" /\ s[i][2] = s[l][2] => i = l
        /\ \A i \in 1 .. Len(Rest(t)) : s[base + i] = Rest(t)[i]

\* Every script has that shape.
LEMMA ScriptFacts ==
    ASSUME NEW t \in Task, NEW k \in 1 .. Runs(t.property)
    PROVE  ScriptShape(t, k, Script(t, k))
<1> DEFINE b == Setup(t, k)
           r == Rest(t)
           s == Script(t, k)
<1>1. SetupShape(t, k, b)
    BY SetupFacts
<1>2. b \in Seq(Commands(t)) /\ r \in Seq(Commands(t))
    BY <1>1, RestFacts DEF SetupShape
<1>3. s = b \o r
    BY ScriptParts
<1> HIDE DEF s, b, r
<1>4. /\ Len(s) = Len(b) + Len(r) /\ Len(b) \in Nat
      /\ \A i \in 1 .. Len(b) : s[i] = b[i]
      /\ \A i \in 1 .. Len(r) : s[Len(b) + i] = r[i]
    BY <1>2, <1>3, Joined
<1>5. Len(b) >= 3
    BY <1>1 DEF SetupShape
<1>6. s[1] = b[1] /\ s[2] = b[2] /\ s[Len(b)] = b[Len(b)] /\ \A i \in 3 .. Len(b) : s[i] = b[i]
    BY <1>4, <1>5
<1>7. \A i \in 3 .. Len(b) : SetupCommand(t, k, i, s[i])
    BY <1>1, <1>6 DEF SetupShape
<1>8. ASSUME StrainedRun(t)
      PROVE  /\ \A j \in 1 .. 3 : Strains[k][j] # 0 =>
                    \E i \in 3 .. Len(b) : s[i] = <<"change_box", j, Strains[k][j]>>
             /\ \A i, l \in 3 .. Len(b) :
                    s[i][1] = "change_box" /\ s[l][1] = "change_box" /\ s[i][2] = s[l][2] => i = l
    BY <1>1, <1>6, <1>8 DEF SetupShape
<1>9. /\ s[1] = <<"boundary", IF SurfaceRun(t) THEN "s" ELSE "p">>
      /\ s[2] = <<"create_atoms", t.n>>
      /\ LatticeRun(t) => s[Len(b)] = <<"box_relax">>
    BY <1>1, <1>6 DEF SetupShape
<1>10. QED
    BY <1>4, <1>5, <1>7, <1>8, <1>9 DEF ScriptShape, s, b, r

-----------------------------------------------------------------------------
(* Commands and the box.                                                   *)

\* What each kind of command makes of a box.
LEMMA AfterBoundary ==
    ASSUME NEW c, NEW b, NEW cmd, cmd[1] = "boundary"
    PROVE  After(c, b, cmd) = [b EXCEPT !.z = cmd[2]]
<1>1. cmd # <<"delete", "atom">> /\ cmd # <<"delete", "top">>
    OBVIOUS
<1>2. QED
    BY <1>1 DEF After

\* Creating the atoms: as many as the lattice has, all of the first type.
LEMMA AfterCreate ==
    ASSUME NEW c, NEW b, NEW cmd, cmd[1] = "create_atoms",
           NEW types, types = [i \in 1 .. cmd[2] |-> IF i = 1 THEN Sites ELSE 0]
    PROVE  After(c, b, cmd) = [b EXCEPT !.types = types]
<1>1. cmd # <<"delete", "atom">> /\ cmd # <<"delete", "top">>
    OBVIOUS
<1>2. QED
    BY <1>1 DEF After

\* Sharing the atoms out: each type gets its part of those left.
LEMMA AfterSetType ==
    ASSUME NEW c, NEW b, NEW cmd, cmd[1] = "set_type"
    PROVE  After(c, b, cmd) = [b EXCEPT !.types = Shared(b.types, cmd[2], cmd[3])]
<1>1. cmd # <<"delete", "atom">> /\ cmd # <<"delete", "top">>
    OBVIOUS
<1>2. QED
    BY <1>1 DEF After

\* Relaxing the box finds the lattice constant of the crystal.
LEMMA AfterRelax ==
    ASSUME NEW c, NEW b, NEW cmd, cmd[1] = "box_relax"
    PROVE  After(c, b, cmd) = [b EXCEPT !.a = c.a]
<1>1. cmd # <<"delete", "atom">> /\ cmd # <<"delete", "top">>
    OBVIOUS
<1>2. QED
    BY <1>1 DEF After

\* A change_box changes only the strain.
LEMMA AfterChange ==
    ASSUME NEW c, NEW b, NEW cmd, cmd[1] = "change_box"
    PROVE  After(c, b, cmd) = [b EXCEPT !.strain[cmd[2]] = @ + cmd[3]]
<1>1. cmd # <<"delete", "atom">> /\ cmd # <<"delete", "top">>
    OBVIOUS
<1>2. QED
    BY <1>1 DEF After

\* The two commands that remove atoms, and the boxes they leave.
Deletes(cmd, what) == cmd = <<"delete", what>>
WithVacancies(b, types, vacancies) == [b EXCEPT !.types = types, !.vacancies = vacancies]
WithCut(b, types) == [b EXCEPT !.types = types, !.cut = TRUE]

\* Removing an atom makes a vacancy.
LEMMA AfterDeleteAtom ==
    ASSUME NEW c, NEW b \in Box, NEW cmd, Deletes(cmd, "atom"),
           NEW types, types = [b.types EXCEPT ![1] = b.types[1] - 1],
           NEW vacancies, vacancies = b.vacancies + 1
    PROVE  After(c, b, cmd) = WithVacancies(b, types, vacancies)
<1>1. cmd = <<"delete", "atom">> /\ cmd[1] = "delete" /\ cmd[2] = "atom"
    BY DEF Deletes
<1>2. After(c, b, cmd) = [b EXCEPT !.types[1] = @ - 1, !.vacancies = @ + 1]
    BY <1>1 DEF After
<1>3. QED
    BY <1>2 DEF Box, WithVacancies

\* Removing the top layers cuts the crystal.
LEMMA AfterDeleteTop ==
    ASSUME NEW c, NEW b \in Box, NEW cmd, Deletes(cmd, "top"),
           NEW types, types = [i \in DOMAIN b.types |-> b.types[i] \div 2]
    PROVE  After(c, b, cmd) = WithCut(b, types)
<1>1. cmd = <<"delete", "top">> /\ cmd[1] = "delete" /\ cmd[2] = "top"
    BY DEF Deletes
<1>2. After(c, b, cmd) = [b EXCEPT !.types = [i \in DOMAIN @ |-> @[i] \div 2], !.cut = TRUE]
    BY <1>1 DEF After
<1>3. QED
    BY <1>2 DEF Box, WithCut

\* Every other command leaves the box as it is.
LEMMA AfterOther ==
    ASSUME NEW c, NEW b, NEW cmd, cmd[1] \in {"pair_style", "variable", "print"}
    PROVE  After(c, b, cmd) = b
<1>1. cmd # <<"delete", "atom">> /\ cmd # <<"delete", "top">>
    OBVIOUS
<1>2. QED
    BY <1>1 DEF After

\* A share of a type's atoms is taken over by the next type, which had none.
LEMMA SharedFacts ==
    ASSUME NEW n \in Nat, NEW i \in 1 .. n - 1, NEW types \in Seq(Int), Len(types) = n,
           \A j \in 1 .. n : types[j] \in 0 .. Sites, types[i + 1] = 0, types[1] >= 1
    PROVE  LET new == Shared(types, i, n)
           IN  /\ new \in Seq(Int) /\ Len(new) = n /\ Total(new) = Total(types)
               /\ \A j \in 1 .. n : new[j] \in 0 .. Sites /\ (j \notin {i, i + 1} => new[j] = types[j])
               /\ new[1] >= 1
<1> DEFINE moved == types[i] \div n
           mid == [types EXCEPT ![i] = types[i] - moved]
           new == [mid EXCEPT ![i + 1] = moved]
<1>1. types[i] \in Nat /\ types[i] <= Sites /\ n >= 2 /\ i \in 1 .. n /\ i + 1 \in 1 .. n
    BY SitesAssumption
<1>2. moved \in Int /\ moved >= 0 /\ n * moved <= types[i]
    BY <1>1
<1> HIDE DEF moved
<1>3. moved + moved <= types[i]
    BY <1>1, <1>2
<1>4. /\ mid \in Seq(Int) /\ Len(mid) = n /\ mid[i] = types[i] - moved
      /\ \A j \in 1 .. n : j # i => mid[j] = types[j]
    BY <1>1, <1>2
<1>5. Total(mid) = Total(types) - types[i] + (types[i] - moved)
  <2>1. types[i] - moved \in Int /\ i \in 1 .. Len(types)
      BY <1>1, <1>2
  <2>2. QED
      BY <2>1, TotalChange
<1>6. mid[i + 1] = 0
    BY <1>1, <1>4
<1>7. Shared(types, i, n) = new
  <2>1. Shared(types, i, n) = [types EXCEPT ![i] = types[i] - moved, ![i + 1] = types[i + 1] + moved]
      BY <1>1 DEF Shared, moved
  <2>2. types[i + 1] + moved = moved
      BY <1>2
  <2>3. QED
      BY <2>1, <2>2
<1> HIDE DEF mid
<1>8. Total(new) = Total(mid) - mid[i + 1] + moved
    BY <1>1, <1>2, <1>4, TotalChange
<1>9. Total(new) = Total(types)
    BY <1>1, <1>2, <1>4, <1>5, <1>6, <1>8, TotalInt
<1>10. /\ new \in Seq(Int) /\ Len(new) = n /\ new[i + 1] = moved
       /\ \A j \in 1 .. n : j # i + 1 => new[j] = mid[j]
    BY <1>1, <1>2, <1>4
<1> HIDE DEF new
<1>11. new[i] = types[i] - moved /\ new[i + 1] = moved
    BY <1>1, <1>4, <1>10
<1>12. ASSUME NEW j \in 1 .. n, j \notin {i, i + 1} PROVE new[j] = types[j]
    BY <1>1, <1>4, <1>10, <1>12
<1>13. Sites \in Nat
    BY SitesAssumption
<1>14. new[i] \in 0 .. Sites /\ new[i + 1] \in 0 .. Sites
    BY <1>1, <1>2, <1>3, <1>11, <1>13
<1>15. ASSUME NEW j \in 1 .. n PROVE new[j] \in 0 .. Sites
    BY <1>12, <1>14
<1>16. new[1] >= 1
  <2>1. CASE i = 1
      BY <2>1, <1>1, <1>2, <1>3, <1>11
  <2>2. CASE i # 1
      BY <2>2, <1>1, <1>12
  <2>3. QED
      BY <2>1, <2>2
<1>17. QED
    BY <1>7, <1>9, <1>10, <1>12, <1>15, <1>16

\* The box of process k when p commands of its script s are read: strained by
\* the commands read, its atoms shared out so far, none removed before the end.
StrainShape(k, s, p, b) ==
    \A j \in 1 .. 3 : b.strain[j] = IF \E i \in 1 .. p : s[i] = <<"change_box", j, Strains[k][j]>>
                                    THEN Strains[k][j] ELSE 0
TypesShape(t, p, b) ==
    /\ p < 2 => b.types = <<>>
    /\ p >= 2 => /\ Len(b.types) = t.n
                 /\ \A j \in 1 .. t.n : b.types[j] \in 0 .. Sites
                 /\ \A j \in 2 .. t.n : StrainedRun(t) \/ j >= p => b.types[j] = 0
                 /\ ~b.cut => Total(b.types) = Sites - b.vacancies
                 /\ b.vacancies = 0 /\ ~b.cut => b.types[1] >= 1
PlaceShape(t, k, p, b) ==
    LET past == p - Len(Setup(t, k))
    IN  /\ ~SurfaceRun(t) => b.z = "p"
        /\ StrainedRun(t) => b.a = t.crystal.guess
        /\ LatticeRun(t) /\ past >= 0 => b.a = t.crystal.a
        /\ b.vacancies = IF VacancyRun(t) /\ past >= 5 THEN 1 ELSE 0
        /\ b.cut <=> SurfaceRun(t) /\ past >= 7
BoxShape(t, k, s, p, b) == b \in Box /\ StrainShape(k, s, p, b) /\ TypesShape(t, p, b) /\ PlaceShape(t, k, p, b)

\* Until the setup is read, and after one more command of it.
LEMMA PlaceEarly ==
    ASSUME NEW t, NEW k, NEW p \in Nat, Len(Setup(t, k)) \in Nat, p <= Len(Setup(t, k)),
           NEW b \in Box, PlaceShape(t, k, p, b)
    PROVE  /\ b.vacancies = 0 /\ ~b.cut /\ (~SurfaceRun(t) => b.z = "p")
           /\ StrainedRun(t) => b.a = t.crystal.guess
<1>1. ~(p - Len(Setup(t, k)) >= 5) /\ ~(p - Len(Setup(t, k)) >= 7)
    OBVIOUS
<1>2. QED
    BY Zenon, <1>1 DEF PlaceShape

\* The place in the script decides nothing before the setup is read but these.
LEMMA PlaceSetup ==
    ASSUME NEW t, NEW k, NEW p \in Nat, Len(Setup(t, k)) \in Nat, p <= Len(Setup(t, k)),
           NEW b \in Box, b.vacancies = 0, ~b.cut, ~SurfaceRun(t) => b.z = "p",
           StrainedRun(t) => b.a = t.crystal.guess,
           LatticeRun(t) /\ p = Len(Setup(t, k)) => b.a = t.crystal.a
    PROVE  PlaceShape(t, k, p, b)
<1>1. /\ ~(p - Len(Setup(t, k)) >= 5) /\ ~(p - Len(Setup(t, k)) >= 7)
      /\ p - Len(Setup(t, k)) >= 0 => p = Len(Setup(t, k))
    OBVIOUS
<1>2. QED
    BY Zenon, <1>1 DEF PlaceShape

\* Strains are -1, 0 or 1.
LEMMA StrainRange ==
    ASSUME NEW k \in 1 .. 7, NEW j \in 1 .. 3 PROVE Strains[k][j] \in {-1, 0, 1}
<1>1. k = 1 \/ k = 2 \/ k = 3 \/ k = 4 \/ k = 5 \/ k = 6 \/ k = 7
    OBVIOUS
<1>2. QED
    BY <1>1, StrainList

\* A command that is no change_box keeps the strain.
LEMMA StrainKept ==
    ASSUME NEW k, NEW s, NEW p \in Nat, NEW b, NEW b2,
           StrainShape(k, s, p, b), b2.strain = b.strain, s[p + 1][1] # "change_box"
    PROVE  StrainShape(k, s, p + 1, b2)
<1> SUFFICES ASSUME NEW j \in 1 .. 3
             PROVE  b2.strain[j] = IF \E i \in 1 .. p + 1 : s[i] = <<"change_box", j, Strains[k][j]>>
                                   THEN Strains[k][j] ELSE 0
    BY DEF StrainShape
<1>1. s[p + 1] # <<"change_box", j, Strains[k][j]>>
    OBVIOUS
<1>2. (\E i \in 1 .. p + 1 : s[i] = <<"change_box", j, Strains[k][j]>>)
        <=> (\E i \in 1 .. p : s[i] = <<"change_box", j, Strains[k][j]>>)
  <2>1. \A i \in 1 .. p + 1 : i \in 1 .. p \/ i = p + 1
      OBVIOUS
  <2>2. 1 .. p \subseteq 1 .. p + 1
      OBVIOUS
  <2>3. QED
      BY Zenon, <1>1, <2>1, <2>2
<1>3. b.strain[j] = IF \E i \in 1 .. p : s[i] = <<"change_box", j, Strains[k][j]>>
                    THEN Strains[k][j] ELSE 0
    BY Zenon DEF StrainShape
<1>4. QED
    BY Zenon, <1>2, <1>3

\* A change_box strains the box along one axis, the first time along it.
LEMMA StrainChange ==
    ASSUME NEW t \in Task, StrainedRun(t), NEW k \in 1 .. 7, NEW s, ScriptShape(t, k, s),
           NEW p \in Nat, p >= 2, p + 1 <= Len(Setup(t, k)), NEW j \in 1 .. 3,
           s[p + 1] = <<"change_box", j, Strains[k][j]>>,
           NEW b \in Box, StrainShape(k, s, p, b)
    PROVE  StrainShape(k, s, p + 1, [b EXCEPT !.strain[j] = @ + Strains[k][j]])
<1> DEFINE b2 == [b EXCEPT !.strain[j] = @ + Strains[k][j]]
           base == Len(Setup(t, k))
           AxisRead(h, q) == \E i \in 1 .. q : s[i] = <<"change_box", h, Strains[k][h]>>
<1>1. base \in Nat /\ s[1][1] = "boundary" /\ s[2][1] = "create_atoms"
    BY DEF ScriptShape
<1>2. \A i, l \in 3 .. base : s[i][1] = "change_box" /\ s[l][1] = "change_box" /\ s[i][2] = s[l][2] => i = l
    BY DEF ScriptShape
<1>3. s[p + 1][1] = "change_box" /\ s[p + 1][2] = j
    OBVIOUS
<1>4. ASSUME NEW i \in 1 .. p, s[i] = <<"change_box", j, Strains[k][j]>> PROVE FALSE
  <2>1. s[i][1] = "change_box" /\ s[i][2] = j
      BY <1>4
  <2>2. i # 1 /\ i # 2
      BY <1>1, <2>1
  <2>3. i \in 3 .. base /\ p + 1 \in 3 .. base
      BY <1>1, <2>2
  <2>4. i = p + 1
      BY <1>2, <1>3, <2>1, <2>3
  <2>5. QED
      BY <2>4
<1>5. b.strain[j] = 0
    BY <1>4 DEF StrainShape
<1>6. /\ b2.strain[j] = b.strain[j] + Strains[k][j]
      /\ \A h \in 1 .. 3 : h # j => b2.strain[h] = b.strain[h]
    BY DEF Box
<1>7. Strains[k][j] \in Int
    BY StrainRange
<1> HIDE DEF b2
<1>8. \A h \in 1 .. 3 : b.strain[h] = IF AxisRead(h, p) THEN Strains[k][h] ELSE 0
    BY Zenon DEF StrainShape
<1>9. AxisRead(j, p + 1)
  <2>1. p + 1 \in 1 .. p + 1
      OBVIOUS
  <2>2. QED
      BY Zenon, <2>1
<1>10. ASSUME NEW h \in 1 .. 3, h # j PROVE AxisRead(h, p + 1) <=> AxisRead(h, p)
  <2>1. \A i \in 1 .. p + 1 : i \in 1 .. p \/ i = p + 1
      OBVIOUS
  <2>2. 1 .. p \subseteq 1 .. p + 1
      OBVIOUS
  <2>3. s[p + 1] # <<"change_box", h, Strains[k][h]>>
      BY <1>3, <1>10
  <2>4. QED
      BY Zenon, <2>1, <2>2, <2>3
<1> HIDE DEF AxisRead
<1>11. ASSUME NEW h \in 1 .. 3 PROVE b2.strain[h] = IF AxisRead(h, p + 1) THEN Strains[k][h] ELSE 0
  <2>1. CASE h = j
      BY <1>5, <1>6, <1>7, <1>9, <2>1
  <2>2. CASE h # j
      BY <1>6, <1>8, <1>10, <2>2
  <2>3. QED
      BY <2>1, <2>2
<1>12. QED
    BY Zenon, <1>11 DEF StrainShape, AxisRead, b2

\* The first two commands make the box.
LEMMA StepBoundary ==
    ASSUME NEW t \in Task, NEW k \in 1 .. Runs(t.property), NEW s, ScriptShape(t, k, s),
           NEW b, BoxShape(t, k, s, 0, b)
    PROVE  BoxShape(t, k, s, 1, After(t.crystal, b, s[1]))
<1> DEFINE b2 == After(t.crystal, b, s[1])
           z == IF SurfaceRun(t) THEN "s" ELSE "p"
<1>1. s[1] = <<"boundary", z>> /\ Len(Setup(t, k)) \in Nat /\ Len(Setup(t, k)) >= 3
    BY DEF ScriptShape
<1>2. s[1][1] = "boundary" /\ s[1][2] = z /\ z \in {"p", "s"}
    BY <1>1
<1>3. b2 = [b EXCEPT !.z = z]
    BY <1>2, AfterBoundary
<1>4. b \in Box
    BY DEF BoxShape
<1> HIDE DEF b2, z
<1>5. /\ b2 \in Box /\ b2.z = z /\ b2.strain = b.strain /\ b2.types = b.types /\ b2.a = b.a
      /\ b2.vacancies = b.vacancies /\ b2.cut = b.cut
    BY <1>2, <1>3, <1>4 DEF Box
<1>6. StrainShape(k, s, 1, b2)
  <2>1. s[0 + 1][1] # "change_box"
      BY <1>2
  <2>2. StrainShape(k, s, 0 + 1, b2)
      BY <1>5, <2>1, StrainKept DEF BoxShape
  <2>3. QED
      BY <2>2
<1>7. TypesShape(t, 1, b2)
    BY <1>5 DEF BoxShape, TypesShape
<1>8. PlaceShape(t, k, 1, b2)
  <2>1. Len(Setup(t, k)) \in Nat /\ Len(Setup(t, k)) >= 3
      BY <1>1
  <2>2. b.vacancies = 0 /\ ~b.cut /\ (StrainedRun(t) => b.a = t.crystal.guess)
      BY <1>4, <2>1, PlaceEarly DEF BoxShape
  <2>3. ~SurfaceRun(t) => b2.z = "p"
      BY <1>5 DEF z
  <2>4. QED
      BY <1>5, <2>1, <2>2, <2>3, PlaceSetup
<1>9. QED
    BY <1>5, <1>6, <1>7, <1>8 DEF BoxShape, b2

\* All atoms are created as the first type.
LEMMA StepCreate ==
    ASSUME NEW t \in Task, NEW k \in 1 .. Runs(t.property), NEW s, ScriptShape(t, k, s),
           NEW b, BoxShape(t, k, s, 1, b)
    PROVE  BoxShape(t, k, s, 2, After(t.crystal, b, s[2]))
<1> DEFINE b2 == After(t.crystal, b, s[2])
           n == t.n
           types == [i \in 1 .. n |-> IF i = 1 THEN Sites ELSE 0]
<1>1. s[2] = <<"create_atoms", n>> /\ Len(Setup(t, k)) \in Nat /\ Len(Setup(t, k)) >= 3
    BY DEF ScriptShape
<1>2. s[2][1] = "create_atoms" /\ s[2][2] = n
    BY <1>1
<1>3. b2 = [b EXCEPT !.types = types]
  <2>1. types = [i \in 1 .. s[2][2] |-> IF i = 1 THEN Sites ELSE 0]
      BY <1>2
  <2> HIDE DEF types
  <2>2. QED
      BY <1>2, <2>1, AfterCreate
<1>4. b \in Box
    BY DEF BoxShape
<1>5. n \in Nat /\ n >= 1 /\ Sites \in Nat /\ Sites > 1
    BY TaskTypes, SitesAssumption
<1> HIDE DEF n
<1>6. /\ types \in Seq(Int) /\ Len(types) = n /\ types[1] = Sites
      /\ \A j \in 1 .. n : types[j] \in 0 .. Sites
      /\ \A j \in 2 .. n : types[j] = 0
    BY <1>5
<1> HIDE DEF b2, types
<1>7. Total(types) = Sites
    BY <1>5, <1>6, TotalFirst
<1>8. /\ b2 \in Box /\ b2.z = b.z /\ b2.strain = b.strain /\ b2.types = types /\ b2.a = b.a
      /\ b2.vacancies = b.vacancies /\ b2.cut = b.cut
    BY <1>3, <1>4, <1>6 DEF Box
<1>9. StrainShape(k, s, 2, b2)
  <2>1. s[1 + 1][1] # "change_box"
      BY <1>2
  <2>2. StrainShape(k, s, 1 + 1, b2)
      BY <1>8, <2>1, StrainKept DEF BoxShape
  <2>3. QED
      BY <2>2
<1>10. /\ b.vacancies = 0 /\ ~b.cut /\ (~SurfaceRun(t) => b.z = "p")
       /\ StrainedRun(t) => b.a = t.crystal.guess
       /\ Len(Setup(t, k)) \in Nat /\ Len(Setup(t, k)) >= 3
  <2>1. Len(Setup(t, k)) \in Nat /\ Len(Setup(t, k)) >= 3
      BY <1>1
  <2>2. QED
      BY <1>4, <2>1, PlaceEarly DEF BoxShape
<1>11. TypesShape(t, 2, b2)
    BY <1>5, <1>6, <1>7, <1>8, <1>10 DEF TypesShape, n
<1>12. PlaceShape(t, k, 2, b2)
  <2>1. /\ b2.vacancies = 0 /\ ~b2.cut /\ (~SurfaceRun(t) => b2.z = "p")
        /\ StrainedRun(t) => b2.a = t.crystal.guess
      BY <1>8, <1>10
  <2> DEFINE base == Len(Setup(t, k))
  <2>5. base \in Nat /\ base >= 3
      BY Zenon, <1>10
  <2> HIDE DEF base
  <2>6. 2 \in Nat /\ 2 <= base /\ 2 # base
      BY <2>5
  <2>2. 2 \in Nat /\ 2 <= Len(Setup(t, k)) /\ 2 # Len(Setup(t, k))
      BY Zenon, <2>6 DEF base
  <2>3. b2 \in Box /\ Len(Setup(t, k)) \in Nat
      BY <1>8, <1>10
  <2>4. QED
      BY Zenon, <2>1, <2>2, <2>3, PlaceSetup
<1>13. QED
    BY <1>8, <1>9, <1>11, <1>12 DEF BoxShape, b2

\* The others share out the atoms, relax the box or strain it.
LEMMA StepSetup ==
    ASSUME NEW t \in Task, NEW k \in 1 .. Runs(t.property), NEW s, ScriptShape(t, k, s),
           NEW p \in Nat, p >= 2, p + 1 <= Len(Setup(t, k)), NEW b, BoxShape(t, k, s, p, b)
    PROVE  BoxShape(t, k, s, p + 1, After(t.crystal, b, s[p + 1]))
<1> DEFINE cmd == s[p + 1]
           b2 == After(t.crystal, b, cmd)
           base == Len(Setup(t, k))
           n == t.n
<1>1. base \in Nat /\ base >= 3 /\ (LatticeRun(t) => s[base] = <<"box_relax">>)
    BY DEF ScriptShape
<1>2. SetupCommand(t, k, p + 1, cmd)
  <2>1. p + 1 \in 3 .. base
      BY <1>1
  <2>2. QED
      BY <2>1 DEF ScriptShape
<1>3. b \in Box /\ StrainShape(k, s, p, b) /\ TypesShape(t, p, b) /\ PlaceShape(t, k, p, b)
    BY DEF BoxShape
<1>4. n \in Nat /\ n >= 1 /\ Sites \in Nat /\ Sites > 1 /\ t.crystal.a \in Int
    BY TaskTypes, SitesAssumption DEF Crystal
<1>5. /\ b.vacancies = 0 /\ ~b.cut /\ (~SurfaceRun(t) => b.z = "p")
      /\ StrainedRun(t) => b.a = t.crystal.guess
      /\ p + 1 \in Nat /\ base \in Nat
  <2>1. base \in Nat /\ p <= base
      BY <1>1
  <2>2. QED
      BY <1>3, <2>1, PlaceEarly
<1>6. /\ Len(b.types) = n /\ \A j \in 1 .. n : b.types[j] \in 0 .. Sites
      /\ \A j \in 2 .. n : StrainedRun(t) \/ j >= p => b.types[j] = 0
      /\ Total(b.types) = Sites /\ b.types[1] >= 1 /\ b.types \in Seq(Int)
  <2>1. b.types \in Seq(Int)
      BY <1>3 DEF Box
  <2>2. QED
      BY <1>3, <1>4, <1>5, <2>1 DEF TypesShape
<1>7. LatticeRun(t) /\ p + 1 = base => cmd = <<"box_relax">>
    BY <1>1
<1> HIDE DEF n, b2, base, cmd
<1>8. ASSUME b2 = b, cmd[1] # "change_box", cmd # <<"box_relax">> PROVE BoxShape(t, k, s, p + 1, b2)
  <2>1. StrainShape(k, s, p + 1, b2)
      BY <1>3, <1>8, StrainKept DEF cmd
  <2>2. TypesShape(t, p + 1, b2)
      BY <1>4, <1>5, <1>6, <1>8 DEF TypesShape, n
  <2>3. PlaceShape(t, k, p + 1, b2)
      BY <1>3, <1>5, <1>7, <1>8, PlaceSetup DEF base
  <2>4. QED
      BY <1>3, <1>8, <2>1, <2>2, <2>3 DEF BoxShape
<1>9. ASSUME cmd = <<"set_type", (p + 1) - 2, n>>, (p + 1) - 2 \in 1 .. n - 1,
           ~StrainedRun(t)
      PROVE  BoxShape(t, k, s, p + 1, b2)
  <2> DEFINE i == p - 1
             new == Shared(b.types, i, n)
  <2>1. cmd[1] = "set_type" /\ cmd[2] = i /\ cmd[3] = n /\ i \in 1 .. n - 1
      BY <1>9
  <2>2. b2 = [b EXCEPT !.types = new]
      BY <2>1, AfterSetType DEF b2
  <2>3. b.types[i + 1] = 0
    <3>1. i + 1 \in 2 .. n /\ i + 1 >= p
        BY <1>4, <2>1
    <3>2. QED
        BY <1>6, <3>1
  <2>4. /\ new \in Seq(Int) /\ Len(new) = n /\ Total(new) = Sites
        /\ \A j \in 1 .. n : new[j] \in 0 .. Sites /\ (j \notin {i, i + 1} => new[j] = b.types[j])
        /\ new[1] >= 1
      BY <1>4, <1>6, <2>1, <2>3, SharedFacts
  <2> HIDE DEF new
  <2>5. /\ b2 \in Box /\ b2.z = b.z /\ b2.strain = b.strain /\ b2.types = new /\ b2.a = b.a
        /\ b2.vacancies = b.vacancies /\ b2.cut = b.cut
      BY <1>3, <2>2, <2>4 DEF Box
  <2>6. StrainShape(k, s, p + 1, b2)
      BY <1>3, <2>1, <2>5, StrainKept DEF cmd
  <2>7. ASSUME NEW j \in 2 .. n, j >= p + 1 PROVE new[j] = 0
    <3>1. j \notin {i, i + 1} /\ b.types[j] = 0 /\ j \in 1 .. n
        BY <1>4, <1>6, <2>7
    <3>2. QED
        BY <3>1, <2>4
  <2>8. TypesShape(t, p + 1, b2)
      BY <1>4, <1>5, <1>9, <2>4, <2>5, <2>7 DEF TypesShape, n
  <2>9. cmd # <<"box_relax">>
      BY <2>1
  <2>10. PlaceShape(t, k, p + 1, b2)
      BY <1>5, <1>7, <2>5, <2>9, PlaceSetup DEF base
  <2>11. b2 \in Box
      BY <2>5
  <2>12. QED
      BY Zenon, <2>6, <2>8, <2>10, <2>11 DEF BoxShape
<1>10. ASSUME cmd = <<"pair_style", t.meta.style>>
       PROVE  BoxShape(t, k, s, p + 1, b2)
  <2>1. cmd[1] = "pair_style" /\ cmd # <<"box_relax">>
      BY <1>10
  <2>2. b2 = b
      BY <2>1, AfterOther DEF b2
  <2>3. cmd[1] # "change_box"
      BY <2>1
  <2>4. QED
      BY Zenon, <1>8, <2>1, <2>2, <2>3
<1>11. ASSUME cmd = <<"box_relax">>, LatticeRun(t), p + 1 = base
       PROVE  BoxShape(t, k, s, p + 1, b2)
  <2>1. cmd[1] = "box_relax"
      BY <1>11
  <2>2. b2 = [b EXCEPT !.a = t.crystal.a]
      BY <2>1, AfterRelax DEF b2
  <2>3. /\ b2 \in Box /\ b2.z = b.z /\ b2.strain = b.strain /\ b2.types = b.types /\ b2.a = t.crystal.a
        /\ b2.vacancies = b.vacancies /\ b2.cut = b.cut
      BY <1>3, <1>4, <2>2 DEF Box
  <2>4. StrainShape(k, s, p + 1, b2)
      BY <1>3, <2>1, <2>3, StrainKept DEF cmd
  <2>5. TypesShape(t, p + 1, b2)
      BY <1>4, <1>5, <1>6, <2>3 DEF TypesShape, n
  <2>6. PlaceShape(t, k, p + 1, b2)
      BY <1>5, <1>11, <2>3, TaskKinds, PlaceSetup DEF base
  <2>7. b2 \in Box
      BY <2>3
  <2>8. QED
      BY Zenon, <2>4, <2>5, <2>6, <2>7 DEF BoxShape
<1>12. ASSUME StrainedRun(t), NEW j \in 1 .. 3, cmd = <<"change_box", j, Strains[k][j]>>
       PROVE  BoxShape(t, k, s, p + 1, b2)
  <2>1. cmd[1] = "change_box" /\ cmd[2] = j /\ cmd[3] = Strains[k][j]
      BY <1>12
  <2>2. k \in 1 .. 7
      BY <1>12, TaskKinds
  <2>3. b2 = [b EXCEPT !.strain[j] = @ + Strains[k][j]]
      BY <2>1, AfterChange DEF b2
  <2>4. Strains[k][j] \in Int
      BY <2>2, StrainRange
  <2>5. StrainShape(k, s, p + 1, b2)
      BY <1>3, <1>12, <2>2, <2>3, StrainChange DEF cmd, base
  <2>6. /\ b2 \in Box /\ b2.z = b.z /\ b2.types = b.types /\ b2.a = b.a
        /\ b2.vacancies = b.vacancies /\ b2.cut = b.cut
    <3> DEFINE strain == [b.strain EXCEPT ![j] = @ + Strains[k][j]]
    <3>1. b \in Box /\ b.strain \in [1 .. 3 -> Int]
        BY <1>3 DEF Box
    <3>2. b.strain[j] + Strains[k][j] \in Int
        BY <2>4, <3>1
    <3>3. strain \in [1 .. 3 -> Int]
        BY <3>1, <3>2
    <3>4. b2 = [b EXCEPT !.strain = strain]
        BY <2>3
    <3> HIDE DEF strain
    <3>5. QED
        BY <3>1, <3>3, <3>4 DEF Box
  <2>7. TypesShape(t, p + 1, b2)
      BY <1>4, <1>5, <1>6, <2>6 DEF TypesShape, n
  <2>8. ~LatticeRun(t)
      BY <1>12, TaskKinds
  <2>9. PlaceShape(t, k, p + 1, b2)
      BY <1>5, <2>6, <2>8, PlaceSetup DEF base
  <2>10. b2 \in Box
      BY <2>6
  <2>11. QED
      BY Zenon, <2>5, <2>7, <2>9, <2>10 DEF BoxShape
<1>13. BoxShape(t, k, s, p + 1, b2)
  <2>1. \/ cmd = <<"set_type", (p + 1) - 2, n>> /\ (p + 1) - 2 \in 1 .. n - 1 /\ ~StrainedRun(t)
        \/ cmd = <<"pair_style", t.meta.style>>
        \/ cmd = <<"box_relax">> /\ LatticeRun(t) /\ p + 1 = base
        \/ StrainedRun(t) /\ \E j \in 1 .. 3 : cmd = <<"change_box", j, Strains[k][j]>>
      BY Zenon, <1>2 DEF SetupCommand, n, base
  <2>2. QED
      BY Zenon, <2>1, <1>9, <1>10, <1>11, <1>12
<1>14. QED
    BY <1>13 DEF b2, cmd

\* After the setup there are variables and lines, and one place where atoms go.
RestCommand(t, j, cmd) ==
    \/ cmd[1] \in {"variable", "print"} /\ ~(VacancyRun(t) /\ j = 5) /\ ~(SurfaceRun(t) /\ j = 7)
    \/ VacancyRun(t) /\ j = 5 /\ cmd = <<"delete", "atom">>
    \/ SurfaceRun(t) /\ j = 7 /\ cmd = <<"delete", "top">>

\* The kinds of the commands after the setup.
LEMMA RestKinds ==
    /\ Len(LATTICE) = 5 /\ \A j \in 1 .. 5 : LATTICE[j][1] \in {"variable", "print"}
    /\ Len(STRAINED) = 4 /\ \A j \in 1 .. 4 : STRAINED[j][1] \in {"variable", "print"}
    /\ Len(VACANCY) = 11 /\ VACANCY[5] = <<"delete", "atom">>
    /\ \A j \in 1 .. 11 : j # 5 => VACANCY[j][1] \in {"variable", "print"}
    /\ Len(SURFACE) = 11 /\ SURFACE[7] = <<"delete", "top">>
    /\ \A j \in 1 .. 11 : j # 7 => SURFACE[j][1] \in {"variable", "print"}
<1>1. /\ Len(LATTICE) = 5 /\ \A j \in 1 .. 5 : LATTICE[j][1] \in {"variable", "print"}
      /\ Len(STRAINED) = 4 /\ \A j \in 1 .. 4 : STRAINED[j][1] \in {"variable", "print"}
    BY DEF LATTICE, STRAINED, Variable, Show
<1>2. Len(VACANCY) = 11 /\ VACANCY[5] = <<"delete", "atom">>
    BY DEF VACANCY
<1>3. Len(SURFACE) = 11 /\ SURFACE[7] = <<"delete", "top">>
    BY DEF SURFACE
<1>4. \A j \in 1 .. 11 : j # 5 => VACANCY[j][1] \in {"variable", "print"}
    BY DEF VACANCY, Variable, Show
<1>5. \A j \in 1 .. 11 : j # 7 => SURFACE[j][1] \in {"variable", "print"}
    BY DEF SURFACE, Variable, Show
<1>6. QED
    BY <1>1, <1>2, <1>3, <1>4, <1>5

\* Every rest is made of them.
LEMMA RestCommands ==
    ASSUME NEW t \in Task, NEW j \in 1 .. Len(Rest(t))
    PROVE  RestCommand(t, j, Rest(t)[j])
<1>1. CASE LatticeRun(t)
  <2>1. Rest(t) = LATTICE /\ ~VacancyRun(t) /\ ~SurfaceRun(t)
      BY <1>1, TaskKinds DEF Rest
  <2>2. QED
      BY <2>1, RestKinds DEF RestCommand
<1>2. CASE StrainedRun(t)
  <2>1. Rest(t) = STRAINED /\ ~VacancyRun(t) /\ ~SurfaceRun(t)
      BY <1>2, TaskKinds DEF Rest
  <2>2. QED
      BY <2>1, RestKinds DEF RestCommand
<1>3. CASE VacancyRun(t)
  <2>1. Rest(t) = VACANCY /\ ~SurfaceRun(t)
      BY <1>3, TaskKinds DEF Rest
  <2>2. QED
      BY <1>3, <2>1, RestKinds DEF RestCommand
<1>4. CASE SurfaceRun(t)
  <2>1. Rest(t) = SURFACE /\ ~VacancyRun(t)
      BY <1>4, TaskKinds DEF Rest
  <2>2. QED
      BY <1>4, <2>1, RestKinds DEF RestCommand
<1>5. QED
    BY <1>1, <1>2, <1>3, <1>4, TaskKinds

\* A box whose vacancies are counted anew is a box.
LEMMA VacanciesChange ==
    ASSUME NEW b \in Box, NEW v \in Int
    PROVE  LET b2 == [b EXCEPT !.vacancies = v]
           IN  /\ b2 \in Box /\ b2.z = b.z /\ b2.strain = b.strain /\ b2.types = b.types /\ b2.a = b.a
               /\ b2.vacancies = v /\ b2.cut = b.cut
BY DEF Box

\* After the setup only the removal of atoms changes the box.
LEMMA StepRest ==
    ASSUME NEW t \in Task, NEW k, NEW s, NEW p \in Nat,
           Len(Setup(t, k)) \in Nat, Len(Setup(t, k)) >= 3, p >= Len(Setup(t, k)),
           RestCommand(t, p + 1 - Len(Setup(t, k)), s[p + 1]),
           NEW b, BoxShape(t, k, s, p, b)
    PROVE  BoxShape(t, k, s, p + 1, After(t.crystal, b, s[p + 1]))
<1> DEFINE cmd == s[p + 1]
           b2 == After(t.crystal, b, cmd)
           base == Len(Setup(t, k))
           n == t.n
           past == p - base
<1>1. /\ b \in Box /\ StrainShape(k, s, p, b)
      /\ ~SurfaceRun(t) => b.z = "p"
      /\ StrainedRun(t) => b.a = t.crystal.guess
      /\ LatticeRun(t) => b.a = t.crystal.a
      /\ b.vacancies = IF VacancyRun(t) /\ past >= 5 THEN 1 ELSE 0
      /\ b.cut <=> SurfaceRun(t) /\ past >= 7
  <2>1. past >= 0
      OBVIOUS
  <2>2. QED
      BY <2>1 DEF BoxShape, PlaceShape
<1>2. /\ Len(b.types) = n /\ b.types \in Seq(Int) /\ \A j \in 1 .. n : b.types[j] \in 0 .. Sites
      /\ \A j \in 2 .. n : StrainedRun(t) \/ j >= p => b.types[j] = 0
      /\ ~b.cut => Total(b.types) = Sites - b.vacancies
      /\ b.vacancies = 0 /\ ~b.cut => b.types[1] >= 1
  <2>1. b.types \in Seq(Int)
      BY <1>1 DEF Box
  <2>2. TypesShape(t, p, b) /\ p >= 2
      BY DEF BoxShape
  <2>3. QED
      BY <2>1, <2>2 DEF TypesShape
<1>3. n \in Nat /\ n >= 1 /\ Sites \in Nat /\ Sites > 1
    BY TaskTypes, SitesAssumption
<1>4. past \in Nat /\ (p + 1) - base = past + 1
    OBVIOUS
<1> HIDE DEF b2, n
<1>5. ASSUME cmd[1] \in {"variable", "print"}, ~(VacancyRun(t) /\ past + 1 = 5),
             ~(SurfaceRun(t) /\ past + 1 = 7)
      PROVE  BoxShape(t, k, s, p + 1, b2)
  <2>1. b2 = b
      BY <1>5, AfterOther DEF b2
  <2>2. StrainShape(k, s, p + 1, b2)
      BY <1>1, <1>5, <2>1, StrainKept
  <2>3. TypesShape(t, p + 1, b2)
      BY <1>2, <1>3, <2>1 DEF TypesShape, n
  <2>4. PlaceShape(t, k, p + 1, b2)
    <3>1. b.vacancies = IF VacancyRun(t) /\ past + 1 >= 5 THEN 1 ELSE 0
        BY <1>1, <1>4, <1>5
    <3>2. b.cut <=> SurfaceRun(t) /\ past + 1 >= 7
        BY <1>1, <1>4, <1>5
    <3>3. QED
        BY <1>1, <1>4, <2>1, <3>1, <3>2 DEF PlaceShape
  <2>5. QED
      BY <1>1, <2>1, <2>2, <2>3, <2>4 DEF BoxShape
<1>6. ASSUME VacancyRun(t), past + 1 = 5, cmd = <<"delete", "atom">>
      PROVE  BoxShape(t, k, s, p + 1, b2)
  <2> DEFINE types == [b.types EXCEPT ![1] = b.types[1] - 1]
  <2>1. b2 = [b EXCEPT !.types = types, !.vacancies = b.vacancies + 1]
    <3> DEFINE vacancies == b.vacancies + 1
    <3>1. types = [b.types EXCEPT ![1] = b.types[1] - 1] /\ vacancies = b.vacancies + 1
        OBVIOUS
    <3> HIDE DEF types, vacancies
    <3>2. Deletes(cmd, "atom")
        BY Zenon, <1>6 DEF Deletes
    <3> HIDE DEF cmd
    <3>3. b2 = WithVacancies(b, types, vacancies)
        BY <1>1, <3>1, <3>2, AfterDeleteAtom DEF b2
    <3>4. QED
        BY Zenon, <3>3 DEF vacancies, WithVacancies
  <2>2. ~SurfaceRun(t) /\ ~b.cut /\ b.vacancies = 0
      BY <1>1, <1>4, <1>6, TaskKinds
  <2>3. /\ types \in Seq(Int) /\ Len(types) = n
        /\ \A j \in 1 .. n : types[j] = IF j = 1 THEN b.types[1] - 1 ELSE b.types[j]
      BY <1>2, <1>3
  <2>4. Total(types) = Total(b.types) - b.types[1] + (b.types[1] - 1)
    <3>1. b.types[1] - 1 \in Int /\ 1 \in 1 .. Len(b.types)
        BY <1>2, <1>3
    <3>2. QED
        BY <1>2, <3>1, TotalChange
  <2>5. Total(types) = Sites - 1
      BY <1>2, <1>3, <2>2, <2>4
  <2>6. ASSUME NEW j \in 1 .. n PROVE types[j] \in 0 .. Sites
    <3>1. b.types[j] \in 0 .. Sites /\ b.types[1] >= 1
        BY <1>2, <2>2
    <3>2. CASE j = 1
      <4>1. types[j] = b.types[j] - 1 /\ b.types[j] >= 1
          BY <3>1, <3>2, <2>3
      <4>2. QED
          BY <4>1, <3>1, <1>3
    <3>3. CASE j # 1
        BY <3>1, <3>3, <2>3
    <3>4. QED
        BY <3>2, <3>3
  <2>7. \A j \in 2 .. n : StrainedRun(t) \/ j >= p => types[j] = 0
      BY <1>2, <1>3, <2>3
  <2> HIDE DEF types
  <2>8. /\ b2 \in Box /\ b2.z = b.z /\ b2.strain = b.strain /\ b2.types = types /\ b2.a = b.a
        /\ b2.vacancies = 1 /\ b2.cut = b.cut
    <3> DEFINE mid == [b EXCEPT !.types = types]
    <3>1. b \in Box /\ types \in Seq(Int)
        BY <1>1, <2>3
    <3>2. b2 = [mid EXCEPT !.vacancies = 1]
      <4>1. b.vacancies + 1 = 1
          BY <2>2
      <4>2. mid.vacancies = b.vacancies
          BY <3>1 DEF Box
      <4>3. b2 = [mid EXCEPT !.vacancies = b.vacancies + 1]
          BY <2>1
      <4>4. QED
          BY <4>1, <4>3
    <3>3. /\ mid \in Box /\ mid.z = b.z /\ mid.strain = b.strain /\ mid.types = types
          /\ mid.a = b.a /\ mid.cut = b.cut
        BY <3>1 DEF Box
    <3> HIDE DEF mid
    <3>4. QED
        BY <3>2, <3>3, VacanciesChange
  <2>9. cmd[1] # "change_box"
      BY <1>6
  <2>10. StrainShape(k, s, p + 1, b2)
      BY <1>1, <2>8, <2>9, StrainKept
  <2>11. TypesShape(t, p + 1, b2)
      BY <1>3, <2>3, <2>5, <2>6, <2>7, <2>8 DEF TypesShape, n
  <2>12. PlaceShape(t, k, p + 1, b2)
      BY <1>1, <1>4, <1>6, <2>2, <2>8 DEF PlaceShape
  <2>13. QED
      BY <2>8, <2>10, <2>11, <2>12 DEF BoxShape
<1>7. ASSUME SurfaceRun(t), past + 1 = 7, cmd = <<"delete", "top">>
      PROVE  BoxShape(t, k, s, p + 1, b2)
  <2> DEFINE types == [i \in DOMAIN b.types |-> b.types[i] \div 2]
  <2>1. b2 = [b EXCEPT !.types = types, !.cut = TRUE]
    <3>1. types = [i \in DOMAIN b.types |-> b.types[i] \div 2]
        OBVIOUS
    <3> HIDE DEF types
    <3>2. Deletes(cmd, "top")
        BY Zenon, <1>7 DEF Deletes
    <3> HIDE DEF cmd
    <3>3. b2 = WithCut(b, types)
        BY <1>1, <3>1, <3>2, AfterDeleteTop DEF b2
    <3>4. QED
        BY Zenon, <3>3 DEF WithCut
  <2>2. ~VacancyRun(t) /\ ~LatticeRun(t) /\ ~StrainedRun(t)
      BY <1>7, TaskKinds
  <2>3. \A j \in 1 .. n : b.types[j] \div 2 \in 0 .. Sites /\ (b.types[j] = 0 => b.types[j] \div 2 = 0)
    <3> TAKE j \in 1 .. n
    <3>1. b.types[j] \in 0 .. Sites
        BY <1>2
    <3>2. \A x \in Nat : x \div 2 \in Nat /\ x \div 2 <= x /\ (x = 0 => x \div 2 = 0)
        OBVIOUS
    <3>3. QED
        BY <1>3, <3>1, <3>2
  <2>4. DOMAIN b.types = 1 .. n
      BY <1>2
  <2>5. /\ types \in Seq(Int) /\ Len(types) = n
        /\ \A j \in 1 .. n : types[j] \in 0 .. Sites
        /\ \A j \in 2 .. n : j >= p => types[j] = 0
      BY <1>2, <1>3, <2>3, <2>4
  <2> HIDE DEF types
  <2>6. /\ b2 \in Box /\ b2.z = b.z /\ b2.strain = b.strain /\ b2.types = types /\ b2.a = b.a
        /\ b2.vacancies = b.vacancies /\ b2.cut
      BY <1>1, <2>1, <2>5 DEF Box
  <2>7. cmd[1] # "change_box"
      BY <1>7
  <2>8. StrainShape(k, s, p + 1, b2)
      BY <1>1, <2>6, <2>7, StrainKept
  <2>9. TypesShape(t, p + 1, b2)
      BY <1>3, <2>2, <2>5, <2>6 DEF TypesShape, n
  <2>10. PlaceShape(t, k, p + 1, b2)
      BY <1>1, <1>4, <1>7, <2>2, <2>6 DEF PlaceShape
  <2>11. QED
      BY <2>6, <2>8, <2>9, <2>10 DEF BoxShape
<1>8. BoxShape(t, k, s, p + 1, b2)
  <2>1. p + 1 - base = past + 1
      OBVIOUS
  <2>2. RestCommand(t, past + 1, cmd)
      BY <2>1
  <2>3. QED
      BY Zenon, <2>2, <1>5, <1>6, <1>7 DEF RestCommand
<1>9. QED
    BY <1>8 DEF b2

\* Whatever is read, the box keeps its shape, and prints nan or does not.
LEMMA StepBox ==
    ASSUME NEW t \in Task, NEW k \in 1 .. Runs(t.property), NEW s, ScriptShape(t, k, s),
           NEW p \in Nat, p < Len(s), NEW b, BoxShape(t, k, s, p, b)
    PROVE  BoxShape(t, k, s, p + 1, After(t.crystal, b, s[p + 1]))
<1> DEFINE base == Len(Setup(t, k))
<1>1. /\ base \in Nat /\ base >= 3 /\ Len(s) = base + Len(Rest(t))
      /\ \A i \in 1 .. Len(Rest(t)) : s[base + i] = Rest(t)[i]
    BY DEF ScriptShape
<1>2. CASE p = 0
    BY <1>2, StepBoundary
<1>3. CASE p = 1
    BY <1>3, StepCreate
<1>4. CASE p >= 2 /\ p + 1 <= base
    BY <1>4, StepSetup
<1>5. CASE p >= base
  <2>1. Len(Rest(t)) \in Nat
      BY RestFacts
  <2> DEFINE j == p + 1 - base
  <2>2. j \in 1 .. Len(Rest(t)) /\ base + j = p + 1
      BY <1>1, <1>5, <2>1
  <2>3. s[p + 1] = Rest(t)[j]
      BY <1>1, <2>2
  <2>4. RestCommand(t, j, s[p + 1])
      BY <2>2, <2>3, RestCommands
  <2>5. QED
      BY <1>1, <1>5, <2>4, StepRest
<1>6. QED
    BY <1>1, <1>2, <1>3, <1>4, <1>5

\* The box a process starts with.
LEMMA FirstBox ==
    ASSUME NEW t \in Task, NEW k \in 1 .. Runs(t.property), NEW s, ScriptShape(t, k, s),
           NEW nan \in BOOLEAN
    PROVE  BoxShape(t, k, s, 0, NewBox(t, nan)) /\ NewBox(t, nan).nan = nan
<1> DEFINE b == NewBox(t, nan)
<1>1. t.crystal \in Crystal
    BY TaskTypes
<1>2. /\ b.z = "p" /\ b.types = <<>> /\ b.a = t.crystal.guess /\ b.strain = <<0, 0, 0>>
      /\ b.vacancies = 0 /\ b.cut = FALSE /\ b.nan = nan
    BY DEF NewBox
<1>3. b \in Box
  <2>1. <<0, 0, 0>> \in [1 .. 3 -> Int] /\ t.crystal.guess \in Int /\ <<>> \in Seq(Int)
      BY <1>1 DEF Crystal
  <2>2. QED
      BY <2>1 DEF Box, NewBox
<1> HIDE DEF b
<1>4. StrainShape(k, s, 0, b)
    BY <1>2 DEF StrainShape
<1>5. TypesShape(t, 0, b)
    BY <1>2 DEF TypesShape
<1>6. Len(Setup(t, k)) \in Nat /\ Len(Setup(t, k)) >= 3
    BY DEF ScriptShape
<1>7. PlaceShape(t, k, 0, b)
  <2>1. LatticeRun(t) /\ 0 = Len(Setup(t, k)) => b.a = t.crystal.a
      BY <1>6
  <2>2. QED
      BY <1>2, <1>3, <1>6, <2>1, PlaceSetup
<1>8. QED
    BY <1>2, <1>3, <1>4, <1>5, <1>7 DEF BoxShape, b

\* Removing atoms does not decide whether a process prints nan.
LEMMA TwoChange ==
    ASSUME NEW b \in Box, NEW x, NEW y
    PROVE  WithVacancies(b, x, y).nan = b.nan /\ WithCut(b, x).nan = b.nan
BY DEF Box, WithVacancies, WithCut

\* Nor does any other command.
LEMMA AfterNan ==
    ASSUME NEW t \in Task, NEW k \in 1 .. Runs(t.property), NEW s, ScriptShape(t, k, s),
           NEW p \in Nat, p < Len(s), NEW b \in Box
    PROVE  After(t.crystal, b, s[p + 1]).nan = b.nan
<1> DEFINE cmd == s[p + 1]
<1>1. CASE cmd[1] = "boundary"
    BY <1>1, AfterBoundary DEF Box
<1>2. CASE cmd[1] = "create_atoms"
  <2> DEFINE x == [i \in 1 .. cmd[2] |-> IF i = 1 THEN Sites ELSE 0]
  <2>1. x = [i \in 1 .. cmd[2] |-> IF i = 1 THEN Sites ELSE 0]
      OBVIOUS
  <2> HIDE DEF x
  <2>2. After(t.crystal, b, cmd) = [b EXCEPT !.types = x]
      BY <1>2, <2>1, AfterCreate
  <2>3. QED
      BY <2>2 DEF Box
<1>3. CASE cmd[1] = "set_type"
    BY <1>3, AfterSetType DEF Box
<1>4. CASE cmd[1] = "box_relax"
    BY <1>4, AfterRelax DEF Box
<1>5. CASE cmd[1] = "change_box"
    BY <1>5, AfterChange DEF Box
<1>6. CASE cmd = <<"delete", "atom">>
  <2> DEFINE x == [b.types EXCEPT ![1] = b.types[1] - 1]
             y == b.vacancies + 1
  <2>1. x = [b.types EXCEPT ![1] = b.types[1] - 1] /\ y = b.vacancies + 1
      OBVIOUS
  <2> HIDE DEF x, y
  <2>2. After(t.crystal, b, cmd) = WithVacancies(b, x, y)
    <3>1. Deletes(cmd, "atom")
        BY Zenon, <1>6 DEF Deletes
    <3> HIDE DEF cmd
    <3>2. QED
        BY <2>1, <3>1, AfterDeleteAtom
  <2>3. QED
      BY <2>2, TwoChange
<1>7. CASE cmd = <<"delete", "top">>
  <2> DEFINE x == [i \in DOMAIN b.types |-> b.types[i] \div 2]
  <2>1. x = [i \in DOMAIN b.types |-> b.types[i] \div 2]
      OBVIOUS
  <2> HIDE DEF x
  <2>2. After(t.crystal, b, cmd) = WithCut(b, x)
    <3>1. Deletes(cmd, "top")
        BY Zenon, <1>7 DEF Deletes
    <3> HIDE DEF cmd
    <3>2. QED
        BY <2>1, <3>1, AfterDeleteTop
  <2>3. QED
      BY <2>2, TwoChange
<1>8. CASE cmd[1] = "plugin"
  <2>1. cmd # <<"delete", "atom">> /\ cmd # <<"delete", "top">>
      BY <1>8
  <2>2. QED
      BY <1>8, <2>1 DEF After, Box
<1>9. QED
    BY Zenon, <1>1, <1>2, <1>3, <1>4, <1>5, <1>6, <1>7, <1>8 DEF After

-----------------------------------------------------------------------------
(* What the box measures when its setup is read.                           *)

\* The energy of cell k, in halves.
Strained(t, k) ==
    LET x == Strains[k][1]
        y == Strains[k][2]
        g == Strains[k][3]
        c == t.crystal
    IN  Sites * c.ecoh[1] + Sites * (c.guess - c.a) * (c.guess - c.a)
          + c.volume * (2 * c.stress * (x + y) + c.C11 * (x * x + y * y) + 2 * c.C12 * x * y + c.C44 * g * g)

\* Atoms and energies of a box of task t.
Measures(t, k, b) ==
    /\ Atoms(b) \in Int
    /\ ~b.cut => Atoms(b) = Sites - b.vacancies
    /\ b.nan => Energy(t.crystal, b) = None
    /\ ~b.nan => Energy(t.crystal, b) \in Int
    /\ StrainedRun(t) /\ ~b.nan => Energy(t.crystal, b) = Strained(t, k)
    /\ LatticeRun(t) /\ t.n = 1 /\ ~b.nan => Energy(t.crystal, b) = Sites * t.crystal.ecoh[1]

\* The numbers of a crystal.
LEMMA CrystalNumbers ==
    ASSUME NEW t \in Task
    PROVE  LET c == t.crystal
           IN  /\ c.a \in Int /\ c.guess \in Int /\ c.ecoh \in Seq(Int) /\ c.stress \in Int
               /\ c.C11 \in Int /\ c.C12 \in Int /\ c.C44 \in Int /\ c.vacancy \in Int
               /\ c.surface \in Int /\ c.area \in Int /\ c.volume \in Int
               /\ c.area >= 1 /\ c.volume >= 1
BY TaskTypes DEF Crystal

\* Energies of the atoms: an integer, and those of one type when the others have no atoms.
LEMMA WeightsFacts ==
    ASSUME NEW n \in Nat, n >= 1, NEW e \in Seq(Int), n <= Len(e),
           NEW types \in Seq(Int), Len(types) = n
    PROVE  LET w == [i \in DOMAIN types |-> types[i] * e[i]]
           IN  /\ Total(w) \in Int
               /\ (\A j \in 2 .. n : types[j] = 0) => Total(w) = types[1] * e[1] /\ Total(types) = types[1]
<1> DEFINE w == [i \in DOMAIN types |-> types[i] * e[i]]
<1>1. w \in Seq(Int) /\ Len(w) = n /\ \A i \in 1 .. n : w[i] = types[i] * e[i]
  <2>1. DOMAIN types = 1 .. n
      OBVIOUS
  <2>2. \A i \in 1 .. n : types[i] \in Int /\ e[i] \in Int
      OBVIOUS
  <2>3. \A i \in 1 .. n : types[i] * e[i] \in Int
      BY <2>2
  <2>4. w = [i \in 1 .. n |-> types[i] * e[i]]
      BY <2>1
  <2>5. QED
      BY <2>3, <2>4
<1> HIDE DEF w
<1>2. Total(w) \in Int
    BY <1>1, TotalInt
<1>3. ASSUME \A j \in 2 .. n : types[j] = 0
      PROVE  Total(w) = types[1] * e[1] /\ Total(types) = types[1]
  <2>1. \A j \in 2 .. n : w[j] = 0
    <3> SUFFICES ASSUME NEW j \in 2 .. n PROVE w[j] = 0
        OBVIOUS
    <3>1. w[j] = types[j] * e[j] /\ types[j] = 0 /\ e[j] \in Int
        BY <1>1, <1>3
    <3>2. QED
        BY <3>1
  <2>2. Total(w) = w[1]
      BY <1>1, <2>1, TotalFirst
  <2>3. Total(types) = types[1]
      BY <1>3, TotalFirst
  <2>4. QED
      BY <1>1, <2>2, <2>3
<1>4. QED
    BY <1>2, <1>3 DEF w

\* After the setup the box is strained as its cell is meant to be.
LEMMA StrainRead ==
    ASSUME NEW t \in Task, NEW k \in 1 .. Runs(t.property), NEW s, ScriptShape(t, k, s),
           NEW p \in Nat, p >= Len(Setup(t, k)), NEW b, StrainShape(k, s, p, b), NEW j \in 1 .. 3
    PROVE  b.strain[j] = Strains[k][j]
<1> DEFINE base == Len(Setup(t, k))
<1>1. b.strain[j] = IF \E i \in 1 .. p : s[i] = <<"change_box", j, Strains[k][j]>>
                    THEN Strains[k][j] ELSE 0
    BY DEF StrainShape
<1>2. CASE Strains[k][j] = 0
    BY <1>1, <1>2
<1>3. CASE ~StrainedRun(t)
  <2>1. k = 1
      BY <1>3, TaskKinds
  <2>2. Strains[k][j] = 0
      BY <2>1 DEF Strains
  <2>3. QED
      BY <1>1, <2>2
<1>4. CASE StrainedRun(t) /\ Strains[k][j] # 0
  <2>1. base \in Nat /\ \A h \in 1 .. 3 : Strains[k][h] # 0 =>
                    \E i \in 3 .. base : s[i] = <<"change_box", h, Strains[k][h]>>
      BY <1>4 DEF ScriptShape
  <2>2. PICK i \in 3 .. base : s[i] = <<"change_box", j, Strains[k][j]>>
      BY Zenon, <2>1, <1>4
  <2>3. i \in 1 .. p
      BY <2>1
  <2>4. QED
      BY <1>1, <2>2, <2>3
<1>5. QED
    BY <1>2, <1>3, <1>4

\* Energy of a strain.
Quadratic(c, x, y, g) ==
    c.volume * (2 * c.stress * (x + y) + c.C11 * (x * x + y * y) + 2 * c.C12 * x * y + c.C44 * g * g)

\* The energy of a strain is an integer, and 0 without one.
LEMMA QuadraticFacts ==
    ASSUME NEW c, NEW x, NEW y, NEW g, x \in Int /\ y \in Int /\ g \in Int,
           c.volume \in Int /\ c.stress \in Int /\ c.C11 \in Int /\ c.C12 \in Int /\ c.C44 \in Int
    PROVE  Quadratic(c, x, y, g) \in Int /\ (x = 0 /\ y = 0 /\ g = 0 => Quadratic(c, x, y, g) = 0)
<1> DEFINE e1 == 2 * c.stress * (x + y)
           e2 == c.C11 * (x * x + y * y)
           e3 == 2 * c.C12 * x * y
           e4 == c.C44 * g * g
<1>1. e1 \in Int /\ e2 \in Int /\ e3 \in Int /\ e4 \in Int
    OBVIOUS
<1>2. x = 0 /\ y = 0 /\ g = 0 => e1 = 0 /\ e2 = 0 /\ e3 = 0 /\ e4 = 0
    OBVIOUS
<1> HIDE DEF e1, e2, e3, e4
<1>3. c.volume * (e1 + e2 + e3 + e4) \in Int /\ (x = 0 /\ y = 0 /\ g = 0 => c.volume * (e1 + e2 + e3 + e4) = 0)
    BY <1>1, <1>2
<1>4. QED
    BY <1>3 DEF e1, e2, e3, e4, Quadratic

\* Every box whose setup is read measures that.
LEMMA BoxMeasures ==
    ASSUME NEW t \in Task, NEW k \in 1 .. Runs(t.property), NEW s, ScriptShape(t, k, s),
           NEW p \in Nat, p >= Len(Setup(t, k)), NEW b, BoxShape(t, k, s, p, b)
    PROVE  Measures(t, k, b)
<1> DEFINE c == t.crystal
           n == t.n
           w == [i \in DOMAIN b.types |-> b.types[i] * c.ecoh[i]]
           x == b.strain[1]
           y == b.strain[2]
           g == b.strain[3]
           lattice == Atoms(b) * (b.a - c.a) * (b.a - c.a)
           strain == c.volume * (2 * c.stress * (x + y) + c.C11 * (x * x + y * y) + 2 * c.C12 * x * y + c.C44 * g * g)
           vacancy == 2 * c.vacancy * b.vacancies
           surface == 2 * c.surface * c.area * Surfaces(b)
<1>1. b \in Box /\ StrainShape(k, s, p, b) /\ TypesShape(t, p, b) /\ PlaceShape(t, k, p, b)
    BY DEF BoxShape
<1>2. Len(Setup(t, k)) \in Nat /\ Len(Setup(t, k)) >= 3
    BY DEF ScriptShape
<1>3. /\ b.types \in Seq(Int) /\ b.a \in Int /\ b.vacancies \in Int
      /\ x \in Int /\ y \in Int /\ g \in Int /\ b.nan \in BOOLEAN
    BY <1>1 DEF Box
<1>4. /\ Len(b.types) = n
      /\ \A j \in 2 .. n : StrainedRun(t) => b.types[j] = 0
      /\ ~b.cut => Total(b.types) = Sites - b.vacancies
    BY <1>1, <1>2 DEF TypesShape
<1>5. n \in Nat /\ n >= 1 /\ n <= Len(c.ecoh) /\ Sites \in Nat
    BY TaskTypes, SitesAssumption
<1>6. /\ c.a \in Int /\ c.guess \in Int /\ c.ecoh \in Seq(Int) /\ c.stress \in Int
      /\ c.C11 \in Int /\ c.C12 \in Int /\ c.C44 \in Int /\ c.vacancy \in Int
      /\ c.surface \in Int /\ c.area \in Int /\ c.volume \in Int
    BY CrystalNumbers
<1>7. Atoms(b) \in Int /\ (~b.cut => Atoms(b) = Sites - b.vacancies)
    BY <1>3, <1>4, TotalInt DEF Atoms
<1>8. /\ Total(w) \in Int
      /\ (\A j \in 2 .. n : b.types[j] = 0) => Total(w) = b.types[1] * c.ecoh[1] /\ Total(b.types) = b.types[1]
    BY <1>3, <1>4, <1>5, <1>6, WeightsFacts
<1>9. Surfaces(b) \in Int /\ (b.z = "p" /\ ~b.cut => Surfaces(b) = 0)
    BY DEF Surfaces
<1>10. Energy(c, b) = IF b.nan THEN None ELSE Total(w) + lattice + strain + vacancy + surface
    BY Zenon DEF Energy
<1> HIDE DEF c, w, n, x, y, g
<1>11. x \in Int /\ y \in Int /\ g \in Int /\ b.a \in Int /\ b.vacancies \in Int
    BY Zenon, <1>3
<1>12. /\ c.volume \in Int /\ c.stress \in Int /\ c.C11 \in Int /\ c.C12 \in Int /\ c.C44 \in Int
    BY Zenon, <1>6
<1>13. /\ c.a \in Int /\ c.vacancy \in Int /\ c.surface \in Int /\ c.area \in Int
    BY Zenon, <1>6
<1>14. strain \in Int /\ (x = 0 /\ y = 0 /\ g = 0 => strain = 0)
  <2>1. strain = Quadratic(c, x, y, g)
      BY Zenon DEF Quadratic
  <2> HIDE DEF strain
  <2>2. QED
      BY <1>11, <1>12, <2>1, QuadraticFacts
<1>15. lattice \in Int
  <2> DEFINE m == Atoms(b)
             d == b.a - c.a
  <2>1. m \in Int /\ d \in Int
      BY <1>11, <1>13, <1>7
  <2> HIDE DEF m, d
  <2>2. m * d * d \in Int
      BY <2>1
  <2>3. QED
      BY <2>2 DEF m, d
<1>16. vacancy \in Int /\ surface \in Int
  <2> DEFINE f == Surfaces(b)
             u == c.surface
             a == c.area
  <2>1. f \in Int /\ u \in Int /\ a \in Int
      BY <1>6, <1>9
  <2> HIDE DEF f, u, a
  <2>2. 2 * u * a * f \in Int
      BY <2>1
  <2>3. vacancy \in Int
      BY <1>3, <1>6
  <2>4. QED
      BY <2>2, <2>3 DEF f, u, a
<1>17. ~b.nan => Energy(c, b) \in Int
  <2> HIDE DEF strain, lattice, vacancy, surface
  <2>1. QED
      BY <1>8, <1>10, <1>14, <1>15, <1>16
<1>18. ASSUME StrainedRun(t) \/ LatticeRun(t)
       PROVE  b.vacancies = 0 /\ ~b.cut /\ b.z = "p" /\ vacancy = 0 /\ surface = 0
  <2>1. ~VacancyRun(t) /\ ~SurfaceRun(t)
      BY <1>18, TaskKinds
  <2>2. b.vacancies = 0 /\ ~b.cut /\ b.z = "p"
      BY <1>1, <2>1 DEF PlaceShape
  <2>3. Surfaces(b) = 0
      BY <1>9, <2>2
  <2>4. vacancy = 0
      BY <1>13, <2>2
  <2>5. surface = 0
    <3> DEFINE u == 2 * c.surface * c.area
    <3>1. u \in Int
        BY <1>13
    <3> HIDE DEF u
    <3>2. u * 0 = 0
        BY <3>1
    <3>3. QED
        BY <2>3, <3>2 DEF u
  <2>6. QED
      BY <2>2, <2>4, <2>5
<1>19. ASSUME StrainedRun(t), ~b.nan PROVE Energy(c, b) = Strained(t, k)
  <2>1. b.a = c.guess
      BY <1>1, <1>19 DEF PlaceShape, c
  <2>2. x = Strains[k][1] /\ y = Strains[k][2] /\ g = Strains[k][3]
      BY <1>1, StrainRead DEF x, y, g
  <2>3. \A j \in 2 .. n : b.types[j] = 0
      BY <1>4, <1>19
  <2>4. Atoms(b) = Sites /\ Total(b.types) = Sites
      BY <1>4, <1>5, <1>7, <1>18, <1>19
  <2>5. Total(w) = Sites * c.ecoh[1]
      BY <1>8, <2>3, <2>4
  <2>6. lattice = Sites * (c.guess - c.a) * (c.guess - c.a)
      BY <2>1, <2>4
  <2>7. vacancy = 0 /\ surface = 0
      BY <1>18, <1>19
  <2>8. Strained(t, k) = Sites * c.ecoh[1] + lattice + strain
      BY Zenon, <2>2, <2>6 DEF Strained, c
  <2> HIDE DEF strain, lattice, vacancy, surface
  <2>9. Energy(c, b) = Total(w) + lattice + strain + 0 + 0
      BY <1>10, <1>19, <2>7
  <2>10. QED
      BY <1>8, <1>14, <1>15, <2>5, <2>8, <2>9
<1>20. ASSUME LatticeRun(t), n = 1, ~b.nan PROVE Energy(c, b) = Sites * c.ecoh[1]
  <2>1. b.a = c.a
      BY <1>1, <1>2, <1>20 DEF PlaceShape, c
  <2>2. k = 1
      BY <1>20, TaskKinds
  <2>3. Strains[1] = <<0, 0, 0>>
      BY DEF Strains
  <2>4. x = 0 /\ y = 0 /\ g = 0
      BY <1>1, <2>2, <2>3, StrainRead DEF x, y, g
  <2>5. Atoms(b) = Sites /\ Total(b.types) = Sites
      BY <1>4, <1>5, <1>7, <1>18, <1>20
  <2>6. Total(w) = Sites * c.ecoh[1]
      BY <1>8, <1>20, <2>5
  <2>7. strain = 0
      BY <1>14, <2>4
  <2>8. lattice = 0
      BY <1>7, <1>6, <2>1
  <2>9. vacancy = 0 /\ surface = 0
      BY <1>18, <1>20
  <2> HIDE DEF strain, lattice, vacancy, surface
  <2>10. QED
      BY <1>8, <1>10, <1>20, <2>6, <2>7, <2>8, <2>9
<1>21. QED
    BY <1>7, <1>10, <1>17, <1>19, <1>20 DEF Measures, c, n

-----------------------------------------------------------------------------
(* The slab: its box ends along z from the first command on.               *)

SlabShape(t, p, b) ==
    SurfaceRun(t) => /\ b.a = t.crystal.guess
                     /\ p >= 1 => b.z = "s"
                     /\ t.n = 1 /\ b.cut => b.types[1] = Sites \div 2

\* The energy of a slab of m atoms of one element.
Slab(t, m) ==
    LET c == t.crystal
    IN  m * c.ecoh[1] + m * (c.guess - c.a) * (c.guess - c.a) + 4 * (c.surface * c.area)

SlabMeasures(t, b) ==
    SurfaceRun(t) /\ t.n = 1 =>
        LET m == IF b.cut THEN Sites \div 2 ELSE Sites
        IN  Atoms(b) = m /\ (~b.nan => Energy(t.crystal, b) = Slab(t, m))

\* A new box lies where the lattice starts.
LEMMA SlabFirst ==
    ASSUME NEW t, NEW nan PROVE SlabShape(t, 0, NewBox(t, nan))
BY DEF SlabShape, NewBox

\* Commands of the setup but the first leave a slab where it is.
LEMMA SlabSetup ==
    ASSUME NEW t \in Task, SurfaceRun(t), NEW k \in 1 .. Runs(t.property), NEW s, ScriptShape(t, k, s),
           NEW p \in Nat, p >= 1, p + 1 <= Len(Setup(t, k)), NEW b \in Box
    PROVE  After(t.crystal, b, s[p + 1]).a = b.a /\ After(t.crystal, b, s[p + 1]).z = b.z
<1> DEFINE cmd == s[p + 1]
           b2 == After(t.crystal, b, cmd)
<1>1. /\ s[2] = <<"create_atoms", t.n>>
      /\ \A i \in 3 .. Len(Setup(t, k)) : SetupCommand(t, k, i, s[i])
      /\ Len(Setup(t, k)) \in Nat
    BY DEF ScriptShape
<1>2. ~LatticeRun(t) /\ ~StrainedRun(t)
    BY TaskKinds
<1> HIDE DEF b2
<1>3. CASE p = 1
  <2> DEFINE x == [i \in 1 .. cmd[2] |-> IF i = 1 THEN Sites ELSE 0]
  <2>1. cmd[1] = "create_atoms"
      BY <1>1, <1>3
  <2>2. x = [i \in 1 .. cmd[2] |-> IF i = 1 THEN Sites ELSE 0]
      OBVIOUS
  <2> HIDE DEF x
  <2>3. b2 = [b EXCEPT !.types = x]
      BY <2>1, <2>2, AfterCreate DEF b2
  <2>4. QED
      BY <2>3 DEF Box, b2
<1>4. CASE p >= 2
  <2>1. SetupCommand(t, k, p + 1, cmd)
    <3>1. p + 1 \in 3 .. Len(Setup(t, k))
        BY <1>1, <1>4
    <3>2. QED
        BY <1>1, <3>1
  <2> HIDE DEF cmd
  <2>2. cmd[1] = "set_type" \/ cmd[1] = "pair_style"
      BY <1>2, <2>1 DEF SetupCommand
  <2>3. CASE cmd[1] = "set_type"
    <3>1. b2 = [b EXCEPT !.types = Shared(b.types, cmd[2], cmd[3])]
        BY <2>3, AfterSetType DEF b2
    <3>2. QED
        BY <3>1 DEF Box, b2, cmd
  <2>4. CASE cmd[1] = "pair_style"
    <3>1. b2 = b
        BY <2>4, AfterOther DEF b2
    <3>2. QED
        BY <3>1 DEF b2, cmd
  <2>5. QED
      BY <2>2, <2>3, <2>4
<1>5. QED
    BY <1>3, <1>4

\* The cut takes the share of the atoms above it.
LEMMA SlabCut ==
    ASSUME NEW t \in Task, SurfaceRun(t), NEW k, NEW s, NEW p \in Nat, p >= 2, NEW b, BoxShape(t, k, s, p, b),
           ~b.cut, b.vacancies = 0
    PROVE  LET b2 == After(t.crystal, b, <<"delete", "top">>)
           IN  b2.a = b.a /\ b2.z = b.z /\ (t.n = 1 => b2.types[1] = Sites \div 2)
<1> DEFINE cmd == <<"delete", "top">>
           x == [i \in DOMAIN b.types |-> b.types[i] \div 2]
<1>1. b \in Box /\ TypesShape(t, p, b)
    BY DEF BoxShape
<1>2. After(t.crystal, b, cmd) = WithCut(b, x)
  <2>1. x = [i \in DOMAIN b.types |-> b.types[i] \div 2]
      OBVIOUS
  <2> HIDE DEF x
  <2>2. Deletes(cmd, "top")
      BY Zenon DEF Deletes
  <2> HIDE DEF cmd
  <2>3. QED
      BY <1>1, <2>1, <2>2, AfterDeleteTop
<1> DEFINE b2 == WithCut(b, x)
<1>3. b2.a = b.a /\ b2.z = b.z /\ b2.types = x
    BY <1>1 DEF Box, WithCut
<1>4. ASSUME t.n = 1 PROVE x[1] = Sites \div 2
  <2>1. b.types \in Seq(Int)
      BY <1>1 DEF Box
  <2>2. Len(b.types) = 1 /\ Total(b.types) = Sites
      BY <1>1, <1>4, SitesAssumption DEF TypesShape
  <2>3. Total(b.types) = b.types[1]
    <3>1. \A j \in 2 .. Len(b.types) : b.types[j] = 0
        BY <2>2
    <3>2. QED
        BY <2>1, <2>2, <3>1, TotalFirst
  <2>4. 1 \in DOMAIN b.types
      BY <2>1, <2>2
  <2>5. QED
      BY <2>2, <2>3, <2>4
<1> HIDE DEF x, b2
<1>5. QED
    BY <1>2, <1>3, <1>4 DEF b2

\* Whatever is read, a slab keeps its shape.
LEMMA SlabStep ==
    ASSUME NEW t \in Task, NEW k \in 1 .. Runs(t.property), NEW s, ScriptShape(t, k, s),
           NEW p \in Nat, p < Len(s), NEW b, BoxShape(t, k, s, p, b), SlabShape(t, p, b)
    PROVE  SlabShape(t, p + 1, After(t.crystal, b, s[p + 1]))
<1> DEFINE cmd == s[p + 1]
           b2 == After(t.crystal, b, cmd)
           base == Len(Setup(t, k))
<1> SUFFICES ASSUME SurfaceRun(t)
             PROVE  b2.a = t.crystal.guess /\ b2.z = "s" /\ (t.n = 1 /\ b2.cut => b2.types[1] = Sites \div 2)
    BY DEF SlabShape
<1>1. /\ base \in Nat /\ base >= 3 /\ Len(s) = base + Len(Rest(t)) /\ s[1] = <<"boundary", "s">>
      /\ \A i \in 1 .. Len(Rest(t)) : s[base + i] = Rest(t)[i]
    BY DEF ScriptShape
<1>2. /\ b \in Box /\ b.a = t.crystal.guess /\ (p >= 1 => b.z = "s")
      /\ t.n = 1 /\ b.cut => b.types[1] = Sites \div 2
    BY DEF BoxShape, SlabShape
<1>3. BoxShape(t, k, s, p + 1, b2)
    BY StepBox
<1> HIDE DEF b2
<1>4. ASSUME p + 1 <= base PROVE ~b2.cut
  <2>1. b2 \in Box /\ PlaceShape(t, k, p + 1, b2)
      BY <1>3 DEF BoxShape
  <2>2. ~((p + 1) - base >= 7)
      BY <1>1, <1>4
  <2>3. QED
      BY Zenon, <2>1, <2>2 DEF PlaceShape
<1>5. CASE p = 0
  <2>1. cmd = <<"boundary", "s">>
      BY <1>1, <1>5
  <2>2. b2 = [b EXCEPT !.z = "s"]
      BY <2>1, AfterBoundary DEF b2
  <2>3. p + 1 <= base
      BY <1>1, <1>5
  <2>4. QED
      BY <1>2, <1>4, <2>2, <2>3 DEF Box
<1>6. CASE p >= 1 /\ p + 1 <= base
  <2>1. b2.a = b.a /\ b2.z = b.z
      BY <1>2, <1>6, SlabSetup DEF b2
  <2>2. QED
      BY <1>2, <1>4, <1>6, <2>1
<1>7. CASE p >= base
  <2>1. Len(Rest(t)) \in Nat
      BY RestFacts
  <2> DEFINE j == p + 1 - base
  <2>2. j \in 1 .. Len(Rest(t)) /\ base + j = p + 1 /\ p >= 2 /\ p >= 1
      BY <1>1, <1>7, <2>1
  <2>3. cmd = Rest(t)[j]
      BY <1>1, <2>2
  <2>4. RestCommand(t, j, cmd) /\ ~VacancyRun(t)
      BY <2>2, <2>3, RestCommands, TaskKinds
  <2>5. CASE cmd[1] \in {"variable", "print"}
    <3>1. b2 = b
        BY <2>5, AfterOther DEF b2
    <3>2. QED
        BY Zenon, <1>2, <2>2, <3>1
  <2>6. CASE cmd = <<"delete", "top">> /\ j = 7
    <3>1. ~b.cut /\ b.vacancies = 0
      <4>1. PlaceShape(t, k, p, b)
          BY DEF BoxShape
      <4>2. ~(p - base >= 7)
          BY <1>1, <1>7, <2>6
      <4>3. QED
          BY Zenon, <2>4, <4>1, <4>2 DEF PlaceShape
    <3>2. b2.a = b.a /\ b2.z = b.z /\ (t.n = 1 => b2.types[1] = Sites \div 2)
        BY <2>2, <2>6, <3>1, SlabCut DEF b2
    <3>3. QED
        BY Zenon, <1>2, <2>2, <3>2
  <2>7. QED
      BY Zenon, <2>4, <2>5, <2>6 DEF RestCommand
<1>8. QED
    BY <1>1, <1>5, <1>6, <1>7

\* So its energy is that of its atoms and of two surfaces, before the cut and after it.
LEMMA SlabEnergy ==
    ASSUME NEW t \in Task, NEW k \in 1 .. Runs(t.property), NEW s, ScriptShape(t, k, s),
           NEW p \in Nat, p >= Len(Setup(t, k)), NEW b, BoxShape(t, k, s, p, b), SlabShape(t, p, b)
    PROVE  SlabMeasures(t, b)
<1> SUFFICES ASSUME SurfaceRun(t), t.n = 1
             PROVE  LET m == IF b.cut THEN Sites \div 2 ELSE Sites
                    IN  Atoms(b) = m /\ (~b.nan => Energy(t.crystal, b) = Slab(t, m))
    BY DEF SlabMeasures
<1> DEFINE c == t.crystal
           m == IF b.cut THEN Sites \div 2 ELSE Sites
           h == c.ecoh[1]
           d == c.guess - c.a
           w == [i \in DOMAIN b.types |-> b.types[i] * c.ecoh[i]]
           sa == c.surface * c.area
           q == Quadratic(c, 0, 0, 0)
<1>1. b \in Box /\ StrainShape(k, s, p, b) /\ TypesShape(t, p, b) /\ PlaceShape(t, k, p, b)
    BY DEF BoxShape
<1>2. Len(Setup(t, k)) \in Nat /\ p >= 3
    BY DEF ScriptShape
<1>3. ~VacancyRun(t) /\ ~StrainedRun(t) /\ k = 1
    BY TaskKinds
<1>4. b.types \in Seq(Int) /\ Len(b.types) = 1 /\ b.vacancies = 0
  <2>1. b.vacancies = 0
      BY <1>1, <1>3 DEF PlaceShape
  <2>2. b.types \in Seq(Int)
      BY <1>1 DEF Box
  <2>3. Len(b.types) = 1
      BY <1>1, <1>2 DEF TypesShape
  <2>4. QED
      BY <2>1, <2>2, <2>3
<1>5. c.ecoh \in Seq(Int) /\ 1 <= Len(c.ecoh)
    BY CrystalNumbers, TaskTypes
<1>6. Total(w) = b.types[1] * h /\ Total(b.types) = b.types[1]
  <2> DEFINE n == t.n
  <2>1. n \in Nat /\ n >= 1 /\ n <= Len(c.ecoh) /\ Len(b.types) = n /\ \A j \in 2 .. n : b.types[j] = 0
      BY <1>4, <1>5
  <2> HIDE DEF n
  <2>2. QED
      BY <1>4, <1>5, <2>1, WeightsFacts
<1>7. b.types[1] = m
  <2>1. CASE b.cut
      BY <2>1 DEF SlabShape
  <2>2. CASE ~b.cut
    <3>1. Total(b.types) = Sites - b.vacancies
        BY <1>1, <1>2, <2>2 DEF TypesShape
    <3>2. QED
        BY <1>4, <1>6, <2>2, <3>1, SitesAssumption
  <2>3. QED
      BY <2>1, <2>2
<1>8. Atoms(b) = m
    BY <1>6, <1>7 DEF Atoms
<1>9. b.a = c.guess /\ b.z = "s"
    BY <1>2 DEF SlabShape
<1>10. b.strain[1] = 0 /\ b.strain[2] = 0 /\ b.strain[3] = 0
  <2>1. Strains[1] = <<0, 0, 0>>
      BY DEF Strains
  <2>2. \A j \in 1 .. 3 : b.strain[j] = Strains[k][j]
      BY <1>1, StrainRead
  <2>3. QED
      BY <1>3, <2>1, <2>2
<1>11. Surfaces(b) = 2
    BY <1>9 DEF Surfaces
<1>12. /\ m \in Int /\ h \in Int /\ d \in Int /\ c.surface \in Int /\ c.area \in Int /\ c.vacancy \in Int
       /\ c.volume \in Int /\ c.stress \in Int /\ c.C11 \in Int /\ c.C12 \in Int /\ c.C44 \in Int
  <2>1. c.guess \in Int /\ c.a \in Int
      BY Zenon, CrystalNumbers
  <2>2. /\ c.surface \in Int /\ c.area \in Int /\ c.vacancy \in Int
        /\ c.volume \in Int /\ c.stress \in Int /\ c.C11 \in Int /\ c.C12 \in Int /\ c.C44 \in Int
      BY Zenon, CrystalNumbers
  <2>3. d \in Int
      BY <2>1
  <2>4. m \in Int
      BY SitesAssumption
  <2>5. h \in Int
      BY <1>5
  <2>6. QED
      BY Zenon, <2>2, <2>3, <2>4, <2>5
<1>13. q = 0
  <2>1. 0 \in Int
      OBVIOUS
  <2> HIDE DEF q, c
  <2>2. QED
      BY <1>12, <2>1, QuadraticFacts DEF q
<1>14. ASSUME ~b.nan PROVE Energy(c, b) = Slab(t, m)
  <2>1. Energy(c, b) = Total(w) + Atoms(b) * (b.a - c.a) * (b.a - c.a)
           + Quadratic(c, b.strain[1], b.strain[2], b.strain[3])
           + 2 * c.vacancy * b.vacancies + 2 * c.surface * c.area * Surfaces(b)
      BY Zenon, <1>14 DEF Energy, Quadratic
  <2>2. Energy(c, b) = m * h + m * d * d + q + 2 * c.vacancy * 0 + 2 * c.surface * c.area * 2
    <3>1. Total(w) = m * h
        BY Zenon, <1>6, <1>7
    <3>2. b.a - c.a = d
        BY Zenon, <1>9
    <3> HIDE DEF m, h, w, d
    <3>3. QED
        BY Zenon, <1>4, <1>8, <1>10, <1>11, <2>1, <3>1, <3>2
  <2>3. Slab(t, m) = m * h + m * d * d + 4 * sa
      BY Zenon DEF Slab
  <2> DEFINE x == m * h
             y == m * d * d
             e == Energy(c, b)
             f == Slab(t, m)
  <2>4. x \in Int /\ y \in Int
    <3> HIDE DEF m, h, d
    <3>1. QED
        BY <1>12
  <2>5. 2 * c.vacancy * 0 = 0 /\ 2 * c.surface * c.area * 2 = 4 * sa /\ sa \in Int
    <3> DEFINE x1 == c.vacancy
               x2 == c.surface
               x3 == c.area
    <3>1. x1 \in Int /\ x2 \in Int /\ x3 \in Int
        BY Zenon, <1>12
    <3> HIDE DEF x1, x2, x3
    <3>2. 2 * x1 * 0 = 0 /\ 2 * x2 * x3 * 2 = 4 * (x2 * x3) /\ x2 * x3 \in Int
        BY <3>1
    <3>3. QED
        BY <3>2 DEF x1, x2, x3
  <2>6. e = x + y + 0 + 0 + 4 * sa /\ f = x + y + 4 * sa
      BY Zenon, <1>13, <2>2, <2>3, <2>5
  <2> HIDE DEF x, y, e, f, sa
  <2>7. e = f
      BY <2>4, <2>5, <2>6
  <2>8. QED
      BY <2>7 DEF e, f
<1>15. QED
    BY <1>8, <1>14

-----------------------------------------------------------------------------
(* Variables and what they print.                                          *)

\* The formulas of the scripts, evaluated.
LEMMA EvalBasic ==
    ASSUME NEW c, NEW b, NEW fs
    PROVE  /\ Eval(c, b, fs, <<"pe">>) = Energy(c, b)
           /\ Eval(c, b, fs, <<"count">>) = Atoms(b)
           /\ Eval(c, b, fs, <<"a">>) = b.a
           /\ Eval(c, b, fs, <<"area">>) = c.area
           /\ Eval(c, b, fs, <<"vol">>) = c.volume
<1>1. \A kind \in {"pe", "count", "a", "area", "vol"} :
          Eval(c, b, fs, <<kind>>) = Basic(c, b, <<kind>>)
    BY DEF Eval
<1>2. /\ Basic(c, b, <<"pe">>) = Energy(c, b)
      /\ Basic(c, b, <<"count">>) = Atoms(b)
      /\ Basic(c, b, <<"a">>) = b.a
      /\ Basic(c, b, <<"area">>) = c.area
      /\ Basic(c, b, <<"vol">>) = c.volume
    BY DEF Basic
<1>3. QED
    BY <1>1, <1>2

\* What the formulas ask of a box.
LEMMA BasicOf ==
    ASSUME NEW c, NEW b
    PROVE  Basic(c, b, <<"pe">>) = Energy(c, b) /\ Basic(c, b, <<"count">>) = Atoms(b)
BY DEF Basic

\* The energy per atom, and the excess of the cell with a vacancy.
LEMMA EvalPer ==
    ASSUME NEW c, NEW b, NEW fs, fs["natom"] = <<"count">>
    PROVE  Eval(c, b, fs, <<"per", "natom">>) =
               IF b.nan THEN None ELSE (Energy(c, b) \div Atoms(b)) \div 2
<1> DEFINE f == <<"per", "natom">>
<1>1. f[1] = "per" /\ f[2] = "natom"
    OBVIOUS
<1> HIDE DEF f
<1>2. Eval(c, b, fs, f) = IF b.nan THEN None ELSE (Energy(c, b) \div Basic(c, b, fs[f[2]])) \div 2
    BY <1>1 DEF Eval
<1>3. Basic(c, b, fs[f[2]]) = Atoms(b)
    BY <1>1, BasicOf
<1>4. QED
    BY <1>2, <1>3 DEF f

\* The excess energy of a cell that has no vacancy any more.
LEMMA EvalExcess ==
    ASSUME NEW c, NEW b, NEW fs, fs["natom"] = <<"count">>, fs["natom2"] = <<"count">>,
           fs["e_perfect"] = <<"pe">>, fs["e_vacancy"] = <<"pe">>
    PROVE  Eval(c, b, fs, <<"excess", "e_vacancy", "natom2", "natom", "e_perfect">>) =
               IF b.nan THEN None
               ELSE (Energy(c, b) * Atoms(b) - Atoms(b) * Energy(c, b)) \div (2 * Atoms(b))
<1> DEFINE f == <<"excess", "e_vacancy", "natom2", "natom", "e_perfect">>
<1>1. f[1] = "excess" /\ f[2] = "e_vacancy" /\ f[3] = "natom2" /\ f[4] = "natom" /\ f[5] = "e_perfect"
    OBVIOUS
<1> HIDE DEF f
<1>2. f[1] \in {"per", "excess"} /\ f[1] # "per"
    BY <1>1
<1>3. Eval(c, b, fs, f) =
          IF b.nan THEN None
          ELSE (Basic(c, b, fs[f[2]]) * Basic(c, b, fs[f[4]]) - Basic(c, b, fs[f[3]]) * Basic(c, b, fs[f[5]]))
                   \div (2 * Basic(c, b, fs[f[4]]))
    BY Zenon, <1>2 DEF Eval
<1>4. /\ Basic(c, b, fs[f[2]]) = Energy(c, b) /\ Basic(c, b, fs[f[4]]) = Atoms(b)
      /\ Basic(c, b, fs[f[3]]) = Atoms(b) /\ Basic(c, b, fs[f[5]]) = Energy(c, b)
    BY <1>1, BasicOf
<1>5. QED
    BY Zenon, <1>3, <1>4 DEF f

\* The variables of the first q commands after the setup hold their formulas.
FormulasShape(t, q, fs) ==
    \A j \in 1 .. q : Rest(t)[j][1] = "variable" =>
        Rest(t)[j][2] \in DOMAIN fs /\ fs[Rest(t)[j][2]] = Rest(t)[j][3]

\* No script defines a variable twice.
LEMMA VariablesApart ==
    ASSUME NEW t \in Task, NEW i \in 1 .. Len(Rest(t)), NEW j \in 1 .. Len(Rest(t)),
           Rest(t)[i][1] = "variable", Rest(t)[j][1] = "variable", Rest(t)[i][2] = Rest(t)[j][2]
    PROVE  i = j
<1>1. CASE LatticeRun(t)
  <2> DEFINE place == [natom |-> 1, ecoh |-> 2, a |-> 3]
  <2>1. \A l \in 1 .. 5 : LATTICE[l][1] = "variable" => place[LATTICE[l][2]] = l
      BY DEF LATTICE, Variable, Show
  <2>2. Rest(t) = LATTICE /\ Len(LATTICE) = 5
      BY <1>1, RestKinds DEF Rest
  <2> HIDE DEF place
  <2>3. QED
      BY <2>1, <2>2
<1>2. CASE StrainedRun(t)
  <2> DEFINE place == [e |-> 1, v |-> 2]
  <2>1. \A l \in 1 .. 4 : STRAINED[l][1] = "variable" => place[STRAINED[l][2]] = l
      BY DEF STRAINED, Variable, Show
  <2>2. Rest(t) = STRAINED /\ Len(STRAINED) = 4
      BY <1>2, TaskKinds, RestKinds DEF Rest
  <2> HIDE DEF place
  <2>3. QED
      BY <2>1, <2>2
<1>3. CASE VacancyRun(t)
  <2> DEFINE place == [e_perfect |-> 1, natom |-> 2, e_vacancy |-> 6, natom2 |-> 7, evf |-> 10]
  <2>1. \A l \in 1 .. 11 : VACANCY[l][1] = "variable" => place[VACANCY[l][2]] = l
    <3> SUFFICES ASSUME NEW l \in 1 .. 11, VACANCY[l][1] = "variable" PROVE place[VACANCY[l][2]] = l
        OBVIOUS
    <3>1. l \in {1, 2, 3, 4, 5} \/ l \in {6, 7, 8, 9, 10, 11}
        OBVIOUS
    <3>2. CASE l \in {1, 2, 3, 4, 5}
        BY <3>2 DEF VACANCY, Variable, Show
    <3>3. CASE l \in {6, 7, 8, 9, 10, 11}
        BY <3>3 DEF VACANCY, Variable, Show
    <3>4. QED
        BY <3>1, <3>2, <3>3
  <2>2. Rest(t) = VACANCY /\ Len(VACANCY) = 11
      BY <1>3, TaskKinds, RestKinds DEF Rest
  <2> HIDE DEF place
  <2>3. QED
      BY <2>1, <2>2
<1>4. CASE SurfaceRun(t)
  <2> DEFINE place == [e_bulk |-> 1, n_bulk |-> 2, area |-> 3, e_slab |-> 8, n_slab |-> 9]
  <2>1. \A l \in 1 .. 11 : SURFACE[l][1] = "variable" => place[SURFACE[l][2]] = l
    <3> SUFFICES ASSUME NEW l \in 1 .. 11, SURFACE[l][1] = "variable" PROVE place[SURFACE[l][2]] = l
        OBVIOUS
    <3>1. l \in {1, 2, 3, 4, 5, 6} \/ l \in {7, 8, 9, 10, 11}
        OBVIOUS
    <3>2. CASE l \in {1, 2, 3, 4, 5, 6}
        BY <3>2 DEF SURFACE, Variable, Show
    <3>3. CASE l \in {7, 8, 9, 10, 11}
        BY <3>3 DEF SURFACE, Variable, Show
    <3>4. QED
        BY <3>1, <3>2, <3>3
  <2>2. Rest(t) = SURFACE /\ Len(SURFACE) = 11
      BY <1>4, TaskKinds, RestKinds DEF Rest
  <2> HIDE DEF place
  <2>3. QED
      BY <2>1, <2>2
<1>5. QED
    BY <1>1, <1>2, <1>3, <1>4, TaskKinds

\* The variables after a command.
Defined(fs, cmd) ==
    IF cmd[1] # "variable" THEN fs
    ELSE [name \in DOMAIN fs \cup {cmd[2]} |-> IF name = cmd[2] THEN cmd[3] ELSE fs[name]]

\* Reading one more command keeps that.
LEMMA FormulasStep ==
    ASSUME NEW t \in Task, NEW q \in Nat, q < Len(Rest(t)), NEW fs, FormulasShape(t, q, fs),
           NEW cmd, cmd = Rest(t)[q + 1],
           NEW fs2, fs2 = Defined(fs, cmd)
    PROVE  FormulasShape(t, q + 1, fs2)
<1> DEFINE new == [name \in DOMAIN fs \cup {cmd[2]} |-> IF name = cmd[2] THEN cmd[3] ELSE fs[name]]
<1>5. fs2 = IF cmd[1] # "variable" THEN fs ELSE new
    BY Zenon DEF Defined
<1>1. Len(Rest(t)) \in Nat
    BY RestFacts
<1> SUFFICES ASSUME NEW j \in 1 .. q + 1, Rest(t)[j][1] = "variable"
             PROVE  Rest(t)[j][2] \in DOMAIN fs2 /\ fs2[Rest(t)[j][2]] = Rest(t)[j][3]
    BY DEF FormulasShape
<1>2. CASE j = q + 1
  <2>1. fs2 = new /\ Rest(t)[j] = cmd
      BY <1>2, <1>5
  <2>2. new[cmd[2]] = cmd[3] /\ cmd[2] \in DOMAIN new
      OBVIOUS
  <2>3. QED
      BY <2>1, <2>2
<1>3. CASE j # q + 1
  <2>1. j \in 1 .. q /\ j \in 1 .. Len(Rest(t)) /\ q + 1 \in 1 .. Len(Rest(t))
      BY <1>1, <1>3
  <2>2. Rest(t)[j][2] \in DOMAIN fs /\ fs[Rest(t)[j][2]] = Rest(t)[j][3]
      BY <2>1 DEF FormulasShape
  <2>3. CASE cmd[1] # "variable"
      BY <1>5, <2>2, <2>3
  <2>4. CASE cmd[1] = "variable"
    <3>1. Rest(t)[j][2] # cmd[2]
        BY <1>3, <2>1, <2>4, VariablesApart
    <3>2. fs2 = new
        BY <1>5, <2>4
    <3>3. QED
        BY <2>2, <3>1, <3>2
  <2>5. QED
      BY <2>3, <2>4
<1>4. QED
    BY <1>2, <1>3

\* What a slab of one element prints.
SlabPrints(t, nan, name, value) ==
    /\ name = "n_slab" => value = Sites \div 2
    /\ name = "e_bulk" /\ ~nan => value = Slab(t, Sites)
    /\ name = "e_slab" /\ ~nan => value = Slab(t, Sites \div 2)

\* What process k of a property prints under a name.
Prints(t, k, nan, name, value) ==
    /\ value \in Int \cup {None}
    /\ LatticeRun(t) => /\ name \in {"a", "ecoh"}
                        /\ name = "a" => value = t.crystal.a
                        /\ name = "ecoh" => (value = None <=> nan)
                        /\ name = "ecoh" /\ ~nan /\ t.n = 1 => value = t.crystal.ecoh[1] \div 2
    /\ StrainedRun(t) => /\ name \in {"e", "v"}
                         /\ name = "e" => value = IF nan THEN None ELSE Strained(t, k)
                         /\ name = "v" => value = t.crystal.volume
    /\ VacancyRun(t) => (name = "evf" => value = IF nan THEN None ELSE 0)
    /\ SurfaceRun(t) => /\ name = "area" => value = t.crystal.area
                        /\ name = "n_bulk" => value = Sites
                        /\ ~nan => value \in Int
                        /\ t.n = 1 => SlabPrints(t, nan, name, value)

\* The lines of the lattice script.
LEMMA LatticePrints ==
    ASSUME NEW t \in Task, LatticeRun(t), NEW k, NEW b \in Box, Measures(t, k, b),
           b.a = t.crystal.a, b.vacancies = 0, ~b.cut,
           NEW q \in 0 .. 4, LATTICE[q + 1][1] = "print", NEW fs, FormulasShape(t, q, fs)
    PROVE  Prints(t, k, b.nan, LATTICE[q + 1][2],
                  Eval(t.crystal, b, fs, fs[LATTICE[q + 1][2]]))
<1> DEFINE c == t.crystal
           name == LATTICE[q + 1][2]
           value == Eval(c, b, fs, fs[name])
<1>1. ~StrainedRun(t) /\ ~VacancyRun(t) /\ ~SurfaceRun(t) /\ Rest(t) = LATTICE
    BY TaskKinds DEF Rest
<1>2. q = 3 \/ q = 4
    BY DEF LATTICE, Variable
<1>3. fs["natom"] = <<"count">> /\ fs["ecoh"] = <<"per", "natom">> /\ fs["a"] = <<"a">>
  <2>1. /\ LATTICE[1] = <<"variable", "natom", <<"count">>>>
        /\ LATTICE[2] = <<"variable", "ecoh", <<"per", "natom">>>>
        /\ LATTICE[3] = <<"variable", "a", <<"a">>>>
      BY DEF LATTICE, Variable
  <2>2. 1 \in 1 .. q /\ 2 \in 1 .. q /\ 3 \in 1 .. q
      BY <1>2
  <2>3. QED
      BY <1>1, <2>1, <2>2 DEF FormulasShape
<1>4. Sites \in Int /\ Sites > 1 /\ Atoms(b) = Sites /\ c.a \in Int /\ c.ecoh[1] \in Int
  <2>1. c.ecoh \in Seq(Int) /\ t.n <= Len(c.ecoh) /\ t.n >= 1 /\ t.n \in Nat /\ c.a \in Int
      BY CrystalNumbers, TaskTypes
  <2>2. c.ecoh[1] \in Int
      BY <2>1
  <2>3. QED
      BY <2>1, <2>2, SitesAssumption DEF Measures
<1>5. b.nan \in BOOLEAN /\ b.a \in Int
    BY DEF Box
<1>6. None \notin Int
    BY NoneAssumption
<1>7. CASE q = 3
  <2>1. name = "a"
      BY <1>7 DEF LATTICE, Show, Variable
  <2>2. value = c.a
      BY <1>3, <2>1, EvalBasic
  <2>3. QED
      BY <1>1, <1>4, <2>1, <2>2 DEF Prints
<1>8. CASE q = 4
  <2>1. name = "ecoh"
      BY <1>8 DEF LATTICE, Show, Variable
  <2>2. value = IF b.nan THEN None ELSE (Energy(c, b) \div Sites) \div 2
      BY <1>3, <1>4, <2>1, EvalPer
  <2>3. CASE b.nan
      BY <1>1, <2>1, <2>2, <2>3 DEF Prints
  <2>4. CASE ~b.nan
    <3>1. Energy(c, b) \in Int /\ (t.n = 1 => Energy(c, b) = Sites * c.ecoh[1])
        BY <2>4 DEF Measures
    <3>2. (Energy(c, b) \div Sites) \div 2 \in Int
        BY <1>4, <3>1
    <3>3. (Sites * c.ecoh[1]) \div Sites = c.ecoh[1]
        BY <1>4
    <3>4. value \in Int /\ (t.n = 1 => value = c.ecoh[1] \div 2)
        BY <2>2, <2>4, <3>1, <3>2, <3>3
    <3>5. value # None
        BY <1>6, <3>4
    <3>6. QED
        BY Zenon, <1>1, <2>1, <2>4, <3>4, <3>5 DEF Prints
  <2>5. QED
      BY <2>3, <2>4
<1>9. QED
    BY <1>2, <1>7, <1>8

\* The lines of a strained cell.
LEMMA StrainedPrints ==
    ASSUME NEW t \in Task, StrainedRun(t), NEW k, NEW b \in Box, Measures(t, k, b),
           NEW q \in 0 .. 3, STRAINED[q + 1][1] = "print", NEW fs, FormulasShape(t, q, fs)
    PROVE  Prints(t, k, b.nan, STRAINED[q + 1][2],
                  Eval(t.crystal, b, fs, fs[STRAINED[q + 1][2]]))
<1> DEFINE c == t.crystal
           name == STRAINED[q + 1][2]
           value == Eval(c, b, fs, fs[name])
<1>1. ~LatticeRun(t) /\ ~VacancyRun(t) /\ ~SurfaceRun(t) /\ Rest(t) = STRAINED
    BY TaskKinds DEF Rest
<1>2. q = 2 \/ q = 3
    BY DEF STRAINED, Variable
<1>3. fs["e"] = <<"pe">> /\ fs["v"] = <<"vol">>
  <2>1. STRAINED[1] = <<"variable", "e", <<"pe">>>> /\ STRAINED[2] = <<"variable", "v", <<"vol">>>>
      BY DEF STRAINED, Variable
  <2>2. 1 \in 1 .. q /\ 2 \in 1 .. q
      BY <1>2
  <2>3. QED
      BY <1>1, <2>1, <2>2 DEF FormulasShape
<1>4. CASE q = 2
  <2>1. name = "e"
      BY <1>4 DEF STRAINED, Show, Variable
  <2>2. value = Energy(c, b)
      BY <1>3, <2>1, EvalBasic
  <2>3. value \in Int \cup {None} /\ value = IF b.nan THEN None ELSE Strained(t, k)
      BY <2>2 DEF Measures
  <2>4. QED
      BY <1>1, <2>1, <2>3 DEF Prints
<1>5. CASE q = 3
  <2>1. name = "v"
      BY <1>5 DEF STRAINED, Show, Variable
  <2>2. value = c.volume
      BY <1>3, <2>1, EvalBasic
  <2>3. c.volume \in Int
      BY CrystalNumbers
  <2>4. QED
      BY <1>1, <2>1, <2>2, <2>3 DEF Prints
<1>6. QED
    BY <1>2, <1>4, <1>5

\* The lines of the vacancy script: v_natom is counted after the atom is gone.
LEMMA VacancyPrints ==
    ASSUME NEW t \in Task, VacancyRun(t), NEW k, NEW b \in Box, Measures(t, k, b),
           NEW q \in 0 .. 10, b.vacancies = IF q >= 5 THEN 1 ELSE 0, ~b.cut,
           VACANCY[q + 1][1] = "print", NEW fs, FormulasShape(t, q, fs)
    PROVE  Prints(t, k, b.nan, VACANCY[q + 1][2],
                  Eval(t.crystal, b, fs, fs[VACANCY[q + 1][2]]))
<1> DEFINE c == t.crystal
           name == VACANCY[q + 1][2]
           value == Eval(c, b, fs, fs[name])
<1>1. ~LatticeRun(t) /\ ~StrainedRun(t) /\ ~SurfaceRun(t) /\ Rest(t) = VACANCY
    BY TaskKinds DEF Rest
<1>2. q = 2 \/ q = 3 \/ q = 7 \/ q = 8 \/ q = 10
  <2>1. q \in {0, 1, 4, 5, 6, 9} => VACANCY[q + 1][1] # "print"
      BY DEF VACANCY, Variable
  <2>2. QED
      BY <2>1
<1>3. /\ VACANCY[1] = <<"variable", "e_perfect", <<"pe">>>>
      /\ VACANCY[2] = <<"variable", "natom", <<"count">>>>
      /\ VACANCY[6] = <<"variable", "e_vacancy", <<"pe">>>>
      /\ VACANCY[7] = <<"variable", "natom2", <<"count">>>>
    BY DEF VACANCY, Variable
<1>4. VACANCY[10] = <<"variable", "evf", <<"excess", "e_vacancy", "natom2", "natom", "e_perfect">>>>
    BY DEF VACANCY, Variable
<1>5. fs["e_perfect"] = <<"pe">> /\ fs["natom"] = <<"count">>
  <2>1. 1 \in 1 .. q /\ 2 \in 1 .. q
      BY <1>2
  <2>2. QED
      BY <1>1, <1>3, <2>1 DEF FormulasShape
<1>6. q >= 7 => fs["e_vacancy"] = <<"pe">> /\ fs["natom2"] = <<"count">>
  <2>1. q >= 7 => 6 \in 1 .. q /\ 7 \in 1 .. q
      OBVIOUS
  <2>2. QED
      BY <1>1, <1>3, <2>1 DEF FormulasShape
<1>7. q = 10 => fs["evf"] = <<"excess", "e_vacancy", "natom2", "natom", "e_perfect">>
  <2>1. q = 10 => 10 \in 1 .. q
      OBVIOUS
  <2>2. QED
      BY <1>1, <1>4, <2>1 DEF FormulasShape
<1>8. Sites \in Int /\ Sites > 1 /\ Atoms(b) \in Int /\ Atoms(b) = Sites - b.vacancies
    BY SitesAssumption DEF Measures
<1>9. Atoms(b) >= 1
    BY <1>8
<1>10. Energy(c, b) \in Int \cup {None} /\ (~b.nan => Energy(c, b) \in Int)
    BY DEF Measures
<1>11. CASE q = 2 \/ q = 7
  <2>1. fs[name] = <<"pe">> /\ name # "evf"
    <3>1. VACANCY[3] = <<"print", "e_perfect">> /\ VACANCY[8] = <<"print", "e_vacancy">>
        BY DEF VACANCY, Show
    <3>2. QED
        BY <1>5, <1>6, <1>11, <3>1
  <2>2. value = Energy(c, b)
      BY <2>1, EvalBasic
  <2>3. QED
      BY <1>1, <1>10, <2>1, <2>2 DEF Prints
<1>12. CASE q = 3 \/ q = 8
  <2>1. fs[name] = <<"count">> /\ name # "evf"
    <3>1. VACANCY[4] = <<"print", "natom">> /\ VACANCY[9] = <<"print", "natom2">>
        BY DEF VACANCY, Show
    <3>2. QED
        BY <1>5, <1>6, <1>12, <3>1
  <2>2. value = Atoms(b)
      BY <2>1, EvalBasic
  <2>3. QED
      BY <1>1, <1>8, <2>1, <2>2 DEF Prints
<1>13. CASE q = 10
  <2>1. name = "evf"
    <3>1. VACANCY[11] = <<"print", "evf">>
        BY DEF VACANCY, Show
    <3>2. QED
        BY <1>13, <3>1
  <2>2. value = IF b.nan THEN None
                ELSE (Energy(c, b) * Atoms(b) - Atoms(b) * Energy(c, b)) \div (2 * Atoms(b))
      BY <1>5, <1>6, <1>7, <1>13, <2>1, EvalExcess
  <2>3. CASE b.nan
      BY <1>1, <2>2, <2>3 DEF Prints
  <2>4. CASE ~b.nan
    <3>1. Energy(c, b) \in Int /\ Atoms(b) \in Int
        BY <1>8, <1>10, <2>4
    <3>2. Energy(c, b) * Atoms(b) - Atoms(b) * Energy(c, b) = 0
        BY <3>1
    <3>3. 0 \div (2 * Atoms(b)) = 0
        BY <1>8, <1>9
    <3>4. value = 0
        BY <2>2, <2>4, <3>2, <3>3
    <3>5. QED
        BY <1>1, <2>4, <3>4 DEF Prints
  <2>5. QED
      BY <2>3, <2>4
<1>14. QED
    BY <1>2, <1>11, <1>12, <1>13

\* The lines of the surface script.
LEMMA SurfacePrints ==
    ASSUME NEW t \in Task, SurfaceRun(t), NEW k, NEW b \in Box, Measures(t, k, b), SlabMeasures(t, b),
           NEW q \in 0 .. 10, b.vacancies = 0, b.cut <=> q >= 7,
           SURFACE[q + 1][1] = "print", NEW fs, FormulasShape(t, q, fs)
    PROVE  Prints(t, k, b.nan, SURFACE[q + 1][2],
                  Eval(t.crystal, b, fs, fs[SURFACE[q + 1][2]]))
<1> DEFINE c == t.crystal
           name == SURFACE[q + 1][2]
           value == Eval(c, b, fs, fs[name])
<1>1. ~LatticeRun(t) /\ ~StrainedRun(t) /\ ~VacancyRun(t) /\ Rest(t) = SURFACE
    BY TaskKinds DEF Rest
<1>2. q = 3 \/ q = 4 \/ q = 5 \/ q = 9 \/ q = 10
  <2>1. q \in {0, 1, 2, 6, 7, 8} => SURFACE[q + 1][1] # "print"
      BY DEF SURFACE, Variable
  <2>2. QED
      BY <2>1
<1>3. /\ SURFACE[1] = <<"variable", "e_bulk", <<"pe">>>>
      /\ SURFACE[2] = <<"variable", "n_bulk", <<"count">>>>
      /\ SURFACE[3] = <<"variable", "area", <<"area">>>>
    BY DEF SURFACE, Variable
<1>4. /\ SURFACE[8] = <<"variable", "e_slab", <<"pe">>>>
      /\ SURFACE[9] = <<"variable", "n_slab", <<"count">>>>
    BY DEF SURFACE, Variable
<1>5. /\ SURFACE[4] = <<"print", "e_bulk">> /\ SURFACE[5] = <<"print", "n_bulk">>
      /\ SURFACE[6] = <<"print", "area">>
    BY DEF SURFACE, Show
<1>6. SURFACE[10] = <<"print", "e_slab">> /\ SURFACE[11] = <<"print", "n_slab">>
    BY DEF SURFACE, Show
<1>7. fs["e_bulk"] = <<"pe">> /\ fs["n_bulk"] = <<"count">> /\ fs["area"] = <<"area">>
  <2>1. 1 \in 1 .. q /\ 2 \in 1 .. q /\ 3 \in 1 .. q
      BY <1>2
  <2>2. QED
      BY <1>1, <1>3, <2>1 DEF FormulasShape
<1>8. q >= 9 => fs["e_slab"] = <<"pe">> /\ fs["n_slab"] = <<"count">>
  <2>1. q >= 9 => 8 \in 1 .. q /\ 9 \in 1 .. q
      OBVIOUS
  <2>2. QED
      BY <1>1, <1>4, <2>1 DEF FormulasShape
<1>9. Sites \in Int /\ Atoms(b) \in Int /\ (q < 7 => Atoms(b) = Sites)
  <2>1. ~b.cut => Atoms(b) = Sites - b.vacancies
      BY DEF Measures
  <2>2. QED
      BY <2>1, SitesAssumption DEF Measures
<1>10. Energy(c, b) \in Int \cup {None} /\ (~b.nan => Energy(c, b) \in Int)
    BY DEF Measures
<1>11. ASSUME t.n = 1
       PROVE  /\ q >= 7 => Atoms(b) = Sites \div 2
              /\ q < 7 /\ ~b.nan => Energy(c, b) = Slab(t, Sites)
              /\ q >= 7 /\ ~b.nan => Energy(c, b) = Slab(t, Sites \div 2)
  <2>1. CASE q >= 7
    <3>1. b.cut
        BY <2>1
    <3>2. Atoms(b) = Sites \div 2 /\ (~b.nan => Energy(c, b) = Slab(t, Sites \div 2))
        BY Zenon, <1>11, <3>1 DEF SlabMeasures
    <3>3. QED
        BY <2>1, <3>2
  <2>2. CASE q < 7
    <3>1. ~b.cut
        BY <2>2
    <3>2. ~b.nan => Energy(c, b) = Slab(t, Sites)
        BY Zenon, <1>11, <3>1 DEF SlabMeasures
    <3>3. QED
        BY <2>2, <3>2
  <2>3. QED
      BY <2>1, <2>2
<1>12. CASE q = 3 \/ q = 9
  <2>1. /\ fs[name] = <<"pe">> /\ name # "n_bulk" /\ name # "area" /\ name # "n_slab"
        /\ name = "e_bulk" => q < 7
        /\ name = "e_slab" => q >= 7
      BY <1>5, <1>6, <1>7, <1>8, <1>12
  <2>2. value = Energy(c, b)
      BY <2>1, EvalBasic
  <2>3. t.n = 1 => SlabPrints(t, b.nan, name, value)
      BY Zenon, <1>11, <2>1, <2>2 DEF SlabPrints
  <2>4. value \in Int \cup {None} /\ (~b.nan => value \in Int)
      BY <1>10, <2>2
  <2> HIDE DEF name, value
  <2>5. Prints(t, k, b.nan, name, value)
      BY Zenon, <1>1, <2>1, <2>3, <2>4 DEF Prints
  <2>6. QED
      BY Zenon, <2>5 DEF name, value
<1>13. CASE q = 4
  <2>1. fs[name] = <<"count">> /\ name = "n_bulk"
      BY <1>5, <1>7, <1>13
  <2>2. value = Sites
      BY <1>9, <1>13, <2>1, EvalBasic
  <2>3. SlabPrints(t, b.nan, name, value)
      BY <2>1 DEF SlabPrints
  <2>4. value \in Int \cup {None} /\ value \in Int /\ name # "area"
      BY <1>9, <2>1, <2>2
  <2> HIDE DEF name, value
  <2>5. Prints(t, k, b.nan, name, value)
      BY Zenon, <1>1, <2>1, <2>2, <2>3, <2>4 DEF Prints
  <2>6. QED
      BY Zenon, <2>5 DEF name, value
<1>14. CASE q = 5
  <2>1. fs[name] = <<"area">> /\ name = "area"
      BY <1>5, <1>7, <1>14
  <2>2. value = c.area /\ c.area \in Int
      BY <2>1, EvalBasic, CrystalNumbers
  <2>3. SlabPrints(t, b.nan, name, value)
      BY <2>1 DEF SlabPrints
  <2>4. value \in Int \cup {None} /\ value \in Int /\ name # "n_bulk"
      BY <2>1, <2>2
  <2> HIDE DEF name, value
  <2>5. Prints(t, k, b.nan, name, value)
      BY Zenon, <1>1, <2>1, <2>2, <2>3, <2>4 DEF Prints
  <2>6. QED
      BY Zenon, <2>5 DEF name, value
<1>15. CASE q = 10
  <2>1. fs[name] = <<"count">> /\ name # "n_bulk" /\ name # "area" /\ name # "e_bulk" /\ name # "e_slab"
      BY <1>6, <1>8, <1>15
  <2>2. value = Atoms(b)
      BY <2>1, EvalBasic
  <2>3. t.n = 1 => SlabPrints(t, b.nan, name, value)
    <3>1. t.n = 1 => value = Sites \div 2
        BY <1>15, <1>11, <2>2
    <3>2. QED
        BY Zenon, <2>1, <3>1 DEF SlabPrints
  <2>4. value \in Int \cup {None} /\ value \in Int
      BY <1>9, <2>2
  <2> HIDE DEF name, value
  <2>5. Prints(t, k, b.nan, name, value)
      BY Zenon, <1>1, <2>1, <2>3, <2>4 DEF Prints
  <2>6. QED
      BY Zenon, <2>5 DEF name, value
<1>16. QED
    BY <1>2, <1>12, <1>13, <1>14, <1>15

\* The rest of each kind of script.
LEMMA RestOf ==
    ASSUME NEW t \in Task
    PROVE  /\ LatticeRun(t) => Rest(t) = LATTICE /\ Len(Rest(t)) = 5
           /\ StrainedRun(t) => Rest(t) = STRAINED /\ Len(Rest(t)) = 4
           /\ VacancyRun(t) => Rest(t) = VACANCY /\ Len(Rest(t)) = 11
           /\ SurfaceRun(t) => Rest(t) = SURFACE /\ Len(Rest(t)) = 11
<1>1. Len(LATTICE) = 5 /\ Len(STRAINED) = 4 /\ Len(VACANCY) = 11 /\ Len(SURFACE) = 11
    BY Zenon, RestKinds
<1>2. /\ LatticeRun(t) => Rest(t) = LATTICE
      /\ StrainedRun(t) => Rest(t) = STRAINED
      /\ VacancyRun(t) => Rest(t) = VACANCY
      /\ SurfaceRun(t) => Rest(t) = SURFACE
    BY Zenon, TaskKinds DEF Rest
<1>3. QED
    BY Zenon, <1>1, <1>2

\* Every line printed is what Prints says of it.
LEMMA LinePrinted ==
    ASSUME NEW t \in Task, NEW k \in 1 .. Runs(t.property), NEW s, ScriptShape(t, k, s),
           NEW q \in Nat, q < Len(Rest(t)), NEW b, BoxShape(t, k, s, Len(Setup(t, k)) + q, b),
           SlabShape(t, Len(Setup(t, k)) + q, b),
           NEW fs, FormulasShape(t, q, fs), Rest(t)[q + 1][1] = "print"
    PROVE  Prints(t, k, b.nan, Rest(t)[q + 1][2],
                  Eval(t.crystal, b, fs, fs[Rest(t)[q + 1][2]]))
<1> DEFINE p == Len(Setup(t, k)) + q
<1>1. Len(Setup(t, k)) \in Nat
    BY DEF ScriptShape
<1>2. p \in Nat /\ p >= Len(Setup(t, k)) /\ p - Len(Setup(t, k)) = q
    BY <1>1
<1>3. Measures(t, k, b)
  <2>1. BoxShape(t, k, s, p, b)
      OBVIOUS
  <2> HIDE DEF p
  <2>2. QED
      BY <1>2, <2>1, BoxMeasures
<1>4. SlabMeasures(t, b)
  <2>1. BoxShape(t, k, s, p, b) /\ SlabShape(t, p, b)
      OBVIOUS
  <2> HIDE DEF p
  <2>2. QED
      BY <1>2, <2>1, SlabEnergy
<1>5. /\ b \in Box
      /\ LatticeRun(t) => b.a = t.crystal.a
      /\ b.vacancies = IF VacancyRun(t) /\ q >= 5 THEN 1 ELSE 0
      /\ b.cut <=> SurfaceRun(t) /\ q >= 7
  <2>1. b \in Box /\ PlaceShape(t, k, p, b)
      BY DEF BoxShape
  <2> HIDE DEF p
  <2>2. QED
      BY <1>2, <2>1 DEF PlaceShape
<1>6. CASE LatticeRun(t)
  <2>1. ~VacancyRun(t) /\ ~SurfaceRun(t) /\ Rest(t) = LATTICE /\ q \in 0 .. 4
      BY <1>6, TaskKinds, RestOf
  <2>2. QED
      BY <1>3, <1>5, <1>6, <2>1, LatticePrints
<1>7. CASE StrainedRun(t)
  <2>1. Rest(t) = STRAINED /\ q \in 0 .. 3
      BY <1>7, TaskKinds, RestOf
  <2>2. QED
      BY <1>3, <1>5, <1>7, <2>1, StrainedPrints
<1>8. CASE VacancyRun(t)
  <2>1. ~SurfaceRun(t) /\ Rest(t) = VACANCY /\ q \in 0 .. 10
    <3>1. ~SurfaceRun(t) /\ Rest(t) = VACANCY /\ Len(Rest(t)) = 11
        BY Zenon, <1>8, TaskKinds, RestOf
    <3>2. QED
        BY <3>1
  <2>2. QED
      BY <1>3, <1>5, <1>8, <2>1, VacancyPrints
<1>9. CASE SurfaceRun(t)
  <2>1. ~VacancyRun(t) /\ Rest(t) = SURFACE /\ q \in 0 .. 10
    <3>1. ~VacancyRun(t) /\ Rest(t) = SURFACE /\ Len(Rest(t)) = 11
        BY Zenon, <1>9, TaskKinds, RestOf
    <3>2. QED
        BY <3>1
  <2>2. QED
      BY <1>3, <1>5, <1>9, <1>4, <2>1, SurfacePrints
<1>10. QED
    BY <1>6, <1>7, <1>8, <1>9, TaskKinds

-----------------------------------------------------------------------------
(* Lines and the output parsed from them.                                  *)

\* The lines task t may print.
Line(t) == {Rest(t)[j][2] : j \in 1 .. Len(Rest(t))} \X (Int \cup {None})

\* The lines printed when q commands after the setup are read.
LinesShape(t, k, q, nan, ls) ==
    /\ ls \in Seq(Line(t))
    /\ \A l \in 1 .. Len(ls) : Prints(t, k, nan, ls[l][1], ls[l][2])
    /\ \A j \in 1 .. q : Rest(t)[j][1] = "print" => \E l \in 1 .. Len(ls) : ls[l][1] = Rest(t)[j][2]

\* What is parsed from such lines.
OutputShape(t, k, nan, out) ==
    /\ \A name \in DOMAIN out : out[name] \in Int /\ Prints(t, k, nan, name, out[name])
    /\ LatticeRun(t) => "a" \in DOMAIN out /\ (~nan => "ecoh" \in DOMAIN out)
    /\ StrainedRun(t) => "v" \in DOMAIN out /\ (~nan => "e" \in DOMAIN out)
    /\ VacancyRun(t) => (~nan => "evf" \in DOMAIN out)
    /\ SurfaceRun(t) => (~nan => {"e_bulk", "n_bulk", "area", "e_slab", "n_slab"} \subseteq DOMAIN out)

\* One more command adds the line it prints, or none.
LEMMA LinesStep ==
    ASSUME NEW t \in Task, NEW k, NEW q \in Nat, q < Len(Rest(t)), NEW nan, NEW ls, LinesShape(t, k, q, nan, ls),
           NEW value, Rest(t)[q + 1][1] = "print" => Prints(t, k, nan, Rest(t)[q + 1][2], value)
    PROVE  LinesShape(t, k, q + 1, nan,
               IF Rest(t)[q + 1][1] # "print" THEN ls ELSE Append(ls, <<Rest(t)[q + 1][2], value>>))
<1> DEFINE cmd == Rest(t)[q + 1]
           new == Append(ls, <<cmd[2], value>>)
<1>1. /\ ls \in Seq(Line(t))
      /\ \A l \in 1 .. Len(ls) : Prints(t, k, nan, ls[l][1], ls[l][2])
      /\ \A j \in 1 .. q : Rest(t)[j][1] = "print" => \E l \in 1 .. Len(ls) : ls[l][1] = Rest(t)[j][2]
    BY DEF LinesShape
<1>2. CASE cmd[1] # "print"
  <2>1. \A j \in 1 .. q + 1 : Rest(t)[j][1] = "print" => j \in 1 .. q
      BY <1>2
  <2>2. \A j \in 1 .. q + 1 : Rest(t)[j][1] = "print" => \E l \in 1 .. Len(ls) : ls[l][1] = Rest(t)[j][2]
      BY Zenon, <1>1, <2>1
  <2>3. LinesShape(t, k, q + 1, nan, ls)
      BY Zenon, <1>1, <2>2 DEF LinesShape
  <2>4. QED
      BY Zenon, <1>2, <2>3
<1>3. CASE cmd[1] = "print"
  <2>1. Prints(t, k, nan, cmd[2], value)
      BY <1>3
  <2>2. <<cmd[2], value>> \in Line(t)
    <3>1. value \in Int \cup {None}
        BY Zenon, <2>1 DEF Prints
    <3>2. Len(Rest(t)) \in Nat
        BY RestFacts
    <3>3. q + 1 \in 1 .. Len(Rest(t))
        BY <3>2
    <3>4. QED
        BY <3>1, <3>3 DEF Line
  <2> HIDE DEF cmd
  <2> DEFINE L == Line(t)
             final == <<cmd[2], value>>
  <2>3. ls \in Seq(L) /\ final \in L
      BY <1>1, <2>2
  <2> HIDE DEF L, final
  <2>4. /\ Append(ls, final) \in Seq(L) /\ Len(Append(ls, final)) = Len(ls) + 1 /\ Len(ls) \in Nat
        /\ \A l \in 1 .. Len(ls) : Append(ls, final)[l] = ls[l]
        /\ Append(ls, final)[Len(ls) + 1] = final
      BY <2>3
  <2>5. new = Append(ls, final) /\ final[1] = cmd[2] /\ final[2] = value
      BY DEF final
  <2> HIDE DEF new
  <2>6. /\ new \in Seq(L) /\ Len(new) = Len(ls) + 1 /\ Len(ls) \in Nat
        /\ \A l \in 1 .. Len(ls) : new[l] = ls[l]
        /\ new[Len(ls) + 1] = final
      BY Zenon, <2>4, <2>5
  <2>7. ASSUME NEW l \in 1 .. Len(new) PROVE Prints(t, k, nan, new[l][1], new[l][2])
    <3>1. CASE l = Len(ls) + 1
      <4>1. new[l] = final
          BY <2>6, <3>1
      <4>2. QED
          BY <2>1, <2>5, <4>1
    <3>2. CASE l # Len(ls) + 1
      <4>1. l \in 1 .. Len(ls) /\ new[l] = ls[l]
          BY <2>6, <3>2
      <4>2. QED
          BY Zenon, <1>1, <4>1
    <3>3. QED
        BY <3>1, <3>2
  <2>8. ASSUME NEW j \in 1 .. q + 1, Rest(t)[j][1] = "print"
        PROVE  \E l \in 1 .. Len(new) : new[l][1] = Rest(t)[j][2]
    <3>1. CASE j = q + 1
      <4>1. Len(ls) + 1 \in 1 .. Len(new) /\ new[Len(ls) + 1] = final
          BY <2>6
      <4>2. final[1] = Rest(t)[j][2]
          BY <2>5, <3>1 DEF cmd
      <4>3. QED
          BY Zenon, <4>1, <4>2
    <3>2. CASE j # q + 1
      <4>1. j \in 1 .. q
          BY <3>2
      <4>2. PICK l \in 1 .. Len(ls) : ls[l][1] = Rest(t)[j][2]
          BY Zenon, <1>1, <2>8, <4>1
      <4>3. l \in 1 .. Len(new) /\ new[l] = ls[l]
          BY <2>6
      <4>4. QED
          BY Zenon, <4>2, <4>3
    <3>3. QED
        BY <3>1, <3>2
  <2>9. LinesShape(t, k, q + 1, nan, new)
      BY Zenon, <2>6, <2>7, <2>8 DEF LinesShape, L
  <2>10. QED
      BY Zenon, <1>3, <2>9 DEF cmd, new
<1>4. QED
    BY Zenon, <1>2, <1>3

\* The energy of a strained cell is an integer.
LEMMA StrainedInt ==
    ASSUME NEW t \in Task, NEW k \in 1 .. Runs(t.property)
    PROVE  Strained(t, k) \in Int
<1> DEFINE c == t.crystal
           x == Strains[k][1]
           y == Strains[k][2]
           g == Strains[k][3]
<1>1. k \in 1 .. 7
    BY TaskKinds
<1>2. x \in Int /\ y \in Int /\ g \in Int
    BY <1>1, StrainRange
<1>3. /\ c.volume \in Int /\ c.stress \in Int /\ c.C11 \in Int /\ c.C12 \in Int /\ c.C44 \in Int
      /\ c.guess \in Int /\ c.a \in Int
    BY Zenon, CrystalNumbers
<1>4. Sites \in Int /\ c.ecoh[1] \in Int
  <2>1. c.ecoh \in Seq(Int) /\ t.n <= Len(c.ecoh) /\ t.n >= 1 /\ t.n \in Nat
      BY CrystalNumbers, TaskTypes
  <2>2. QED
      BY <2>1, SitesAssumption
<1>5. Strained(t, k) = Sites * c.ecoh[1] + Sites * (c.guess - c.a) * (c.guess - c.a) + Quadratic(c, x, y, g)
    BY Zenon DEF Strained, Quadratic
<1> HIDE DEF c, x, y, g
<1>6. Quadratic(c, x, y, g) \in Int
    BY <1>2, <1>3, QuadraticFacts
<1>7. Sites * c.ecoh[1] \in Int
    BY <1>4
<1> DEFINE d == c.guess - c.a
<1>8. d \in Int
    BY <1>3
<1> HIDE DEF d
<1>9. Sites * d * d \in Int
    BY <1>4, <1>8
<1>10. QED
    BY <1>5, <1>6, <1>7, <1>9 DEF d

\* A set of places in a sequence has a last one.
LEMMA GreatestOf ==
    ASSUME NEW n \in Nat, NEW T, T \subseteq 1 .. n, T # {}
    PROVE  \E m \in T : \A j \in T : j <= m
<1> DEFINE R == {n - j : j \in T}
<1>1. R \subseteq Nat /\ R # {}
  <2>1. \A j \in T : j \in Int /\ j <= n
      OBVIOUS
  <2>2. \A j \in T : n - j \in Nat
      BY <2>1
  <2>3. PICK j \in T : TRUE
      OBVIOUS
  <2>4. n - j \in R
      OBVIOUS
  <2>5. QED
      BY <2>2, <2>4
<1> HIDE DEF R
<1>2. PICK r \in R : \A j \in R : r <= j
    BY <1>1, LeastNat
<1>3. PICK m \in T : r = n - m
    BY DEF R
<1>4. ASSUME NEW j \in T PROVE j <= m
  <2>1. n - j \in R
      BY DEF R
  <2>2. n - m <= n - j
      BY <1>2, <1>3, <2>1
  <2>3. m \in Int /\ j \in Int
      OBVIOUS
  <2>4. QED
      BY <2>2, <2>3
<1>5. QED
    BY <1>4

\* The output parsed from the lines of a script that ended.
LEMMA Parsed ==
    ASSUME NEW t \in Task, NEW k \in 1 .. Runs(t.property), NEW nan \in BOOLEAN, NEW ls, LinesShape(t, k, Len(Rest(t)), nan, ls)
    PROVE  OutputShape(t, k, nan, parse_lammps_output(ls))
<1> DEFINE out == parse_lammps_output(ls)
           of(name) == {l \in DOMAIN ls : ls[l][1] = name /\ ls[l][2] # None}
           Named == {ls[l][1] : l \in {j \in DOMAIN ls : ls[j][2] # None}}
           ending(name) == CHOOSE l \in of(name) : \A j \in of(name) : j <= l
<1>1. /\ ls \in Seq(Line(t))
      /\ \A l \in 1 .. Len(ls) : Prints(t, k, nan, ls[l][1], ls[l][2])
      /\ \A j \in 1 .. Len(Rest(t)) : Rest(t)[j][1] = "print" => \E l \in 1 .. Len(ls) : ls[l][1] = Rest(t)[j][2]
    BY DEF LinesShape
<1>2. Len(ls) \in Nat /\ DOMAIN ls = 1 .. Len(ls)
  <2> DEFINE L == Line(t)
  <2>1. ls \in Seq(L)
      BY <1>1
  <2> HIDE DEF L
  <2>2. QED
      BY <2>1
<1>3. DOMAIN out = Named /\ \A name \in Named : out[name] = ls[ending(name)][2]
    BY Zenon DEF parse_lammps_output
<1>4. ASSUME NEW name \in Named
      PROVE  out[name] \in Int /\ Prints(t, k, nan, name, out[name])
  <2>1. PICK l \in DOMAIN ls : ls[l][1] = name /\ ls[l][2] # None
      OBVIOUS
  <2>2. l \in of(name)
      BY <2>1
  <2>3. of(name) \subseteq 1 .. Len(ls)
      BY <1>2
  <2> DEFINE T == of(name)
  <2>4. T \subseteq 1 .. Len(ls) /\ T # {}
      BY <2>2, <2>3
  <2> HIDE DEF T
  <2>5. \E m \in T : \A j \in T : j <= m
      BY <1>2, <2>4, GreatestOf
  <2>6. ending(name) \in of(name)
      BY Zenon, <2>5 DEF T
  <2> DEFINE m == ending(name)
  <2> HIDE DEF m
  <2>7. m \in DOMAIN ls /\ ls[m][1] = name /\ ls[m][2] # None
      BY Zenon, <2>6 DEF m
  <2>8. out[name] = ls[m][2]
      BY Zenon, <1>3 DEF m
  <2>9. Prints(t, k, nan, name, ls[m][2])
      BY <1>1, <1>2, <2>7
  <2>10. ls[m][2] \in Int
      BY <2>7, <2>9 DEF Prints
  <2>11. QED
      BY Zenon, <2>8, <2>9, <2>10
<1> HIDE DEF out, Named
<1>5. None \notin Int
    BY NoneAssumption
<1>6. ASSUME NEW name, \E j \in 1 .. Len(Rest(t)) : Rest(t)[j] = <<"print", name>>,
             \A value : Prints(t, k, nan, name, value) => value \in Int
      PROVE  name \in DOMAIN out
  <2>1. PICK j \in 1 .. Len(Rest(t)) : Rest(t)[j] = <<"print", name>>
      BY <1>6
  <2>2. Rest(t)[j][1] = "print" /\ Rest(t)[j][2] = name
      BY <2>1
  <2>3. PICK l \in 1 .. Len(ls) : ls[l][1] = name
      BY Zenon, <1>1, <2>2
  <2>4. ls[l][2] \in Int
      BY Zenon, <1>1, <1>6, <2>3
  <2>5. ls[l][2] # None
      BY <1>5, <2>4
  <2>6. l \in DOMAIN ls
      BY <1>2
  <2>7. name \in Named
      BY Zenon, <2>3, <2>5, <2>6 DEF Named
  <2>8. QED
      BY <1>3, <2>7
<1>7. ASSUME LatticeRun(t) PROVE "a" \in DOMAIN out /\ (~nan => "ecoh" \in DOMAIN out)
  <2>1. Rest(t)[4] = <<"print", "a">> /\ Rest(t)[5] = <<"print", "ecoh">>
      BY <1>7, RestOf DEF LATTICE, Show
  <2>2. 4 \in 1 .. Len(Rest(t)) /\ 5 \in 1 .. Len(Rest(t))
    <3>1. Len(Rest(t)) = 5
        BY Zenon, <1>7, RestOf
    <3>2. QED
        BY <3>1
  <2>3. \A value : Prints(t, k, nan, "a", value) => value \in Int
      BY <1>7, CrystalNumbers DEF Prints
  <2>4. "a" \in DOMAIN out
      BY Zenon, <1>6, <2>1, <2>2, <2>3
  <2>5. ASSUME ~nan PROVE \A value : Prints(t, k, nan, "ecoh", value) => value \in Int
      BY <1>7, <2>5 DEF Prints
  <2>6. ~nan => "ecoh" \in DOMAIN out
      BY Zenon, <1>6, <2>1, <2>2, <2>5
  <2>7. QED
      BY <2>4, <2>6
<1>8. ASSUME StrainedRun(t) PROVE "v" \in DOMAIN out /\ (~nan => "e" \in DOMAIN out)
  <2>1. Rest(t)[3] = <<"print", "e">> /\ Rest(t)[4] = <<"print", "v">>
      BY <1>8, RestOf DEF STRAINED, Show
  <2>2. 3 \in 1 .. Len(Rest(t)) /\ 4 \in 1 .. Len(Rest(t))
    <3>1. Len(Rest(t)) = 4
        BY Zenon, <1>8, RestOf
    <3>2. QED
        BY <3>1
  <2>3. \A value : Prints(t, k, nan, "v", value) => value \in Int
      BY <1>8, CrystalNumbers DEF Prints
  <2>4. "v" \in DOMAIN out
      BY Zenon, <1>6, <2>1, <2>2, <2>3
  <2>5. ASSUME ~nan PROVE \A value : Prints(t, k, nan, "e", value) => value \in Int
    <3>1. Strained(t, k) \in Int
        BY StrainedInt
    <3>2. QED
        BY <1>8, <2>5, <3>1 DEF Prints
  <2>6. ~nan => "e" \in DOMAIN out
      BY Zenon, <1>6, <2>1, <2>2, <2>5
  <2>7. QED
      BY <2>4, <2>6
<1>9. ASSUME VacancyRun(t) PROVE ~nan => "evf" \in DOMAIN out
  <2>1. Rest(t)[11] = <<"print", "evf">>
      BY <1>9, RestOf DEF VACANCY, Show
  <2>2. 11 \in 1 .. Len(Rest(t))
    <3>1. Len(Rest(t)) = 11
        BY Zenon, <1>9, RestOf
    <3>2. QED
        BY <3>1
  <2>3. ASSUME ~nan PROVE \A value : Prints(t, k, nan, "evf", value) => value \in Int
      BY <1>9, <2>3 DEF Prints
  <2>4. QED
      BY Zenon, <1>6, <2>1, <2>2, <2>3
<1>10. ASSUME SurfaceRun(t) PROVE ~nan => {"e_bulk", "n_bulk", "area", "e_slab", "n_slab"} \subseteq DOMAIN out
  <2>1. /\ Rest(t)[4] = <<"print", "e_bulk">> /\ Rest(t)[5] = <<"print", "n_bulk">>
        /\ Rest(t)[6] = <<"print", "area">> /\ Rest(t)[10] = <<"print", "e_slab">>
        /\ Rest(t)[11] = <<"print", "n_slab">>
      BY <1>10, RestOf DEF SURFACE, Show
  <2>2. 4 \in 1 .. Len(Rest(t)) /\ 5 \in 1 .. Len(Rest(t)) /\ 6 \in 1 .. Len(Rest(t))
        /\ 10 \in 1 .. Len(Rest(t)) /\ 11 \in 1 .. Len(Rest(t))
    <3>1. Len(Rest(t)) = 11
        BY Zenon, <1>10, RestOf
    <3>2. QED
        BY <3>1
  <2>3. ASSUME ~nan, NEW name PROVE \A value : Prints(t, k, nan, name, value) => value \in Int
      BY Zenon, <1>10, <2>3 DEF Prints
  <2>4. ASSUME ~nan
        PROVE  /\ "e_bulk" \in DOMAIN out /\ "n_bulk" \in DOMAIN out /\ "area" \in DOMAIN out
               /\ "e_slab" \in DOMAIN out /\ "n_slab" \in DOMAIN out
    <3>1. \A name : (\E j \in 1 .. Len(Rest(t)) : Rest(t)[j] = <<"print", name>>) => name \in DOMAIN out
        BY Zenon, <1>6, <2>3, <2>4
    <3>2. QED
        BY Zenon, <2>1, <2>2, <3>1
  <2>5. QED
      BY <2>4
<1>11. QED
    BY Zenon, <1>3, <1>4, <1>7, <1>8, <1>9, <1>10 DEF OutputShape, out

-----------------------------------------------------------------------------
(* The runner between two commands.                                        *)

\* The number of the process that runs or runs next.
Process == Len(outputs) + 1

\* While a process runs: where it is in its script, and all that it has done so far.
ProcessInv ==
    /\ status = "running" /\ Len(outputs) < Runs(task.property)
    /\ bad \subseteq 1 .. Process
    /\ script = Script(task, Process) /\ position \in 0 .. Len(script)
    /\ BoxShape(task, Process, script, position, box) /\ box.nan = (Process \in bad)
    /\ SlabShape(task, position, box)
    /\ FormulasShape(task, position - Len(Setup(task, Process)), formulas)
    /\ LinesShape(task, Process, position - Len(Setup(task, Process)), box.nan, lines)

\* The inductive invariant.
ScriptsInv ==
    /\ task \in Task
    /\ status \in {"running", "failed", "done"}
    /\ box \in Box \cup {None}
    /\ lines \in Seq(Line(task))
    /\ Len(outputs) \in 0 .. Runs(task.property)
    /\ outputs = [k \in 1 .. Len(outputs) |-> outputs[k]]
    /\ \A k \in 1 .. Len(outputs) : OutputShape(task, k, k \in bad, outputs[k])
    /\ bad \subseteq 1 .. Runs(task.property)
    /\ status = "running" /\ box = None => bad \subseteq 1 .. Len(outputs)
    /\ box # None => ProcessInv
    /\ status = "done" => Len(outputs) = Runs(task.property) /\ values = Computed(task, outputs)
    /\ status # "done" => values = <<>>

\* The invariant holds at first, and every step keeps it.
LEMMA ScriptsInitial == Init => ScriptsInv
<1> SUFFICES ASSUME Init PROVE ScriptsInv
    OBVIOUS
<1>1. task \in Task
    BY DEF Init, Task
<1>2. /\ status = "running" /\ box = None /\ lines = <<>> /\ outputs = <<>> /\ bad = {} /\ values = <<>>
    BY DEF Init
<1>3. Len(outputs) = 0 /\ outputs = [k \in 1 .. Len(outputs) |-> outputs[k]]
    BY <1>2
<1>4. Runs(task.property) \in Nat
    BY <1>1, TaskKinds
<1>5. lines \in Seq(Line(task))
    BY <1>2
<1>6. Len(outputs) \in 0 .. Runs(task.property)
    BY <1>3, <1>4
<1>7. \A k \in 1 .. Len(outputs) : OutputShape(task, k, k \in bad, outputs[k])
    BY <1>3
<1>8. bad \subseteq 1 .. Runs(task.property) /\ bad \subseteq 1 .. Len(outputs)
    BY <1>2
<1>9. status \in {"running", "failed", "done"} /\ box \in Box \cup {None} /\ status # "done"
    BY <1>2
<1>10. QED
    BY Zenon, <1>1, <1>2, <1>3, <1>5, <1>6, <1>7, <1>8, <1>9 DEF ScriptsInv

\* A process starts: nothing is read yet.
LEMMA LaunchKeeps ==
    ASSUME ScriptsInv, Launch PROVE ScriptsInv'
<1> DEFINE k == Len(outputs) + 1
           s == Script(task, k)
           base == Len(Setup(task, k))
<1>1. /\ task \in Task /\ Len(outputs) \in 0 .. Runs(task.property)
      /\ \A i \in 1 .. Len(outputs) : OutputShape(task, i, i \in bad, outputs[i])
      /\ bad \subseteq 1 .. Runs(task.property)
      /\ outputs = [i \in 1 .. Len(outputs) |-> outputs[i]] /\ values = <<>> /\ bad \subseteq 1 .. Len(outputs)
    BY DEF ScriptsInv, Launch
<1>2. /\ task' = task /\ outputs' = outputs /\ status' = status /\ values' = values
      /\ status = "running" /\ box = None /\ Len(outputs) < Runs(task.property)
      /\ script' = s /\ position' = 0 /\ formulas' = <<>> /\ lines' = <<>>
    BY DEF Launch
<1>3. PICK nan \in BOOLEAN :
          box' = NewBox(task, nan) /\ bad' = IF nan THEN bad \cup {k} ELSE bad
    BY DEF Launch
<1>4. Len(outputs) \in Nat /\ k \in 1 .. Runs(task.property) /\ k \notin bad
  <2>1. Runs(task.property) \in Nat
      BY <1>1, TaskKinds
  <2>2. QED
      BY <1>1, <1>2, <2>1
<1> HIDE DEF s
<1>5. ScriptShape(task, k, s)
    BY <1>1, <1>4, ScriptFacts DEF s
<1>6. base \in Nat /\ base >= 3 /\ Len(s) \in Nat
  <2>1. base \in Nat /\ base >= 3 /\ Len(s) = base + Len(Rest(task))
      BY <1>5 DEF ScriptShape
  <2>2. QED
      BY <1>1, <2>1, RestFacts
<1>7. BoxShape(task, k, s, 0, box') /\ box'.nan = nan
    BY <1>1, <1>3, <1>4, <1>5, FirstBox
<1>8. SlabShape(task, 0, box')
    BY Zenon, <1>3, SlabFirst
<1>9. Process = k /\ Process' = k
    BY <1>2 DEF Process
<1> HIDE DEF k
<1>10. bad' \subseteq 1 .. k /\ (k \in bad') = nan
  <2>1. bad \subseteq 1 .. Len(outputs)
      BY Zenon, <1>1
  <2>2. bad \subseteq 1 .. k /\ {k} \subseteq 1 .. k
      BY <1>4, <2>1 DEF k
  <2>3. bad' = bad \/ bad' = bad \cup {k}
      BY <1>3
  <2>4. bad' \subseteq 1 .. k
      BY <2>2, <2>3
  <2>5. CASE nan = TRUE
    <3>1. bad' = bad \cup {k}
        BY Zenon, <1>3, <2>5
    <3>2. QED
        BY Zenon, <2>4, <2>5, <3>1
  <2>6. CASE nan = FALSE
    <3>1. bad' = bad
        BY Zenon, <1>3, <2>6
    <3>2. (k \in bad') = FALSE
        BY <1>4, <3>1
    <3>3. QED
        BY Zenon, <2>4, <2>6, <3>2
  <2>7. QED
      BY Zenon, <2>5, <2>6
<1>11. FormulasShape(task, 0 - base, <<>>)
  <2>1. \A j \in 1 .. 0 - base : FALSE
      BY <1>6
  <2>2. QED
      BY Zenon, <2>1 DEF FormulasShape
<1>12. LinesShape(task, k, 0 - base, nan, <<>>) /\ <<>> \in Seq(Line(task))
  <2>1. \A j \in 1 .. 0 - base : FALSE
      BY <1>6
  <2>2. <<>> \in Seq(Line(task)) /\ \A l \in 1 .. Len(<<>>) : FALSE
      OBVIOUS
  <2>3. QED
      BY Zenon, <2>1, <2>2 DEF LinesShape
<1>13. ProcessInv'
  <2>1. /\ status' = "running" /\ Len(outputs') < Runs(task'.property)
        /\ bad' \subseteq 1 .. Process' /\ script' = Script(task', Process')
        /\ position' \in 0 .. Len(script')
      BY <1>2, <1>6, <1>9, <1>10 DEF s
  <2>2. BoxShape(task', Process', script', position', box') /\ box'.nan = (Process' \in bad')
      BY Zenon, <1>2, <1>7, <1>9, <1>10
  <2>3. /\ FormulasShape(task', position' - Len(Setup(task', Process')), formulas')
        /\ LinesShape(task', Process', position' - Len(Setup(task', Process')), box'.nan, lines')
      BY Zenon, <1>2, <1>7, <1>9, <1>11, <1>12
  <2>4. SlabShape(task', position', box')
      BY Zenon, <1>2, <1>8
  <2>5. QED
      BY <2>1, <2>2, <2>3, <2>4 DEF ProcessInv
<1>14. \A i \in 1 .. Len(outputs') : OutputShape(task', i, i \in bad', outputs'[i])
  <2> SUFFICES ASSUME NEW i \in 1 .. Len(outputs) PROVE OutputShape(task, i, i \in bad', outputs[i])
      BY Zenon, <1>2
  <2>1. i # k
      BY <1>4 DEF k
  <2>2. (i \in bad') = (i \in bad)
      BY <1>3, <2>1
  <2>3. QED
      BY Zenon, <1>1, <2>2
<1>15. box' \in Box
    BY <1>7 DEF BoxShape
<1>16. bad' \subseteq 1 .. Runs(task.property)
  <2>1. 1 .. k \subseteq 1 .. Runs(task.property)
    <3>1. Runs(task.property) \in Nat
        BY <1>1, TaskKinds
    <3>2. QED
        BY <1>4, <3>1
  <2>2. QED
      BY Zenon, <1>10, <2>1
<1>17. box' # None
    BY <1>15, NoBoxAssumption
<1>18. /\ task' \in Task /\ status' \in {"running", "failed", "done"} /\ box' \in Box \cup {None}
       /\ lines' \in Seq(Line(task')) /\ Len(outputs') \in 0 .. Runs(task'.property)
       /\ outputs' = [i \in 1 .. Len(outputs') |-> outputs'[i]]
       /\ bad' \subseteq 1 .. Runs(task'.property) /\ status' # "done" /\ values' = <<>>
    BY Zenon, <1>1, <1>2, <1>12, <1>15, <1>16
<1>19. QED
    BY Zenon, <1>13, <1>14, <1>17, <1>18 DEF ScriptsInv

\* Commands of the setup print nothing and define no variable.
LEMMA SetupSilent ==
    ASSUME NEW t \in Task, NEW k \in 1 .. Runs(t.property), NEW s, ScriptShape(t, k, s),
           NEW p \in Nat, p < Len(Setup(t, k))
    PROVE  s[p + 1][1] # "variable" /\ s[p + 1][1] # "print"
<1> DEFINE base == Len(Setup(t, k))
<1>1. /\ base \in Nat /\ base >= 3
      /\ s[1] = <<"boundary", IF SurfaceRun(t) THEN "s" ELSE "p">>
      /\ s[2] = <<"create_atoms", t.n>>
      /\ \A i \in 3 .. base : SetupCommand(t, k, i, s[i])
    BY DEF ScriptShape
<1>2. CASE p = 0
    BY <1>1, <1>2
<1>3. CASE p = 1
    BY <1>1, <1>3
<1>4. CASE p >= 2
  <2>1. p + 1 \in 3 .. base
      BY <1>1, <1>4
  <2> DEFINE cmd == s[p + 1]
             i == p + 1
  <2>2. SetupCommand(t, k, i, cmd)
      BY <1>1, <2>1
  <2> HIDE DEF cmd, i
  <2>3. cmd[1] # "variable" /\ cmd[1] # "print"
      BY <2>2 DEF SetupCommand
  <2>4. QED
      BY <2>3 DEF cmd
<1>5. QED
    BY <1>2, <1>3, <1>4

\* A process reads one more command.
LEMMA ReadKeeps ==
    ASSUME ScriptsInv, Read PROVE ScriptsInv'
<1> DEFINE k == Len(outputs) + 1
           s == script
           p == position
           base == Len(Setup(task, k))
           q == p - base
           cmd == s[p + 1]
           value == Eval(task.crystal, box, formulas, formulas[cmd[2]])
<1>1. /\ task \in Task /\ Len(outputs) \in 0 .. Runs(task.property)
      /\ \A i \in 1 .. Len(outputs) : OutputShape(task, i, i \in bad, outputs[i])
      /\ bad \subseteq 1 .. Runs(task.property) /\ lines \in Seq(Line(task))
      /\ outputs = [i \in 1 .. Len(outputs) |-> outputs[i]] /\ box # None /\ ProcessInv
    BY Zenon DEF ScriptsInv, Read
<1>2. /\ status = "running" /\ Len(outputs) < Runs(task.property) /\ bad \subseteq 1 .. k
      /\ s = Script(task, k) /\ p \in 0 .. Len(s)
      /\ BoxShape(task, k, s, p, box) /\ box.nan = (k \in bad)
      /\ FormulasShape(task, q, formulas) /\ LinesShape(task, k, q, box.nan, lines)
      /\ SlabShape(task, p, box)
    BY Zenon, <1>1 DEF ProcessInv, Process
<1>3. /\ task' = task /\ outputs' = outputs /\ status' = status /\ values' = values /\ bad' = bad
      /\ script' = s /\ position' = p + 1 /\ p < Len(s)
      /\ box' = After(task.crystal, box, cmd)
    BY DEF Read
<1>4. /\ formulas' = IF cmd[1] # "variable" THEN formulas
                     ELSE [name \in DOMAIN formulas \cup {cmd[2]} |->
                              IF name = cmd[2] THEN cmd[3] ELSE formulas[name]]
      /\ lines' = IF cmd[1] # "print" THEN lines ELSE Append(lines, <<cmd[2], value>>)
    BY Zenon DEF Read
<1>5. Len(outputs) \in Nat /\ k \in 1 .. Runs(task.property)
  <2>1. Runs(task.property) \in Nat
      BY <1>1, TaskKinds
  <2>2. QED
      BY <1>1, <1>2, <2>1
<1>6. Process = k /\ Process' = k
    BY <1>3 DEF Process
<1> HIDE DEF k, s, p
<1>7. ScriptShape(task, k, s)
    BY <1>1, <1>2, <1>5, ScriptFacts
<1>8. /\ base \in Nat /\ base >= 3 /\ Len(s) = base + Len(Rest(task)) /\ Len(Rest(task)) \in Nat
      /\ \A i \in 1 .. Len(Rest(task)) : s[base + i] = Rest(task)[i]
    BY <1>1, <1>7, RestFacts DEF ScriptShape
<1>9. p \in Nat /\ p < Len(s) /\ p + 1 \in 0 .. Len(s)
    BY <1>2, <1>3, <1>8
<1>10. BoxShape(task, k, s, p + 1, box')
    BY <1>1, <1>2, <1>3, <1>5, <1>7, <1>9, StepBox
<1>11. SlabShape(task, p + 1, box')
    BY <1>1, <1>2, <1>3, <1>5, <1>7, <1>9, SlabStep
<1>12. box \in Box /\ box' \in Box
    BY <1>2, <1>10 DEF BoxShape
<1>13. box'.nan = box.nan
    BY <1>1, <1>3, <1>5, <1>7, <1>9, <1>12, AfterNan
<1>14. /\ FormulasShape(task, (p + 1) - base, formulas')
       /\ LinesShape(task, k, (p + 1) - base, box.nan, lines')
  <2>1. CASE p < base
    <3>1. cmd[1] # "variable" /\ cmd[1] # "print"
        BY <1>1, <1>5, <1>7, <1>9, <2>1, SetupSilent
    <3>2. formulas' = formulas /\ lines' = lines
        BY Zenon, <1>4, <3>1
    <3>3. \A j \in 1 .. (p + 1) - base : FALSE
        BY <1>8, <1>9, <2>1
    <3>4. FormulasShape(task, (p + 1) - base, formulas)
        BY Zenon, <3>3 DEF FormulasShape
    <3>5. LinesShape(task, k, (p + 1) - base, box.nan, lines)
        BY Zenon, <1>2, <3>3 DEF LinesShape
    <3>6. QED
        BY Zenon, <3>2, <3>4, <3>5
  <2>2. CASE p >= base
    <3> DEFINE r == q
    <3>1. r \in Nat /\ r < Len(Rest(task)) /\ base + r = p /\ base + (r + 1) = p + 1 /\ (p + 1) - base = r + 1
        BY <1>8, <1>9, <2>2
    <3>2. cmd = Rest(task)[r + 1]
      <4>1. r + 1 \in 1 .. Len(Rest(task))
          BY <1>8, <3>1
      <4>2. s[base + (r + 1)] = Rest(task)[r + 1]
          BY Zenon, <1>8, <4>1
      <4>3. QED
          BY Zenon, <3>1, <4>2
    <3> HIDE DEF r, cmd
    <3>3. FormulasShape(task, r, formulas) /\ LinesShape(task, k, r, box.nan, lines)
        BY Zenon, <1>2 DEF r
    <3>4. FormulasShape(task, r + 1, formulas')
      <4> DEFINE fs2 == formulas'
      <4>1. fs2 = Defined(formulas, cmd)
          BY Zenon, <1>4 DEF Defined
      <4> HIDE DEF fs2
      <4>2. FormulasShape(task, r + 1, fs2)
          BY <1>1, <3>1, <3>2, <3>3, <4>1, FormulasStep
      <4>3. QED
          BY <4>2 DEF fs2
    <3>5. cmd[1] = "print" => Prints(task, k, box.nan, cmd[2], value)
      <4>1. BoxShape(task, k, s, Len(Setup(task, k)) + r, box) /\ SlabShape(task, Len(Setup(task, k)) + r, box)
          BY <1>2, <3>1
      <4>2. QED
          BY <1>1, <1>5, <1>7, <3>1, <3>2, <3>3, <4>1, LinePrinted
    <3>6. LinesShape(task, k, r + 1, box.nan, lines')
      <4> HIDE DEF value
      <4>1. QED
          BY <1>1, <1>4, <3>1, <3>2, <3>3, <3>5, LinesStep
    <3>7. QED
        BY Zenon, <3>1, <3>4, <3>6
  <2>3. QED
      BY <1>8, <1>9, <2>1, <2>2
<1>15. lines' \in Seq(Line(task))
    BY Zenon, <1>14 DEF LinesShape
<1>16. ProcessInv'
  <2>1. /\ status' = "running" /\ Len(outputs') < Runs(task'.property)
        /\ bad' \subseteq 1 .. Process' /\ script' = Script(task', Process')
        /\ position' \in 0 .. Len(script')
      BY Zenon, <1>2, <1>3, <1>6, <1>9
  <2>2. BoxShape(task', Process', script', position', box') /\ box'.nan = (Process' \in bad')
      BY Zenon, <1>2, <1>3, <1>6, <1>10, <1>13
  <2>3. /\ FormulasShape(task', position' - Len(Setup(task', Process')), formulas')
        /\ LinesShape(task', Process', position' - Len(Setup(task', Process')), box'.nan, lines')
      BY Zenon, <1>3, <1>6, <1>13, <1>14
  <2>4. SlabShape(task', position', box')
      BY Zenon, <1>3, <1>11
  <2>5. QED
      BY Zenon, <2>1, <2>2, <2>3, <2>4 DEF ProcessInv
<1>17. box' # None
    BY <1>12, NoBoxAssumption
<1>18. values = <<>> /\ status # "done" /\ status \in {"running", "failed", "done"}
    BY <1>2 DEF ScriptsInv
<1>19. /\ task' \in Task /\ status' \in {"running", "failed", "done"} /\ box' \in Box \cup {None}
       /\ lines' \in Seq(Line(task')) /\ Len(outputs') \in 0 .. Runs(task'.property)
       /\ outputs' = [i \in 1 .. Len(outputs') |-> outputs'[i]]
       /\ bad' \subseteq 1 .. Runs(task'.property) /\ status' # "done" /\ values' = <<>>
       /\ \A i \in 1 .. Len(outputs') : OutputShape(task', i, i \in bad', outputs'[i])
    BY Zenon, <1>1, <1>3, <1>12, <1>15, <1>18
<1>20. QED
    BY Zenon, <1>16, <1>17, <1>19 DEF ScriptsInv

\* A process is rejected: the task is over.
LEMMA RejectKeeps ==
    ASSUME ScriptsInv, Reject PROVE ScriptsInv'
<1>1. /\ task' = task /\ outputs' = outputs /\ values' = values /\ bad' = bad /\ lines' = lines
      /\ status' = "failed" /\ box' = None /\ box # None
    BY DEF Reject
<1>2. status = "running" /\ values = <<>>
    BY <1>1 DEF ScriptsInv, ProcessInv
<1>3. /\ status' \in {"running", "failed", "done"} /\ status' # "running" /\ status' # "done"
      /\ box' \in Box \cup {None} /\ box' = None
    BY <1>1
<1>4. QED
    BY Zenon, <1>1, <1>2, <1>3 DEF ScriptsInv

\* An output is not understood: the task is over.
LEMMA UnparsableKeeps ==
    ASSUME ScriptsInv, Unparsable PROVE ScriptsInv'
<1>1. /\ task' = task /\ outputs' = outputs /\ values' = values /\ bad' = bad /\ lines' = lines
      /\ status' = "failed" /\ box' = None /\ box # None
    BY DEF Unparsable
<1>2. status = "running" /\ values = <<>>
    BY <1>1 DEF ScriptsInv, ProcessInv
<1>3. /\ status' \in {"running", "failed", "done"} /\ status' # "running" /\ status' # "done"
      /\ box' \in Box \cup {None} /\ box' = None
    BY <1>1
<1>4. QED
    BY Zenon, <1>1, <1>2, <1>3 DEF ScriptsInv

\* One more output.
LEMMA Longer ==
    ASSUME NEW s, NEW n \in Nat, Len(s) = n, s = [i \in 1 .. n |-> s[i]], NEW x, NEW u, u = Append(s, x)
    PROVE  /\ Len(u) = n + 1 /\ u = [i \in 1 .. n + 1 |-> u[i]]
           /\ \A i \in 1 .. n : u[i] = s[i]
           /\ u[n + 1] = x
<1> DEFINE S == {s[i] : i \in 1 .. n} \cup {x}
<1>1. \A i \in 1 .. n : s[i] \in S
    OBVIOUS
<1>2. x \in S
    OBVIOUS
<1> HIDE DEF S
<1>3. s \in Seq(S)
  <2>1. s \in [1 .. n -> S]
      BY <1>1
  <2>2. QED
      BY <2>1
<1>4. Append(s, x) \in Seq(S)
    BY <1>2, <1>3
<1>5. /\ Len(u) = n + 1 /\ u \in Seq(S)
      /\ \A i \in 1 .. n : u[i] = s[i]
      /\ u[n + 1] = x
    BY <1>2, <1>3, <1>4
<1>6. u = [i \in 1 .. n + 1 |-> u[i]]
    BY <1>5
<1>7. QED
    BY <1>5, <1>6

\* A process ends: its lines are parsed, and the next one may start.
LEMMA ExitKeeps ==
    ASSUME ScriptsInv, Exit PROVE ScriptsInv'
<1> DEFINE n == Len(outputs)
           k == n + 1
           base == Len(Setup(task, k))
           out == parse_lammps_output(lines)
<1>1. /\ task \in Task /\ Len(outputs) \in 0 .. Runs(task.property)
      /\ \A i \in 1 .. n : OutputShape(task, i, i \in bad, outputs[i])
      /\ bad \subseteq 1 .. Runs(task.property) /\ lines \in Seq(Line(task))
      /\ outputs = [i \in 1 .. n |-> outputs[i]] /\ box # None /\ ProcessInv
    BY Zenon DEF ScriptsInv, Exit
<1>2. /\ status = "running" /\ Len(outputs) < Runs(task.property) /\ bad \subseteq 1 .. k
      /\ script = Script(task, k)
      /\ BoxShape(task, k, script, position, box) /\ box.nan = (k \in bad)
      /\ LinesShape(task, k, position - base, box.nan, lines)
    BY Zenon, <1>1 DEF ProcessInv, Process
<1>3. /\ task' = task /\ status' = status /\ values' = values /\ bad' = bad /\ lines' = lines
      /\ position = Len(script) /\ outputs' = Append(outputs, out) /\ box' = None
    BY DEF Exit
<1>4. n \in Nat /\ k \in 1 .. Runs(task.property) /\ Runs(task.property) \in Nat
  <2>1. Runs(task.property) \in Nat
      BY <1>1, TaskKinds
  <2>2. QED
      BY <1>1, <1>2, <2>1
<1>5. position - base = Len(Rest(task))
  <2>1. ScriptShape(task, k, script)
      BY <1>1, <1>2, <1>4, ScriptFacts
  <2>2. base \in Nat /\ Len(script) = base + Len(Rest(task))
      BY <2>1 DEF ScriptShape
  <2>3. Len(Rest(task)) \in Nat
      BY <1>1, RestFacts
  <2>4. QED
      BY <1>3, <2>2, <2>3
<1>6. OutputShape(task, k, k \in bad, out)
  <2>1. box.nan \in BOOLEAN
      BY <1>2 DEF BoxShape, Box
  <2>2. LinesShape(task, k, Len(Rest(task)), box.nan, lines)
      BY Zenon, <1>2, <1>5
  <2> HIDE DEF k, out
  <2>3. OutputShape(task, k, box.nan, parse_lammps_output(lines))
      BY <1>1, <1>4, <2>1, <2>2, Parsed
  <2>4. QED
      BY Zenon, <1>2, <2>3 DEF out
<1> HIDE DEF n, out
<1>7. /\ Len(outputs') = k /\ outputs' = [i \in 1 .. k |-> outputs'[i]]
      /\ \A i \in 1 .. n : outputs'[i] = outputs[i]
      /\ outputs'[k] = out
  <2>1. outputs = [i \in 1 .. n |-> outputs[i]] /\ Len(outputs) = n /\ outputs' = Append(outputs, out)
      BY Zenon, <1>1, <1>3 DEF n
  <2>2. QED
      BY <1>4, <2>1, Longer
<1>8. ASSUME NEW i \in 1 .. k PROVE OutputShape(task, i, i \in bad, outputs'[i])
  <2>1. CASE i = k
      BY Zenon, <1>6, <1>7, <2>1
  <2>2. CASE i # k
    <3>1. i \in 1 .. n
        BY <1>4, <2>2
    <3>2. QED
        BY Zenon, <1>1, <1>7, <3>1
  <2>3. QED
      BY <2>1, <2>2
<1>9. values = <<>> /\ status # "done" /\ status \in {"running", "failed", "done"}
    BY <1>2 DEF ScriptsInv
<1>10. k \in 0 .. Runs(task.property)
    BY <1>4
<1> HIDE DEF k
<1>11. /\ task' \in Task /\ status' \in {"running", "failed", "done"} /\ box' \in Box \cup {None}
       /\ lines' \in Seq(Line(task')) /\ Len(outputs') \in 0 .. Runs(task'.property)
       /\ outputs' = [i \in 1 .. Len(outputs') |-> outputs'[i]]
       /\ bad' \subseteq 1 .. Runs(task'.property) /\ status' # "done" /\ values' = <<>>
       /\ \A i \in 1 .. Len(outputs') : OutputShape(task', i, i \in bad', outputs'[i])
    BY Zenon, <1>1, <1>3, <1>7, <1>8, <1>9, <1>10
<1>12. bad' \subseteq 1 .. Len(outputs')
    BY Zenon, <1>2, <1>3, <1>7
<1>13. QED
    BY Zenon, <1>3, <1>11, <1>12 DEF ScriptsInv

\* The values are returned.
LEMMA ReturnKeeps ==
    ASSUME ScriptsInv, Return PROVE ScriptsInv'
<1>1. /\ task' = task /\ outputs' = outputs /\ bad' = bad /\ lines' = lines /\ box' = box
      /\ box = None /\ status' = "done" /\ values' = Computed(task, outputs)
      /\ Len(outputs) = Runs(task.property)
    BY DEF Return
<1>2. status' \in {"running", "failed", "done"} /\ status' # "running"
    BY <1>1
<1>3. Computed(task', outputs') = Computed(task, outputs)
    BY Zenon, <1>1
<1>4. QED
    BY Zenon, <1>1, <1>2, <1>3 DEF ScriptsInv

\* Nothing happens.
LEMMA ScriptsStutter ==
    ASSUME ScriptsInv, UNCHANGED vars PROVE ScriptsInv'
<1>1. /\ task' = task /\ outputs' = outputs /\ bad' = bad /\ lines' = lines /\ box' = box
      /\ status' = status /\ values' = values /\ script' = script /\ position' = position
      /\ formulas' = formulas
    BY DEF vars
<1>2. ASSUME ProcessInv PROVE ProcessInv'
    BY Zenon, <1>1, <1>2 DEF ProcessInv, Process
<1>3. QED
    BY Zenon, <1>1, <1>2 DEF ScriptsInv

\* Every reachable state satisfies the invariant.
LEMMA ScriptsInductive == Spec => []ScriptsInv
<1>1. Init => ScriptsInv
    BY ScriptsInitial
<1>2. ScriptsInv /\ [Next]_vars => ScriptsInv'
    BY LaunchKeeps, ReadKeeps, RejectKeeps, ExitKeeps, UnparsableKeeps, ReturnKeeps, ScriptsStutter
       DEF Next
<1>3. QED
    BY <1>1, <1>2, PTL DEF Spec

-----------------------------------------------------------------------------
(* What the outputs make of the constants.                                 *)

\* A parsed value, or the default.
LEMMA GetFacts ==
    ASSUME NEW out, NEW name, NEW default
    PROVE  /\ name \in DOMAIN out => Get(out, name, default) = out[name]
           /\ name \notin DOMAIN out => Get(out, name, default) = default
BY DEF Get

\* The energies of the seven cells over that of the first.
LEMMA StrainedValues ==
    ASSUME NEW t \in Task, StrainedRun(t)
    PROVE  LET c == t.crystal
               E(k) == Strained(t, k)
               v == c.volume
           IN  /\ E(1) \in Int /\ v \in Int /\ v >= 1 /\ c.stress \in Int
               /\ c.C11 \in Int /\ c.C12 \in Int /\ c.C44 \in Int
               /\ E(2) = E(1) + v * (2 * c.stress + c.C11)
               /\ E(3) = E(1) + v * (c.C11 - 2 * c.stress)
               /\ E(4) = E(1) + v * (2 * c.stress + c.C11)
               /\ E(5) = E(1) + v * (4 * c.stress + 2 * c.C11 + 2 * c.C12)
               /\ E(6) = E(1) + v * c.C44 /\ E(7) = E(1) + v * c.C44
<1> DEFINE c == t.crystal
           v == c.volume
           e0 == Sites * c.ecoh[1] + Sites * (c.guess - c.a) * (c.guess - c.a)
<1>1. /\ v \in Int /\ v >= 1 /\ c.stress \in Int /\ c.C11 \in Int /\ c.C12 \in Int /\ c.C44 \in Int
    BY Zenon, CrystalNumbers
<1>2. \A k \in 1 .. 7 : Strained(t, k) = e0 + Quadratic(c, Strains[k][1], Strains[k][2], Strains[k][3])
    BY Zenon DEF Strained, Quadratic
<1>3. /\ Strains[1] = <<0, 0, 0>> /\ Strains[2] = <<1, 0, 0>> /\ Strains[3] = <<-1, 0, 0>>
      /\ Strains[4] = <<0, 1, 0>> /\ Strains[5] = <<1, 1, 0>> /\ Strains[6] = <<0, 0, 1>>
      /\ Strains[7] = <<0, 0, -1>>
    BY DEF Strains
<1> DEFINE Q(x, y, g) == Quadratic(c, x, y, g)
<1>4. /\ Strained(t, 1) = e0 + Q(0, 0, 0) /\ Strained(t, 2) = e0 + Q(1, 0, 0)
      /\ Strained(t, 3) = e0 + Q(-1, 0, 0) /\ Strained(t, 4) = e0 + Q(0, 1, 0)
      /\ Strained(t, 5) = e0 + Q(1, 1, 0) /\ Strained(t, 6) = e0 + Q(0, 0, 1)
      /\ Strained(t, 7) = e0 + Q(0, 0, -1)
    BY <1>2, <1>3
<1>5. Runs(t.property) = 7
    BY TaskKinds
<1>6. Strained(t, 1) \in Int
    BY <1>5, StrainedInt
<1> HIDE DEF v, c, e0
<1>7. v = c.volume
    BY DEF v
<1>8. Q(0, 0, 0) = 0
    BY <1>1, <1>7 DEF Quadratic
<1>9. Q(1, 0, 0) = v * (2 * c.stress + c.C11) /\ Q(0, 1, 0) = v * (2 * c.stress + c.C11)
    BY <1>1, <1>7 DEF Quadratic
<1>10. Q(-1, 0, 0) = v * (c.C11 - 2 * c.stress)
    BY <1>1, <1>7 DEF Quadratic
<1>11. Q(1, 1, 0) = v * (4 * c.stress + 2 * c.C11 + 2 * c.C12)
    BY <1>1, <1>7 DEF Quadratic
<1>12. Q(0, 0, 1) = v * c.C44 /\ Q(0, 0, -1) = v * c.C44
    BY <1>1, <1>7 DEF Quadratic
<1> HIDE DEF Q
<1>13. e0 \in Int
  <2> DEFINE a == Sites * c.ecoh[1]
             d == c.guess - c.a
  <2>1. Sites \in Int /\ c.ecoh[1] \in Int /\ c.guess \in Int /\ c.a \in Int
    <3>1. c.ecoh \in Seq(Int) /\ t.n <= Len(c.ecoh) /\ t.n >= 1 /\ t.n \in Nat
        BY CrystalNumbers, TaskTypes DEF c
    <3>2. c.guess \in Int /\ c.a \in Int
        BY Zenon, CrystalNumbers DEF c
    <3>3. QED
        BY <3>1, <3>2, SitesAssumption
  <2>2. a \in Int /\ d \in Int
      BY <2>1
  <2>3. e0 = a + Sites * d * d
      BY DEF e0
  <2> HIDE DEF a, d
  <2>4. QED
      BY <2>1, <2>2, <2>3
<1>14. Strained(t, 1) = e0
    BY <1>4, <1>8, <1>13
<1>15. QED
    BY <1>1, <1>4, <1>6, <1>9, <1>10, <1>11, <1>12, <1>14 DEF v, c

\* Their second differences are the constants: the stress cancels.
LEMMA ElasticArithmetic ==
    ASSUME NEW e \in Int, NEW v \in Int, v >= 1, NEW st \in Int, NEW c11 \in Int, NEW c12 \in Int, NEW c44 \in Int
    PROVE  LET e2 == e + v * (2 * st + c11)
               e3 == e + v * (c11 - 2 * st)
               e5 == e + v * (4 * st + 2 * c11 + 2 * c12)
               e6 == e + v * c44
           IN  /\ (e2 - 2 * e + e3) \div (2 * v) = c11
               /\ (e5 - e2 - e2 + e) \div (2 * v) = c12
               /\ (e6 - 2 * e + e6) \div (2 * v) = c44
<1> DEFINE e2 == e + v * (2 * st + c11)
           e3 == e + v * (c11 - 2 * st)
           e5 == e + v * (4 * st + 2 * c11 + 2 * c12)
           e6 == e + v * c44
<1>1. e2 - 2 * e + e3 = (2 * v) * c11
    OBVIOUS
<1>2. e5 - e2 - e2 + e = (2 * v) * c12
    OBVIOUS
<1>3. e6 - 2 * e + e6 = (2 * v) * c44
    OBVIOUS
<1> DEFINE w == 2 * v
<1>4. w \in Int /\ w >= 1
    OBVIOUS
<1> HIDE DEF w
<1>5. \A c \in Int : (w * c) \div w = c
    BY <1>4
<1>6. QED
    BY <1>1, <1>2, <1>3, <1>5 DEF w

\* What run_property makes of the seven outputs.
LEMMA ElasticFacts ==
    ASSUME NEW t \in Task, StrainedRun(t), NEW B, NEW outs, DOMAIN outs = 1 .. 7,
           \A k \in 1 .. 7 : OutputShape(t, k, k \in B, outs[k])
    PROVE  /\ DOMAIN Elastic(outs) = {"C11", "C12", "C44"}
           /\ Elastic(outs).C11 \in Int /\ Elastic(outs).C12 \in Int /\ Elastic(outs).C44 \in Int
           /\ B = {} => /\ Elastic(outs).C11 = t.crystal.C11
                        /\ Elastic(outs).C12 = t.crystal.C12
                        /\ Elastic(outs).C44 = t.crystal.C44
<1> DEFINE c == t.crystal
           E == [k \in DOMAIN outs |-> Get(outs[k], "e", 0)]
           V == 2 * Get(outs[1], "v", 1)
           C11 == (E[2] - 2 * E[1] + E[3]) \div V
           C12 == (E[5] - E[2] - E[4] + E[1]) \div V
           C44 == (E[6] - 2 * E[1] + E[7]) \div V
<1>1. Elastic(outs) = [C11 |-> C11, C12 |-> C12, C44 |-> C44]
    BY Zenon DEF Elastic
<1>2. \A k \in 1 .. 7 : E[k] = Get(outs[k], "e", 0)
    BY Zenon
<1>3. V = 2 * c.volume /\ c.volume \in Int /\ c.volume >= 1
  <2>1. 1 \in 1 .. 7
      OBVIOUS
  <2>2. OutputShape(t, 1, 1 \in B, outs[1])
      BY Zenon, <2>1
  <2>3. "v" \in DOMAIN outs[1] /\ Prints(t, 1, 1 \in B, "v", outs[1]["v"])
      BY Zenon, <2>2 DEF OutputShape
  <2>4. outs[1]["v"] = c.volume
      BY Zenon, <2>3 DEF Prints
  <2>5. Get(outs[1], "v", 1) = c.volume
      BY Zenon, <2>3, <2>4, GetFacts
  <2>6. c.volume \in Int /\ c.volume >= 1
      BY Zenon, CrystalNumbers
  <2>7. QED
      BY <2>5, <2>6
<1> HIDE DEF E, V, c
<1>4. ASSUME NEW k \in 1 .. 7 PROVE E[k] \in Int /\ (B = {} => E[k] = Strained(t, k))
  <2>1. OutputShape(t, k, k \in B, outs[k])
      OBVIOUS
  <2>2. /\ \A name \in DOMAIN outs[k] : outs[k][name] \in Int /\ Prints(t, k, k \in B, name, outs[k][name])
        /\ k \notin B => "e" \in DOMAIN outs[k]
      BY Zenon, <2>1 DEF OutputShape
  <2>3. CASE "e" \in DOMAIN outs[k]
    <3>1. E[k] = outs[k]["e"] /\ outs[k]["e"] \in Int
        BY Zenon, <1>2, <2>2, <2>3, GetFacts
    <3>2. outs[k]["e"] = IF k \in B THEN None ELSE Strained(t, k)
        BY Zenon, <2>2, <2>3 DEF Prints
    <3>3. QED
        BY <3>1, <3>2
  <2>4. CASE "e" \notin DOMAIN outs[k]
    <3>1. E[k] = 0
        BY Zenon, <1>2, <2>4, GetFacts
    <3>2. k \in B
        BY <2>2, <2>4
    <3>3. QED
        BY <3>1, <3>2
  <2>5. QED
      BY <2>3, <2>4
<1>5. /\ E[1] \in Int /\ E[2] \in Int /\ E[3] \in Int /\ E[4] \in Int /\ E[5] \in Int
      /\ E[6] \in Int /\ E[7] \in Int
    BY <1>4
<1>6. V \in Int /\ V >= 1
    BY <1>3
<1>7. C11 \in Int /\ C12 \in Int /\ C44 \in Int
    BY <1>5, <1>6
<1>8. ASSUME B = {} PROVE C11 = c.C11 /\ C12 = c.C12 /\ C44 = c.C44
  <2> DEFINE e == Strained(t, 1)
             v == c.volume
             st == c.stress
  <2>1. /\ E[1] = Strained(t, 1) /\ E[2] = Strained(t, 2) /\ E[3] = Strained(t, 3) /\ E[4] = Strained(t, 4)
        /\ E[5] = Strained(t, 5) /\ E[6] = Strained(t, 6) /\ E[7] = Strained(t, 7)
      BY <1>4, <1>8
  <2>2. /\ e \in Int /\ v \in Int /\ v >= 1 /\ st \in Int
        /\ c.C11 \in Int /\ c.C12 \in Int /\ c.C44 \in Int
        /\ Strained(t, 2) = e + v * (2 * st + c.C11)
        /\ Strained(t, 3) = e + v * (c.C11 - 2 * st)
        /\ Strained(t, 4) = e + v * (2 * st + c.C11)
        /\ Strained(t, 5) = e + v * (4 * st + 2 * c.C11 + 2 * c.C12)
        /\ Strained(t, 6) = e + v * c.C44 /\ Strained(t, 7) = e + v * c.C44
      BY Zenon, StrainedValues DEF c
  <2> DEFINE a11 == c.C11
             a12 == c.C12
             a44 == c.C44
  <2> HIDE DEF e, v, st, a11, a12, a44
  <2>4. V = 2 * v
      BY Zenon, <1>3 DEF v
  <2>5. /\ E[1] = e /\ E[2] = e + v * (2 * st + a11) /\ E[3] = e + v * (a11 - 2 * st)
        /\ E[4] = e + v * (2 * st + a11) /\ E[5] = e + v * (4 * st + 2 * a11 + 2 * a12)
        /\ E[6] = e + v * a44 /\ E[7] = e + v * a44
      BY Zenon, <2>1, <2>2 DEF e, v, st, a11, a12, a44
  <2> DEFINE e2 == e + v * (2 * st + a11)
             e3 == e + v * (a11 - 2 * st)
             e5 == e + v * (4 * st + 2 * a11 + 2 * a12)
             e6 == e + v * a44
             w == 2 * v
  <2>6. (e2 - 2 * e + e3) \div w = a11 /\ (e5 - e2 - e2 + e) \div w = a12 /\ (e6 - 2 * e + e6) \div w = a44
    <3>1. e \in Int /\ v \in Int /\ v >= 1 /\ st \in Int /\ a11 \in Int /\ a12 \in Int /\ a44 \in Int
        BY Zenon, <2>2 DEF e, v, st, a11, a12, a44
    <3>2. QED
        BY <3>1, ElasticArithmetic
  <2>7. V = w /\ E[1] = e /\ E[2] = e2 /\ E[3] = e3 /\ E[4] = e2 /\ E[5] = e5 /\ E[6] = e6 /\ E[7] = e6
      BY Zenon, <2>4, <2>5
  <2> HIDE DEF e2, e3, e5, e6, w
  <2>8. C11 = a11 /\ C12 = a12 /\ C44 = a44
      BY <2>6, <2>7
  <2>9. QED
      BY Zenon, <2>8 DEF a11, a12, a44
<1> HIDE DEF C11, C12, C44
<1>9. /\ DOMAIN Elastic(outs) = {"C11", "C12", "C44"}
      /\ Elastic(outs).C11 = C11 /\ Elastic(outs).C12 = C12 /\ Elastic(outs).C44 = C44
    BY <1>1
<1>10. QED
    BY Zenon, <1>7, <1>8, <1>9 DEF c

\* The surface energy is a number, or none.
LEMMA SurfaceInt ==
    ASSUME NEW t \in Task, SurfaceRun(t), NEW nan, NEW out, OutputShape(t, 1, nan, out)
    PROVE  Surface(out) \in Int \cup {None}
<1> DEFINE g(name, default) == Get(out, name, default)
<1>1. \A name \in DOMAIN out : out[name] \in Int /\ Prints(t, 1, nan, name, out[name])
    BY Zenon DEF OutputShape
<1>2. \A name, default : default \in Int => g(name, default) \in Int
    BY Zenon, <1>1 DEF Get
<1>3. g("area", 1) = t.crystal.area \/ g("area", 1) = 1
  <2>1. "area" \in DOMAIN out => out["area"] = t.crystal.area
      BY Zenon, <1>1 DEF Prints
  <2>2. QED
      BY Zenon, <2>1 DEF Get
<1>4. g("n_bulk", 1) = Sites \/ g("n_bulk", 1) = 1
  <2>1. "n_bulk" \in DOMAIN out => out["n_bulk"] = Sites
      BY Zenon, <1>1 DEF Prints
  <2>2. QED
      BY Zenon, <2>1 DEF Get
<1> DEFINE n == g("n_bulk", 1)
           a == g("area", 1)
           top == g("e_slab", 0) * n - g("n_slab", 1) * g("e_bulk", 0)
<1>5. n \in Int /\ n >= 1 /\ a \in Int /\ a >= 1
  <2>1. t.crystal.area \in Int /\ t.crystal.area >= 1
      BY Zenon, CrystalNumbers
  <2> HIDE DEF g
  <2>2. QED
      BY <1>3, <1>4, <2>1, SitesAssumption
<1>6. Surface(out) = top \div (4 * a * n) \/ Surface(out) = None
    BY Zenon DEF Surface
<1>7. 0 \in Int /\ 1 \in Int
    OBVIOUS
<1>8. g("e_slab", 0) \in Int /\ g("n_slab", 1) \in Int /\ g("e_bulk", 0) \in Int
    BY Zenon, <1>2, <1>7
<1> HIDE DEF g
<1>9. top \in Int
    BY <1>5, <1>8
<1> HIDE DEF n, a, top
<1>10. 4 * a * n \in Int /\ 4 * a * n >= 1
  <2>1. a * n \in Int /\ a * n >= 1
      BY <1>5
  <2>2. QED
      BY <1>5, <2>1
<1> DEFINE d == 4 * a * n
<1>11. d \in Int /\ d >= 1
    BY <1>10
<1> HIDE DEF d
<1>12. top \div d \in Int
    BY <1>9, <1>11
<1>13. Surface(out) = top \div d \/ Surface(out) = None
    BY Zenon, <1>6 DEF d
<1>14. QED
    BY <1>12, <1>13

\* A common factor of both numbers cancels.
LEMMA FactorCancels ==
    ASSUME NEW d \in Int, d >= 1, NEW x \in Int, NEW y \in Int, y >= 1
    PROVE  (d * x) \div (d * y) = x \div y
<1> DEFINE q == x \div y
<1>1. q \in Int /\ q * y <= x /\ x < q * y + y
    OBVIOUS
<1> HIDE DEF q
<1>2. d * y \in Int /\ d * y >= 1 /\ d * x \in Int
    OBVIOUS
<1> DEFINE e == d * y
           n == d * x
<1>3. q * e <= n /\ n < q * e + e
  <2> DEFINE l == x - q * y
             r == (q * y + y - 1) - x
  <2>1. l \in Int /\ l >= 0 /\ r \in Int /\ r >= 0
      BY <1>1
  <2> HIDE DEF l, r
  <2>2. d * l \in Int /\ d * l >= 0 /\ d * r \in Int /\ d * r >= 0
      BY <2>1
  <2>3. n = q * e + d * l
      BY <1>1 DEF l
  <2>4. n = q * e + e - d - d * r
      BY <1>1 DEF r
  <2>5. q * e \in Int /\ e \in Int /\ n \in Int
      BY <1>1
  <2> HIDE DEF e, n
  <2>6. QED
      BY <2>2, <2>3, <2>4, <2>5
<1> HIDE DEF e, n
<1>4. n \div e = q
  <2>1. e \in Int /\ e >= 1 /\ n \in Int
      BY <1>2 DEF e, n
  <2> DEFINE z == n \div e
  <2>2. z \in Int /\ z * e <= n /\ n < z * e + e
      BY <2>1
  <2> HIDE DEF z
  <2>3. ~(z >= q + 1)
    <3> SUFFICES ASSUME z >= q + 1 PROVE FALSE
        OBVIOUS
    <3>1. z * e >= (q + 1) * e
        BY <1>1, <2>1, <2>2
    <3>2. (q + 1) * e = q * e + e
        BY <1>1, <2>1
    <3>3. z * e \in Int /\ q * e \in Int
        BY <1>1, <2>1, <2>2
    <3>4. QED
        BY <1>3, <2>1, <2>2, <3>1, <3>2, <3>3
  <2>4. ~(q >= z + 1)
    <3> SUFFICES ASSUME q >= z + 1 PROVE FALSE
        OBVIOUS
    <3>1. q * e >= (z + 1) * e
        BY <1>1, <2>1, <2>2
    <3>2. (z + 1) * e = z * e + e
        BY <2>1, <2>2
    <3>3. z * e \in Int /\ q * e \in Int
        BY <1>1, <2>1, <2>2
    <3>4. QED
        BY <1>3, <2>1, <2>2, <3>1, <3>2, <3>3
  <2>5. z = q
      BY <1>1, <2>2, <2>3, <2>4
  <2>6. QED
      BY <2>5 DEF z
<1>5. QED
    BY <1>4 DEF n, e, q

\* Of two energies of n and m atoms, both with two surfaces, the difference per surface.
ShareLeft(sigma, area, n, m, full, part) ==
    (part * n - m * full) \div (4 * area * n) = (sigma * (n - m)) \div n

\* The energy of the atoms cancels, and of four surfaces' the share cut off is left.
LEMMA SlabArithmetic ==
    ASSUME NEW u \in Int, NEW sigma \in Int, NEW area \in Int, area >= 1,
           NEW n \in Int, n >= 1, NEW m \in Int,
           NEW full, full = n * u + 4 * (sigma * area), NEW part, part = m * u + 4 * (sigma * area)
    PROVE  ShareLeft(sigma, area, n, m, full, part)
<1> DEFINE d == 4 * area
           x == sigma * (n - m)
<1>1. d \in Int /\ d >= 1 /\ x \in Int
    OBVIOUS
<1>2. part * n - m * full = d * x
  <2> DEFINE w == 4 * (sigma * area)
  <2>1. w \in Int
      OBVIOUS
  <2>2. d * x = w * (n - m)
      OBVIOUS
  <2> HIDE DEF w
  <2>3. part = m * u + w /\ full = n * u + w
      BY DEF w
  <2>4. part * n - m * full = w * (n - m)
      BY <2>1, <2>3
  <2>5. QED
      BY <2>2, <2>4
<1>3. 4 * area * n = d * n
    OBVIOUS
<1> HIDE DEF d, x
<1>4. (d * x) \div (d * n) = x \div n
    BY <1>1, FactorCancels
<1>5. QED
    BY Zenon, <1>2, <1>3, <1>4 DEF x, ShareLeft

\* There is a difference if surfaces cost anything.
LEMMA SlabDiffers ==
    ASSUME NEW u \in Int, NEW sigma \in Int, NEW area \in Int, area >= 1,
           NEW n \in Int, NEW m \in Int, n - m >= 1,
           NEW full, full = n * u + 4 * (sigma * area), NEW part, part = m * u + 4 * (sigma * area)
    PROVE  part * n - m * full # 0 <=> sigma # 0
<1> DEFINE w == sigma * area
           k == n - m
           y == w * k
<1>1. w \in Int /\ (w = 0 <=> sigma = 0)
  <2>1. CASE sigma = 0
      BY <2>1
  <2>2. CASE sigma >= 1
    <3>1. sigma * area >= 1
        BY <2>2
    <3>2. QED
        BY <2>2, <3>1
  <2>3. CASE sigma <= -1
    <3>1. (-sigma) * area >= 1
        BY <2>3
    <3>2. (-sigma) * area = -(sigma * area)
        OBVIOUS
    <3>3. QED
        BY <2>3, <3>1, <3>2
  <2>4. QED
      BY <2>1, <2>2, <2>3
<1>2. k \in Int /\ k >= 1
    OBVIOUS
<1>3. part * n - m * full = 4 * y
  <2> HIDE DEF w
  <2>1. part = m * u + 4 * w /\ full = n * u + 4 * w
      BY DEF w
  <2>2. QED
      BY <1>1, <2>1
<1> HIDE DEF w, k
<1>4. y \in Int /\ (y = 0 <=> w = 0)
  <2>1. CASE w = 0
      BY <1>2, <2>1
  <2>2. CASE w >= 1
    <3>1. w * k >= 1
        BY <1>1, <1>2, <2>2
    <3>2. QED
        BY <1>1, <1>2, <2>2, <3>1
  <2>3. CASE w <= -1
    <3>1. (-w) * k >= 1
        BY <1>1, <1>2, <2>3
    <3>2. (-w) * k = -(w * k)
        BY <1>1, <1>2
    <3>3. QED
        BY <1>1, <1>2, <2>3, <3>1, <3>2
  <2>4. QED
      BY <1>1, <2>1, <2>2, <2>3
<1> HIDE DEF y
<1>5. QED
    BY <1>1, <1>3, <1>4

\* The surface energy times the share of the atoms above the cut, and none for 0.
Half(c) == IF c.surface = 0 THEN None ELSE (c.surface * (Sites - Sites \div 2)) \div Sites

\* What run_property makes of the energies of a slab.
LEMMA SurfaceHalved ==
    ASSUME NEW t \in Task, SurfaceRun(t), t.n = 1, NEW out, OutputShape(t, 1, FALSE, out)
    PROVE  Surface(out) = Half(t.crystal)
<1> DEFINE c == t.crystal
           m == Sites \div 2
           d == c.guess - c.a
           u == c.ecoh[1] + d * d
<1>1. /\ \A name \in DOMAIN out : Prints(t, 1, FALSE, name, out[name])
      /\ {"e_bulk", "n_bulk", "area", "e_slab", "n_slab"} \subseteq DOMAIN out
    BY Zenon DEF OutputShape
<1>2. /\ "e_bulk" \in DOMAIN out /\ "n_bulk" \in DOMAIN out /\ "area" \in DOMAIN out
      /\ "e_slab" \in DOMAIN out /\ "n_slab" \in DOMAIN out
    BY <1>1
<1>3. /\ Get(out, "e_bulk", 0) = out["e_bulk"] /\ Get(out, "n_bulk", 1) = out["n_bulk"]
      /\ Get(out, "area", 1) = out["area"] /\ Get(out, "e_slab", 0) = out["e_slab"]
      /\ Get(out, "n_slab", 1) = out["n_slab"]
    BY Zenon, <1>2, GetFacts
<1>4. /\ out["n_bulk"] = Sites /\ out["area"] = c.area /\ out["n_slab"] = m
      /\ out["e_bulk"] = Slab(t, Sites) /\ out["e_slab"] = Slab(t, m)
    BY Zenon, <1>1, <1>2 DEF Prints, SlabPrints
<1> DEFINE excess == Slab(t, m) * Sites - m * Slab(t, Sites)
<1>5. Surface(out) = IF c.area > 0 /\ Sites > 0 /\ excess # 0
                     THEN excess \div (4 * c.area * Sites) ELSE None
    BY Zenon, <1>3, <1>4 DEF Surface
<1>6. /\ c.ecoh[1] \in Int /\ d \in Int /\ c.surface \in Int /\ c.area \in Int /\ c.area >= 1
      /\ Sites \in Int /\ Sites >= 1 /\ m \in Int
  <2>1. c.guess \in Int /\ c.a \in Int
      BY Zenon, CrystalNumbers
  <2>2. c.ecoh \in Seq(Int) /\ 1 <= Len(c.ecoh)
      BY CrystalNumbers, TaskTypes
  <2>3. c.ecoh[1] \in Int
      BY <2>2
  <2>4. d \in Int
      BY <2>1
  <2>5. Sites \in Int /\ Sites >= 1 /\ m \in Int
      BY SitesAssumption
  <2>6. c.surface \in Int /\ c.area \in Int /\ c.area >= 1
      BY Zenon, CrystalNumbers
  <2>7. QED
      BY Zenon, <2>3, <2>4, <2>5, <2>6
<1>7. ASSUME NEW k \in Int PROVE Slab(t, k) = k * u + 4 * (c.surface * c.area)
  <2> DEFINE e == c.ecoh[1]
             w == 4 * (c.surface * c.area)
  <2>1. Slab(t, k) = k * e + k * d * d + w
      BY Zenon DEF Slab
  <2>2. e \in Int /\ d \in Int
      BY Zenon, <1>6
  <2>3. u = e + d * d
      OBVIOUS
  <2>4. w \in Int
    <3> DEFINE x == c.surface
               y == c.area
    <3>1. x \in Int /\ y \in Int
        BY Zenon, <1>6
    <3> HIDE DEF x, y
    <3>2. 4 * (x * y) \in Int
        BY <3>1
    <3>3. QED
        BY <3>2 DEF x, y
  <2> HIDE DEF e, w, d, u
  <2>5. k * e + k * d * d + w = k * u + w
      BY <2>2, <2>3, <2>4
  <2>6. QED
      BY Zenon, <2>1, <2>5 DEF w
<1>8. u \in Int
  <2> DEFINE e == c.ecoh[1]
  <2>1. e \in Int /\ d \in Int
      BY Zenon, <1>6
  <2> HIDE DEF e, d
  <2>2. e + d * d \in Int
      BY <2>1
  <2>3. QED
      BY <2>2 DEF e
<1>9. Slab(t, Sites) = Sites * u + 4 * (c.surface * c.area) /\ Slab(t, m) = m * u + 4 * (c.surface * c.area)
    BY Zenon, <1>6, <1>7
<1> DEFINE sigma == c.surface
           area == c.area
           full == Slab(t, Sites)
           part == Slab(t, m)
<1>10. /\ sigma \in Int /\ area \in Int /\ area >= 1 /\ u \in Int /\ Sites \in Int /\ Sites >= 1 /\ m \in Int
       /\ full = Sites * u + 4 * (sigma * area) /\ part = m * u + 4 * (sigma * area)
    BY Zenon, <1>6, <1>8, <1>9
<1>11. Surface(out) = IF area > 0 /\ Sites > 0 /\ part * Sites - m * full # 0
                      THEN (part * Sites - m * full) \div (4 * area * Sites) ELSE None
    BY Zenon, <1>5
<1>12. Sites - m \in Int /\ Sites - m >= 1
    BY SitesAssumption
<1>13. Half(c) = IF sigma = 0 THEN None ELSE (sigma * (Sites - m)) \div Sites
    BY Zenon DEF Half
<1> HIDE DEF sigma, area, full, part, u, m, c, excess
<1>14. ShareLeft(sigma, area, Sites, m, full, part)
    BY <1>10, SlabArithmetic
<1>15. part * Sites - m * full # 0 <=> sigma # 0
    BY <1>10, <1>12, SlabDiffers
<1>16. area > 0 /\ Sites > 0
    BY <1>10
<1>17. QED
    BY Zenon, <1>11, <1>13, <1>14, <1>15, <1>16 DEF ShareLeft, c

\* Types of the box, wherever the process is.
LEMMA BoxTypes ==
    ASSUME NEW t \in Task, NEW k \in 1 .. Runs(t.property), NEW s, NEW p \in Nat, NEW b, BoxShape(t, k, s, p, b)
    PROVE  /\ \A i \in DOMAIN b.types : b.types[i] \in 0 .. Sites
           /\ \A j \in 1 .. 3 : b.strain[j] \in -1 .. 1
<1>1. b \in Box /\ StrainShape(k, s, p, b) /\ TypesShape(t, p, b)
    BY DEF BoxShape
<1>2. b.types \in Seq(Int)
    BY <1>1 DEF Box
<1>3. ASSUME NEW i \in DOMAIN b.types PROVE b.types[i] \in 0 .. Sites
  <2>1. CASE p < 2
    <3>1. b.types = <<>>
        BY <1>1, <2>1 DEF TypesShape
    <3>2. QED
        BY <3>1
  <2>2. CASE p >= 2
    <3>1. Len(b.types) = t.n /\ \A j \in 1 .. t.n : b.types[j] \in 0 .. Sites
        BY Zenon, <1>1, <2>2 DEF TypesShape
    <3>2. DOMAIN b.types = 1 .. t.n
        BY <1>2, <3>1
    <3>3. QED
        BY Zenon, <3>1, <3>2
  <2>3. QED
      BY <2>1, <2>2
<1>4. ASSUME NEW j \in 1 .. 3 PROVE b.strain[j] \in -1 .. 1
  <2>1. k \in 1 .. 7
      BY TaskKinds
  <2>2. Strains[k][j] \in {-1, 0, 1}
      BY <2>1, StrainRange
  <2>3. b.strain[j] = Strains[k][j] \/ b.strain[j] = 0
      BY Zenon, <1>1 DEF StrainShape
  <2>4. QED
      BY <2>2, <2>3
<1>5. QED
    BY <1>3, <1>4

\* What run_property returns, property by property.
LEMMA ComputedFacts ==
    ASSUME NEW t \in Task, NEW B, NEW outs, DOMAIN outs = 1 .. Runs(t.property),
           \A k \in 1 .. Runs(t.property) : OutputShape(t, k, k \in B, outs[k])
    PROVE  LET values1 == Computed(t, outs)
           IN  /\ \A name \in DOMAIN values1 : name \in Constant /\ values1[name] \in Int \cup {None}
               /\ B = {} /\ t.n = 1 /\ (LatticeRun(t) \/ StrainedRun(t)) =>
                      \A name \in DOMAIN values1 : values1[name] = CrystalsOwn(t.crystal, name)
               /\ VacancyRun(t) => values1["vacancy_formation_energy"] \in {0, None}
<1> DEFINE c == t.crystal
           vals == Computed(t, outs)
           out == outs[1]
<1>1. 1 \in 1 .. Runs(t.property)
    BY TaskKinds
<1>2. OutputShape(t, 1, 1 \in B, out)
    BY Zenon, <1>1
<1>3. \A name \in DOMAIN out : out[name] \in Int /\ Prints(t, 1, 1 \in B, name, out[name])
    BY Zenon, <1>2 DEF OutputShape
<1>4. \A name : Get(out, name, None) \in Int \cup {None}
    BY <1>3, GetFacts
<1> HIDE DEF vals
<1>5. CASE t.property = "lattice_constant"
  <2>1. vals = [lattice_constant |-> Get(out, "a", None)]
      BY <1>5 DEF Computed, vals
  <2>2. LatticeRun(t) /\ ~VacancyRun(t)
      BY <1>5 DEF LatticeRun, VacancyRun
  <2>3. DOMAIN vals = {"lattice_constant"} /\ vals["lattice_constant"] = Get(out, "a", None)
      BY <2>1
  <2>4. "a" \in DOMAIN out
      BY Zenon, <1>2, <2>2 DEF OutputShape
  <2>5. Get(out, "a", None) = c.a
    <3>1. out["a"] = c.a
        BY Zenon, <1>3, <2>2, <2>4 DEF Prints
    <3>2. QED
        BY Zenon, <2>4, <3>1, GetFacts
  <2>6. CrystalsOwn(c, "lattice_constant") = c.a /\ "lattice_constant" \in Constant
      BY DEF CrystalsOwn, Constant, Property
  <2>7. QED
      BY Zenon, <1>4, <2>2, <2>3, <2>5, <2>6 DEF vals
<1>6. CASE t.property = "cohesive_energy"
  <2>1. vals = [cohesive_energy |-> Get(out, "ecoh", None)]
      BY <1>6 DEF Computed, vals
  <2>2. LatticeRun(t) /\ ~VacancyRun(t)
      BY <1>6 DEF LatticeRun, VacancyRun
  <2>3. DOMAIN vals = {"cohesive_energy"} /\ vals["cohesive_energy"] = Get(out, "ecoh", None)
      BY <2>1
  <2>4. ASSUME B = {}, t.n = 1 PROVE Get(out, "ecoh", None) = c.ecoh[1] \div 2
    <3>1. ~(1 \in B)
        BY <2>4
    <3>2. "ecoh" \in DOMAIN out
        BY Zenon, <1>2, <2>2, <3>1 DEF OutputShape
    <3>3. out["ecoh"] = c.ecoh[1] \div 2
        BY Zenon, <1>3, <2>2, <2>4, <3>1, <3>2 DEF Prints
    <3>4. QED
        BY Zenon, <3>2, <3>3, GetFacts
  <2>5. CrystalsOwn(c, "cohesive_energy") = c.ecoh[1] \div 2 /\ "cohesive_energy" \in Constant
      BY DEF CrystalsOwn, Constant, Property
  <2>6. QED
      BY Zenon, <1>4, <2>2, <2>3, <2>4, <2>5 DEF vals
<1>7. ASSUME StrainedRun(t)
      PROVE  /\ DOMAIN Elastic(outs) = {"C11", "C12", "C44"}
             /\ Elastic(outs).C11 \in Int /\ Elastic(outs).C12 \in Int /\ Elastic(outs).C44 \in Int
             /\ B = {} => /\ Elastic(outs).C11 = c.C11
                          /\ Elastic(outs).C12 = c.C12
                          /\ Elastic(outs).C44 = c.C44
  <2>1. Runs(t.property) = 7
      BY <1>7, TaskKinds
  <2>2. DOMAIN outs = 1 .. 7 /\ \A k \in 1 .. 7 : OutputShape(t, k, k \in B, outs[k])
      BY Zenon, <2>1
  <2>3. QED
      BY Zenon, <1>7, <2>2, ElasticFacts
<1>8. CASE t.property = "elastic_constants"
  <2>1. vals = Elastic(outs)
      BY <1>8 DEF Computed, vals
  <2>2. StrainedRun(t) /\ ~LatticeRun(t) /\ ~VacancyRun(t)
      BY <1>8 DEF StrainedRun, LatticeRun, VacancyRun
  <2>3. /\ CrystalsOwn(c, "C11") = c["C11"] /\ CrystalsOwn(c, "C12") = c["C12"]
        /\ CrystalsOwn(c, "C44") = c["C44"]
        /\ "C11" \in Constant /\ "C12" \in Constant /\ "C44" \in Constant
      BY DEF CrystalsOwn, Constant, Property
  <2>4. \A name \in DOMAIN vals : name = "C11" \/ name = "C12" \/ name = "C44"
      BY <1>7, <2>1, <2>2
  <2>5. /\ vals["C11"] \in Int /\ vals["C12"] \in Int /\ vals["C44"] \in Int
        /\ B = {} => vals["C11"] = c["C11"] /\ vals["C12"] = c["C12"] /\ vals["C44"] = c["C44"]
      BY Zenon, <1>7, <2>1, <2>2
  <2>6. QED
      BY Zenon, <2>2, <2>3, <2>4, <2>5 DEF vals
<1>9. CASE t.property = "bulk_modulus"
  <2> DEFINE bulk == (Elastic(outs).C11 + 2 * Elastic(outs).C12) \div 3
  <2>1. vals = [bulk_modulus |-> bulk]
      BY <1>9 DEF Computed, vals
  <2>2. StrainedRun(t) /\ ~LatticeRun(t) /\ ~VacancyRun(t)
      BY <1>9 DEF StrainedRun, LatticeRun, VacancyRun
  <2>3. bulk \in Int
      BY <1>7, <2>2
  <2>4. B = {} => bulk = (c.C11 + 2 * c.C12) \div 3
      BY Zenon, <1>7, <2>2
  <2> HIDE DEF bulk
  <2>5. DOMAIN vals = {"bulk_modulus"} /\ vals["bulk_modulus"] = bulk
      BY <2>1
  <2>6. CrystalsOwn(c, "bulk_modulus") = (c.C11 + 2 * c.C12) \div 3 /\ "bulk_modulus" \in Constant
      BY DEF CrystalsOwn, Constant, Property
  <2>7. QED
      BY Zenon, <2>2, <2>3, <2>4, <2>5, <2>6 DEF vals
<1>10. CASE t.property = "vacancy_formation_energy"
  <2>1. vals = [vacancy_formation_energy |-> Get(out, "evf", None)]
      BY <1>10 DEF Computed, vals
  <2>2. VacancyRun(t) /\ ~LatticeRun(t) /\ ~StrainedRun(t)
      BY <1>10 DEF StrainedRun, LatticeRun, VacancyRun
  <2>3. DOMAIN vals = {"vacancy_formation_energy"}
        /\ vals["vacancy_formation_energy"] = Get(out, "evf", None)
      BY <2>1
  <2>4. Get(out, "evf", None) \in {0, None}
    <3>1. "evf" \in DOMAIN out => out["evf"] = 0 \/ out["evf"] = None
        BY Zenon, <1>3, <2>2 DEF Prints
    <3>2. QED
        BY <3>1, GetFacts
  <2>5. "vacancy_formation_energy" \in Constant
      BY DEF Constant, Property
  <2>6. QED
      BY Zenon, <1>4, <2>2, <2>3, <2>4, <2>5 DEF vals
<1>11. CASE t.property = "surface_energy"
  <2>1. vals = [surface_energy |-> Surface(out)]
      BY <1>11 DEF Computed, vals
  <2>2. SurfaceRun(t) /\ ~LatticeRun(t) /\ ~StrainedRun(t) /\ ~VacancyRun(t)
      BY <1>11 DEF SurfaceRun, StrainedRun, LatticeRun, VacancyRun
  <2>3. Surface(out) \in Int \cup {None}
      BY Zenon, <1>2, <2>2, SurfaceInt
  <2>4. DOMAIN vals = {"surface_energy"} /\ vals["surface_energy"] = Surface(out)
      BY <2>1
  <2>5. "surface_energy" \in Constant
      BY DEF Constant, Property
  <2>6. QED
      BY Zenon, <2>2, <2>3, <2>4, <2>5 DEF vals
<1>12. t.property \in Property
    BY TaskTypes
<1>13. QED
    BY Zenon, <1>5, <1>6, <1>8, <1>9, <1>10, <1>11, <1>12 DEF Property

-----------------------------------------------------------------------------
(* Theorems of LammpsScripts.                                              *)

\* What is returned, in every state where run_property has.
LEMMA DoneFacts ==
    ASSUME ScriptsInv, status = "done"
    PROVE  /\ \A name \in DOMAIN values : name \in Constant /\ values[name] \in Int \cup {None}
           /\ bad = {} /\ task.n = 1 /\ (LatticeRun(task) \/ StrainedRun(task)) =>
                  \A name \in DOMAIN values : values[name] = CrystalsOwn(task.crystal, name)
           /\ VacancyRun(task) => values["vacancy_formation_energy"] \in {0, None}
<1>1. /\ task \in Task /\ values = Computed(task, outputs) /\ Len(outputs) = Runs(task.property)
      /\ outputs = [k \in 1 .. Len(outputs) |-> outputs[k]]
      /\ \A k \in 1 .. Len(outputs) : OutputShape(task, k, k \in bad, outputs[k])
    BY Zenon DEF ScriptsInv
<1>2. DOMAIN outputs = 1 .. Runs(task.property)
    BY Zenon, <1>1
<1>3. \A k \in 1 .. Runs(task.property) : OutputShape(task, k, k \in bad, outputs[k])
    BY Zenon, <1>1
<1> DEFINE vals == Computed(task, outputs)
<1>4. /\ \A name \in DOMAIN vals : name \in Constant /\ vals[name] \in Int \cup {None}
      /\ bad = {} /\ task.n = 1 /\ (LatticeRun(task) \/ StrainedRun(task)) =>
             \A name \in DOMAIN vals : vals[name] = CrystalsOwn(task.crystal, name)
      /\ VacancyRun(task) => vals["vacancy_formation_energy"] \in {0, None}
  <2> DEFINE t == task
             outs == outputs
             B == bad
  <2>1. t \in Task /\ DOMAIN outs = 1 .. Runs(t.property)
      BY Zenon, <1>1, <1>2
  <2>2. \A k \in 1 .. Runs(t.property) : OutputShape(t, k, k \in B, outs[k])
      BY Zenon, <1>3
  <2> HIDE DEF t, outs, B
  <2>3. /\ \A name \in DOMAIN Computed(t, outs) : name \in Constant /\ Computed(t, outs)[name] \in Int \cup {None}
        /\ B = {} /\ t.n = 1 /\ (LatticeRun(t) \/ StrainedRun(t)) =>
               \A name \in DOMAIN Computed(t, outs) : Computed(t, outs)[name] = CrystalsOwn(t.crystal, name)
        /\ VacancyRun(t) => Computed(t, outs)["vacancy_formation_energy"] \in {0, None}
      BY <2>1, <2>2, ComputedFacts
  <2>4. QED
      BY Zenon, <2>3 DEF t, outs, B
<1>5. values = vals
    BY Zenon, <1>1
<1> HIDE DEF vals
<1>6. QED
    BY Zenon, <1>4, <1>5

\* Everything run_property keeps has its type: while a process runs, the atoms
\* and strains of its crystal; the lines it prints; the constants returned.
THEOREM ScriptsTyped == Spec => []TypeOK
<1>1. ASSUME ScriptsInv PROVE TypeOK
  <2>1. /\ task \in Task /\ status \in {"running", "failed", "done"} /\ box \in Box \cup {None}
        /\ lines \in Seq(Line(task)) /\ Len(outputs) \in 0 .. Runs(task.property)
        /\ bad \subseteq 1 .. Runs(task.property)
        /\ status # "done" => values = <<>>
      BY Zenon, <1>1 DEF ScriptsInv
  <2>2. ASSUME box # None
        PROVE  /\ \A i \in DOMAIN box.types : box.types[i] \in 0 .. Sites
               /\ \A k \in 1 .. 3 : box.strain[k] \in -1 .. 1
    <3>1. ProcessInv
        BY Zenon, <1>1, <2>2 DEF ScriptsInv
    <3>2. /\ Len(outputs) < Runs(task.property) /\ position \in 0 .. Len(script)
          /\ BoxShape(task, Process, script, position, box) /\ script = Script(task, Process)
        BY Zenon, <3>1 DEF ProcessInv
    <3>3. Process \in 1 .. Runs(task.property)
      <4>1. Runs(task.property) \in Nat
          BY <2>1, TaskKinds
      <4>2. QED
          BY <2>1, <3>2, <4>1 DEF Process
    <3>4. position \in Nat
      <4>1. ScriptShape(task, Process, script)
          BY Zenon, <2>1, <3>2, <3>3, ScriptFacts
      <4>2. Len(script) \in Nat
        <5>1. Len(script) = Len(Setup(task, Process)) + Len(Rest(task)) /\ Len(Setup(task, Process)) \in Nat
            BY <4>1 DEF ScriptShape
        <5>2. QED
            BY <2>1, <5>1, RestFacts
      <4>3. QED
          BY <3>2, <4>2
    <3>5. QED
        BY Zenon, <2>1, <3>2, <3>3, <3>4, BoxTypes
  <2>3. \A k \in DOMAIN lines : lines[k][2] \in Int \cup {None}
    <3>1. \A l \in Line(task) : l[2] \in Int \cup {None}
        BY DEF Line
    <3> DEFINE L == Line(task)
    <3> HIDE DEF L
    <3>2. lines \in Seq(L)
        BY <2>1 DEF L
    <3>3. \A k \in DOMAIN lines : lines[k] \in L
        BY <3>2
    <3>4. QED
        BY Zenon, <3>1, <3>3 DEF L
  <2>4. Len(outputs) <= Runs(task.property)
    <3>1. Runs(task.property) \in Nat
        BY <2>1, TaskKinds
    <3>2. QED
        BY <2>1, <3>1
  <2>5. values = <<>> \/ \A name \in DOMAIN values : name \in Constant /\ values[name] \in Int \cup {None}
      BY Zenon, <1>1, <2>1, DoneFacts
  <2>6. QED
      BY Zenon, <2>1, <2>2, <2>3, <2>4, <2>5 DEF TypeOK
<1>2. QED
    BY <1>1, ScriptsInductive, PTL

\* Whatever the crystal, its size and where its lattice starts: of an element,
\* processes that print numbers lead to the crystal's own lattice constant,
\* cohesive energy, elastic constants and bulk modulus.
THEOREM CrystalIsFound == Spec => []ValuesAreCrystals
<1>1. ASSUME ScriptsInv PROVE ValuesAreCrystals
  <2> SUFFICES ASSUME status = "done", bad = {}, task.n = 1,
                      task.property \notin {"vacancy_formation_energy", "surface_energy"}
               PROVE  \A name \in DOMAIN values : values[name] = CrystalsOwn(task.crystal, name)
      BY DEF ValuesAreCrystals
  <2>1. task \in Task
      BY <1>1 DEF ScriptsInv
  <2>2. LatticeRun(task) \/ StrainedRun(task)
      BY <2>1, TaskKinds DEF VacancyRun, SurfaceRun
  <2>3. QED
      BY Zenon, <1>1, <2>2, DoneFacts
<1>2. QED
    BY <1>1, ScriptsInductive, PTL

\* Whatever the crystal, of an element and with processes that print numbers, the
\* surface energy is that of the crystal times the share of the atoms above the
\* cut, which is half or little more: the difference takes off the two surfaces
\* that the box of the reference energy has.
THEOREM SurfaceIsHalved ==
    Spec => [](status = "done" /\ bad = {} /\ task.n = 1 /\ task.property = "surface_energy"
                   => values["surface_energy"] = Half(task.crystal))
<1>1. ASSUME ScriptsInv, status = "done", bad = {}, task.n = 1, task.property = "surface_energy"
      PROVE  values["surface_energy"] = Half(task.crystal)
  <2>1. /\ task \in Task /\ values = Computed(task, outputs) /\ Len(outputs) = Runs(task.property)
        /\ \A k \in 1 .. Len(outputs) : OutputShape(task, k, k \in bad, outputs[k])
      BY Zenon, <1>1 DEF ScriptsInv
  <2>2. 1 \in 1 .. Len(outputs)
      BY <2>1, TaskKinds
  <2>3. OutputShape(task, 1, FALSE, outputs[1])
    <3>1. (1 \in bad) = FALSE
        BY <1>1
    <3>2. OutputShape(task, 1, 1 \in bad, outputs[1])
        BY Zenon, <2>1, <2>2
    <3>3. QED
        BY Zenon, <3>1, <3>2
  <2>4. Surface(outputs[1]) = Half(task.crystal)
      BY <1>1, <2>1, <2>3, SurfaceHalved DEF SurfaceRun
  <2>5. values = [surface_energy |-> Surface(outputs[1])]
      BY <1>1, <2>1 DEF Computed
  <2>6. QED
      BY <2>4, <2>5
<1>2. ScriptsInv =>
          (status = "done" /\ bad = {} /\ task.n = 1 /\ task.property = "surface_energy"
               => values["surface_energy"] = Half(task.crystal))
    BY <1>1
<1>3. QED
    BY <1>2, ScriptsInductive, PTL

\* Whatever the crystal, a vacancy costs nothing or is not known: the variable of
\* the script is evaluated when it is printed, and then natom and natom2, and the
\* two energies, are the same.
THEOREM VacancyIsFree ==
    Spec => [](status = "done" /\ task.property = "vacancy_formation_energy"
                   => values["vacancy_formation_energy"] \in {0, None})
<1>1. ASSUME ScriptsInv
      PROVE  status = "done" /\ task.property = "vacancy_formation_energy"
                 => values["vacancy_formation_energy"] \in {0, None}
    BY Zenon, <1>1, DoneFacts DEF VacancyRun
<1>2. QED
    BY <1>1, ScriptsInductive, PTL

-----------------------------------------------------------------------------
(* Energies that are lost.                                                 *)

\* The energy that run_property takes from an output: 0 if there is none.
LEMMA OutputEnergy ==
    ASSUME NEW t \in Task, StrainedRun(t), NEW k, NEW nan, NEW out, OutputShape(t, k, nan, out)
    PROVE  Get(out, "e", 0) = IF nan THEN 0 ELSE Strained(t, k)
<1>1. /\ \A name \in DOMAIN out : out[name] \in Int /\ Prints(t, k, nan, name, out[name])
      /\ ~nan => "e" \in DOMAIN out
    BY Zenon DEF OutputShape
<1>2. CASE "e" \in DOMAIN out
  <2>1. Get(out, "e", 0) = out["e"] /\ out["e"] \in Int
      BY Zenon, <1>1, <1>2, GetFacts
  <2>2. out["e"] = IF nan THEN None ELSE Strained(t, k)
      BY Zenon, <1>1, <1>2 DEF Prints
  <2>3. QED
      BY <2>1, <2>2, NoneAssumption
<1>3. CASE "e" \notin DOMAIN out
  <2>1. Get(out, "e", 0) = 0
      BY Zenon, <1>3, GetFacts
  <2>2. QED
      BY <1>1, <1>3, <2>1
<1>4. QED
    BY <1>2, <1>3

\* An energy that may be lost.
Left(B, k, e) == IF k \in B THEN 0 ELSE e

\* What the energies left tell: a second difference with an energy lost is 0 or
\* at least w, unless one of each sign is missing.
Tells(B, e1, e2, e3, e4, e5, e6, e7, w) ==
    /\ 1 \in B \/ 2 \in B \/ 3 \in B => e2 - 2 * e1 + e3 = 0 \/ Size(e2 - 2 * e1 + e3) >= w
    /\ 1 \in B \/ 6 \in B \/ 7 \in B => e6 - 2 * e1 + e7 = 0 \/ Size(e6 - 2 * e1 + e7) >= w
    /\ 1 \in B \/ 2 \in B \/ 4 \in B \/ 5 \in B
         => \/ e5 - e2 - e4 + e1 = 0 \/ Size(e5 - e2 - e4 + e1) >= w
            \/ (1 \in B <=> 5 \notin B) /\ (2 \in B <=> 4 \notin B)

\* The energies are that of the first cell, e, and multiples of the slope p and
\* the constants a, b and g.
AllTell(B, e, p, a, b, g, w) ==
    Tells(B, Left(B, 1, e), Left(B, 2, e + 2 * p + a), Left(B, 3, e - 2 * p + a), Left(B, 4, e + 2 * p + a),
          Left(B, 5, e + 4 * p + 2 * a + 2 * b), Left(B, 6, e + g), Left(B, 7, e + g), w)

\* They do if the first energy is that far above the rest.
LEMMA DifferencesLeft ==
    ASSUME NEW e \in Int, NEW p \in Int, NEW a \in Int, NEW b \in Int, NEW g \in Int, NEW w \in Int, w >= 1,
           Size(e) >= 8 * Size(p) + 4 * Size(a) + 4 * Size(b) + 4 * Size(g) + w,
           NEW B
    PROVE  AllTell(B, e, p, a, b, g, w)
<1> DEFINE e1 == Left(B, 1, e)
           e2 == Left(B, 2, e + 2 * p + a)
           e3 == Left(B, 3, e - 2 * p + a)
           e4 == Left(B, 4, e + 2 * p + a)
           e5 == Left(B, 5, e + 4 * p + 2 * a + 2 * b)
           e6 == Left(B, 6, e + g)
           e7 == Left(B, 7, e + g)
<1> USE DEF Size, Distance, Left
<1>1. ASSUME 1 \in B \/ 2 \in B \/ 3 \in B PROVE e2 - 2 * e1 + e3 = 0 \/ Size(e2 - 2 * e1 + e3) >= w
    BY <1>1
<1>2. ASSUME 1 \in B \/ 6 \in B \/ 7 \in B PROVE e6 - 2 * e1 + e7 = 0 \/ Size(e6 - 2 * e1 + e7) >= w
    BY <1>2
<1>3. ASSUME 1 \in B \/ 2 \in B \/ 4 \in B \/ 5 \in B, ~((1 \in B <=> 5 \notin B) /\ (2 \in B <=> 4 \notin B))
      PROVE  e5 - e2 - e4 + e1 = 0 \/ Size(e5 - e2 - e4 + e1) >= w
    BY <1>3
<1> HIDE DEF Size, Distance, Left, e1, e2, e3, e4, e5, e6, e7
<1>4. Tells(B, e1, e2, e3, e4, e5, e6, e7, w)
    BY Zenon, <1>1, <1>2, <1>3 DEF Tells
<1>5. QED
    BY Zenon, <1>4 DEF AllTell, e1, e2, e3, e4, e5, e6, e7

\* A quotient of 0 or far from the reference gets an F.
LEMMA FarIsF ==
    ASSUME NEW n \in Int, NEW d \in Int, d >= 1, NEW r \in Int, n = 0 \/ Size(n) >= d * (2 * Size(r) + 1)
    PROVE  run_grade(n \div d, r) = "F"
<1> DEFINE q == n \div d
<1>1. q \in Int /\ q * d <= n /\ n < q * d + d
    OBVIOUS
<1> HIDE DEF q
<1>2. r # None
    BY NoneAssumption
<1>3. CASE r = 0
    BY <1>2, <1>3 DEF run_grade, q
<1>4. ASSUME r # 0 PROVE run_grade(q, r) = "F"
  <2>1. q = 0 \/ q >= 2 * Size(r) + 1 \/ q <= 0 - (2 * Size(r) + 1)
    <3> DEFINE m == 2 * Size(r) + 1
    <3>1. m \in Int /\ m >= 1
        BY DEF Size, Distance
    <3> HIDE DEF m
    <3>2. CASE n = 0
      <4>1. q = 0
          BY <1>1, <3>2
      <4>2. QED
          BY <4>1
    <3>3. CASE n >= d * m
      <4>1. ~(q <= m - 1)
        <5> SUFFICES ASSUME q <= m - 1 PROVE FALSE
            OBVIOUS
        <5>1. q * d <= (m - 1) * d
            BY <1>1, <3>1
        <5>2. QED
            BY <1>1, <3>1, <3>3, <5>1
      <4>2. QED
          BY <1>1, <3>1, <4>1 DEF m
    <3>4. CASE n <= 0 - d * m
      <4>1. ~(q >= 1 - m)
        <5> SUFFICES ASSUME q >= 1 - m PROVE FALSE
            OBVIOUS
        <5>1. q * d >= (1 - m) * d
            BY <1>1, <3>1
        <5>2. QED
            BY <1>1, <3>1, <3>4, <5>1
      <4>2. QED
          BY <1>1, <3>1, <4>1 DEF m
    <3>5. n = 0 \/ n >= d * m \/ n <= 0 - d * m
      <4>1. d * m \in Int
          BY <3>1
      <4>2. n = 0 \/ Size(n) >= d * m
          BY DEF m
      <4>3. QED
          BY <4>1, <4>2 DEF Size, Distance
    <3>6. QED
        BY <3>2, <3>3, <3>4, <3>5
  <2>2. Size(r) \in Int /\ Size(r) >= 1 /\ (r = Size(r) \/ r = 0 - Size(r))
      BY <1>4 DEF Size, Distance
  <2>3. 100 * Distance(q, r) > 20 * Size(r)
    <3> DEFINE s == Size(r)
    <3>1. s \in Int /\ s >= 1 /\ (r = s \/ r = 0 - s) /\ (q = 0 \/ q >= 2 * s + 1 \/ q <= 0 - (2 * s + 1))
        BY <2>1, <2>2
    <3> HIDE DEF s
    <3>2. 100 * Distance(q, r) > 20 * s
        BY <1>1, <3>1 DEF Distance
    <3>3. QED
        BY <3>2 DEF s
  <2>4. ~Within(q, r, 2) /\ ~Within(q, r, 5) /\ ~Within(q, r, 10) /\ ~Within(q, r, 20)
    <3>1. Distance(q, r) \in Int
        BY <1>1 DEF Distance
    <3>2. QED
        BY <2>2, <2>3, <3>1 DEF Within
  <2>5. Letter(q, r, 2, 5, 10, 20) = "F"
      BY <2>4 DEF Letter
  <2>6. QED
      BY <1>2, <1>4, <2>5 DEF run_grade
<1>5. QED
    BY <1>3, <1>4 DEF q

\* The strained energies, as what DifferencesLeft asks for.
LEMMA StrainedParts ==
    ASSUME NEW t \in Task, StrainedRun(t)
    PROVE  LET c == t.crystal
               e == Strained(t, 1)
               p == c.volume * c.stress
               a == c.volume * c.C11
               b == c.volume * c.C12
               g == c.volume * c.C44
           IN  /\ e \in Int /\ p \in Int /\ a \in Int /\ b \in Int /\ g \in Int
               /\ c.volume \in Int /\ c.volume >= 1
               /\ e = Sites * (c.ecoh[1] + (c.guess - c.a) * (c.guess - c.a))
               /\ Strained(t, 2) = e + 2 * p + a /\ Strained(t, 3) = e - 2 * p + a
               /\ Strained(t, 4) = e + 2 * p + a /\ Strained(t, 5) = e + 4 * p + 2 * a + 2 * b
               /\ Strained(t, 6) = e + g /\ Strained(t, 7) = e + g
<1> DEFINE c == t.crystal
           e == Strained(t, 1)
           v == c.volume
           s == c.stress
           x == c.C11
           y == c.C12
           z == c.C44
<1>1. /\ e \in Int /\ v \in Int /\ v >= 1 /\ s \in Int /\ x \in Int /\ y \in Int /\ z \in Int
      /\ Strained(t, 2) = e + v * (2 * s + x) /\ Strained(t, 3) = e + v * (x - 2 * s)
      /\ Strained(t, 4) = e + v * (2 * s + x) /\ Strained(t, 5) = e + v * (4 * s + 2 * x + 2 * y)
      /\ Strained(t, 6) = e + v * z /\ Strained(t, 7) = e + v * z
    BY Zenon, StrainedValues
<1>2. e = Sites * (c.ecoh[1] + (c.guess - c.a) * (c.guess - c.a))
  <2> DEFINE d == c.guess - c.a
             h == c.ecoh[1]
             q == Quadratic(c, 0, 0, 0)
  <2>1. Sites \in Int /\ h \in Int /\ d \in Int /\ v \in Int
    <3>1. c.ecoh \in Seq(Int) /\ t.n <= Len(c.ecoh) /\ t.n >= 1 /\ t.n \in Nat
        BY CrystalNumbers, TaskTypes DEF c
    <3>2. c.guess \in Int /\ c.a \in Int
        BY Zenon, CrystalNumbers DEF c
    <3>3. h \in Int
        BY <3>1
    <3>4. d \in Int
        BY <3>2
    <3> HIDE DEF h, d, v
    <3>5. QED
        BY <1>1, <3>3, <3>4, SitesAssumption
  <2>2. e = Sites * h + Sites * d * d + q
    <3>1. Strains[1][1] = 0 /\ Strains[1][2] = 0 /\ Strains[1][3] = 0
        BY DEF Strains
    <3>2. QED
        BY <3>1 DEF Strained, Quadratic
  <2>3. q = 0
    <3> HIDE DEF v, s, x, y, z
    <3>1. q = v * (2 * s * (0 + 0) + x * (0 * 0 + 0 * 0) + 2 * y * 0 * 0 + z * 0 * 0)
        BY DEF Quadratic, v, s, x, y, z
    <3>2. QED
        BY <1>1, <3>1
  <2> HIDE DEF d, h, q, e
  <2>4. e = Sites * (h + d * d)
      BY <2>1, <2>2, <2>3
  <2>5. QED
      BY <2>4 DEF d, h
<1> HIDE DEF e, v, s, x, y, z
<1>3. /\ v * s \in Int /\ v * x \in Int /\ v * y \in Int /\ v * z \in Int
      /\ v * (2 * s + x) = 2 * (v * s) + v * x /\ v * (x - 2 * s) = v * x - 2 * (v * s)
      /\ v * (4 * s + 2 * x + 2 * y) = 4 * (v * s) + 2 * (v * x) + 2 * (v * y)
    BY <1>1
<1> DEFINE p == v * s
           a == v * x
           b == v * y
           g == v * z
<1>4. /\ p \in Int /\ a \in Int /\ b \in Int /\ g \in Int
      /\ Strained(t, 2) = e + (2 * p + a) /\ Strained(t, 3) = e + (a - 2 * p)
      /\ Strained(t, 4) = e + (2 * p + a) /\ Strained(t, 5) = e + (4 * p + 2 * a + 2 * b)
      /\ Strained(t, 6) = e + g /\ Strained(t, 7) = e + g
    BY <1>1, <1>3
<1> HIDE DEF p, a, b, g
<1>5. /\ Strained(t, 2) = e + 2 * p + a /\ Strained(t, 3) = e - 2 * p + a
      /\ Strained(t, 4) = e + 2 * p + a /\ Strained(t, 5) = e + 4 * p + 2 * a + 2 * b
    BY <1>1, <1>4
<1>6. QED
    BY Zenon, <1>1, <1>2, <1>4, <1>5 DEF e, v, s, x, y, z, p, a, b, g

\* The bound of the assumption on strains, part by part.
PartsAddUp(v, s, x, y, z, r) ==
    v * (8 * Size(s) + 4 * (Size(x) + Size(y) + Size(z)) + 4 * Size(r) + 2)
        = 8 * Size(v * s) + 4 * Size(v * x) + 4 * Size(v * y) + 4 * Size(v * z) + 2 * v * (2 * Size(r) + 1)

\* They do, since volumes are positive.
LEMMA StrainsBound ==
    ASSUME NEW v \in Int, v >= 1, NEW s \in Int, NEW x \in Int, NEW y \in Int, NEW z \in Int, NEW r \in Int
    PROVE  PartsAddUp(v, s, x, y, z, r)
<1>1. ASSUME NEW m \in Int PROVE Size(m) \in Int /\ v * m \in Int /\ Size(v * m) = v * Size(m)
  <2>1. CASE m >= 0
    <3>1. v * m >= 0 /\ v * m \in Int
        BY <2>1
    <3>2. Size(m) = m /\ Size(v * m) = v * m
        BY <2>1, <3>1 DEF Size, Distance
    <3>3. QED
        BY <3>1, <3>2
  <2>2. CASE m < 0
    <3>1. v * m < 0 /\ v * m \in Int
        BY <2>2
    <3>2. Size(m) = 0 - m /\ Size(v * m) = 0 - v * m
        BY <2>2, <3>1 DEF Size, Distance
    <3>3. v * (0 - m) = 0 - v * m
        OBVIOUS
    <3>4. QED
        BY <3>1, <3>2, <3>3
  <2>3. QED
      BY <2>1, <2>2
<1> DEFINE S == Size(s)
           X == Size(x)
           Y == Size(y)
           Z == Size(z)
           R == Size(r)
<1>2. S \in Int /\ X \in Int /\ Y \in Int /\ Z \in Int /\ R \in Int
    BY <1>1
<1>3. Size(v * s) = v * S /\ Size(v * x) = v * X /\ Size(v * y) = v * Y /\ Size(v * z) = v * Z
    BY <1>1
<1> HIDE DEF S, X, Y, Z, R
<1>4. v * (8 * S + 4 * (X + Y + Z) + 4 * R + 2)
          = 8 * (v * S) + 4 * (v * X) + 4 * (v * Y) + 4 * (v * Z) + 2 * v * (2 * R + 1)
    BY <1>2
<1>5. QED
    BY <1>3, <1>4 DEF PartsAddUp, S, X, Y, Z, R

\* The number each constant is, when energies of B are lost.
LEMMA ElasticLeft ==
    ASSUME NEW t \in Task, StrainedRun(t), NEW B, NEW outs, DOMAIN outs = 1 .. 7,
           \A k \in 1 .. 7 : OutputShape(t, k, k \in B, outs[k])
    PROVE  LET E(k) == Left(B, k, Strained(t, k))
               V == 2 * t.crystal.volume
           IN  /\ Elastic(outs)["C11"] = (E(2) - 2 * E(1) + E(3)) \div V
               /\ Elastic(outs)["C12"] = (E(5) - E(2) - E(4) + E(1)) \div V
               /\ Elastic(outs)["C44"] = (E(6) - 2 * E(1) + E(7)) \div V
<1> DEFINE E == [k \in DOMAIN outs |-> Get(outs[k], "e", 0)]
           V == 2 * Get(outs[1], "v", 1)
           C11 == (E[2] - 2 * E[1] + E[3]) \div V
           C12 == (E[5] - E[2] - E[4] + E[1]) \div V
           C44 == (E[6] - 2 * E[1] + E[7]) \div V
<1>1. Elastic(outs) = [C11 |-> C11, C12 |-> C12, C44 |-> C44]
    BY Zenon DEF Elastic
<1>2. Get(outs[1], "v", 1) = t.crystal.volume
  <2>1. 1 \in 1 .. 7
      OBVIOUS
  <2>2. OutputShape(t, 1, 1 \in B, outs[1])
      BY Zenon, <2>1
  <2>3. "v" \in DOMAIN outs[1] /\ Prints(t, 1, 1 \in B, "v", outs[1]["v"])
      BY Zenon, <2>2 DEF OutputShape
  <2>4. outs[1]["v"] = t.crystal.volume
      BY Zenon, <2>3 DEF Prints
  <2>5. QED
      BY Zenon, <2>3, <2>4, GetFacts
<1>3. ASSUME NEW k \in 1 .. 7 PROVE E[k] = Left(B, k, Strained(t, k))
  <2>1. OutputShape(t, k, k \in B, outs[k])
      OBVIOUS
  <2>2. Get(outs[k], "e", 0) = IF k \in B THEN 0 ELSE Strained(t, k)
      BY Zenon, <2>1, OutputEnergy
  <2>3. QED
      BY <2>2 DEF Left
<1>4. /\ E[1] = Left(B, 1, Strained(t, 1)) /\ E[2] = Left(B, 2, Strained(t, 2))
      /\ E[3] = Left(B, 3, Strained(t, 3)) /\ E[4] = Left(B, 4, Strained(t, 4))
      /\ E[5] = Left(B, 5, Strained(t, 5)) /\ E[6] = Left(B, 6, Strained(t, 6))
      /\ E[7] = Left(B, 7, Strained(t, 7))
  <2> HIDE DEF E
  <2>1. 1 \in 1 .. 7 /\ 2 \in 1 .. 7 /\ 3 \in 1 .. 7 /\ 4 \in 1 .. 7 /\ 5 \in 1 .. 7 /\ 6 \in 1 .. 7 /\ 7 \in 1 .. 7
      OBVIOUS
  <2>2. QED
      BY Zenon, <1>3, <2>1
<1> HIDE DEF C11, C12, C44, E
<1>5. Elastic(outs)["C11"] = C11 /\ Elastic(outs)["C12"] = C12 /\ Elastic(outs)["C44"] = C44
    BY <1>1
<1>6. QED
    BY Zenon, <1>2, <1>4, <1>5 DEF C11, C12, C44

\* What the strains cost is little beside the energy of the atoms.
StrainsLittle(c, r) ==
    Size(Sites * (c.ecoh[1] + (c.guess - c.a) * (c.guess - c.a)))
      >= c.volume * (8 * Size(c.stress) + 4 * (Size(c.C11) + Size(c.C12) + Size(c.C44)) + 4 * Size(r) + 2)

\* A constant computed without an energy is graded F, whatever the reference,
\* unless one energy of each sign is missing in C12.
LostGraded(B, outs, r) ==
    /\ 1 \in B \/ 2 \in B \/ 3 \in B => run_grade(Elastic(outs)["C11"], r) = "F"
    /\ 1 \in B \/ 2 \in B \/ 4 \in B \/ 5 \in B
         => \/ run_grade(Elastic(outs)["C12"], r) = "F"
            \/ (1 \in B <=> 5 \notin B) /\ (2 \in B <=> 4 \notin B)
    /\ 1 \in B \/ 6 \in B \/ 7 \in B => run_grade(Elastic(outs)["C44"], r) = "F"

\* So it is, by the assumption on strains.
LEMMA LostGrades ==
    ASSUME NEW t \in Task, StrainedRun(t), NEW B, NEW outs, DOMAIN outs = 1 .. 7,
           \A k \in 1 .. 7 : OutputShape(t, k, k \in B, outs[k]),
           NEW r \in Int, StrainsLittle(t.crystal, r)
    PROVE  LostGraded(B, outs, r)
<1> DEFINE c == t.crystal
           v == c.volume
           e == Strained(t, 1)
           p == v * c.stress
           a == v * c.C11
           b == v * c.C12
           g == v * c.C44
           w == 2 * v * (2 * Size(r) + 1)
           E(k) == Left(B, k, Strained(t, k))
           V == 2 * v
<1>1. /\ e \in Int /\ p \in Int /\ a \in Int /\ b \in Int /\ g \in Int /\ v \in Int /\ v >= 1
      /\ e = Sites * (c.ecoh[1] + (c.guess - c.a) * (c.guess - c.a))
      /\ Strained(t, 2) = e + 2 * p + a /\ Strained(t, 3) = e - 2 * p + a
      /\ Strained(t, 4) = e + 2 * p + a /\ Strained(t, 5) = e + 4 * p + 2 * a + 2 * b
      /\ Strained(t, 6) = e + g /\ Strained(t, 7) = e + g
    BY Zenon, StrainedParts
<1>2. c.stress \in Int /\ c.C11 \in Int /\ c.C12 \in Int /\ c.C44 \in Int
    BY Zenon, CrystalNumbers
<1>3. PartsAddUp(v, c.stress, c.C11, c.C12, c.C44, r)
    BY Zenon, <1>1, <1>2, StrainsBound
<1>4. Size(e) >= 8 * Size(p) + 4 * Size(a) + 4 * Size(b) + 4 * Size(g) + w
    BY Zenon, <1>1, <1>3 DEF PartsAddUp, StrainsLittle
<1>5. Size(r) \in Int /\ Size(r) >= 0
    BY DEF Size, Distance
<1>6. w \in Int /\ w >= 1 /\ V \in Int /\ V >= 1 /\ w = V * (2 * Size(r) + 1)
  <2> DEFINE m == 2 * Size(r) + 1
  <2>1. m \in Int /\ m >= 1
      BY <1>5
  <2> HIDE DEF m, v
  <2>2. 2 * v \in Int /\ 2 * v >= 1
      BY <1>1
  <2> DEFINE V2 == 2 * v
  <2> HIDE DEF V2
  <2>3. V2 * m \in Int /\ V2 * m >= 1
      BY <2>1, <2>2 DEF V2
  <2>4. QED
      BY <2>2, <2>3 DEF m, V2
<1> HIDE DEF c, v, e, p, a, b, g, w
<1>7. /\ E(1) = Left(B, 1, e) /\ E(2) = Left(B, 2, e + 2 * p + a) /\ E(3) = Left(B, 3, e - 2 * p + a)
      /\ E(4) = Left(B, 4, e + 2 * p + a) /\ E(5) = Left(B, 5, e + 4 * p + 2 * a + 2 * b)
      /\ E(6) = Left(B, 6, e + g) /\ E(7) = Left(B, 7, e + g)
  <2>1. E(1) = Left(B, 1, e)
      BY Zenon DEF e
  <2>2. QED
      BY Zenon, <1>1, <2>1
<1>8. /\ E(1) \in Int /\ E(2) \in Int /\ E(3) \in Int /\ E(4) \in Int /\ E(5) \in Int /\ E(6) \in Int
      /\ E(7) \in Int
  <2>1. \A k, m : m \in Int => Left(B, k, m) \in Int
      BY DEF Left
  <2>2. /\ e + 2 * p + a \in Int /\ e - 2 * p + a \in Int /\ e + 4 * p + 2 * a + 2 * b \in Int /\ e + g \in Int
      BY <1>1
  <2> HIDE DEF E
  <2>3. QED
      BY Zenon, <1>1, <1>7, <2>1, <2>2
<1> HIDE DEF E, V
<1>9. /\ Elastic(outs)["C11"] = (E(2) - 2 * E(1) + E(3)) \div V
      /\ Elastic(outs)["C12"] = (E(5) - E(2) - E(4) + E(1)) \div V
      /\ Elastic(outs)["C44"] = (E(6) - 2 * E(1) + E(7)) \div V
    BY Zenon, ElasticLeft DEF E, V, v, c
<1> DEFINE n11 == E(2) - 2 * E(1) + E(3)
           n12 == E(5) - E(2) - E(4) + E(1)
           n44 == E(6) - 2 * E(1) + E(7)
<1>10. n11 \in Int /\ n12 \in Int /\ n44 \in Int
    BY <1>8
<1>11. /\ 1 \in B \/ 2 \in B \/ 3 \in B => n11 = 0 \/ Size(n11) >= w
       /\ 1 \in B \/ 6 \in B \/ 7 \in B => n44 = 0 \/ Size(n44) >= w
       /\ 1 \in B \/ 2 \in B \/ 4 \in B \/ 5 \in B
            => \/ n12 = 0 \/ Size(n12) >= w
               \/ (1 \in B <=> 5 \notin B) /\ (2 \in B <=> 4 \notin B)
  <2>1. AllTell(B, e, p, a, b, g, w)
      BY <1>1, <1>4, <1>6, DifferencesLeft
  <2>2. Tells(B, E(1), E(2), E(3), E(4), E(5), E(6), E(7), w)
      BY Zenon, <1>7, <2>1 DEF AllTell
  <2>3. QED
      BY Zenon, <2>2 DEF Tells
<1> HIDE DEF n11, n12, n44
<1>12. \A n \in Int : n = 0 \/ Size(n) >= w => run_grade(n \div V, r) = "F"
    BY <1>6, FarIsF
<1>13. /\ Elastic(outs)["C11"] = n11 \div V /\ Elastic(outs)["C12"] = n12 \div V /\ Elastic(outs)["C44"] = n44 \div V
    BY Zenon, <1>9 DEF n11, n12, n44
<1>14. QED
    BY Zenon, <1>10, <1>11, <1>12, <1>13 DEF LostGraded

\* The references of the elastic constants: integers, if there are any.
LEMMA ReferenceFacts ==
    ASSUME NEW t \in Task, NEW name \in {"C11", "C12", "C44"}
    PROVE  LET r == Reference(t, name)
           IN  r \in Int \cup {None} /\ (r # None => StrainsLittle(t.crystal, r))
<1> DEFINE c == t.crystal
           d == t.deviation
           r == Reference(t, name)
<1>1. c \in Crystals /\ d \in Deviations
    BY DEF Task
<1>2. r = Reference([crystal |-> c, deviation |-> d], name)
    BY DEF Reference
<1>3. r \in Int \cup {None}
  <2>1. CASE d = None
      BY <2>1 DEF Reference
  <2>2. CASE d # None
    <3>1. d \in Int
        BY <1>1, <2>2, DeviationsAssumption
    <3>2. CrystalsOwn(c, name) = c[name]
        BY DEF CrystalsOwn
    <3>3. c[name] \in Int
        BY CrystalNumbers
    <3>4. r = (CrystalsOwn(c, name) * (100 + d)) \div 100
        BY <2>2 DEF Reference
    <3> DEFINE own == CrystalsOwn(c, name)
    <3>5. own \in Int
        BY <3>2, <3>3
    <3> HIDE DEF own, d, r
    <3>6. own * (100 + d) \in Int
        BY <3>1, <3>5
    <3>7. QED
        BY <3>4, <3>6 DEF own
  <2>3. QED
      BY <2>1, <2>2
<1>4. QED
    BY Zenon, <1>1, <1>2, <1>3, StrainsAreSmall DEF StrainsLittle

\* One energy of each sign is missing: that is what may hide.
LEMMA OneOfEach ==
    ASSUME NEW B, 1 \in B <=> 5 \notin B, 2 \in B <=> 4 \notin B
    PROVE  LET lost == B \cap DOMAIN Uses["C12"]
           IN  Cardinality(lost) = 2 /\ \E j, k \in lost : Uses["C12"][j] # Uses["C12"][k]
<1> DEFINE lost == B \cap DOMAIN Uses["C12"]
<1>1. DOMAIN Uses["C12"] = {1, 2, 4, 5}
    BY DEF Uses
<1>2. Uses["C12"][1] = 1 /\ Uses["C12"][5] = 1 /\ Uses["C12"][2] = -1 /\ Uses["C12"][4] = -1
    BY DEF Uses
<1>3. PICK j \in {1, 5}, k \in {2, 4} : lost = {j, k}
  <2>1. CASE 1 \in B /\ 2 \in B
    <3>1. lost = {1, 2}
        BY <1>1, <2>1
    <3>2. QED
        BY <3>1
  <2>2. CASE 1 \in B /\ 2 \notin B
    <3>1. lost = {1, 4}
        BY <1>1, <2>2
    <3>2. QED
        BY <3>1
  <2>3. CASE 1 \notin B /\ 2 \in B
    <3>1. lost = {5, 2}
        BY <1>1, <2>3
    <3>2. QED
        BY <3>1
  <2>4. CASE 1 \notin B /\ 2 \notin B
    <3>1. lost = {5, 4}
        BY <1>1, <2>4
    <3>2. QED
        BY <3>1
  <2>5. QED
      BY <2>1, <2>2, <2>3, <2>4
<1>4. Cardinality({j, k}) = 2
  <2>1. IsFiniteSet({j}) /\ Cardinality({j}) = 1
      BY Zenon, FS_Singleton
  <2>2. k \notin {j}
      OBVIOUS
  <2>3. Cardinality({j} \cup {k}) = Cardinality({j}) + 1
      BY Zenon, <2>1, <2>2, FS_AddElement
  <2>4. {j} \cup {k} = {j, k}
      OBVIOUS
  <2>5. QED
      BY <2>1, <2>3, <2>4
<1>5. Uses["C12"][j] # Uses["C12"][k]
    BY <1>2
<1>6. QED
    BY <1>3, <1>4, <1>5

\* Whatever the crystal, its references and the processes that print nan: an
\* elastic constant computed without one of its energies has no letter but F,
\* unless C12 lacks one energy of each sign.
THEOREM LostEnergiesShow == Spec => []NanShows
<1>1. ASSUME ScriptsInv PROVE NanShows
  <2> SUFFICES ASSUME status = "done", task.property = "elastic_constants", NEW name \in DOMAIN values
               PROVE  LET lost == bad \cap DOMAIN Uses[name]
                          hidden == /\ name = "C12" /\ Cardinality(lost) = 2
                                    /\ \E j, k \in lost : Uses[name][j] # Uses[name][k]
                      IN  lost = {} \/ hidden \/ Grade(name) \in {"F", None}
      BY DEF NanShows
  <2>1. /\ task \in Task /\ values = Computed(task, outputs) /\ Len(outputs) = Runs(task.property)
        /\ outputs = [k \in 1 .. Len(outputs) |-> outputs[k]]
        /\ \A k \in 1 .. Len(outputs) : OutputShape(task, k, k \in bad, outputs[k])
      BY Zenon, <1>1 DEF ScriptsInv
  <2>2. StrainedRun(task) /\ Runs(task.property) = 7
      BY <2>1, TaskKinds DEF StrainedRun
  <2>3. DOMAIN outputs = 1 .. 7
      BY Zenon, <2>1, <2>2
  <2>4. \A k \in 1 .. 7 : OutputShape(task, k, k \in bad, outputs[k])
      BY Zenon, <2>1, <2>2
  <2>5. values = Elastic(outputs)
      BY <2>1 DEF Computed
  <2>6. /\ DOMAIN values = {"C11", "C12", "C44"}
        /\ values["C11"] \in Int /\ values["C12"] \in Int /\ values["C44"] \in Int
    <3>1. /\ DOMAIN Elastic(outputs) = {"C11", "C12", "C44"}
          /\ Elastic(outputs).C11 \in Int /\ Elastic(outputs).C12 \in Int /\ Elastic(outputs).C44 \in Int
        BY Zenon, <2>1, <2>2, <2>3, <2>4, ElasticFacts
    <3>2. QED
        BY Zenon, <2>5, <3>1
  <2>7. name = "C11" \/ name = "C12" \/ name = "C44"
      BY <2>6
  <2> DEFINE r == Reference(task, name)
             lost == bad \cap DOMAIN Uses[name]
  <2>8. CASE r = None
    <3>1. Grade(name) = None
        BY <2>8 DEF Grade, run_grade
    <3>2. QED
        BY <3>1
  <2>9. CASE r # None
    <3>1. r \in Int /\ StrainsLittle(task.crystal, r)
      <4>1. name \in {"C11", "C12", "C44"}
          BY <2>7
      <4>2. QED
          BY Zenon, <2>1, <2>9, <4>1, ReferenceFacts
    <3> HIDE DEF r
    <3>2. LostGraded(bad, outputs, r)
        BY Zenon, <2>1, <2>2, <2>3, <2>4, <3>1, LostGrades
    <3>3. Grade(name) = run_grade(Elastic(outputs)[name], r)
      <4>1. values[name] # None
          BY <2>6, <2>7, NoneAssumption
      <4>2. QED
          BY Zenon, <2>5, <4>1 DEF Grade, r
    <3>4. CASE name = "C11"
      <4>1. DOMAIN Uses["C11"] = {1, 2, 3}
          BY DEF Uses
      <4>2. lost = {} \/ 1 \in bad \/ 2 \in bad \/ 3 \in bad
          BY <3>4, <4>1
      <4>3. lost = {} \/ Grade(name) = "F"
          BY Zenon, <3>2, <3>3, <3>4, <4>2 DEF LostGraded
      <4>4. QED
          BY <4>3
    <3>5. CASE name = "C44"
      <4>1. DOMAIN Uses["C44"] = {1, 6, 7}
          BY DEF Uses
      <4>2. lost = {} \/ 1 \in bad \/ 6 \in bad \/ 7 \in bad
          BY <3>5, <4>1
      <4>3. lost = {} \/ Grade(name) = "F"
          BY Zenon, <3>2, <3>3, <3>5, <4>2 DEF LostGraded
      <4>4. QED
          BY <4>3
    <3>6. CASE name = "C12"
      <4>1. DOMAIN Uses["C12"] = {1, 2, 4, 5}
          BY DEF Uses
      <4>2. lost = {} \/ 1 \in bad \/ 2 \in bad \/ 4 \in bad \/ 5 \in bad
          BY <3>6, <4>1
      <4>3. \/ lost = {} \/ Grade(name) = "F"
            \/ (1 \in bad <=> 5 \notin bad) /\ (2 \in bad <=> 4 \notin bad)
          BY Zenon, <3>2, <3>3, <3>6, <4>2 DEF LostGraded
      <4>4. ASSUME (1 \in bad <=> 5 \notin bad) /\ (2 \in bad <=> 4 \notin bad)
            PROVE  Cardinality(lost) = 2 /\ \E j, k \in lost : Uses[name][j] # Uses[name][k]
          BY Zenon, <3>6, <4>4, OneOfEach
      <4>5. QED
          BY Zenon, <3>6, <4>3, <4>4
    <3>7. QED
        BY Zenon, <2>7, <3>4, <3>5, <3>6
  <2>10. QED
      BY Zenon, <2>8, <2>9
<1>2. QED
    BY <1>1, ScriptsInductive, PTL

=============================================================================
