----------------------- MODULE ReferenceSourcesProofs -----------------------
(***************************************************************************)
(* Where reference values come from: the Materials Project adapter, which  *)
(* is MaterialChoice, for every set of documents and every length of list; *)
(* and the caches and the gate, which are GapFilling, for any contents of  *)
(* table and caches and any records to adapt.                              *)
(* MaterialChoice's properties are about one list, so all that is needed   *)
(* of its behaviour is that the list holds documents; the rest is the      *)
(* order that the scores define.                                           *)
(***************************************************************************)
EXTENDS MaterialChoice, GapFilling, FiniteSetTheorems, SequenceTheorems, TLAPS

Listed == docs \in Seq(Document)

\* The list holds documents.
LEMMA AlwaysListed == SearchSpec => []Listed
<1>1. SearchInit => Listed
    BY DEF SearchInit, Listed
<1>2. Listed /\ [SearchNext]_searchVars => Listed'
    BY DocumentsAssumption DEF Listed, SearchNext, Return, searchVars
<1>3. QED
    BY <1>1, <1>2, PTL DEF SearchSpec

-----------------------------------------------------------------------------
(* Scores.                                                                 *)

LEMMA HullNat == ASSUME NEW d \in Document PROVE Hull(d) \in Nat
BY DEF Hull, Document

LEMMA ScoreInt == ASSUME NEW d \in Document, NEW phase PROVE Score(d, phase) \in Int
BY HullNat DEF Score

\* Two documents of a phase get the same bonus for it, so that the one on the
\* hull, and after that the nearer of two as well measured, scores less.
LEMMA LowerScore ==
    ASSUME NEW c \in Document, NEW d \in Document, NEW phase,
           determine_phase(c) = determine_phase(d),
           Score(c, phase) <= Score(d, phase)
    PROVE  /\ OnHull(d) => OnHull(c)
           /\ OnHull(d) = OnHull(c) /\ HasElastic(d) = HasElastic(c) => Hull(c) <= Hull(d)
<1> DEFINE bonus == IF phase # Absent /\ determine_phase(c) = phase THEN 1000000 ELSE 0
           elastic(e) == IF HasElastic(e) THEN 10000 ELSE 0
           hull(e) == IF OnHull(e) THEN 100000 ELSE 0
<1>1. Score(c, phase) = Hull(c) - bonus - hull(c) - elastic(c)
    BY DEF Score
<1>2. Score(d, phase) = Hull(d) - bonus - hull(d) - elastic(d)
    BY DEF Score
<1>3. bonus \in Int /\ elastic(c) \in {0, 10000} /\ elastic(d) \in {0, 10000}
    OBVIOUS
<1>4. Hull(c) \in Nat /\ Hull(d) \in Nat
    BY HullNat
<1>5. OnHull(d) => Hull(d) <= 10 /\ hull(d) = 100000
    BY DEF OnHull
<1>6. ~OnHull(c) => hull(c) = 0
    OBVIOUS
<1>7. OnHull(d) = OnHull(c) => hull(d) = hull(c) /\ hull(c) \in Int
    OBVIOUS
<1>8. HasElastic(d) = HasElastic(c) => elastic(d) = elastic(c)
    OBVIOUS
<1> HIDE DEF bonus, elastic, hull
<1>9. OnHull(d) => OnHull(c)
    BY <1>1, <1>2, <1>3, <1>4, <1>5, <1>6
<1>10. OnHull(d) = OnHull(c) /\ HasElastic(d) = HasElastic(c) => Hull(c) <= Hull(d)
    BY <1>1, <1>2, <1>3, <1>4, <1>7, <1>8
<1>11. QED
    BY <1>9, <1>10

-----------------------------------------------------------------------------
(* Leaders.                                                                *)

LEMMA Places == ASSUME NEW s \in Seq(Document), NEW k \in DOMAIN s
                PROVE  s[k] \in Document /\ k \in Nat
OBVIOUS

\* A phase has at most one leader.
LEMMA OneLeader ==
    ASSUME NEW s \in Seq(Document), NEW phase, NEW k \in Leaders(s, phase), NEW h \in Leaders(s, phase),
           determine_phase(s[h]) = determine_phase(s[k])
    PROVE  h = k
<1>1. h \in DOMAIN s /\ k \in DOMAIN s
    BY DEF Leaders
<1>2. ~Before(s, phase, h, k) /\ ~Before(s, phase, k, h)
    BY <1>1 DEF Leaders
<1>3. Score(s[h], phase) \in Int /\ Score(s[k], phase) \in Int /\ h \in Nat /\ k \in Nat
    BY <1>1, Places, ScoreInt
<1>4. QED
    BY <1>2, <1>3 DEF Before

\* No document of its phase scores less than a leader.
LEMMA LeaderScores ==
    ASSUME NEW s \in Seq(Document), NEW phase, NEW k \in Leaders(s, phase), NEW h \in DOMAIN s,
           determine_phase(s[h]) = determine_phase(s[k])
    PROVE  Score(s[k], phase) <= Score(s[h], phase)
<1>1. k \in DOMAIN s /\ ~Before(s, phase, h, k)
    BY DEF Leaders
<1>2. Score(s[h], phase) \in Int /\ Score(s[k], phase) \in Int
    BY <1>1, Places, ScoreInt
<1>3. QED
    BY <1>1, <1>2 DEF Before

LEMMA PickedLead == \A s, phase : pick_best_material(s, phase) \subseteq Leaders(s, phase)
BY DEF pick_best_material

-----------------------------------------------------------------------------
(* The order on the documents of a list has a least element in every set   *)
(* of places, so that every phase in the list has a leader.                *)

LEMMA LeastNat ==
    ASSUME NEW T, T \subseteq Nat, T # {}
    PROVE  \E m \in T : \A n \in T : m <= n
<1> DEFINE Less == {ss \in Nat \X Nat : ss[1] < ss[2]}
<1>1. IsWellFoundedOn(Less, Nat)
    BY NatLessThanWellFounded, SMT DEF OpToRel
<1>2. PICK m \in T : \A n \in T : ~(<<n, m>> \in Less)
    BY <1>1, WFMin
<1>3. \A n \in T : ~(n < m)
    BY <1>2
<1>4. QED
    BY <1>3

\* The least of the places with the least value.
LEMMA LeastBy ==
    ASSUME NEW D, D \subseteq Nat, D # {}, NEW f \in [D -> Nat]
    PROVE  \E k \in D : \A h \in D : f[k] < f[h] \/ (f[k] = f[h] /\ k <= h)
<1> DEFINE values == {f[g] : g \in D}
<1>1. values \subseteq Nat /\ values # {}
    OBVIOUS
<1> HIDE DEF values
<1>2. PICK low \in values : \A n \in values : low <= n
    BY <1>1, LeastNat
<1> DEFINE least == {g \in D : f[g] = low}
<1>3. least \subseteq Nat /\ least # {}
    BY <1>2 DEF values
<1> HIDE DEF least
<1>4. PICK k \in least : \A n \in least : k <= n
    BY <1>3, LeastNat
<1>5. k \in D /\ f[k] = low
    BY <1>4 DEF least
<1>6. ASSUME NEW h \in D PROVE f[k] < f[h] \/ (f[k] = f[h] /\ k <= h)
  <2>1. f[k] <= f[h]
      BY <1>2, <1>5 DEF values
  <2>2. f[h] = f[k] => k <= h
      BY <1>4, <1>5 DEF least
  <2>3. f[k] \in Nat /\ f[h] \in Nat
      BY <1>5
  <2>4. QED
      BY <2>1, <2>2, <2>3
<1>7. QED
    BY <1>5, <1>6

\* No score is below -1110000.
LEMMA ScoreBound ==
    ASSUME NEW d \in Document, NEW phase PROVE Score(d, phase) + 1110000 \in Nat
BY HullNat DEF Score

LEMMA FirstPlace ==
    ASSUME NEW s \in Seq(Document), NEW phase, NEW D, D \subseteq DOMAIN s, D # {}
    PROVE  \E k \in D : \A h \in D : ~Before(s, phase, h, k)
<1> DEFINE f == [k \in D |-> Score(s[k], phase) + 1110000]
<1>1. D \subseteq Nat /\ \A k \in D : s[k] \in Document
    BY Places
<1>2. f \in [D -> Nat]
    BY <1>1, ScoreBound
<1>3. \A k \in D : Score(s[k], phase) \in Int
    BY <1>1, ScoreInt
<1>4. \A h, k \in D : f[k] < f[h] => ~Before(s, phase, h, k)
    BY <1>3 DEF Before
<1>5. \A h, k \in D : f[k] = f[h] /\ k <= h => ~Before(s, phase, h, k)
    BY <1>1, <1>3 DEF Before
<1> HIDE DEF f
<1>6. PICK k \in D : \A h \in D : f[k] < f[h] \/ (f[k] = f[h] /\ k <= h)
    BY <1>1, <1>2, LeastBy
<1>7. QED
    BY <1>4, <1>5, <1>6

LEMMA PhaseLed ==
    ASSUME NEW s \in Seq(Document), NEW phase, NEW k \in DOMAIN s
    PROVE  \E h \in Leaders(s, phase) : determine_phase(s[h]) = determine_phase(s[k])
<1> DEFINE D == {h \in DOMAIN s : determine_phase(s[h]) = determine_phase(s[k])}
<1>1. PICK h \in D : \A g \in D : ~Before(s, phase, g, h)
    BY FirstPlace
<1>2. QED
    BY <1>1 DEF Leaders

\* The bonus of a phase outweighs all others, up to 890 eV above the hull.
LEMMA BonusWins ==
    ASSUME NEW c \in Document, NEW d \in Document, NEW phase, phase # Absent,
           determine_phase(c) = phase, Hull(c) < 890000, determine_phase(d) # phase
    PROVE  Score(c, phase) < Score(d, phase)
<1> DEFINE elastic(e) == IF HasElastic(e) THEN 10000 ELSE 0
           hull(e) == IF OnHull(e) THEN 100000 ELSE 0
<1>1. Score(c, phase) = Hull(c) - 1000000 - hull(c) - elastic(c)
    BY DEF Score
<1>2. Score(d, phase) = Hull(d) - 0 - hull(d) - elastic(d)
    BY DEF Score
<1>3. \A e : hull(e) \in {0, 100000} /\ elastic(e) \in {0, 10000}
    OBVIOUS
<1>4. Hull(c) \in Nat /\ Hull(d) \in Nat
    BY HullNat
<1> HIDE DEF elastic, hull
<1>5. QED
    BY <1>1, <1>2, <1>3, <1>4

LEMMA PhaseNamed == ASSUME NEW d \in Document PROVE determine_phase(d) # Absent
<1>1. CRYSTAL_SYSTEM_TO_PHASE(d.crystal_system) # Absent
    BY AbsentAssumption DEF CRYSTAL_SYSTEM_TO_PHASE, Phases
<1>2. QED
    BY <1>1, AbsentAssumption DEF determine_phase, Phases

-----------------------------------------------------------------------------
(* The scores that are picked, from the set of documents alone: a score is *)
(* picked if it is the best of some phase, and fewer than three phases     *)
(* have a document that scores less.                                       *)

Listing(s) == {s[k] : k \in DOMAIN s}
Best(D, phase, x) ==
    \E d \in D : /\ Score(d, phase) = x
                 /\ \A e \in D : determine_phase(e) = determine_phase(d) => x <= Score(e, phase)
Ahead(D, phase, x) == {determine_phase(d) : d \in {e \in D : Score(e, phase) < x}}
LeadersBelow(s, phase, x) == {h \in Leaders(s, phase) : Score(s[h], phase) < x}

LEMMA LeadersFinite ==
    ASSUME NEW s \in Seq(Document), NEW phase, NEW T, T \subseteq Leaders(s, phase)
    PROVE  IsFiniteSet(T)
<1>1. Len(s) \in Nat /\ DOMAIN s = 1 .. Len(s)
    OBVIOUS
<1>2. IsFiniteSet(1 .. Len(s))
    BY <1>1, FS_Interval
<1>3. T \in SUBSET (1 .. Len(s))
    BY <1>1 DEF Leaders
<1>4. QED
    BY <1>2, <1>3, FS_Subset

\* Each phase that has a document scoring less than x has one leader that does.
LEMMA AheadCount ==
    ASSUME NEW s \in Seq(Document), NEW phase, NEW x \in Int
    PROVE  Cardinality(Ahead(Listing(s), phase, x)) = Cardinality(LeadersBelow(s, phase, x))
<1> DEFINE S == LeadersBelow(s, phase, x)
           T == Ahead(Listing(s), phase, x)
           f == [h \in S |-> determine_phase(s[h])]
<1>1. \A h \in S : h \in Leaders(s, phase) /\ h \in DOMAIN s /\ Score(s[h], phase) < x
    BY DEF LeadersBelow, Leaders
<1>2. f \in [S -> T]
  <2>1. ASSUME NEW h \in S PROVE determine_phase(s[h]) \in T
    <3>1. s[h] \in Listing(s) /\ Score(s[h], phase) < x
        BY <1>1 DEF Listing
    <3>2. QED
        BY <3>1 DEF Ahead
  <2>2. QED
      BY <2>1
<1>3. ASSUME NEW h \in S, NEW k \in S, f[h] = f[k] PROVE h = k
  <2>1. determine_phase(s[h]) = determine_phase(s[k])
      BY <1>3
  <2>2. QED
      BY <1>1, <2>1, OneLeader
<1>4. ASSUME NEW y \in T PROVE \E h \in S : f[h] = y
  <2>1. PICK g \in DOMAIN s : Score(s[g], phase) < x /\ determine_phase(s[g]) = y
      BY DEF Ahead, Listing
  <2>2. PICK h \in Leaders(s, phase) : determine_phase(s[h]) = y
      BY <2>1, PhaseLed
  <2>3. Score(s[h], phase) <= Score(s[g], phase)
      BY <2>1, <2>2, LeaderScores
  <2>4. h \in DOMAIN s
      BY DEF Leaders
  <2>5. Score(s[h], phase) \in Int /\ Score(s[g], phase) \in Int
      BY <2>1, <2>4, Places, ScoreInt
  <2>6. Score(s[h], phase) < x
      BY <2>1, <2>3, <2>5
  <2>7. h \in S
      BY <2>6 DEF LeadersBelow
  <2>8. QED
      BY <2>2, <2>7
<1>5. IsFiniteSet(S)
    BY LeadersFinite DEF LeadersBelow
<1> HIDE DEF S, T, f
<1>6. f \in Bijection(S, T)
    BY <1>2, <1>3, <1>4 DEF Bijection, Injection, Surjection, IsInjective
<1>7. ExistsBijection(S, T)
    BY <1>6 DEF ExistsBijection
<1>8. Cardinality(T) = Cardinality(S)
    BY <1>5, <1>7, FS_Bijection
<1>9. QED
    BY <1>8 DEF S, T

LEMMA PickedScores ==
    ASSUME NEW s \in Seq(Document), NEW phase, NEW k \in pick_best_material(s, phase)
    PROVE  /\ Best(Listing(s), phase, Score(s[k], phase))
           /\ Cardinality(Ahead(Listing(s), phase, Score(s[k], phase))) < 3
<1> DEFINE x == Score(s[k], phase)
           before == {h \in Leaders(s, phase) : Before(s, phase, h, k)}
<1>1. k \in Leaders(s, phase) /\ k \in DOMAIN s /\ Cardinality(before) < 3
    BY DEF pick_best_material, Leaders
<1>2. x \in Int
    BY <1>1, Places, ScoreInt
<1>3. Best(Listing(s), phase, x)
    BY <1>1, LeaderScores DEF Best, Listing
<1>4. IsFiniteSet(before)
    BY LeadersFinite
<1>5. LeadersBelow(s, phase, x) \in SUBSET before
    BY DEF LeadersBelow, Before
<1>6. /\ IsFiniteSet(LeadersBelow(s, phase, x))
      /\ Cardinality(LeadersBelow(s, phase, x)) <= Cardinality(before)
    BY <1>4, <1>5, FS_Subset
<1>7. Cardinality(LeadersBelow(s, phase, x)) = Cardinality(Ahead(Listing(s), phase, x))
    BY <1>2, AheadCount
<1>8. Cardinality(LeadersBelow(s, phase, x)) \in Nat /\ Cardinality(before) \in Nat
    BY <1>4, <1>6, FS_CardinalityType
<1> HIDE DEF x, before
<1>9. Cardinality(Ahead(Listing(s), phase, x)) < 3
    BY <1>1, <1>6, <1>7, <1>8
<1>10. QED
    BY <1>3, <1>9 DEF x

LEMMA ScoresPicked ==
    ASSUME NEW s \in Seq(Document), NEW phase, NEW x \in Int,
           Best(Listing(s), phase, x), Cardinality(Ahead(Listing(s), phase, x)) < 3
    PROVE  \E k \in pick_best_material(s, phase) : Score(s[k], phase) = x
<1> DEFINE D == {k \in Leaders(s, phase) : Score(s[k], phase) = x}
<1>1. PICK g \in DOMAIN s :
          /\ Score(s[g], phase) = x
          /\ \A h \in DOMAIN s : determine_phase(s[h]) = determine_phase(s[g])
                                    => x <= Score(s[h], phase)
    BY DEF Best, Listing
<1>2. PICK h \in Leaders(s, phase) : determine_phase(s[h]) = determine_phase(s[g])
    BY PhaseLed
<1>3. h \in D
  <2>1. h \in DOMAIN s
      BY DEF Leaders
  <2>2. x <= Score(s[h], phase) /\ Score(s[h], phase) <= x
      BY <1>1, <1>2, <2>1, LeaderScores
  <2>3. Score(s[h], phase) \in Int
      BY <2>1, Places, ScoreInt
  <2>4. QED
      BY <2>2, <2>3
<1>4. D \subseteq DOMAIN s
    BY DEF Leaders
<1>5. PICK k \in D : \A i \in D : ~Before(s, phase, i, k)
  <2> HIDE DEF D
  <2>1. QED
      BY <1>3, <1>4, FirstPlace
<1>6. {i \in Leaders(s, phase) : Before(s, phase, i, k)} = LeadersBelow(s, phase, x)
    BY <1>5 DEF LeadersBelow, Before
<1>7. Cardinality(LeadersBelow(s, phase, x)) < 3
    BY AheadCount
<1>8. QED
    BY <1>5, <1>6, <1>7 DEF pick_best_material

\* Two lists of the same documents have the same scores picked.
LEMMA SameScores ==
    ASSUME NEW s \in Seq(Document), NEW t \in Seq(Document), Listing(s) = Listing(t)
    PROVE  Scores(s) \subseteq Scores(t)
<1> SUFFICES ASSUME NEW k \in pick_best_material(s, preferred)
             PROVE  \E h \in pick_best_material(t, preferred) :
                        Score(t[h], preferred) = Score(s[k], preferred)
    BY DEF Scores
<1>1. Score(s[k], preferred) \in Int
    BY PickedLead, Places, ScoreInt DEF Leaders
<1>2. /\ Best(Listing(t), preferred, Score(s[k], preferred))
      /\ Cardinality(Ahead(Listing(t), preferred, Score(s[k], preferred))) < 3
    BY PickedScores
<1>3. QED
    BY <1>1, <1>2, ScoresPicked

LEMMA ExchangeLists ==
    ASSUME NEW s \in Seq(Document), NEW k \in 1 .. Len(s) - 1
    PROVE  Exchanged(s, k) \in Seq(Document) /\ Listing(Exchanged(s, k)) = Listing(s)
<1> DEFINE t == Exchanged(s, k)
<1>1. k \in 1 .. Len(s) /\ k + 1 \in 1 .. Len(s) /\ k # k + 1 /\ DOMAIN s = 1 .. Len(s)
    OBVIOUS
<1>2. /\ t \in Seq(Document) /\ DOMAIN t = DOMAIN s
      /\ t[k] = s[k + 1] /\ t[k + 1] = s[k]
      /\ \A i \in DOMAIN s \ {k, k + 1} : t[i] = s[i]
    BY <1>1 DEF Exchanged
<1> HIDE DEF t
<1>3. Listing(t) \subseteq Listing(s)
    BY <1>1, <1>2 DEF Listing
<1>4. Listing(s) \subseteq Listing(t)
    BY <1>1, <1>2 DEF Listing
<1>5. QED
    BY <1>2, <1>3, <1>4 DEF t

-----------------------------------------------------------------------------
(* Theorems.                                                               *)

\* Types; a document has a phase the adapter knows unless its crystal system is
\* one the table lacks.
THEOREM TypeCorrectness == SearchSpec => []TypeOK
<1> DEFINE Bounded == docs \in Seq(Documents) /\ Len(docs) <= MaxDocuments /\ preferred \in {"BCC", "HCP", Absent}
           Known == {"bulk_modulus", "lattice_constant", "formation_energy", "C11", "C12", "C44"}
<1>1. SearchInit => Bounded
    BY LengthAssumption DEF SearchInit
<1>2. Bounded /\ [SearchNext]_searchVars => Bounded'
    BY LengthAssumption DEF SearchNext, Return, searchVars
<1>3. ASSUME NEW d \in Document
      PROVE  determine_phase(d) \in Phases \cup OtherSystems /\ Extracted(d) \subseteq Known
  <2>1. determine_phase(d) \in Phases \cup OtherSystems
    <3>1. d.crystal_system \in CrystalSystems \cup OtherSystems \cup {Absent}
        BY DEF Document
    <3>2. CRYSTAL_SYSTEM_TO_PHASE(d.crystal_system) \in Phases \cup OtherSystems
        BY <3>1 DEF CRYSTAL_SYSTEM_TO_PHASE, CrystalSystems, Phases
    <3>3. QED
        BY <3>2 DEF determine_phase, Phases
  <2>2. d.tensor \subseteq {"C11", "C12", "C44"}
      BY DEF Document
  <2>3. QED
      BY <2>1, <2>2 DEF Extracted
<1>4. Bounded => TypeOK
  <2> SUFFICES ASSUME Bounded PROVE TypeOK
      OBVIOUS
  <2>0. docs \in Seq(Document)
      BY DocumentsAssumption
  <2>1. \A k \in DOMAIN docs : Phase(k) \in Phases \cup OtherSystems
      BY <2>0, <1>3, Places DEF Phase
  <2>2. extract_system(docs, preferred) \subseteq (DOMAIN docs) \X (Phases \cup OtherSystems) \X Known
    <3> SUFFICES ASSUME NEW k \in pick_best_material(docs, preferred),
                        NEW property \in Extracted(docs[k])
                 PROVE  <<k, determine_phase(docs[k]), property>>
                            \in (DOMAIN docs) \X (Phases \cup OtherSystems) \X Known
        BY DEF extract_system
    <3>1. k \in DOMAIN docs
        BY PickedLead DEF Leaders
    <3>2. QED
        BY <2>0, <3>1, <1>3, Places
  <2>3. preferred \in Phases \cup {Absent}
      BY DEF Phases
  <2>4. QED
      BY <2>1, <2>2, <2>3 DEF TypeOK
<1>5. QED
    BY <1>1, <1>2, <1>4, PTL DEF SearchSpec

\* A system gets at most one value per phase and property: two values of a
\* phase are of leaders of that phase, hence of one position.
THEOREM OneValue == SearchSpec => []OneValueEach
<1>1. ASSUME docs \in Seq(Document) PROVE OneValueEach
  <2> SUFFICES ASSUME NEW v \in extract_system(docs, preferred),
                      NEW w \in extract_system(docs, preferred),
                      v[2] = w[2], v[3] = w[3]
               PROVE  v = w
      BY DEF OneValueEach
  <2>1. PICK k \in pick_best_material(docs, preferred) :
            \E property \in Extracted(docs[k]) : v = <<k, determine_phase(docs[k]), property>>
      BY DEF extract_system
  <2>2. PICK h \in pick_best_material(docs, preferred) :
            \E property \in Extracted(docs[h]) : w = <<h, determine_phase(docs[h]), property>>
      BY DEF extract_system
  <2>3. determine_phase(docs[h]) = determine_phase(docs[k])
      BY <2>1, <2>2
  <2>4. h = k
      BY <1>1, <2>3, PickedLead, OneLeader
  <2>5. QED
      BY <2>1, <2>2, <2>4
<1>2. QED
    BY <1>1, AlwaysListed, PTL DEF Listed

\* The material that stands for a phase is on the hull if one of that phase is,
\* and the nearest to it among those as stable and as well measured.
THEOREM BestStands == SearchSpec => []BestOfItsPhase
<1>1. ASSUME docs \in Seq(Document) PROVE BestOfItsPhase
  <2> SUFFICES ASSUME NEW k \in pick_best_material(docs, preferred), NEW h \in DOMAIN docs,
                      determine_phase(docs[h]) = determine_phase(docs[k])
               PROVE  /\ OnHull(docs[h]) => OnHull(docs[k])
                      /\ OnHull(docs[h]) = OnHull(docs[k])
                           /\ HasElastic(docs[h]) = HasElastic(docs[k])
                         => Hull(docs[k]) <= Hull(docs[h])
      BY DEF BestOfItsPhase, Picked, Phase
  <2>1. k \in Leaders(docs, preferred) /\ k \in DOMAIN docs
      BY PickedLead DEF Leaders
  <2>2. docs[k] \in Document /\ docs[h] \in Document
      BY <1>1, <2>1, Places
  <2>3. Score(docs[k], preferred) <= Score(docs[h], preferred)
      BY <1>1, <2>1, LeaderScores
  <2>4. QED
      BY <2>2, <2>3, LowerScore
<1>2. QED
    BY <1>1, AlwaysListed, PTL DEF Listed

\* If a material of the preferred phase is known to lie less than 890 eV above
\* the hull, that phase's leader scores less than all of the other phases, so
\* it is picked and comes first.
THEOREM PreferredStandsFirst == SearchSpec => []PreferredFirst
<1>1. ASSUME docs \in Seq(Document) PROVE PreferredFirst
  <2> SUFFICES ASSUME NEW g \in DOMAIN docs, Phase(g) = preferred, Hull(docs[g]) < 890000
               PROVE  \E k \in Picked :
                          /\ Phase(k) = preferred
                          /\ \A h \in Picked \ {k} : Before(docs, preferred, k, h)
      BY DEF PreferredFirst
  <2>1. PICK k \in Leaders(docs, preferred) : Phase(k) = preferred
      BY <1>1, PhaseLed DEF Phase
  <2>2. k \in DOMAIN docs /\ docs[k] \in Document /\ docs[g] \in Document
      BY <1>1, Places DEF Leaders
  <2>3. Score(docs[k], preferred) <= Score(docs[g], preferred)
      BY <1>1, <2>1, LeaderScores DEF Phase
  <2>4. preferred # Absent
      BY <2>2, PhaseNamed DEF Phase
  <2>5. ASSUME NEW h \in DOMAIN docs, Phase(h) # preferred
        PROVE  Score(docs[k], preferred) < Score(docs[h], preferred)
    <3>1. docs[h] \in Document
        BY <1>1, Places
    <3>2. Score(docs[g], preferred) < Score(docs[h], preferred)
        BY <2>2, <2>4, <2>5, <3>1, BonusWins DEF Phase
    <3>3. \A d \in Document : Score(d, preferred) \in Int
        BY ScoreInt
    <3>4. QED
        BY <2>2, <2>3, <3>1, <3>2, <3>3
  <2>6. ASSUME NEW h \in Leaders(docs, preferred) PROVE ~Before(docs, preferred, h, k)
    <3>1. h \in DOMAIN docs
        BY DEF Leaders
    <3>2. CASE Phase(h) = preferred
        BY <2>1, <3>1, <3>2 DEF Leaders, Phase
    <3>3. CASE Phase(h) # preferred
      <4>1. Score(docs[k], preferred) < Score(docs[h], preferred)
          BY <2>5, <3>1, <3>3
      <4>2. Score(docs[k], preferred) \in Int /\ Score(docs[h], preferred) \in Int
          BY <1>1, <2>2, <3>1, Places, ScoreInt
      <4>3. QED
          BY <4>1, <4>2 DEF Before
    <3>4. QED
        BY <3>2, <3>3
  <2>7. k \in Picked
    <3>1. {h \in Leaders(docs, preferred) : Before(docs, preferred, h, k)} = {}
        BY <2>6
    <3>2. QED
        BY <2>1, <3>1, FS_EmptySet DEF Picked, pick_best_material
  <2>8. ASSUME NEW h \in Picked \ {k} PROVE Before(docs, preferred, k, h)
    <3>1. h \in Leaders(docs, preferred) /\ h \in DOMAIN docs
        BY PickedLead DEF Picked, Leaders
    <3>2. Phase(h) # preferred
        BY <1>1, <2>1, <2>8, <3>1, OneLeader DEF Phase
    <3>3. QED
        BY <2>5, <3>1, <3>2 DEF Before
  <2>9. QED
      BY <2>1, <2>7, <2>8
<1>2. QED
    BY <1>1, AlwaysListed, PTL DEF Listed

\* The order in which the search returns the materials decides only between
\* materials that score alike: the scores picked depend on the set of the
\* documents alone, so that exchanging neighbours does not change them.
THEOREM OrderDoesNotDecide == SearchSpec => []OrderIndependent
<1>1. ASSUME docs \in Seq(Document) PROVE OrderIndependent
  <2> SUFFICES ASSUME NEW k \in 1 .. Len(docs) - 1
               PROVE  Scores(Exchanged(docs, k)) = Scores(docs)
      BY DEF OrderIndependent
  <2>1. Exchanged(docs, k) \in Seq(Document) /\ Listing(Exchanged(docs, k)) = Listing(docs)
      BY <1>1, ExchangeLists
  <2>2. Scores(docs) \subseteq Scores(Exchanged(docs, k))
      BY <1>1, <2>1, SameScores
  <2>3. Scores(Exchanged(docs, k)) \subseteq Scores(docs)
      BY <1>1, <2>1, SameScores
  <2>4. QED
      BY <2>2, <2>3
<1>2. QED
    BY <1>1, AlwaysListed, PTL DEF Listed

-----------------------------------------------------------------------------
(* The caches and the gate.                                                *)

Same(r, s) == DEDUP_FIELDS(r) = DEDUP_FIELDS(s)
Stored(status) == status \in {"written_auto", "written_pending_review"}

\* The method of a row that a reader has filled in: what the record states, or
\* the reader's own word for none.
MethodOf(origin) ==
    IF origin.stated # None THEN origin.stated
    ELSE IF origin.from = "L3" THEN "literature"
    ELSE IF origin.from = "ontology" THEN None
    ELSE ""

\* refs is a list, of whatever the caches hold; its last rows are those written,
\* which differ from all others and have the method of the reader they are from.
Lists ==
    /\ \E Rows : refs \in Seq(Rows)
    /\ \E Origins : filled \in Seq(Origins)
    /\ writes <= Len(refs)
WrittenOnce == \A j, k \in DOMAIN refs : Same(refs[j], refs[k]) /\ Filled(k) => j = k
MethodKnown == \A k \in DOMAIN refs : Filled(k) => refs[k].method = MethodOf(Origin(k))
FInv == Lists /\ WrittenOnce /\ MethodKnown /\ AutoOnlyByClaim /\ OpenExplained

\* Of the positions that match there is a first.
LEMMA FirstMatches ==
    ASSUME NEW matching \in SUBSET Nat, matching # {} PROVE First(matching) \in matching
<1>1. \E k \in matching : \A j \in matching : k <= j
    BY LeastNat
<1>2. QED
    BY <1>1 DEF First

\* The table answers for what it has a row for, and as that row.
LEMMA TableAnswers ==
    ASSUME NEW Rows, NEW rows \in Seq(Rows), NEW key
    PROVE  LET answer == query_l1(rows, key)
           IN  IF key \in load_existing_refs(rows)
               THEN /\ answer # Miss /\ answer.level = "L1"
                    /\ answer.given = <<answer.candidate.value, answer.candidate.unit>>
                    /\ \E k \in DOMAIN rows :
                           /\ Key(rows[k]) = key /\ rows[k].source = answer.candidate.source
                           /\ rows[k].method = answer.candidate.method
                           /\ Key(answer.candidate) = <<key[1], key[2], key[3]>>
               ELSE answer = Miss
<1> DEFINE matching == {k \in DOMAIN rows : Key(rows[k]) = key}
           row == rows[First(matching)]
           candidate == Candidate(key[1], key[2], key[3], row.value, row.unit, row.method,
                                  row.source, IF row.needs_review THEN "medium" ELSE "high")
<1>1. query_l1(rows, key) =
          IF matching = {} THEN Miss
          ELSE Answer("L1", candidate, <<row.value, row.unit>>, row.method)
    BY DEF query_l1
<1>2. matching # {} <=> key \in load_existing_refs(rows)
    BY DEF load_existing_refs
<1>3. matching \in SUBSET Nat
    BY LenProperties
<1>4. ASSUME matching # {}
      PROVE  /\ First(matching) \in DOMAIN rows
             /\ Key(row) = key
  <2>1. First(matching) \in matching
      BY <1>3, <1>4, FirstMatches
  <2>2. QED
      BY <2>1
<1>5. /\ candidate.source = row.source /\ candidate.method = row.method
      /\ <<row.value, row.unit>> = <<candidate.value, candidate.unit>>
      /\ Key(candidate) = <<key[1], key[2], key[3]>>
    BY DEF Candidate, Key
<1> HIDE DEF candidate, matching
<1>6. /\ Answer("L1", candidate, <<row.value, row.unit>>, row.method).level = "L1"
      /\ Answer("L1", candidate, <<row.value, row.unit>>, row.method).given = <<row.value, row.unit>>
      /\ Answer("L1", candidate, <<row.value, row.unit>>, row.method).candidate = candidate
      /\ Miss.level = "none"
    BY DEF Answer, Miss
<1>7. QED
    BY <1>1, <1>2, <1>4, <1>5, <1>6

\* What the other two answer with, and how certain they are.
LEMMA CachesAnswer ==
    ASSUME NEW key \in Targets, NEW answer,
           answer = query_l2(l2, key) \/ answer = query_l3_wiki(l3, key),
           answer # Miss
    PROVE  /\ answer.level \in {"L2", "L3"} /\ answer.candidate.confidence \in {"medium", "low"}
           /\ answer.candidate.method = MethodOf([from |-> answer.level, stated |-> answer.stated])
           /\ answer.level = "L2" => Key(answer.candidate) = key
           /\ answer.level = "L3" =>
                  /\ Key(answer.candidate) = <<key[1], answer.candidate.phase, key[3]>>
                  /\ answer.given = <<answer.candidate.value, answer.candidate.unit>>
<1>1. key = <<key[1], key[2], key[3]>>
    BY DEF Targets
<1>2. CASE answer = query_l2(l2, key)
  <2> DEFINE matching == {k \in DOMAIN l2 : Offers(l2[k], key)}
             p == l2[First(matching)]
             candidate == Candidate(key[1], key[2], key[3], p.value_scalar, MAPPING[key[3]].ref_unit,
                                    MethodOr(p, "", None), p.source_file, "medium")
  <2>1. answer = IF matching = {} THEN Miss
                 ELSE Answer("L2", candidate, <<p.value_scalar, p.unit>>, p.method)
      BY <1>2 DEF query_l2
  <2> HIDE DEF matching, p
  <2>2. /\ candidate.confidence = "medium" /\ Key(candidate) = <<key[1], key[2], key[3]>>
        /\ candidate.method = IF p.method = None THEN "" ELSE p.method
      BY DEF Candidate, Key, MethodOr
  <2> HIDE DEF candidate
  <2>3. answer = Answer("L2", candidate, <<p.value_scalar, p.unit>>, p.method)
      BY <2>1
  <2>4. answer.level = "L2" /\ answer.candidate = candidate /\ answer.stated = p.method
      BY <2>3 DEF Answer
  <2>5. QED
      BY <2>2, <2>4, <1>1 DEF MethodOf
<1>3. CASE answer = query_l3_wiki(l3, key)
  <2> DEFINE i == l3[First(InWiki(l3, key))]
             candidate == Candidate(key[1], i.phase, key[3], i.value, i.unit,
                                    MethodOr(i, "literature", None), i.source, "low")
  <2>1. answer = IF InWiki(l3, key) = {} THEN Miss
                 ELSE Answer("L3", candidate, <<i.value, i.unit>>, i.method)
      BY <1>3 DEF query_l3_wiki
  <2> HIDE DEF i
  <2>2. /\ candidate.confidence = "low" /\ candidate.value = i.value /\ candidate.unit = i.unit
        /\ candidate.method = IF i.method = None THEN "literature" ELSE i.method
        /\ Key(candidate) = <<key[1], candidate.phase, key[3]>>
      BY DEF Candidate, Key, MethodOr
  <2> HIDE DEF candidate
  <2>3. answer = Answer("L3", candidate, <<i.value, i.unit>>, i.method)
      BY <2>1
  <2>4. /\ answer.level = "L3" /\ answer.candidate = candidate /\ answer.given = <<i.value, i.unit>>
        /\ answer.stated = i.method
      BY <2>3 DEF Answer
  <2>5. QED
      BY <2>2, <2>4 DEF MethodOf
<1>4. QED
    BY <1>2, <1>3

\* What the gate lets through is new to the table; without review, it is certain.
LEMMA GateTells ==
    ASSUME NEW c, NEW rows
    PROVE  /\ Stored(write_ref_value(c, rows)) => ~dedup_check(c, rows)
           /\ write_ref_value(c, rows) = "written_auto" => c.confidence \in {"high", "High"}
BY DEF write_ref_value, Stored

\* What a candidate leaves behind.
LEMMA OfferLeaves ==
    ASSUME NEW from, NEW key, NEW c, NEW given, NEW stated, Offer(from, key, c, given, stated)
    PROVE  LET status == write_ref_value(c, refs)
           IN  /\ last' = [from |-> from, key |-> key, candidate |-> c, given |-> given, status |-> status]
               /\ UNCHANGED <<l2, l3>>
               /\ IF Stored(status)
                  THEN /\ filled' = Append(filled, [from |-> from, stated |-> stated])
                       /\ \E row : /\ Same(row, c) /\ row.method = c.method
                                   /\ refs' = Append(refs, row)
                  ELSE UNCHANGED <<refs, filled>>
<1> DEFINE status == write_ref_value(c, refs)
           row == [element_system |-> c.element_system, phase |-> c.phase, property |-> c.property,
                   value |-> c.value, unit |-> c.unit, method |-> c.method, source |-> c.source,
                   needs_review |-> status = "written_pending_review"]
<1>1. /\ last' = [from |-> from, key |-> key, candidate |-> c, given |-> given, status |-> status]
      /\ UNCHANGED <<l2, l3>>
      /\ IF Stored(status)
         THEN filled' = Append(filled, [from |-> from, stated |-> stated]) /\ refs' = Append(refs, row)
         ELSE UNCHANGED <<refs, filled>>
    BY DEF Offer, Stored
<1>2. Same(row, c) /\ row.method = c.method
    BY DEF Same, DEDUP_FIELDS, Key
<1> HIDE DEF status, row
<1>3. QED
    BY <1>1, <1>2 DEF status

LEMMA OfferNotes ==
    ASSUME NEW from, NEW key, NEW c, NEW given, NEW stated, Offer(from, key, c, given, stated)
    PROVE  /\ last'.from = from /\ last'.key = key /\ last'.candidate = c /\ last'.given = given
           /\ last'.status = write_ref_value(c, refs)
BY DEF Offer

\* A row at the end of the list.
LEMMA AppendEnds ==
    ASSUME NEW Rows, NEW rows \in Seq(Rows), NEW row
    PROVE  LET longer == Append(rows, row)
           IN  /\ \E Rs : longer \in Seq(Rs)
               /\ Len(longer) = Len(rows) + 1 /\ DOMAIN longer = 1 .. Len(rows) + 1
               /\ longer[Len(rows) + 1] = row
               /\ \A k \in 1 .. Len(rows) : longer[k] = rows[k]
<1> DEFINE longer == Append(rows, row)
<1>1. rows \in Seq(Rows \cup {row})
    BY LenProperties
<1>2. row \in Rows \cup {row}
    OBVIOUS
<1> DEFINE Rs == Rows \cup {row}
<1> HIDE DEF Rs
<1>3. rows \in Seq(Rs) /\ row \in Rs
    BY <1>1, <1>2 DEF Rs
<1>4. /\ longer \in Seq(Rs) /\ Len(longer) = Len(rows) + 1
      /\ longer[Len(rows) + 1] = row
      /\ \A k \in 1 .. Len(rows) : longer[k] = rows[k]
    BY <1>3, AppendProperties
<1>5. DOMAIN longer = 1 .. Len(longer)
    BY <1>4, LenProperties
<1>6. QED
    BY <1>4, <1>5

LEMMA OfferStoresOnce ==
    ASSUME FInv, NEW from, NEW key, NEW c, NEW given, NEW stated, Offer(from, key, c, given, stated),
           Stored(write_ref_value(c, refs)) => c.method = MethodOf([from |-> from, stated |-> stated])
    PROVE  Lists' /\ WrittenOnce' /\ MethodKnown'
<1> DEFINE status == write_ref_value(c, refs)
           origin == [from |-> from, stated |-> stated]
<1>1. CASE ~Stored(status)
  <2>1. refs' = refs /\ filled' = filled
      BY <1>1, OfferLeaves
  <2>2. QED
      BY <2>1 DEF FInv, Lists, WrittenOnce, MethodKnown, Filled, Origin, writes, Same, DEDUP_FIELDS, Key
<1>2. CASE Stored(status)
  <2>1. PICK row : /\ Same(row, c) /\ row.method = c.method /\ refs' = Append(refs, row)
                   /\ filled' = Append(filled, origin)
      BY <1>2, OfferLeaves
  <2> DEFINE n == Len(refs)
             w == Len(filled)
  <2>2. PICK Rows, Origins : refs \in Seq(Rows) /\ filled \in Seq(Origins)
      BY DEF FInv, Lists
  <2>3. /\ \E Rs : refs' \in Seq(Rs)
        /\ Len(refs') = n + 1 /\ DOMAIN refs' = 1 .. n + 1
        /\ refs'[n + 1] = row
        /\ \A k \in 1 .. n : refs'[k] = refs[k]
      BY <2>1, <2>2, AppendEnds
  <2>4. /\ \E Os : filled' \in Seq(Os)
        /\ Len(filled') = w + 1
        /\ filled'[w + 1] = origin
        /\ \A k \in 1 .. w : filled'[k] = filled[k]
    <3> HIDE DEF origin
    <3>1. QED
        BY <2>1, <2>2, AppendEnds
  <2>5. n \in Nat /\ w \in Nat /\ w <= n /\ DOMAIN refs = 1 .. n
      BY <2>2, LenProperties DEF FInv, Lists, writes
  <2>6. row.method = MethodOf(origin)
      BY <1>2, <2>1
  <2>7. \A k \in 1 .. n : ~Same(refs[k], row)
    <3>1. \A k \in 1 .. n : ~Same(refs[k], c)
        BY <1>2, <2>5, GateTells DEF dedup_check, Same
    <3>2. QED
        BY <2>1, <3>1 DEF Same
  <2>9. (n + 1) - (w + 1) = n - w
      BY <2>5
  <2>10. \A j, k \in 1 .. n : Same(refs[j], refs[k]) /\ k > n - w => j = k
      BY <2>5 DEF FInv, WrittenOnce, Filled, writes
  <2>11. \A k \in 1 .. n : k > n - w => refs[k].method = MethodOf(filled[k - (n - w)])
      BY <2>5 DEF FInv, MethodKnown, Filled, Origin, writes
  <2> HIDE DEF n, w, origin
  <2>12. Lists'
      BY <2>3, <2>4, <2>5 DEF Lists, writes
  <2>13. ASSUME NEW j \in 1 .. n + 1, NEW k \in 1 .. n + 1, Same(refs'[j], refs'[k]), k > n - w
         PROVE  j = k
    <3>1. CASE j # n + 1 /\ k # n + 1
      <4>1. j \in 1 .. n /\ k \in 1 .. n
          BY <2>5, <3>1
      <4>2. QED
          BY <2>3, <2>10, <2>13, <4>1
    <3>2. CASE j = n + 1 /\ k # n + 1
      <4>1. k \in 1 .. n
          BY <2>5, <3>2
      <4>2. Same(refs[k], row)
          BY <2>3, <2>13, <3>2, <4>1 DEF Same
      <4>3. QED
          BY <2>7, <4>1, <4>2
    <3>3. CASE j # n + 1 /\ k = n + 1
      <4>1. j \in 1 .. n
          BY <2>5, <3>3
      <4>2. Same(refs[j], row)
          BY <2>3, <2>13, <3>3, <4>1
      <4>3. QED
          BY <2>7, <4>1, <4>2
    <3>4. QED
        BY <3>1, <3>2, <3>3
  <2>14. WrittenOnce'
      BY <2>3, <2>4, <2>9, <2>13 DEF WrittenOnce, Filled, writes, Same, DEDUP_FIELDS, Key
  <2>15. ASSUME NEW k \in 1 .. n + 1, k > n - w
         PROVE  refs'[k].method = MethodOf(filled'[k - (n - w)])
    <3>1. CASE k = n + 1
      <4>1. k - (n - w) = w + 1
          BY <2>5, <3>1
      <4>2. QED
          BY <2>3, <2>4, <2>6, <3>1, <4>1
    <3>2. CASE k # n + 1
      <4>1. k \in 1 .. n /\ k - (n - w) \in 1 .. w
          BY <2>5, <2>15, <3>2
      <4>2. QED
          BY <2>3, <2>4, <2>11, <2>15, <4>1
    <3>3. QED
        BY <3>1, <3>2
  <2>16. MethodKnown'
    <3>1. \A k \in DOMAIN refs' :
              k > Len(refs') - Len(filled')
                => refs'[k].method = MethodOf(filled'[k - (Len(refs') - Len(filled'))])
        BY <2>3, <2>4, <2>9, <2>15
    <3>2. QED
        BY <3>1 DEF MethodKnown, Filled, Origin, writes, MethodOf
  <2>17. QED
      BY <2>12, <2>14, <2>16
<1>3. QED
    BY <1>1, <1>2

\* A query, whichever level answers it.
LEMMA AskAnswers ==
    ASSUME FInv, Ask
    PROVE  \E key, answer :
               /\ key \in Targets
               /\ Offer(answer.level, key, answer.candidate, answer.given, answer.stated)
               /\ answer.level \in {"L1", "L3"} =>
                      answer.given = <<answer.candidate.value, answer.candidate.unit>>
               /\ \/ answer.level = "L1" /\ dedup_check(answer.candidate, refs)
                  \/ /\ key \notin load_existing_refs(refs)
                     /\ answer.level \in {"L2", "L3"}
                     /\ answer.candidate.confidence \in {"medium", "low"}
                     /\ answer.candidate.method
                            = MethodOf([from |-> answer.level, stated |-> answer.stated])
                     /\ answer.level = "L2" => Key(answer.candidate) = key
                     /\ answer.level = "L3" =>
                            Key(answer.candidate) = <<key[1], answer.candidate.phase, key[3]>>
<1>1. PICK key \in Targets :
          /\ cache_query(key) # Miss
          /\ Offer(cache_query(key).level, key, cache_query(key).candidate, cache_query(key).given,
                   cache_query(key).stated)
    BY DEF Ask
<1> DEFINE answer == cache_query(key)
           table == query_l1(refs, key)
<1>2. answer # Miss /\ Offer(answer.level, key, answer.candidate, answer.given, answer.stated)
    BY <1>1
<1>3. answer = IF table # Miss THEN table
               ELSE IF query_l2(l2, key) # Miss THEN query_l2(l2, key)
               ELSE query_l3_wiki(l3, key)
    BY DEF cache_query
<1>4. PICK Rows : refs \in Seq(Rows)
    BY DEF FInv, Lists
<1>5. key = <<key[1], key[2], key[3]>>
    BY DEF Targets
<1>6. IF key \in load_existing_refs(refs)
      THEN /\ table # Miss /\ table.level = "L1"
           /\ table.given = <<table.candidate.value, table.candidate.unit>>
           /\ \E k \in DOMAIN refs :
                  /\ Key(refs[k]) = key /\ refs[k].source = table.candidate.source
                  /\ refs[k].method = table.candidate.method
                  /\ Key(table.candidate) = <<key[1], key[2], key[3]>>
      ELSE table = Miss
    BY <1>4, TableAnswers
<1> HIDE DEF answer, table
<1>7. CASE key \in load_existing_refs(refs)
  <2>1. /\ answer = table /\ table.level = "L1"
        /\ table.given = <<table.candidate.value, table.candidate.unit>>
      BY <1>3, <1>6, <1>7
  <2>2. dedup_check(table.candidate, refs)
      BY <1>5, <1>6, <1>7 DEF dedup_check, DEDUP_FIELDS
  <2>3. QED
      BY <1>2, <2>1, <2>2
<1>8. CASE key \notin load_existing_refs(refs)
  <2>1. answer = query_l2(l2, key) \/ answer = query_l3_wiki(l3, key)
      BY <1>3, <1>6, <1>8
  <2>2. /\ answer.level \in {"L2", "L3"} /\ answer.candidate.confidence \in {"medium", "low"}
        /\ answer.candidate.method = MethodOf([from |-> answer.level, stated |-> answer.stated])
        /\ answer.level = "L2" => Key(answer.candidate) = key
        /\ answer.level = "L3" =>
               /\ Key(answer.candidate) = <<key[1], answer.candidate.phase, key[3]>>
               /\ answer.given = <<answer.candidate.value, answer.candidate.unit>>
      BY <1>2, <2>1, CachesAnswer
  <2>3. QED
      BY <1>2, <1>8, <2>2
<1>9. QED
    BY <1>7, <1>8

LEMMA EqualAmountsAreKept ==
    ASSUME NEW given, NEW c,
           Amount(given[1], given[2]) = Amount(c.value, c.unit)
    PROVE  Kept(given, c)
BY DEF Kept

LEMMA SameIsKept ==
    ASSUME NEW given, NEW c, given = <<c.value, c.unit>> PROVE Kept(given, c)
<1>1. given[1] = c.value /\ given[2] = c.unit
    OBVIOUS
<1>2. QED
    BY <1>1, EqualAmountsAreKept

LEMMA UnitMapKeeps ==
    ASSUME NEW value, NEW unit
    PROVE  Amount(value, unit) = Amount(value, UNIT_MAP(unit))
<1>1. CASE unit = "AA"
  <2>1. UNIT_MAP(unit) = "angstrom"
      BY <1>1 DEF UNIT_MAP
  <2>2. QED
      BY <1>1, <2>1 DEF Amount
<1>2. CASE unit # "AA"
    BY <1>2 DEF UNIT_MAP
<1>3. QED
    BY <1>1, <1>2

\* A conversion keeps the quantity but for the last digit of a length, and makes
\* a Mbar of a mbar.
LEMMA ConversionKeeps ==
    ASSUME NEW value \in Int, NEW unit, NEW c,
           c.value = convert_unit(value, unit)[1], c.unit = convert_unit(value, unit)[2]
    PROVE  Kept(<<value, Spelled(unit)>>, c) \/ Spelled(unit) = "mbar"
<1>1. CASE unit.lower = "nm"
  <2>1. c.value = 10 * value /\ c.unit = "angstrom" /\ Spelled(unit) = "nm"
      BY <1>1 DEF convert_unit, Spelled
  <2>2. Amount(c.value, c.unit) = <<"length", 10000 * value>> /\ Amount(value, "nm") = <<"length", 10000 * value>>
      BY <2>1 DEF Amount
  <2>3. QED
      BY <2>1, <2>2, EqualAmountsAreKept
<1>2. CASE unit.lower = "bohr"
  <2> DEFINE cut == (529 * value) \div 1000
  <2>1. c.value = cut /\ c.unit = "angstrom" /\ Spelled(unit) = "Bohr"
      BY <1>2 DEF convert_unit, Spelled
  <2>2. Amount(c.value, c.unit) = <<"length", 1000 * cut>> /\ Amount(value, "Bohr") = <<"length", 529 * value>>
      BY <2>1 DEF Amount
  <2>3. 529 * value - 1000 * cut \in 0 .. 999
      OBVIOUS
  <2>4. QED
      BY <2>1, <2>2, <2>3 DEF Kept
<1>3. CASE unit.lower = "mbar" /\ unit.text = "Mbar"
  <2>1. c.value = 100 * value /\ c.unit = "GPa" /\ Spelled(unit) = "Mbar"
      BY <1>3 DEF convert_unit, Spelled
  <2>2. Amount(c.value, c.unit) = <<"pressure", 100 * value>> /\ Amount(value, "Mbar") = <<"pressure", 100 * value>>
      BY <2>1 DEF Amount
  <2>3. QED
      BY <2>1, <2>2, EqualAmountsAreKept
<1>4. CASE unit.lower = "mbar" /\ unit.text # "Mbar"
    BY <1>4 DEF Spelled
<1>5. CASE unit.lower \notin {"nm", "bohr", "mbar"}
  <2>1. c.value = value /\ c.unit = unit.text /\ Spelled(unit) = unit.text
      BY <1>5 DEF convert_unit, Spelled
  <2>2. QED
      BY <2>1, EqualAmountsAreKept
<1>6. QED
    BY <1>1, <1>2, <1>3, <1>4, <1>5

\* Every candidate an adapter offers comes from it: it has the adapter's method,
\* only the wiki's can call themselves certain, and those of NFMD state the
\* quantity they were given.
Adapted(from, key, c, given, stated) ==
    /\ from \in {"nfmd", "wiki", "ontology"}
    /\ Offer(from, key, c, given, stated)
    /\ c.method = MethodOf([from |-> from, stated |-> stated])
    /\ from # "wiki" => c.confidence \in {"low", "medium"}
    /\ from = "nfmd" => Kept(given, c)
    /\ from = "wiki" =>
           \E w \in WikiParams :
              /\ given = <<w.value, Spelled(w.unit)>>
              /\ c.value = convert_unit(w.value, w.unit)[1]
              /\ c.unit = convert_unit(w.value, w.unit)[2]

LEMMA AdaptersOffer ==
    ASSUME AdaptNfmd \/ AdaptWiki \/ AdaptOntology
    PROVE  \E from, key, c, given, stated : Adapted(from, key, c, given, stated)
<1>1. CASE AdaptNfmd
  <2>1. PICK k \in DOMAIN l2, t \in TARGET_SYSTEMS :
            Offer("nfmd", Key(adapt_nfmd_param(l2[k], t[2], None)), adapt_nfmd_param(l2[k], t[2], None),
                  <<l2[k].value_scalar, l2[k].unit>>, l2[k].method)
      BY <1>1 DEF AdaptNfmd
  <2> DEFINE c == adapt_nfmd_param(l2[k], t[2], None)
  <2>2. /\ c.confidence \in {"low", "medium"} /\ c.value = l2[k].value_scalar
        /\ c.unit = UNIT_MAP(l2[k].unit) /\ c.method = MethodOr(l2[k], "", None)
      BY DEF adapt_nfmd_param, Candidate
  <2> HIDE DEF c
  <2>3. Kept(<<l2[k].value_scalar, l2[k].unit>>, c)
    <3> DEFINE given == <<l2[k].value_scalar, l2[k].unit>>
    <3>1. given[1] = c.value /\ c.unit = UNIT_MAP(given[2])
        BY <2>2
    <3> HIDE DEF given
    <3>2. Kept(given, c)
        BY <3>1, UnitMapKeeps, EqualAmountsAreKept
    <3>3. QED
        BY <3>2 DEF given
  <2>4. c.method = MethodOf([from |-> "nfmd", stated |-> l2[k].method])
      BY <2>2 DEF MethodOr, MethodOf
  <2>5. Offer("nfmd", Key(c), c, <<l2[k].value_scalar, l2[k].unit>>, l2[k].method)
      BY <2>1 DEF c
  <2>6. Adapted("nfmd", Key(c), c, <<l2[k].value_scalar, l2[k].unit>>, l2[k].method)
      BY <2>2, <2>3, <2>4, <2>5 DEF Adapted
  <2>7. QED
      BY <2>6, Zenon
<1>2. CASE AdaptWiki
  <2>1. PICK w \in WikiParams :
            Offer("wiki", Key(adapt_wiki_param(w, None)), adapt_wiki_param(w, None),
                  <<w.value, Spelled(w.unit)>>, w.method)
      BY <1>2 DEF AdaptWiki
  <2>2. /\ adapt_wiki_param(w, None).value = convert_unit(w.value, w.unit)[1]
        /\ adapt_wiki_param(w, None).unit = convert_unit(w.value, w.unit)[2]
        /\ adapt_wiki_param(w, None).method = MethodOr(w, "", None)
      BY DEF adapt_wiki_param, Candidate
  <2>3. adapt_wiki_param(w, None).method = MethodOf([from |-> "wiki", stated |-> w.method])
      BY <2>2 DEF MethodOr, MethodOf
  <2>4. Adapted("wiki", Key(adapt_wiki_param(w, None)), adapt_wiki_param(w, None),
                <<w.value, Spelled(w.unit)>>, w.method)
      BY <2>1, <2>2, <2>3 DEF Adapted
  <2>5. QED
      BY <2>4, Zenon
<1>3. CASE AdaptOntology
  <2>1. PICK i \in Individuals : \E c \in adapt_ontology_individual(i, None) :
            Offer("ontology", Key(c), c, <<c.value, c.unit>>, None)
      BY <1>3 DEF AdaptOntology
  <2>2. PICK c \in adapt_ontology_individual(i, None) :
            Offer("ontology", Key(c), c, <<c.value, c.unit>>, None)
      BY <2>1
  <2>3. c.confidence = "medium" /\ c.method = None
      BY DEF adapt_ontology_individual, Candidate
  <2>4. c.method = MethodOf([from |-> "ontology", stated |-> None])
      BY <2>3 DEF MethodOf
  <2>5. Adapted("ontology", Key(c), c, <<c.value, c.unit>>, None)
      BY <2>2, <2>3, <2>4 DEF Adapted
  <2>6. QED
      BY <2>5, Zenon
<1>4. QED
    BY <1>1, <1>2, <1>3

LEMMA FillingInit == ASSUME Init PROVE FInv
<1>1. refs \in Tables /\ last = Nothing /\ filled = <<>> /\ writes = 0
    BY DEF Init, writes
<1>2. last.status = "none" /\ last.from = "none"
    BY <1>1 DEF Nothing
<1>3. Tables \subseteq Seq(Row)
    BY TablesAssumption
<1>4. DOMAIN refs = 1 .. Len(refs) /\ Len(refs) \in Nat
    BY <1>1, <1>3, LenProperties
<1>5. \A k \in DOMAIN refs : ~Filled(k)
    BY <1>1, <1>4 DEF Filled
<1>6. Lists
    BY <1>1, <1>3, <1>4, EmptySeq DEF Lists
<1>7. QED
    BY <1>2, <1>5, <1>6 DEF FInv, WrittenOnce, MethodKnown, AutoOnlyByClaim, OpenExplained

LEMMA FillingStep == FInv /\ [Next]_vars => FInv'
<1> SUFFICES ASSUME FInv, [Next]_vars PROVE FInv'
    OBVIOUS
<1>1. CASE Ask
  <2>1. PICK key, answer :
            /\ key \in Targets
            /\ Offer(answer.level, key, answer.candidate, answer.given, answer.stated)
            /\ \/ answer.level = "L1" /\ dedup_check(answer.candidate, refs)
               \/ /\ key \notin load_existing_refs(refs)
                  /\ answer.level \in {"L2", "L3"}
                  /\ answer.candidate.confidence \in {"medium", "low"}
                  /\ answer.candidate.method
                         = MethodOf([from |-> answer.level, stated |-> answer.stated])
                  /\ answer.level = "L2" => Key(answer.candidate) = key
                  /\ answer.level = "L3" =>
                         Key(answer.candidate) = <<key[1], answer.candidate.phase, key[3]>>
      BY <1>1, AskAnswers
  <2> DEFINE c == answer.candidate
             status == write_ref_value(c, refs)
  <2>2. Lists' /\ WrittenOnce' /\ MethodKnown'
    <3>1. Stored(write_ref_value(c, refs)) =>
              c.method = MethodOf([from |-> answer.level, stated |-> answer.stated])
        BY <2>1, GateTells
    <3>2. QED
        BY <2>1, <3>1, OfferStoresOnce
  <2>3. /\ last'.from = answer.level /\ last'.key = key /\ last'.candidate = c /\ last'.status = status
        /\ Stored(status) => \E row : Same(row, c) /\ refs' = Append(refs, row)
      BY <2>1, OfferLeaves
  <2>4. (Stored(status) => ~dedup_check(c, refs))
        /\ (status = "written_auto" => c.confidence \in {"high", "High"})
      BY GateTells
  <2> HIDE DEF status
  <2>5. AutoOnlyByClaim'
    <3>1. status # "written_auto"
        BY <2>1, <2>4 DEF Stored
    <3>2. QED
        BY <2>3, <3>1 DEF AutoOnlyByClaim
  <2>6. OpenExplained'
    <3>1. SUFFICES ASSUME Stored(status), answer.level \in {"L2", "L3"},
                          answer.level = "L3" => c.phase = key[2]
                   PROVE  key \in load_existing_refs(refs)'
        BY <2>3 DEF OpenExplained, compute_gaps, Stored
    <3>2. key = <<key[1], key[2], key[3]>>
        BY <2>1 DEF Targets
    <3>3. Key(c) = key
        BY <2>1, <3>1, <3>2
    <3>4. PICK row : Same(row, c) /\ refs' = Append(refs, row)
        BY <2>3, <3>1
    <3>5. PICK Rows : refs \in Seq(Rows)
        BY DEF FInv, Lists
    <3>6. DOMAIN refs' = 1 .. Len(refs) + 1 /\ refs'[Len(refs) + 1] = row /\ Len(refs) \in Nat
        BY <3>4, <3>5, AppendEnds, LenProperties
    <3>7. Len(refs) + 1 \in DOMAIN refs' /\ Key(row) = key
        BY <3>3, <3>4, <3>6 DEF Same, DEDUP_FIELDS
    <3>8. QED
        BY <3>6, <3>7 DEF load_existing_refs, Key
  <2>7. QED
      BY <2>2, <2>5, <2>6 DEF FInv
<1>2. CASE AdaptNfmd \/ AdaptWiki \/ AdaptOntology
  <2> PICK from, key, c, given, stated : Adapted(from, key, c, given, stated)
      BY <1>2, AdaptersOffer, Zenon
  <2>1. /\ from \in {"nfmd", "wiki", "ontology"}
        /\ Offer(from, key, c, given, stated)
        /\ c.method = MethodOf([from |-> from, stated |-> stated])
        /\ from # "wiki" => c.confidence \in {"low", "medium"}
      BY DEF Adapted
  <2>2. Lists' /\ WrittenOnce' /\ MethodKnown'
      BY <2>1, OfferStoresOnce
  <2>3. /\ last'.from = from /\ last'.candidate = c
        /\ last'.status = write_ref_value(c, refs)
      BY <2>1, OfferLeaves
  <2>4. write_ref_value(c, refs) = "written_auto" => c.confidence \in {"high", "High"}
      BY GateTells
  <2>5. AutoOnlyByClaim' /\ OpenExplained'
      BY <2>1, <2>3, <2>4 DEF AutoOnlyByClaim, OpenExplained
  <2>6. QED
      BY <2>2, <2>5 DEF FInv
<1>3. CASE UNCHANGED vars
    BY <1>3 DEF vars, FInv, Lists, WrittenOnce, MethodKnown, AutoOnlyByClaim, OpenExplained,
                Filled, Origin, writes, Same, DEDUP_FIELDS, Key, load_existing_refs, compute_gaps
<1>4. QED
    BY <1>1, <1>2, <1>3 DEF Next

LEMMA FillingInvariance == Spec => []FInv
<1>1. Init => FInv
    BY FillingInit
<1>2. QED
    BY <1>1, FillingStep, PTL DEF Spec

\* Rows that are filled in for one key and source have different methods; of two
\* whose records state the same one, it is none, and two readers that call it
\* differently have read them.
THEOREM FillingStoresOnce == Spec => []StoredOnce
<1>1. ASSUME FInv PROVE StoredOnce
  <2> SUFFICES ASSUME NEW j \in DOMAIN refs, NEW k \in DOMAIN refs, Key(refs[j]) = Key(refs[k]),
                      refs[j].source = refs[k].source, Filled(k), j # k
               PROVE  /\ refs[j].method # refs[k].method
                      /\ Filled(j) /\ Origin(j).stated = Origin(k).stated =>
                            /\ Origin(k).stated = None /\ Origin(j).from # Origin(k).from
                            /\ ~({Origin(j).from, Origin(k).from} \subseteq {"L2", "nfmd", "wiki"})
      BY DEF StoredOnce
  <2>1. refs[j].method # refs[k].method
      BY <1>1 DEF FInv, WrittenOnce, Same, DEDUP_FIELDS
  <2>2. ASSUME Filled(j) PROVE MethodOf(Origin(j)) # MethodOf(Origin(k))
      BY <1>1, <2>1, <2>2 DEF FInv, MethodKnown
  <2>3. ASSUME NEW o, NEW q, MethodOf(o) # MethodOf(q), o.stated = q.stated
        PROVE  /\ q.stated = None /\ o.from # q.from
               /\ ~({o.from, q.from} \subseteq {"L2", "nfmd", "wiki"})
      BY <2>3 DEF MethodOf
  <2>4. QED
      BY <2>1, <2>2, <2>3
<1>2. QED
    BY <1>1, FillingInvariance, PTL

\* Nothing but a wiki record that calls itself certain enters the table without
\* review.
THEOREM CertaintyIsClaimed == Spec => []AutoOnlyByClaim
<1>1. FInv => AutoOnlyByClaim
    BY DEF FInv
<1>2. QED
    BY <1>1, FillingInvariance, PTL

\* A written answer closes its gap, unless the wiki has the value of another
\* phase.
THEOREM AnswersCloseGaps == Spec => []OpenExplained
<1>1. FInv => OpenExplained
    BY DEF FInv
<1>2. QED
    BY <1>1, FillingInvariance, PTL

\* The caches are asked only for what the table lacks.
THEOREM TableIsFirst == Spec => TableFirst
<1>1. ASSUME FInv, [Next]_vars, last' # last, last'.from \in {"L2", "L3"}
      PROVE  last'.key \in compute_gaps(load_existing_refs(refs))
  <2>1. CASE Ask
    <3>1. PICK key, answer :
              /\ key \in Targets
              /\ Offer(answer.level, key, answer.candidate, answer.given, answer.stated)
              /\ \/ answer.level = "L1"
                 \/ key \notin load_existing_refs(refs)
        BY <1>1, <2>1, AskAnswers
    <3>2. last'.from = answer.level /\ last'.key = key
        BY <3>1, OfferNotes, Zenon
    <3>3. QED
        BY <1>1, <3>1, <3>2 DEF compute_gaps
  <2>2. CASE AdaptNfmd \/ AdaptWiki \/ AdaptOntology
    <3> PICK from, key, c, given, stated : Adapted(from, key, c, given, stated)
        BY <2>2, AdaptersOffer, Zenon
    <3>1. from \in {"nfmd", "wiki", "ontology"} /\ Offer(from, key, c, given, stated)
        BY DEF Adapted
    <3>2. last'.from = from
        BY <3>1, OfferNotes, Zenon
    <3>3. QED
        BY <1>1, <3>1, <3>2
  <2>3. CASE UNCHANGED vars
      BY <1>1, <2>3 DEF vars
  <2>4. QED
      BY <1>1, <2>1, <2>2, <2>3 DEF Next
<1>2. FInv /\ [Next]_vars =>
          [last' # last /\ last'.from \in {"L2", "L3"} =>
               last'.key \in compute_gaps(load_existing_refs(refs))]_vars
    BY <1>1
<1>3. QED
    BY <1>2, FillingInvariance, PTL DEF Spec, TableFirst

\* Adapters and caches but L2 pass on the quantity the source states, in whatever
\* unit and spelling, but for a mbar of the wiki.
THEOREM QuantitiesAreKept == Spec => []QuantityKept
<1>1. Init => QuantityKept
    BY DEF Init, Nothing, QuantityKept
<1>2. FInv /\ QuantityKept /\ [Next]_vars => QuantityKept'
  <2>1. SUFFICES ASSUME FInv, QuantityKept, [Next]_vars
                 PROVE  QuantityKept'
      OBVIOUS
  <2>2. CASE Ask
    <3>1. PICK key, answer :
              /\ key \in Targets
              /\ Offer(answer.level, key, answer.candidate, answer.given, answer.stated)
              /\ answer.level \in {"L1", "L3"} =>
                     answer.given = <<answer.candidate.value, answer.candidate.unit>>
              /\ answer.level \in {"L1", "L2", "L3"}
        BY <2>1, <2>2, AskAnswers
    <3>2. last'.from = answer.level /\ last'.candidate = answer.candidate /\ last'.given = answer.given
        BY <3>1, OfferNotes, Zenon
    <3>3. answer.level \in {"L1", "L3"} => Kept(answer.given, answer.candidate)
        BY <3>1, SameIsKept
    <3>4. QED
        BY <3>1, <3>2, <3>3 DEF QuantityKept
  <2>3. CASE AdaptNfmd \/ AdaptWiki \/ AdaptOntology
    <3> PICK from, key, c, given, stated : Adapted(from, key, c, given, stated)
        BY <2>3, AdaptersOffer, Zenon
    <3>1. /\ from \in {"nfmd", "wiki", "ontology"}
          /\ Offer(from, key, c, given, stated)
          /\ from = "nfmd" => Kept(given, c)
          /\ from = "wiki" =>
                 \E w \in WikiParams :
                    /\ given = <<w.value, Spelled(w.unit)>>
                    /\ c.value = convert_unit(w.value, w.unit)[1]
                    /\ c.unit = convert_unit(w.value, w.unit)[2]
        BY DEF Adapted
    <3>2. last'.from = from /\ last'.candidate = c /\ last'.given = given
        BY <3>1, OfferNotes, Zenon
    <3>3. from = "wiki" => Kept(given, c) \/ given[2] = "mbar"
      <4>1. SUFFICES ASSUME from = "wiki" PROVE Kept(given, c) \/ given[2] = "mbar"
          OBVIOUS
      <4>2. PICK w \in WikiParams :
                /\ given = <<w.value, Spelled(w.unit)>>
                /\ c.value = convert_unit(w.value, w.unit)[1]
                /\ c.unit = convert_unit(w.value, w.unit)[2]
          BY <3>1, <4>1
      <4>3. w.value \in Int
          BY WikiAssumption
      <4>4. QED
          BY <4>2, <4>3, ConversionKeeps
    <3>4. QED
        BY <3>1, <3>2, <3>3 DEF QuantityKept
  <2>4. CASE UNCHANGED vars
    <3>1. last' = last
        BY <2>4 DEF vars
    <3>2. QED
        BY <2>1, <3>1 DEF QuantityKept
  <2>5. QED
      BY <2>1, <2>2, <2>3, <2>4 DEF Next
<1>3. QED
    BY <1>1, <1>2, FillingInvariance, PTL DEF Spec

-----------------------------------------------------------------------------
(* The names and symbols of properties.                                    *)

LEMMA Properties ==
    Property = {"lattice_constant", "cohesive_energy", "C11", "C12", "C44", "C33", "bulk_modulus",
                "vacancy_formation_energy", "formation_energy", "surface_energy", "melting_point",
                "thermal_conductivity"}
BY DEF Property, MAPPING

LEMMA RankNat == ASSUME NEW p \in Property PROVE Rank(p) \in 1 .. 12
<1>1. DOMAIN ORDER = 1 .. 12
    BY DEF ORDER
<1>2. \E k \in 1 .. 12 : ORDER[k] = p
    BY Properties DEF ORDER
<1>3. QED
    BY <1>1, <1>2 DEF Rank

\* One of the properties listed is the last of them in the file.
LEMMA LatestListed ==
    ASSUME NEW listed \in SUBSET Property, listed # {} PROVE Latest(listed) \in listed
<1> DEFINE left == {12 - Rank(p) : p \in listed}
<1>1. left \subseteq Nat /\ left # {}
    BY RankNat
<1>2. PICK least \in left : \A n \in left : least <= n
    BY <1>1, LeastNat
<1>3. PICK p \in listed : least = 12 - Rank(p)
    OBVIOUS
<1>4. ASSUME NEW q \in listed PROVE Rank(q) <= Rank(p)
  <2>1. Rank(q) \in 1 .. 12 /\ Rank(p) \in 1 .. 12
      BY RankNat
  <2>2. 12 - Rank(p) <= 12 - Rank(q)
      BY <1>2, <1>3
  <2>3. QED
      BY <2>1, <2>2
<1>5. QED
    BY <1>3, <1>4 DEF Latest

LEMMA FieldOfEntry ==
    ASSUME NEW unit, NEW names, NEW symbols, NEW keys, NEW least, NEW most
    PROVE  Entry(unit, names, symbols, keys, least, most).nfmd_names = names
BY DEF Entry

LEMMA Names ==
    /\ MAPPING["lattice_constant"].nfmd_names = {"lattice parameter", "lattice constant", "a0", "lattice parameter a"}
    /\ MAPPING["cohesive_energy"].nfmd_names = {"cohesive energy"}
    /\ MAPPING["C11"].nfmd_names = {"elastic constant c11", "c11"}
    /\ MAPPING["C12"].nfmd_names = {"elastic constant c12", "c12"}
    /\ MAPPING["C44"].nfmd_names = {"elastic constant c44", "c44"}
    /\ MAPPING["C33"].nfmd_names = {"elastic constant c33", "c33"}
    /\ MAPPING["bulk_modulus"].nfmd_names = {"bulk modulus", "isothermal bulk modulus"}
    /\ MAPPING["vacancy_formation_energy"].nfmd_names = {"vacancy formation energy"}
    /\ MAPPING["formation_energy"].nfmd_names = {"formation energy", "enthalpy of formation"}
    /\ MAPPING["surface_energy"].nfmd_names = {"surface energy"}
    /\ MAPPING["melting_point"].nfmd_names = {"melting point", "melting temperature"}
    /\ MAPPING["thermal_conductivity"].nfmd_names = {"thermal conductivity"}
<1>1. MAPPING["lattice_constant"].nfmd_names = {"lattice parameter", "lattice constant", "a0", "lattice parameter a"}
  <2> DEFINE names == {"lattice parameter", "lattice constant", "a0", "lattice parameter a"}
  <2>1. MAPPING["lattice_constant"] = Entry("AA", names, {"a", "a0", "a_lat"}, {"latticeConstant"}, 2000, 6500)
      BY SMT DEF MAPPING
  <2>2. Entry("AA", names, {"a", "a0", "a_lat"}, {"latticeConstant"}, 2000, 6500).nfmd_names = names
    <3> HIDE DEF names
    <3>1. QED
        BY FieldOfEntry
  <2> HIDE DEF names
  <2>3. MAPPING["lattice_constant"].nfmd_names = names
      BY <2>1, <2>2
  <2>4. QED
      BY Zenon, <2>3 DEF names
<1>2. MAPPING["cohesive_energy"].nfmd_names = {"cohesive energy"}
  <2> DEFINE names == {"cohesive energy"}
  <2>1. MAPPING["cohesive_energy"] = Entry("eV/atom", names, {"e_coh", "e_c"}, {}, -10000, 0)
      BY SMT DEF MAPPING
  <2>2. Entry("eV/atom", names, {"e_coh", "e_c"}, {}, -10000, 0).nfmd_names = names
    <3> HIDE DEF names
    <3>1. QED
        BY FieldOfEntry
  <2> HIDE DEF names
  <2>3. MAPPING["cohesive_energy"].nfmd_names = names
      BY <2>1, <2>2
  <2>4. QED
      BY Zenon, <2>3 DEF names
<1>3. MAPPING["C11"].nfmd_names = {"elastic constant c11", "c11"}
  <2> DEFINE names == {"elastic constant c11", "c11"}
  <2>1. MAPPING["C11"] = Entry("GPa", names, {"c11"}, {"elasticConstantC11"}, 10000, 600000)
      BY SMT DEF MAPPING
  <2>2. Entry("GPa", names, {"c11"}, {"elasticConstantC11"}, 10000, 600000).nfmd_names = names
    <3> HIDE DEF names
    <3>1. QED
        BY FieldOfEntry
  <2> HIDE DEF names
  <2>3. MAPPING["C11"].nfmd_names = names
      BY <2>1, <2>2
  <2>4. QED
      BY Zenon, <2>3 DEF names
<1>4. MAPPING["C12"].nfmd_names = {"elastic constant c12", "c12"}
  <2> DEFINE names == {"elastic constant c12", "c12"}
  <2>1. MAPPING["C12"] = Entry("GPa", names, {"c12"}, {"elasticConstantC12"}, 5000, 400000)
      BY SMT DEF MAPPING
  <2>2. Entry("GPa", names, {"c12"}, {"elasticConstantC12"}, 5000, 400000).nfmd_names = names
    <3> HIDE DEF names
    <3>1. QED
        BY FieldOfEntry
  <2> HIDE DEF names
  <2>3. MAPPING["C12"].nfmd_names = names
      BY <2>1, <2>2
  <2>4. QED
      BY Zenon, <2>3 DEF names
<1>5. MAPPING["C44"].nfmd_names = {"elastic constant c44", "c44"}
  <2> DEFINE names == {"elastic constant c44", "c44"}
  <2>1. MAPPING["C44"] = Entry("GPa", names, {"c44"}, {"elasticConstantC44"}, 5000, 400000)
      BY SMT DEF MAPPING
  <2>2. Entry("GPa", names, {"c44"}, {"elasticConstantC44"}, 5000, 400000).nfmd_names = names
    <3> HIDE DEF names
    <3>1. QED
        BY FieldOfEntry
  <2> HIDE DEF names
  <2>3. MAPPING["C44"].nfmd_names = names
      BY <2>1, <2>2
  <2>4. QED
      BY Zenon, <2>3 DEF names
<1>6. MAPPING["C33"].nfmd_names = {"elastic constant c33", "c33"}
  <2> DEFINE names == {"elastic constant c33", "c33"}
  <2>1. MAPPING["C33"] = Entry("GPa", names, {"c33"}, {"elasticConstantC33"}, 10000, 600000)
      BY SMT DEF MAPPING
  <2>2. Entry("GPa", names, {"c33"}, {"elasticConstantC33"}, 10000, 600000).nfmd_names = names
    <3> HIDE DEF names
    <3>1. QED
        BY FieldOfEntry
  <2> HIDE DEF names
  <2>3. MAPPING["C33"].nfmd_names = names
      BY <2>1, <2>2
  <2>4. QED
      BY Zenon, <2>3 DEF names
<1>7. MAPPING["bulk_modulus"].nfmd_names = {"bulk modulus", "isothermal bulk modulus"}
  <2> DEFINE names == {"bulk modulus", "isothermal bulk modulus"}
  <2>1. MAPPING["bulk_modulus"] = Entry("GPa", names, {"b", "k", "b0"}, {}, 10000, 400000)
      BY SMT DEF MAPPING
  <2>2. Entry("GPa", names, {"b", "k", "b0"}, {}, 10000, 400000).nfmd_names = names
    <3> HIDE DEF names
    <3>1. QED
        BY FieldOfEntry
  <2> HIDE DEF names
  <2>3. MAPPING["bulk_modulus"].nfmd_names = names
      BY <2>1, <2>2
  <2>4. QED
      BY Zenon, <2>3 DEF names
<1>8. MAPPING["vacancy_formation_energy"].nfmd_names = {"vacancy formation energy"}
  <2> DEFINE names == {"vacancy formation energy"}
  <2>1. MAPPING["vacancy_formation_energy"] = Entry("eV", names, {"e_vf", "e_vac"}, {}, 500, 5000)
      BY SMT DEF MAPPING
  <2>2. Entry("eV", names, {"e_vf", "e_vac"}, {}, 500, 5000).nfmd_names = names
    <3> HIDE DEF names
    <3>1. QED
        BY FieldOfEntry
  <2> HIDE DEF names
  <2>3. MAPPING["vacancy_formation_energy"].nfmd_names = names
      BY <2>1, <2>2
  <2>4. QED
      BY Zenon, <2>3 DEF names
<1>9. MAPPING["formation_energy"].nfmd_names = {"formation energy", "enthalpy of formation"}
  <2> DEFINE names == {"formation energy", "enthalpy of formation"}
  <2>1. MAPPING["formation_energy"] = Entry("eV/atom", names, {"e_f", "dh_f"}, {"formationEnergy"}, -2000, 2000)
      BY SMT DEF MAPPING
  <2>2. Entry("eV/atom", names, {"e_f", "dh_f"}, {"formationEnergy"}, -2000, 2000).nfmd_names = names
    <3> HIDE DEF names
    <3>1. QED
        BY FieldOfEntry
  <2> HIDE DEF names
  <2>3. MAPPING["formation_energy"].nfmd_names = names
      BY <2>1, <2>2
  <2>4. QED
      BY Zenon, <2>3 DEF names
<1>10. MAPPING["surface_energy"].nfmd_names = {"surface energy"}
  <2> DEFINE names == {"surface energy"}
  <2>1. MAPPING["surface_energy"] = Entry("J/m2", names, {"gamma", "e_surf"}, {}, 500, 5000)
      BY SMT DEF MAPPING
  <2>2. Entry("J/m2", names, {"gamma", "e_surf"}, {}, 500, 5000).nfmd_names = names
    <3> HIDE DEF names
    <3>1. QED
        BY FieldOfEntry
  <2> HIDE DEF names
  <2>3. MAPPING["surface_energy"].nfmd_names = names
      BY <2>1, <2>2
  <2>4. QED
      BY Zenon, <2>3 DEF names
<1>11. MAPPING["melting_point"].nfmd_names = {"melting point", "melting temperature"}
  <2> DEFINE names == {"melting point", "melting temperature"}
  <2>1. MAPPING["melting_point"] = Entry("K", names, {"t_m", "t_melt"}, {"meltingPoint"}, 300000, 4500000)
      BY SMT DEF MAPPING
  <2>2. Entry("K", names, {"t_m", "t_melt"}, {"meltingPoint"}, 300000, 4500000).nfmd_names = names
    <3> HIDE DEF names
    <3>1. QED
        BY FieldOfEntry
  <2> HIDE DEF names
  <2>3. MAPPING["melting_point"].nfmd_names = names
      BY <2>1, <2>2
  <2>4. QED
      BY Zenon, <2>3 DEF names
<1>12. MAPPING["thermal_conductivity"].nfmd_names = {"thermal conductivity"}
  <2> DEFINE names == {"thermal conductivity"}
  <2>1. MAPPING["thermal_conductivity"] = Entry("W/mK", names, {"kappa", "k", "lambda"}, {"thermalConductivity"}, 100, 500000)
      BY SMT DEF MAPPING
  <2>2. Entry("W/mK", names, {"kappa", "k", "lambda"}, {"thermalConductivity"}, 100, 500000).nfmd_names = names
    <3> HIDE DEF names
    <3>1. QED
        BY FieldOfEntry
  <2> HIDE DEF names
  <2>3. MAPPING["thermal_conductivity"].nfmd_names = names
      BY <2>1, <2>2
  <2>4. QED
      BY Zenon, <2>3 DEF names
<1>13. QED
    BY <1>1, <1>2, <1>3, <1>4, <1>5, <1>6, <1>7, <1>8, <1>9, <1>10, <1>11, <1>12

\* No name is listed for two properties.
LEMMA NamesApart ==
    ASSUME NEW p \in Property, NEW q \in Property, NEW name \in MAPPING[p].nfmd_names,
           name \in MAPPING[q].nfmd_names
    PROVE  p = q
<1> DEFINE owner(n) ==
        IF n \in {"lattice parameter", "lattice constant", "a0", "lattice parameter a"} THEN "lattice_constant"
        ELSE IF n \in {"cohesive energy"} THEN "cohesive_energy"
        ELSE IF n \in {"elastic constant c11", "c11"} THEN "C11"
        ELSE IF n \in {"elastic constant c12", "c12"} THEN "C12"
        ELSE IF n \in {"elastic constant c44", "c44"} THEN "C44"
        ELSE IF n \in {"elastic constant c33", "c33"} THEN "C33"
        ELSE IF n \in {"bulk modulus", "isothermal bulk modulus"} THEN "bulk_modulus"
        ELSE IF n \in {"vacancy formation energy"} THEN "vacancy_formation_energy"
        ELSE IF n \in {"formation energy", "enthalpy of formation"} THEN "formation_energy"
        ELSE IF n \in {"surface energy"} THEN "surface_energy"
        ELSE IF n \in {"melting point", "melting temperature"} THEN "melting_point"
        ELSE "thermal_conductivity"
<1>1. ASSUME NEW r \in Property, NEW n \in MAPPING[r].nfmd_names PROVE owner(n) = r
  <2>1. CASE r = "lattice_constant"
      BY <2>1, Names
  <2>2. CASE r = "cohesive_energy"
      BY <2>2, Names
  <2>3. CASE r = "C11"
      BY <2>3, Names
  <2>4. CASE r = "C12"
      BY <2>4, Names
  <2>5. CASE r = "C44"
      BY <2>5, Names
  <2>6. CASE r = "C33"
      BY <2>6, Names
  <2>7. CASE r = "bulk_modulus"
      BY <2>7, Names
  <2>8. CASE r = "vacancy_formation_energy"
      BY <2>8, Names
  <2>9. CASE r = "formation_energy"
      BY <2>9, Names
  <2>10. CASE r = "surface_energy"
      BY <2>10, Names
  <2>11. CASE r = "melting_point"
      BY <2>11, Names
  <2>12. CASE r = "thermal_conductivity"
      BY <2>12, Names
  <2>13. QED
      BY Properties, <2>1, <2>2, <2>3, <2>4, <2>5, <2>6, <2>7, <2>8, <2>9, <2>10, <2>11, <2>12
<1>2. owner(name) = p /\ owner(name) = q
    BY <1>1
<1>3. QED
    BY <1>2

\* A name or a symbol that is listed for a property leads to it, unless the
\* symbol is listed for another one, too.
LEMMA ListedResolves ==
    ASSUME NEW name, NEW symbol, NEW p \in Property,
           name \in MAPPING[p].nfmd_names \/ symbol \in MAPPING[p].nfmd_symbols,
           \A q \in Property \ {p} : symbol \notin MAPPING[q].nfmd_symbols
    PROVE  resolve_property(name, symbol) = p
<1> DEFINE symbols == {q \in Property : symbol \in MAPPING[q].nfmd_symbols}
           names == {q \in Property : name \in MAPPING[q].nfmd_names}
<1>1. Unmapped \notin Property
    BY Properties DEF Unmapped
<1>2. CASE symbol \in MAPPING[p].nfmd_symbols
  <2>1. symbols = {p}
      BY <1>2
  <2>2. BySymbol(symbol) = p
      BY <2>1, LatestListed DEF BySymbol
  <2>3. QED
      BY <1>1, <2>2 DEF resolve_property
<1>3. CASE symbol \notin MAPPING[p].nfmd_symbols
  <2>1. symbols = {} /\ names = {p}
      BY <1>3, NamesApart
  <2>2. BySymbol(symbol) = Unmapped
      BY <2>1 DEF BySymbol, Latest
  <2>3. ByName(name) = p
      BY <2>1, LatestListed DEF ByName
  <2>4. QED
      BY <1>1, <2>2, <2>3 DEF resolve_property
<1>4. QED
    BY <1>2, <1>3

\* A parameter that L2 offers for a property is adapted as that property, unless
\* its symbol is listed for another one.
THEOREM ResolutionsDoAgree == Spec => []ResolutionsAgree
<1>1. ResolutionsAgree
    BY ListedResolves DEF ResolutionsAgree
<1>2. QED
    BY <1>1, PTL

=============================================================================
