------------------------ MODULE ElasticBackfillProofs ------------------------
(***************************************************************************)
(* Proofs about ElasticBackfill, for any passes, results and fault bound.  *)
(***************************************************************************)
EXTENDS ElasticBackfill, FiniteSetTheorems, SequenceTheorems, TLAPS

-----------------------------------------------------------------------------
(* The counters.                                                           *)

Counter == {"extracted", "written", "duplicates", "rejected", "errors"}
Step(field, f) == IF field = f THEN 1 ELSE 0

\* A count raises one counter of one pass.
LEMMA CountFacts ==
    ASSUME NEW p \in Passes, stats \in [Passes -> BackfillStats], NEW field \in Counter,
           Count(p, field)
    PROVE  /\ stats' \in [Passes -> BackfillStats]
           /\ \A q \in Passes \ {p} : stats'[q] = stats[q]
           /\ stats'[p].extracted = stats[p].extracted + Step(field, "extracted")
           /\ stats'[p].written = stats[p].written + Step(field, "written")
           /\ stats'[p].duplicates = stats[p].duplicates + Step(field, "duplicates")
           /\ stats'[p].rejected = stats[p].rejected + Step(field, "rejected")
           /\ stats'[p].errors = stats[p].errors + Step(field, "errors")
<1> DEFINE s == stats[p]
<1>1. s \in BackfillStats
    OBVIOUS
<1>2. stats' = [stats EXCEPT ![p] = [s EXCEPT ![field] = @ + 1]]
    BY DEF Count
<1>3. CASE field = "extracted"
  <2>1. [s EXCEPT !.extracted = @ + 1] \in BackfillStats
    BY <1>1 DEF BackfillStats
  <2>2. QED
    BY <1>1, <1>2, <1>3, <2>1 DEF BackfillStats, Step
<1>4. CASE field = "written"
  <2>1. [s EXCEPT !.written = @ + 1] \in BackfillStats
    BY <1>1 DEF BackfillStats
  <2>2. QED
    BY <1>1, <1>2, <1>4, <2>1 DEF BackfillStats, Step
<1>5. CASE field = "duplicates"
  <2>1. [s EXCEPT !.duplicates = @ + 1] \in BackfillStats
    BY <1>1 DEF BackfillStats
  <2>2. QED
    BY <1>1, <1>2, <1>5, <2>1 DEF BackfillStats, Step
<1>6. CASE field = "rejected"
  <2>1. [s EXCEPT !.rejected = @ + 1] \in BackfillStats
    BY <1>1 DEF BackfillStats
  <2>2. QED
    BY <1>1, <1>2, <1>6, <2>1 DEF BackfillStats, Step
<1>7. CASE field = "errors"
  <2>1. [s EXCEPT !.errors = @ + 1] \in BackfillStats
    BY <1>1 DEF BackfillStats
  <2>2. QED
    BY <1>1, <1>2, <1>7, <2>1 DEF BackfillStats, Step
<1>8. QED
    BY <1>3, <1>4, <1>5, <1>6, <1>7 DEF Counter

-----------------------------------------------------------------------------
(* The table.                                                              *)

\* What a pass has inserted is a finite number of records.
LEMMA InsertedIsFinite ==
    ASSUME reference_values \in Seq(Passes \X Record), NEW p
    PROVE  IsFiniteSet(InsertedBy(p)) /\ Cardinality(InsertedBy(p)) \in Nat
<1>1. IsFiniteSet(1 .. Len(reference_values))
    BY LenProperties, FS_Interval
<1>2. IsFiniteSet(InsertedBy(p))
    BY <1>1, FS_Subset DEF InsertedBy
<1>3. QED
    BY <1>2, FS_CardinalityType

\* An insert adds one record, and one to what its pass has inserted.
LEMMA InsertFacts ==
    ASSUME reference_values \in Seq(Passes \X Record), NEW p \in Passes, NEW rec \in Record,
           reference_values' = Append(reference_values, <<p, rec>>)
    PROVE  /\ reference_values' \in Seq(Passes \X Record)
           /\ Len(reference_values) \in Nat /\ Len(reference_values') = Len(reference_values) + 1
           /\ \A k \in 1 .. Len(reference_values) : reference_values'[k] = reference_values[k]
           /\ reference_values'[Len(reference_values) + 1] = <<p, rec>>
           /\ Cardinality(InsertedBy(p)') = Cardinality(InsertedBy(p)) + 1
           /\ \A q \in Passes \ {p} : InsertedBy(q)' = InsertedBy(q)
<1> DEFINE n == Len(reference_values)
<1>1. /\ reference_values' \in Seq(Passes \X Record)
      /\ n \in Nat /\ Len(reference_values') = n + 1
      /\ \A k \in 1 .. n : reference_values'[k] = reference_values[k]
      /\ reference_values'[n + 1] = <<p, rec>>
    BY AppendProperties, LenProperties
<1>2. InsertedBy(p)' = InsertedBy(p) \cup {n + 1}
    BY <1>1 DEF InsertedBy
<1>3. n + 1 \notin InsertedBy(p)
    BY <1>1 DEF InsertedBy
<1>4. Cardinality(InsertedBy(p)') = Cardinality(InsertedBy(p)) + 1
    BY <1>2, <1>3, InsertedIsFinite, FS_AddElement
<1>5. \A q \in Passes \ {p} : InsertedBy(q)' = InsertedBy(q)
    BY <1>1 DEF InsertedBy
<1>6. QED
    BY <1>1, <1>4, <1>5

-----------------------------------------------------------------------------
(* The inductive invariant.                                                *)

\* A pass that has not fetched its rows has counted nothing, and a dry one never
\* comes to the table; a lost answer is one of the errors of the database.
Unbegun(p) ==
    /\ pc[p] \in {"select", "insert"} => p \notin DryPasses
    /\ pc[p] = "start" => /\ rows[p] = <<>>
                          /\ stats[p].extracted = 0 /\ stats[p].written = 0
                          /\ stats[p].duplicates = 0 /\ stats[p].rejected = 0 /\ stats[p].errors = 0
Typed == TypeOK /\ \A p \in Passes : Unbegun(p) /\ lostAcks[p] <= dbFaults

\* What StatsTellTable says of one pass.
Tells(p) ==
    /\ Cardinality(InsertedBy(p)) = stats[p].written + lostAcks[p]
    /\ rows[p] # <<>> =>
          stats[p].extracted = stats[p].written + stats[p].duplicates + stats[p].rejected + stats[p].errors
                               + (IF pc[p] \in {"select", "insert"} THEN 1 ELSE 0)

\* A record that is in the table a second time, or was stored before, is excused;
\* one about to be inserted is not there, or excused.
Distinct ==
    /\ \A k \in 1 .. Len(reference_values) :
           reference_values[k][2] \in Stored => reference_values[k][2] \in excused
    /\ \A j, k \in 1 .. Len(reference_values) :
           j # k /\ reference_values[j][2] = reference_values[k][2] => reference_values[k][2] \in excused
    /\ \A p \in Passes : pc[p] = "insert" => Row(p).record \in excused \/ Row(p).record \notin Existing

IInv == Typed /\ (\A p \in Passes \ DryPasses : Tells(p)) /\ Distinct

LEMMA InitHolds == Init => IInv
<1> SUFFICES ASSUME Init PROVE IInv
    OBVIOUS
<1>1. TypeOK
    BY FaultsAssumption DEF Init, TypeOK, NoStats, BackfillStats
<1>2. \A p \in Passes : Unbegun(p) /\ lostAcks[p] <= dbFaults
    BY DEF Init, Unbegun, NoStats
<1>3. \A p : InsertedBy(p) = {}
    BY DEF Init, InsertedBy
<1>4. \A p \in Passes : Tells(p)
  <2>1. \A p : Cardinality(InsertedBy(p)) = 0
      BY <1>3, FS_EmptySet, Zenon
  <2>2. QED
      BY <2>1 DEF Init, Tells, NoStats
<1>5. Distinct
    BY DEF Init, Distinct
<1>6. QED
    BY <1>1, <1>2, <1>4, <1>5 DEF IInv, Typed

\* What a step leaves of a pass that does not take it.
LEMMA OthersKeep ==
    ASSUME IInv, NEW p \in Passes, NEW q \in Passes \ {p},
           pc'[q] = pc[q], rows'[q] = rows[q], pos'[q] = pos[q], stats'[q] = stats[q],
           lostAcks'[q] = lostAcks[q], InsertedBy(q)' = InsertedBy(q),
           dbFaults' \in Nat, dbFaults <= dbFaults'
    PROVE  Unbegun(q)' /\ lostAcks'[q] <= dbFaults' /\ (q \notin DryPasses => Tells(q)') /\ Row(q)' = Row(q)
<1>1. Unbegun(q) /\ lostAcks[q] <= dbFaults /\ (q \notin DryPasses => Tells(q))
    BY DEF IInv, Typed
<1>2. dbFaults \in Nat /\ lostAcks[q] \in Nat
    BY FaultsAssumption DEF IInv, Typed, TypeOK
<1>3. QED
    BY <1>1, <1>2 DEF Unbegun, Tells, Row

\* The row a pass is at is a result, with a record.
LEMMA RowFacts ==
    ASSUME IInv, NEW p \in Passes, pos[p] <= Len(rows[p])
    PROVE  Row(p).record \in Record /\ rows[p] # <<>> /\ pos[p] + 1 \in 1 .. Len(rows[p]) + 1
<1>1. rows[p] \in Seq(Results) /\ pos[p] \in 1 .. Len(rows[p]) + 1 /\ Len(rows[p]) \in Nat
    BY LenProperties DEF IInv, Typed, TypeOK
<1>2. Row(p) \in Results
    BY <1>1, ElementOfSeq DEF Row
<1>3. rows[p] # <<>>
    BY <1>1
<1>4. QED
    BY <1>1, <1>2, <1>3, ResultsAssumption DEF Result

\* The table and what is excused do not change, and no pass comes to its insert.
LEMMA DistinctKept ==
    ASSUME IInv, UNCHANGED <<reference_values, excused>>,
           \A q \in Passes : pc'[q] = "insert" => pc[q] = "insert" /\ Row(q)' = Row(q)
    PROVE  Distinct'
BY DEF IInv, Distinct, Existing

-----------------------------------------------------------------------------
(* The steps.                                                              *)

\* A pass that finishes with its row moves on within its rows.
LEMMA NextRowFacts ==
    ASSUME IInv, NEW p \in Passes, pos[p] <= Len(rows[p]), NextRow(p), UNCHANGED rows
    PROVE  /\ pc' \in [Passes -> {"start", "extract", "select", "insert", "done"}]
           /\ pc'[p] = "extract" /\ (\A q \in Passes \ {p} : pc'[q] = pc[q] /\ pos'[q] = pos[q])
           /\ \A q \in Passes : pos'[q] \in 1 .. Len(rows'[q]) + 1
           /\ \A q \in Passes : pc'[q] \in {"select", "insert"} => pos'[q] <= Len(rows'[q])
<1>1. pos[p] + 1 \in 1 .. Len(rows[p]) + 1
    BY RowFacts
<1>2. TypeOK
    BY DEF IInv, Typed
<1>3. pos' = [pos EXCEPT ![p] = @ + 1] /\ pc' = [pc EXCEPT ![p] = "extract"]
    BY DEF NextRow
<1>4. QED
    BY <1>1, <1>2, <1>3 DEF TypeOK

LEMMA FetchHolds == ASSUME IInv, NEW p \in Passes, Fetch(p) PROVE IInv'
<1>0. TypeOK /\ Unbegun(p) /\ (p \notin DryPasses => Tells(p)) /\ dbFaults \in Nat
    BY FaultsAssumption DEF IInv, Typed, TypeOK
<1>1. pc[p] = "start" /\ pc' = [pc EXCEPT ![p] = "extract"] /\ pos[p] \in 1 .. Len(rows[p]) + 1
    BY <1>0 DEF Fetch, TypeOK
<1>2. rows[p] = <<>> /\ pos[p] = 1
    BY <1>0, <1>1 DEF Unbegun
<1>3. UNCHANGED <<reference_values, pos, lostAcks, excused>> /\ \A q \in Passes : InsertedBy(q)' = InsertedBy(q)
    BY DEF Fetch, InsertedBy
<1>4. /\ rows' \in [Passes -> Seq(Results)] /\ stats' \in [Passes -> BackfillStats]
      /\ \A q \in Passes \ {p} : rows'[q] = rows[q] /\ stats'[q] = stats[q]
      /\ dbFaults' \in 0 .. MaxDbFaults /\ dbFaults <= dbFaults'
      /\ stats'[p].written = stats[p].written
      /\ rows'[p] # <<>> => stats'[p].extracted = 0 /\ stats'[p].written = 0
                            /\ stats'[p].duplicates = 0 /\ stats'[p].rejected = 0 /\ stats'[p].errors = 0
  <2>1. CASE \E f \in Fetches : /\ rows' = [rows EXCEPT ![p] = f]
                                /\ stats' = [stats EXCEPT ![p].queried = Len(f)]
                                /\ UNCHANGED dbFaults
    <3>1. PICK f \in Fetches : /\ rows' = [rows EXCEPT ![p] = f]
                               /\ stats' = [stats EXCEPT ![p].queried = Len(f)]
                               /\ UNCHANGED dbFaults
        BY <2>1
    <3>2. f \in Seq(Results) /\ Len(f) \in Nat
        BY FetchesAssumption, LenProperties
    <3> DEFINE s == stats[p]
               fetched == [s EXCEPT !.queried = Len(f)]
    <3>3. s \in BackfillStats /\ stats' = [stats EXCEPT ![p] = fetched] /\ stats \in [Passes -> BackfillStats]
        BY <3>1, <1>0 DEF TypeOK
    <3>4. /\ fetched \in BackfillStats
          /\ fetched.extracted = s.extracted /\ fetched.written = s.written
          /\ fetched.duplicates = s.duplicates /\ fetched.rejected = s.rejected /\ fetched.errors = s.errors
        BY <3>2, <3>3 DEF BackfillStats
    <3> HIDE DEF fetched
    <3>5. stats' \in [Passes -> BackfillStats] /\ stats'[p] = fetched /\ \A q \in Passes \ {p} : stats'[q] = stats[q]
        BY <3>3, <3>4
    <3>6. rows' \in [Passes -> Seq(Results)] /\ \A q \in Passes \ {p} : rows'[q] = rows[q]
        BY <3>1, <3>2, <1>0 DEF TypeOK
    <3>7. dbFaults' \in 0 .. MaxDbFaults /\ dbFaults <= dbFaults'
        BY <3>1, <1>0 DEF TypeOK
    <3>8. QED
        BY <3>4, <3>5, <3>6, <3>7, <1>0, <1>1 DEF Unbegun
  <2>2. CASE Fault /\ Count(p, "errors") /\ UNCHANGED rows
    <3>1. stats \in [Passes -> BackfillStats] /\ "errors" \in Counter
        BY <1>0 DEF TypeOK, Counter
    <3>2. /\ stats' \in [Passes -> BackfillStats] /\ \A q \in Passes \ {p} : stats'[q] = stats[q]
          /\ stats'[p].written = stats[p].written + Step("errors", "written")
        BY <3>1, <2>2, CountFacts
    <3>3. stats[p].written \in Nat /\ Step("errors", "written") = 0
        BY <3>1 DEF BackfillStats, Step
    <3>4. QED
        BY <3>2, <3>3, <2>2, <1>0, <1>2, FaultsAssumption DEF TypeOK, Fault
  <2>3. QED
      BY <2>1, <2>2 DEF Fetch
<1>5. TypeOK'
  <2>1. Len(rows'[p]) \in Nat
      BY <1>4, LenProperties
  <2>2. ASSUME NEW q \in Passes PROVE pos'[q] \in 1 .. Len(rows'[q]) + 1
    <3>1. CASE q = p
        BY <3>1, <1>2, <1>3, <2>1
    <3>2. CASE q # p
      <4>1. rows'[q] = rows[q] /\ pos'[q] = pos[q] /\ pos[q] \in 1 .. Len(rows[q]) + 1
          BY <3>2, <1>0, <1>3, <1>4 DEF TypeOK
      <4>2. QED
          BY <4>1
    <3>3. QED
        BY <3>1, <3>2
  <2>3. \A q \in Passes : pc'[q] \in {"select", "insert"} => pos'[q] <= Len(rows'[q])
      BY <1>0, <1>1, <1>3, <1>4 DEF TypeOK
  <2>4. QED
      BY <1>0, <1>1, <1>3, <1>4, <2>2, <2>3 DEF TypeOK
<1>6. ASSUME NEW q \in Passes \ {p}
      PROVE  Unbegun(q)' /\ lostAcks'[q] <= dbFaults' /\ (q \notin DryPasses => Tells(q)') /\ Row(q)' = Row(q)
  <2>1. pc'[q] = pc[q] /\ pos'[q] = pos[q] /\ lostAcks'[q] = lostAcks[q] /\ dbFaults' \in Nat
      BY <1>0, <1>1, <1>3, <1>4, FaultsAssumption DEF TypeOK
  <2>2. QED
      BY <1>3, <1>4, <2>1, OthersKeep
<1>7. Unbegun(p)' /\ lostAcks'[p] <= dbFaults'
  <2>1. lostAcks[p] <= dbFaults /\ lostAcks[p] \in Nat
      BY FaultsAssumption DEF IInv, Typed, TypeOK
  <2>2. QED
      BY <2>1, <1>0, <1>1, <1>3, <1>4 DEF Unbegun, TypeOK
<1>8. p \notin DryPasses => Tells(p)'
  <2>1. InsertedBy(p)' = InsertedBy(p) /\ lostAcks'[p] = lostAcks[p] /\ stats'[p].written = stats[p].written
      BY <1>3, <1>4
  <2>2. pc'[p] = "extract"
      BY <1>0, <1>1 DEF TypeOK
  <2>3. QED
      BY <1>0, <1>4, <2>1, <2>2 DEF Tells
<1>9. Distinct'
    BY <1>0, <1>1, <1>3, <1>6, DistinctKept DEF TypeOK
<1>10. QED
    BY <1>5, <1>6, <1>7, <1>8, <1>9 DEF IInv, Typed

LEMMA ExtractHolds == ASSUME IInv, NEW p \in Passes, Extract(p) PROVE IInv'
<1>0. TypeOK /\ (p \notin DryPasses => Tells(p)) /\ pc[p] = "extract" /\ pos[p] <= Len(rows[p])
    BY DEF IInv, Typed, Extract
<1>1. /\ UNCHANGED <<reference_values, rows, dbFaults, lostAcks, excused>>
      /\ \A q \in Passes : InsertedBy(q)' = InsertedBy(q)
    BY DEF Extract, InsertedBy
<1>2. stats \in [Passes -> BackfillStats] /\ "extracted" \in Counter /\ rows[p] # <<>>
    BY <1>0, RowFacts DEF TypeOK, Counter
<1>3. /\ pc' \in [Passes -> {"start", "extract", "select", "insert", "done"}]
      /\ pc'[p] \in {"extract", "select"} /\ (pc'[p] = "select" => p \notin DryPasses)
      /\ \A q \in Passes \ {p} : pc'[q] = pc[q] /\ pos'[q] = pos[q] /\ stats'[q] = stats[q]
      /\ \A q \in Passes : pos'[q] \in 1 .. Len(rows'[q]) + 1
      /\ \A q \in Passes : pc'[q] \in {"select", "insert"} => pos'[q] <= Len(rows'[q])
      /\ stats' \in [Passes -> BackfillStats]
      /\ p \notin DryPasses =>
             /\ stats'[p].written = stats[p].written /\ stats'[p].duplicates = stats[p].duplicates
             /\ stats'[p].rejected = stats[p].rejected /\ stats'[p].errors = stats[p].errors
             /\ stats'[p].extracted = stats[p].extracted + (IF pc'[p] = "select" THEN 1 ELSE 0)
  <2>1. CASE NextRow(p) /\ UNCHANGED stats
    <3>1. stats[p].extracted \in Nat
        BY <1>2 DEF BackfillStats
    <3>2. /\ pc' \in [Passes -> {"start", "extract", "select", "insert", "done"}]
          /\ pc'[p] = "extract" /\ (\A q \in Passes \ {p} : pc'[q] = pc[q] /\ pos'[q] = pos[q])
          /\ \A q \in Passes : pos'[q] \in 1 .. Len(rows'[q]) + 1
          /\ \A q \in Passes : pc'[q] \in {"select", "insert"} => pos'[q] <= Len(rows'[q])
        BY <2>1, <1>0, <1>1, NextRowFacts
    <3>3. QED
        BY <2>1, <3>1, <3>2, <1>2
  <2>2. CASE p \in DryPasses /\ NextRow(p)
             /\ stats' = [stats EXCEPT ![p].extracted = @ + 1, ![p].written = @ + 1]
    <3> DEFINE extracted == [stats[p] EXCEPT !.extracted = @ + 1]
               counted == [extracted EXCEPT !.written = @ + 1]
    <3>0. extracted \in BackfillStats
        BY <1>2 DEF BackfillStats
    <3> HIDE DEF extracted
    <3>1. counted \in BackfillStats
        BY <3>0 DEF BackfillStats
    <3> USE DEF extracted
    <3>2. stats' = [stats EXCEPT ![p] = counted]
        BY <2>2, <1>2
    <3> HIDE DEF counted
    <3>3. stats' \in [Passes -> BackfillStats] /\ \A q \in Passes \ {p} : stats'[q] = stats[q]
        BY <3>1, <3>2, <1>2
    <3>4. QED
        BY <2>2, <3>3, <1>0, <1>1, NextRowFacts
  <2>3. CASE p \notin DryPasses /\ pc' = [pc EXCEPT ![p] = "select"] /\ Count(p, "extracted") /\ UNCHANGED pos
    <3>1. /\ stats' \in [Passes -> BackfillStats] /\ \A q \in Passes \ {p} : stats'[q] = stats[q]
          /\ stats'[p].extracted = stats[p].extracted + Step("extracted", "extracted")
          /\ stats'[p].written = stats[p].written + Step("extracted", "written")
          /\ stats'[p].duplicates = stats[p].duplicates + Step("extracted", "duplicates")
          /\ stats'[p].rejected = stats[p].rejected + Step("extracted", "rejected")
          /\ stats'[p].errors = stats[p].errors + Step("extracted", "errors")
        BY <2>3, <1>2, CountFacts
    <3>2. stats[p] \in BackfillStats
        BY <1>2
    <3>3. p \notin DryPasses =>
             /\ stats'[p].written = stats[p].written /\ stats'[p].duplicates = stats[p].duplicates
             /\ stats'[p].rejected = stats[p].rejected /\ stats'[p].errors = stats[p].errors
             /\ stats'[p].extracted = stats[p].extracted + 1
        BY <3>1, <3>2 DEF Step, BackfillStats
    <3>4. QED
        BY <2>3, <3>1, <3>3, <1>0, <1>1 DEF TypeOK
  <2>4. QED
      BY <2>1, <2>2, <2>3 DEF Extract
<1>4. TypeOK'
    BY <1>0, <1>1, <1>3 DEF TypeOK
<1>5. ASSUME NEW q \in Passes \ {p}
      PROVE  Unbegun(q)' /\ lostAcks'[q] <= dbFaults' /\ (q \notin DryPasses => Tells(q)') /\ Row(q)' = Row(q)
  <2>1. dbFaults' \in Nat /\ dbFaults <= dbFaults'
      BY <1>0, <1>1, FaultsAssumption DEF TypeOK
  <2>2. QED
      BY <1>1, <1>3, <2>1, OthersKeep
<1>6. Unbegun(p)' /\ lostAcks'[p] <= dbFaults'
    BY <1>1, <1>3 DEF IInv, Typed, Unbegun
<1>7. p \notin DryPasses => Tells(p)'
  <2>1. SUFFICES ASSUME p \notin DryPasses PROVE Tells(p)'
      OBVIOUS
  <2>2. /\ stats[p].extracted \in Nat /\ stats[p].written \in Nat /\ stats[p].duplicates \in Nat
        /\ stats[p].rejected \in Nat /\ stats[p].errors \in Nat
      BY <1>2 DEF BackfillStats
  <2>3. stats[p].extracted = stats[p].written + stats[p].duplicates + stats[p].rejected + stats[p].errors
      BY <1>0, <1>2, <2>1, <2>2 DEF Tells
  <2>4. InsertedBy(p)' = InsertedBy(p) /\ lostAcks'[p] = lostAcks[p] /\ pc'[p] \in {"extract", "select"}
      BY <1>1, <1>3
  <2>5. QED
      BY <1>0, <1>3, <2>1, <2>2, <2>3, <2>4 DEF Tells
<1>8. Distinct'
    BY <1>1, <1>3, <1>5, DistinctKept
<1>9. QED
    BY <1>4, <1>5, <1>6, <1>7, <1>8 DEF IInv, Typed

LEMMA ReturnHolds == ASSUME IInv, NEW p \in Passes, Return(p) PROVE IInv'
<1>1. /\ TypeOK /\ pc[p] = "extract" /\ pc' = [pc EXCEPT ![p] = "done"]
      /\ UNCHANGED <<reference_values, rows, pos, stats, dbFaults, lostAcks, excused>>
    BY DEF IInv, Typed, Return
<1>2. TypeOK'
    BY <1>1 DEF TypeOK
<1>3. \A q \in Passes : Unbegun(q)' /\ lostAcks'[q] <= dbFaults'
    BY <1>1 DEF IInv, Typed, Unbegun, TypeOK
<1>4. \A q \in Passes \ DryPasses : Tells(q)'
    BY <1>1 DEF IInv, Tells, InsertedBy, TypeOK
<1>5. Distinct'
    BY <1>1, DistinctKept DEF TypeOK, Row
<1>6. QED
    BY <1>2, <1>3, <1>4, <1>5 DEF IInv, Typed

\* A decision, with what is known of the table and what it is excused for.
LEMMA DecideHolds ==
    ASSUME IInv, NEW p \in Passes, pc[p] = "select", NEW existing, NEW why, Decide(p, existing, why),
           UNCHANGED <<reference_values, rows, lostAcks>>,
           dbFaults' \in 0 .. MaxDbFaults, dbFaults <= dbFaults',
           Row(p).record \in why \/ (existing = Existing /\ why = {})
    PROVE  IInv'
<1>0. TypeOK /\ (p \notin DryPasses => Tells(p)) /\ pos[p] <= Len(rows[p])
    BY DEF IInv, Typed, TypeOK
<1>1. stats \in [Passes -> BackfillStats] /\ rows[p] # <<>> /\ \A q \in Passes : InsertedBy(q)' = InsertedBy(q)
    BY <1>0, RowFacts DEF TypeOK, InsertedBy
<1>2. /\ pc' \in [Passes -> {"start", "extract", "select", "insert", "done"}]
      /\ \A q \in Passes \ {p} : pc'[q] = pc[q] /\ pos'[q] = pos[q] /\ stats'[q] = stats[q]
      /\ \A q \in Passes : pos'[q] \in 1 .. Len(rows'[q]) + 1
      /\ \A q \in Passes : pc'[q] \in {"select", "insert"} => pos'[q] <= Len(rows'[q])
      /\ stats' \in [Passes -> BackfillStats] /\ excused \subseteq excused'
      /\ stats'[p].written = stats[p].written /\ stats'[p].extracted = stats[p].extracted
      /\ \/ /\ pc'[p] = "extract" /\ excused' = excused
            /\ stats'[p].duplicates + stats'[p].rejected + stats'[p].errors
                  = stats[p].duplicates + stats[p].rejected + stats[p].errors + 1
         \/ /\ pc'[p] = "insert" /\ pos'[p] = pos[p] /\ excused' = excused \cup why
            /\ Row(p).record \notin existing
            /\ stats'[p].duplicates + stats'[p].rejected + stats'[p].errors
                  = stats[p].duplicates + stats[p].rejected + stats[p].errors
  <2>0. stats[p] \in BackfillStats
      BY <1>1
  <2>1. ASSUME NEW field \in {"rejected", "duplicates"}, Count(p, field), NextRow(p), UNCHANGED excused
        PROVE  /\ pc' \in [Passes -> {"start", "extract", "select", "insert", "done"}]
               /\ \A q \in Passes \ {p} : pc'[q] = pc[q] /\ pos'[q] = pos[q] /\ stats'[q] = stats[q]
               /\ \A q \in Passes : pos'[q] \in 1 .. Len(rows'[q]) + 1
               /\ \A q \in Passes : pc'[q] \in {"select", "insert"} => pos'[q] <= Len(rows'[q])
               /\ stats' \in [Passes -> BackfillStats] /\ excused \subseteq excused'
               /\ stats'[p].written = stats[p].written /\ stats'[p].extracted = stats[p].extracted
               /\ pc'[p] = "extract" /\ excused' = excused
               /\ stats'[p].duplicates + stats'[p].rejected + stats'[p].errors
                     = stats[p].duplicates + stats[p].rejected + stats[p].errors + 1
    <3>1. field \in Counter
        BY <2>1 DEF Counter
    <3>2. /\ stats' \in [Passes -> BackfillStats] /\ \A q \in Passes \ {p} : stats'[q] = stats[q]
          /\ stats'[p].extracted = stats[p].extracted + Step(field, "extracted")
          /\ stats'[p].written = stats[p].written + Step(field, "written")
          /\ stats'[p].duplicates = stats[p].duplicates + Step(field, "duplicates")
          /\ stats'[p].rejected = stats[p].rejected + Step(field, "rejected")
          /\ stats'[p].errors = stats[p].errors + Step(field, "errors")
        BY <2>1, <3>1, <1>1, CountFacts
    <3>3. /\ stats'[p].written = stats[p].written /\ stats'[p].extracted = stats[p].extracted
          /\ stats'[p].duplicates + stats'[p].rejected + stats'[p].errors
                = stats[p].duplicates + stats[p].rejected + stats[p].errors + 1
        BY <2>1, <3>2, <2>0 DEF Step, BackfillStats
    <3>4. /\ pc' \in [Passes -> {"start", "extract", "select", "insert", "done"}]
          /\ pc'[p] = "extract" /\ (\A q \in Passes \ {p} : pc'[q] = pc[q] /\ pos'[q] = pos[q])
          /\ \A q \in Passes : pos'[q] \in 1 .. Len(rows'[q]) + 1
          /\ \A q \in Passes : pc'[q] \in {"select", "insert"} => pos'[q] <= Len(rows'[q])
        BY <2>1, <1>0, NextRowFacts
    <3>5. QED
        BY <2>1, <3>2, <3>3, <3>4
  <2>2. CASE Count(p, "rejected") /\ NextRow(p) /\ UNCHANGED excused
      BY <2>1, <2>2
  <2>3. CASE Count(p, "duplicates") /\ NextRow(p) /\ UNCHANGED excused
      BY <2>1, <2>3
  <2>4. CASE /\ Row(p).record \notin existing /\ pc' = [pc EXCEPT ![p] = "insert"]
             /\ excused' = excused \cup why /\ UNCHANGED <<pos, stats>>
    <3>1. /\ pc' \in [Passes -> {"start", "extract", "select", "insert", "done"}] /\ pc'[p] = "insert"
          /\ \A q \in Passes \ {p} : pc'[q] = pc[q]
          /\ \A q \in Passes : pc'[q] \in {"select", "insert"} => pos'[q] <= Len(rows'[q])
        BY <2>4, <1>0 DEF TypeOK
    <3>2. QED
        BY <2>4, <3>1, <1>0, <1>1 DEF TypeOK
  <2>5. QED
      BY <2>2, <2>3, <2>4 DEF Decide
<1>3. TypeOK'
    BY <1>0, <1>2 DEF TypeOK
<1>4. ASSUME NEW q \in Passes \ {p}
      PROVE  Unbegun(q)' /\ lostAcks'[q] <= dbFaults' /\ (q \notin DryPasses => Tells(q)') /\ Row(q)' = Row(q)
  <2>1. dbFaults' \in Nat
      BY FaultsAssumption
  <2>2. QED
      BY <1>1, <1>2, <2>1, OthersKeep
<1>5. Unbegun(p)' /\ lostAcks'[p] <= dbFaults'
  <2>1. lostAcks[p] <= dbFaults /\ lostAcks[p] \in Nat /\ dbFaults \in Nat /\ dbFaults' \in Nat
      BY FaultsAssumption DEF IInv, Typed, TypeOK
  <2>2. lostAcks'[p] <= dbFaults'
      BY <2>1
  <2>3. p \notin DryPasses
      BY DEF IInv, Typed, Unbegun
  <2>4. QED
      BY <1>2, <2>2, <2>3 DEF Unbegun
<1>6. p \notin DryPasses => Tells(p)'
  <2>1. /\ stats[p].extracted \in Nat /\ stats[p].written \in Nat /\ stats[p].duplicates \in Nat
        /\ stats[p].rejected \in Nat /\ stats[p].errors \in Nat
        /\ stats'[p].extracted \in Nat /\ stats'[p].written \in Nat /\ stats'[p].duplicates \in Nat
        /\ stats'[p].rejected \in Nat /\ stats'[p].errors \in Nat
    <3>1. stats[p] \in BackfillStats /\ stats'[p] \in BackfillStats
        BY <1>1, <1>2
    <3>2. QED
        BY <3>1 DEF BackfillStats
  <2>2. /\ p \notin DryPasses => Cardinality(InsertedBy(p)') = stats'[p].written + lostAcks'[p]
        /\ rows'[p] # <<>>
      BY <1>0, <1>1, <1>2 DEF Tells
  <2>3. p \notin DryPasses =>
            stats[p].extracted = stats[p].written + stats[p].duplicates + stats[p].rejected + stats[p].errors + 1
      BY <1>0, <1>1 DEF Tells
  <2>4. p \notin DryPasses =>
            stats'[p].extracted = stats'[p].written + stats'[p].duplicates + stats'[p].rejected
                                  + stats'[p].errors + (IF pc'[p] \in {"select", "insert"} THEN 1 ELSE 0)
    <3>1. CASE pc'[p] = "extract"
      <4>1. /\ stats'[p].written = stats[p].written /\ stats'[p].extracted = stats[p].extracted
            /\ stats'[p].duplicates + stats'[p].rejected + stats'[p].errors
                  = stats[p].duplicates + stats[p].rejected + stats[p].errors + 1
          BY <3>1, <1>2
      <4>2. p \notin DryPasses =>
                stats'[p].extracted = stats'[p].written + stats'[p].duplicates + stats'[p].rejected
                                      + stats'[p].errors + 0
          BY <4>1, <2>1, <2>3
      <4>3. QED
          BY <3>1, <4>2
    <3>2. CASE pc'[p] = "insert"
      <4>1. /\ stats'[p].written = stats[p].written /\ stats'[p].extracted = stats[p].extracted
            /\ stats'[p].duplicates + stats'[p].rejected + stats'[p].errors
                  = stats[p].duplicates + stats[p].rejected + stats[p].errors
          BY <3>2, <1>2
      <4>2. p \notin DryPasses =>
                stats'[p].extracted = stats'[p].written + stats'[p].duplicates + stats'[p].rejected
                                      + stats'[p].errors + 1
          BY <4>1, <2>1, <2>3
      <4>3. QED
          BY <3>2, <4>2
    <3>3. QED
        BY <3>1, <3>2, <1>2
  <2>5. QED
      BY <2>2, <2>4 DEF Tells
<1>7. Distinct'
  <2>1. /\ excused \subseteq excused' /\ Existing' = Existing
        /\ \A q \in Passes \ {p} : pc'[q] = pc[q] /\ Row(q)' = Row(q)
      BY <1>2, <1>4 DEF Existing
  <2>2. pc'[p] = "insert" => Row(p)' = Row(p) /\ (Row(p).record \in excused' \/ Row(p).record \notin Existing)
      BY <1>2 DEF Row
  <2>3. QED
      BY <2>1, <2>2 DEF IInv, Distinct
<1>8. QED
    BY <1>3, <1>4, <1>5, <1>6, <1>7 DEF IInv, Typed

LEMMA SelectHolds == ASSUME IInv, NEW p \in Passes, Select(p) PROVE IInv'
<1>1. pc[p] = "select" /\ UNCHANGED <<reference_values, rows, lostAcks>> /\ dbFaults \in 0 .. MaxDbFaults
    BY DEF IInv, Typed, TypeOK, Select
<1>2. CASE Decide(p, Existing, {}) /\ UNCHANGED dbFaults
    BY <1>1, <1>2, DecideHolds
<1>3. CASE Decide(p, {}, {Row(p).record}) /\ Fault
  <2>1. dbFaults' \in 0 .. MaxDbFaults /\ dbFaults <= dbFaults'
      BY <1>1, <1>3, FaultsAssumption DEF Fault
  <2>2. QED
      BY <1>1, <1>3, <2>1, DecideHolds
<1>4. QED
    BY <1>2, <1>3 DEF Select

\* The table after an insert: the record is excused if it was there, and for any
\* other pass that is about to insert it.
LEMMA InsertedDistinct ==
    ASSUME IInv, NEW p \in Passes, pc[p] = "insert", Inserted(p), pc'[p] # "insert",
           \A q \in Passes \ {p} : pc'[q] = pc[q] /\ Row(q)' = Row(q)
    PROVE  /\ reference_values' \in Seq(Passes \X Record)
           /\ Cardinality(InsertedBy(p)') = Cardinality(InsertedBy(p)) + 1
           /\ \A q \in Passes \ {p} : InsertedBy(q)' = InsertedBy(q)
           /\ Distinct'
<1> DEFINE rec == Row(p).record
           n == Len(reference_values)
<1>1. TypeOK /\ Distinct /\ pos[p] <= Len(rows[p])
    BY DEF IInv, Typed, TypeOK
<1>2. rec \in Record
    BY <1>1, RowFacts
<1>3. /\ reference_values' \in Seq(Passes \X Record)
      /\ n \in Nat /\ Len(reference_values') = n + 1
      /\ \A k \in 1 .. n : reference_values'[k] = reference_values[k]
      /\ reference_values'[n + 1] = <<p, rec>>
      /\ Cardinality(InsertedBy(p)') = Cardinality(InsertedBy(p)) + 1
      /\ \A q \in Passes \ {p} : InsertedBy(q)' = InsertedBy(q)
    BY <1>1, <1>2, InsertFacts DEF Inserted, TypeOK
<1>4. excused \subseteq excused' /\ (Racing(p) => rec \in excused')
    BY DEF Inserted
<1>5. rec \in Existing => rec \in excused'
    BY <1>1, <1>4 DEF Distinct
<1>6. Existing' = Existing \cup {rec}
  <2>1. \A k \in 1 .. n + 1 : reference_values'[k][2] = IF k = n + 1 THEN rec ELSE reference_values[k][2]
      BY <1>3
  <2>2. QED
      BY <2>1, <1>3 DEF Existing
<1>7. \A k \in 1 .. n + 1 :
          reference_values'[k][2] \in Stored => reference_values'[k][2] \in excused'
    BY <1>1, <1>3, <1>4, <1>5 DEF Distinct, Existing
<1>8. \A j, k \in 1 .. n + 1 :
          j # k /\ reference_values'[j][2] = reference_values'[k][2] => reference_values'[k][2] \in excused'
  <2>1. SUFFICES ASSUME NEW j \in 1 .. n + 1, NEW k \in 1 .. n + 1, j # k,
                        reference_values'[j][2] = reference_values'[k][2]
                 PROVE  reference_values'[k][2] \in excused'
      OBVIOUS
  <2>2. CASE j \in 1 .. n /\ k \in 1 .. n
      BY <2>1, <2>2, <1>1, <1>3, <1>4 DEF Distinct
  <2>3. CASE j = n + 1
      BY <2>1, <2>3, <1>3, <1>5 DEF Existing
  <2>4. CASE k = n + 1
      BY <2>1, <2>4, <1>3, <1>5 DEF Existing
  <2>5. QED
      BY <2>2, <2>3, <2>4, <1>3
<1>9. ASSUME NEW q \in Passes, pc'[q] = "insert"
      PROVE  Row(q)'.record \in excused' \/ Row(q)'.record \notin Existing'
  <2>1. q # p /\ pc[q] = "insert" /\ Row(q)' = Row(q)
      BY <1>9
  <2>2. Row(q).record = rec => Racing(p)
      BY <2>1 DEF Racing
  <2>3. QED
      BY <2>1, <2>2, <1>1, <1>4, <1>6 DEF Distinct
<1>10. QED
    BY <1>3, <1>7, <1>8, <1>9 DEF Distinct

LEMMA InsertHolds == ASSUME IInv, NEW p \in Passes, Insert(p) PROVE IInv'
<1> p \notin DryPasses
    BY DEF IInv, Typed, Unbegun, Insert
<1>0. /\ TypeOK /\ Tells(p) /\ pc[p] = "insert" /\ pos[p] <= Len(rows[p]) /\ NextRow(p) /\ UNCHANGED rows
    BY DEF IInv, Typed, TypeOK, Insert
<1>1. /\ stats \in [Passes -> BackfillStats] /\ stats[p] \in BackfillStats /\ rows[p] # <<>>
      /\ \A q \in Passes : lostAcks[q] <= dbFaults /\ lostAcks[q] \in Nat
      /\ dbFaults \in 0 .. MaxDbFaults /\ MaxDbFaults \in Nat
    BY <1>0, RowFacts, FaultsAssumption DEF TypeOK, IInv, Typed
<1>2. /\ pc' \in [Passes -> {"start", "extract", "select", "insert", "done"}]
      /\ pc'[p] = "extract" /\ (\A q \in Passes \ {p} : pc'[q] = pc[q] /\ pos'[q] = pos[q])
      /\ \A q \in Passes : pos'[q] \in 1 .. Len(rows'[q]) + 1
      /\ \A q \in Passes : pc'[q] \in {"select", "insert"} => pos'[q] <= Len(rows'[q])
    BY <1>0, NextRowFacts
<1>3. \A q \in Passes \ {p} : Row(q)' = Row(q)
    BY <1>0, <1>2 DEF Row
<1>4. ASSUME NEW field \in {"written", "errors"}, Count(p, field)
      PROVE  /\ stats' \in [Passes -> BackfillStats] /\ \A q \in Passes \ {p} : stats'[q] = stats[q]
             /\ stats'[p].extracted = stats'[p].written + stats'[p].duplicates + stats'[p].rejected
                                      + stats'[p].errors
             /\ stats'[p].written = stats[p].written + Step(field, "written")
  <2>1. field \in Counter
      BY <1>4 DEF Counter
  <2>2. /\ stats' \in [Passes -> BackfillStats] /\ \A q \in Passes \ {p} : stats'[q] = stats[q]
        /\ stats'[p].extracted = stats[p].extracted + Step(field, "extracted")
        /\ stats'[p].written = stats[p].written + Step(field, "written")
        /\ stats'[p].duplicates = stats[p].duplicates + Step(field, "duplicates")
        /\ stats'[p].rejected = stats[p].rejected + Step(field, "rejected")
        /\ stats'[p].errors = stats[p].errors + Step(field, "errors")
      BY <2>1, <1>1, <1>4, CountFacts
  <2>3. stats[p].extracted = stats[p].written + stats[p].duplicates + stats[p].rejected + stats[p].errors + 1
      BY <1>0, <1>1 DEF Tells
  <2>4. /\ stats[p].extracted \in Nat /\ stats[p].written \in Nat /\ stats[p].duplicates \in Nat
        /\ stats[p].rejected \in Nat /\ stats[p].errors \in Nat
      BY <1>1 DEF BackfillStats
  <2>5. stats'[p].extracted = stats'[p].written + stats'[p].duplicates + stats'[p].rejected + stats'[p].errors
    <3>1. CASE field = "written"
      <4>1. /\ stats'[p].extracted = stats[p].extracted
            /\ stats'[p].written = stats[p].written + 1
            /\ stats'[p].duplicates = stats[p].duplicates
            /\ stats'[p].rejected = stats[p].rejected
            /\ stats'[p].errors = stats[p].errors
          BY <3>1, <2>2, <2>4 DEF Step
      <4>2. QED
          BY <4>1, <2>3, <2>4
    <3>2. CASE field = "errors"
      <4>1. /\ stats'[p].extracted = stats[p].extracted
            /\ stats'[p].written = stats[p].written
            /\ stats'[p].duplicates = stats[p].duplicates
            /\ stats'[p].rejected = stats[p].rejected
            /\ stats'[p].errors = stats[p].errors + 1
          BY <3>2, <2>2, <2>4 DEF Step
      <4>2. QED
          BY <4>1, <2>3, <2>4
    <3>3. QED
        BY <3>1, <3>2, <1>4
  <2>6. QED
      BY <2>2, <2>5
<1>5. /\ reference_values' \in Seq(Passes \X Record) /\ Distinct'
      /\ \A q \in Passes \ {p} : InsertedBy(q)' = InsertedBy(q)
      /\ stats' \in [Passes -> BackfillStats] /\ \A q \in Passes \ {p} : stats'[q] = stats[q]
      /\ stats'[p].extracted = stats'[p].written + stats'[p].duplicates + stats'[p].rejected + stats'[p].errors
      /\ dbFaults' \in 0 .. MaxDbFaults /\ dbFaults <= dbFaults'
      /\ lostAcks' \in [Passes -> 0 .. MaxDbFaults] /\ \A q \in Passes : lostAcks'[q] <= dbFaults'
      /\ \A q \in Passes \ {p} : lostAcks'[q] = lostAcks[q]
      /\ Cardinality(InsertedBy(p)') = stats'[p].written + lostAcks'[p]
  <2>0. Cardinality(InsertedBy(p)) = stats[p].written + lostAcks[p] /\ stats[p].written \in Nat
      BY <1>0, <1>1 DEF Tells, BackfillStats
  <2>1. CASE Inserted(p) /\ Count(p, "written") /\ UNCHANGED <<dbFaults, lostAcks>>
    <3>1. /\ reference_values' \in Seq(Passes \X Record) /\ Distinct'
          /\ \A q \in Passes \ {p} : InsertedBy(q)' = InsertedBy(q)
          /\ Cardinality(InsertedBy(p)') = Cardinality(InsertedBy(p)) + 1
        BY <2>1, <1>0, <1>2, <1>3, InsertedDistinct
    <3>2. stats'[p].written = stats[p].written + 1
        BY <2>1, <1>4 DEF Step
    <3>3. Cardinality(InsertedBy(p)') = stats'[p].written + lostAcks'[p]
      <4>1. lostAcks[p] \in Nat /\ lostAcks'[p] = lostAcks[p]
          BY <2>1, <1>1
      <4>2. (stats[p].written + lostAcks[p]) + 1 = (stats[p].written + 1) + lostAcks[p]
          BY <4>1, <2>0
      <4>3. Cardinality(InsertedBy(p)') = (stats[p].written + lostAcks[p]) + 1
          BY <3>1, <2>0, Zenon
      <4>4. QED
          BY <4>1, <4>2, <4>3, <3>2, Zenon
    <3>4. /\ stats' \in [Passes -> BackfillStats] /\ \A q \in Passes \ {p} : stats'[q] = stats[q]
          /\ stats'[p].extracted = stats'[p].written + stats'[p].duplicates + stats'[p].rejected
                                   + stats'[p].errors
        BY <2>1, <1>4
    <3>5. QED
        BY <3>1, <3>3, <3>4, <2>1, <1>0, <1>1 DEF TypeOK
  <2>2. CASE Fault /\ Count(p, "errors") /\ UNCHANGED <<reference_values, lostAcks, excused>>
    <3>1. dbFaults' \in 0 .. MaxDbFaults /\ dbFaults <= dbFaults' /\ \A q \in Passes : lostAcks'[q] <= dbFaults'
        BY <2>2, <1>1 DEF Fault
    <3>2. stats'[p].written = stats[p].written
        BY <2>0, <2>2, <1>4 DEF Step
    <3>3. Distinct'
        BY <2>2, <1>2, <1>3, DistinctKept
    <3>4. \A q \in Passes : InsertedBy(q)' = InsertedBy(q)
        BY <2>2 DEF InsertedBy
    <3>5. QED
        BY <3>1, <3>2, <3>3, <3>4, <2>0, <2>2, <1>0, <1>1, <1>4 DEF TypeOK
  <2>3. CASE Fault /\ Inserted(p) /\ Count(p, "errors") /\ lostAcks' = [lostAcks EXCEPT ![p] = @ + 1]
    <3>1. /\ reference_values' \in Seq(Passes \X Record) /\ Distinct'
          /\ \A q \in Passes \ {p} : InsertedBy(q)' = InsertedBy(q)
          /\ Cardinality(InsertedBy(p)') = Cardinality(InsertedBy(p)) + 1
        BY <2>3, <1>0, <1>2, <1>3, InsertedDistinct
    <3>2. stats'[p].written = stats[p].written
        BY <2>0, <2>3, <1>4 DEF Step
    <3>3. dbFaults' \in 0 .. MaxDbFaults /\ dbFaults' = dbFaults + 1
        BY <2>3, <1>1 DEF Fault
    <3>4. /\ lostAcks' \in [Passes -> 0 .. MaxDbFaults] /\ lostAcks'[p] = lostAcks[p] + 1
          /\ \A q \in Passes \ {p} : lostAcks'[q] = lostAcks[q]
          /\ \A q \in Passes : lostAcks'[q] <= dbFaults'
        BY <3>3, <2>3, <1>0, <1>1 DEF TypeOK
    <3>5. Cardinality(InsertedBy(p)') = stats'[p].written + lostAcks'[p]
      <4>1. lostAcks[p] \in Nat
          BY <1>1
      <4>2. (stats[p].written + lostAcks[p]) + 1 = stats[p].written + (lostAcks[p] + 1)
          BY <4>1, <2>0
      <4>3. Cardinality(InsertedBy(p)') = (stats[p].written + lostAcks[p]) + 1
          BY <3>1, <2>0, Zenon
      <4>4. QED
          BY <4>2, <4>3, <3>2, <3>4, Zenon
    <3>6. /\ stats' \in [Passes -> BackfillStats] /\ \A q \in Passes \ {p} : stats'[q] = stats[q]
          /\ stats'[p].extracted = stats'[p].written + stats'[p].duplicates + stats'[p].rejected
                                   + stats'[p].errors
        BY <2>3, <1>4
    <3>7. dbFaults <= dbFaults'
        BY <3>3, <1>1
    <3>8. QED
        BY <3>1, <3>3, <3>4, <3>5, <3>6, <3>7
  <2>4. QED
      BY <2>1, <2>2, <2>3 DEF Insert
<1>6. TypeOK'
    BY <1>0, <1>2, <1>5 DEF TypeOK
<1>7. ASSUME NEW q \in Passes \ {p}
      PROVE  Unbegun(q)' /\ lostAcks'[q] <= dbFaults' /\ (q \notin DryPasses => Tells(q)')
  <2>1. dbFaults' \in Nat
      BY <1>1, <1>5
  <2>2. QED
      BY <1>0, <1>2, <1>5, <2>1, OthersKeep
<1>8. Unbegun(p)' /\ lostAcks'[p] <= dbFaults' /\ Tells(p)'
  <2>1. stats'[p] \in BackfillStats
      BY <1>5
  <2>2. QED
      BY <2>1, <1>2, <1>5 DEF Unbegun, Tells, BackfillStats
<1>9. QED
    BY <1>5, <1>6, <1>7, <1>8 DEF IInv, Typed

LEMMA StepHolds == IInv /\ [Next]_vars => IInv'
<1> SUFFICES ASSUME IInv, [Next]_vars PROVE IInv'
    OBVIOUS
<1>1. CASE UNCHANGED vars
  <2>1. TypeOK' /\ \A p \in Passes : Unbegun(p)' /\ lostAcks'[p] <= dbFaults'
      BY <1>1 DEF vars, IInv, Typed, TypeOK, Unbegun
  <2>2. \A p \in Passes \ DryPasses : Tells(p)'
      BY <1>1 DEF vars, IInv, Tells, InsertedBy
  <2>3. Distinct'
      BY <1>1, DistinctKept DEF vars, Row
  <2>4. QED
      BY <2>1, <2>2, <2>3 DEF IInv, Typed
<1>2. CASE Next
    BY <1>2, FetchHolds, ExtractHolds, SelectHolds, InsertHolds, ReturnHolds DEF Next
<1>3. QED
    BY <1>1, <1>2

-----------------------------------------------------------------------------
\* The inductive invariant: types, what a pass has counted and put into the
\* table, and which records can be there twice.
THEOREM Invariance == Spec => []IInv
BY InitHolds, StepHolds, PTL DEF Spec

\* Every variable keeps its type, and no pass handles a row beyond its fetch.
THEOREM TypeCorrectness == Spec => []TypeOK
<1>1. IInv => TypeOK
    BY DEF IInv, Typed
<1>2. QED
    BY <1>1, Invariance, PTL

\* The statistics of a pass account for what it did to the table: run_backfill's
\* counts and its inserts, whatever the database answers.
THEOREM StatsAccount == Spec => []StatsTellTable
<1>1. IInv => StatsTellTable
    BY DEF IInv, StatsTellTable, Tells
<1>2. QED
    BY <1>1, Invariance, PTL

\* A record gets into the table twice, or beside a stored one, only blindly or in
\* a race of two passes.
THEOREM NoUnexcusedCopy == Spec => []TwiceOnlyIfExcused
<1>1. IInv => TwiceOnlyIfExcused
  <2> SUFFICES ASSUME IInv, NEW k \in 1 .. Len(reference_values),
                      \/ reference_values[k][2] \in Stored
                      \/ Cardinality(Copies(reference_values[k][2])) > 1
               PROVE  reference_values[k][2] \in excused
      BY DEF TwiceOnlyIfExcused
  <2> DEFINE rec == reference_values[k][2]
  <2>1. CASE rec \in Stored
      BY <2>1 DEF IInv, Distinct
  <2>2. CASE Cardinality(Copies(rec)) > 1
    <3>1. Copies(rec) # {k}
      <4>1. Cardinality({k}) = 1
          BY FS_Singleton
      <4>2. QED
          BY <4>1, <2>2
    <3>2. k \in Copies(rec)
        BY DEF Copies
    <3>3. PICK j \in Copies(rec) : j # k
        BY <3>1, <3>2
    <3>4. QED
        BY <3>3 DEF IInv, Distinct, Copies
  <2>3. QED
      BY <2>1, <2>2
<1>2. QED
    BY <1>1, Invariance, PTL

=============================================================================
