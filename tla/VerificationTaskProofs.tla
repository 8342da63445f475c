----------------------- MODULE VerificationTaskProofs -----------------------
(***************************************************************************)
(* Proofs about VerificationTask, for any set of jobs, any subset of the   *)
(* templates and letters and any fault bounds.                             *)
(***************************************************************************)
EXTENDS VerificationTask, FiniteSetTheorems, TLAPS

-----------------------------------------------------------------------------
(* The tables of TemplateGrades.                                           *)

\* Every template lists two to five properties.
LEMMA TemplateFacts ==
    \A t \in Template :
        /\ Len(TEMPLATE_PROPERTIES[t]) \in 2 .. 5
        /\ \A k \in 1 .. Len(TEMPLATE_PROPERTIES[t]) : TEMPLATE_PROPERTIES[t][k] \in Property
<1> SUFFICES ASSUME NEW t \in Template
             PROVE  /\ Len(TEMPLATE_PROPERTIES[t]) \in 2 .. 5
                    /\ \A k \in 1 .. Len(TEMPLATE_PROPERTIES[t]) :
                            TEMPLATE_PROPERTIES[t][k] \in Property
    OBVIOUS
<1>1. CASE t = "basic"
    BY <1>1 DEF TEMPLATE_PROPERTIES, Property
<1>2. CASE t = "mechanical"
    BY <1>2 DEF TEMPLATE_PROPERTIES, Property
<1>3. CASE t = "defect"
    BY <1>3 DEF TEMPLATE_PROPERTIES, Property
<1>4. CASE t = "comprehensive"
    BY <1>4 DEF TEMPLATE_PROPERTIES, Property
<1>5. QED
    BY <1>1, <1>2, <1>3, <1>4 DEF Template

\* A property awaits one to seven processes and has a milestone below 100.
LEMMA PropertyFacts ==
    \A p \in Property : LAMMPS_RUNS[p] \in 1 .. 7 /\ PROGRESS_MAP[p] \in 0 .. 75
BY DEF Property, LAMMPS_RUNS, PROGRESS_MAP

\* The letter a set of letters is summarised by is one of them.
LEMMA WorstFacts ==
    ASSUME NEW gs \in SUBSET Grade
    PROVE  /\ Worst(gs) \in Grade \cup {"none"}
           /\ gs = {} => Worst(gs) = "none"
           /\ gs # {} => Worst(gs) \in gs /\ \A h \in gs : GradeRank[h] <= GradeRank[Worst(gs)]
<1>1. CASE gs = {}
    BY <1>1 DEF Worst
<1>2. CASE gs # {}
    <2>1. \E g \in gs : \A h \in gs : GradeRank[h] <= GradeRank[g]
        <3>1. CASE "F" \in gs
            BY <3>1 DEF Grade, GradeRank
        <3>2. CASE "F" \notin gs /\ "D" \in gs
            BY <3>2 DEF Grade, GradeRank
        <3>3. CASE "F" \notin gs /\ "D" \notin gs /\ "C" \in gs
            BY <3>3 DEF Grade, GradeRank
        <3>4. CASE "F" \notin gs /\ "D" \notin gs /\ "C" \notin gs /\ "B" \in gs
            BY <3>4 DEF Grade, GradeRank
        <3>5. CASE "F" \notin gs /\ "D" \notin gs /\ "C" \notin gs /\ "B" \notin gs
            <4>1. \A h \in gs : h = "A"
                BY <3>5 DEF Grade
            <4>2. PICK g \in gs : TRUE
                BY <1>2
            <4>3. \A h \in gs : GradeRank[h] <= GradeRank[g]
                BY <4>1 DEF GradeRank
            <4>4. QED
                BY <4>3
        <3>6. QED
            BY <3>1, <3>2, <3>3, <3>4, <3>5
    <2>2. Worst(gs) \in gs /\ \A h \in gs : GradeRank[h] <= GradeRank[Worst(gs)]
        BY <1>2, <2>1, Zenon DEF Worst
    <2>3. QED
        BY <1>2, <2>2
<1>3. QED
    BY <1>1, <1>2

\* The overall grade of a result dict is a letter or None.
LEMMA OverallGradeType ==
    ASSUME NEW res \in [Property -> Outcome]
    PROVE  OverallGrade(res) \in Grade \cup {"none"}
<1>1. {res[p].grade : p \in Property} \ {"none"} \in SUBSET Grade
    BY DEF Outcome
<1>2. QED
    BY <1>1, WorstFacts DEF OverallGrade

LEMMA EmptyFacts ==
    /\ Empty \in Outcome /\ Empty.kind = "empty"
    /\ Absent \in Outcome /\ Absent.kind = "absent"
    /\ NoResults \in [Property -> Outcome]
BY DEF Empty, Absent, Outcome, NoResults

LEMMA GradedFacts ==
    /\ \A g \in Grade \cup {"none"} : Graded(g) \in Outcome /\ Graded(g).kind = "value"
    /\ ZeroReference \in Outcome /\ ZeroReference.kind = "value"
BY DEF Graded, ZeroReference, Empty, Absent, Outcome, Grade

\* run_property returns a dict, never an absent one.
LEMMA OutcomeFacts ==
    ASSUME NEW p \in Property, NEW o \in OutcomesOf(p, Letters, ZeroReferences)
    PROVE  o \in Outcome /\ o.kind # "absent"
<1> DEFINE scalar == {Graded(g) : g \in Letters \cup {"none"}}
                        \cup IF ZeroReferences THEN {ZeroReference} ELSE {}
<1>1. \A s \in scalar : s \in Outcome /\ s.kind = "value"
    BY GradedFacts, LettersAssumption
<1>2. CASE p = "bulk_modulus"
    BY <1>2, GradedFacts DEF OutcomesOf
<1>3. CASE p = "elastic_constants"
    <2>1. PICK s \in scalar : o = [s EXCEPT !.grade = "none", !.nested = s.grade]
        BY <1>3 DEF OutcomesOf
    <2>2. QED
        BY <2>1, <1>1 DEF Outcome
<1>4. CASE p \notin {"bulk_modulus", "elastic_constants"}
    <2>1. o \in scalar \cup {Empty}
        BY <1>4 DEF OutcomesOf
    <2>2. QED
        BY <2>1, <1>1, EmptyFacts
<1>5. QED
    BY <1>2, <1>3, <1>4

-----------------------------------------------------------------------------
(* The updates of a row and the position of a task.                        *)

LEMMA RowFacts ==
    /\ NoRow \in Row /\ NewRow \in Row
    /\ \A r \in Row : Failed(r) \in Row
    /\ \A r \in Row, res \in [Property -> Outcome] : Completed(r, res) \in Row
    /\ \A r \in Row, p \in Property, ok \in BOOLEAN, n \in 0 .. 75 :
            Progressed(r, p, ok, n) \in Row
<1>1. /\ <<"none">> \in Step /\ <<"queued">> \in Step
      /\ <<"done">> \in Step /\ <<"failed">> \in Step
    BY DEF Step
<1>2. \A p \in Property, ok \in BOOLEAN : <<p, IF ok THEN "done" ELSE "failed">> \in Step
    BY DEF Step
<1>3. NoRow \in Row /\ NewRow \in Row
    <2>1. NoRow \in Row
        BY <1>1, EmptyFacts DEF NoRow, Row, Status
    <2>2. NewRow \in Row
        BY <1>1, <2>1 DEF NewRow, Row, Status
    <2>3. QED
        BY <2>1, <2>2
<1>4. \A r \in Row : Failed(r) \in Row
    BY <1>1 DEF Failed, Row, Status
<1>5. ASSUME NEW r \in Row, NEW res \in [Property -> Outcome]
      PROVE  Completed(r, res) \in Row
    <2> DEFINE g == OverallGrade(res)
    <2>1. g \in Grade \cup {"none"}
        BY OverallGradeType
    <2> HIDE DEF g
    <2>2. [r EXCEPT !.status = "completed", !.progress = 100, !.step = <<"done">>,
                    !.results = res, !.rating = g] \in Row
        <3>1. /\ "completed" \in Status /\ 100 \in 0 .. 100
              /\ r.error \in BOOLEAN
            BY DEF Row, Status
        <3>2. QED
            BY <1>1, <2>1, <3>1 DEF Row
    <2>3. QED
        BY <2>2 DEF Completed, g
<1>6. ASSUME NEW r \in Row, NEW p \in Property, NEW ok \in BOOLEAN, NEW n \in 0 .. 75
      PROVE  Progressed(r, p, ok, n) \in Row
    <2> DEFINE st == <<p, IF ok THEN "done" ELSE "failed">>
    <2>1. st \in Step
        BY <1>2
    <2> HIDE DEF st
    <2>2. [r EXCEPT !.status = "running", !.progress = n, !.step = st] \in Row
        <3>1. /\ "running" \in Status /\ n \in 0 .. 100
            BY DEF Status
        <3>2. QED
            BY <2>1, <3>1 DEF Row
    <2>3. QED
        BY <2>2 DEF Progressed, st
<1>7. QED
    BY <1>3, <1>4, <1>5, <1>6

\* The reasons a job can be excused for, and what adds one.
LEMMA ExcuseType ==
    ASSUME TypeOK, NEW j \in Jobs, NEW why \in {"insert", "publish", "fail", "crash"},
           Excuse(j, why) \/ UNCHANGED excuse
    PROVE  excuse' \in [Jobs -> SUBSET {"insert", "publish", "fail", "crash"}]
<1>1. CASE Excuse(j, why)
    <2>1. excuse[j] \cup {why} \in SUBSET {"insert", "publish", "fail", "crash"}
        BY DEF TypeOK
    <2>2. QED
        BY <1>1, <2>1, Zenon DEF TypeOK, Excuse
<1>2. CASE UNCHANGED excuse
    BY <1>2 DEF TypeOK
<1>3. QED
    BY <1>1, <1>2

LEMMA WriteType ==
    ASSUME TypeOK, NEW j \in Jobs, NEW r \in Row, NEW e, Write(j, r, e)
    PROVE  row' \in [Jobs -> Row] /\ dbFaults' \in 0 .. MaxDbFaults
BY BoundsAssumption DEF TypeOK, Write, WriteEnd

\* A task about to run, running or reporting a property has one.
LEMMA CurrentFacts ==
    ASSUME IInv, NEW j \in Jobs, pc[j] \in {"property", "lammps", "report"}
    PROVE  /\ template[j] \in Template
           /\ Len(Properties(j)) \in 2 .. 5
           /\ cursor[j] \in 1 .. Len(Properties(j))
           /\ cursor[j] \in 1 .. 5
           /\ Current(j) \in Property
<1>1. template[j] \in Template
    BY TemplatesAssumption DEF IInv, TypeOK
<1>2. cursor[j] \in 1 .. 6 /\ cursor[j] <= Len(Properties(j))
    BY DEF IInv, TypeOK, RowMatchesTask, Matches
<1>3. Len(Properties(j)) \in 2 .. 5
    BY <1>1, TemplateFacts DEF Properties
<1>4. cursor[j] \in 1 .. Len(Properties(j)) /\ cursor[j] \in 1 .. 5
    <2> DEFINE n == Len(Properties(j))
    <2> HIDE DEF n
    <2>1. n \in 2 .. 5 /\ cursor[j] \in 1 .. 6 /\ cursor[j] <= n
        BY <1>2, <1>3 DEF n
    <2>2. cursor[j] \in 1 .. n /\ cursor[j] \in 1 .. 5
        BY <2>1
    <2>3. QED
        BY <2>2 DEF n
<1>5. QED
    BY <1>1, <1>3, <1>4, TemplateFacts DEF Properties, Current

-----------------------------------------------------------------------------
(* Type correctness.                                                       *)

LEMMA TypeInit == Init => TypeOK
BY RowFacts, EmptyFacts, BoundsAssumption DEF Init, TypeOK, PC

\* The part of the type invariant the branches of run_template share.
LEMMA RaisedType ==
    ASSUME IInv, NEW j \in Jobs, pc[j] \in {"property", "lammps"}, Raised(j)
    PROVE  /\ pc' \in [Jobs -> PC] /\ cursor' \in [Jobs -> 1 .. 6]
           /\ runs' \in [Jobs -> 0 .. 6] /\ reached' \in [Jobs -> 0 .. 75]
           /\ computed' \in [Jobs -> [Property -> Outcome]]
           /\ succeeded' \in [Jobs -> BOOLEAN]
BY CurrentFacts, EmptyFacts DEF IInv, TypeOK, Raised, PC, Live

LEMMA TypeNext == IInv /\ [Next]_vars => TypeOK'
<1> SUFFICES ASSUME IInv, [Next]_vars
             PROVE  TypeOK'
    OBVIOUS
<1> USE DEF PC, Live
<1>0. TypeOK
    BY DEF IInv
<1>1. ASSUME NEW j \in Jobs, Submit(j)
      PROVE  TypeOK'
    <2>1. PICK e \in WriteEnd :
                /\ Write(j, NewRow, e)
                /\ pc' = [pc EXCEPT ![j] = IF e = "ok" THEN "scheduled" ELSE "refused"]
                /\ IF e = "unacked" THEN Excuse(j, "insert") ELSE UNCHANGED excuse
        BY <1>1 DEF Submit
    <2>2. row' \in [Jobs -> Row] /\ dbFaults' \in 0 .. MaxDbFaults
        BY <1>0, <2>1, WriteType, RowFacts
    <2>3. excuse' \in [Jobs -> SUBSET {"insert", "publish", "fail", "crash"}]
        BY <1>0, <2>1, ExcuseType
    <2>4. QED
        BY <1>0, <1>1, <2>1, <2>2, <2>3 DEF TypeOK, Submit
<1>2. ASSUME NEW j \in Jobs, Start(j)
      PROVE  TypeOK'
    BY <1>0, <1>2 DEF TypeOK, Start
<1>3. ASSUME NEW j \in Jobs, StartFails(j)
      PROVE  TypeOK'
    BY <1>0, <1>3 DEF TypeOK, StartFails
<1>4. ASSUME NEW j \in Jobs, Spawn(j)
      PROVE  TypeOK'
    BY <1>0, <1>4 DEF TypeOK, Spawn
<1>5. ASSUME NEW j \in Jobs, SpawnFails(j)
      PROVE  TypeOK'
    <2>1. pc[j] \in {"property", "lammps"} /\ Raised(j)
        BY <1>5 DEF SpawnFails
    <2>2. QED
        BY <1>0, <1>5, <2>1, RaisedType DEF TypeOK, SpawnFails
<1>6. ASSUME NEW j \in Jobs, LammpsExits(j)
      PROVE  TypeOK'
    <2>1. Current(j) \in Property
        BY <1>6, CurrentFacts DEF LammpsExits
    <2>2. runs[j] + 1 \in 0 .. 6
        <3>1. LAMMPS_RUNS[Current(j)] \in 1 .. 7
            BY <2>1, PropertyFacts
        <3>2. runs[j] \in 0 .. 6
            BY <1>0 DEF TypeOK
        <3>3. runs[j] + 1 < LAMMPS_RUNS[Current(j)]
            BY <1>6 DEF LammpsExits
        <3>4. QED
            BY <3>1, <3>2, <3>3
    <2>3. QED
        BY <1>0, <1>6, <2>2 DEF TypeOK, LammpsExits
<1>7. ASSUME NEW j \in Jobs, PropertyReturns(j)
      PROVE  TypeOK'
    <2>1. Current(j) \in Property
        BY <1>7, CurrentFacts DEF PropertyReturns
    <2>2. computed' \in [Jobs -> [Property -> Outcome]]
        BY <1>0, <1>7, <2>1, OutcomeFacts DEF TypeOK, PropertyReturns
    <2>3. reached' \in [Jobs -> 0 .. 75]
        BY <1>0, <1>7, <2>1, PropertyFacts DEF TypeOK, PropertyReturns
    <2>4. QED
        BY <1>0, <1>7, <2>2, <2>3 DEF TypeOK, PropertyReturns
<1>8. ASSUME NEW j \in Jobs, LammpsFails(j)
      PROVE  TypeOK'
    <2>1. pc[j] \in {"property", "lammps"} /\ Raised(j)
        BY <1>8 DEF LammpsFails
    <2>2. QED
        BY <1>0, <1>8, <2>1, RaisedType DEF TypeOK, LammpsFails
<1>9. ASSUME NEW j \in Jobs, LammpsTimesOut(j)
      PROVE  TypeOK'
    <2>1. pc[j] \in {"property", "lammps"} /\ Raised(j)
        BY <1>9 DEF LammpsTimesOut
    <2>2. QED
        BY <1>0, <1>9, <2>1, RaisedType DEF TypeOK, LammpsTimesOut
<1>10. ASSUME NEW j \in Jobs, AbandonedEnds(j)
       PROVE  TypeOK'
    BY <1>0, <1>10 DEF TypeOK, AbandonedEnds, taskVars
<1>11. ASSUME NEW j \in Jobs, Report(j)
       PROVE  TypeOK'
    <2>1. Current(j) \in Property /\ cursor[j] \in 1 .. 5
        BY <1>11, CurrentFacts DEF Report
    <2>2. row' \in [Jobs -> Row] /\ dbFaults' \in 0 .. MaxDbFaults
        <3>1. Progressed(row[j], Current(j), succeeded[j], reached[j]) \in Row
            BY <1>0, <2>1, RowFacts DEF TypeOK
        <3>2. QED
            BY <1>0, <1>11, <3>1, WriteType DEF Report
    <2>3. cursor' \in [Jobs -> 1 .. 6] /\ pc' \in [Jobs -> PC]
        BY <1>0, <1>11, <2>1 DEF TypeOK, Report
    <2>4. QED
        BY <1>0, <1>11, <2>2, <2>3 DEF TypeOK, Report
<1>12. ASSUME NEW j \in Jobs, Publish(j)
       PROVE  TypeOK'
    <2>1. row' \in [Jobs -> Row] /\ dbFaults' \in 0 .. MaxDbFaults
        <3>1. Completed(row[j], computed[j]) \in Row
            BY <1>0, RowFacts DEF TypeOK
        <3>2. QED
            BY <1>0, <1>12, <3>1, WriteType DEF Publish, TypeOK
    <2>2. excuse' \in [Jobs -> SUBSET {"insert", "publish", "fail", "crash"}]
        <3>1. Excuse(j, "publish") \/ UNCHANGED excuse
            BY <1>12 DEF Publish
        <3>2. QED
            BY <1>0, <3>1, ExcuseType
    <2>3. pc' \in [Jobs -> PC]
        BY <1>0, <1>12 DEF TypeOK, Publish
    <2>4. QED
        BY <1>0, <1>12, <2>1, <2>2, <2>3 DEF TypeOK, Publish
<1>13. ASSUME NEW j \in Jobs, WriteBack(j)
       PROVE  TypeOK'
    BY <1>0, <1>13 DEF TypeOK, WriteBack, UpdatePotential
<1>14. ASSUME NEW j \in Jobs, Fail(j)
       PROVE  TypeOK'
    <2>1. row' \in [Jobs -> Row] /\ dbFaults' \in 0 .. MaxDbFaults
        <3>1. Failed(row[j]) \in Row
            BY <1>0, RowFacts DEF TypeOK
        <3>2. QED
            BY <1>0, <1>14, <3>1, WriteType DEF Fail
    <2>2. excuse' \in [Jobs -> SUBSET {"insert", "publish", "fail", "crash"}]
        <3>1. Excuse(j, "fail") \/ UNCHANGED excuse
            BY <1>14 DEF Fail
        <3>2. QED
            BY <1>0, <3>1, ExcuseType
    <2>3. QED
        BY <1>0, <1>14, <2>1, <2>2 DEF TypeOK, Fail
<1>15. ASSUME Crash
       PROVE  TypeOK'
    <2>1. excuse' \in [Jobs -> SUBSET {"insert", "publish", "fail", "crash"}]
        BY <1>0, <1>15 DEF TypeOK, Crash
    <2>2. pc' \in [Jobs -> PC] /\ computed' \in [Jobs -> [Property -> Outcome]]
        BY <1>0, <1>15, EmptyFacts DEF TypeOK, Crash
    <2>3. abandoned' \in [Jobs -> Nat] /\ crashes' \in 0 .. MaxCrashes
        BY <1>0, <1>15, BoundsAssumption DEF TypeOK, Crash
    <2>4. QED
        BY <1>0, <1>15, <2>1, <2>2, <2>3 DEF TypeOK, Crash
<1>16. ASSUME Restart
       PROVE  TypeOK'
    BY <1>0, <1>16 DEF TypeOK, Restart, taskVars
<1>17. ASSUME UNCHANGED vars
       PROVE  TypeOK'
    BY <1>0, <1>17 DEF TypeOK, vars, taskVars
<1>18. QED
    BY <1>1, <1>2, <1>3, <1>4, <1>5, <1>6, <1>7, <1>8, <1>9, <1>10, <1>11, <1>12,
       <1>13, <1>14, <1>15, <1>16, <1>17 DEF Next, TaskStep

-----------------------------------------------------------------------------
(* The row agrees with the position of the task.                           *)

\* What Matches reads of job k, unchanged by a step.
Same(k) ==
    /\ pc'[k] = pc[k] /\ row'[k] = row[k] /\ template'[k] = template[k]
    /\ cursor'[k] = cursor[k] /\ computed'[k] = computed[k] /\ reached'[k] = reached[k]
    /\ excuse[k] \subseteq excuse'[k]

LEMMA MatchesFrame ==
    ASSUME NEW k \in Jobs, Matches(k), Same(k)
    PROVE  Matches(k)'
BY DEF Same, Matches, Open, Closed, Revoked, Unpublished, Whole, Before, Properties

\* A write of job j's row leaves the other rows alone.
LEMMA WriteOthers ==
    ASSUME TypeOK, NEW j \in Jobs, NEW r, NEW e, Write(j, r, e)
    PROVE  /\ \A k \in Jobs \ {j} : row'[k] = row[k]
           /\ row'[j] = IF e = "refused" THEN row[j] ELSE r
BY DEF TypeOK, Write

LEMMA ExcuseOthers ==
    ASSUME TypeOK, NEW j \in Jobs, NEW why, Excuse(j, why)
    PROVE  /\ \A k \in Jobs : excuse[k] \subseteq excuse'[k]
           /\ why \in excuse'[j]
BY DEF TypeOK, Excuse

LEMMA BeforeStep ==
    ASSUME NEW j \in Jobs, cursor[j] \in 1 .. 5
    PROVE  Before(j, cursor[j]) = Before(j, cursor[j] - 1) \cup {Current(j)}
<1>1. 1 .. cursor[j] = (1 .. (cursor[j] - 1)) \cup {cursor[j]}
    OBVIOUS
<1>2. QED
    BY <1>1 DEF Before, Current

\* The branches of run_template where run_property raised.
LEMMA RaisedMatches ==
    ASSUME IInv, NEW j \in Jobs, pc[j] \in {"property", "lammps"}, Raised(j),
           UNCHANGED <<row, template, excuse>>
    PROVE  RowMatchesTask'
<1> USE DEF IInv, TypeOK
<1>1. Matches(j)
    BY DEF RowMatchesTask
<1>2. Current(j) \in Property /\ Empty.kind # "absent" /\ cursor[j] \in 1 .. 5
    BY CurrentFacts, EmptyFacts
<1>3. computed'[j] = [computed[j] EXCEPT ![Current(j)] = Empty]
    BY DEF Raised
<1>4. Answered(computed'[j]) = Answered(computed[j]) \cup {Current(j)}
    BY <1>2, <1>3 DEF Answered
<1>5. Before(j, cursor[j]) = Before(j, cursor[j] - 1) \cup {Current(j)}
    BY <1>2, BeforeStep
<1>6. Matches(j)'
    <2>1. /\ pc'[j] = "report" /\ cursor'[j] = cursor[j] /\ reached'[j] = reached[j]
          /\ row'[j] = row[j] /\ template'[j] = template[j]
        BY DEF Raised
    <2>2. Open(j)' /\ cursor'[j] <= Len(Properties(j)')
        BY <1>1, <2>1 DEF Matches, Open, Unpublished, Properties
    <2>3. Answered(computed'[j]) = Before(j, cursor[j])'
        <3>1. Answered(computed[j]) = Before(j, cursor[j] - 1)
            BY <1>1 DEF Matches
        <3>2. Before(j, cursor[j])' = Before(j, cursor[j])
            BY <2>1 DEF Before, Properties
        <3>3. QED
            BY <1>4, <1>5, <3>1, <3>2
    <2>4. QED
        BY <2>1, <2>2, <2>3 DEF Matches, Before, Properties
<1>7. ASSUME NEW k \in Jobs \ {j}
      PROVE  Same(k)
    BY DEF Same, Raised
<1>8. QED
    BY <1>6, <1>7, MatchesFrame DEF RowMatchesTask

LEMMA MatchesNext == IInv /\ [Next]_vars => RowMatchesTask'
<1> SUFFICES ASSUME IInv, [Next]_vars
             PROVE  RowMatchesTask'
    OBVIOUS
<1>a. TypeOK /\ \A k \in Jobs : Matches(k)
    BY DEF IInv, RowMatchesTask
<1>b. ASSUME NEW j \in Jobs, Matches(j)', \A k \in Jobs \ {j} : Same(k)
      PROVE  RowMatchesTask'
    BY <1>a, <1>b, MatchesFrame DEF RowMatchesTask
<1>c. ASSUME \A k \in Jobs : Same(k)
      PROVE  RowMatchesTask'
    BY <1>a, <1>c, MatchesFrame DEF RowMatchesTask
<1>1. ASSUME NEW j \in Jobs, Submit(j)
      PROVE  RowMatchesTask'
    <2>1. PICK e \in WriteEnd :
                /\ Write(j, NewRow, e)
                /\ pc' = [pc EXCEPT ![j] = IF e = "ok" THEN "scheduled" ELSE "refused"]
                /\ IF e = "unacked" THEN Excuse(j, "insert") ELSE UNCHANGED excuse
        BY <1>1 DEF Submit
    <2>2. /\ pc[j] = "idle" /\ row[j] = NoRow
          /\ cursor'[j] = 1 /\ computed'[j] = NoResults /\ reached'[j] = 0
        BY <1>1, <1>a DEF Submit, Matches
    <2>3. Matches(j)'
        <3>1. row'[j] = IF e = "refused" THEN NoRow ELSE NewRow
            BY <1>a, <2>1, <2>2, WriteOthers
        <3>2. pc'[j] = IF e = "ok" THEN "scheduled" ELSE "refused"
            BY <1>a, <2>1 DEF TypeOK
        <3>3. e = "unacked" => "insert" \in excuse'[j]
            BY <1>a, <2>1, ExcuseOthers
        <3>4. QED
            BY <2>2, <3>1, <3>2, <3>3 DEF Matches, WriteEnd
    <2>4. ASSUME NEW k \in Jobs \ {j}
          PROVE  Same(k)
        <3>1. row'[k] = row[k]
            BY <1>a, <2>1, WriteOthers
        <3>2. excuse[k] \subseteq excuse'[k]
            BY <1>a, <2>1, ExcuseOthers
        <3>3. QED
            BY <1>a, <1>1, <2>1, <3>1, <3>2 DEF TypeOK, Submit, Same
    <2>5. QED
        BY <1>b, <2>3, <2>4
<1>2. ASSUME NEW j \in Jobs, Start(j)
      PROVE  RowMatchesTask'
    <2>1. Matches(j)'
        <3>1. /\ row[j] = NewRow /\ cursor[j] = 1 /\ computed[j] = NoResults /\ reached[j] = 0
              /\ pc'[j] = "property" /\ template[j] \in Template
            BY <1>2, <1>a, TemplatesAssumption DEF Start, Matches, TypeOK
        <3>2. Open(j)'
            BY <1>2, <3>1 DEF Start, Open, NewRow, NoRow, Unpublished
        <3>3. (cursor[j] <= Len(Properties(j)))'
            <4> DEFINE n == Len(TEMPLATE_PROPERTIES[template[j]])
            <4>1. n \in 2 .. 5
                BY <3>1, TemplateFacts
            <4>2. (cursor[j] <= Len(Properties(j)))' <=> 1 <= n
                BY <1>2, <3>1 DEF Start, Properties
            <4> HIDE DEF n
            <4>3. QED
                BY <4>1, <4>2
        <3>4. Answered(computed[j])' = Before(j, cursor[j] - 1)'
            <4>1. 1 .. (cursor'[j] - 1) = {}
                BY <1>2, <3>1 DEF Start
            <4>2. Before(j, cursor[j] - 1)' = {}
                BY <4>1 DEF Before
            <4>3. Answered(computed[j])' = {}
                BY <1>2, <3>1 DEF Start, Answered, NoResults, Absent
            <4>4. QED
                BY <4>2, <4>3
        <3>5. QED
            BY <3>1, <3>2, <3>3, <3>4 DEF Matches
    <2>2. \A k \in Jobs \ {j} : Same(k)
        BY <1>2, <1>a DEF Start, Same, TypeOK
    <2>3. QED
        BY <1>b, <2>1, <2>2
<1>3. ASSUME NEW j \in Jobs, StartFails(j)
      PROVE  RowMatchesTask'
    <2>1. Matches(j)'
        <3>1. row[j] = NewRow /\ reached[j] = 0 /\ pc'[j] = "failing"
            BY <1>3, <1>a DEF StartFails, Matches, TypeOK
        <3>2. Open(j)'
            BY <1>3, <3>1 DEF StartFails, Open, NewRow, NoRow, Unpublished
        <3>3. QED
            BY <3>1, <3>2 DEF Matches
    <2>2. \A k \in Jobs \ {j} : Same(k)
        BY <1>3, <1>a DEF StartFails, Same, TypeOK
    <2>3. QED
        BY <1>b, <2>1, <2>2
<1>4. ASSUME NEW j \in Jobs, Spawn(j)
      PROVE  RowMatchesTask'
    <2>1. Matches(j)'
        BY <1>4, <1>a
           DEF Spawn, Matches, TypeOK, Open, Unpublished, Before, Properties
    <2>2. \A k \in Jobs \ {j} : Same(k)
        BY <1>4, <1>a DEF Spawn, Same, TypeOK
    <2>3. QED
        BY <1>b, <2>1, <2>2
<1>5. ASSUME NEW j \in Jobs, SpawnFails(j)
      PROVE  RowMatchesTask'
    BY <1>5, RaisedMatches DEF SpawnFails
<1>6. ASSUME NEW j \in Jobs, LammpsExits(j)
      PROVE  RowMatchesTask'
    <2>1. Matches(j)'
        BY <1>6, <1>a
           DEF LammpsExits, Matches, TypeOK, Open, Unpublished, Before, Properties
    <2>2. \A k \in Jobs \ {j} : Same(k)
        BY <1>6, <1>a DEF LammpsExits, Same, TypeOK
    <2>3. QED
        BY <1>b, <2>1, <2>2
<1>7. ASSUME NEW j \in Jobs, PropertyReturns(j)
      PROVE  RowMatchesTask'
    <2>1. PICK o \in OutcomesOf(Current(j), Letters, ZeroReferences) :
                computed' = [computed EXCEPT ![j][Current(j)] = o]
        BY <1>7 DEF PropertyReturns
    <2>2. Current(j) \in Property /\ cursor[j] \in 1 .. 5 /\ pc[j] = "lammps"
        BY <1>7, CurrentFacts DEF PropertyReturns
    <2>3. o.kind # "absent"
        BY <2>1, <2>2, OutcomeFacts
    <2>4. Answered(computed'[j]) = Answered(computed[j]) \cup {Current(j)}
        <3>1. computed'[j] = [computed[j] EXCEPT ![Current(j)] = o]
            BY <1>a, <2>1 DEF TypeOK
        <3>2. QED
            BY <1>a, <2>2, <2>3, <3>1 DEF TypeOK, Answered
    <2>5. Before(j, cursor[j]) = Before(j, cursor[j] - 1) \cup {Current(j)}
        BY <2>2, BeforeStep
    <2>6. Matches(j)'
        <3>1. pc'[j] = "report" /\ cursor' = cursor /\ row' = row /\ template' = template
            BY <1>7, <1>a DEF PropertyReturns, TypeOK
        <3>2. reached[j] \in Nat /\ reached[j] <= reached'[j] /\ reached'[j] \in Nat
            <4> DEFINE m == PROGRESS_MAP[Current(j)]
            <4>1. m \in 0 .. 75 /\ reached[j] \in 0 .. 75
                BY <1>a, <2>2, PropertyFacts DEF TypeOK
            <4>2. reached'[j] = IF reached[j] < m THEN m ELSE reached[j]
                BY <1>7, <1>a DEF PropertyReturns, TypeOK
            <4> HIDE DEF m
            <4>3. QED
                BY <4>1, <4>2
        <3>3. Open(j)'
            <4>1. row[j].progress \in Nat
                <5>1. row[j] \in Row
                    BY <1>a DEF TypeOK
                <5>2. QED
                    BY <5>1 DEF Row
            <4>2. Open(j)
                BY <1>a, <2>2 DEF Matches
            <4>3. QED
                BY <3>1, <3>2, <4>1, <4>2 DEF Open, Unpublished
        <3>4. Answered(computed[j])' = Before(j, cursor[j])'
            <4>1. Answered(computed[j]) = Before(j, cursor[j] - 1)
                BY <1>a, <2>2 DEF Matches
            <4>2. Before(j, cursor[j])' = Before(j, cursor[j])
                BY <3>1 DEF Before, Properties
            <4>3. QED
                BY <2>4, <2>5, <4>1, <4>2
        <3>5. QED
            BY <1>a, <2>2, <3>1, <3>3, <3>4 DEF Matches, Properties
    <2>7. \A k \in Jobs \ {j} : Same(k)
        BY <1>7, <1>a, <2>1 DEF PropertyReturns, Same, TypeOK
    <2>8. QED
        BY <1>b, <2>6, <2>7
<1>8. ASSUME NEW j \in Jobs, LammpsFails(j)
      PROVE  RowMatchesTask'
    BY <1>8, RaisedMatches DEF LammpsFails
<1>9. ASSUME NEW j \in Jobs, LammpsTimesOut(j)
      PROVE  RowMatchesTask'
    BY <1>9, RaisedMatches DEF LammpsTimesOut
<1>10. ASSUME NEW j \in Jobs, AbandonedEnds(j)
       PROVE  RowMatchesTask'
    BY <1>10, <1>c DEF AbandonedEnds, Same, taskVars
<1>11. ASSUME NEW j \in Jobs, Report(j)
       PROVE  RowMatchesTask'
    <2>1. PICK e \in {"ok", "refused"} :
                Write(j, Progressed(row[j], Current(j), succeeded[j], reached[j]), e)
        BY <1>11 DEF Report
    <2>2. /\ cursor[j] \in 1 .. Len(Properties(j)) /\ cursor[j] \in 1 .. 5
          /\ Len(Properties(j)) \in 2 .. 5 /\ pc[j] = "report"
        BY <1>11, CurrentFacts DEF Report
    <2>3. row'[j] = IF e = "refused" THEN row[j]
                    ELSE Progressed(row[j], Current(j), succeeded[j], reached[j])
        BY <1>a, <2>1, WriteOthers
    <2>4. Open(j)'
        <3>1. row[j] \in Row /\ reached[j] \in 0 .. 75 /\ reached'[j] = reached[j]
            BY <1>11, <1>a DEF Report, TypeOK
        <3>2. Open(j)
            BY <1>a, <2>2 DEF Matches
        <3>3. CASE e = "refused"
            BY <2>3, <3>1, <3>2, <3>3 DEF Open
        <3>4. CASE e # "refused"
            BY <2>3, <3>1, <3>2, <3>4 DEF Open, Unpublished, Progressed, Row
        <3>5. QED
            BY <3>3, <3>4
    <2>5. /\ cursor'[j] = cursor[j] + 1 /\ computed' = computed /\ template' = template
          /\ pc'[j] = IF cursor[j] < Len(Properties(j)) THEN "property" ELSE "publish"
        BY <1>11, <1>a DEF Report, TypeOK
    <2>6. Answered(computed[j]) = Before(j, cursor[j])
        BY <1>a, <2>2 DEF Matches
    <2>7. Matches(j)'
        <3>1. CASE cursor[j] < Len(Properties(j))
            <4>1. cursor'[j] <= Len(Properties(j))' /\ cursor'[j] - 1 = cursor[j]
                BY <2>2, <2>5, <3>1 DEF Properties
            <4>2. Answered(computed[j])' = Before(j, cursor[j] - 1)'
                BY <2>5, <2>6, <4>1 DEF Before, Properties
            <4>3. QED
                BY <2>4, <2>5, <3>1, <4>1, <4>2 DEF Matches
        <3>2. CASE ~(cursor[j] < Len(Properties(j)))
            <4>1. cursor[j] = Len(Properties(j))
                <5> DEFINE n == Len(Properties(j))
                <5>1. n \in 2 .. 5 /\ cursor[j] \in 1 .. n /\ ~(cursor[j] < n)
                    BY <2>2, <3>2
                <5> HIDE DEF n
                <5>2. cursor[j] = n
                    BY <5>1
                <5>3. QED
                    BY <5>2 DEF n
            <4>2. Answered(computed[j])' = PropertiesOf(template[j])'
                BY <2>5, <2>6, <4>1 DEF Before, Properties, PropertiesOf
            <4>3. QED
                BY <2>4, <2>5, <3>2, <4>2 DEF Matches
        <3>3. QED
            BY <3>1, <3>2
    <2>8. ASSUME NEW k \in Jobs \ {j}
          PROVE  Same(k)
        <3>1. row'[k] = row[k]
            BY <1>a, <2>1, WriteOthers
        <3>2. QED
            BY <1>11, <1>a, <3>1 DEF Report, Same, TypeOK
    <2>9. QED
        BY <1>b, <2>7, <2>8
<1>12. ASSUME NEW j \in Jobs, Publish(j)
       PROVE  RowMatchesTask'
    <2>1. /\ pc[j] = "publish" /\ Open(j) /\ Answered(computed[j]) = PropertiesOf(template[j])
          /\ reached' = reached /\ template' = template /\ cursor' = cursor
          /\ computed' = computed
        BY <1>12, <1>a DEF Publish, Matches
    <2>2. CASE ~Storable(computed[j])
        <3>1. pc'[j] = "failing" /\ row' = row /\ excuse' = excuse
            BY <1>12, <1>a, <2>2 DEF Publish, TypeOK
        <3>2. Matches(j)'
            BY <2>1, <3>1 DEF Matches, Open, Unpublished
        <3>3. \A k \in Jobs \ {j} : Same(k)
            BY <1>12, <1>a, <2>2, <2>1 DEF Publish, Same, TypeOK
        <3>4. QED
            BY <1>b, <3>2, <3>3
    <2>3. CASE Storable(computed[j])
        <3>1. PICK e \in WriteEnd :
                    /\ Write(j, Completed(row[j], computed[j]), e)
                    /\ pc' = [pc EXCEPT ![j] = IF e = "ok" THEN "writeback" ELSE "failing"]
                    /\ IF e = "unacked" THEN Excuse(j, "publish") ELSE UNCHANGED excuse
            BY <1>12, <2>3 DEF Publish
        <3>2. /\ row'[j] = IF e = "refused" THEN row[j] ELSE Completed(row[j], computed[j])
              /\ pc'[j] = IF e = "ok" THEN "writeback" ELSE "failing"
            BY <1>a, <3>1, WriteOthers DEF TypeOK
        <3>3. e = "unacked" => "publish" \in excuse'[j]
            BY <1>a, <3>1, ExcuseOthers
        <3>4. e # "refused" => Closed(j)'
            <4>1. row[j] \in Row
                BY <1>a DEF TypeOK
            <4>2. /\ Completed(row[j], computed[j]).status = "completed"
                  /\ Completed(row[j], computed[j]).progress = 100
                  /\ Completed(row[j], computed[j]).results = computed[j]
                  /\ Completed(row[j], computed[j]).rating = OverallGrade(computed[j])
                BY <4>1 DEF Completed, Row
            <4>3. QED
                BY <2>1, <3>2, <4>2 DEF Closed, Whole
        <3>5. e = "refused" => Open(j)'
            BY <2>1, <3>2 DEF Open, Unpublished
        <3>6. Matches(j)'
            <4>1. CASE e = "ok"
                BY <3>2, <3>4, <4>1 DEF Matches
            <4>2. CASE e = "refused"
                BY <3>2, <3>5, <4>2 DEF Matches
            <4>3. CASE e = "unacked"
                BY <3>2, <3>3, <3>4, <4>3 DEF Matches
            <4>4. QED
                BY <4>1, <4>2, <4>3 DEF WriteEnd
        <3>7. ASSUME NEW k \in Jobs \ {j}
              PROVE  Same(k)
            <4>1. row'[k] = row[k]
                BY <1>a, <3>1, WriteOthers
            <4>2. excuse[k] \subseteq excuse'[k]
                BY <1>a, <3>1, ExcuseOthers
            <4>3. QED
                BY <1>a, <2>1, <3>1, <4>1, <4>2 DEF TypeOK, Same
        <3>8. QED
            BY <1>b, <3>6, <3>7
    <2>4. QED
        BY <2>2, <2>3
<1>13. ASSUME NEW j \in Jobs, WriteBack(j)
       PROVE  RowMatchesTask'
    <2>1. Matches(j)'
        BY <1>13, <1>a DEF WriteBack, Matches, TypeOK, Closed, Whole
    <2>2. \A k \in Jobs \ {j} : Same(k)
        BY <1>13, <1>a DEF WriteBack, Same, TypeOK
    <2>3. QED
        BY <1>b, <2>1, <2>2
<1>14. ASSUME NEW j \in Jobs, Fail(j)
       PROVE  RowMatchesTask'
    <2>1. PICK e \in WriteEnd :
                /\ Write(j, Failed(row[j]), e)
                /\ IF e = "refused" THEN Excuse(j, "fail") ELSE UNCHANGED excuse
        BY <1>14 DEF Fail
    <2>2. /\ row[j] \in Row /\ pc'[j] = "done" /\ pc[j] = "failing"
          /\ template' = template /\ reached' = reached /\ cursor' = cursor
          /\ computed' = computed
        BY <1>14, <1>a DEF Fail, TypeOK
    <2>3. Open(j) \/ (Closed(j) /\ "publish" \in excuse[j])
        BY <1>a, <2>2 DEF Matches
    <2>4. row'[j] = IF e = "refused" THEN row[j] ELSE Failed(row[j])
        BY <1>a, <2>1, WriteOthers
    <2>5. excuse[j] \subseteq excuse'[j] /\ (e = "refused" => "fail" \in excuse'[j])
        BY <1>a, <2>1, ExcuseOthers
    <2>6. Matches(j)'
        <3>1. CASE e = "refused"
            <4>1. (Open(j) => Open(j)') /\ (Closed(j) => Closed(j)')
                BY <2>2, <2>4, <3>1 DEF Open, Unpublished, Closed, Whole
            <4>2. QED
                BY <2>2, <2>3, <2>5, <3>1, <4>1 DEF Matches
        <3>2. CASE e # "refused"
            <4>1. /\ row'[j].status = "failed" /\ row'[j].results = row[j].results
                  /\ row'[j].rating = row[j].rating /\ row'[j].progress = row[j].progress
                BY <2>2, <2>4, <3>2 DEF Failed, Row
            <4>2. Revoked(j)'
                BY <2>2, <2>3, <2>5, <4>1 DEF Revoked, Open, Closed, Unpublished, Whole
            <4>3. QED
                BY <2>2, <4>2 DEF Matches
        <3>3. QED
            BY <3>1, <3>2
    <2>7. ASSUME NEW k \in Jobs \ {j}
          PROVE  Same(k)
        <3>1. row'[k] = row[k]
            BY <1>a, <2>1, WriteOthers
        <3>2. excuse[k] \subseteq excuse'[k]
            BY <1>a, <2>1, ExcuseOthers
        <3>3. QED
            BY <1>a, <1>14, <3>1, <3>2 DEF Fail, TypeOK, Same
    <2>8. QED
        BY <1>b, <2>6, <2>7
<1>15. ASSUME Crash
       PROVE  RowMatchesTask'
    <2>1. ASSUME NEW k \in Jobs, pc[k] \notin Live
          PROVE  Matches(k)'
        <3>1. Same(k)
            BY <1>15, <1>a, <2>1 DEF Crash, Same, TypeOK
        <3>2. QED
            BY <1>a, <3>1, MatchesFrame
    <2>2. ASSUME NEW k \in Jobs, pc[k] \in Live
          PROVE  Matches(k)'
        <3>1. /\ pc'[k] = "lost" /\ "crash" \in excuse'[k]
              /\ row' = row /\ reached' = reached /\ template' = template
            BY <1>15, <2>2 DEF Crash
        <3>2. Open(k) \/ Closed(k)
            <4>1. pc[k] = "scheduled" => Open(k)
                <5>1. pc[k] = "scheduled" => row[k] = NewRow /\ reached[k] = 0
                    BY <1>a DEF Matches
                <5>2. /\ NewRow.status = "queued" /\ NewRow.results = NoResults
                      /\ NewRow.rating = "none" /\ NewRow.progress = 0
                    BY DEF NewRow, NoRow
                <5>3. QED
                    BY <5>1, <5>2 DEF Open, Unpublished
            <4>2. QED
                BY <1>a, <2>2, <4>1 DEF Live, Matches
        <3>3. (Open(k) => Open(k)') /\ (Closed(k) => Closed(k)')
            BY <3>1 DEF Open, Unpublished, Closed, Whole
        <3>4. QED
            BY <3>1, <3>2, <3>3 DEF Matches
    <2>3. QED
        BY <2>1, <2>2 DEF RowMatchesTask
<1>16. ASSUME Restart
       PROVE  RowMatchesTask'
    BY <1>16, <1>c DEF Restart, Same, taskVars
<1>17. ASSUME UNCHANGED vars
       PROVE  RowMatchesTask'
    BY <1>17, <1>c DEF vars, Same, taskVars
<1>18. QED
    BY <1>1, <1>2, <1>3, <1>4, <1>5, <1>6, <1>7, <1>8, <1>9, <1>10, <1>11, <1>12,
       <1>13, <1>14, <1>15, <1>16, <1>17 DEF Next, TaskStep

LEMMA MatchesInit == Init => RowMatchesTask
BY DEF Init, RowMatchesTask, Matches

\* The inductive invariant: types, and the agreement of row and task.
THEOREM Invariance == Spec => []IInv
<1>1. Init => IInv
    BY TypeInit, MatchesInit DEF IInv
<1>2. IInv /\ [Next]_vars => IInv'
    BY TypeNext, MatchesNext DEF IInv
<1>3. QED
    BY <1>1, <1>2, PTL DEF Spec

\* Every variable keeps its type: the progress of a row is a percentage,
\* the cursor stays within the template, no process count goes below zero.
THEOREM TypeCorrectness == Spec => []TypeOK
<1>1. IInv => TypeOK
    BY DEF IInv
<1>2. QED
    BY <1>1, Invariance, PTL

\* A row's status follows from the position of its task.
LEMMA RowCases ==
    ASSUME IInv, NEW j \in Jobs
    PROVE  \/ row[j] = NoRow
           \/ row[j] = NewRow
           \/ Open(j)
           \/ Closed(j)
           \/ Revoked(j)
BY DEF IInv, TypeOK, PC, Live, RowMatchesTask, Matches

\* Whatever fails, a row publishes nothing or everything: all properties of
\* its template, their overall grade and progress 100.
THEOREM Wholeness == Spec => []WholeOrNothing
<1>1. IInv => WholeOrNothing
    <2> SUFFICES ASSUME IInv, NEW j \in Jobs
                 PROVE  Unpublished(row[j]) \/ Whole(row[j], template[j])
        BY DEF WholeOrNothing
    <2>1. Unpublished(NoRow) /\ Unpublished(NewRow)
        BY DEF Unpublished, NoRow, NewRow
    <2>2. QED
        BY <2>1, RowCases DEF Open, Closed, Revoked
<1>2. QED
    BY <1>1, Invariance, PTL

\* A row left queued or running has a live task or a fault that explains it.
THEOREM NoStranding == Spec => []StrandedOnlyByFault
<1>1. IInv => StrandedOnlyByFault
    <2> SUFFICES ASSUME IInv, NEW j \in Jobs,
                        row[j].status \in {"queued", "running"}, pc[j] \notin Live
                 PROVE  excuse[j] \cap {"insert", "crash", "fail"} # {}
        BY DEF StrandedOnlyByFault
    <2>1. NoRow.status = "absent"
        BY DEF NoRow
    <2>2. pc[j] \in {"refused", "done", "lost"}
        BY <2>1 DEF IInv, TypeOK, PC, RowMatchesTask, Matches
    <2>3. QED
        BY <2>1, <2>2 DEF IInv, RowMatchesTask, Matches, Closed, Revoked
<1>2. QED
    BY <1>1, Invariance, PTL

\* Published results are revoked only after a lost acknowledgement.
THEOREM Revocation == Spec => []RevokedOnlyByLostAck
<1>1. IInv => RevokedOnlyByLostAck
    <2> SUFFICES ASSUME IInv, NEW j \in Jobs,
                        row[j].status = "failed", ~Unpublished(row[j])
                 PROVE  "publish" \in excuse[j]
        BY DEF RevokedOnlyByLostAck
    <2>1. NoRow.status = "absent" /\ NewRow.status = "queued"
        BY DEF NoRow, NewRow
    <2>2. QED
        BY <2>1, RowCases DEF Open, Closed, Revoked
<1>2. QED
    BY <1>1, Invariance, PTL

-----------------------------------------------------------------------------
(* Abandoned processes.  A property that raised had no entry before, since *)
(* a template lists none twice, so every timeout adds an entry without a   *)
(* value; none is ever taken out while the task lives.                     *)

Empties(results) == {p \in Property : results[p].kind = "empty"}
Accounted(j) == pc[j] # "lost" => abandoned[j] <= Cardinality(Empties(computed[j]))

LEMMA EmptiesCount ==
    ASSUME NEW results
    PROVE  IsFiniteSet(Empties(results)) /\ Cardinality(Empties(results)) \in Nat
<1>1. IsFiniteSet(Property)
  <2> DEFINE first == {"lattice_constant"} \cup {"cohesive_energy"}
             rest == ({"elastic_constants"} \cup {"bulk_modulus"}) \cup {"vacancy_formation_energy"}
  <2>1. IsFiniteSet(first) /\ IsFiniteSet(rest)
      BY FS_Singleton, FS_Union
  <2>2. IsFiniteSet(first \cup rest)
      BY <2>1, FS_Union
  <2>3. Property = first \cup rest
      BY DEF Property
  <2>4. QED
      BY <2>2, <2>3
<1>2. Empties(results) \in SUBSET Property
    BY DEF Empties
<1>3. IsFiniteSet(Empties(results))
    BY <1>1, <1>2, FS_Subset
<1>4. QED
    BY <1>3, FS_CardinalityType

\* No template lists a property twice.
LEMMA ListedOnce ==
    \A t \in Template : \A h, k \in 1 .. Len(TEMPLATE_PROPERTIES[t]) :
        TEMPLATE_PROPERTIES[t][h] = TEMPLATE_PROPERTIES[t][k] => h = k
<1> SUFFICES ASSUME NEW t \in Template, NEW h \in 1 .. Len(TEMPLATE_PROPERTIES[t]),
                    NEW k \in 1 .. Len(TEMPLATE_PROPERTIES[t]),
                    TEMPLATE_PROPERTIES[t][h] = TEMPLATE_PROPERTIES[t][k]
             PROVE  h = k
    OBVIOUS
<1>1. CASE t = "basic"
    BY <1>1 DEF TEMPLATE_PROPERTIES
<1>2. CASE t = "mechanical"
    BY <1>2 DEF TEMPLATE_PROPERTIES
<1>3. CASE t = "defect"
    BY <1>3 DEF TEMPLATE_PROPERTIES
<1>4. CASE t = "comprehensive"
    BY <1>4 DEF TEMPLATE_PROPERTIES
<1>5. QED
    BY <1>1, <1>2, <1>3, <1>4 DEF Template

\* The property being run has no entry yet.
LEMMA NotYetAnswered ==
    ASSUME IInv, NEW j \in Jobs, pc[j] \in {"property", "lammps"}
    PROVE  Current(j) \in Property /\ computed[j][Current(j)].kind = "absent"
<1>1. /\ template[j] \in Template /\ Current(j) \in Property
      /\ cursor[j] \in 1 .. Len(Properties(j)) /\ cursor[j] \in 1 .. 5
    BY CurrentFacts
<1>2. Answered(computed[j]) = Before(j, cursor[j] - 1)
    BY DEF IInv, RowMatchesTask, Matches
<1>3. ASSUME NEW k \in 1 .. cursor[j] - 1 PROVE Properties(j)[k] # Current(j)
  <2>1. k \in 1 .. Len(Properties(j)) /\ k # cursor[j]
      BY <1>1, TemplateFacts DEF Properties
  <2>2. QED
      BY <1>1, <2>1, ListedOnce DEF Properties, Current
<1>4. Current(j) \notin Answered(computed[j])
    BY <1>2, <1>3 DEF Before
<1>5. QED
    BY <1>1, <1>4 DEF Answered

LEMMA AccountStays ==
    ASSUME TypeOK, TypeOK', NEW k \in Jobs, Accounted(k),
           pc'[k] # "lost" => pc[k] # "lost",
           Empties(computed[k]) \subseteq Empties(computed'[k]),
           abandoned'[k] <= abandoned[k]
    PROVE  Accounted(k)'
<1> DEFINE n == Cardinality(Empties(computed[k]))
           m == Cardinality(Empties(computed'[k]))
<1>1. n <= m
  <2>1. IsFiniteSet(Empties(computed'[k])) /\ Empties(computed[k]) \in SUBSET Empties(computed'[k])
      BY EmptiesCount
  <2>2. QED
      BY <2>1, FS_Subset
<1>2. n \in Nat /\ m \in Nat
    BY EmptiesCount
<1>3. abandoned[k] \in Nat /\ abandoned'[k] \in Nat
    BY DEF TypeOK
<1>4. pc[k] # "lost" => abandoned[k] <= n
    BY DEF Accounted
<1> HIDE DEF n, m
<1>5. pc'[k] # "lost" => abandoned'[k] <= m
    BY <1>1, <1>2, <1>3, <1>4
<1>6. QED
    BY <1>5 DEF Accounted, m

\* A property that raised has an entry without a value, whether its process is
\* left behind or not.
LEMMA RaisedAccounted ==
    ASSUME IInv, TypeOK', NEW j \in Jobs, pc[j] \in {"property", "lammps"}, Raised(j),
           abandoned' \in {abandoned, [abandoned EXCEPT ![j] = @ + 1]},
           NEW k \in Jobs, Accounted(k)
    PROVE  Accounted(k)'
<1>1. TypeOK
    BY DEF IInv
<1>2. CASE k # j
  <2>1. pc'[k] = pc[k] /\ computed'[k] = computed[k] /\ abandoned'[k] = abandoned[k]
      BY <1>1, <1>2 DEF Raised, TypeOK
  <2>2. abandoned'[k] <= abandoned[k]
      BY <1>1, <2>1 DEF TypeOK
  <2>3. QED
      BY <1>1, <2>1, <2>2, AccountStays
<1>3. CASE k = j
  <2> DEFINE old == Empties(computed[j])
  <2>1. Current(j) \in Property /\ computed[j][Current(j)].kind = "absent"
      BY NotYetAnswered
  <2>2. computed'[j] = [computed[j] EXCEPT ![Current(j)] = Empty]
      BY <1>1 DEF Raised, TypeOK
  <2>3. computed[j] \in [Property -> Outcome]
      BY <1>1 DEF TypeOK
  <2>4. Empties(computed'[j]) = old \cup {Current(j)}
      BY <2>1, <2>2, <2>3, EmptyFacts DEF Empties
  <2>5. Current(j) \notin old
      BY <2>1 DEF Empties
  <2>6. IsFiniteSet(old) /\ Cardinality(old) \in Nat
      BY EmptiesCount
  <2>7. Cardinality(Empties(computed'[j])) = Cardinality(old) + 1
    <3> HIDE DEF old
    <3>1. Cardinality(old \cup {Current(j)}) = Cardinality(old) + 1
        BY <2>5, <2>6, FS_AddElement
    <3>2. QED
        BY <2>4, <3>1
  <2>8. pc[j] # "lost"
      OBVIOUS
  <2>9. abandoned[j] <= Cardinality(old)
      BY <1>3, <2>8 DEF Accounted
  <2>10. abandoned[j] \in Nat /\ abandoned'[j] \in {abandoned[j], abandoned[j] + 1}
      BY <1>1 DEF TypeOK
  <2> HIDE DEF old
  <2>11. abandoned'[j] <= Cardinality(old) + 1
      BY <2>6, <2>9, <2>10
  <2>12. QED
      BY <1>3, <2>7, <2>11 DEF Accounted
<1>4. QED
    BY <1>2, <1>3

\* A step of a task that writes no entry and leaves no process behind.
LEMMA OtherAccounted ==
    ASSUME TypeOK, TypeOK', NEW k \in Jobs, Accounted(k), UNCHANGED <<computed, abandoned>>,
           pc'[k] # "lost" => pc[k] # "lost"
    PROVE  Accounted(k)'
<1>1. abandoned'[k] <= abandoned[k]
    BY DEF TypeOK
<1>2. QED
    BY <1>1, AccountStays

LEMMA AccountedNext ==
    ASSUME IInv, TypeOK', Next, NEW k \in Jobs, Accounted(k)
    PROVE  Accounted(k)'
<1> USE DEF IInv
<1>1. ASSUME NEW j \in Jobs, Submit(j) PROVE Accounted(k)'
  <2>1. pc'[k] # "lost" => pc[k] # "lost"
      BY <1>1 DEF Submit, TypeOK
  <2>2. QED
      BY <1>1, <2>1, OtherAccounted DEF Submit
<1>2. ASSUME NEW j \in Jobs, Start(j) \/ StartFails(j) \/ Spawn(j) \/ LammpsExits(j)
      PROVE  Accounted(k)'
  <2>1. pc'[k] # "lost" => pc[k] # "lost"
      BY <1>2 DEF Start, StartFails, Spawn, LammpsExits, TypeOK
  <2>2. UNCHANGED <<computed, abandoned>>
      BY <1>2 DEF Start, StartFails, Spawn, LammpsExits
  <2>3. QED
      BY <2>1, <2>2, OtherAccounted
<1>3. ASSUME NEW j \in Jobs, SpawnFails(j) \/ LammpsFails(j) \/ LammpsTimesOut(j)
      PROVE  Accounted(k)'
  <2>1. /\ pc[j] \in {"property", "lammps"} /\ Raised(j)
        /\ abandoned' \in {abandoned, [abandoned EXCEPT ![j] = @ + 1]}
      BY <1>3 DEF SpawnFails, LammpsFails, LammpsTimesOut
  <2>2. QED
      BY <2>1, RaisedAccounted
<1>4. ASSUME NEW j \in Jobs, PropertyReturns(j) PROVE Accounted(k)'
  <2>1. pc[j] = "lammps" /\ pc' = [pc EXCEPT ![j] = "report"] /\ UNCHANGED abandoned
      BY <1>4 DEF PropertyReturns
  <2>2. PICK o : computed' = [computed EXCEPT ![j][Current(j)] = o]
      BY <1>4 DEF PropertyReturns
  <2>3. computed[j][Current(j)].kind = "absent"
      BY <2>1, NotYetAnswered
  <2>4. computed \in [Jobs -> [Property -> Outcome]]
      BY DEF TypeOK
  <2>5. \A p \in Property : p # Current(j) => computed'[j][p] = computed[j][p]
      BY <2>2, <2>4
  <2>6. k # j => computed'[k] = computed[k]
      BY <2>2, <2>4
  <2>7. Empties(computed[k]) \subseteq Empties(computed'[k])
      BY <2>3, <2>5, <2>6 DEF Empties
  <2>8. pc'[k] # "lost" => pc[k] # "lost"
      BY <2>1 DEF TypeOK
  <2>9. abandoned'[k] <= abandoned[k]
      BY <2>1 DEF TypeOK
  <2>10. QED
      BY <2>7, <2>8, <2>9, AccountStays
<1>5. ASSUME NEW j \in Jobs, Report(j) \/ Publish(j) \/ WriteBack(j) \/ Fail(j)
      PROVE  Accounted(k)'
  <2>1. pc'[k] # "lost" => pc[k] # "lost"
    <3>1. pc[j] \in Live /\ "lost" \notin Live /\ \A i \in Jobs \ {j} : pc'[i] = pc[i]
        BY <1>5 DEF Report, Publish, WriteBack, Fail, Live, TypeOK
    <3>2. QED
        BY <3>1
  <2>2. UNCHANGED <<computed, abandoned>>
      BY <1>5 DEF Report, Publish, WriteBack, Fail
  <2>3. QED
      BY <2>1, <2>2, OtherAccounted
<1>6. ASSUME NEW j \in Jobs, AbandonedEnds(j) PROVE Accounted(k)'
  <2>1. UNCHANGED <<pc, computed>>
      BY <1>6 DEF AbandonedEnds, taskVars
  <2>2. abandoned'[k] <= abandoned[k]
      BY <1>6 DEF AbandonedEnds, TypeOK
  <2>3. QED
      BY <2>1, <2>2, AccountStays
<1>7. CASE Crash
  <2>1. CASE pc[k] \in Live
      BY <1>7, <2>1 DEF Crash, Accounted
  <2>2. CASE pc[k] \notin Live
    <3>1. /\ pc'[k] = pc[k] /\ computed'[k] = computed[k]
          /\ abandoned'[k] \in {0, abandoned[k]}
        BY <1>7, <2>2 DEF Crash, Live
    <3>2. abandoned'[k] <= abandoned[k]
        BY <3>1 DEF TypeOK
    <3>3. QED
        BY <3>1, <3>2, AccountStays
  <2>3. QED
      BY <2>1, <2>2
<1>8. CASE Restart
  <2>1. UNCHANGED <<pc, computed, abandoned>>
      BY <1>8 DEF Restart, taskVars
  <2>2. QED
      BY <2>1, OtherAccounted
<1>9. QED
    BY <1>1, <1>2, <1>3, <1>4, <1>5, <1>6, <1>7, <1>8 DEF Next, TaskStep

\* A LAMMPS process that outlives its property is accounted for by an entry
\* without a value, for any number of timeouts, and whatever ends when.
THEOREM AbandonedAreAccounted == Spec => []AbandonedExplained
<1>1. Init => AbandonedExplained
  <2> SUFFICES ASSUME Init, NEW j \in Jobs PROVE Accounted(j)
      BY DEF AbandonedExplained, Accounted, Empties
  <2>1. abandoned[j] = 0
      BY DEF Init
  <2>2. Cardinality(Empties(computed[j])) \in Nat
      BY EmptiesCount
  <2>3. QED
      BY <2>1, <2>2 DEF Accounted
<1>2. IInv /\ IInv' /\ AbandonedExplained /\ [Next]_vars => AbandonedExplained'
  <2> SUFFICES ASSUME IInv, TypeOK', \A j \in Jobs : Accounted(j), [Next]_vars, NEW k \in Jobs
               PROVE  Accounted(k)'
      BY DEF AbandonedExplained, Accounted, Empties, IInv
  <2>1. CASE Next
      BY <2>1, AccountedNext
  <2>2. CASE UNCHANGED vars
      BY <2>2 DEF vars, taskVars, Accounted
  <2>3. QED
      BY <2>1, <2>2
<1>3. QED
    BY <1>1, <1>2, Invariance, PTL DEF Spec

-----------------------------------------------------------------------------
(* Refinement of JobLifecycle.                                             *)

\* The refinement mapping.
phaseBar == [j \in Jobs |-> map_status_out(row[j].status)]
shownBar == [j \in Jobs |-> row[j].progress]
reportBar == [j \in Jobs |-> <<row[j].results, row[j].rating>>]

\* A write of one row changes what one job shows.
LEMMA MappedWrite ==
    ASSUME TypeOK, NEW j \in Jobs, NEW r \in Row, row' = [row EXCEPT ![j] = r]
    PROVE  /\ phaseBar' = [phaseBar EXCEPT ![j] = map_status_out(r.status)]
           /\ shownBar' = [shownBar EXCEPT ![j] = r.progress]
           /\ reportBar' = [reportBar EXCEPT ![j] = <<r.results, r.rating>>]
           /\ phaseBar[j] = map_status_out(row[j].status)
           /\ shownBar[j] = row[j].progress
           /\ reportBar[j] = <<row[j].results, row[j].rating>>
<1>1. \A k \in Jobs : row'[k] = IF k = j THEN r ELSE row[k]
    BY DEF TypeOK
<1>2. phaseBar' = [phaseBar EXCEPT ![j] = map_status_out(r.status)]
    <2>1. phaseBar' = [k \in Jobs |-> map_status_out(row'[k].status)]
        BY DEF phaseBar
    <2>2. \A k \in Jobs : phaseBar[k] = map_status_out(row[k].status)
        BY DEF phaseBar
    <2>3. phaseBar' = [k \in Jobs |-> IF k = j THEN map_status_out(r.status) ELSE phaseBar[k]]
        BY <1>1, <2>1, <2>2
    <2>4. QED
        BY <2>3 DEF phaseBar
<1>3. shownBar' = [shownBar EXCEPT ![j] = r.progress]
    <2>1. shownBar' = [k \in Jobs |-> row'[k].progress]
        BY DEF shownBar
    <2>2. \A k \in Jobs : shownBar[k] = row[k].progress
        BY DEF shownBar
    <2>3. shownBar' = [k \in Jobs |-> IF k = j THEN r.progress ELSE shownBar[k]]
        BY <1>1, <2>1, <2>2
    <2>4. QED
        BY <2>3 DEF shownBar
<1>4. reportBar' = [reportBar EXCEPT ![j] = <<r.results, r.rating>>]
    <2>1. reportBar' = [k \in Jobs |-> <<row'[k].results, row'[k].rating>>]
        BY DEF reportBar
    <2>2. \A k \in Jobs : reportBar[k] = <<row[k].results, row[k].rating>>
        BY DEF reportBar
    <2>3. reportBar' = [k \in Jobs |-> IF k = j THEN <<r.results, r.rating>> ELSE reportBar[k]]
        BY <1>1, <2>1, <2>2
    <2>4. QED
        BY <2>3 DEF reportBar
<1>5. QED
    BY <1>2, <1>3, <1>4 DEF phaseBar, shownBar, reportBar

\* A write that is not applied, or no write at all, is a stuttering step.
LEMMA MappedStutter ==
    ASSUME UNCHANGED row
    PROVE  UNCHANGED <<phaseBar, shownBar, reportBar>>
BY DEF phaseBar, shownBar, reportBar

LEMMA MapFacts ==
    /\ map_status_out("absent") = "absent" /\ map_status_out("queued") = "pending"
    /\ map_status_out("running") = "running" /\ map_status_out("completed") = "completed"
    /\ map_status_out("failed") = "failed"
BY DEF map_status_out

\* Whole results are not the empty results of an unpublished row.
LEMMA WholeIsNew ==
    ASSUME NEW t \in Template, NEW res, Answered(res) = PropertiesOf(t)
    PROVE  res # NoResults
<1>1. TEMPLATE_PROPERTIES[t][1] \in PropertiesOf(t)
    <2> DEFINE n == Len(TEMPLATE_PROPERTIES[t])
    <2>1. n \in 2 .. 5
        BY TemplateFacts
    <2> HIDE DEF n
    <2>2. 1 \in 1 .. n
        BY <2>1
    <2>3. QED
        BY <2>2 DEF PropertiesOf, n
<1>2. Answered(NoResults) = {}
    BY DEF Answered, NoResults, Absent
<1>3. QED
    BY <1>1, <1>2

\* The steps of JobLifecycle over the mapping, by name.
BarNext(j) ==
    \/ /\ phaseBar[j] = "absent"
       /\ phaseBar' = [phaseBar EXCEPT ![j] = "pending"]
       /\ UNCHANGED <<shownBar, reportBar>>
    \/ /\ phaseBar[j] \in {"pending", "running"}
       /\ phaseBar' = [phaseBar EXCEPT ![j] = "running"]
       /\ \E n \in shownBar[j] .. 99 : shownBar' = [shownBar EXCEPT ![j] = n]
       /\ UNCHANGED reportBar
    \/ /\ phaseBar[j] \in {"pending", "running"}
       /\ phaseBar' = [phaseBar EXCEPT ![j] = "completed"]
       /\ shownBar' = [shownBar EXCEPT ![j] = 100]
       /\ reportBar'[j] # <<NoResults, "none">>
       /\ reportBar' = [reportBar EXCEPT ![j] = reportBar'[j]]
    \/ /\ phaseBar[j] \in {"pending", "running", "completed"}
       /\ phaseBar' = [phaseBar EXCEPT ![j] = "failed"]
       /\ UNCHANGED <<shownBar, reportBar>>

LEMMA MappedStep ==
    ASSUME IInv, [Next]_vars
    PROVE  (\E j \in Jobs : BarNext(j)) \/ UNCHANGED <<phaseBar, shownBar, reportBar>>
<1>a. TypeOK /\ \A k \in Jobs : Matches(k)
    BY DEF IInv, RowMatchesTask
<1>1. ASSUME NEW j \in Jobs, Submit(j)
      PROVE  BarNext(j) \/ UNCHANGED row
    <2>1. row[j] = NoRow /\ (row' = [row EXCEPT ![j] = NewRow] \/ UNCHANGED row)
        BY <1>1, <1>a DEF Submit, Write, Matches
    <2>2. CASE row' = [row EXCEPT ![j] = NewRow]
        <3>0. /\ phaseBar' = [phaseBar EXCEPT ![j] = map_status_out(NewRow.status)]
              /\ shownBar' = [shownBar EXCEPT ![j] = NewRow.progress]
              /\ reportBar' = [reportBar EXCEPT ![j] = <<NewRow.results, NewRow.rating>>]
              /\ phaseBar[j] = map_status_out(row[j].status)
              /\ shownBar[j] = row[j].progress
              /\ reportBar[j] = <<row[j].results, row[j].rating>>
            BY <1>a, <2>2, MappedWrite, RowFacts
        <3>1. /\ NoRow.status = "absent" /\ NewRow.status = "queued"
              /\ NoRow.progress = 0 /\ NewRow.progress = 0
              /\ NoRow.results = NoResults /\ NewRow.results = NoResults
              /\ NoRow.rating = "none" /\ NewRow.rating = "none"
            BY DEF NoRow, NewRow
        <3>2. /\ phaseBar[j] = "absent" /\ phaseBar' = [phaseBar EXCEPT ![j] = "pending"]
              /\ shownBar' = [shownBar EXCEPT ![j] = shownBar[j]]
              /\ reportBar' = [reportBar EXCEPT ![j] = reportBar[j]]
            BY <2>1, <3>0, <3>1, MapFacts
        <3>3. UNCHANGED <<shownBar, reportBar>>
            BY <3>2 DEF shownBar, reportBar
        <3>4. QED
            BY <3>2, <3>3 DEF BarNext
    <2>3. QED
        BY <2>1, <2>2
<1>2. ASSUME NEW j \in Jobs, Report(j)
      PROVE  BarNext(j) \/ UNCHANGED row
    <2> DEFINE r == Progressed(row[j], Current(j), succeeded[j], reached[j])
    <2>1. row' = [row EXCEPT ![j] = r] \/ UNCHANGED row
        BY <1>2 DEF Report, Write
    <2>2. CASE row' = [row EXCEPT ![j] = r]
        <3>1. row[j] \in Row /\ reached[j] \in 0 .. 75 /\ succeeded[j] \in BOOLEAN
            BY <1>a DEF TypeOK
        <3>2. Current(j) \in Property
            BY <1>2, CurrentFacts DEF Report
        <3>3. /\ r.status = "running" /\ r.progress = reached[j]
              /\ r.results = row[j].results /\ r.rating = row[j].rating
            BY <3>1 DEF Progressed, Row
        <3>4. r \in Row
            BY <3>1, <3>2, RowFacts
        <3>5. Open(j)
            BY <1>2, <1>a DEF Report, Matches
        <3> HIDE DEF r
        <3>0. /\ phaseBar' = [phaseBar EXCEPT ![j] = map_status_out(r.status)]
              /\ shownBar' = [shownBar EXCEPT ![j] = r.progress]
              /\ reportBar' = [reportBar EXCEPT ![j] = <<r.results, r.rating>>]
              /\ phaseBar[j] = map_status_out(row[j].status)
              /\ shownBar[j] = row[j].progress
              /\ reportBar[j] = <<row[j].results, row[j].rating>>
            BY <1>a, <2>2, <3>4, MappedWrite
        <3>6. /\ phaseBar[j] \in {"pending", "running"}
              /\ phaseBar' = [phaseBar EXCEPT ![j] = "running"]
              /\ shownBar' = [shownBar EXCEPT ![j] = reached[j]]
              /\ reportBar' = [reportBar EXCEPT ![j] = reportBar[j]]
              /\ shownBar[j] = row[j].progress
            BY <3>0, <3>3, <3>4, <3>5, MapFacts DEF Open
        <3>7. reached[j] \in shownBar[j] .. 99
            <4>1. row[j].progress \in 0 .. 100
                BY <3>1 DEF Row
            <4>2. row[j].progress <= reached[j]
                BY <3>5 DEF Open
            <4>3. QED
                BY <3>1, <3>6, <4>1, <4>2
        <3>8. UNCHANGED reportBar
            BY <3>6 DEF reportBar
        <3>9. QED
            BY <3>6, <3>7, <3>8 DEF BarNext
    <2>3. QED
        BY <2>1, <2>2
<1>3. ASSUME NEW j \in Jobs, Publish(j)
      PROVE  BarNext(j) \/ UNCHANGED row
    <2> DEFINE r == Completed(row[j], computed[j])
    <2>1. row' = [row EXCEPT ![j] = r] \/ UNCHANGED row
        BY <1>3 DEF Publish, Write
    <2>2. CASE row' = [row EXCEPT ![j] = r]
        <3>1. row[j] \in Row /\ computed[j] \in [Property -> Outcome]
                /\ template[j] \in Template
            BY <1>a, TemplatesAssumption DEF TypeOK
        <3>2. r.status = "completed" /\ r.progress = 100 /\ r.results = computed[j]
            BY <3>1 DEF Completed, Row
        <3>3. r \in Row
            BY <3>1, RowFacts
        <3>4. Open(j) /\ Answered(computed[j]) = PropertiesOf(template[j])
            BY <1>3, <1>a DEF Publish, Matches
        <3>5. r.results # NoResults
            BY <3>1, <3>2, <3>4, WholeIsNew
        <3> HIDE DEF r
        <3>0. /\ phaseBar' = [phaseBar EXCEPT ![j] = map_status_out(r.status)]
              /\ shownBar' = [shownBar EXCEPT ![j] = r.progress]
              /\ reportBar' = [reportBar EXCEPT ![j] = <<r.results, r.rating>>]
              /\ phaseBar[j] = map_status_out(row[j].status)
              /\ shownBar[j] = row[j].progress
              /\ reportBar[j] = <<row[j].results, row[j].rating>>
            BY <1>a, <2>2, <3>3, MappedWrite
        <3>6. /\ phaseBar[j] \in {"pending", "running"}
              /\ phaseBar' = [phaseBar EXCEPT ![j] = "completed"]
              /\ shownBar' = [shownBar EXCEPT ![j] = 100]
              /\ reportBar' = [reportBar EXCEPT ![j] = <<r.results, r.rating>>]
            <4>1. row[j].status \in {"queued", "running"}
                BY <3>4 DEF Open
            <4>2. phaseBar[j] \in {"pending", "running"}
                BY <3>0, <4>1, MapFacts
            <4>3. map_status_out(r.status) = "completed"
                BY <3>2, MapFacts
            <4>4. QED
                BY <3>0, <3>2, <4>2, <4>3
        <3>7. reportBar'[j] = <<r.results, r.rating>>
            <4>1. DOMAIN reportBar = Jobs
                BY DEF reportBar
            <4>2. QED
                BY <3>6, <4>1
        <3>8. reportBar'[j] # <<NoResults, "none">>
            BY <3>5, <3>7
        <3>9. QED
            BY <3>6, <3>7, <3>8 DEF BarNext
    <2>3. QED
        BY <2>1, <2>2
<1>4. ASSUME NEW j \in Jobs, Fail(j)
      PROVE  BarNext(j) \/ UNCHANGED row
    <2> DEFINE r == Failed(row[j])
    <2>1. row' = [row EXCEPT ![j] = r] \/ UNCHANGED row
        BY <1>4 DEF Fail, Write
    <2>2. CASE row' = [row EXCEPT ![j] = r]
        <3>1. row[j] \in Row
            BY <1>a DEF TypeOK
        <3>2. /\ r.status = "failed" /\ r.progress = row[j].progress
              /\ r.results = row[j].results /\ r.rating = row[j].rating
            BY <3>1 DEF Failed, Row
        <3>3. r \in Row
            BY <3>1, RowFacts
        <3>4. Open(j) \/ Closed(j)
            BY <1>4, <1>a DEF Fail, Matches
        <3> HIDE DEF r
        <3>0. /\ phaseBar' = [phaseBar EXCEPT ![j] = map_status_out(r.status)]
              /\ shownBar' = [shownBar EXCEPT ![j] = r.progress]
              /\ reportBar' = [reportBar EXCEPT ![j] = <<r.results, r.rating>>]
              /\ phaseBar[j] = map_status_out(row[j].status)
              /\ shownBar[j] = row[j].progress
              /\ reportBar[j] = <<row[j].results, row[j].rating>>
            BY <1>a, <2>2, <3>3, MappedWrite
        <3>5. /\ phaseBar[j] \in {"pending", "running", "completed"}
              /\ phaseBar' = [phaseBar EXCEPT ![j] = "failed"]
              /\ shownBar' = [shownBar EXCEPT ![j] = shownBar[j]]
              /\ reportBar' = [reportBar EXCEPT ![j] = reportBar[j]]
            BY <3>0, <3>2, <3>3, <3>4, MapFacts DEF Open, Closed
        <3>6. UNCHANGED <<shownBar, reportBar>>
            BY <3>5 DEF shownBar, reportBar
        <3>7. QED
            BY <3>5, <3>6 DEF BarNext
    <2>3. QED
        BY <2>1, <2>2
<1>5. ASSUME NEW j \in Jobs,
             \/ Start(j) \/ StartFails(j) \/ Spawn(j) \/ SpawnFails(j) \/ LammpsExits(j)
             \/ PropertyReturns(j) \/ LammpsFails(j) \/ LammpsTimesOut(j)
             \/ WriteBack(j) \/ AbandonedEnds(j)
      PROVE  UNCHANGED row
    BY <1>5 DEF Start, StartFails, Spawn, SpawnFails, LammpsExits, PropertyReturns,
                LammpsFails, LammpsTimesOut, WriteBack, AbandonedEnds
<1>6. Crash \/ Restart \/ UNCHANGED vars => UNCHANGED row
    BY DEF Crash, Restart, vars
<1>7. (\E j \in Jobs : BarNext(j)) \/ UNCHANGED row
    BY <1>1, <1>2, <1>3, <1>4, <1>5, <1>6 DEF Next, TaskStep
<1>8. QED
    BY <1>7, MappedStutter

\* What a client polls is a job lifecycle: forward only, progress never
\* falls, results appear once and whole, a failed job never changes.
THEOREM RefinesLifecycle == Spec => LifecycleRefined
<1>1. Init => Lifecycle!Init
    BY DEF Init, Lifecycle!Init, map_status_out, NoRow
<1>2. IInv /\ [Next]_vars => [Lifecycle!Next]_(Lifecycle!vars)
    <2> SUFFICES ASSUME IInv, [Next]_vars
                 PROVE  Lifecycle!Next \/ UNCHANGED Lifecycle!vars
        OBVIOUS
    <2>1. CASE UNCHANGED <<phaseBar, shownBar, reportBar>>
        BY <2>1 DEF Lifecycle!vars, phaseBar, shownBar, reportBar
    <2>2. ASSUME NEW j \in Jobs, BarNext(j)
          PROVE  Lifecycle!Next
        BY <2>2, Zenon DEF BarNext, phaseBar, shownBar, reportBar, Lifecycle!Next,
           Lifecycle!Register, Lifecycle!Advance, Lifecycle!Publish, Lifecycle!Abort
    <2>3. QED
        BY <2>1, <2>2, MappedStep
<1>3. QED
    BY <1>1, <1>2, Invariance, PTL DEF Spec, LifecycleRefined, Lifecycle!Spec

=============================================================================
