-------------------------- MODULE SubmissionProofs --------------------------
(***************************************************************************)
(* Submission and the HistoryPages it extends, for any catalogues, known   *)
(* potentials, credentials, answers of the discovery, limit and bounds.    *)
(* First the history alone, whoever submits; then that the clients do no   *)
(* more to it than HistoryPages says; then the clients themselves.         *)
(***************************************************************************)
EXTENDS Submission, SequenceTheorems, WellFoundedInduction, TLAPS

-----------------------------------------------------------------------------
(* The history.                                                            *)

Rows == [id : Nat, sender : Senders, status : {"pending", "running", "completed", "failed"}]

\* Where a walk is: the tasks it has not met of those there were when it began
\* are behind the pages it has been to.
Ahead(t) == \E k \in DOMAIN history : k > walk.next /\ history[k].id = t
WalkType ==
    walk \in [pc : {"idle", "walk", "done"}, next : Nat, seen : SUBSET Nat, start : SUBSET Nat]
IInv ==
    /\ history \in Seq(Rows)
    /\ WalkType
    /\ walk.pc = "walk" => \A t \in walk.start : t \in walk.seen \/ Ahead(t)
    /\ walk.pc = "done" => walk.start \subseteq walk.seen

LEMMA IdsAreNat == ASSUME NEW rows \in Seq(Rows) PROVE Ids(rows) \subseteq Nat
<1>1. \A k \in DOMAIN rows : rows[k] \in Rows
    BY ElementOfSeq, LenProperties
<1>2. QED
    BY <1>1 DEF Ids, Rows

\* What there is in history after a submission: each row one place further.
LEMMA InsertShifts ==
    ASSUME NEW sender \in Senders, history \in Seq(Rows), history' = Inserted(history, sender)
    PROVE  /\ history' \in Seq(Rows)
           /\ \A k \in DOMAIN history : k + 1 \in DOMAIN history' /\ history'[k + 1] = history[k]
           /\ Len(history') = Len(history) + 1
           /\ \A k \in DOMAIN history' :
                  history'[k].sender = sender \/ \E j \in DOMAIN history : history'[k] = history[j]
<1> DEFINE row == [id |-> Len(history) + 1, sender |-> sender, status |-> "pending"]
<1>1. row \in Rows /\ row.sender = sender
    BY LenProperties DEF Rows
<1>2. history' = <<row>> \o history
    BY DEF Inserted
<1> HIDE DEF row
<1>3. <<row>> \in Seq(Rows) /\ Len(<<row>>) = 1 /\ <<row>>[1] = row
    BY <1>1
<1>4. /\ history' \in Seq(Rows) /\ Len(history') = 1 + Len(history)
      /\ \A i \in 1 .. 1 + Len(history) :
             history'[i] = IF i <= 1 THEN <<row>>[i] ELSE history[i - 1]
    BY <1>2, <1>3, ConcatProperties
<1>5. history'[1].sender = sender
    BY <1>1, <1>3, <1>4
<1>6. \A k \in DOMAIN history' : k # 1 => k - 1 \in DOMAIN history /\ history'[k] = history[k - 1]
    BY <1>4, LenProperties
<1>7. QED
    BY <1>4, <1>5, <1>6

\* What there is in history after an update: each row in its place.
LEMMA UpdateStays ==
    ASSUME history \in Seq(Rows), NEW k \in DOMAIN history,
           NEW s \in {"running", "completed", "failed"}, Update(k, s)
    PROVE  /\ history' \in Seq(Rows) /\ DOMAIN history' = DOMAIN history
           /\ \A j \in DOMAIN history :
                  history'[j].id = history[j].id /\ history'[j].sender = history[j].sender
<1>1. \A j \in DOMAIN history : history[j] \in Rows
    BY ElementOfSeq, LenProperties
<1> DEFINE row == [history[k] EXCEPT !.status = s]
<1>2. row \in Rows /\ row.id = history[k].id /\ row.sender = history[k].sender
    BY <1>1 DEF Rows
<1>3. history' = [history EXCEPT ![k] = row]
    BY DEF Update
<1> HIDE DEF row
<1>4. history' \in Seq(Rows)
    BY <1>2, <1>3, ExceptSeq
<1>5. /\ DOMAIN history' = DOMAIN history
      /\ \A j \in DOMAIN history :
             history'[j].id = history[j].id /\ history'[j].sender = history[j].sender
    BY <1>2, <1>3
<1>6. QED
    BY <1>4, <1>5

\* A page holds the tasks at its positions, and no more than there are.
LEMMA PageHolds ==
    ASSUME history \in Seq(Rows), NEW offset \in Nat, NEW limit \in Nat \ {0}
    PROVE  /\ \A k \in DOMAIN history :
                  offset < k /\ k <= offset + limit
                      => history[k].id \in Ids(list_verifications(limit, offset))
           /\ Ids(list_verifications(limit, offset)) \subseteq Nat
           /\ Len(list_verifications(limit, offset)) < limit => Len(history) < offset + limit
<1> DEFINE last == IF offset + limit <= Len(history) THEN offset + limit ELSE Len(history)
           page == SubSeq(history, offset + 1, last)
<1>1. last \in Int /\ Len(history) \in Nat
    BY LenProperties
<1>2. \A i \in offset + 1 .. last : history[i] \in Rows
    BY <1>1, ElementOfSeq
<1>3. /\ page \in Seq(Rows)
      /\ Len(page) = IF offset + 1 <= last THEN last - (offset + 1) + 1 ELSE 0
      /\ \A i \in 1 .. last - (offset + 1) + 1 : page[i] = history[(offset + 1) + i - 1]
    BY <1>1, <1>2, SubSeqProperties
<1>4. ASSUME NEW k \in DOMAIN history, offset < k, k <= offset + limit
      PROVE  history[k].id \in Ids(page)
  <2>1. k \in Nat /\ k <= last
      BY <1>1, <1>4
  <2>2. k - offset \in 1 .. last - (offset + 1) + 1
      BY <2>1, <1>1, <1>4
  <2>3. page[k - offset] = history[k] /\ k - offset \in DOMAIN page
      BY <2>1, <2>2, <1>1, <1>3
  <2>4. QED
      BY <2>3 DEF Ids
<1>5. Len(page) < limit => Len(history) < offset + limit
    BY <1>1, <1>3
<1>6. Ids(page) \subseteq Nat
    BY <1>3, IdsAreNat
<1>7. QED
    BY <1>4, <1>5, <1>6 DEF list_verifications

LEMMA HistoryInitHolds == HistoryInit => IInv
BY DEF HistoryInit, IInv, WalkType, Still

LEMMA HistoryStepHolds == IInv /\ [HistoryNext]_historyVars => IInv'
<1> SUFFICES ASSUME IInv, [HistoryNext]_historyVars PROVE IInv'
    OBVIOUS
<1>1. CASE Submit
  <2>1. PICK sender \in Senders : history' = Inserted(history, sender)
      BY <1>1 DEF Submit
  <2>2. /\ history' \in Seq(Rows)
        /\ \A k \in DOMAIN history : k + 1 \in DOMAIN history' /\ history'[k + 1] = history[k]
      BY <2>1, InsertShifts DEF IInv
  <2>3. walk' = walk
      BY <1>1 DEF Submit
  <2>4. \A t : Ahead(t) => Ahead(t)'
    <3>1. walk.next \in Nat
        BY DEF IInv, WalkType
    <3>2. \A k \in DOMAIN history : k \in Nat
        BY LenProperties DEF IInv
    <3>3. QED
        BY <2>2, <2>3, <3>1, <3>2 DEF Ahead
  <2>5. QED
      BY <2>2, <2>3, <2>4 DEF IInv, WalkType
<1>2. CASE Settle
  <2>1. PICK k \in DOMAIN history, s \in {"running", "completed", "failed"} : Update(k, s)
      BY <1>2 DEF Settle
  <2>2. /\ history' \in Seq(Rows) /\ DOMAIN history' = DOMAIN history
        /\ \A j \in DOMAIN history : history'[j].id = history[j].id
      BY <2>1, UpdateStays DEF IInv
  <2>3. walk' = walk
      BY <1>2 DEF Settle
  <2>4. \A t : Ahead(t) => Ahead(t)'
      BY <2>2, <2>3 DEF Ahead
  <2>5. QED
      BY <2>2, <2>3, <2>4 DEF IInv, WalkType
<1>3. CASE WalkStart
  <2>1. history' = history /\ walk' = [pc |-> "walk", next |-> 0, seen |-> {}, start |-> Ids(history)]
      BY <1>3 DEF WalkStart, Begin, Still
  <2>2. \A t \in Ids(history) : \E k \in DOMAIN history : k > 0 /\ history[k].id = t
      BY LenProperties DEF IInv, Ids
  <2>3. Ids(history) \subseteq Nat
      BY IdsAreNat DEF IInv
  <2>4. QED
      BY <2>1, <2>2, <2>3 DEF IInv, WalkType, Ahead
<1>4. CASE WalkPage
  <2> DEFINE items == list_verifications(Limit, walk.next)
  <2>1. /\ history' = history
        /\ walk' = [walk EXCEPT !.seen = @ \cup Ids(items), !.next = @ + Limit,
                                !.pc = IF Len(items) < Limit THEN "done" ELSE "walk"]
        /\ walk.pc = "walk"
      BY <1>4 DEF WalkPage
  <2>2. /\ walk'.seen = walk.seen \cup Ids(items) /\ walk'.next = walk.next + Limit
        /\ walk'.start = walk.start
        /\ walk'.pc = IF Len(items) < Limit THEN "done" ELSE "walk"
      BY <2>1 DEF IInv, WalkType
  <2>3. Limit \in Nat \ {0}
      BY LimitAssumption
  <2>4. /\ \A k \in DOMAIN history :
               walk.next < k /\ k <= walk.next + Limit => history[k].id \in Ids(items)
        /\ Ids(items) \subseteq Nat
        /\ Len(items) < Limit => Len(history) < walk.next + Limit
      BY <2>3, PageHolds DEF IInv, WalkType
  <2>5. \A t \in walk.start : t \in walk'.seen \/ Ahead(t)'
    <3>1. SUFFICES ASSUME NEW t \in walk.start, t \notin walk.seen PROVE t \in walk'.seen \/ Ahead(t)'
        BY <2>2
    <3>2. PICK k \in DOMAIN history : k > walk.next /\ history[k].id = t
        BY <3>1, <2>1 DEF IInv, Ahead
    <3>3. CASE k <= walk.next + Limit
        BY <3>2, <3>3, <2>2, <2>4
    <3>4. CASE ~(k <= walk.next + Limit)
        BY <3>2, <3>4, <2>1, <2>2, <2>3 DEF Ahead, IInv, WalkType
    <3>5. QED
        BY <3>3, <3>4
  <2>6. ASSUME walk'.pc = "done" PROVE walk'.start \subseteq walk'.seen
    <3>1. Len(history) < walk'.next
        BY <2>6, <2>2, <2>4
    <3>2. \A k \in DOMAIN history' : ~(k > walk'.next)
      <4>1. history \in Seq(Rows) /\ walk.next \in Nat
          BY DEF IInv, WalkType
      <4>2. DOMAIN history = 1 .. Len(history) /\ Len(history) \in Nat
          BY <4>1, LenProperties
      <4>3. QED
          BY <3>1, <2>1, <2>2, <2>3, <4>1, <4>2
    <3>3. \A t : ~Ahead(t)'
        BY <3>2 DEF Ahead
    <3>4. QED
        BY <3>3, <2>2, <2>5
  <2>7. WalkType'
    <3> DEFINE next == walk.next + Limit
               pc == IF Len(items) < Limit THEN "done" ELSE "walk"
               seen == walk.seen \cup Ids(items)
    <3>1. next \in Nat /\ pc \in {"done", "walk"} /\ seen \in SUBSET Nat
        BY <2>3, <2>4 DEF IInv, WalkType
    <3>2. walk' = [walk EXCEPT !.seen = seen, !.next = next, !.pc = pc]
        BY <2>1
    <3> HIDE DEF next, pc, seen
    <3>3. QED
        BY <3>1, <3>2 DEF IInv, WalkType
  <2>8. QED
      BY <2>1, <2>2, <2>5, <2>6, <2>7 DEF IInv
<1>5. CASE WalkAgain
    BY <1>5 DEF WalkAgain, Still, IInv, WalkType, Ahead
<1>6. CASE UNCHANGED historyVars
    BY <1>6 DEF historyVars, IInv, WalkType, Ahead
<1>7. QED
    BY <1>1, <1>2, <1>3, <1>4, <1>5, <1>6 DEF HistoryNext

\* A walk through the history misses no task there was when it began.
THEOREM HistoryIsWhole == HistorySpec => []HistoryWhole
<1>1. IInv => HistoryWhole
    BY DEF IInv, HistoryWhole
<1>2. QED
    BY <1>1, HistoryInitHolds, HistoryStepHolds, PTL DEF HistorySpec

-----------------------------------------------------------------------------
(* What the clients do to the history.                                     *)

\* Without a token no request is served.
LEMMA NobodyIsRefused == ASSUME NEW potential PROVE Verify(Nobody, potential) = 401
<1>1. ~require_auth(Nobody)
    BY DEF require_auth, Nobody
<1>2. QED
    BY <1>1 DEF Verify

\* A request inserts a row of its sender, or nothing.
LEMMA HandleInserts ==
    ASSUME NEW sent, NEW potential, NEW sender, Handle(sent, potential, sender)
    PROVE  \/ history' = history
           \/ /\ Verify(sent, potential) = 200 /\ Len(history) < MaxRows
              /\ history' = Inserted(history, sender)
<1> DEFINE record == [id |-> "uuid4", potential_id |-> potential, triggered_by |-> sender]
<1>1. "id" \in DOMAIN record /\ record.triggered_by = sender
    OBVIOUS
<1>2. create_verification(history, record) = Inserted(history, sender)
    BY <1>1 DEF create_verification
<1>3. QED
    BY <1>2 DEF Handle

LEMMA RefusedInsertsNothing ==
    ASSUME NEW potential, NEW sender, Handle(Nobody, potential, sender) PROVE history' = history
<1>1. Verify(Nobody, potential) # 200
    BY NobodyIsRefused
<1>2. QED
    BY <1>1, HandleInserts

\* The scheduler's records lack an id: the INSERT fails for each of the batch,
\* and the rows after each are those before the first.
LEMMA BatchInsertsNothing ==
    ASSUME NEW schedule, NEW potentials PROVE submit_batch(schedule, potentials) = history
<1> DEFINE batch == Candidates(schedule, potentials)
           after(rows) == [n \in 0 .. Len(batch) |->
                              IF n = 0 THEN history ELSE create_verification(rows[n - 1], BatchRecord(batch[n]))]
           same == [n \in 0 .. Len(batch) |-> history]
           rows == CHOOSE r : r = after(r)
<1>1. \A r, p : create_verification(r, BatchRecord(p)) = r
  <2>1. \A p : "id" \notin DOMAIN BatchRecord(p)
      BY DEF BatchRecord
  <2>2. QED
      BY <2>1 DEF create_verification
<1>2. submit_batch(schedule, potentials) = IF schedule.dry_run THEN history ELSE rows[Len(batch)]
    BY DEF submit_batch
<1>3. Len(batch) \in Nat
    BY SMT
<1> HIDE DEF batch
<1>4. after(same) = same
    BY <1>1, <1>3
<1>5. rows = after(rows)
    BY <1>4
<1> HIDE DEF rows
<1>6. /\ rows[0] = history
      /\ \A n \in 1 .. Len(batch) : rows[n] = rows[n - 1]
  <2>1. \A n \in 0 .. Len(batch) :
            rows[n] = IF n = 0 THEN history ELSE create_verification(rows[n - 1], BatchRecord(batch[n]))
      BY <1>5
  <2>2. rows[0] = history
      BY <2>1, <1>3
  <2>3. ASSUME NEW n \in 1 .. Len(batch) PROVE rows[n] = rows[n - 1]
    <3>1. n # 0 /\ n \in 0 .. Len(batch)
        BY <1>3, <2>3
    <3>2. QED
        BY <3>1, <2>1, <1>1
  <2>4. QED
      BY <2>2, <2>3
<1>7. \A n \in 0 .. Len(batch) : rows[n] = history
  <2> DEFINE wrong == {n \in 0 .. Len(batch) : rows[n] # history}
             Less == {ss \in Nat \X Nat : ss[1] < ss[2]}
  <2>1. SUFFICES ASSUME wrong # {} PROVE FALSE
      OBVIOUS
  <2>2. IsWellFoundedOn(Less, Nat)
      BY NatLessThanWellFounded, SMT DEF OpToRel
  <2>3. wrong \subseteq Nat
      BY <1>3
  <2>4. PICK n \in wrong : \A m \in wrong : <<m, n>> \notin Less
      BY <2>1, <2>2, <2>3, WFMin
  <2>5. n # 0
      BY <1>6
  <2>6. n - 1 \in 0 .. Len(batch) /\ n \in 1 .. Len(batch)
      BY <2>5, <1>3
  <2>7. n - 1 \in wrong
      BY <2>6, <1>6
  <2>8. n \in Nat /\ n - 1 \in Nat /\ n - 1 < n
      BY <2>3, <2>6
  <2>9. <<n - 1, n>> \in Less
      BY <2>8
  <2>10. QED
      BY <2>4, <2>7, <2>9
<1>8. QED
    BY <1>2, <1>3, <1>7

\* Every step of a client is a submission of an operator, or leaves the table
\* and the walk alone.
LEMMA ClientStep ==
    ASSUME [Next]_vars
    PROVE  \/ History
           \/ /\ UNCHANGED <<walk, walks>>
              /\ \/ history' = history
                 \/ Len(history) < MaxRows /\ history' = Inserted(history, "manual")
<1>1. CASE Operator
  <2>1. PICK sent, potential : Handle(sent, potential, "manual")
      BY <1>1 DEF Operator
  <2>2. QED
      BY <1>1, <2>1, HandleInserts DEF Operator
<1>2. CASE BulkPost
    BY <1>2, RefusedInsertsNothing DEF BulkPost
<1>3. CASE BulkLost
    BY <1>3, RefusedInsertsNothing DEF BulkLost
<1>4. CASE RunCycle
    BY <1>4, BatchInsertsNothing DEF RunCycle
<1>5. CASE BulkStart \/ BulkEnd \/ BulkDry \/ BulkAgain \/ UNCHANGED vars
    BY <1>5 DEF BulkStart, BulkEnd, BulkDry, BulkAgain, historyVars, vars
<1>6. QED
    BY <1>1, <1>2, <1>3, <1>4, <1>5 DEF Next

\* Operators, script, scheduler and readers make a history as HistoryPages
\* describes it.
THEOREM ClientsMakeHistory == Spec => HistorySpec
<1>1. Init => HistoryInit
    BY DEF Init
<1>2. [Next]_vars => [HistoryNext]_historyVars
  <2>1. SUFFICES ASSUME [Next]_vars PROVE HistoryNext \/ UNCHANGED historyVars
      OBVIOUS
  <2>2. "manual" \in Senders
      BY SendersAssumption
  <2>3. QED
      BY <2>1, <2>2, ClientStep DEF History, HistoryNext, Submit, historyVars
<1>3. QED
    BY <1>1, <1>2, PTL DEF Spec, HistorySpec

\* So the walk misses no task there was when it began, whoever submits.
THEOREM ClientsHistoryIsWhole == Spec => []HistoryWhole
BY ClientsMakeHistory, HistoryIsWhole, PTL

-----------------------------------------------------------------------------
(* The clients' own state.                                                 *)

Structures == {"bcc", "fcc", "hcp", "diamond", None}
Eligible == {SelectSeq(potentials, should_verify) : potentials \in Catalogues} \cup {<<>>}
BulkType ==
    bulk \in [pc : {"idle", "loop", "done"}, dry_run : BOOLEAN, max_jobs : Nat, eligible : Eligible,
             next : Nat, submitted : Nat, errors : Nat, structure : Structures]

\* A pass that is no dry run submits nothing, so that no limit of jobs ends it.
Counted ==
    /\ bulk.next \in 1 .. Len(bulk.eligible) + 1
    /\ bulk.submitted + bulk.errors = bulk.next - 1
    /\ ~bulk.dry_run => bulk.submitted = 0
    /\ bulk.pc = "done" => bulk.next > Len(bulk.eligible) \/ Reached

CInv ==
    /\ lost \in 0 .. MaxLost
    /\ history \in Seq(Rows) /\ Len(history) <= MaxRows /\ OnlyOperatorsQueue
    /\ BulkType /\ Counted

LEMMA EligibleHaveLength == ASSUME NEW e \in Eligible PROVE Len(e) \in Nat
BY SMT

\* Of the alloys inside a name there is a first.
LEMMA FirstAlloy ==
    ASSUME NEW inside \in SUBSET Nat, inside # {}
    PROVE  \E k \in inside : \A j \in inside : k <= j
<1> DEFINE Less == {ss \in Nat \X Nat : ss[1] < ss[2]}
<1>1. IsWellFoundedOn(Less, Nat)
    BY NatLessThanWellFounded, SMT DEF OpToRel
<1>2. PICK k \in inside : \A j \in inside : <<j, k>> \notin Less
    BY <1>1, WFMin
<1>3. ASSUME NEW j \in inside PROVE k <= j
  <2>1. <<j, k>> \notin Less /\ j \in Nat /\ k \in Nat
      BY <1>2
  <2>2. ~(j < k)
      BY <2>1
  <2>3. QED
      BY <2>1, <2>2
<1>4. QED
    BY <1>3

LEMMA StructureKnown == ASSUME NEW p PROVE get_structure(p) \in Structures
<1> DEFINE inside == {k \in DOMAIN ALLOY_STRUCTURES :
                          Mapping!Contains(p.system_name, ALLOY_STRUCTURES[k][1])}
           first == CHOOSE k \in inside : \A j \in inside : k <= j
<1>1. DOMAIN ALLOY_STRUCTURES \subseteq Nat
    BY DEF ALLOY_STRUCTURES
<1>2. \A k \in DOMAIN ALLOY_STRUCTURES : ALLOY_STRUCTURES[k][2] \in Structures
    BY DEF ALLOY_STRUCTURES, Structures
<1>3. \A e \in DOMAIN DEFAULT_STRUCTURES : DEFAULT_STRUCTURES[e] \in Structures
    BY DEF DEFAULT_STRUCTURES, Structures
<1>4. inside \in SUBSET Nat /\ inside \subseteq DOMAIN ALLOY_STRUCTURES
    BY <1>1
<1>5. get_structure(p) =
          CASE inside # {} -> ALLOY_STRUCTURES[first][2]
            [] inside = {} /\ Len(p.elements) = 1 ->
                   IF p.elements[1] \in DOMAIN DEFAULT_STRUCTURES THEN DEFAULT_STRUCTURES[p.elements[1]]
                                                                  ELSE None
            [] OTHER -> IF Len(p.elements) > 1 THEN "bcc" ELSE None
    BY DEF get_structure
<1> HIDE DEF inside
<1>6. inside # {} => first \in inside
    BY <1>4, FirstAlloy
<1> HIDE DEF first
<1>7. CASE inside # {}
    BY <1>2, <1>4, <1>5, <1>6, <1>7
<1>8. CASE inside = {}
    BY <1>3, <1>5, <1>8 DEF Structures
<1>9. QED
    BY <1>7, <1>8

\* One turn of the script: of a dry run, or of one that gets no success.
LEMMA TurnCounts ==
    ASSUME BulkType, Counted, Turn, NEW ok \in BOOLEAN, ok => bulk.dry_run, bulk' = Counts(ok)
    PROVE  BulkType' /\ Counted'
<1> DEFINE submitted == IF ok THEN bulk.submitted + 1 ELSE bulk.submitted
           errors == IF ok THEN bulk.errors ELSE bulk.errors + 1
           structure == get_structure(Potential)
           next == bulk.next + 1
<1>1. /\ bulk' = [bulk EXCEPT !.next = next, !.structure = structure,
                              !.submitted = submitted, !.errors = errors]
      /\ bulk.next \in Nat
    BY DEF Counts, BulkType
<1>2. submitted \in Nat /\ errors \in Nat /\ next \in Nat
    BY DEF BulkType
<1>3. structure \in Structures
    BY StructureKnown
<1>4. next = bulk.next + 1 /\ submitted + errors = bulk.submitted + bulk.errors + 1 /\ (~bulk.dry_run => submitted = bulk.submitted)
    BY DEF BulkType
<1> HIDE DEF submitted, errors, structure, next
<1>5. BulkType'
    BY <1>1, <1>2, <1>3 DEF BulkType
<1>6. /\ bulk'.next = next /\ bulk'.submitted = submitted /\ bulk'.errors = errors
      /\ bulk'.eligible = bulk.eligible /\ bulk'.dry_run = bulk.dry_run /\ bulk'.pc = bulk.pc
    BY <1>1 DEF BulkType
<1>7. Len(bulk.eligible) \in Nat /\ bulk.next <= Len(bulk.eligible) /\ bulk.pc = "loop"
    BY EligibleHaveLength DEF BulkType, Turn
<1>8. Counted'
  <2>1. bulk.submitted + bulk.errors = bulk.next - 1 /\ (~bulk.dry_run => bulk.submitted = 0)
      BY DEF Counted
  <2>2. bulk'.next \in 1 .. Len(bulk'.eligible) + 1
      BY <1>1, <1>4, <1>6, <1>7 DEF Counted
  <2>3. bulk'.submitted + bulk'.errors = bulk'.next - 1
      BY <1>1, <1>2, <1>4, <1>6, <2>1
  <2>4. (~bulk'.dry_run => bulk'.submitted = 0) /\ bulk'.pc # "done"
      BY <1>4, <1>6, <1>7, <2>1
  <2>5. QED
      BY <2>2, <2>3, <2>4 DEF Counted
<1>9. QED
    BY <1>5, <1>8

LEMMA ClientsInit == Init => CInv
<1> SUFFICES ASSUME Init PROVE CInv
    OBVIOUS
<1>1. history = <<>> /\ lost = 0 /\ bulk = Idle
    BY DEF Init, HistoryInit
<1>2. MaxLost \in Nat /\ MaxRows \in Nat
    BY LimitsAssumption, BoundAssumption
<1>3. OnlyOperatorsQueue
    BY <1>1 DEF OnlyOperatorsQueue
<1>4. BulkType /\ Counted
    BY <1>1 DEF Idle, BulkType, Counted, Structures, Eligible
<1>5. QED
    BY <1>1, <1>2, <1>3, <1>4 DEF CInv

\* The rows stay the operators', whoever takes the step.
LEMMA RowsStayOperators ==
    ASSUME CInv, [Next]_vars
    PROVE  history' \in Seq(Rows) /\ Len(history') <= MaxRows /\ OnlyOperatorsQueue'
<1>0. /\ history \in Seq(Rows) /\ Len(history) <= MaxRows /\ Len(history) \in Nat
      /\ \A k \in DOMAIN history : history[k].sender = "manual"
    BY LenProperties DEF CInv, OnlyOperatorsQueue
<1>1. CASE history' = history
    BY <1>0, <1>1 DEF OnlyOperatorsQueue
<1>2. CASE Len(history) < MaxRows /\ history' = Inserted(history, "manual")
  <2>1. "manual" \in Senders
      BY SendersAssumption
  <2>2. /\ history' \in Seq(Rows) /\ Len(history') = Len(history) + 1
        /\ \A k \in DOMAIN history' :
               history'[k].sender = "manual" \/ \E j \in DOMAIN history : history'[k] = history[j]
      BY <1>0, <1>2, <2>1, InsertShifts
  <2>3. Len(history') <= MaxRows
      BY <1>0, <1>2, <2>2, BoundAssumption
  <2>4. OnlyOperatorsQueue'
      BY <1>0, <2>2 DEF OnlyOperatorsQueue
  <2>5. QED
      BY <2>2, <2>3, <2>4
<1>3. CASE Settle
  <2>1. PICK k \in DOMAIN history, s \in {"running", "completed", "failed"} : Update(k, s)
      BY <1>3 DEF Settle
  <2>2. /\ history' \in Seq(Rows) /\ DOMAIN history' = DOMAIN history
        /\ \A j \in DOMAIN history : history'[j].sender = history[j].sender
      BY <1>0, <2>1, UpdateStays
  <2>3. Len(history') = Len(history)
      BY <1>0, <2>2, LenProperties
  <2>4. OnlyOperatorsQueue'
      BY <1>0, <2>2 DEF OnlyOperatorsQueue
  <2>5. QED
      BY <1>0, <2>2, <2>3, <2>4
<1>4. CASE WalkStart \/ WalkPage \/ WalkAgain
    BY <1>4, <1>1 DEF WalkStart, WalkPage, WalkAgain
<1>5. QED
    BY <1>1, <1>2, <1>3, <1>4, ClientStep DEF History

LEMMA ClientsStep == CInv /\ [Next]_vars => CInv'
<1> SUFFICES ASSUME CInv, [Next]_vars PROVE CInv'
    OBVIOUS
<1>1. history' \in Seq(Rows) /\ Len(history') <= MaxRows /\ OnlyOperatorsQueue'
    BY RowsStayOperators
<1>2. lost' \in 0 .. MaxLost
  <2>1. CASE BulkLost
      BY <2>1, LimitsAssumption DEF BulkLost, CInv
  <2>2. CASE ~BulkLost
      BY <2>2 DEF Next, Operator, BulkStart, BulkEnd, BulkDry, BulkPost, BulkAgain, RunCycle, vars, CInv
  <2>3. QED
      BY <2>1, <2>2
<1>3. BulkType' /\ Counted'
  <2>1. BulkType /\ Counted
      BY DEF CInv
  <2>2. CASE BulkStart
    <3>1. PICK dry \in BOOLEAN, jobs \in MaxJobs, potentials \in Catalogues :
              bulk' = [Idle EXCEPT !.pc = "loop", !.dry_run = dry, !.max_jobs = jobs,
                                   !.eligible = SelectSeq(potentials, should_verify)]
        BY <2>2 DEF BulkStart
    <3> DEFINE eligible == SelectSeq(potentials, should_verify)
    <3>2. eligible \in Eligible /\ Len(eligible) \in Nat /\ jobs \in Nat
        BY EligibleHaveLength, LimitsAssumption DEF Eligible
    <3>3. bulk' = [pc |-> "loop", dry_run |-> dry, max_jobs |-> jobs, eligible |-> eligible, next |-> 1,
                   submitted |-> 0, errors |-> 0, structure |-> None]
        BY <3>1 DEF Idle
    <3> HIDE DEF eligible
    <3>4. BulkType'
        BY <3>2, <3>3 DEF BulkType, Structures
    <3>5. Counted'
        BY <3>2, <3>3 DEF Counted
    <3>6. QED
        BY <3>4, <3>5
  <2>3. CASE BulkEnd
    <3>1. /\ bulk' = [bulk EXCEPT !.pc = "done"]
          /\ bulk.next > Len(bulk.eligible) \/ Reached
        BY <2>3 DEF BulkEnd
    <3>2. BulkType'
        BY <2>1, <3>1 DEF BulkType
    <3>3. Counted'
        BY <2>1, <3>1 DEF Counted, Reached, BulkType
    <3>4. QED
        BY <3>2, <3>3
  <2>4. CASE BulkDry
    BY <2>1, <2>4, TurnCounts DEF BulkDry
  <2>5. CASE BulkPost
    <3>1. Verify(Nobody, Potential.id) # 200
        BY NobodyIsRefused
    <3>2. Turn /\ bulk' = Counts(FALSE)
        BY <2>5, <3>1 DEF BulkPost
    <3>3. QED
        BY <2>1, <3>2, TurnCounts
  <2>6. CASE BulkLost
    BY <2>1, <2>6, TurnCounts DEF BulkLost
  <2>7. CASE BulkAgain
    BY <2>7 DEF BulkAgain, Idle, BulkType, Counted, Structures, Eligible
  <2>8. CASE UNCHANGED bulk
    BY <2>1, <2>8 DEF BulkType, Counted, Reached
  <2>9. QED
    BY <2>2, <2>3, <2>4, <2>5, <2>6, <2>7, <2>8 DEF Next, Operator, RunCycle, vars
<1>4. QED
    BY <1>1, <1>2, <1>3 DEF CInv

LEMMA ClientsInvariance == Spec => []CInv
BY ClientsInit, ClientsStep, PTL DEF Spec

\* Types.
THEOREM ClientsTypes == Spec => []TypeOK
<1>1. CInv => TypeOK
    BY DEF CInv, TypeOK, BulkType, Counted, Structures
<1>2. QED
    BY <1>1, ClientsInvariance, PTL

\* Every row is an operator's.
THEOREM OnlyOperators == Spec => []OnlyOperatorsQueue
<1>1. CInv => OnlyOperatorsQueue
    BY DEF CInv
<1>2. QED
    BY <1>1, ClientsInvariance, PTL

\* The script's counts tell what became of each potential it has come to.
THEOREM ScriptAccounts == Spec => []BulkAccounts
<1>1. ASSUME CInv PROVE BulkAccounts
  <2>1. Len(bulk.eligible) \in Nat
      BY <1>1, EligibleHaveLength DEF CInv, BulkType
  <2>2. Reached => bulk.submitted > 0
      BY <1>1 DEF Reached, CInv, BulkType
  <2>3. QED
      BY <1>1, <2>1, <2>2 DEF CInv, BulkType, Counted, BulkAccounts
<1>2. QED
    BY <1>1, ClientsInvariance, PTL

=============================================================================
