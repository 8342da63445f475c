----------------------- MODULE ReferenceReviewProofs -----------------------
(***************************************************************************)
(* ReferenceReview, for any rows, requests, operations and bound.          *)
(***************************************************************************)
EXTENDS ReferenceReview, SequenceTheorems, TLAPS

Version == Row \cup {NoRow}
Drafts == UNION {[D -> Version] : D \in SUBSET Refs}
AuditEntry == [by : Requests, id : Refs, action : {"approve", "reject", "delete", "patch", "flag", "other"},
               old_data : Row, new_data : Row]
\* Where nothing of a request is committed or rolled back.
Open == {"idle", "load", "update", "commit", "missing"}
IdsIn(entries) == {entries[k].id : k \in DOMAIN entries}

Typed ==
    /\ rows \in [Refs -> Version]
    /\ untracked \subseteq Refs
    /\ op \in [Requests -> Ops]
    /\ pc \in [Requests -> {"idle"} \cup Working \cup Ended]
    /\ item \in [Requests -> Nat]
    /\ copy \in [Requests -> Version]
    /\ draft \in [Requests -> Drafts]
    /\ pending \in [Requests -> Seq(AuditEntry)]
    /\ results \in [Requests -> SUBSET Refs]
    /\ audit \in Seq(AuditEntry)
    /\ dbFaults \in 0 .. MaxDbFaults

\* What a request has in its session and what of it the table shows.  The
\* entries in the session are those of the ids it has written, until the
\* commit moves them as a whole into the trail.
Tells(q) ==
    /\ pc[q] \in {"load", "update"} => item[q] \in DOMAIN op[q].ids
    /\ pc[q] = "update" => copy[q] \in Row
    /\ \A k \in DOMAIN pending[q] : pending[q][k].by = q
    /\ IdsIn(pending[q]) = IF pc[q] \in Open /\ Audited(q) THEN results[q] ELSE {}
    /\ EntriesOf(q) = IF pc[q] \in Committed /\ Audited(q) THEN results[q] ELSE {}
    /\ pc[q] \in {"idle", "refresh"} \cup Ended => draft[q] = <<>>
    /\ pc[q] \in {"load", "update"} /\ ~op[q].batch => draft[q] = <<>>
    /\ pc[q] = "idle" => item[q] = 1 /\ results[q] = {}

IInv == Typed /\ \A q \in Requests : Tells(q)

-----------------------------------------------------------------------------
(* Rows, drafts and entries.                                               *)

LEMMA OperationFacts ==
    ASSUME NEW o \in Ops
    PROVE  /\ o \in Operation /\ o.ids \in Seq(Refs) /\ Len(o.ids) \in Nat \ {0}
           /\ \A k \in DOMAIN o.ids : o.ids[k] \in Refs
           /\ o.batch \/ Len(o.ids) = 1
BY OpsAssumption DEF Operation

LEMMA ChangedIsRow == ASSUME NEW o \in Ops, NEW r \in Row PROVE Changed(o, r) \in Row
BY OperationFacts DEF Changed, Row, Operation

LEMMA CreatedIsRow == ASSUME NEW o \in Ops PROVE Created(o) \in Row
BY OperationFacts DEF Created, Row, Operation

LEMMA UpdatedIsRow ==
    ASSUME NEW r \in Row, NEW old \in Row, NEW new \in Row
    PROVE  UpdatedColumns(r, old, new) \in Row
<1>1. DOMAIN r = {"status", "needs_review", "value"}
    BY DEF Row
<1>2. DEFINE u == UpdatedColumns(r, old, new)
<1>3. /\ u = [status |-> u.status, needs_review |-> u.needs_review, value |-> u.value]
      /\ u.status \in {r.status, new.status} /\ u.needs_review \in {r.needs_review, new.needs_review}
      /\ u.value \in {r.value, new.value}
    BY <1>1 DEF UpdatedColumns
<1>4. QED
    BY <1>3 DEF Row

LEMMA RowsDiffer == NoRow \notin Row
BY DEF NoRow, Row

LEMMA NoDraft == <<>> \in Drafts /\ DOMAIN <<>> = {}
<1>1. DOMAIN <<>> = {} /\ <<>> \in [{} -> Version]
    OBVIOUS
<1>2. QED
    BY <1>1 DEF Drafts

LEMMA Held ==
    ASSUME NEW d \in Drafts, NEW r \in Refs, NEW v \in Version
    PROVE  [x \in {r} \cup DOMAIN d |-> IF x = r THEN v ELSE d[x]] \in Drafts
<1>1. PICK D \in SUBSET Refs : d \in [D -> Version]
    BY DEF Drafts
<1>2. [x \in {r} \cup DOMAIN d |-> IF x = r THEN v ELSE d[x]] \in [{r} \cup D -> Version]
    BY <1>1
<1>3. {r} \cup D \in SUBSET Refs
    OBVIOUS
<1>4. QED
    BY <1>2, <1>3 DEF Drafts

LEMMA IdsAppended ==
    ASSUME NEW s \in Seq(AuditEntry), NEW e \in AuditEntry
    PROVE  IdsIn(Append(s, e)) = IdsIn(s) \cup {e.id}
<1>1. /\ Len(Append(s, e)) = Len(s) + 1 /\ Append(s, e)[Len(s) + 1] = e
      /\ \A k \in 1 .. Len(s) : Append(s, e)[k] = s[k]
      /\ DOMAIN s = 1 .. Len(s) /\ DOMAIN Append(s, e) = 1 .. Len(s) + 1 /\ Len(s) \in Nat
    BY AppendProperties
<1>2. QED
    BY <1>1 DEF IdsIn

\* A commit adds the entries of the session to the trail.
LEMMA EntriesCommitted ==
    ASSUME NEW q \in Requests, audit \in Seq(AuditEntry), NEW s \in Seq(AuditEntry),
           audit' = audit \o s, \A k \in DOMAIN s : s[k].by = q
    PROVE  /\ EntriesOf(q)' = EntriesOf(q) \cup IdsIn(s)
           /\ \A p \in Requests \ {q} : EntriesOf(p)' = EntriesOf(p)
<1> DEFINE n == Len(audit)
           m == Len(s)
<1>1. /\ n \in Nat /\ m \in Nat /\ DOMAIN audit = 1 .. n /\ DOMAIN s = 1 .. m
      /\ DOMAIN audit' = 1 .. n + m
      /\ \A k \in 1 .. n : audit'[k] = audit[k]
      /\ \A k \in 1 .. m : audit'[n + k] = s[k]
    BY ConcatProperties
<1> HIDE DEF n, m
<1>2. \A k \in 1 .. n + m : k \in 1 .. n \/ \E i \in 1 .. m : k = n + i
  <2>1. TAKE k \in 1 .. n + m
  <2>2. k \in 1 .. n \/ (k - n \in 1 .. m /\ k = n + (k - n))
      BY <1>1
  <2>3. QED
      BY <2>2
<1>3. \A i \in 1 .. m : n + i \in 1 .. n + m
    BY <1>1
<1>4. \A k \in 1 .. n : k \in 1 .. n + m
    BY <1>1
<1>5. ASSUME NEW p \in Requests
      PROVE  EntriesOf(p)' = EntriesOf(p) \cup IF p = q THEN IdsIn(s) ELSE {}
  <2>1. \A x : x \in EntriesOf(p)' <=> \E k \in 1 .. n + m : audit'[k].by = p /\ x = audit'[k].id
      BY <1>1 DEF EntriesOf
  <2>2. \A x : x \in EntriesOf(p) <=> \E k \in 1 .. n : audit[k].by = p /\ x = audit[k].id
      BY <1>1 DEF EntriesOf
  <2>3. \A x : x \in IdsIn(s) <=> \E k \in 1 .. m : x = s[k].id
      BY <1>1 DEF IdsIn
  <2>4. ASSUME NEW x, x \in EntriesOf(p)' PROVE x \in EntriesOf(p) \/ (p = q /\ x \in IdsIn(s))
    <3>1. PICK k \in 1 .. n + m : audit'[k].by = p /\ x = audit'[k].id
        BY <2>4, <2>1
    <3>2. CASE k \in 1 .. n
        BY <3>1, <3>2, <2>2, <1>1
    <3>3. CASE \E i \in 1 .. m : k = n + i
      <4>1. PICK i \in 1 .. m : k = n + i
          BY <3>3
      <4>2. audit'[k] = s[i] /\ s[i].by = q
          BY <4>1, <1>1
      <4>3. QED
          BY <4>2, <3>1, <2>3
    <3>4. QED
        BY <3>2, <3>3, <1>2
  <2>5. ASSUME NEW x, x \in EntriesOf(p) PROVE x \in EntriesOf(p)'
    <3>1. PICK k \in 1 .. n : audit[k].by = p /\ x = audit[k].id
        BY <2>5, <2>2
    <3>2. QED
        BY <3>1, <2>1, <1>1, <1>4
  <2>6. ASSUME NEW x, p = q, x \in IdsIn(s) PROVE x \in EntriesOf(p)'
    <3>1. PICK i \in 1 .. m : x = s[i].id
        BY <2>6, <2>3
    <3>2. n + i \in 1 .. n + m /\ audit'[n + i] = s[i] /\ s[i].by = q
        BY <1>1, <1>3
    <3>3. QED
        BY <3>1, <3>2, <2>1, <2>6
  <2>7. QED
      BY <2>4, <2>5, <2>6
<1>6. QED
    BY <1>5

-----------------------------------------------------------------------------
(* The invariant.                                                          *)

LEMMA InitHolds == Init => IInv
<1> SUFFICES ASSUME Init PROVE IInv
    OBVIOUS
<1>1. <<>> \in Seq(AuditEntry) /\ DOMAIN <<>> = {} /\ NoRow \in Version
    BY DEF Version
<1>2. Typed
    BY <1>1, NoDraft, FirstAssumption, FaultsAssumption DEF Init, Typed, Version
<1>3. ASSUME NEW q \in Requests PROVE Tells(q)
    BY <1>1 DEF Init, Tells, IdsIn, EntriesOf, Working, Ended, Committed, Open
<1>4. QED
    BY <1>2, <1>3 DEF IInv

\* A request none of whose own state changes is told as before.
LEMMA OthersTell ==
    ASSUME NEW p \in Requests, Tells(p), EntriesOf(p)' = EntriesOf(p),
           op'[p] = op[p], pc'[p] = pc[p], item'[p] = item[p], copy'[p] = copy[p], draft'[p] = draft[p],
           pending'[p] = pending[p], results'[p] = results[p]
    PROVE  Tells(p)'
BY DEF Tells, Audited, IdsIn

\* A request in the open whose session is unchanged shows as little as before.
LEMMA OpenTells ==
    ASSUME NEW p \in Requests, Tells(p), EntriesOf(p)' = EntriesOf(p), pc[p] \in Open, pc'[p] \in Open,
           op'[p] = op[p], pending'[p] = pending[p], results'[p] = results[p]
    PROVE  /\ \A k \in DOMAIN pending'[p] : pending'[p][k].by = p
           /\ IdsIn(pending[p])' = IF pc'[p] \in Open /\ Audited(p)' THEN results'[p] ELSE {}
           /\ EntriesOf(p)' = IF pc'[p] \in Committed /\ Audited(p)' THEN results'[p] ELSE {}
<1>1. Audited(p)' <=> Audited(p)
    BY DEF Audited
<1>2. pc[p] \notin Committed /\ pc'[p] \notin Committed
    BY DEF Open, Committed
<1>3. IdsIn(pending[p])' = IdsIn(pending[p])
    BY DEF IdsIn
<1>4. QED
    BY <1>1, <1>2, <1>3 DEF Tells

\* With a row to work on, its id is one of the table's.
LEMMA TargetFacts ==
    ASSUME IInv, NEW q \in Requests, pc[q] \in {"idle", "load", "update"}
    PROVE  /\ op[q] \in Ops /\ item[q] \in 1 .. Len(op[q].ids) /\ Target(q) \in Refs
           /\ Len(op[q].ids) \in Nat \ {0} /\ (op[q].batch \/ Len(op[q].ids) = 1)
           /\ DOMAIN op[q].ids = 1 .. Len(op[q].ids)
<1>1. op[q] \in Ops
    BY DEF IInv, Typed
<1>2. /\ Len(op[q].ids) \in Nat \ {0} /\ (op[q].batch \/ Len(op[q].ids) = 1)
      /\ DOMAIN op[q].ids = 1 .. Len(op[q].ids)
      /\ \A k \in DOMAIN op[q].ids : op[q].ids[k] \in Refs
    BY <1>1, OperationFacts
<1>3. item[q] \in 1 .. Len(op[q].ids)
    BY <1>2 DEF IInv, Tells
<1>4. QED
    BY <1>1, <1>2, <1>3 DEF Target

LEMMA NextItemFacts ==
    ASSUME IInv, NEW q \in Requests, pc[q] \in {"load", "update"}, NextItem(q)
    PROVE  /\ pc' \in [Requests -> {"idle"} \cup Working \cup Ended] /\ item' \in [Requests -> Nat]
           /\ pc'[q] \in {"load", "commit"}
           /\ pc'[q] = "load" => item'[q] \in DOMAIN op[q].ids /\ op[q].batch
           /\ \A p \in Requests \ {q} : pc'[p] = pc[p] /\ item'[p] = item[p]
<1>1. /\ item[q] \in 1 .. Len(op[q].ids) /\ Len(op[q].ids) \in Nat /\ (op[q].batch \/ Len(op[q].ids) = 1)
      /\ DOMAIN op[q].ids = 1 .. Len(op[q].ids)
    BY TargetFacts
<1>2. /\ item' = [item EXCEPT ![q] = item[q] + 1]
      /\ pc' = [pc EXCEPT ![q] = IF item[q] < Len(op[q].ids) THEN "load" ELSE "commit"]
    BY DEF NextItem
<1>3. pc \in [Requests -> {"idle"} \cup Working \cup Ended] /\ item \in [Requests -> Nat]
    BY DEF IInv, Typed
<1>4. pc' \in [Requests -> {"idle"} \cup Working \cup Ended] /\ item' \in [Requests -> Nat]
    BY <1>1, <1>2, <1>3 DEF Working
<1>5. item'[q] = item[q] + 1 /\ pc'[q] = IF item[q] < Len(op[q].ids) THEN "load" ELSE "commit"
    BY <1>2, <1>3
<1>6. \A p \in Requests \ {q} : pc'[p] = pc[p] /\ item'[p] = item[p]
    BY <1>2, <1>3
<1>7. ASSUME item[q] < Len(op[q].ids) PROVE item'[q] \in DOMAIN op[q].ids /\ op[q].batch
  <2> DEFINE n == Len(op[q].ids)
             i == item[q]
  <2>0. i \in 1 .. n /\ n \in Nat /\ i < n
      BY <1>1, <1>7
  <2> HIDE DEF n, i
  <2>1. i + 1 \in 1 .. n /\ n # 1
      BY <2>0
  <2>2. op[q].batch \/ Len(op[q].ids) = 1
      BY <1>1, Zenon
  <2>3. item'[q] \in DOMAIN op[q].ids
      BY <2>1, <1>1, <1>5 DEF n, i
  <2>4. QED
      BY <2>1, <2>2, <2>3, Zenon DEF n
<1>8. pc'[q] \in {"load", "commit"} /\ (pc'[q] = "load" => item[q] < Len(op[q].ids))
    BY <1>5
<1>9. QED
    BY <1>4, <1>6, <1>7, <1>8

LEMMA HoldFacts ==
    ASSUME IInv, NEW q \in Requests, pc[q] \in {"idle", "load", "update"}, NEW v \in Version, Hold(q, v)
    PROVE  /\ draft' \in [Requests -> Drafts] /\ results' \in [Requests -> SUBSET Refs]
           /\ results'[q] = results[q] \cup {Target(q)}
           /\ \A p \in Requests \ {q} : draft'[p] = draft[p] /\ results'[p] = results[p]
<1>1. /\ draft \in [Requests -> Drafts] /\ results \in [Requests -> SUBSET Refs] /\ Target(q) \in Refs
    BY TargetFacts DEF IInv, Typed
<1> DEFINE held == [r \in {Target(q)} \cup DOMAIN draft[q] |-> IF r = Target(q) THEN v ELSE draft[q][r]]
<1>2. held \in Drafts
    BY <1>1, Held
<1>3. draft' = [draft EXCEPT ![q] = held] /\ results' = [results EXCEPT ![q] = results[q] \cup {Target(q)}]
    BY DEF Hold
<1> HIDE DEF held
<1>4. QED
    BY <1>1, <1>2, <1>3

LEMMA RollbackHolds ==
    ASSUME IInv, NEW q \in Requests, pc[q] \in Open \ {"idle"}, Rollback(q),
           UNCHANGED <<rows, audit, untracked, op, copy>>,
           item' \in [Requests -> Nat], results' \in [Requests -> SUBSET Refs],
           \A p \in Requests \ {q} : item'[p] = item[p] /\ results'[p] = results[p],
           dbFaults' \in 0 .. MaxDbFaults
    PROVE  IInv'
<1>1. /\ pc' = [pc EXCEPT ![q] = "failed"] /\ draft' = [draft EXCEPT ![q] = <<>>]
      /\ pending' = [pending EXCEPT ![q] = <<>>]
    BY DEF Rollback
<1>2. Typed'
    BY <1>1, NoDraft DEF IInv, Typed, Ended
<1>3. pc'[q] = "failed" /\ draft'[q] = <<>> /\ pending'[q] = <<>>
    BY <1>1 DEF IInv, Typed
<1>4. \A p \in Requests : EntriesOf(p)' = EntriesOf(p)
    BY DEF EntriesOf
<1>5. EntriesOf(q) = {}
    BY DEF IInv, Tells, Open, Committed
<1>6. Tells(q)'
  <2>1. DOMAIN <<>> = {} /\ IdsIn(<<>>) = {}
      BY DEF IdsIn
  <2>2. QED
      BY <2>1, <1>3, <1>4, <1>5 DEF Tells, Open, Committed
<1>7. ASSUME NEW p \in Requests \ {q} PROVE Tells(p)'
  <2>1. pc'[p] = pc[p] /\ draft'[p] = draft[p] /\ pending'[p] = pending[p]
      BY <1>1 DEF IInv, Typed
  <2>2. QED
      BY <2>1, <1>4, OthersTell DEF IInv
<1>8. QED
    BY <1>2, <1>6, <1>7 DEF IInv

-----------------------------------------------------------------------------
(* The steps.                                                              *)

LEMMA BeginHolds == ASSUME IInv, NEW q \in Requests, Begin(q) PROVE IInv'
<1>1. /\ pc[q] = "idle" /\ op[q] \in Ops /\ item[q] \in DOMAIN op[q].ids /\ Target(q) \in Refs
      /\ UNCHANGED <<rows, audit, untracked, op, item, copy, pending, dbFaults>>
    BY TargetFacts DEF Begin
<1>2. \A p \in Requests : EntriesOf(p)' = EntriesOf(p)
    BY <1>1 DEF EntriesOf
<1>3. results[q] = {} /\ draft[q] = <<>> /\ pending[q] \in Seq(AuditEntry)
    BY <1>1 DEF IInv, Typed, Tells
<1>4. CASE op[q].kind = "create"
  <2>1. Hold(q, Created(op[q])) /\ pc' = [pc EXCEPT ![q] = "commit"] /\ Created(op[q]) \in Version
      BY <1>1, <1>4, CreatedIsRow DEF Begin, Version
  <2>2. /\ draft' \in [Requests -> Drafts] /\ results' \in [Requests -> SUBSET Refs]
        /\ \A p \in Requests \ {q} : draft'[p] = draft[p] /\ results'[p] = results[p]
      BY <2>1, <1>1, HoldFacts
  <2>3. Typed'
      BY <1>1, <2>1, <2>2 DEF IInv, Typed, Working
  <2>4. pc'[q] = "commit" /\ ~Audited(q) /\ ~Audited(q)'
      BY <2>1, <1>1, <1>4 DEF IInv, Typed, Audited, Unaudited
  <2>5. Tells(q)'
    <3>1. IdsIn(pending[q])' = {} /\ EntriesOf(q)' = {} /\ \A k \in DOMAIN pending'[q] : pending'[q][k].by = q
      <4>1. IdsIn(pending[q]) = {} /\ EntriesOf(q) = {} /\ \A k \in DOMAIN pending[q] : pending[q][k].by = q
          BY <1>1, <2>4 DEF IInv, Tells, Committed
      <4>2. QED
          BY <4>1, <1>1, <1>2 DEF IdsIn
    <3>2. QED
        BY <2>4, <3>1, <1>1 DEF Tells, Ended, Committed
  <2>6. ASSUME NEW p \in Requests \ {q} PROVE Tells(p)'
    <3>1. pc'[p] = pc[p]
        BY <2>1 DEF IInv, Typed
    <3>2. QED
        BY <3>1, <2>2, <1>1, <1>2, OthersTell DEF IInv
  <2>7. QED
      BY <2>3, <2>5, <2>6 DEF IInv
<1>5. CASE op[q].kind # "create"
  <2>1. pc' = [pc EXCEPT ![q] = "load"] /\ UNCHANGED <<draft, results>>
      BY <1>5 DEF Begin
  <2>2. Typed'
      BY <1>1, <2>1 DEF IInv, Typed, Working
  <2>3. pc'[q] = "load"
      BY <2>1 DEF IInv, Typed
  <2>4. Tells(q)'
    <3>1. /\ \A k \in DOMAIN pending'[q] : pending'[q][k].by = q
          /\ IdsIn(pending[q])' = IF pc'[q] \in Open /\ Audited(q)' THEN results'[q] ELSE {}
          /\ EntriesOf(q)' = IF pc'[q] \in Committed /\ Audited(q)' THEN results'[q] ELSE {}
        BY <2>1, <2>3, <1>1, <1>2, OpenTells DEF IInv, Open
    <3>2. draft'[q] = <<>> /\ item'[q] \in DOMAIN op'[q].ids
        BY <2>1, <1>1, <1>3
    <3>3. QED
        BY <3>1, <3>2, <2>3 DEF Tells
  <2>5. ASSUME NEW p \in Requests \ {q} PROVE Tells(p)'
    <3>1. pc'[p] = pc[p]
        BY <2>1 DEF IInv, Typed
    <3>2. QED
        BY <3>1, <2>1, <1>1, <1>2, OthersTell DEF IInv
  <2>6. QED
      BY <2>2, <2>4, <2>5 DEF IInv
<1>6. QED
    BY <1>4, <1>5

LEMMA LoadHolds == ASSUME IInv, NEW q \in Requests, Load(q) PROVE IInv'
<1>1. /\ pc[q] = "load" /\ op[q] \in Ops /\ item[q] \in DOMAIN op[q].ids /\ Target(q) \in Refs
      /\ UNCHANGED <<rows, audit, untracked, op, draft, pending, results, dbFaults>>
    BY TargetFacts DEF Load
<1>2. \A p \in Requests : EntriesOf(p)' = EntriesOf(p)
    BY <1>1 DEF EntriesOf
<1>3. pc \in [Requests -> {"idle"} \cup Working \cup Ended] /\ copy \in [Requests -> Version]
    BY DEF IInv, Typed
<1>4. /\ pc' \in [Requests -> {"idle"} \cup Working \cup Ended] /\ copy' \in [Requests -> Version]
      /\ item' \in [Requests -> Nat]
      /\ pc'[q] \in {"update", "load", "commit", "missing"}
      /\ pc'[q] \in {"update", "load"} => item'[q] \in DOMAIN op[q].ids
      /\ pc'[q] = "update" => copy'[q] \in Row
      /\ pc'[q] = "missing" => ~op[q].batch
      /\ \A p \in Requests \ {q} : pc'[p] = pc[p] /\ item'[p] = item[p] /\ copy'[p] = copy[p]
  <2>1. CASE /\ rows[Target(q)] # NoRow /\ copy' = [copy EXCEPT ![q] = rows[Target(q)]]
             /\ pc' = [pc EXCEPT ![q] = "update"] /\ UNCHANGED item
    <3>1. rows[Target(q)] \in Row
        BY <1>1, <2>1 DEF IInv, Typed, Version
    <3>2. QED
        BY <2>1, <3>1, <1>1, <1>3 DEF IInv, Typed, Version, Working
  <2>2. CASE op[q].batch /\ NextItem(q) /\ UNCHANGED copy
      BY <2>2, <1>1, <1>3, NextItemFacts
  <2>3. CASE ~op[q].batch /\ pc' = [pc EXCEPT ![q] = "missing"] /\ UNCHANGED <<item, copy>>
      BY <2>3, <1>1, <1>3 DEF IInv, Typed, Ended
  <2>4. QED
      BY <2>1, <2>2, <2>3 DEF Load
<1>5. Typed'
    BY <1>1, <1>4 DEF IInv, Typed
<1>6. Tells(q)'
  <2>1. /\ \A k \in DOMAIN pending'[q] : pending'[q][k].by = q
        /\ IdsIn(pending[q])' = IF pc'[q] \in Open /\ Audited(q)' THEN results'[q] ELSE {}
        /\ EntriesOf(q)' = IF pc'[q] \in Committed /\ Audited(q)' THEN results'[q] ELSE {}
      BY <1>1, <1>2, <1>4, OpenTells DEF IInv, Open
  <2>2. ~op[q].batch => draft[q] = <<>>
      BY <1>1 DEF IInv, Tells
  <2>3. QED
      BY <2>1, <2>2, <1>1, <1>4 DEF Tells, Ended
<1>7. ASSUME NEW p \in Requests \ {q} PROVE Tells(p)'
    BY <1>1, <1>2, <1>4, OthersTell DEF IInv
<1>8. QED
    BY <1>5, <1>6, <1>7 DEF IInv

\* The flush of a row and, for an audited route, its entry.
LEMMA UpdateHolds == ASSUME IInv, NEW q \in Requests, Update(q) PROVE IInv'
<1>1. /\ pc[q] = "update" /\ op[q] \in Ops /\ item[q] \in DOMAIN op[q].ids /\ Target(q) \in Refs
      /\ copy[q] \in Row /\ UNCHANGED <<rows, audit, untracked, op, copy, dbFaults>>
    BY TargetFacts DEF Update, IInv, Tells
<1>2. \A p \in Requests : EntriesOf(p)' = EntriesOf(p)
    BY <1>1 DEF EntriesOf
<1>3. /\ pending \in [Requests -> Seq(AuditEntry)] /\ results \in [Requests -> SUBSET Refs]
      /\ draft \in [Requests -> Drafts] /\ pending[q] \in Seq(AuditEntry)
    BY DEF IInv, Typed
<1>4. CASE Rollback(q) /\ UNCHANGED <<item, results>>
    BY <1>1, <1>3, <1>4, RollbackHolds DEF IInv, Typed, Open
<1>5. ASSUME NextItem(q),
             draft' \in [Requests -> Drafts], results' \in [Requests -> SUBSET Refs],
             pending' \in [Requests -> Seq(AuditEntry)],
             \A p \in Requests \ {q} :
                 draft'[p] = draft[p] /\ results'[p] = results[p] /\ pending'[p] = pending[p],
             \A k \in DOMAIN pending'[q] : pending'[q][k].by = q,
             IdsIn(pending'[q]) = IF Audited(q) THEN results'[q] ELSE {}
      PROVE  IInv'
  <2>1. /\ pc' \in [Requests -> {"idle"} \cup Working \cup Ended] /\ item' \in [Requests -> Nat]
        /\ pc'[q] \in {"load", "commit"}
        /\ pc'[q] = "load" => item'[q] \in DOMAIN op[q].ids /\ op[q].batch
        /\ \A p \in Requests \ {q} : pc'[p] = pc[p] /\ item'[p] = item[p]
      BY <1>1, <1>5, NextItemFacts
  <2>2. Typed'
      BY <1>1, <1>5, <2>1 DEF IInv, Typed
  <2>3. EntriesOf(q) = {}
      BY <1>1 DEF IInv, Tells, Committed
  <2>4. Tells(q)'
      BY <1>1, <1>2, <1>5, <2>1, <2>3 DEF Tells, Audited, IdsIn, Open, Ended, Committed
  <2>5. ASSUME NEW p \in Requests \ {q} PROVE Tells(p)'
      BY <1>1, <1>2, <1>5, <2>1, OthersTell DEF IInv
  <2>6. QED
      BY <2>2, <2>4, <2>5 DEF IInv
<1>6. /\ \A k \in DOMAIN pending[q] : pending[q][k].by = q
      /\ IdsIn(pending[q]) = IF Audited(q) THEN results[q] ELSE {}
    BY <1>1 DEF IInv, Tells, Open
<1>7. CASE NextItem(q) /\ UNCHANGED <<draft, pending, results>>
    BY <1>3, <1>5, <1>6, <1>7
<1>8. ASSUME NEW v \in Version, Hold(q, v), NextItem(q), ~Audited(q), UNCHANGED pending
      PROVE  IInv'
  <2>1. /\ draft' \in [Requests -> Drafts] /\ results' \in [Requests -> SUBSET Refs]
        /\ \A p \in Requests \ {q} : draft'[p] = draft[p] /\ results'[p] = results[p]
      BY <1>1, <1>8, HoldFacts
  <2>2. QED
      BY <2>1, <1>3, <1>5, <1>6, <1>8
<1>9. ASSUME NEW v \in Version, Hold(q, v), NextItem(q), Audited(q), NEW new \in Row,
             pending' = [pending EXCEPT ![q] = Append(pending[q], Entry(q, copy[q], new))]
      PROVE  IInv'
  <2>1. /\ draft' \in [Requests -> Drafts] /\ results' \in [Requests -> SUBSET Refs]
        /\ results'[q] = results[q] \cup {Target(q)}
        /\ \A p \in Requests \ {q} : draft'[p] = draft[p] /\ results'[p] = results[p]
      BY <1>1, <1>9, HoldFacts
  <2> DEFINE e == Entry(q, copy[q], new)
             longer == Append(pending[q], e)
  <2>2. op[q].kind \in {"approve", "reject", "delete", "patch", "flag", "other"}
      BY <1>1, <1>9, OperationFacts DEF Audited, Unaudited, Operation
  <2>3. e \in AuditEntry /\ e.by = q /\ e.id = Target(q)
      BY <2>2, <1>1, <1>9 DEF Entry, AuditEntry
  <2>4. longer \in Seq(AuditEntry) /\ IdsIn(longer) = IdsIn(pending[q]) \cup {Target(q)}
      BY <2>3, <1>3, IdsAppended
  <2>5. \A k \in DOMAIN longer : longer[k].by = q
    <3> HIDE DEF e
    <3>1. /\ DOMAIN longer = 1 .. Len(pending[q]) + 1 /\ longer[Len(pending[q]) + 1] = e
          /\ \A k \in 1 .. Len(pending[q]) : longer[k] = pending[q][k]
          /\ DOMAIN pending[q] = 1 .. Len(pending[q]) /\ Len(pending[q]) \in Nat
        BY <1>3, <2>3, AppendProperties
    <3>2. QED
        BY <3>1, <2>3, <1>6
  <2>6. pending' = [pending EXCEPT ![q] = longer]
      BY <1>9
  <2> HIDE DEF longer
  <2>7. /\ pending' \in [Requests -> Seq(AuditEntry)] /\ pending'[q] = longer
        /\ \A p \in Requests \ {q} : pending'[p] = pending[p]
      BY <2>4, <2>6, <1>3
  <2>8. QED
      BY <2>1, <2>4, <2>5, <2>7, <1>5, <1>6, <1>9
<1>10. CASE op[q].kind = "remove" /\ Hold(q, NoRow) /\ NextItem(q) /\ UNCHANGED pending
  <2>1. ~Audited(q) /\ NoRow \in Version
      BY <1>10 DEF Audited, Unaudited, Version
  <2>2. QED
      BY <2>1, <1>8, <1>10
<1> DEFINE new == Changed(op[q], copy[q])
           v == UpdatedColumns(rows[Target(q)], copy[q], new)
<1>11. CASE /\ rows[Target(q)] # NoRow /\ Hold(q, v) /\ NextItem(q)
            /\ pending' = IF Audited(q) THEN [pending EXCEPT ![q] = Append(@, Entry(q, copy[q], new))]
                                        ELSE pending
  <2>1. new \in Row
      BY <1>1, ChangedIsRow
  <2>2. rows[Target(q)] \in Row
      BY <1>1, <1>11 DEF IInv, Typed, Version
  <2>3. v \in Version
      BY <1>1, <2>1, <2>2, UpdatedIsRow DEF Version
  <2> HIDE DEF new, v
  <2>4. CASE Audited(q)
      BY <2>1, <2>3, <2>4, <1>9, <1>11
  <2>5. CASE ~Audited(q)
      BY <2>3, <2>5, <1>8, <1>11
  <2>6. QED
      BY <2>4, <2>5
<1>12. QED
    BY <1>4, <1>7, <1>10, <1>11 DEF Update

\* The commit moves the entries of the session into the trail.
LEMMA CommitHolds == ASSUME IInv, NEW q \in Requests, Commit(q) PROVE IInv'
<1>1. /\ pc[q] = "commit" /\ op[q] \in Ops /\ UNCHANGED <<op, item, copy, results>>
      /\ rows' = [r \in Refs |-> IF r \in DOMAIN draft[q] THEN draft[q][r] ELSE rows[r]]
      /\ audit' = audit \o pending[q]
      /\ untracked' = IF Audited(q) THEN untracked ELSE untracked \cup DOMAIN draft[q]
      /\ draft' = [draft EXCEPT ![q] = <<>>] /\ pending' = [pending EXCEPT ![q] = <<>>]
    BY DEF Commit, Applied, IInv, Typed
<1>2. /\ draft[q] \in Drafts /\ pending[q] \in Seq(AuditEntry) /\ audit \in Seq(AuditEntry)
    BY DEF IInv, Typed
<1>3. PICK D \in SUBSET Refs : draft[q] \in [D -> Version]
    BY <1>2 DEF Drafts
<1>4. rows' \in [Refs -> Version] /\ untracked' \subseteq Refs
    BY <1>1, <1>3 DEF IInv, Typed
<1>5. /\ pc' \in [Requests -> {"idle"} \cup Working \cup Ended] /\ pc'[q] \in Committed
      /\ \A p \in Requests \ {q} : pc'[p] = pc[p]
      /\ dbFaults' \in 0 .. MaxDbFaults
  <2>1. dbFaults' \in 0 .. MaxDbFaults
      BY FaultsAssumption DEF Commit, IInv, Typed
  <2>2. PICK place \in Committed : pc' = [pc EXCEPT ![q] = place]
      BY DEF Commit, Committed
  <2>3. QED
      BY <2>1, <2>2 DEF IInv, Typed, Working, Ended, Committed
<1>6. audit' \in Seq(AuditEntry)
    BY <1>1, <1>2, ConcatProperties
<1>7. <<>> \in Seq(AuditEntry) /\ DOMAIN <<>> = {} /\ IdsIn(<<>>) = {}
    BY DEF IdsIn
<1>8. /\ draft' \in [Requests -> Drafts] /\ pending' \in [Requests -> Seq(AuditEntry)]
      /\ draft'[q] = <<>> /\ pending'[q] = <<>>
      /\ \A p \in Requests \ {q} : draft'[p] = draft[p] /\ pending'[p] = pending[p]
    BY <1>1, <1>7, NoDraft DEF IInv, Typed
<1>9. Typed'
    BY <1>1, <1>4, <1>5, <1>6, <1>8 DEF IInv, Typed
<1>10. /\ EntriesOf(q)' = EntriesOf(q) \cup IdsIn(pending[q])
       /\ \A p \in Requests \ {q} : EntriesOf(p)' = EntriesOf(p)
  <2>1. \A k \in DOMAIN pending[q] : pending[q][k].by = q
      BY DEF IInv, Tells
  <2>2. QED
      BY <2>1, <1>1, <1>2, EntriesCommitted
<1>11. EntriesOf(q)' = IF Audited(q) THEN results[q] ELSE {}
    BY <1>1, <1>10 DEF IInv, Tells, Open, Committed
<1>12. Tells(q)'
    BY <1>1, <1>5, <1>7, <1>8, <1>11 DEF Tells, Audited, IdsIn, Open, Committed
<1>13. ASSUME NEW p \in Requests \ {q} PROVE Tells(p)'
    BY <1>1, <1>5, <1>8, <1>10, OthersTell DEF IInv
<1>14. QED
    BY <1>9, <1>12, <1>13 DEF IInv

LEMMA RefreshHolds == ASSUME IInv, NEW q \in Requests, Refresh(q) PROVE IInv'
<1>1. /\ pc[q] = "refresh" /\ UNCHANGED <<rows, audit, untracked, op, item, copy, draft, pending, results, dbFaults>>
      /\ pc' \in [Requests -> {"idle"} \cup Working \cup Ended] /\ pc'[q] \in {"unknown", "answered"}
      /\ \A p \in Requests \ {q} : pc'[p] = pc[p]
    BY DEF Refresh, IInv, Typed, Ended
<1>2. \A p \in Requests : EntriesOf(p)' = EntriesOf(p)
    BY <1>1 DEF EntriesOf
<1>3. Typed'
    BY <1>1 DEF IInv, Typed
<1>4. Tells(q)'
    BY <1>1, <1>2 DEF IInv, Tells, Audited, IdsIn, Open, Ended, Committed
<1>5. ASSUME NEW p \in Requests \ {q} PROVE Tells(p)'
    BY <1>1, <1>2, OthersTell DEF IInv
<1>6. QED
    BY <1>3, <1>4, <1>5 DEF IInv

LEMMA StepHolds == IInv /\ [Next]_vars => IInv'
<1> SUFFICES ASSUME IInv, [Next]_vars PROVE IInv'
    OBVIOUS
<1>1. ASSUME NEW q \in Requests, Abort(q) PROVE IInv'
  <2>1. dbFaults' \in 0 .. MaxDbFaults
      BY <1>1, FaultsAssumption DEF Abort, IInv, Typed
  <2>2. QED
      BY <1>1, <2>1, RollbackHolds DEF Abort, IInv, Typed, Open
<1>2. ASSUME NEW q \in Requests, DeadlockAbort(q) PROVE IInv'
    BY <1>2, RollbackHolds DEF DeadlockAbort, Waiting, IInv, Typed, Open
<1>3. CASE UNCHANGED vars
  <2>1. \A q \in Requests : EntriesOf(q)' = EntriesOf(q)
      BY <1>3 DEF vars, EntriesOf
  <2>2. QED
      BY <2>1, <1>3, OthersTell DEF vars, IInv, Typed
<1>4. QED
    BY <1>1, <1>2, <1>3, BeginHolds, LoadHolds, UpdateHolds, CommitHolds, RefreshHolds DEF Next, Handler

THEOREM Invariance == Spec => []IInv
BY InitHolds, StepHolds, PTL DEF Spec

\* A session is always within its ids, and the table holds rows.
THEOREM TypeCorrectness == Spec => []TypeOK
<1>1. IInv => TypeOK
    BY DEF IInv, Typed, Tells, TypeOK, Version, Drafts
<1>2. QED
    BY <1>1, Invariance, PTL

\* No request shows a part of its audit entries, whatever the interleaving, and
\* none that ended holds a row.
THEOREM RequestsAreWhole == Spec => []AllOrNothing
<1>1. IInv => AllOrNothing
    BY DEF IInv, Tells, AllOrNothing
<1>2. QED
    BY <1>1, Invariance, PTL

-----------------------------------------------------------------------------
(* The audit trail.  A session's draft of a row is the committed row with  *)
(* its own entry redone: nobody else can commit the row meanwhile.         *)

\* The rows a session has written, of which it holds the locks: each is one
\* of the ids behind it, and an audited session has the one entry of it that
\* tells its draft from the table's version.
Writing(q) ==
    /\ IdsIn(pending[q]) = IF Audited(q) THEN DOMAIN draft[q] ELSE {}
    /\ \A k, l \in DOMAIN pending[q] : pending[q][k].id = pending[q][l].id => k = l
    /\ \A k \in DOMAIN pending[q] :
          LET e == pending[q][k]
          IN  rows[e.id] \in Row /\ draft[q][e.id] = UpdatedColumns(rows[e.id], e.old_data, e.new_data)
    /\ pc[q] \in {"load", "update"} =>
          \A r \in DOMAIN draft[q] : \E k \in 1 .. item[q] - 1 : op[q].ids[k] = r

\* Two sessions never hold the same row.
Exclusive == \A p, q \in Requests : p # q => DOMAIN draft[p] \cap DOMAIN draft[q] = {}

RInv == Exclusive /\ AuditReplays /\ \A q \in Requests : Writing(q)

LEMMA RInitHolds == Init => RInv
<1> SUFFICES ASSUME Init PROVE RInv
    OBVIOUS
<1>1. DOMAIN <<>> = {}
    OBVIOUS
<1>2. Exclusive
    BY <1>1 DEF Init, Exclusive
<1>3. AuditReplays
    BY <1>1 DEF Init, AuditReplays, Explained, Setters
<1>4. ASSUME NEW q \in Requests PROVE Writing(q)
    BY <1>1, <1>4 DEF Init, Writing, IdsIn
<1>5. QED
    BY <1>2, <1>3, <1>4 DEF RInv

\* The entries of a session are of the rows it holds.
LEMMA EntryHeld ==
    ASSUME NEW q \in Requests, Writing(q), NEW k \in DOMAIN pending[q]
    PROVE  pending[q][k].id \in DOMAIN draft[q] /\ Audited(q)
BY DEF Writing, IdsIn

\* A session that does not move keeps its account, as long as the rows it
\* holds stay as they are.
LEMMA WritingKept ==
    ASSUME NEW p \in Requests, Writing(p), op'[p] = op[p], pc'[p] = pc[p], item'[p] = item[p],
           draft'[p] = draft[p], pending'[p] = pending[p],
           \A r \in DOMAIN draft[p] : rows'[r] = rows[r]
    PROVE  Writing(p)'
<1>1. Audited(p)' <=> Audited(p)
    BY DEF Audited
<1>2. IdsIn(pending[p])' = IdsIn(pending[p])
    BY DEF IdsIn
<1>3. ASSUME NEW k \in DOMAIN pending[p]
      PROVE  rows'[pending[p][k].id] = rows[pending[p][k].id]
    BY EntryHeld
<1>4. QED
    BY <1>1, <1>2, <1>3 DEF Writing

LEMMA ReplayKept ==
    ASSUME AuditReplays, rows' = rows, audit' = audit, untracked \subseteq untracked'
    PROVE  AuditReplays'
BY DEF AuditReplays, Explained, Setters

\* A step of one session that commits nothing.
LEMMA OneSession ==
    ASSUME RInv, NEW q \in Requests, UNCHANGED <<rows, audit, untracked, op>>, Writing(q)',
           \A p \in Requests \ {q} :
               /\ pc'[p] = pc[p] /\ item'[p] = item[p] /\ draft'[p] = draft[p] /\ pending'[p] = pending[p]
               /\ DOMAIN draft'[q] \cap DOMAIN draft[p] = {}
    PROVE  RInv'
<1>1. Exclusive'
    BY DEF RInv, Exclusive
<1>2. AuditReplays'
    BY ReplayKept DEF RInv
<1>3. ASSUME NEW p \in Requests \ {q} PROVE Writing(p)'
    BY <1>3, WritingKept DEF RInv
<1>4. QED
    BY <1>1, <1>2, <1>3 DEF RInv

LEMMA RRollbackHolds ==
    ASSUME IInv, RInv, NEW q \in Requests, Rollback(q), UNCHANGED <<rows, audit, untracked, op, item>>
    PROVE  RInv'
<1>1. /\ pc'[q] = "failed" /\ draft'[q] = <<>> /\ pending'[q] = <<>>
      /\ \A p \in Requests \ {q} : pc'[p] = pc[p] /\ draft'[p] = draft[p] /\ pending'[p] = pending[p]
    BY DEF Rollback, IInv, Typed
<1>2. DOMAIN <<>> = {}
    OBVIOUS
<1>3. Writing(q)'
    BY <1>1, <1>2 DEF Writing, IdsIn
<1>4. QED
    BY <1>1, <1>2, <1>3, OneSession

\* The id being worked on joins the ids behind it.
LEMMA Behind ==
    ASSUME NEW q \in Requests, item[q] \in Nat \ {0}, item'[q] = item[q] + 1, UNCHANGED op,
           NEW D, \A r \in D : \E k \in 1 .. item[q] - 1 : op[q].ids[k] = r
    PROVE  \A r \in {Target(q)} \cup D : \E k \in 1 .. item'[q] - 1 : op'[q].ids[k] = r
<1>1. \A k \in 1 .. item[q] - 1 : k \in 1 .. item'[q] - 1
    OBVIOUS
<1>2. item[q] \in 1 .. item'[q] - 1
    OBVIOUS
<1>3. QED
    BY <1>1, <1>2, Zenon DEF Target

LEMMA RBeginHolds == ASSUME IInv, RInv, NEW q \in Requests, Begin(q) PROVE RInv'
<1>1. /\ pc[q] = "idle" /\ UNCHANGED <<rows, audit, untracked, op, item, pending>> /\ draft[q] = <<>>
      /\ draft \in [Requests -> Drafts]
    BY DEF Begin, IInv, Typed, Tells
<1>2. PICK place \in {"load", "commit"} : pc' = [pc EXCEPT ![q] = place]
    BY DEF Begin
<1>3. pc'[q] = place /\ \A p \in Requests \ {q} : pc'[p] = pc[p]
    BY <1>2 DEF IInv, Typed
<1>4. DOMAIN <<>> = {}
    OBVIOUS
<1>5. CASE op[q].kind = "create"
  <2>1. /\ Hold(q, Created(op[q])) /\ \A p \in Requests : Target(q) \notin DOMAIN draft[p]
        /\ pc' = [pc EXCEPT ![q] = "commit"] /\ ~Audited(q)
      BY <1>5 DEF Begin, Audited, Unaudited
  <2>2. DOMAIN draft'[q] = {Target(q)} /\ \A p \in Requests \ {q} : draft'[p] = draft[p]
      BY <2>1, <1>1, <1>4 DEF Hold
  <2>3. DOMAIN pending[q] = {} /\ pc'[q] = "commit" /\ ~Audited(q)'
      BY <2>1, <1>1 DEF RInv, Writing, IdsIn, Audited, IInv, Typed
  <2>4. Writing(q)'
      BY <2>3, <1>1 DEF Writing, IdsIn
  <2>5. QED
      BY <2>1, <2>2, <2>4, <1>1, <1>3, OneSession
<1>6. CASE op[q].kind # "create"
  <2>1. UNCHANGED draft
      BY <1>6 DEF Begin
  <2>2. Writing(q)'
      BY <2>1, <1>1, <1>4 DEF RInv, Writing, IdsIn, Audited
  <2>3. QED
      BY <2>1, <2>2, <1>1, <1>3, <1>4, OneSession
<1>7. QED
    BY <1>5, <1>6

LEMMA NextItemMoves ==
    ASSUME IInv, NEW q \in Requests, pc[q] \in {"load", "update"}, NextItem(q)
    PROVE  /\ item[q] \in Nat \ {0} /\ item'[q] = item[q] + 1
           /\ \A p \in Requests \ {q} : pc'[p] = pc[p] /\ item'[p] = item[p]
<1>1. item[q] \in 1 .. Len(op[q].ids) /\ Len(op[q].ids) \in Nat
    BY TargetFacts
<1>2. QED
    BY <1>1 DEF NextItem, IInv, Typed

LEMMA RLoadHolds == ASSUME IInv, RInv, NEW q \in Requests, Load(q) PROVE RInv'
<1>1. /\ pc[q] = "load" /\ UNCHANGED <<rows, audit, untracked, op, draft, pending>>
      /\ \A r \in DOMAIN draft[q] : \E k \in 1 .. item[q] - 1 : op[q].ids[k] = r
    BY DEF Load, RInv, Writing
<1>2. /\ \A p \in Requests \ {q} : pc'[p] = pc[p] /\ item'[p] = item[p]
      /\ pc'[q] \in {"load", "update"} => \A r \in DOMAIN draft[q] : \E k \in 1 .. item'[q] - 1 : op'[q].ids[k] = r
  <2>1. CASE NextItem(q)
      BY <2>1, <1>1, NextItemMoves, Behind
  <2>2. CASE UNCHANGED item /\ \E place : pc' = [pc EXCEPT ![q] = place]
      BY <2>2, <1>1 DEF IInv, Typed
  <2>3. QED
      BY <2>1, <2>2 DEF Load
<1>3. Writing(q)'
    BY <1>1, <1>2 DEF RInv, Writing, IdsIn, Audited
<1>4. QED
    BY <1>1, <1>2, <1>3, OneSession DEF RInv, Exclusive

LEMMA HoldDraft ==
    ASSUME IInv, NEW q \in Requests, NEW v, Hold(q, v)
    PROVE  /\ DOMAIN draft'[q] = {Target(q)} \cup DOMAIN draft[q] /\ draft'[q][Target(q)] = v
           /\ \A r \in DOMAIN draft[q] : r # Target(q) => draft'[q][r] = draft[q][r]
           /\ \A p \in Requests \ {q} : draft'[p] = draft[p]
BY DEF Hold, IInv, Typed

\* The flush adds a row nobody else holds to the session's.
LEMMA RUpdateHolds == ASSUME IInv, RInv, NEW q \in Requests, Update(q) PROVE RInv'
<1>1. /\ pc[q] = "update" /\ UNCHANGED <<rows, audit, untracked, op, copy>> /\ op[q] \in Ops
      /\ item[q] \in DOMAIN op[q].ids /\ copy[q] \in Row /\ Writing(q) /\ DOMAIN op[q].ids = 1 .. Len(op[q].ids)
      /\ pending \in [Requests -> Seq(AuditEntry)] /\ Len(op[q].ids) \in Nat
    BY TargetFacts DEF Update, IInv, Typed, Tells, RInv
<1>2. CASE Rollback(q) /\ UNCHANGED <<item, results>>
    BY <1>1, <1>2, RRollbackHolds
<1>3. ASSUME NextItem(q)
      PROVE  /\ item[q] \in Nat \ {0} /\ item'[q] = item[q] + 1
             /\ \A p \in Requests \ {q} : pc'[p] = pc[p] /\ item'[p] = item[p]
             /\ \A r \in {Target(q)} \cup DOMAIN draft[q] : \E k \in 1 .. item'[q] - 1 : op'[q].ids[k] = r
  <2>1. /\ item[q] \in Nat \ {0} /\ item'[q] = item[q] + 1
        /\ \A p \in Requests \ {q} : pc'[p] = pc[p] /\ item'[p] = item[p]
      BY <1>1, <1>3, NextItemMoves
  <2>2. \A r \in DOMAIN draft[q] : \E k \in 1 .. item[q] - 1 : op[q].ids[k] = r
      BY <1>1 DEF Writing
  <2>3. UNCHANGED op
      BY <1>1
  <2>4. QED
      BY <2>1, <2>2, <2>3, Behind
<1>4. CASE NextItem(q) /\ UNCHANGED <<draft, pending, results>>
  <2>1. Writing(q)'
      BY <1>1, <1>3, <1>4 DEF Writing, IdsIn, Audited
  <2>2. QED
      BY <2>1, <1>1, <1>3, <1>4, OneSession DEF RInv, Exclusive
<1>5. ASSUME Writes(q), NEW v, Hold(q, v), NextItem(q), Writing(q)',
             \A p \in Requests \ {q} : pending'[p] = pending[p]
      PROVE  RInv'
  <2>1. DOMAIN draft'[q] = {Target(q)} \cup DOMAIN draft[q] /\ \A p \in Requests \ {q} : draft'[p] = draft[p]
      BY <1>5, HoldDraft
  <2>2. \A p \in Requests \ {q} : Target(q) \notin DOMAIN draft[p]
      BY <1>1, <1>5 DEF Update, Waiting, Holders
  <2>3. \A p \in Requests \ {q} : DOMAIN draft'[q] \cap DOMAIN draft[p] = {}
      BY <2>1, <2>2 DEF RInv, Exclusive
  <2>4. QED
      BY <2>1, <2>3, <1>1, <1>3, <1>5, OneSession
<1>6. ASSUME NEW v, Hold(q, v), NextItem(q), ~Audited(q), UNCHANGED pending
      PROVE  Writing(q)'
  <2>1. DOMAIN draft'[q] = {Target(q)} \cup DOMAIN draft[q]
      BY <1>6, HoldDraft
  <2>2. ~Audited(q)' /\ DOMAIN pending[q] = {}
    <3>1. IdsIn(pending[q]) = {}
        BY <1>1, <1>6 DEF Writing
    <3>2. QED
        BY <3>1, <1>1, <1>6 DEF IdsIn, Audited
  <2>3. QED
      BY <2>1, <2>2, <1>3, <1>6 DEF Writing, IdsIn
<1>7. CASE op[q].kind = "remove" /\ Hold(q, NoRow) /\ NextItem(q) /\ UNCHANGED pending
  <2>1. ~Audited(q) /\ Writes(q)
      BY <1>7 DEF Audited, Unaudited, Writes
  <2>2. Writing(q)' /\ \A p \in Requests \ {q} : pending'[p] = pending[p]
      BY <2>1, <1>6, <1>7
  <2>3. QED
      BY <2>1, <2>2, <1>5, <1>7
<1> DEFINE new == Changed(op[q], copy[q])
           v == UpdatedColumns(rows[Target(q)], copy[q], new)
           e == Entry(q, copy[q], new)
           longer == Append(pending[q], e)
<1>8. CASE /\ Writes(q) /\ rows[Target(q)] # NoRow /\ Hold(q, v) /\ NextItem(q)
           /\ pending' = IF Audited(q) THEN [pending EXCEPT ![q] = longer] ELSE pending
  <2>1. rows[Target(q)] \in Row
      BY <1>1, <1>8, TargetFacts DEF IInv, Typed, Version
  <2>2. e.id = Target(q) /\ e.old_data = copy[q] /\ e.new_data = new
      BY DEF Entry
  <2>3. DOMAIN draft'[q] = {Target(q)} \cup DOMAIN draft[q] /\ draft'[q][Target(q)] = v
        /\ \A r \in DOMAIN draft[q] : r # Target(q) => draft'[q][r] = draft[q][r]
      BY <1>8, HoldDraft
  <2>4. Target(q) \notin DOMAIN draft[q]
    <3>1. SUFFICES ASSUME NEW k \in 1 .. item[q] - 1, op[q].ids[k] = op[q].ids[item[q]] PROVE FALSE
        BY <1>1 DEF Writing, Target
    <3>2. k \in DOMAIN op[q].ids /\ k # item[q]
        BY <1>1
    <3>3. QED
        BY <3>1, <3>2, <1>1, OpsAssumption DEF IsInjective
  <2>5. CASE ~Audited(q)
      BY <2>5, <1>5, <1>6, <1>8
  <2>6. CASE Audited(q)
    <3>1. e \in AuditEntry
      <4>1. op[q].kind \in {"approve", "reject", "delete", "patch", "flag", "other"}
          BY <1>1, <2>6, OperationFacts DEF Audited, Unaudited, Operation
      <4>2. new \in Row
          BY <1>1, ChangedIsRow
      <4> HIDE DEF new
      <4>3. QED
          BY <4>1, <4>2, <1>1, TargetFacts DEF Entry, AuditEntry
    <3> HIDE DEF e, v, new
    <3>2. /\ DOMAIN longer = 1 .. Len(pending[q]) + 1 /\ longer[Len(pending[q]) + 1] = e
          /\ \A k \in 1 .. Len(pending[q]) : longer[k] = pending[q][k]
          /\ DOMAIN pending[q] = 1 .. Len(pending[q]) /\ Len(pending[q]) \in Nat
        BY <1>1, <3>1, AppendProperties
    <3>3. IdsIn(longer) = IdsIn(pending[q]) \cup {Target(q)}
        BY <1>1, <2>2, <3>1, IdsAppended
    <3> HIDE DEF longer
    <3>4. pending'[q] = longer /\ \A p \in Requests \ {q} : pending'[p] = pending[p]
        BY <1>1, <1>8, <2>6
    <3>5. \A k \in DOMAIN pending[q] : pending[q][k].id \in DOMAIN draft[q] /\ pending[q][k].id # Target(q)
        BY <1>1, <2>4, EntryHeld
    <3>6. \A k \in DOMAIN longer : k \in DOMAIN pending[q] \/ k = Len(pending[q]) + 1
        BY <3>2
    <3>7. \A k, l \in DOMAIN longer : longer[k].id = longer[l].id => k = l
        BY <3>2, <3>5, <3>6, <2>2, <1>1 DEF Writing
    <3>8. ASSUME NEW k \in DOMAIN longer
          PROVE  /\ rows[longer[k].id] \in Row
                 /\ draft'[q][longer[k].id]
                       = UpdatedColumns(rows[longer[k].id], longer[k].old_data, longer[k].new_data)
      <4>1. CASE k \in DOMAIN pending[q]
          BY <4>1, <3>2, <3>5, <2>3, <1>1 DEF Writing
      <4>2. CASE k = Len(pending[q]) + 1
          BY <4>2, <3>2, <2>1, <2>2, <2>3 DEF v
      <4>3. QED
          BY <4>1, <4>2, <3>6
    <3>9. IdsIn(pending[q])' = DOMAIN draft'[q] /\ Audited(q)'
      <4>1. IdsIn(pending[q]) = DOMAIN draft[q]
          BY <2>6, <1>1 DEF Writing
      <4>2. IdsIn(pending[q])' = IdsIn(longer)
          BY <3>4 DEF IdsIn
      <4>3. Audited(q)'
          BY <2>6, <1>1 DEF Audited
      <4>4. QED
          BY <4>1, <4>2, <4>3, <3>3, <2>3
    <3>10. Writing(q)'
        BY <3>4, <3>7, <3>8, <3>9, <2>3, <1>1, <1>3, <1>8 DEF Writing
    <3>11. QED
        BY <3>4, <3>10, <1>5, <1>8
  <2>7. QED
      BY <2>5, <2>6
<1>9. ASSUME Writes(q), op[q].kind # "remove", rows[Target(q)] # NoRow,
             LET new_ == Changed(op[q], copy[q])
             IN  /\ Hold(q, UpdatedColumns(rows[Target(q)], copy[q], new_))
                 /\ pending' = IF Audited(q)
                               THEN [pending EXCEPT ![q] = Append(@, Entry(q, copy[q], new_))]
                               ELSE pending,
             NextItem(q)
      PROVE  RInv'
    BY <1>8, <1>9
<1>10. QED
    BY <1>2, <1>4, <1>7, <1>9 DEF Update

\* What a commit adds to the entries that set a column.
LEMMA SettersStay ==
    ASSUME audit \in Seq(AuditEntry), NEW s \in Seq(AuditEntry), audit' = audit \o s, NEW r, NEW c
    PROVE  /\ \A k \in Setters(r, c) : k \in Setters(r, c)' /\ audit'[k] = audit[k] /\ k \in 1 .. Len(audit)
           /\ \A k \in DOMAIN s :
                 Sets(s[k], r, c) =>
                     Len(audit) + k \in Setters(r, c)' /\ audit'[Len(audit) + k] = s[k]
<1> DEFINE n == Len(audit)
           m == Len(s)
<1>1. /\ n \in Nat /\ m \in Nat /\ DOMAIN audit = 1 .. n /\ DOMAIN s = 1 .. m
      /\ DOMAIN audit' = 1 .. n + m
      /\ \A k \in 1 .. n : audit'[k] = audit[k]
      /\ \A k \in 1 .. m : audit'[n + k] = s[k]
    BY ConcatProperties
<1> HIDE DEF n, m
<1>2. (\A i \in 1 .. m : n + i \in 1 .. n + m) /\ \A k \in 1 .. n : k \in 1 .. n + m
    BY <1>1
<1>3. \A k \in Setters(r, c) : k \in Setters(r, c)' /\ audit'[k] = audit[k] /\ k \in 1 .. n
    BY <1>1, <1>2 DEF Setters
<1>4. \A k \in 1 .. m :
         Sets(s[k], r, c) => n + k \in Setters(r, c)' /\ audit'[n + k] = s[k]
    BY <1>1, <1>2 DEF Setters
<1>5. QED
    BY <1>1, <1>3, <1>4 DEF n

LEMMA SettersCome ==
    ASSUME audit \in Seq(AuditEntry), NEW s \in Seq(AuditEntry), audit' = audit \o s, NEW r, NEW c,
           NEW k \in Setters(r, c)', k \notin Setters(r, c)
    PROVE  \E i \in DOMAIN s : k = Len(audit) + i /\ Sets(s[i], r, c)
<1> DEFINE n == Len(audit)
           m == Len(s)
<1>1. /\ n \in Nat /\ m \in Nat /\ DOMAIN audit = 1 .. n /\ DOMAIN s = 1 .. m
      /\ DOMAIN audit' = 1 .. n + m
      /\ \A l \in 1 .. n : audit'[l] = audit[l]
      /\ \A l \in 1 .. m : audit'[n + l] = s[l]
    BY ConcatProperties
<1> HIDE DEF n, m
<1>2. k \in 1 .. n + m /\ Sets(audit'[k], r, c)
    BY <1>1 DEF Setters
<1>3. k \notin 1 .. n
    BY <1>1, <1>2 DEF Setters
<1>4. k - n \in 1 .. m /\ k = n + (k - n)
    BY <1>1, <1>2, <1>3
<1>5. QED
    BY <1>1, <1>2, <1>4 DEF n

\* A commit without an entry for a row it leaves alone.
LEMMA ExplainedKept ==
    ASSUME audit \in Seq(AuditEntry), NEW s \in Seq(AuditEntry), audit' = audit \o s, NEW r, NEW c,
           \A k \in DOMAIN s : ~Sets(s[k], r, c),
           rows'[r][c] = rows[r][c], Explained(r, c)
    PROVE  Explained(r, c)'
<1>1. \A k \in Setters(r, c) : k \in Setters(r, c)'
    BY SettersStay
<1>2. \A k \in Setters(r, c) : audit'[k] = audit[k]
    BY SettersStay
<1>3. ASSUME NEW k \in Setters(r, c)' PROVE k \in Setters(r, c)
  <2>1. k \notin Setters(r, c) => \E i \in DOMAIN s : Sets(s[i], r, c)
      BY SettersCome
  <2>2. QED
      BY <2>1
<1>4. Setters(r, c)' = Setters(r, c)
    BY <1>1, <1>3
<1>5. QED
    BY <1>2, <1>4 DEF Explained

\* A commit with one entry that changes the column.
LEMMA ExplainedAnew ==
    ASSUME audit \in Seq(AuditEntry), NEW s \in Seq(AuditEntry), audit' = audit \o s, NEW r, NEW c,
           NEW k \in DOMAIN s, Sets(s[k], r, c), \A l \in DOMAIN s : Sets(s[l], r, c) => l = k,
           rows'[r][c] = s[k].new_data[c]
    PROVE  Explained(r, c)'
<1> DEFINE last == Len(audit) + k
<1>1. k \in Nat /\ Len(audit) \in Nat
    OBVIOUS
<1>2. last \in Setters(r, c)' /\ audit'[last] = s[k]
  <2>1. Sets(s[k], r, c) => last \in Setters(r, c)' /\ audit'[last] = s[k]
      BY SettersStay
  <2>2. QED
      BY <2>1
<1>3. ASSUME NEW i \in Setters(r, c)' PROVE i <= last
  <2>1. i \in Setters(r, c) \/ \E l \in DOMAIN s : i = Len(audit) + l /\ Sets(s[l], r, c)
      BY SettersCome
  <2>2. CASE i \in Setters(r, c)
    <3>1. i \in 1 .. Len(audit)
        BY <2>2, SettersStay
    <3>2. QED
        BY <3>1, <1>1
  <2>3. CASE \E l \in DOMAIN s : i = Len(audit) + l /\ Sets(s[l], r, c)
    <3>1. i = last
        BY <2>3
    <3>2. QED
        BY <3>1, <1>1
  <2>4. QED
      BY <2>1, <2>2, <2>3
<1> HIDE DEF last
<1>4. QED
    BY <1>2, <1>3 DEF Explained

\* The rows of the session replace the committed ones, each as its entry says.
LEMMA RCommitHolds == ASSUME IInv, RInv, NEW q \in Requests, Commit(q) PROVE RInv'
<1> DEFINE s == pending[q]
<1>1. /\ pc[q] = "commit" /\ UNCHANGED <<op, item>> /\ audit' = audit \o s
      /\ rows' = [r \in Refs |-> IF r \in DOMAIN draft[q] THEN draft[q][r] ELSE rows[r]]
      /\ untracked' = IF Audited(q) THEN untracked ELSE untracked \cup DOMAIN draft[q]
      /\ draft' = [draft EXCEPT ![q] = <<>>] /\ pending' = [pending EXCEPT ![q] = <<>>]
    BY DEF Commit, Applied
<1>2. /\ s \in Seq(AuditEntry) /\ audit \in Seq(AuditEntry) /\ Writing(q)
    BY DEF IInv, Typed, RInv
<1>3. /\ draft'[q] = <<>> /\ pending'[q] = <<>> /\ pc'[q] \in Committed
      /\ \A p \in Requests \ {q} : pc'[p] = pc[p] /\ draft'[p] = draft[p] /\ pending'[p] = pending[p]
  <2>1. \E place \in Committed : pc' = [pc EXCEPT ![q] = place]
      BY DEF Commit, Committed
  <2>2. QED
      BY <2>1, <1>1 DEF IInv, Typed
<1>4. DOMAIN <<>> = {}
    OBVIOUS
<1>5. Exclusive'
    BY <1>3, <1>4 DEF RInv, Exclusive
<1>6. Writing(q)'
    BY <1>3, <1>4 DEF Writing, IdsIn, Committed
<1>7. ASSUME NEW p \in Requests \ {q} PROVE Writing(p)'
  <2>1. \A r \in DOMAIN draft[p] : r \in Refs /\ r \notin DOMAIN draft[q]
      BY DEF RInv, Exclusive, IInv, Typed, Drafts
  <2>2. \A r \in DOMAIN draft[p] : rows'[r] = rows[r]
      BY <2>1, <1>1
  <2>3. QED
      BY <2>2, <1>1, <1>3, WritingKept DEF RInv
<1>8. ASSUME NEW r \in Refs \ untracked'
      PROVE  DOMAIN rows'[r] = DOMAIN First[r] /\ \A c \in DOMAIN rows'[r] : Explained(r, c)'
  <2>1. r \notin untracked /\ (r \in DOMAIN draft[q] => Audited(q))
      BY <1>1
  <2>2. DOMAIN rows[r] = DOMAIN First[r] /\ \A c \in DOMAIN rows[r] : Explained(r, c)
      BY <2>1 DEF RInv, AuditReplays
  <2>3. CASE r \notin DOMAIN draft[q]
    <3>1. rows'[r] = rows[r] /\ \A k \in DOMAIN s : s[k].id # r
        BY <2>3, <1>1, <1>2, EntryHeld
    <3>2. QED
      <4>1. \A c : \A k \in DOMAIN s : ~Sets(s[k], r, c)
          BY <3>1 DEF Sets
      <4>2. QED
          BY <4>1, <3>1, <2>2, <1>1, <1>2, ExplainedKept
  <2>4. CASE r \in DOMAIN draft[q]
    <3>1. PICK k \in DOMAIN s : s[k].id = r
        BY <2>1, <2>4, <1>2 DEF Writing, IdsIn
    <3>2. /\ rows'[r] = UpdatedColumns(rows[r], s[k].old_data, s[k].new_data)
          /\ \A l \in DOMAIN s : s[l].id = r => l = k
        BY <3>1, <2>4, <1>1, <1>2 DEF Writing
    <3> HIDE DEF s
    <3>3. DOMAIN rows'[r] = DOMAIN rows[r]
        BY <3>2 DEF UpdatedColumns
    <3>4. ASSUME NEW c \in DOMAIN rows[r] PROVE Explained(r, c)'
      <4>1. rows'[r][c] = IF s[k].old_data[c] # s[k].new_data[c] THEN s[k].new_data[c] ELSE rows[r][c]
          BY <3>2 DEF UpdatedColumns
      <4>2. CASE s[k].old_data[c] # s[k].new_data[c]
        <5>1. /\ Sets(s[k], r, c) /\ \A l \in DOMAIN s : Sets(s[l], r, c) => l = k
              /\ rows'[r][c] = s[k].new_data[c]
            BY <4>1, <4>2, <3>1, <3>2 DEF Sets
        <5>2. QED
            BY <5>1, <1>1, <1>2, ExplainedAnew
      <4>3. CASE s[k].old_data[c] = s[k].new_data[c]
        <5>1. /\ \A l \in DOMAIN s : ~Sets(s[l], r, c)
              /\ rows'[r][c] = rows[r][c] /\ Explained(r, c)
            BY <4>1, <4>3, <3>2, <2>2 DEF Sets
        <5>2. QED
            BY <5>1, <1>1, <1>2, ExplainedKept
      <4>4. QED
          BY <4>2, <4>3
    <3>5. QED
        BY <3>3, <3>4, <2>2
  <2>5. QED
      BY <2>3, <2>4
<1>9. AuditReplays'
    BY <1>8 DEF AuditReplays
<1>10. QED
    BY <1>5, <1>6, <1>7, <1>9 DEF RInv

LEMMA RStepHolds == IInv /\ RInv /\ [Next]_vars => RInv'
<1> SUFFICES ASSUME IInv, RInv, [Next]_vars PROVE RInv'
    OBVIOUS
<1>1. ASSUME NEW q \in Requests, Abort(q) \/ DeadlockAbort(q) PROVE RInv'
    BY <1>1, RRollbackHolds DEF Abort, DeadlockAbort
<1>2. ASSUME NEW q \in Requests, Refresh(q) PROVE RInv'
  <2>1. /\ UNCHANGED <<rows, audit, untracked, op, item, draft, pending>> /\ pc'[q] \in Committed
        /\ \A p \in Requests \ {q} : pc'[p] = pc[p]
      BY <1>2 DEF Refresh, IInv, Typed, Committed
  <2>2. Writing(q)'
      BY <2>1 DEF RInv, Writing, IdsIn, Audited, Committed
  <2>3. QED
      BY <2>1, <2>2, OneSession DEF RInv, Exclusive
<1>3. CASE UNCHANGED vars
  <2>1. AuditReplays' /\ Exclusive'
      BY <1>3, ReplayKept DEF vars, RInv, Exclusive
  <2>2. \A q \in Requests : Writing(q)'
      BY <1>3, WritingKept DEF vars, RInv
  <2>3. QED
      BY <2>1, <2>2 DEF RInv
<1>4. QED
    BY <1>1, <1>2, <1>3, RBeginHolds, RLoadHolds, RUpdateHolds, RCommitHolds DEF Next, Handler

\* Each column of a value is what the last recorded change of it says, however
\* the reviewers interleave, fail or are aborted.
THEOREM AuditExplainsTable == Spec => []AuditReplays
<1>1. Spec => []RInv
    BY RInitHolds, RStepHolds, Invariance, PTL DEF Spec
<1>2. RInv => AuditReplays
    BY DEF RInv
<1>3. QED
    BY <1>1, <1>2, PTL

=============================================================================
