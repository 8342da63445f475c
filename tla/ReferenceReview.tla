--------------------------- MODULE ReferenceReview ---------------------------
(***************************************************************************)
(* The routes that change reference_values: the audited review workflow    *)
(* under /admin/reference-values (patch, approve, reject, soft delete,     *)
(* batch) and the unaudited /references (create, update, delete).          *)
(*                                                                         *)
(* The handlers are plain functions, so FastAPI runs them in threads, each *)
(* with a session of its own.  A session reads a row without locking it,   *)
(* flushes an UPDATE of the columns that differ from what it read, and     *)
(* commits at the end; PostgreSQL (READ COMMITTED) makes the UPDATE wait   *)
(* for the row's lock and applies it to the newest committed version.      *)
(***************************************************************************)
EXTENDS Naturals, Sequences, SequencesExt

CONSTANTS
    Refs,       \* ids of reference values
    Requests,   \* requests, each served by its own thread and session
    Ops,        \* what the requests ask for: a set of Operation
    Values,     \* numbers a value can be set to
    First,      \* the table at the start: a row or NoRow for each id
    MaxDbFaults \* bound: statements the database answers with an error

-----------------------------------------------------------------------------
(* The columns the reviewers change, and the requests.                     *)

Row == [status : {"active", "rejected", "deleted"}, needs_review : BOOLEAN, value : Values]
NoRow == [status |-> "none"]

\* ids has one element except for a batch, whose ids are distinct and whose
\* action is not checked ("other").  "patch" and "flag" are the audited PATCH
\* of a number and of needs_review, "put" the PATCH of /references, "remove"
\* its DELETE.
Operation == [kind : {"approve", "reject", "delete", "patch", "flag",
                      "other", "create", "put", "remove"},
              ids : Seq(Refs), batch : BOOLEAN, value : Values]

ASSUME FirstAssumption == First \in [Refs -> Row \cup {NoRow}]
ASSUME OpsAssumption ==
    /\ Ops \subseteq Operation
    /\ \A o \in Ops : IsInjective(o.ids) /\ Len(o.ids) > 0 /\ (o.batch \/ Len(o.ids) = 1)
ASSUME FaultsAssumption == MaxDbFaults \in Nat

VARIABLES
    rows,       \* the committed reference_values
    audit,      \* the committed reference_value_audit, in commit order
    untracked,  \* history: ids a route of /references has written
    op,         \* what each request asks for
    pc,         \* where each request is
    item,       \* index in ids of the row being worked on
    copy,       \* the attributes the session read for that row
    draft,      \* uncommitted row versions of the session: it holds their locks
    pending,    \* uncommitted audit entries of the session
    results,    \* ids the handler has found and written
    dbFaults    \* database errors so far

vars == <<rows, audit, untracked, op, pc, item, copy, draft, pending, results,
          dbFaults>>

Unaudited == {"create", "put", "remove"}
Audited(q) == op[q].kind \notin Unaudited
Target(q) == op[q].ids[item[q]]

\* The attributes after the assignments of the handler.
Changed(o, r) ==
    CASE o.kind = "approve" -> [r EXCEPT !.needs_review = FALSE, !.status = "active"]
      [] o.kind = "reject"  -> [r EXCEPT !.status = "rejected"]
      [] o.kind = "delete"  -> [r EXCEPT !.status = "deleted"]
      [] o.kind = "flag"    -> [r EXCEPT !.needs_review = TRUE]
      [] o.kind \in {"patch", "put"} -> [r EXCEPT !.value = o.value]
      [] OTHER -> r

\* create_reference: the columns' defaults.
Created(o) == [status |-> "active", needs_review |-> FALSE, value |-> o.value]

\* Slip: the UPDATE writes every column of the object.
UpdatedRow(r, old, new) == new

\* An UPDATE of the columns in which old and new differ, applied to r.
UpdatedColumns(r, old, new) ==
    [c \in DOMAIN r |-> IF old[c] # new[c] THEN new[c] ELSE r[c]]

\* _audit_ref's record, with the request it belongs to.
Entry(q, old, new) ==
    [by |-> q, id |-> Target(q), action |-> op[q].kind, old_data |-> old, new_data |-> new]

-----------------------------------------------------------------------------
Init ==
    /\ rows = First
    /\ audit = <<>>
    /\ untracked = {}
    /\ op \in [Requests -> Ops]
    /\ pc = [q \in Requests |-> "idle"]
    /\ item = [q \in Requests |-> 1]
    /\ copy = [q \in Requests |-> NoRow]
    /\ draft = [q \in Requests |-> <<>>]
    /\ pending = [q \in Requests |-> <<>>]
    /\ results = [q \in Requests |-> {}]
    /\ dbFaults = 0

\* The session now holds its target, in version v.
Hold(q, v) ==
    /\ draft' = [draft EXCEPT ![q] = [r \in {Target(q)} \cup DOMAIN @ |-> IF r = Target(q) THEN v ELSE @[r]]]
    /\ results' = [results EXCEPT ![q] = @ \cup {Target(q)}]

\* A request arrives.  POST /references draws a fresh uuid4.
Begin(q) ==
    /\ pc[q] = "idle"
    /\ IF op[q].kind = "create"
       THEN /\ rows[Target(q)] = NoRow /\ Target(q) \notin untracked
            /\ \A p \in Requests : Target(q) \notin DOMAIN draft[p]
            /\ Hold(q, Created(op[q]))
            /\ pc' = [pc EXCEPT ![q] = "commit"]
       ELSE /\ pc' = [pc EXCEPT ![q] = "load"]
            /\ UNCHANGED <<draft, results>>
    /\ UNCHANGED <<rows, audit, untracked, op, item, copy, pending, dbFaults>>

\* Slip: the last id is not recognised.
NextItemAlways(q) ==
    /\ item' = [item EXCEPT ![q] = @ + 1]
    /\ pc' = [pc EXCEPT ![q] = IF item[q] <= Len(op[q].ids) THEN "load" ELSE "commit"]

\* The session moves on to the next id of a batch, or to its commit.
NextItem(q) ==
    /\ item' = [item EXCEPT ![q] = @ + 1]
    /\ pc' = [pc EXCEPT ![q] = IF item[q] < Len(op[q].ids) THEN "load" ELSE "commit"]

\* db.query(ReferenceValue).filter(id).first(): the newest committed
\* row.  A missing row is a 404, or skipped in a batch.
Load(q) ==
    /\ pc[q] = "load"
    /\ \/ /\ rows[Target(q)] # NoRow
          /\ copy' = [copy EXCEPT ![q] = rows[Target(q)]]
          /\ pc' = [pc EXCEPT ![q] = "update"]
          /\ UNCHANGED item
       \/ /\ rows[Target(q)] = NoRow /\ op[q].batch
          /\ NextItem(q)
          /\ UNCHANGED copy
       \/ /\ rows[Target(q)] = NoRow /\ ~op[q].batch
          /\ pc' = [pc EXCEPT ![q] = "missing"]
          /\ UNCHANGED <<item, copy>>
    /\ UNCHANGED <<rows, audit, untracked, op, draft, pending, results, dbFaults>>

\* Slip: get_db does not close the session of a handler that raised.
RollbackKeepsLocks(q) ==
    /\ pc' = [pc EXCEPT ![q] = "failed"]
    /\ pending' = [pending EXCEPT ![q] = <<>>]
    /\ UNCHANGED draft

\* The transaction rolls back and the client gets a 500.
Rollback(q) ==
    /\ pc' = [pc EXCEPT ![q] = "failed"]
    /\ draft' = [draft EXCEPT ![q] = <<>>]
    /\ pending' = [pending EXCEPT ![q] = <<>>]

\* Whether the flush emits a statement: an audited handler always moves
\* updated_at, the PATCH of /references may leave every column as it was.
Writes(q) == Audited(q) \/ op[q].kind = "remove" \/ Changed(op[q], copy[q]) # copy[q]

Holders(q) == {p \in Requests \ {q} : Target(q) \in DOMAIN draft[p]}
Waiting(q) == pc[q] = "update" /\ Writes(q) /\ Holders(q) # {}

\* db.flush() and _audit_ref, once no other session holds the row: an UPDATE
\* of the columns that differ from the copy, then the audit INSERT with the
\* session's own attributes.  An UPDATE of a row deleted meanwhile matches
\* nothing and raises; a DELETE of one does not.
Update(q) ==
    /\ pc[q] = "update" /\ ~Waiting(q)
    /\ \/ /\ ~Writes(q)
          /\ NextItem(q)
          /\ UNCHANGED <<draft, pending, results>>
       \/ /\ op[q].kind = "remove"
          /\ Hold(q, NoRow)
          /\ NextItem(q)
          /\ UNCHANGED pending
       \/ /\ Writes(q) /\ op[q].kind # "remove" /\ rows[Target(q)] # NoRow
          /\ LET new == Changed(op[q], copy[q])
             IN  /\ Hold(q, UpdatedColumns(rows[Target(q)], copy[q], new))
                 /\ pending' = IF Audited(q)
                               THEN [pending EXCEPT ![q] = Append(@, Entry(q, copy[q], new))]
                               ELSE pending
          /\ NextItem(q)
       \/ /\ Writes(q) /\ op[q].kind # "remove" /\ rows[Target(q)] = NoRow
          /\ Rollback(q)
          /\ UNCHANGED <<item, results>>
    /\ UNCHANGED <<rows, audit, untracked, op, copy, dbFaults>>

\* Rows and audit entries become visible, and the locks are released.
Applied(q) ==
    /\ rows' = [r \in Refs |-> IF r \in DOMAIN draft[q] THEN draft[q][r] ELSE rows[r]]
    /\ audit' = audit \o pending[q]
    /\ untracked' = IF Audited(q) THEN untracked ELSE untracked \cup DOMAIN draft[q]
    /\ draft' = [draft EXCEPT ![q] = <<>>]
    /\ pending' = [pending EXCEPT ![q] = <<>>]

Refreshes(q) == op[q].kind \notin {"delete", "remove"} /\ ~op[q].batch

\* Slip: a batch commits after every id.
CommitsEachId(q) ==
    /\ pc[q] = "commit" \/ (pc[q] = "load" /\ item[q] > 1)
    /\ Applied(q)
    /\ pc' = [pc EXCEPT ![q] = IF pc[q] = "load" THEN "load" ELSE "answered"]
    /\ UNCHANGED <<op, item, copy, results, dbFaults>>

\* db.commit(), which can also fail with its acknowledgement lost.
Commit(q) ==
    /\ pc[q] = "commit"
    /\ Applied(q)
    /\ \/ /\ pc' = [pc EXCEPT ![q] = IF Refreshes(q) THEN "refresh" ELSE "answered"]
          /\ UNCHANGED dbFaults
       \/ /\ dbFaults < MaxDbFaults
          /\ pc' = [pc EXCEPT ![q] = "unknown"]
          /\ dbFaults' = dbFaults + 1
    /\ UNCHANGED <<op, item, copy, results>>

\* db.refresh(ref), which raises if the row is gone again.
Refresh(q) ==
    /\ pc[q] = "refresh"
    /\ pc' = [pc EXCEPT ![q] = IF rows[op[q].ids[1]] = NoRow THEN "unknown" ELSE "answered"]
    /\ UNCHANGED <<rows, audit, untracked, op, item, copy, draft, pending, results,
                   dbFaults>>

\* A statement of the transaction fails: the connection is lost, or the
\* server dies.
Abort(q) ==
    /\ pc[q] \in {"load", "update", "commit"} /\ dbFaults < MaxDbFaults
    /\ dbFaults' = dbFaults + 1
    /\ Rollback(q)
    /\ UNCHANGED <<rows, audit, untracked, op, item, copy, results>>

\* PostgreSQL finds a cycle of waiting sessions and aborts one of them.
InCycle(q) ==
    \E D \in SUBSET Requests :
        /\ q \in D /\ \A p \in D : Waiting(p)
        /\ UNION {Holders(p) : p \in D} = D
DeadlockAbort(q) ==
    /\ Waiting(q) /\ InCycle(q)
    /\ Rollback(q)
    /\ UNCHANGED <<rows, audit, untracked, op, item, copy, results, dbFaults>>

-----------------------------------------------------------------------------
Handler(q) == Load(q) \/ Update(q) \/ Commit(q) \/ Refresh(q) \/ DeadlockAbort(q)

Next == \E q \in Requests : Begin(q) \/ Handler(q) \/ Abort(q)

Spec == Init /\ [][Next]_vars

\* A thread runs until it is blocked, and the database resolves deadlocks.
FairSpec == Spec /\ \A q \in Requests : WF_vars(Handler(q))

-----------------------------------------------------------------------------
(* Properties                                                              *)

Working == {"load", "update", "commit", "refresh"}
Ended == {"answered", "missing", "failed", "unknown"}

\* Types; a session that works on a row is within its ids.
TypeOK ==
    /\ rows \in [Refs -> Row \cup {NoRow}]
    /\ untracked \subseteq Refs
    /\ op \in [Requests -> Ops]
    /\ pc \in [Requests -> {"idle"} \cup Working \cup Ended]
    /\ \A q \in Requests : pc[q] \in {"load", "update"} => item[q] \in DOMAIN op[q].ids
    /\ \A q \in Requests : pc[q] = "update" => copy[q] \in Row
    /\ \A q \in Requests : DOMAIN draft[q] \subseteq Refs
    /\ dbFaults \in 0 .. MaxDbFaults

\* The audit trail explains the table: each column of a value is what the last
\* entry that records a change of it says, and its first version if none does,
\* however the reviewers' sessions interleave, fail or are aborted, as long as
\* the unaudited routes leave that value alone.
Sets(e, r, c) == e.id = r /\ e.old_data[c] # e.new_data[c]
Setters(r, c) == {k \in DOMAIN audit : Sets(audit[k], r, c)}
Explained(r, c) ==
    \/ Setters(r, c) = {} /\ rows[r][c] = First[r][c]
    \/ \E k \in Setters(r, c) :
          (\A i \in Setters(r, c) : i <= k) /\ rows[r][c] = audit[k].new_data[c]
AuditReplays ==
    \A r \in Refs \ untracked :
        DOMAIN rows[r] = DOMAIN First[r] /\ \A c \in DOMAIN rows[r] : Explained(r, c)

\* Until a request's transaction commits, and for ever if it is rolled back,
\* no audit entry of the request is visible; once it commits, there is one
\* for exactly the ids it found.  A batch is no exception: it applies as a
\* whole or not at all, and one that ended holds no row.
EntriesOf(q) == {audit[k].id : k \in {i \in DOMAIN audit : audit[i].by = q}}
Committed == {"refresh", "answered", "unknown"}
AllOrNothing ==
    \A q \in Requests :
        /\ EntriesOf(q) = IF pc[q] \in Committed /\ Audited(q) THEN results[q] ELSE {}
        /\ pc[q] \in Ended => draft[q] = <<>>

\* Every request is answered: no order of two batches' ids blocks a session
\* for ever.
EveryRequestEnds == \A q \in Requests : pc[q] = "load" ~> pc[q] \in Ended

=============================================================================
