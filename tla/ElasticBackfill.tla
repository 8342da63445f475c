--------------------------- MODULE ElasticBackfill ---------------------------
(***************************************************************************)
(* ElasticBackfiller: elastic constants of completed legacy verifications  *)
(* copied into reference_values.  A pass fetches the result rows once and  *)
(* handles them one by one: extract, look for the same record in the       *)
(* table, gate, insert.  The table is shared with other passes (a CLI and  *)
(* an orchestrator may both start one) and nothing in it enforces that a   *)
(* record is unique, so each request to the database is an action.         *)
(***************************************************************************)
EXTENDS ReferenceNames, Sequences, FiniteSets

CONSTANTS
    Passes,       \* passes, each with its own ElasticBackfiller
    DryPasses,    \* those run with dry_run=True
    Results,      \* result rows a query of completed verifications can return
    Fetches,      \* the orders and selections it can return them in
    Stored,       \* records in reference_values at the start
    MaxDbFaults   \* bound: requests the database answers with an error

\* A result row, reduced to the record write_to_reference_db would build from
\* it, and whether its value parses and lies in the property's range.  method
\* is the same for all records, source names the potential.
Record == [element_system : STRING, phase : STRING, property : STRING, source : STRING]
Result == [record : Record, parses : BOOLEAN, in_range : BOOLEAN]

ASSUME DryAssumption == DryPasses \subseteq Passes
ASSUME ResultsAssumption == Results \subseteq Result
ASSUME FetchesAssumption == Fetches \subseteq Seq(Results)
ASSUME FaultsAssumption == MaxDbFaults \in Nat

VARIABLES
    reference_values,   \* records inserted by passes: <<pass, record>>, in order
    pc,                 \* where each pass is
    rows,               \* what its fetch returned
    pos,                \* index of the row being handled
    stats,              \* BackfillStats of each pass
    dbFaults,           \* database errors so far
    lostAcks,           \* history: inserts of a pass applied but answered with an error
    excused             \* history: records inserted blindly or in a race

vars == <<reference_values, pc, rows, pos, stats, dbFaults, lostAcks, excused>>

ELASTIC_PROPERTIES == {"C11", "C12", "C44"}

BackfillStats == [queried : Nat, extracted : Nat, written : Nat, duplicates : Nat,
                  rejected : Nat, errors : Nat]
NoStats == [queried |-> 0, extracted |-> 0, written |-> 0, duplicates |-> 0,
            rejected |-> 0, errors |-> 0]

Count(p, field) == stats' = [stats EXCEPT ![p][field] = @ + 1]

Existing == Stored \cup {reference_values[k][2] : k \in 1 .. Len(reference_values)}
Row(p) == rows[p][pos[p]]

-----------------------------------------------------------------------------
Init ==
    /\ reference_values = <<>>
    /\ pc = [p \in Passes |-> "start"]
    /\ rows = [p \in Passes |-> <<>>]
    /\ pos = [p \in Passes |-> 1]
    /\ stats = [p \in Passes |-> NoStats]
    /\ dbFaults = 0
    /\ lostAcks = [p \in Passes |-> 0]
    /\ excused = {}

\* A request the database answers with an error.
Fault == dbFaults < MaxDbFaults /\ dbFaults' = dbFaults + 1

\* fetch_completed_verifications.  An error is counted and ends the pass
\* with no rows.
Fetch(p) ==
    /\ pc[p] = "start"
    /\ pc' = [pc EXCEPT ![p] = "extract"]
    /\ \/ /\ \E f \in Fetches :
                /\ rows' = [rows EXCEPT ![p] = f]
                /\ stats' = [stats EXCEPT ![p].queried = Len(f)]
          /\ UNCHANGED dbFaults
       \/ Fault /\ Count(p, "errors") /\ UNCHANGED rows
    /\ UNCHANGED <<reference_values, pos, lostAcks, excused>>

\* The row is finished with.
NextRow(p) ==
    /\ pos' = [pos EXCEPT ![p] = @ + 1]
    /\ pc' = [pc EXCEPT ![p] = "extract"]

extract_elastic_constants(r) == r.parses /\ r.record.property \in ELASTIC_PROPERTIES

\* The head of run_backfill's loop.  A dry pass counts the row as written
\* and goes on.
Extract(p) ==
    /\ pc[p] = "extract" /\ pos[p] <= Len(rows[p])
    /\ \/ /\ ~extract_elastic_constants(Row(p))
          /\ NextRow(p)
          /\ UNCHANGED stats
       \/ /\ extract_elastic_constants(Row(p)) /\ p \in DryPasses
          /\ NextRow(p)
          /\ stats' = [stats EXCEPT ![p].extracted = @ + 1, ![p].written = @ + 1]
       \/ /\ extract_elastic_constants(Row(p)) /\ p \notin DryPasses
          /\ pc' = [pc EXCEPT ![p] = "select"]
          /\ Count(p, "extracted")
          /\ UNCHANGED pos
    /\ UNCHANGED <<reference_values, rows, dbFaults, lostAcks, excused>>

\* write_to_reference_db up to its insert: the records with the same key (an
\* error counts as none), the quality gate, the dedup check.
passes_quality_gate(r) == r.in_range

\* Slip: a row answered as a duplicate is counted as written, too.
DecideCountsTwice(p, existing, why) ==
    IF ~passes_quality_gate(Row(p)) THEN Count(p, "rejected") /\ NextRow(p) /\ UNCHANGED excused
    ELSE IF Row(p).record \in existing
    THEN /\ stats' = [stats EXCEPT ![p].duplicates = @ + 1, ![p].written = @ + 1]
         /\ NextRow(p) /\ UNCHANGED excused
    ELSE /\ pc' = [pc EXCEPT ![p] = "insert"]
         /\ excused' = excused \cup why
         /\ UNCHANGED <<pos, stats>>

Decide(p, existing, why) ==
    IF ~passes_quality_gate(Row(p)) THEN Count(p, "rejected") /\ NextRow(p) /\ UNCHANGED excused
    ELSE IF Row(p).record \in existing
    THEN Count(p, "duplicates") /\ NextRow(p) /\ UNCHANGED excused
    ELSE /\ pc' = [pc EXCEPT ![p] = "insert"]
         /\ excused' = excused \cup why
         /\ UNCHANGED <<pos, stats>>

\* Slip: what the fetch saw is taken for what is in the table.
SelectOnce(p) ==
    /\ pc[p] = "select"
    /\ Decide(p, Stored, {})
    /\ UNCHANGED <<reference_values, rows, dbFaults, lostAcks>>

Select(p) ==
    /\ pc[p] = "select"
    /\ \/ Decide(p, Existing, {}) /\ UNCHANGED dbFaults
       \/ Decide(p, {}, {Row(p).record}) /\ Fault
    /\ UNCHANGED <<reference_values, rows, lostAcks>>

\* Some other pass is between its check and its insert of the same record.
Racing(p) == \E q \in Passes \ {p} : pc[q] = "insert" /\ Row(q).record = Row(p).record

Inserted(p) ==
    /\ reference_values' = Append(reference_values, <<p, Row(p).record>>)
    /\ excused' = IF Racing(p) THEN excused \cup {Row(p).record} ELSE excused

\* The insert is answered, refused, or applied with its answer lost.
Insert(p) ==
    /\ pc[p] = "insert"
    /\ NextRow(p)
    /\ \/ Inserted(p) /\ Count(p, "written") /\ UNCHANGED <<dbFaults, lostAcks>>
       \/ Fault /\ Count(p, "errors") /\ UNCHANGED <<reference_values, lostAcks, excused>>
       \/ /\ Fault /\ Inserted(p) /\ Count(p, "errors")
          /\ lostAcks' = [lostAcks EXCEPT ![p] = @ + 1]
    /\ UNCHANGED rows

\* run_backfill returns its stats.
Return(p) ==
    /\ pc[p] = "extract" /\ pos[p] > Len(rows[p])
    /\ pc' = [pc EXCEPT ![p] = "done"]
    /\ UNCHANGED <<reference_values, rows, pos, stats, dbFaults, lostAcks, excused>>

Next == \E p \in Passes :
            Fetch(p) \/ Extract(p) \/ Select(p) \/ Insert(p) \/ Return(p)

Spec == Init /\ [][Next]_vars

-----------------------------------------------------------------------------
(* Properties                                                              *)

Copies(rec) == {k \in 1 .. Len(reference_values) : reference_values[k][2] = rec}
InsertedBy(p) == {k \in 1 .. Len(reference_values) : reference_values[k][1] = p}

\* Types; a pass never handles a row beyond its fetch.
TypeOK ==
    /\ reference_values \in Seq(Passes \X Record)
    /\ pc \in [Passes -> {"start", "extract", "select", "insert", "done"}]
    /\ rows \in [Passes -> Seq(Results)]
    /\ \A p \in Passes : pos[p] \in 1 .. Len(rows[p]) + 1
    /\ \A p \in Passes : pc[p] \in {"select", "insert"} => pos[p] <= Len(rows[p])
    /\ stats \in [Passes -> BackfillStats]
    /\ dbFaults \in 0 .. MaxDbFaults
    /\ lostAcks \in [Passes -> 0 .. MaxDbFaults]

\* The statistics account for what happened to the table: a pass has written
\* what it counted as written, and beyond that only inserts whose answer was
\* lost; every extracted row is in exactly one count, or being handled.
StatsTellTable ==
    \A p \in Passes \ DryPasses :
        LET s == stats[p] IN
        /\ Cardinality(InsertedBy(p)) = s.written + lostAcks[p]
        /\ rows[p] # <<>> =>
              s.extracted = s.written + s.duplicates + s.rejected + s.errors
                            + (IF pc[p] \in {"select", "insert"} THEN 1 ELSE 0)

\* A record is in the table twice only if it was inserted blindly (the query
\* for existing records failed) or while another pass was between its check
\* and its insert of the same record: passes that follow one another, with a
\* database that answers, keep records unique whatever else fails.
TwiceOnlyIfExcused ==
    \A k \in 1 .. Len(reference_values) :
        LET rec == reference_values[k][2] IN
        rec \in Stored \/ Cardinality(Copies(rec)) > 1 => rec \in excused

=============================================================================
