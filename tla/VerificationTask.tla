-------------------------- MODULE VerificationTask --------------------------
(***************************************************************************)
(* POST /verify and the background task it starts: the row of              *)
(* verification_tasks, the asyncio task that fills it, the LAMMPS          *)
(* processes the task awaits, and the crashes of the server in between.    *)
(*                                                                         *)
(* Between two awaits that really suspend (the LAMMPS process) the task    *)
(* runs without interruption, but every write to the row is a transaction  *)
(* of its own and the server may die between any two of them, so each      *)
(* write is an action.                                                     *)
(***************************************************************************)
EXTENDS TemplateGrades, FiniteSets

CONSTANTS
    Jobs,           \* job ids: uuid4, one per submission
    Templates,      \* the templates clients ask for
    Letters,        \* letters the reference table can lead to
    ZeroReferences, \* whether the table holds a reference value of 0
    MaxDbFaults,    \* bound: writes the database answers with an error
    MaxCrashes      \* bound: deaths of the server process

ASSUME TemplatesAssumption == Templates \subseteq Template
ASSUME LettersAssumption == Letters \subseteq Grade
ASSUME ZeroAssumption == ZeroReferences \in BOOLEAN
ASSUME BoundsAssumption == MaxDbFaults \in Nat /\ MaxCrashes \in Nat

VARIABLES
    serverUp,   \* is the uvicorn process alive
    row,        \* the row of verification_tasks of each job
    template,   \* the template argument of each job's task
    pc,         \* where each job's task is
    cursor,     \* index in TEMPLATE_PROPERTIES of the property being run
    runs,       \* LAMMPS processes that property has already awaited
    computed,   \* all_results in the task's memory
    reached,    \* current_progress in the task's memory
    succeeded,  \* whether the property just run returned or raised
    abandoned,  \* LAMMPS processes of the job that run on unawaited
    verified,   \* jobs whose results are in the potential's extra bag
    dbFaults,   \* database errors so far
    crashes,    \* server deaths so far
    excuse      \* history: the faults that hit a job's row or task

taskVars == <<template, pc, cursor, runs, computed, reached, succeeded>>
vars == <<serverUp, row, taskVars, abandoned, verified, dbFaults, crashes, excuse>>

-----------------------------------------------------------------------------
(* The row: rating_metrics' progress, current_step and results, and the    *)
(* status, rating and error_message columns.                               *)

Status == {"absent", "queued", "running", "completed", "failed"}
Step == {<<"none">>, <<"queued">>, <<"done">>, <<"failed">>}
            \cup {<<p, w>> : p \in Property, w \in {"done", "failed"}}

Row == [status : Status, progress : 0 .. 100, step : Step,
        results : [Property -> Outcome], rating : Grade \cup {"none"}, error : BOOLEAN]

NoRow == [status |-> "absent", progress |-> 0, step |-> <<"none">>,
          results |-> NoResults, rating |-> "none", error |-> FALSE]

\* create_verification of the record the handler builds; "pending" is
\* stored as 'queued' (_map_status_in).
NewRow == [NoRow EXCEPT !.status = "queued", !.step = <<"queued">>]

\* What get_verification's callers see of the status column.
map_status_out(s) == IF s = "queued" THEN "pending" ELSE s

\* Slip: the failure callback reports progress 0.
ProgressedFromZero(r, p, ok, n) ==
    [r EXCEPT !.status = "running", !.progress = IF ok THEN n ELSE 0,
              !.step = <<p, IF ok THEN "done" ELSE "failed">>]

\* The three partial updates of a row the task issues.
Progressed(r, p, ok, n) ==
    [r EXCEPT !.status = "running", !.progress = n,
              !.step = <<p, IF ok THEN "done" ELSE "failed">>]
Completed(r, res) ==
    [r EXCEPT !.status = "completed", !.progress = 100, !.step = <<"done">>,
              !.results = res, !.rating = OverallGrade(res)]
Failed(r) ==
    [r EXCEPT !.status = "failed", !.step = <<"failed">>, !.error = TRUE]

\* json.dumps writes float("inf") as Infinity, which jsonb rejects.
Storable(res) == \A p \in Property : res[p].finite

\* How one transaction can end: applied, not applied (the error is raised),
\* or applied with the acknowledgement lost (the error is raised as well).
WriteEnd == {"ok", "refused", "unacked"}

\* A write of r to job j's row that ends as e.
Write(j, r, e) ==
    /\ e \in WriteEnd
    /\ row' = IF e = "refused" THEN row ELSE [row EXCEPT ![j] = r]
    /\ e # "ok" => dbFaults < MaxDbFaults
    /\ dbFaults' = IF e = "ok" THEN dbFaults ELSE dbFaults + 1

Excuse(j, why) == excuse' = [excuse EXCEPT ![j] = @ \cup {why}]

-----------------------------------------------------------------------------
Init ==
    /\ serverUp = TRUE
    /\ row = [j \in Jobs |-> NoRow]
    /\ template \in [Jobs -> Templates]
    /\ pc = [j \in Jobs |-> "idle"]
    /\ cursor = [j \in Jobs |-> 1]
    /\ runs = [j \in Jobs |-> 0]
    /\ computed = [j \in Jobs |-> NoResults]
    /\ reached = [j \in Jobs |-> 0]
    /\ succeeded = [j \in Jobs |-> FALSE]
    /\ abandoned = [j \in Jobs |-> 0]
    /\ verified = {}
    /\ dbFaults = 0
    /\ crashes = 0
    /\ excuse = [j \in Jobs |-> {}]

-----------------------------------------------------------------------------
(* POST /verify                                                            *)

\* submit_supabase_verify, from the INSERT on.  The handler validates the
\* template and finds the potential first; those refusals change nothing.
\* When the INSERT raises the client gets a 500 and no task is started.
Submit(j) ==
    /\ serverUp /\ pc[j] = "idle"
    /\ \E e \in WriteEnd :
        /\ Write(j, NewRow, e)
        /\ pc' = [pc EXCEPT ![j] = IF e = "ok" THEN "scheduled" ELSE "refused"]
        /\ IF e = "unacked" THEN Excuse(j, "insert") ELSE UNCHANGED excuse
    /\ UNCHANGED <<serverUp, template, cursor, runs, computed, reached, succeeded,
                   abandoned, verified, crashes>>

-----------------------------------------------------------------------------
(* _run_lammps_verification                                                *)

\* The task starts: get_potential again, then the runner and its template.
Start(j) ==
    /\ serverUp /\ pc[j] = "scheduled"
    /\ pc' = [pc EXCEPT ![j] = "property"]
    /\ UNCHANGED <<serverUp, row, template, cursor, runs, computed, reached,
                   succeeded, abandoned, verified, dbFaults, crashes, excuse>>

\* Slip: get_potential is called before the try block.
StartFailsOutsideTry(j) ==
    /\ serverUp /\ pc[j] = "scheduled"
    /\ pc' = [pc EXCEPT ![j] = "done"]
    /\ UNCHANGED <<serverUp, row, template, cursor, runs, computed, reached,
                   succeeded, abandoned, verified, dbFaults, crashes, excuse>>

\* The potential is gone since the handler saw it, or the read fails.
StartFails(j) ==
    /\ serverUp /\ pc[j] = "scheduled"
    /\ pc' = [pc EXCEPT ![j] = "failing"]
    /\ UNCHANGED <<serverUp, row, template, cursor, runs, computed, reached,
                   succeeded, abandoned, verified, dbFaults, crashes, excuse>>

Properties(j) == TEMPLATE_PROPERTIES[template[j]]
Current(j) == Properties(j)[cursor[j]]

\* run_property reaches its next _run_lammps: the subprocess starts and
\* the task suspends in proc.communicate().
Spawn(j) ==
    /\ serverUp /\ pc[j] = "property"
    /\ pc' = [pc EXCEPT ![j] = "lammps"]
    /\ UNCHANGED <<serverUp, row, template, cursor, runs, computed, reached,
                   succeeded, abandoned, verified, dbFaults, crashes, excuse>>

\* run_property raised: run_template's except branch records the error and
\* leaves current_progress as it is.
Raised(j) ==
    /\ pc' = [pc EXCEPT ![j] = "report"]
    /\ computed' = [computed EXCEPT ![j][Current(j)] = Empty]
    /\ succeeded' = [succeeded EXCEPT ![j] = FALSE]
    /\ runs' = [runs EXCEPT ![j] = 0]
    /\ UNCHANGED <<cursor, reached>>

\* No potential file, an input that cannot be generated, no process.
SpawnFails(j) ==
    /\ serverUp /\ pc[j] = "property"
    /\ Raised(j)
    /\ UNCHANGED <<serverUp, row, template, abandoned, verified, dbFaults, crashes, excuse>>

\* The process exits with 0 and the property needs another run.
LammpsExits(j) ==
    /\ serverUp /\ pc[j] = "lammps"
    /\ runs[j] + 1 < LAMMPS_RUNS[Current(j)]
    /\ pc' = [pc EXCEPT ![j] = "property"]
    /\ runs' = [runs EXCEPT ![j] = @ + 1]
    /\ UNCHANGED <<serverUp, row, template, cursor, computed, reached, succeeded,
                   abandoned, verified, dbFaults, crashes, excuse>>

\* The last process of the property exits with 0: the property is graded
\* and the progress moves to the property's milestone.
PropertyReturns(j) ==
    /\ serverUp /\ pc[j] = "lammps"
    /\ runs[j] + 1 = LAMMPS_RUNS[Current(j)]
    /\ pc' = [pc EXCEPT ![j] = "report"]
    /\ \E o \in OutcomesOf(Current(j), Letters, ZeroReferences) :
            computed' = [computed EXCEPT ![j][Current(j)] = o]
    /\ reached' = [reached EXCEPT ![j] =
                      IF @ < PROGRESS_MAP[Current(j)] THEN PROGRESS_MAP[Current(j)] ELSE @]
    /\ succeeded' = [succeeded EXCEPT ![j] = TRUE]
    /\ runs' = [runs EXCEPT ![j] = 0]
    /\ UNCHANGED <<serverUp, row, template, cursor, abandoned, verified, dbFaults,
                   crashes, excuse>>

\* The process exits with an error, or its output cannot be used.
LammpsFails(j) ==
    /\ serverUp /\ pc[j] = "lammps"
    /\ Raised(j)
    /\ UNCHANGED <<serverUp, row, template, abandoned, verified, dbFaults, crashes, excuse>>

\* Slip: a timed-out process is retried without a trace in the results.
LammpsTimesOutRetries(j) ==
    /\ serverUp /\ pc[j] = "lammps" /\ abandoned[j] < 2
    /\ pc' = [pc EXCEPT ![j] = "property"]
    /\ abandoned' = [abandoned EXCEPT ![j] = @ + 1]
    /\ UNCHANGED <<serverUp, row, template, cursor, runs, computed, reached, succeeded,
                   verified, dbFaults, crashes, excuse>>

\* wait_for gives up after 300 s.  Nothing kills the process: it runs on in
\* a directory that has been removed.
LammpsTimesOut(j) ==
    /\ serverUp /\ pc[j] = "lammps"
    /\ Raised(j)
    /\ abandoned' = [abandoned EXCEPT ![j] = @ + 1]
    /\ UNCHANGED <<serverUp, row, template, verified, dbFaults, crashes, excuse>>

\* An abandoned process ends by itself, sooner or later.
AbandonedEnds(j) ==
    /\ abandoned[j] > 0
    /\ abandoned' = [abandoned EXCEPT ![j] = @ - 1]
    /\ UNCHANGED <<serverUp, row, taskVars, verified, dbFaults, crashes, excuse>>

\* Slip: the loop ends one property early.
ReportEndsEarly(j) ==
    /\ serverUp /\ pc[j] = "report"
    /\ \E e \in {"ok", "refused"} :
        Write(j, Progressed(row[j], Current(j), succeeded[j], reached[j]), e)
    /\ pc' = [pc EXCEPT ![j] =
                IF cursor[j] + 1 < Len(Properties(j)) THEN "property" ELSE "publish"]
    /\ cursor' = [cursor EXCEPT ![j] = @ + 1]
    /\ UNCHANGED <<serverUp, template, runs, computed, reached, succeeded, abandoned,
                   verified, crashes, excuse>>

\* Slip: a property that raised is run again instead of being recorded.
ReportRetriesFailed(j) ==
    /\ serverUp /\ pc[j] = "report"
    /\ Write(j, Progressed(row[j], Current(j), succeeded[j], reached[j]), "ok")
    /\ pc' = [pc EXCEPT ![j] =
                IF cursor[j] < Len(Properties(j)) \/ ~succeeded[j]
                THEN "property" ELSE "publish"]
    /\ cursor' = [cursor EXCEPT ![j] = IF succeeded[j] THEN @ + 1 ELSE @]
    /\ UNCHANGED <<serverUp, template, runs, computed, reached, succeeded, abandoned,
                   verified, crashes, excuse>>

\* progress_callback: errors are logged and forgotten, and the loop goes on.
Report(j) ==
    /\ serverUp /\ pc[j] = "report"
    /\ \E e \in {"ok", "refused"} :
        Write(j, Progressed(row[j], Current(j), succeeded[j], reached[j]), e)
    /\ pc' = [pc EXCEPT ![j] =
                IF cursor[j] < Len(Properties(j)) THEN "property" ELSE "publish"]
    /\ cursor' = [cursor EXCEPT ![j] = @ + 1]
    /\ UNCHANGED <<serverUp, template, runs, computed, reached, succeeded, abandoned,
                   verified, crashes, excuse>>

\* The completing update: status, progress, step, results and grade in one
\* statement.  If it raises, the task takes its failure path.
Publish(j) ==
    /\ serverUp /\ pc[j] = "publish"
    /\ IF Storable(computed[j])
       THEN \E e \in WriteEnd :
                /\ Write(j, Completed(row[j], computed[j]), e)
                /\ pc' = [pc EXCEPT ![j] = IF e = "ok" THEN "writeback" ELSE "failing"]
                /\ IF e = "unacked" THEN Excuse(j, "publish") ELSE UNCHANGED excuse
       ELSE /\ pc' = [pc EXCEPT ![j] = "failing"]
            /\ UNCHANGED <<row, dbFaults, excuse>>
    /\ UNCHANGED <<serverUp, template, cursor, runs, computed, reached, succeeded,
                   abandoned, verified, crashes>>

\* update_potential(id, keys): only if one of the keys is a column does it
\* write anything, and only then do the other keys go to the extra bag.
POTENTIAL_COLUMNS == {"name", "display_name", "subtype", "format", "lammps_config",
                      "file_url", "status", "file_hash"}
UpdatePotential(j, keys) ==
    verified' = IF keys \cap POTENTIAL_COLUMNS # {} /\ "verified_props" \in keys
                THEN verified \cup {j} ELSE verified

\* Slip: the write-back is not guarded by a try block of its own.
WriteBackUnguarded(j) ==
    /\ serverUp /\ pc[j] = "writeback"
    /\ pc' \in {[pc EXCEPT ![j] = "done"], [pc EXCEPT ![j] = "failing"]}
    /\ UpdatePotential(j, {"verified_props"})
    /\ UNCHANGED <<serverUp, row, template, cursor, runs, computed, reached, succeeded,
                   abandoned, dbFaults, crashes, excuse>>

\* The write-back of the results to the potential.
WriteBack(j) ==
    /\ serverUp /\ pc[j] = "writeback"
    /\ pc' = [pc EXCEPT ![j] = "done"]
    /\ UpdatePotential(j, {"verified_props"})
    /\ UNCHANGED <<serverUp, row, template, cursor, runs, computed, reached, succeeded,
                   abandoned, dbFaults, crashes, excuse>>

\* The outer except: mark the row failed; if that raises too, give up.
Fail(j) ==
    /\ serverUp /\ pc[j] = "failing"
    /\ pc' = [pc EXCEPT ![j] = "done"]
    /\ \E e \in WriteEnd :
        /\ Write(j, Failed(row[j]), e)
        /\ IF e = "refused" THEN Excuse(j, "fail") ELSE UNCHANGED excuse
    /\ UNCHANGED <<serverUp, template, cursor, runs, computed, reached, succeeded,
                   abandoned, verified, crashes>>

-----------------------------------------------------------------------------
(* The server                                                              *)

Live == {"scheduled", "property", "lammps", "report", "publish", "writeback", "failing"}

\* The process dies: every task is gone with its memory.  A LAMMPS child
\* dies with its container or runs on.  A request that had just inserted
\* its row and not yet started its task is a task that dies "scheduled".
Crash ==
    /\ serverUp /\ crashes < MaxCrashes
    /\ serverUp' = FALSE
    /\ crashes' = crashes + 1
    /\ pc' = [j \in Jobs |-> IF pc[j] \in Live THEN "lost" ELSE pc[j]]
    /\ computed' = [j \in Jobs |-> IF pc[j] \in Live THEN NoResults ELSE computed[j]]
    /\ excuse' = [j \in Jobs |-> IF pc[j] \in Live THEN excuse[j] \cup {"crash"}
                                 ELSE excuse[j]]
    /\ \/ abandoned' = [j \in Jobs |-> 0]
       \/ abandoned' = [j \in Jobs |-> IF pc[j] = "lammps" THEN abandoned[j] + 1
                                       ELSE abandoned[j]]
    /\ UNCHANGED <<row, template, cursor, runs, reached, succeeded, verified, dbFaults>>

\* main.create_app runs again.  Nothing looks for unfinished rows.
Restart ==
    /\ ~serverUp
    /\ serverUp' = TRUE
    /\ UNCHANGED <<row, taskVars, abandoned, verified, dbFaults, crashes, excuse>>

-----------------------------------------------------------------------------
TaskStep(j) ==
    \/ Start(j) \/ StartFails(j) \/ Spawn(j) \/ SpawnFails(j)
    \/ LammpsExits(j) \/ PropertyReturns(j) \/ LammpsFails(j) \/ LammpsTimesOut(j)
    \/ Report(j) \/ Publish(j) \/ WriteBack(j) \/ Fail(j)

Next ==
    \/ \E j \in Jobs : Submit(j) \/ TaskStep(j) \/ AbandonedEnds(j)
    \/ Crash
    \/ Restart

Spec == Init /\ [][Next]_vars

\* The event loop runs every ready task, and wait_for bounds each process.
FairSpec == Spec /\ \A j \in Jobs : WF_vars(TaskStep(j))

-----------------------------------------------------------------------------
(* Properties                                                              *)

PC == Live \cup {"idle", "refused", "done", "lost"}

\* Every variable has its type: progress is a percentage, the cursor stays
\* within the template, and no process count goes below zero.
TypeOK ==
    /\ serverUp \in BOOLEAN
    /\ row \in [Jobs -> Row]
    /\ template \in [Jobs -> Templates]
    /\ pc \in [Jobs -> PC]
    /\ cursor \in [Jobs -> 1 .. 6]
    /\ runs \in [Jobs -> 0 .. 6]
    /\ computed \in [Jobs -> [Property -> Outcome]]
    /\ reached \in [Jobs -> 0 .. 75]
    /\ succeeded \in [Jobs -> BOOLEAN]
    /\ abandoned \in [Jobs -> Nat]
    /\ verified \subseteq Jobs
    /\ dbFaults \in 0 .. MaxDbFaults
    /\ crashes \in 0 .. MaxCrashes
    /\ excuse \in [Jobs -> SUBSET {"insert", "publish", "fail", "crash"}]

Answered(results) == {p \in Property : results[p].kind # "absent"}

Unpublished(r) == r.results = NoResults /\ r.rating = "none" /\ r.status # "completed"
Whole(r, t) == /\ Answered(r.results) = PropertiesOf(t)
               /\ r.progress = 100
               /\ r.rating = OverallGrade(r.results)

\* Whatever fails, times out or crashes, a row shows either no results and
\* no grade, or an entry for exactly the properties of its template, the
\* grade of those entries and progress 100; a completed row shows the latter.
WholeOrNothing == \A j \in Jobs : Unpublished(row[j]) \/ Whole(row[j], template[j])

\* A row that says queued or running has a task working on it, unless the
\* server died under it, its INSERT was applied but answered with an error,
\* or the write that marks it failed was refused: nothing else may leave a
\* client polling for ever.
StrandedOnlyByFault ==
    \A j \in Jobs :
        row[j].status \in {"queued", "running"} /\ pc[j] \notin Live
            => excuse[j] \cap {"insert", "crash", "fail"} # {}

\* Published results are marked failed only when the completing update was
\* applied and its acknowledgement lost; in particular a failing write-back
\* to the potential does not turn a completed job into a failed one.
RevokedOnlyByLostAck ==
    \A j \in Jobs : row[j].status = "failed" /\ ~Unpublished(row[j])
                        => "publish" \in excuse[j]

\* A LAMMPS process that outlives its property (wait_for does not kill it)
\* is accounted for by an entry without a value in the task's results.
AbandonedExplained ==
    \A j \in Jobs : pc[j] # "lost" =>
        abandoned[j] <= Cardinality({p \in Property : computed[j][p].kind = "empty"})

\* How far a job is, from the task's position: the properties answered in
\* memory are exactly those before the cursor (and the current one, once it
\* returned or raised), the row is unpublished and not ahead of the task
\* until the completing update, and every way of ending leaves the row
\* terminal or the fault that prevented it in the job's excuse.
Before(j, n) == {Properties(j)[k] : k \in 1 .. n}

Open(j) == row[j].status \in {"queued", "running"} /\ Unpublished(row[j])
                /\ row[j].progress <= reached[j]
Closed(j) == row[j].status = "completed" /\ Whole(row[j], template[j])
Revoked(j) == /\ row[j].status = "failed"
              /\ \/ Unpublished(row[j])
                 \/ Whole(row[j], template[j]) /\ "publish" \in excuse[j]

Matches(j) ==
    /\ pc[j] \in {"idle", "refused", "scheduled"} =>
          cursor[j] = 1 /\ computed[j] = NoResults /\ reached[j] = 0
    /\ pc[j] = "idle" => row[j] = NoRow
    /\ pc[j] = "refused" => row[j] = NoRow \/ (row[j] = NewRow /\ "insert" \in excuse[j])
    /\ pc[j] = "scheduled" => row[j] = NewRow
    /\ pc[j] \in {"property", "lammps"} =>
          Open(j) /\ cursor[j] <= Len(Properties(j))
                  /\ Answered(computed[j]) = Before(j, cursor[j] - 1)
    /\ pc[j] = "report" =>
          Open(j) /\ cursor[j] <= Len(Properties(j))
                  /\ Answered(computed[j]) = Before(j, cursor[j])
    /\ pc[j] = "publish" => Open(j) /\ Answered(computed[j]) = PropertiesOf(template[j])
    /\ pc[j] = "writeback" => Closed(j)
    /\ pc[j] = "failing" => Open(j) \/ (Closed(j) /\ "publish" \in excuse[j])
    /\ pc[j] = "done" =>
          Closed(j) \/ Revoked(j) \/ (Open(j) /\ "fail" \in excuse[j])
    /\ pc[j] = "lost" => "crash" \in excuse[j] /\ (Open(j) \/ Closed(j))

RowMatchesTask == \A j \in Jobs : Matches(j)

IInv == TypeOK /\ RowMatchesTask

\* The row, read through GET /verify/{job_id}, is a job lifecycle: it moves
\* forward only, its progress never falls, its results appear once.
Lifecycle == INSTANCE JobLifecycle WITH
    phase    <- [j \in Jobs |-> map_status_out(row[j].status)],
    shown    <- [j \in Jobs |-> row[j].progress],
    report   <- [j \in Jobs |-> <<row[j].results, row[j].rating>>],
    NoReport <- <<NoResults, "none">>
LifecycleRefined == Lifecycle!Spec

\* A job the API accepted (its task is scheduled) ends completed or failed,
\* unless the server died under it or the write marking it failed was
\* refused: no processing error, timeout or lost progress write stalls it.
AcceptedSettles ==
    \A j \in Jobs : pc[j] = "scheduled"
        ~> row[j].status \in {"completed", "failed"} \/ excuse[j] \cap {"crash", "fail"} # {}

-----------------------------------------------------------------------------
(* What the documentation says and the code does not do.                   *)

\* supabase_client.py:105: keys update_potential has no column for are
\* "packed into the extra jsonb bag so no caller data is silently dropped".
WriteBackKept ==
    \A j \in Jobs : pc[j] = "done" /\ row[j].status = "completed" /\ excuse[j] = {}
                        => j \in verified

=============================================================================
