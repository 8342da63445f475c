----------------------------- MODULE LegacyJobs -----------------------------
(***************************************************************************)
(* The first generation of the API: potentials and verification jobs in a  *)
(* database of their own, the worker function that executes a job, and     *)
(* the report.  Each request and each execution has a session; a commit is *)
(* a transaction that is applied, refused, or applied with an exception    *)
(* after it (its answer is lost, or the refresh that follows it fails).    *)
(* The worker function takes no claim on a job: whoever calls it, as often *)
(* as they like, executes the job.                                         *)
(***************************************************************************)
EXTENDS Naturals, Sequences, FiniteSets

CONSTANTS
    None,         \* no row, no name, no answer
    Requests,     \* POST /potentials, /verification and /verification/v2
    Executions,   \* calls of _execute_verification
    Readers,      \* GET /verification/{jid}/report
    Names,        \* names of potentials
    Lists,        \* property lists a request can ask for
    MaxDbFaults,  \* bound: statements the database answers with an error
    MaxKills      \* bound: worker processes that die

Supported == {"lattice_constant", "cohesive_energy", "elastic_constants"}
Property == Supported \cup {"bulk_modulus", "vacancy_formation_energy"}

Kind == {"potential", "v1", "v2"}
Call == [kind : Kind, name : Names, properties : Lists]
NoCall == [kind |-> None, name |-> None, properties |-> <<>>]
Status == {"pending", "running", "completed"}
Job == [potential : Requests, properties : Lists, status : Status,
        completed_by : Executions \cup {None}]
Code == {201, 202, 404, 409, 500}

ASSUME NoneAssumption ==
    None \notin Requests \cup Executions \cup Names /\ None \notin Job /\ None \notin Code
ASSUME ActorsAssumption == Requests \cap Executions = {}
ASSUME ListsAssumption == Lists \subseteq Seq(Property)
ASSUME BoundsAssumption == MaxDbFaults \in Nat /\ MaxKills \in Nat

VARIABLES
    potentials,  \* name of the potential with the id that a request drew
    jobs,        \* the row a request inserted into verification_jobs
    results,     \* rows of verification_results, per job, in order of their ids
    call,        \* what each request asks for
    pc,          \* where each request and execution is
    found,       \* the potential a request selected or created
    answer,      \* the HTTP status each request was answered with
    doing,       \* the job an execution works on
    seen,        \* the status its session holds for that job
    position,    \* properties it has gone through
    added,       \* result rows in its session
    report,      \* the job a reader asked for, the completion it saw, the rows
    dbFaults, kills,
    unacked      \* history: requests and executions with a commit applied and not answered

requestVars == <<potentials, call, found, answer>>
executionVars == <<doing, seen, position, added>>
vars == <<jobs, results, pc, requestVars, executionVars, report, dbFaults, kills, unacked>>

NoReport == [job |-> None, dated |-> None, rows |-> None]
ResultRow == [by : Executions, property : Property]

Named(n) == {p \in Requests : potentials[p] = n}

-----------------------------------------------------------------------------
Init ==
    /\ potentials = [q \in Requests |-> None]
    /\ jobs = [q \in Requests |-> None]
    /\ results = [q \in Requests |-> <<>>]
    /\ call = [q \in Requests |-> NoCall]
    /\ pc = [a \in Requests \cup Executions |-> "idle"]
    /\ found = [q \in Requests |-> None]
    /\ answer = [q \in Requests |-> None]
    /\ doing = [e \in Executions |-> None]
    /\ seen = [e \in Executions |-> None]
    /\ position = [e \in Executions |-> 0]
    /\ added = [e \in Executions |-> <<>>]
    /\ report = [r \in Readers |-> NoReport]
    /\ dbFaults = 0 /\ kills = 0 /\ unacked = {}

Fault == dbFaults < MaxDbFaults /\ dbFaults' = dbFaults + 1

Goto(a, place) == pc' = [pc EXCEPT ![a] = place]
Answer(q, code) == answer' = [answer EXCEPT ![q] = code] /\ Goto(q, "ended")

-----------------------------------------------------------------------------
(* Requests.  Those refused before they reach the database (an unknown     *)
(* template, a missing key) change nothing and are left out.               *)

Ask(q) ==
    /\ pc[q] = "idle"
    /\ \E c \in Call : call' = [call EXCEPT ![q] = c]
    /\ Goto(q, "select")
    /\ UNCHANGED <<potentials, jobs, results, found, answer, executionVars, report,
                   dbFaults, kills, unacked>>

\* The unlocked SELECT of the potential by name.
SelectPotential(q) ==
    /\ pc[q] = "select"
    /\ LET held == Named(call[q].name) IN
       \/ /\ held = {} /\ call[q].kind \in {"potential", "v2"}
          /\ Goto(q, "insert_potential") /\ UNCHANGED <<found, answer, dbFaults>>
       \/ held = {} /\ call[q].kind = "v1" /\ Answer(q, 404) /\ UNCHANGED <<found, dbFaults>>
       \/ held # {} /\ call[q].kind = "potential" /\ Answer(q, 409) /\ UNCHANGED <<found, dbFaults>>
       \/ /\ call[q].kind \in {"v1", "v2"}
          /\ \E p \in held : found' = [found EXCEPT ![q] = p]
          /\ Goto(q, "insert_job") /\ UNCHANGED <<answer, dbFaults>>
       \/ Fault /\ Answer(q, 500) /\ UNCHANGED found
    /\ UNCHANGED <<potentials, jobs, results, call, executionVars, report, kills, unacked>>

\* Slip: without the UNIQUE of the column name.
IsNameFreeUnchecked(n) == TRUE
\* potentials.name is UNIQUE.
IsNameFree(n) == Named(n) = {}

\* Slip: a request that lost the race for the name takes the winner's row for
\* granted and stores the job under the id it drew.
InsertPotentialGoesOn(q) ==
    /\ pc[q] = "insert_potential"
    /\ potentials' = IF IsNameFree(call[q].name)
                     THEN [potentials EXCEPT ![q] = call[q].name] ELSE potentials
    /\ found' = [found EXCEPT ![q] = q]
    /\ IF call[q].kind = "v2" THEN Goto(q, "insert_job") /\ UNCHANGED answer
       ELSE Answer(q, 201)
    /\ UNCHANGED <<jobs, results, call, executionVars, report, dbFaults, kills, unacked>>

\* The INSERT of the potential, under the id drawn for it.
InsertPotential(q) ==
    /\ pc[q] = "insert_potential"
    /\ LET applied == /\ IsNameFree(call[q].name)
                      /\ potentials' = [potentials EXCEPT ![q] = call[q].name]
           refused == Answer(q, 500) /\ UNCHANGED found
       IN
       \/ /\ applied /\ call[q].kind = "potential" /\ Answer(q, 201)
          /\ UNCHANGED <<found, dbFaults, unacked>>
       \/ /\ applied /\ call[q].kind = "v2" /\ found' = [found EXCEPT ![q] = q]
          /\ Goto(q, "insert_job")
          /\ UNCHANGED <<answer, dbFaults, unacked>>
       \/ applied /\ refused /\ Fault /\ unacked' = unacked \cup {q}
       \/ ~IsNameFree(call[q].name) /\ refused /\ UNCHANGED <<potentials, dbFaults, unacked>>
       \/ refused /\ Fault /\ UNCHANGED <<potentials, unacked>>
    /\ UNCHANGED <<jobs, results, call, executionVars, report, kills>>

NewJob(q) == [potential |-> found[q], properties |-> call[q].properties,
              status |-> "pending", completed_by |-> None]

\* The INSERT of the job.  The dispatch after it changes nothing: the module
\* it imports has no run_verification, the ImportError is logged, and the
\* client is told 202.
InsertJob(q) ==
    /\ pc[q] = "insert_job"
    /\ \/ /\ jobs' = [jobs EXCEPT ![q] = NewJob(q)] /\ Answer(q, 202)
          /\ UNCHANGED <<dbFaults, unacked>>
       \/ /\ jobs' = [jobs EXCEPT ![q] = NewJob(q)] /\ Answer(q, 500)
          /\ Fault /\ unacked' = unacked \cup {q}
       \/ Answer(q, 500) /\ Fault /\ UNCHANGED <<jobs, unacked>>
    /\ UNCHANGED <<potentials, results, call, found, executionVars, report, kills>>

-----------------------------------------------------------------------------
(* Executions.                                                             *)

Working(e) == pc[e] \in {"taken", "begun", "loaded"}

\* An exception leaves _execute_verification; its session is rolled back.
Raise(e) == Goto(e, "raised")

\* The job is selected; a call for a job that is not there returns at once.
Take(e) ==
    /\ pc[e] = "idle"
    /\ \E j \in {q \in Requests : jobs[q] # None} :
          /\ doing' = [doing EXCEPT ![e] = j]
          /\ seen' = [seen EXCEPT ![e] = jobs[j].status]
          /\ Goto(e, "taken")
    /\ UNCHANGED <<jobs, results, requestVars, position, added, report, dbFaults, kills, unacked>>

\* The flush writes a column only if it differs from what the session holds.
Begun(e) ==
    jobs' = IF seen[e] = "running" THEN jobs
            ELSE [jobs EXCEPT ![doing[e]].status = "running"]

Begin(e) ==
    /\ pc[e] = "taken"
    /\ \/ Begun(e) /\ Goto(e, "begun") /\ UNCHANGED <<dbFaults, unacked>>
       \/ Begun(e) /\ Raise(e) /\ Fault /\ unacked' = unacked \cup {e}
       \/ Raise(e) /\ Fault /\ UNCHANGED <<jobs, unacked>>
    /\ UNCHANGED <<results, requestVars, executionVars, report, kills>>

\* job.potential: the commit has expired the job, so its row is read anew.
Load(e) ==
    /\ pc[e] = "begun"
    /\ \/ seen' = [seen EXCEPT ![e] = jobs[doing[e]].status] /\ Goto(e, "loaded")
          /\ UNCHANGED dbFaults
       \/ Raise(e) /\ Fault /\ UNCHANGED seen
    /\ UNCHANGED <<jobs, results, requestVars, doing, position, added, report, kills, unacked>>

Wanted(e) == jobs[doing[e]].properties

\* Slip: every turn of the loop commits.
ComputeCommits(e) ==
    /\ pc[e] = "loaded" /\ position[e] < Len(Wanted(e))
    /\ LET property == Wanted(e)[position[e] + 1] IN
       results' = IF property \in Supported
                  THEN [results EXCEPT ![doing[e]] = Append(@, [by |-> e, property |-> property])]
                  ELSE results
    /\ position' = [position EXCEPT ![e] = @ + 1]
    /\ UNCHANGED <<jobs, pc, requestVars, doing, seen, added, report, dbFaults, kills, unacked>>

\* One turn of the loop: a row with the value, or with the error; a property
\* without a function is passed over.
Compute(e) ==
    /\ pc[e] = "loaded" /\ position[e] < Len(Wanted(e))
    /\ LET property == Wanted(e)[position[e] + 1] IN
       added' = IF property \in Supported
                THEN [added EXCEPT ![e] = Append(@, [by |-> e, property |-> property])]
                ELSE added
    /\ position' = [position EXCEPT ![e] = @ + 1]
    /\ UNCHANGED <<jobs, results, pc, requestVars, doing, seen, report, dbFaults, kills, unacked>>

\* Slip: an execution that computed nothing returns before it is marked.
FinishedIfAny(e) ==
    LET j == doing[e] IN
    /\ results' = [results EXCEPT ![j] = @ \o added[e]]
    /\ jobs' = IF added[e] = <<>> THEN jobs
               ELSE [jobs EXCEPT ![j].completed_by = e, ![j].status = "completed"]

\* Slip: the date is written in a commit of its own, before the rows.
FinishedDateFirst(e) ==
    LET j == doing[e] IN
    /\ results' = results
    /\ jobs' = [jobs EXCEPT ![j].completed_by = e, ![j].status = "completed"]

\* The last commit: the rows and, with the date, the status if it is not what
\* the session holds already.
Finished(e) ==
    LET j == doing[e] IN
    /\ results' = [results EXCEPT ![j] = @ \o added[e]]
    /\ jobs' = [jobs EXCEPT ![j].completed_by = e,
                            ![j].status = IF seen[e] = "completed" THEN @ ELSE "completed"]

Finish(e) ==
    /\ pc[e] = "loaded" /\ position[e] = Len(Wanted(e))
    /\ \/ Finished(e) /\ Goto(e, "ended") /\ UNCHANGED <<dbFaults, unacked>>
       \/ Finished(e) /\ Raise(e) /\ Fault /\ unacked' = unacked \cup {e}
       \/ Raise(e) /\ Fault /\ UNCHANGED <<jobs, results, unacked>>
    /\ UNCHANGED <<requestVars, executionVars, report, kills>>

\* The worker process dies.
Kill(e) ==
    /\ kills < MaxKills /\ kills' = kills + 1
    /\ Working(e) /\ Goto(e, "killed")
    /\ UNCHANGED <<jobs, results, requestVars, executionVars, report, dbFaults, unacked>>

-----------------------------------------------------------------------------
(* The report reads the job, later its result rows.                        *)

ReadJob(r) ==
    /\ report[r].job = None
    /\ \E j \in {q \in Requests : jobs[q] # None} :
          report' = [report EXCEPT ![r].job = j, ![r].dated = jobs[j].completed_by]
    /\ UNCHANGED <<jobs, results, pc, requestVars, executionVars, dbFaults, kills, unacked>>

ReadResults(r) ==
    /\ report[r].job # None /\ report[r].rows = None
    /\ report' = [report EXCEPT ![r].rows = results[report[r].job]]
    /\ UNCHANGED <<jobs, results, pc, requestVars, executionVars, dbFaults, kills, unacked>>

Next ==
    \/ \E q \in Requests : Ask(q) \/ SelectPotential(q) \/ InsertPotential(q) \/ InsertJob(q)
    \/ \E e \in Executions : Take(e) \/ Begin(e) \/ Load(e) \/ Compute(e) \/ Finish(e) \/ Kill(e)
    \/ \E r \in Readers : ReadJob(r) \/ ReadResults(r)

Step(e) == Begin(e) \/ Load(e) \/ Compute(e) \/ Finish(e)
Spec == Init /\ [][Next]_vars /\ \A e \in Executions : WF_vars(Step(e))

-----------------------------------------------------------------------------
(* Properties                                                              *)

Stored == {j \in Requests : jobs[j] # None}
Shows(j, status) == j \in Stored /\ jobs[j].status = status

\* The places of the properties that have a function, and of an execution's rows.
SupportedIn(list) == {i \in DOMAIN list : list[i] \in Supported}
RowsBy(rows, e) == {k \in DOMAIN rows : rows[k].by = e}
\* The rows of e are one for each of the list's supported properties, in order.
Whole(rows, e, list) ==
    \E row \in [SupportedIn(list) -> RowsBy(rows, e)] :
        /\ \A k \in RowsBy(rows, e) : \E i \in SupportedIn(list) : row[i] = k
        /\ \A i \in SupportedIn(list) : rows[row[i]].property = list[i]
        /\ \A i, l \in SupportedIn(list) : i < l => row[i] < row[l]

\* Types; an execution works on a job that exists and never runs past its list.
TypeOK ==
    /\ potentials \in [Requests -> Names \cup {None}]
    /\ jobs \in [Requests -> Job \cup {None}]
    /\ results \in [Requests -> Seq(ResultRow)]
    /\ call \in [Requests -> Call \cup {NoCall}]
    /\ \A q \in Requests : pc[q] \in {"idle", "select", "insert_potential", "insert_job", "ended"}
    /\ \A e \in Executions : pc[e] \in {"idle", "taken", "begun", "loaded", "ended", "raised", "killed"}
    /\ found \in [Requests -> Requests \cup {None}]
    /\ answer \in [Requests -> Code \cup {None}]
    /\ \A e \in Executions : pc[e] # "idle" => doing[e] \in Stored /\ position[e] <= Len(Wanted(e))
    /\ seen \in [Executions -> Status \cup {None}]
    /\ added \in [Executions -> Seq(ResultRow)]
    /\ dbFaults \in 0 .. MaxDbFaults /\ kills \in 0 .. MaxKills

\* The rows of a job are those of whole executions: an execution has none in
\* the table until it ends, then one for every supported property asked for,
\* in order; the one that dated the completion is among them.
ResultsWhole ==
    \A j \in Stored : \A e \in Executions :
        LET whole == Whole(results[j], e, jobs[j].properties) IN
        /\ RowsBy(results[j], e) = {} \/ whole
        /\ Working(e) => RowsBy(results[j], e) = {}
        /\ pc[e] = "ended" /\ doing[e] = j => whole
        /\ jobs[j].completed_by = e => whole

\* Whoever wins the race for a name, every job belongs to a stored potential of
\* the name its client asked for, and no name is stored twice.
JobsNamePotential ==
    /\ \A p, q \in Requests : potentials[p] # None /\ potentials[p] = potentials[q] => p = q
    /\ \A j \in Stored : potentials[jobs[j].potential] = call[j].name

\* What a client was told is what the tables hold: 201 and 202 left their row,
\* 404 and 409 left nothing, 500 left a job only with a commit that was not
\* answered, and without any database error comes only from a race for a name.
AnswersTell ==
    \A q \in Requests :
        /\ answer[q] = 201 => potentials[q] = call[q].name
        /\ answer[q] = 202 => jobs[q] # None
        /\ answer[q] \in {404, 409} => potentials[q] = None /\ jobs[q] = None
        /\ answer[q] = 500 /\ jobs[q] # None => q \in unacked
        /\ answer[q] = 500 /\ dbFaults = 0 =>
              \E p \in Requests \ {q} : potentials[p] = call[q].name

\* A report that carries a completion date lists all rows of the execution
\* that dated it, although job and rows are read one after the other.
ReportCovers ==
    \A r \in Readers :
        report[r].rows # None /\ report[r].dated # None =>
            Whole(report[r].rows, report[r].dated, jobs[report[r].job].properties)

\* A job that is running gets completed, however many executions run it and
\* whatever statuses they overwrite, unless one of them raised or died.
RunningCompletes ==
    \A j \in Requests :
        Shows(j, "running")
            ~> \/ Shows(j, "completed")
               \/ \E e \in Executions : doing[e] = j /\ pc[e] \in {"raised", "killed"}

=============================================================================
