# NucPot AutoVC in TLA+

NucPot AutoVC verifies interatomic potentials of nuclear materials: a FastAPI service takes a
potential and a template, computes properties with LAMMPS, grades them (A to F) against reference
values in PostgreSQL and stores the results; reviewers curate the reference values, and a backfill
copies computed elastic constants into them. This directory holds TLA+ models of that behaviour,
their TLC runs and their TLAPS proofs. Paths below are relative to the repository root.

    tlasany M.tla                                   parse a module
    tlc -workers 2 -config <run>.cfg <MC module>    one run (PROJECT.json lists them)
    tlapm M.tla                                     the proofs of a ...Proofs module

## The system

| part | code | state | operations | what is hard about it |
|---|---|---|---|---|
| verification jobs | `api/routes.py:526-691`, `supabase_client.py:74-306` | a row of `verification_tasks` per job; an asyncio task per running job | POST /verify, the background task, GET /verify/{id}, GET /verifications | the task lives in memory only; each write is a transaction that can fail or lose its acknowledgement; the server can die anywhere; LAMMPS can fail, hang or time out |
| input scripts | `runners/lammps_runner.py:212-529, 853-979` | none | `generate_*_input`, the arithmetic of `run_property` | equal-style variables are formulas; seven cells per elastic tensor; missing numbers have defaults |
| LAMMPS runner | `runners/lammps_runner.py` | results and progress of the template being run; child processes | `run_template`, `run_property`, `_run_lammps` | one property fails and the rest go on; `wait_for` abandons a process without killing it |
| potential files | `runners/lammps_runner.py:620-800` | the directory `potential_dir` | `_resolve_pot_file`, `_get_pair_config` | shared by all jobs without a lock or a record of whose file is whose; downloads in part; each property of a job resolves anew |
| reference review | `api/routes.py:694-938`, `models.py:47-69` | `reference_values`, `reference_value_audit` | audited patch, approve, reject, soft delete, batch; unaudited create, patch, delete | threads with unlocked reads and locked writes; lost updates; deadlocks between batches |
| reference lookup | `reference/data.py`, `runners/reference_lookup.py` | none of its own (reads `reference_values`) | `get_reference_value`, `lookup_reference`, `_grade_property` | three sources with different name spaces; an outage looks like a missing value; guesses that must never be graded with |
| elastic backfill | `elastic_backfill.py`, `reference/write_ref_value.py` | statistics of a pass; inserts into `reference_values` | `run_backfill`, real and dry | check-then-insert without a constraint, shared with other passes |
| legacy jobs | `api/routes.py:97-430`, `workers/tasks.py` | `potentials`, `verification_jobs`, `verification_results` | POST /potentials, /verification, /verification/v2, report, export; `_execute_verification` | dispatch to a Celery task that does not exist; executions that take no claim on a job; racing inserts of a name |
| scheduler | `scheduler.py` | configuration | `run_cycle`, `submit_batch` | its records have no id, so each one fails before its INSERT |
| bulk script | `scripts/bulk_verify.py` | counts of a pass | one pass over the REST catalogue | a client of POST /verify without a token; timeouts |
| authentication | `api/routes.py:30-50`; `auth.py` | none | `require_auth` | any token that is not empty passes; the door with keys and roles, that of `auth.py`, guards no route |
| history | `supabase_client.py:283-306` | none of its own | GET /verifications | OFFSET over a table that grows at its head |
| Materials Project adapter | `reference/mp_adapter.py` | none | `determine_phase`, `pick_best_material`, `extract_system` | bonuses and energies added into one score; the order of the answer |
| gap filling | `reference/cache_query.py`, `gap_analyzer.py`, `write_ref_value.py` | none | `compute_gaps`, `cache_query`, the gate before the table | precedence of three caches; a level that answers for what the table has had since |
| source adapters | `reference/adapters/`, `reference/property_mapping.py` | none | records of NFMD, the wiki and the ontology to candidates | names, symbols and units that mean several properties |
| the rest | `config.py`, `database.py`, `supabase_db.py`, `core/`, `structure_generator.py`, `pair_style_compat.py` | | settings, numerical physics, text generation | |

The parts meet in the database. A job's row is written by its task and read by pollers; a job
grades with the rows of `reference_values` that reviewers and backfill passes are changing at the
same time; a backfill reads the results of completed legacy jobs. Jobs also meet in the directory
of potential files. There is no other channel: no part calls or notifies another one across
processes.

What makes each part correct:
- jobs: a row tells a poller the truth (forward only, whole results or none, failed only if
  something failed) and ends, unless a fault that can be named prevented it;
- review: the table is what the audit trail says it is, a request applies as a whole or not at
  all, nobody waits for ever;
- potential files: a job computes with whole files of its own potential, and with the same ones for
  every property, or there is a reason that can be named;
- legacy jobs: results appear with the completion of the execution that computed them, and a client
  was told what the tables hold;
- Materials Project adapter: one value per phase and property, from the right material, whatever
  the order of the answer;
- lookup: letters come from measured values only, and in the order of the deviations;
- backfill: the statistics are what happened, a record is written once;
- scripts: what an ideal crystal has is what the scripts and the arithmetic find, and an energy that
  was not printed shows in a letter;
- gap filling: the table answers first, a quantity stays the quantity its source states, and what was
  not certain is reviewed;
- submission: who may queue a job, and what the script says of what became of its requests; the
  history in pages shows every task.

## Modules

| module | models |
|---|---|
| `TemplateGrades` | templates, milestones, LAMMPS runs per property, result dicts and the overall grade: the data of `run_template` |
| `JobLifecycle` | what polling promises: pending, running, completed or failed, in this order; progress never falls; results appear once (abstract specification) |
| `VerificationTask` | POST /verify, `_run_lammps_verification`, `run_template`, `_run_lammps`, the row, the server |
| `ReferenceReview` | the nine kinds of request that change `reference_values`, statement by statement |
| `ReferenceNames` | name maps, query, hardcoded set, flags and letters as operators |
| `ReferenceGrading` | grading while the table and the database change (uses `ReferenceNames`) |
| `ElasticBackfill` | concurrent backfill passes (uses `ReferenceNames` for the spelling of phases) |
| `PotentialFiles` | the directory of potential files under several jobs, failing downloads and a crash |
| `LegacyJobs` | potentials, jobs, executions and reports of the first API |
| `MaterialChoice` | the choice of materials and values in the Materials Project adapter |
| `LammpsScripts` | every input script, the machine that reads it and what is made of its output (uses `ReferenceNames` for the letter) |
| `PropertyMapping` | the mapping of twelve properties and the three adapters, as operators |
| `GapFilling` | gaps, the three caches and the gate, closed into a loop (extends `PropertyMapping`) |
| `HistoryPages` | the list of tasks and a client that goes through its pages |
| `Submission` | authentication, operators, the bulk script and the scheduler (extends `HistoryPages`) |
| `MC...` | instances for TLC |
| `...Proofs` | the proofs, of `VerificationTask`, `ReferenceReview`, `ElasticBackfill`, `LegacyJobs`, `PotentialFiles` and `Submission` (with `HistoryPages`); `RunnerProofs` extends `ReferenceGrading` and `LammpsScripts`, and `ReferenceSourcesProofs` `MaterialChoice` and `GapFilling`: the names of the two do not meet, and it has the proofs of both |

`VerificationTask` extends `TemplateGrades` and refines `JobLifecycle`; `ReferenceGrading` and
`ElasticBackfill` share `ReferenceNames`; `Submission` composes the clients of POST /verify with the
history their rows appear in. The others stand alone: what they share with the rest is a
table or a directory, and each module lets the others' changes to it happen in any order.

### VerificationTask

`row[j]` is the row of job `j`: the columns `status`, `rating`, `error_message` and the keys
`progress`, `current_step`, `results` of `rating_metrics`. `pc`, `cursor`, `runs`, `computed`,
`reached` and `succeeded` are the position and the local variables of the task
(`_run_lammps_verification` and the loop of `run_template`); `abandoned` counts LAMMPS processes
nobody awaits any more; `excuse` is history: the faults that hit a job.

The task suspends only while it awaits LAMMPS (psycopg2 is synchronous, so the `async` database
helpers never yield). Each update is a transaction of its own, so each is an action. A transaction
ends in one of three ways (`WriteEnd`): applied; refused, with an exception; or applied with its
acknowledgement lost, with the same exception. `Report` leaves the third way out: the callback
passes over every exception, and the next report overwrites the same columns with newer values.
`Submit` starts at the INSERT; the refusals before it (400, 404, 500) change nothing. `Crash`
takes the memory of all tasks; `Restart` is `create_app`, which resumes nothing.

A number computed by LAMMPS is the letter it leads to (or no letter, or none because the value is
missing), an infinite error ratio is the flag `finite`; nothing else of a result dict matters to
the row.

### ReferenceReview

A handler is a plain function, so FastAPI runs it in a worker thread with a session from `get_db`.
`Load` is the unlocked SELECT; `Update` the flush, which sends an UPDATE of the columns whose
values differ from those loaded (SQLAlchemy's unit of work) and, for the audited routes, the INSERT
of `_audit_ref` with the session's own old and new attributes; `Commit` and `Refresh` are the
last statements. PostgreSQL at READ COMMITTED is modelled by three facts: an UPDATE waits for the
session that holds the row, it then applies to the newest committed version, and a cycle of waiting
sessions is broken by aborting one of them (`DeadlockAbort`). `draft[q]` holds the row versions a
session has written and not committed, and is its set of locks. A statement can fail (`Abort`), a
commit can be applied with its answer lost. The ids of one batch are taken to be distinct. The
columns kept are those the rules of the review are about: `status`, `needs_review` and, standing
for the others, `value`.

### ReferenceNames and ReferenceGrading

Numbers are thousandths of a unit, so that the comparison of a relative error with a percentage is
exact in integers: `|c - r| / |r| <= p/100` is `100 |c - r| <= p |r|`. `Precedes` is
`ORDER BY confidence DESC, value` on a text column. The actions change the table the way the review
and backfill do (a row inserted, changed, removed), switch the database off and on, and grade
one property the way `run_property` does.

### ElasticBackfill

One action per database request: the fetch, the query for existing records, the insert. A record is
its deduplication key; `method` is one constant and left out. `excused` is history: the records
that were inserted after a failed query, or while another pass was between its query and its insert
of the same record.

### PotentialFiles

`disk` is the content of `potential_dir`: of each file, whose it is and whether it is whole.
`serves[j]` is the potential job `j` verifies; `script[j]` the files that the `pair_coeff` of the
property at hand names; `launches[j]` what each LAMMPS process of the job read. `Meta` is all that
`_resolve_pot_file` and `_get_pair_config` look at in a potential's metadata, with the names that
the code makes out of strings (basenames, name plus extension, files containing the elements) given
as the files they come to.

`_resolve_pot_file` and its `httpx.get` are synchronous and so block the event loop: `Resolve` is one
action, with an outcome for every download. Only the death of the server falls in the middle of it
(`Crash`). LAMMPS opens its files when it starts, while other jobs go on: `Launch` is an action of
its own, and the elastic constants launch seven times with one script.

`ReadExplained` and `MixedExplained` name the reasons for which a job may not compute with its own
files: a download failed (`unfetched`, `cutOff`, history variables); another potential's content is
under one of its names (`Shadowed`); the metadata leaves a file to be found by a pattern
(`Borrows`); a file of `pair_coeff` is not fetched (`Lacks`); or `pair_coeff` leads to another file
than the first resolution ends with (`Wavers`): it names another one first, or names first a file that
no URL has and later one that is fetched, which is the file from the second resolution on.

### LegacyJobs

A row is known by the request that inserted it. A request has a session: `SelectPotential`,
`InsertPotential` and `InsertJob` are its statements with the commits after them; those refused
before the database is reached (an unknown template, a missing key) change nothing and are left
out. The dispatch at the end of a submission imports a name that `workers/tasks.py` lacks; the
`ImportError` is logged and the answer is 202, so the dispatch is no action. The column `name` is UNIQUE,
which the check before the insert is not enough for.

`_execute_verification` is run by whoever calls it, as often as they like: it takes no claim on the
job. `Take`, `Begin`, `Load`, `Compute` and `Finish` are its transactions and the turns of its
loop. A session writes only the columns that differ from what it holds, which decides what two
executions of one job leave in `status`. A computed property is one row whether it has a value or
an error; `elastic_constants` is stored as one row with its bulk modulus.

### MaterialChoice

Pure functions. The list that a search answers grows by one document per step, so that every list
up to a length is a state. Energies are in meV and scores in thousandths, so that sums are exact.
The adapter sorts and takes the first of each phase until it has three; the module says the same as
a set of positions: the leaders of their phases with fewer than three leaders before them.

### LammpsScripts

A script is a sequence of commands, and LAMMPS an abstract machine: a box with an ideal crystal whose
atoms are where `minimize` would put them. Its energy is exact to second order in the strains (of
which the elastic constants are the coefficients), with a term for a lattice constant out of place,
one per vacancy and one per surface. `formulas` holds the equal-style variables, which LAMMPS
evaluates where they are used and not where they are defined. `script` is what the process was given
and `position` how much of it is read. Launch, read a command, reject one,
exit and return are the actions; `Computed` is the arithmetic of `run_property` with its defaults for
numbers that are missing. Sums over the types are a recursive function (`Sums`), whose last value is
the total. A process may print `nan`, which the parser takes for no number. The
text of a pair style is a name, of which only `deepmd` needs its plugin. `Unparsable` is the other end of
a process: of `-nan` the parser's pattern takes the sign, `float` raises, and the property has no
result.

### PropertyMapping and GapFilling

The mapping is data, and the table of the module is the file's. What the adapters copy without looking
at it (temperature, notes) is left out; `method` is kept, because it is one of the five fields of
deduplication and each reader calls a missing one differently. A unit is its text, and that text stripped
and in lower case (`lower`), which is what the wiki's adapter compares; the model does so too and makes
a Mbar of a millibar. Chinese names are in pinyin. The repository has the
functions of gap filling and no loop that calls them all; the caller of `GapFilling` asks for targets
and adapts records in any order, and stores what the gate calls written, as the docstrings of
`write_ref_value` and `cache_query` want it. Two variables are history: `last`, the last candidate, where
it came from and what its source states; and `filled`, of each row written the reader it came
through and the method its record states. `MCReferenceSources` puts the searches of `MaterialChoice`
and the filling into one run; they share no state, and `part` says which of the two a behaviour is. A
length in Bohr is kept to the last of the digits the model has, as
the code keeps six of its own: `QuantityKept` allows what that cuts off.

### HistoryPages and Submission

`history` is what GET /verifications lists, newest first: rows are inserted at its head and change in
their places. `walk` is a client that asks for page after page until one is not full.

`Submission` adds who inserts rows. `require_auth` is that of the routes: a bearer token, or else a cookie,
and not empty. `Verify` is the door of POST /verify (401, 404, 200).
`bulk` is a pass of `bulk_verify.py`: its eligible potentials, its counts and the structure it chooses;
the script's client sends neither header nor cookie (`Nobody`). A request of the script can lose its
answer, before or after it was handled. `RunCycle` is one cycle of the scheduler, which blocks the
event loop from its first statement to its last; `submit_batch` is the function of the rows after
each of its batch. `Discoveries` are the lists its discovery can
return: `<<>>` is the placeholder of the repository, the other one is what the comment there describes, so
that the filters and the batch behind it are reached.

## Runs

| run | what it asks | distinct states |
|---|---|---|
| `task_jobs` | two basic jobs, or one job of any template, with a zero reference, 2 failing or unacknowledged writes, 1 crash: `WholeOrNothing`, `StrandedOnlyByFault`, `RevokedOnlyByLostAck`, `AbandonedExplained`, `LifecycleRefined`, `AcceptedSettles` | 614,767 |
| `review_pairs` | every pair of operations on three ids, one of them free, 1 fault: `TypeOK`, `AuditReplays`, `AllOrNothing`, `EveryRequestEnds` | 32,838 |
| `reference_grades` | rows at three confidences, a zero, two spellings of a structure, an unknown material, values around the thresholds: `NearerIsNoWorse`, `GradedOnReal` | 10,200 |
| `backfill_passes` | two real passes and a dry one, 2 faults: `StatsTellTable`, `TwiceOnlyIfExcused` | 1,073,332 |
| `potential_files` | two jobs over ten potentials whose files are found in every way the code knows, 2 downloads refused or cut off, 1 crash: `SteadyFiles`, `OwnPreferred`, `ReadExplained`, `MixedExplained` | 518,866 |
| `lammps_scripts` | every property, three crystals, one to three elements, with and without the plugin's style, 2 processes that print nan: `TypeOK`, `ValuesAreCrystals`, `NanShows` | 58,266 |
| `legacy_jobs` | two requests of any kind for one name, two executions, a reader, 1 fault, 1 killed worker: `ResultsWhole`, `JobsNamePotential`, `AnswersTell`, `ReportCovers`, `RunningCompletes` | 568,341 |
| `reference_sources` | every list of up to four out of ten materials, three preferences: `OneValueEach`, `PreferredFirst`, `BestOfItsPhase`, `OrderIndependent`; or three tables, lists of NFMD parameters and of wiki items with and without methods, records of all three sources, one of them in millibar, 2 writes: `StoredOnce`, `AutoOnlyByClaim`, `QuantityKept`, `OpenExplained`, `ResolutionsAgree`, `TableFirst` | 62,375 |
| `submission` | operators, the script and the scheduler with tokens in the header, the cookie, both or neither, 2 rows in pages of 1, 1 walk, 1 lost answer: `TypeOK`, `OnlyOperatorsQueue`, `BulkAccounts`, `HistoryWhole` | 126,480 |
| `doc_writeback` | violated: `WriteBackKept` | |
| `doc_vacancy` | violated: `VacancyIsFormation` | |
| `doc_surface` | violated: `SurfaceIsWhole` | |

Deadlock checking is off: every one of these systems may stop (jobs done, requests answered, the
bounds reached). The three violated runs check what a line of the repository says and the code does
not do; PROJECT.json quotes the lines under "findings".

**Bounds.** Jobs meet only in a crash and in the shared budget of faults, so two are enough to see
a fault of one next to the health of the other; two faults cover a failing write followed by the
failure of the write that reports it; after one crash there is no task left for a second one to
hit, except of jobs submitted later, and those are covered by the first. The constraint `Load` keeps
the longer templates, and a zero reference, to a job that is alone: what they add is inside one task.
Two sessions are enough
for a lost update and for a cycle of locks; two rows for two orders of a batch. Two real passes
race; a third adds only more copies. Two jobs share a directory: what a third one would add to it,
the second may have added before, and three launches per job are a first property, and a second one
of two processes. Two failed downloads are the two files of one potential or one of each job's. Two
executions of one job overlap in every way two transactions can. A choice of at most three
materials is first cut by the fourth. Two processes that print nan are the fewest that can hide each
other in a difference. Two writes are one that fills a gap and the one that must find it filled. Two
rows and pages of one are a page that shifts while the client is between pages; `HistoryIsWhole` is
proved for any of them. `MaxDbFaults`, `MaxCrashes`, `MaxKills`, `MaxFailures`, `MaxLaunches`,
`MaxDocuments`, `MaxNan`, `MaxWrites`, `MaxRows`, `MaxWalks` and `MaxLost` are the only bounds in
guards.

**Fairness.** `AcceptedSettles` assumes `WF` of each task's next step. The event loop runs every
task that is ready, and a task awaiting LAMMPS is woken after 300 s at the latest by `wait_for`;
so the fairness is that of asyncio, not of LAMMPS. After a crash nothing is assumed: `Restart` is
not fair, and the property excuses jobs hit by it. `EveryRequestEnds` assumes `WF` of each
handler's next statement: threads run, and PostgreSQL's deadlock detector breaks cycles after
`deadlock_timeout`. A session that waits is not enabled, and need not be: whoever holds the row
ends. `RunningCompletes` assumes `WF` of the next step of each execution: an execution is a
function that runs to its end in a worker process, which is ready as long as it lives. Whether it
is called at all is not assumed, and the property excuses executions that raised or were killed:
nobody runs those again.

## What the runs found

- `update_potential` with keys that are no columns writes nothing (`supabase_client.py:119`), so
  the verified properties of a completed job are never written back, against its docstring.
- The vacancy script's `e_perfect` is a formula, evaluated after the atom is gone: the energy it
  prints is not the formation energy of the comment above it (`lammps_runner.py:469` against 468).
- The surface script's box ends along z from the start, so the energy it calls a "Bulk energy
  reference" already holds two free surfaces: what is returned is the surface energy times the share of
  the atoms deleted, half of it (`lammps_runner.py:519`, against the docstring at 486-488 and the
  comment at 529).

Met while reading, and part of the models or of "hazards" in PROJECT.json without a run of their
own:

- reference values: a soft-deleted or rejected value goes on grading (`data.py:130`); `ORDER BY
  confidence` orders a text column (`data.py:133`); the hardcoded set is not found under the
  runner's names (`data.py:188`); approve can leave a value rejected while the trail says it
  became active (`routes.py:893`);
- backfill: two racing passes write duplicates (`elastic_backfill.py:202`), phases are written in a
  spelling no lookup uses (`elastic_backfill.py:272`), a dry run counts what a real one would
  reject;
- grading: the README's thresholds (1, 3, 5, 10 %) are those of the legacy `grade_property`, the
  runner uses 2, 5, 10, 20 %; the overall grade ignores the elastic constants, whose letters lie one
  level deeper (`lammps_runner.py:1058`, README.md:358); a reference value of 0 makes a relative error
  infinite, which jsonb rejects, and a fully graded job ends failed (`lammps_runner.py:564`,
  `supabase_client.py:270`);
- jobs: the poll's `error_message` is always null; nothing limits the number of tasks; each request
  of this API opens its own connection, synchronously (`supabase_client.py:167`);
- potential files: when one file of a MEAM potential is on disk the others are never downloaded
  (`lammps_runner.py:651`, against the comment at line 655); a potential whose `pair_coeff` names
  the file of its second URL computes the first property with the first file and the rest with the
  second (`lammps_runner.py:693`);
- scripts: three elements do not get equal shares, since each type hands on a share of what it has
  (`lammps_runner.py:230`); the plugin's line is looked for under a key the metadata lacks, so a
  DeepMD potential never loads it; an output without its RESULT lines counts as `e = 0, v = 1`
  (`lammps_runner.py:904`); a `-nan` makes `float` raise, and so a whole property fails
  (`lammps_runner.py:556`); a surface energy of 0 is returned as missing (`lammps_runner.py:1011`);
- gap filling: `query_l2` relabels a value with the mapping's unit without converting it
  (`cache_query.py:195`); the symbol K of a bulk modulus resolves to the thermal conductivity
  (`nfmd.py:74`); a row that is pending review is no gap (`gap_analyzer.py:56`); the wiki is not asked
  for a phase (`cache_query.py:231`); a millibar of the wiki is made a Mbar (`wiki.py:77`); a missing
  method is 'literature', '' or None depending on who reads the record (`cache_query.py:242`,
  `adapters/wiki.py:117`, `adapters/ontology.py:156`), so one wiki record may be stored twice, which
  `StoredOnce` names as its exception;
- legacy jobs: `workers/tasks.py` has no `run_verification`, so every job stays pending after its
  202 (`routes.py:194`);
- submission: `bulk_verify.py` sends no token and is refused at every request (`bulk_verify.py:148`);
  Fe-Cr-Ni is taken for Fe-Cr and so for bcc (`bulk_verify.py:87`); the keys and roles
  of `auth.py` are asked for nowhere, since the routes have a `require_auth` of their own, which any token
  satisfies (`routes.py:30`); the scheduler's records have
  no id, so `create_verification` raises before its INSERT (`scheduler.py:174`), and its discovery
  returns nothing;
- Materials Project adapter: every cubic material outside the listed space groups, fcc ones
  included, is called BCC (`mp_adapter.py:193-207`, against the comment at line 56); Zr's entry for
  HCP is never the preferred phase (`mp_adapter.py:431`, 444).

## Proofs

Each proof assumes what its module states about its constants, nothing else. A ...Proofs module says at
its head of which module it is, and for what.

`VerificationTaskProofs`, for any set of jobs, any templates and letters and any bounds:

- `Invariance`: `IInv == TypeOK /\ RowMatchesTask` is inductive. `WholeOrNothing` alone is not: a
  row may be whole only because the task that wrote it had answered every property, and that is a
  statement about `pc`, `cursor` and `computed`. `RowMatchesTask` says, for each position of the
  task, which properties are answered in memory (those before the cursor, and the current one after
  it returned or raised) and what the row may show (unpublished and not ahead of the task until
  `publish`; whole after it; failed with one of the named faults). `MatchesNext` is the long lemma:
  one step per action, and under it one per job, the acting one and the others (which `WriteOthers`,
  `ExcuseOthers` and `MatchesFrame` dispose of).
- `TypeCorrectness`, `Wholeness`, `NoStranding`, `Revocation`: consequences of `IInv`.
- `AbandonedAreAccounted` (`AbandonedExplained`): the processes nobody awaits are at most as many as the
  answered properties without a value. Inductive on top of `IInv`, which says that the entry a timeout
  writes is a new one, so that the set of entries grows by one when the count does.
- `RefinesLifecycle`: every step maps to a step or stutter of `JobLifecycle`, under the map that
  shows a client's view of the row.

`ReferenceReviewProofs`, for any ids, requests, operations and values:

- `TypeCorrectness` and `RequestsAreWhole` (`AllOrNothing`). That a request shows all of its entries
  or none needs what it holds before its commit: the entries a session has pending are those of the
  ids it is through with, one each, as long as it is open, and the trail has nothing of it until
  then. A request that is not a batch has one id, which `OpsAssumption` says: the routes have it in
  their path.
- `AuditExplainsTable` (`AuditReplays`): the trail explains the table, whatever is read before it is
  written. `RInv` adds that no two sessions hold versions of one row (`Exclusive`), so that a commit
  changes only rows whose last change in the trail is of before the session took them, and that each
  version held is the committed row with the session's pending entries done to it (`Writing`).

`LegacyJobsProofs`, for any requests, executions, readers, names and bounds:

- `TypeCorrectness`, `JobsFindPotential` (`JobsNamePotential`) and `AnswersAreTrue`
  (`AnswersTell`). The invariant gives, for each place a request can be at, what it has left in the
  tables: nothing, a potential, or a job of that potential with the list asked for. Executions
  change neither, which is why they must be other actors than the requests (`ActorsAssumption`).
- `ResultsAreWhole` (`ResultsWhole`) and `ReportsCover` (`ReportCovers`), from `RInv`: the rows an
  execution holds in memory are those of the part of the list behind it (`Holds`); a job has of an
  execution no rows, or, since the commit that completed it, those of the whole list (`Delivered`);
  and what a report was told last still stands (`ReportTells`).

`PotentialFilesProofs`, for any potentials, files, metadata, libraries and bounds:

- `Steady`: a file is never written over; only files that are missing are downloaded. It needs no
  invariant.
- `TypeCorrectness`: `FInv`, the types and that a job that has started serves a potential.
- `OwnFiles`: `OwnPreferred`, from `FInv` and the order of the strategies.
- `ReadsExplained`: `ReadExplained`. It is not inductive: what a process reads was decided when its
  property was resolved, against the directory of that time. `EInv` adds that a file in part was
  cut off (`WholeOrCut`); that the files of a potential's URLs come together, as long as no
  download of it failed (`Together`): otherwise nothing would say that the second file of a
  `pair_coeff` is there when the first is; and that every script and every launch is explained by
  the directory of today, which only grows.
- `SameFiles`: `MixedExplained`. `SettledFiles` says that a potential without one of the reasons comes
  to one answer: once it is resolved, resolving it again gives the files of its launches, whatever is
  downloaded for others meanwhile. An earlier form of the property lacked the second of the two ways in
  which a `pair_coeff` wavers: the step that could not be proved was a behaviour of the code, and a
  tenth potential in the run now has it.

`RunnerProofs`, of `ReferenceGrading` for any rows, questions and computed values:

- `GradesAreReal`: `GradedOnReal`, from the definitions of the lookup: the flag `reference_ok`
  is given only to a value of the table or of the hardcoded set.
- `TypeCorrectness` (`GradingTypeOK`): an id is in the table once, a lookup answers a flagged integer or `None`.
- `NearerIsNoWorseHolds`: `NearerIsNoWorse`. The invariant needed is that the last letter is
  `run_grade` of the value and reference recorded with it; the rest is a lemma on `Letter`: if `c`
  is not farther from `r` than `d` then every threshold that holds for `d` holds for `c`, and the
  letters are ordered like the thresholds.

  The inductive invariant also says that any rows the table can hold have a first one in the
  query's order, without which the value a query answers would not be one of the table's.

and of `LammpsScripts`, for any crystals, rows, number of sites, numbers of elements, deviations and
number of processes that print nan:

- `ScriptsInv` is the inductive invariant. What a process prints depends on all that it has read, so
  the invariant says, for each position in each kind of script, what the box is by then (`BoxShape`:
  its atoms by type, its strains, the atoms taken out), which variables are defined (`FormulasShape`)
  and what the lines printed say (`LinesShape`); and of each process that ended, what its parsed
  output has (`OutputShape`). Each script is a setup, which differs between tasks, and a rest, which
  is one of four constant sequences (`ScriptShape`), so that a position means the same in all scripts
  of a kind. `Measures` says what LAMMPS computes of a box of that shape. The lemmas on `Total` say
  that sums exist (a least place where none does is impossible), and that a total follows a change of
  one number and does not change when a share of the atoms is handed on.
- `ScriptsTyped` (`TypeOK`) and `CrystalIsFound` (`ValuesAreCrystals`), from it: the second
  differences of the energies are the elastic constants, and the stress at the lattice constant where
  the script starts cancels.
- `SurfaceIsHalved`: what the run `doc_surface` finds for one crystal, for all of them. A slab has two
  free surfaces from the first command on (`SlabShape`), so its energy is that of its atoms and of two
  surfaces before the cut and after it (`SlabEnergy`), and the difference leaves the surface energy
  times the share of the atoms above the cut, a rounded half; where that is 0, nothing is returned.
- `LostEnergiesShow` (`NanShows`): without one of its energies a constant is 0 or as far from every
  reference as the energy of all atoms is. That this is far is a fact about crystals, and about the
  0.001 by which the runner strains them; `StrainsAreSmall` states it as an assumption on the crystals
  and their references, which TLC evaluates for those of the run. Two energies of C12 that take each
  other's place are why the property has an exception.
- `VacancyIsFree`: what the run `doc_vacancy` finds for one crystal holds for all of them and for any
  number of elements: `vacancy_formation_energy` is 0 or missing, never anything else.

`ElasticBackfillProofs`, for any passes, results, fetches and bounds:

- `TypeCorrectness`, `StatsAccount` (`StatsTellTable`) and `NoUnexcusedCopy` (`TwiceOnlyIfExcused`).
  The invariant says how many records of each key a pass has put into the table, by what it has
  counted and by where it is in its turn, and that a key with a second record was excused when that
  one went in: a pass between its query and its insert either has the record of its query in front
  of it or raced.

`ReferenceSourcesProofs`, of `MaterialChoice` for any documents and lists of any length:

- `TypeCorrectness`, `OneValue` and `BestStands` (`OneValueEach`, `BestOfItsPhase`). The properties
  are about one list, so the invariant is only that the list holds documents; the rest is that the
  sort is a total order, so a phase has one leader, and that the sums of the bonuses compare as the
  properties say.
- `PreferredStandsFirst` (`PreferredFirst`): the bonus of the preferred phase exceeds all that the other
  terms of a score can add up to, so the leader of that phase leads the list.
- `OrderDoesNotDecide` (`OrderIndependent`): whether a score is picked is said without positions, by
  the set of documents alone: it is the best of a phase, and fewer than three phases have a lower one.
  The leaders before a position correspond one to one with those phases.

and of `GapFilling`, for any table, caches and records:

- `CertaintyIsClaimed` and `AnswersCloseGaps` (`AutoOnlyByClaim`, `OpenExplained`), which are parts of
  the invariant `FInv`; `TableIsFirst` (`TableFirst`) from it. What a cache answers is worked out once,
  in `AskAnswers`: the table answers for a key exactly if it has a row of it, with a candidate the gate
  then takes for a duplicate; the other two answer only for gaps, and never with certainty.
- `FillingStoresOnce` (`StoredOnce`). `FInv` says that no row written agrees with another in the five
  fields of deduplication (`WrittenOnce`) and that its method is what its reader makes of the one its
  record states (`MethodKnown`). Two rows alike in the other four fields therefore have two methods, and
  with one stated method that takes two readers who differ in their default.
- `QuantitiesAreKept` (`QuantityKept`): the conversions are a lemma over all integers and all spellings
  of a unit (`ConversionKeeps`), from which the millibar is excepted.
- `ResolutionsDoAgree` (`ResolutionsAgree`): no two properties of the mapping share a name
  (`NamesApart`), so a listed name, or a symbol that is listed once, is resolved to the property that
  lists it (`ListedResolves`). Names that only contain a listed one are not asked then, which is why
  the proof needs nothing about the letters of strings, of which the provers know nothing.

`SubmissionProofs`, for any catalogues, credentials, answers of the discovery, limits and bounds:

- `HistoryIsWhole` (`HistoryWhole`, of `HistoryPages`): the tasks there were at the start that a walk
  has not seen are behind the pages it has been to. An insert moves every row one place back, so a task
  can be seen twice and never be skipped.
- `ClientsMakeHistory`: `Submission` implements `HistoryPages`, so that its histories are whole, too
  (`ClientsHistoryIsWhole`). A client's step is a submission of an operator or leaves the table alone
  (`ClientStep`), because a request without a token is refused and no
  record of the scheduler's batch is inserted. The latter is about a recursive function: the constant
  one satisfies its equation, so it is one, and a least place where it differed would contradict it.
- `OnlyOperators`, `ScriptAccounts` (`OnlyOperatorsQueue`, `BulkAccounts`) and `ClientsTypes`
  (`TypeOK`), from `CInv`, which adds that a pass that is no dry run has submitted nothing.
  That the list of eligible potentials has a length is taken from the prover's own notion of `Len`.

Only model-checked are the liveness properties `AcceptedSettles`, `EveryRequestEnds` and
`RunningCompletes`: fairness and ENABLED are out of this prover's reach.

## Not modelled

- The physics: structure generation and KIM calculators are real arithmetic; in `LammpsScripts` they
  are the coefficients of an ideal crystal. The text of pair styles by LAMMPS version, wording,
  logging and the layout of exported reports.
- Code without a caller: `_request_with_retry` (`supabase_client.py:49`), `_generate_elastic_input`
  (`lammps_runner.py:308-403`), and the `require_auth` and
  `require_admin` of `auth.py`, which guard no route.
- Reads that change nothing, unless a property is about what they show: the listings of potentials,
  of reference values for review, and the helpers of `data.py:147-158, 194-291`.
- The schema migration, which makes ALTER TABLE text from a list of columns; the Materials Project
  adapter's command line and its remote queries; settings.
- `verify_sprint2_auth.py`, which is a smoke test.
- A database connection that hangs for ever stops the event loop altogether (psycopg2 has no connect
  timeout here): the models assume that every request ends.

## Plan

In order of importance.

Done:

1. `VerificationTask` with `JobLifecycle` and its proofs.
2. `ReferenceReview` and the proofs of `AllOrNothing` and `AuditReplays`.
3. `ReferenceNames`, `ReferenceGrading` and its proofs.
4. `ElasticBackfill` and its proofs.
5. `LegacyJobs` and the proofs of all its invariants.
6. `PotentialFiles` and its proofs.
7. `MaterialChoice` and its proofs.
8. `LammpsScripts` and its proofs.
9. `PropertyMapping` and `GapFilling` and their proofs.
10. `HistoryPages` and `Submission` and their proofs.

Open:

11. Names given as sequences of characters, for what resolves by a name contained in another.
