----------------------------- MODULE Submission -----------------------------
(***************************************************************************)
(* Who asks for verifications: operators and scripts/bulk_verify.py over   *)
(* POST /verify, which require_auth guards, and the scheduler inside the   *)
(* service.  Their rows are listed by HistoryPages; the tasks that the     *)
(* rows start are VerificationTask's.                                      *)
(***************************************************************************)
EXTENDS HistoryPages

CONSTANTS
    None,        \* Python's None
    Catalogues,  \* lists of potentials that the REST interface can answer
    Known,       \* ids in the local potentials table
    Credentials, \* what operators send: a bearer token, a cookie, None for none
    MaxJobs,     \* values of --max-jobs
    Discoveries, \* what get_pending_verifications can return: as shipped, <<>>
    Schedules,   \* configurations of the scheduler
    MaxLost      \* bound: requests of the script without an answer

ASSUME LimitsAssumption == MaxJobs \subseteq Nat /\ MaxLost \in Nat
ASSUME SendersAssumption == {"manual", "scheduler_bulk"} \subseteq Senders
ASSUME SchedulesAssumption == \A s \in Schedules : s.max_concurrent \in Nat

VARIABLES
    bulk,   \* the pass of the script
    lost,   \* requests without an answer
    cycle   \* the scheduler's last cycle

vars == <<bulk, lost, cycle, history, walk, walks>>

Mapping == INSTANCE PropertyMapping

-----------------------------------------------------------------------------
(* The door of the API: the require_auth of routes.py.                     *)

\* The script's client sends neither header nor cookie.
Nobody == [bearer |-> None, cookie |-> None]

\* Slip: a request without credentials passes, as it does at the readers' routes.
RequireAuthOptional(sent) == TRUE

\* Any token that is not empty; a bearer header hides the cookie, an empty one too.
require_auth(sent) ==
    LET token == IF sent.bearer # None THEN sent.bearer ELSE sent.cookie
    IN  token \notin {None, ""}

\* Slip: a record without an id gets one.
CreateWithDefault(rows, record) ==
    Inserted(rows, record.triggered_by)

\* The record's id is one of the INSERT's parameters: without it a KeyError.
create_verification(rows, record) ==
    IF "id" \in DOMAIN record THEN Inserted(rows, record.triggered_by) ELSE rows

\* POST /verify: the answer's code.  Settings and template are right here.
Verify(sent, potential) ==
    CASE ~require_auth(sent) -> 401
      [] require_auth(sent) /\ potential \notin Known -> 404
      [] OTHER -> 200
Handle(sent, potential, sender) ==
    IF Verify(sent, potential) = 200
    THEN /\ Len(history) < MaxRows
         /\ history' = create_verification(history, [id |-> "uuid4", potential_id |-> potential,
                                                     triggered_by |-> sender])
    ELSE UNCHANGED history

-----------------------------------------------------------------------------
(* scripts/bulk_verify.py.                                                 *)

DEFAULT_STRUCTURES ==
    [U |-> "bcc", Mo |-> "bcc", Zr |-> "hcp", Nb |-> "bcc", W |-> "bcc", Fe |-> "bcc", Cr |-> "bcc",
     Ti |-> "hcp", Ni |-> "fcc", Cu |-> "fcc", Al |-> "fcc", Hf |-> "hcp", Ta |-> "bcc", V |-> "bcc",
     Re |-> "hcp", Si |-> "diamond", C |-> "diamond", He |-> "fcc"]
ALLOY_STRUCTURES ==
    <<<<"U-Mo", "bcc">>, <<"U-Zr", "bcc">>, <<"U-Nb", "bcc">>, <<"U-Pu", "bcc">>, <<"Zr-Nb", "bcc">>,
      <<"Fe-Cr", "bcc">>, <<"W-Re", "bcc">>, <<"W-Ta", "bcc">>, <<"W-V", "bcc">>, <<"W-Mo", "bcc">>,
      <<"Fe-Ni", "fcc">>, <<"Fe-Cr-Ni", "fcc">>, <<"Fe-Cr-Al", "bcc">>, <<"W-Ta-V-Cr", "bcc">>,
      <<"W-Ni-Fe", "bcc">>, <<"W-Ta-He", "bcc">>, <<"W-Ta-V-Cr-He", "bcc">>>>

should_verify(p) == p.type \in {"EAM", "MEAM", "FS", "EAM/FS", "MTP"}

\* Slip: the alloy in place of its structure.
GetStructureName(p) ==
    LET inside == {k \in DOMAIN ALLOY_STRUCTURES : Mapping!Contains(p.system_name, ALLOY_STRUCTURES[k][1])}
    IN  IF inside # {} THEN ALLOY_STRUCTURES[CHOOSE k \in inside : \A j \in inside : k <= j][1] ELSE None

\* The first listed alloy whose name the system's contains; else the element's.
get_structure(p) ==
    LET inside == {k \in DOMAIN ALLOY_STRUCTURES : Mapping!Contains(p.system_name, ALLOY_STRUCTURES[k][1])}
        first == CHOOSE k \in inside : \A j \in inside : k <= j
    IN  CASE inside # {} -> ALLOY_STRUCTURES[first][2]
          [] inside = {} /\ Len(p.elements) = 1 ->
                 IF p.elements[1] \in DOMAIN DEFAULT_STRUCTURES THEN DEFAULT_STRUCTURES[p.elements[1]]
                                                                ELSE None
          [] OTHER -> IF Len(p.elements) > 1 THEN "bcc" ELSE None

Idle == [pc |-> "idle", dry_run |-> FALSE, max_jobs |-> 0, eligible |-> <<>>, next |-> 1,
         submitted |-> 0, errors |-> 0, structure |-> None]

\* The potentials, at most 200, come from Supabase, their ids are looked up in
\* the local table.
BulkStart ==
    /\ bulk.pc = "idle"
    /\ \E dry \in BOOLEAN, jobs \in MaxJobs, potentials \in Catalogues :
           bulk' = [Idle EXCEPT !.pc = "loop", !.dry_run = dry, !.max_jobs = jobs,
                                !.eligible = SelectSeq(potentials, should_verify)]
    /\ UNCHANGED <<lost, cycle, historyVars>>

Reached == bulk.max_jobs > 0 /\ bulk.submitted >= bulk.max_jobs
BulkEnd ==
    /\ bulk.pc = "loop" /\ (bulk.next > Len(bulk.eligible) \/ Reached)
    /\ bulk' = [bulk EXCEPT !.pc = "done"]
    /\ UNCHANGED <<lost, cycle, historyVars>>

Turn == bulk.pc = "loop" /\ bulk.next <= Len(bulk.eligible) /\ ~Reached
Potential == bulk.eligible[bulk.next]

\* Slip: a failed request is not counted.
CountsOnlySuccess(ok) ==
    [bulk EXCEPT !.next = @ + 1, !.structure = get_structure(Potential),
                 !.submitted = IF ok THEN @ + 1 ELSE @]
Counts(ok) ==
    [bulk EXCEPT !.next = @ + 1, !.structure = get_structure(Potential),
                 !.submitted = IF ok THEN @ + 1 ELSE @, !.errors = IF ok THEN @ ELSE @ + 1]

BulkDry ==
    /\ Turn /\ bulk.dry_run /\ bulk' = Counts(TRUE)
    /\ UNCHANGED <<lost, cycle, historyVars>>

BulkPost ==
    /\ Turn /\ ~bulk.dry_run
    /\ Handle(Nobody, Potential.id, "scheduler_bulk")
    /\ bulk' = Counts(Verify(Nobody, Potential.id) = 200)
    /\ UNCHANGED <<lost, cycle, walk, walks>>

\* No answer within 30 seconds: the request was handled or not.
BulkLost ==
    /\ Turn /\ ~bulk.dry_run /\ lost < MaxLost
    /\ Handle(Nobody, Potential.id, "scheduler_bulk") \/ UNCHANGED history
    /\ bulk' = Counts(FALSE) /\ lost' = lost + 1
    /\ UNCHANGED <<cycle, walk, walks>>

\* The script is run again.
BulkAgain ==
    /\ bulk.pc = "done" /\ bulk' = Idle
    /\ UNCHANGED <<lost, cycle, historyVars>>

-----------------------------------------------------------------------------
(* The scheduler.                                                          *)

filter_by_priority(potentials, allowed) ==
    LET wanted(p) == p.priority \in allowed IN SelectSeq(potentials, wanted)
filter_by_potential_type(potentials, allowed) ==
    LET wanted(p) == p.type \in allowed \/ p.potential_type \in allowed
    IN  SelectSeq(potentials, wanted)

\* Neither an id nor a sender.
BatchRecord(p) ==
    [potential_id |-> p.id, status |-> "pending", priority |-> p.priority, triggered_by |-> None]

Candidates(schedule, potentials) ==
    SubSeq(potentials, 1, IF schedule.max_concurrent <= Len(potentials) THEN schedule.max_concurrent
                                                                        ELSE Len(potentials))

\* The rows after each of the batch; an exception is logged and the next one tried.
submit_batch(schedule, potentials) ==
    LET batch == Candidates(schedule, potentials)
        rows[n \in 0 .. Len(batch)] ==
            IF n = 0 THEN history ELSE create_verification(rows[n - 1], BatchRecord(batch[n]))
    IN  IF schedule.dry_run THEN history ELSE rows[Len(batch)]

NoCycle == [ran |-> FALSE, dry_run |-> TRUE, candidates |-> 0, submitted |-> 0]

RunCycle ==
    \E schedule \in Schedules, pending \in Discoveries :
        LET filtered == filter_by_potential_type(filter_by_priority(pending, schedule.priority_filter),
                                                 schedule.potential_types)
            rows == submit_batch(schedule, filtered)
        IN  /\ Len(rows) <= MaxRows
            /\ IF schedule.enabled
               THEN /\ history' = rows
                    /\ cycle' = [ran |-> TRUE, dry_run |-> schedule.dry_run,
                                 candidates |-> Len(Candidates(schedule, filtered)),
                                 submitted |-> Len(rows) - Len(history)]
               ELSE history' = history /\ cycle' = NoCycle
            /\ UNCHANGED <<bulk, lost, walk, walks>>

-----------------------------------------------------------------------------
Init ==
    /\ bulk = Idle /\ lost = 0 /\ cycle = NoCycle
    /\ HistoryInit

\* An operator asks for a potential, known or not.
Operator ==
    /\ \E sent \in Credentials, potentials \in Catalogues : \E k \in DOMAIN potentials :
           Handle(sent, potentials[k].id, "manual")
    /\ UNCHANGED <<bulk, lost, cycle, walk, walks>>

\* A client reads the pages; tasks settle.
History == Settle \/ WalkStart \/ WalkPage \/ WalkAgain

Next ==
    \/ Operator \/ BulkStart \/ BulkEnd \/ BulkDry \/ BulkPost \/ BulkLost \/ BulkAgain \/ RunCycle
    \/ History /\ UNCHANGED <<bulk, lost, cycle>>
Spec == Init /\ [][Next]_vars

-----------------------------------------------------------------------------
(* Properties                                                              *)

\* Types.
TypeOK ==
    /\ Len(history) <= MaxRows /\ lost \in 0 .. MaxLost
    /\ bulk.next \in 1 .. Len(bulk.eligible) + 1
    /\ bulk.structure \in {"bcc", "fcc", "hcp", "diamond", None}

\* Whatever is lost, whatever batches the scheduler makes and however often it and
\* the script run, every row is an operator's: neither of the two ever queues one.
OnlyOperatorsQueue == \A k \in DOMAIN history : history[k].sender = "manual"

\* The script's counts tell what became of each potential it has come to, and
\* only a dry run can reach the limit of jobs.
BulkAccounts ==
    /\ bulk.submitted + bulk.errors = bulk.next - 1
    /\ bulk.pc = "done" /\ ~bulk.dry_run => bulk.errors = Len(bulk.eligible)

=============================================================================
