-------------------------- MODULE LegacyJobsProofs --------------------------
(***************************************************************************)
(* LegacyJobs, for any requests, executions, names, lists and bounds.      *)
(***************************************************************************)
EXTENDS LegacyJobs, SequenceTheorems, TLAPS

RequestPlace == {"idle", "select", "insert_potential", "insert_job", "ended"}
ExecutionPlace == {"idle", "taken", "begun", "loaded", "ended", "raised", "killed"}

Typed ==
    /\ potentials \in [Requests -> Names \cup {None}]
    /\ jobs \in [Requests -> Job \cup {None}]
    /\ results \in [Requests -> Seq(ResultRow)]
    /\ call \in [Requests -> Call \cup {NoCall}]
    /\ pc \in [Requests \cup Executions -> RequestPlace \cup ExecutionPlace]
    /\ found \in [Requests -> Requests \cup {None}]
    /\ answer \in [Requests -> Code \cup {None}]
    /\ doing \in [Executions -> Requests \cup {None}]
    /\ seen \in [Executions -> Status \cup {None}]
    /\ position \in [Executions -> Nat]
    /\ added \in [Executions -> Seq(ResultRow)]
    /\ dbFaults \in 0 .. MaxDbFaults /\ kills \in 0 .. MaxKills

\* What a request has left in the tables, by where it is and by its answer.
RequestTells(q) ==
    /\ pc[q] \in RequestPlace
    /\ pc[q] # "idle" => call[q] \in Call
    /\ potentials[q] # None => pc[q] \in {"insert_job", "ended"} /\ potentials[q] = call[q].name
    /\ jobs[q] # None => pc[q] = "ended" /\ potentials[jobs[q].potential] = call[q].name
    /\ pc[q] = "insert_job" => found[q] \in Requests /\ potentials[found[q]] = call[q].name
    /\ answer[q] # None => pc[q] = "ended"
    /\ answer[q] = 201 => potentials[q] = call[q].name
    /\ answer[q] = 202 => jobs[q] # None
    /\ answer[q] \in {404, 409} => potentials[q] = None /\ jobs[q] = None
    /\ answer[q] = 500 /\ jobs[q] # None => q \in unacked
    /\ answer[q] = 500 /\ dbFaults = 0 => \E p \in Requests \ {q} : potentials[p] = call[q].name

\* An execution has a job, whose list it does not run past.
ExecutionTells(e) ==
    /\ pc[e] \in ExecutionPlace
    /\ pc[e] = "idle" => position[e] = 0
    /\ pc[e] # "idle" =>
          doing[e] \in Requests /\ jobs[doing[e]] \in Job /\ position[e] <= Len(jobs[doing[e]].properties)

NamesUnique ==
    \A p, q \in Requests : potentials[p] # None /\ potentials[p] = potentials[q] => p = q

IInv ==
    /\ Typed /\ NamesUnique
    /\ \A q \in Requests : RequestTells(q)
    /\ \A e \in Executions : ExecutionTells(e)

-----------------------------------------------------------------------------
(* Frames.                                                                 *)

\* Stored names stay, and stored jobs keep their potential and their list.
Kept ==
    /\ \A p \in Requests : potentials[p] # None => potentials'[p] = potentials[p]
    /\ \A j \in Requests : jobs[j] \in Job =>
           /\ jobs'[j] \in Job
           /\ jobs'[j].potential = jobs[j].potential /\ jobs'[j].properties = jobs[j].properties

LEMMA JobFacts == ASSUME NEW j \in Job
                  PROVE  /\ j.potential \in Requests /\ j.properties \in Seq(Property)
                         /\ Len(j.properties) \in Nat /\ j # None
<1>1. j.potential \in Requests /\ j.properties \in Seq(Property)
    BY ListsAssumption DEF Job
<1>2. QED
    BY <1>1, NoneAssumption

LEMMA CallFacts == ASSUME NEW c \in Call
                   PROVE  c.kind \in Kind /\ c.name \in Names /\ c.name # None /\ c.properties \in Lists
BY NoneAssumption DEF Call

LEMMA OtherRequestsTell ==
    ASSUME NEW q \in Requests, Typed, Kept, RequestTells(q),
           pc'[q] = pc[q], call'[q] = call[q], found'[q] = found[q], answer'[q] = answer[q],
           potentials'[q] = potentials[q], jobs'[q] = jobs[q] \/ (jobs[q] \in Job /\ jobs'[q] \in Job),
           unacked \subseteq unacked', dbFaults' = 0 => dbFaults = 0
    PROVE  RequestTells(q)'
<1>1. \A c \in Call : c.name # None
    BY CallFacts
<1>2. jobs'[q] # None <=> jobs[q] # None
    BY JobFacts
<1>3. jobs[q] # None => /\ jobs[q] \in Job /\ jobs[q].potential \in Requests
                        /\ jobs'[q].potential = jobs[q].potential
    BY JobFacts DEF Typed, Kept
<1>4. jobs'[q] # None => pc'[q] = "ended" /\ potentials'[jobs'[q].potential] = call'[q].name
    BY <1>1, <1>2, <1>3 DEF RequestTells, Kept
<1>5. pc'[q] = "insert_job" => found'[q] \in Requests /\ potentials'[found'[q]] = call'[q].name
    BY <1>1 DEF RequestTells, Kept
<1>6. answer'[q] = 500 /\ dbFaults' = 0 => \E p \in Requests \ {q} : potentials'[p] = call'[q].name
  <2>1. SUFFICES ASSUME answer[q] = 500, dbFaults = 0
                 PROVE  \E p \in Requests \ {q} : potentials'[p] = call[q].name
      OBVIOUS
  <2>2. PICK p \in Requests \ {q} : potentials[p] = call[q].name
      BY <2>1 DEF RequestTells
  <2>3. call[q] \in Call
      BY <2>1, NoneAssumption DEF RequestTells, Code
  <2>4. QED
      BY <2>2, <2>3, <1>1 DEF Kept
<1>7. QED
    BY <1>2, <1>4, <1>5, <1>6 DEF RequestTells

LEMMA OtherExecutionsTell ==
    ASSUME NEW e \in Executions, Kept, ExecutionTells(e), pc'[e] = pc[e], doing'[e] = doing[e], position'[e] = position[e]
    PROVE  ExecutionTells(e)'
BY DEF Kept, ExecutionTells

LEMMA SameTables == ASSUME Typed, UNCHANGED <<potentials, jobs>> PROVE Kept
BY DEF Kept

\* A step of a request: nothing of the executions changes.
LEMMA RequestStep ==
    ASSUME IInv, NEW q \in Requests, Typed', NamesUnique', Kept, RequestTells(q)',
           \A p \in Requests \ {q} : /\ pc'[p] = pc[p] /\ call'[p] = call[p] /\ found'[p] = found[p]
                                     /\ answer'[p] = answer[p] /\ potentials'[p] = potentials[p]
                                     /\ jobs'[p] = jobs[p],
           \A e \in Executions : pc'[e] = pc[e],
           UNCHANGED <<doing, position>>, unacked \subseteq unacked', dbFaults' = 0 => dbFaults = 0
    PROVE  IInv'
<1>1. ASSUME NEW p \in Requests \ {q} PROVE RequestTells(p)'
    BY <1>1, OtherRequestsTell DEF IInv
<1>2. ASSUME NEW e \in Executions PROVE ExecutionTells(e)'
    BY <1>2, OtherExecutionsTell DEF IInv
<1>3. QED
    BY <1>1, <1>2 DEF IInv

\* A step of an execution: of the requests, only statuses and dates of jobs.
LEMMA ExecutionStep ==
    ASSUME IInv, NEW e \in Executions, Typed', Kept, ExecutionTells(e)',
           \A j \in Requests : jobs'[j] = jobs[j] \/ (jobs[j] \in Job /\ jobs'[j] \in Job),
           \A a \in (Requests \cup Executions) \ {e} : pc'[a] = pc[a],
           \A d \in Executions \ {e} : doing'[d] = doing[d] /\ position'[d] = position[d],
           UNCHANGED requestVars, unacked \subseteq unacked', dbFaults' = 0 => dbFaults = 0
    PROVE  IInv'
<1>1. ASSUME NEW q \in Requests PROVE RequestTells(q)'
  <2>1. pc'[q] = pc[q]
      BY ActorsAssumption
  <2>2. QED
      BY <2>1, OtherRequestsTell DEF IInv, requestVars
<1>2. ASSUME NEW d \in Executions \ {e} PROVE ExecutionTells(d)'
    BY <1>2, OtherExecutionsTell DEF IInv
<1>3. NamesUnique'
    BY DEF IInv, NamesUnique, requestVars
<1>4. QED
    BY <1>1, <1>2, <1>3 DEF IInv

LEMMA InitHolds == Init => IInv
<1> SUFFICES ASSUME Init PROVE IInv
    OBVIOUS
<1>1. Typed
    BY BoundsAssumption DEF Init, Typed, RequestPlace
<1>2. ASSUME NEW q \in Requests PROVE RequestTells(q)
    BY NoneAssumption DEF Init, RequestTells, RequestPlace, Code
<1>3. ASSUME NEW e \in Executions PROVE ExecutionTells(e)
    BY DEF Init, ExecutionTells, ExecutionPlace
<1>4. QED
    BY <1>1, <1>2, <1>3 DEF Init, NamesUnique, IInv

LEMMA GotoFacts ==
    ASSUME Typed, NEW a \in Requests \cup Executions, NEW place \in RequestPlace \cup ExecutionPlace,
           Goto(a, place)
    PROVE  /\ pc' \in [Requests \cup Executions -> RequestPlace \cup ExecutionPlace] /\ pc'[a] = place
           /\ \A b \in (Requests \cup Executions) \ {a} : pc'[b] = pc[b]
           /\ a \in Requests => \A e \in Executions : pc'[e] = pc[e]
BY ActorsAssumption DEF Typed, Goto

\* Only this request is answered, and at its end.
Answered(q, code) ==
    /\ answer' \in [Requests -> Code \cup {None}] /\ answer'[q] = code
    /\ \A p \in Requests \ {q} : answer'[p] = answer[p] /\ pc'[p] = pc[p]
    /\ pc' \in [Requests \cup Executions -> RequestPlace \cup ExecutionPlace] /\ pc'[q] = "ended"
    /\ \A e \in Executions : pc'[e] = pc[e]

LEMMA AnswerFacts ==
    ASSUME Typed, NEW q \in Requests, NEW code \in Code, Answer(q, code)
    PROVE  Answered(q, code)
<1>1. Goto(q, "ended") /\ answer' = [answer EXCEPT ![q] = code]
    BY DEF Answer
<1>2. answer' \in [Requests -> Code \cup {None}] /\ answer'[q] = code
    BY <1>1 DEF Typed
<1>3. \A p \in Requests \ {q} : answer'[p] = answer[p]
    BY <1>1 DEF Typed
<1>4. /\ pc' \in [Requests \cup Executions -> RequestPlace \cup ExecutionPlace] /\ pc'[q] = "ended"
      /\ \A b \in (Requests \cup Executions) \ {q} : pc'[b] = pc[b]
      /\ \A e \in Executions : pc'[e] = pc[e]
    BY <1>1, GotoFacts DEF RequestPlace
<1>5. QED
    BY <1>2, <1>3, <1>4 DEF Answered

LEMMA FaultFacts == ASSUME Typed, Fault PROVE dbFaults' \in 0 .. MaxDbFaults /\ dbFaults' # 0
BY BoundsAssumption DEF Typed, Fault

-----------------------------------------------------------------------------
(* Requests.                                                               *)

LEMMA AskHolds == ASSUME IInv, NEW q \in Requests, Ask(q) PROVE IInv'
<1>1. /\ pc[q] = "idle" /\ Goto(q, "select") /\ Typed
      /\ UNCHANGED <<potentials, jobs, results, found, answer, executionVars, report, dbFaults, kills, unacked>>
    BY DEF Ask, IInv
<1>2. PICK c \in Call : call' = [call EXCEPT ![q] = c]
    BY DEF Ask
<1>3. /\ pc' \in [Requests \cup Executions -> RequestPlace \cup ExecutionPlace] /\ pc'[q] = "select"
      /\ \A p \in Requests \ {q} : pc'[p] = pc[p]
      /\ \A e \in Executions : pc'[e] = pc[e]
    BY <1>1, GotoFacts DEF RequestPlace
<1>4. Typed' /\ call'[q] \in Call /\ \A p \in Requests \ {q} : call'[p] = call[p]
    BY <1>1, <1>2, <1>3 DEF Typed, executionVars
<1>5. potentials[q] = None /\ jobs[q] = None /\ answer[q] = None
    BY <1>1 DEF IInv, RequestTells
<1>6. RequestTells(q)'
    BY <1>1, <1>3, <1>4, <1>5, NoneAssumption DEF RequestTells, RequestPlace, Code
<1>7. QED
    BY <1>1, <1>3, <1>4, <1>6, SameTables, RequestStep DEF IInv, NamesUnique, executionVars

LEMMA SelectPotentialHolds == ASSUME IInv, NEW q \in Requests, SelectPotential(q) PROVE IInv'
<1>1. /\ pc[q] = "select" /\ Typed /\ call[q] \in Call /\ potentials[q] = None /\ jobs[q] = None
      /\ answer[q] = None
      /\ UNCHANGED <<potentials, jobs, results, call, executionVars, report, kills, unacked>>
    BY DEF SelectPotential, IInv, RequestTells
<1>2. Kept /\ NamesUnique'
    BY <1>1, SameTables DEF IInv, NamesUnique
<1>3. ASSUME NEW place \in {"insert_potential", "insert_job"}, Goto(q, place), UNCHANGED <<answer, dbFaults>>,
             found' \in [Requests -> Requests \cup {None}],
             \A p \in Requests \ {q} : found'[p] = found[p],
             place = "insert_job" => found'[q] \in Requests /\ potentials[found'[q]] = call[q].name
      PROVE  IInv'
  <2>1. /\ pc' \in [Requests \cup Executions -> RequestPlace \cup ExecutionPlace] /\ pc'[q] = place
        /\ \A p \in Requests \ {q} : pc'[p] = pc[p]
        /\ \A e \in Executions : pc'[e] = pc[e]
      BY <1>1, <1>3, GotoFacts DEF RequestPlace
  <2>2. Typed'
      BY <1>1, <1>3, <2>1 DEF Typed, executionVars
  <2>3. RequestTells(q)'
      BY <1>1, <1>3, <2>1, NoneAssumption DEF RequestTells, RequestPlace, Code
  <2>4. QED
      BY <1>1, <1>2, <1>3, <2>1, <2>2, <2>3, RequestStep DEF executionVars
<1>4. ASSUME NEW code \in {404, 409, 500}, Answer(q, code), UNCHANGED found,
             dbFaults' \in 0 .. MaxDbFaults, dbFaults' = 0 => dbFaults = 0,
             code = 500 => dbFaults' # 0
      PROVE  IInv'
  <2>1. /\ answer' \in [Requests -> Code \cup {None}] /\ answer'[q] = code
        /\ \A p \in Requests \ {q} : answer'[p] = answer[p] /\ pc'[p] = pc[p]
        /\ pc' \in [Requests \cup Executions -> RequestPlace \cup ExecutionPlace] /\ pc'[q] = "ended"
        /\ \A e \in Executions : pc'[e] = pc[e]
    <3>1. code \in Code /\ Typed /\ Answer(q, code)
        BY <1>1, <1>4 DEF Code
    <3>2. Answered(q, code)
        BY <3>1, AnswerFacts
    <3>3. QED
        BY <3>2 DEF Answered
  <2>2. Typed'
      BY <1>1, <1>4, <2>1 DEF Typed, executionVars
  <2>3. RequestTells(q)'
      BY <1>1, <1>4, <2>1, NoneAssumption DEF RequestTells, RequestPlace, Code
  <2>4. QED
      BY <1>1, <1>2, <1>4, <2>1, <2>2, <2>3, RequestStep DEF executionVars
<1>5. CASE Goto(q, "insert_potential") /\ UNCHANGED <<found, answer, dbFaults>>
    BY <1>1, <1>3, <1>5 DEF Typed
<1>6. CASE (Answer(q, 404) \/ Answer(q, 409)) /\ UNCHANGED <<found, dbFaults>>
    BY <1>1, <1>4, <1>6 DEF Typed
<1>7. CASE /\ \E p \in Named(call[q].name) : found' = [found EXCEPT ![q] = p]
           /\ Goto(q, "insert_job") /\ UNCHANGED <<answer, dbFaults>>
  <2>1. PICK p \in Requests : potentials[p] = call[q].name /\ found' = [found EXCEPT ![q] = p]
      BY <1>7 DEF Named
  <2>2. /\ found' \in [Requests -> Requests \cup {None}] /\ found'[q] = p
        /\ \A r \in Requests \ {q} : found'[r] = found[r]
      BY <2>1, <1>1 DEF Typed
  <2>3. QED
      BY <2>1, <2>2, <1>3, <1>7
<1>8. CASE Fault /\ Answer(q, 500) /\ UNCHANGED found
    BY <1>1, <1>4, <1>8, FaultFacts
<1>9. QED
    BY <1>5, <1>6, <1>7, <1>8 DEF SelectPotential

LEMMA InsertPotentialHolds == ASSUME IInv, NEW q \in Requests, InsertPotential(q) PROVE IInv'
<1>1. /\ pc[q] = "insert_potential" /\ Typed /\ call[q] \in Call /\ call[q].name \in Names /\ call[q].name # None
      /\ potentials[q] = None /\ jobs[q] = None /\ answer[q] = None
      /\ UNCHANGED <<jobs, results, call, executionVars, report, kills>>
    BY CallFacts DEF InsertPotential, IInv, RequestTells
<1> DEFINE name == call[q].name
<1>2. ASSUME IsNameFree(name), potentials' = [potentials EXCEPT ![q] = name]
      PROVE  /\ potentials' \in [Requests -> Names \cup {None}] /\ potentials'[q] = name
             /\ \A p \in Requests \ {q} : potentials'[p] = potentials[p] /\ potentials[p] # name
             /\ Kept /\ NamesUnique'
  <2>1. /\ potentials' \in [Requests -> Names \cup {None}] /\ potentials'[q] = name
        /\ \A p \in Requests \ {q} : potentials'[p] = potentials[p] /\ potentials[p] # name
      BY <1>1, <1>2 DEF Typed, IsNameFree, Named
  <2>2. Kept
      BY <2>1, <1>1 DEF Kept
  <2>3. NamesUnique'
      BY <2>1, <1>1 DEF IInv, NamesUnique
  <2>4. QED
      BY <2>1, <2>2, <2>3
\* The request goes on to its job.
<1>3. CASE /\ IsNameFree(name) /\ potentials' = [potentials EXCEPT ![q] = name]
           /\ found' = [found EXCEPT ![q] = q] /\ Goto(q, "insert_job") /\ UNCHANGED <<answer, dbFaults, unacked>>
  <2>1. /\ pc' \in [Requests \cup Executions -> RequestPlace \cup ExecutionPlace] /\ pc'[q] = "insert_job"
        /\ \A p \in Requests \ {q} : pc'[p] = pc[p]
        /\ \A e \in Executions : pc'[e] = pc[e]
      BY <1>1, <1>3, GotoFacts DEF RequestPlace
  <2>2. /\ found' \in [Requests -> Requests \cup {None}] /\ found'[q] = q
        /\ \A p \in Requests \ {q} : found'[p] = found[p]
      BY <1>1, <1>3 DEF Typed
  <2>3. Typed'
      BY <1>1, <1>2, <1>3, <2>1, <2>2 DEF Typed, executionVars
  <2>4. RequestTells(q)'
      BY <1>1, <1>2, <1>3, <2>1, <2>2, NoneAssumption DEF RequestTells, RequestPlace, Code
  <2>5. QED
      BY <1>1, <1>2, <1>3, <2>1, <2>2, <2>3, <2>4, RequestStep DEF executionVars
\* The request is answered.
<1>4. ASSUME NEW code \in {201, 500}, Answer(q, code), UNCHANGED found,
             potentials' \in [Requests -> Names \cup {None}], Kept, NamesUnique',
             \A p \in Requests \ {q} : potentials'[p] = potentials[p],
             potentials'[q] \in {None, name}, code = 201 => potentials'[q] = name,
             unacked \subseteq unacked', dbFaults' \in 0 .. MaxDbFaults, dbFaults' = 0 => dbFaults = 0,
             code = 500 /\ dbFaults' = 0 => \E p \in Requests \ {q} : potentials'[p] = name
      PROVE  IInv'
  <2>1. /\ answer' \in [Requests -> Code \cup {None}] /\ answer'[q] = code
        /\ \A p \in Requests \ {q} : answer'[p] = answer[p] /\ pc'[p] = pc[p]
        /\ pc' \in [Requests \cup Executions -> RequestPlace \cup ExecutionPlace] /\ pc'[q] = "ended"
        /\ \A e \in Executions : pc'[e] = pc[e]
    <3>1. code \in Code /\ Typed /\ Answer(q, code)
        BY <1>1, <1>4 DEF Code
    <3>2. Answered(q, code)
        BY <3>1, AnswerFacts
    <3>3. QED
        BY <3>2 DEF Answered
  <2>2. Typed'
      BY <1>1, <1>4, <2>1 DEF Typed, executionVars
  <2>3. RequestTells(q)'
      BY <1>1, <1>4, <2>1 DEF RequestTells, RequestPlace
  <2>4. QED
      BY <1>1, <1>4, <2>1, <2>2, <2>3, RequestStep DEF executionVars
<1> HIDE DEF name
<1>5. CASE /\ IsNameFree(name) /\ potentials' = [potentials EXCEPT ![q] = name]
           /\ Answer(q, 201) /\ UNCHANGED <<found, dbFaults, unacked>>
    BY <1>1, <1>2, <1>4, <1>5 DEF Typed
<1>6. CASE /\ IsNameFree(name) /\ potentials' = [potentials EXCEPT ![q] = name]
           /\ Answer(q, 500) /\ UNCHANGED found /\ Fault /\ unacked' = unacked \cup {q}
    BY <1>1, <1>2, <1>4, <1>6, FaultFacts
<1>7. CASE ~IsNameFree(name) /\ Answer(q, 500) /\ UNCHANGED <<found, potentials, dbFaults, unacked>>
  <2>1. PICK p \in Requests : potentials[p] = name
      BY <1>7 DEF IsNameFree, Named
  <2>2. p # q
      BY <2>1, <1>1 DEF name
  <2>3. Kept /\ NamesUnique'
      BY <1>1, <1>7, SameTables DEF IInv, NamesUnique
  <2>4. QED
      BY <2>1, <2>2, <2>3, <1>1, <1>4, <1>7 DEF Typed
<1>8. CASE Answer(q, 500) /\ UNCHANGED found /\ Fault /\ UNCHANGED <<potentials, unacked>>
  <2>1. Kept /\ NamesUnique'
      BY <1>1, <1>8, SameTables DEF IInv, NamesUnique
  <2>2. QED
      BY <2>1, <1>1, <1>4, <1>8, FaultFacts DEF Typed
<1>9. QED
    BY <1>3, <1>5, <1>6, <1>7, <1>8 DEF InsertPotential, name

LEMMA InsertJobHolds == ASSUME IInv, NEW q \in Requests, InsertJob(q) PROVE IInv'
<1>1. /\ pc[q] = "insert_job" /\ Typed /\ call[q] \in Call /\ jobs[q] = None /\ answer[q] = None
      /\ found[q] \in Requests /\ potentials[found[q]] = call[q].name
      /\ potentials[q] # None => potentials[q] = call[q].name
      /\ UNCHANGED <<potentials, results, call, found, executionVars, report, kills>>
    BY DEF InsertJob, IInv, RequestTells
<1>2. NewJob(q) \in Job /\ NewJob(q).potential = found[q] /\ NewJob(q) # None
    BY <1>1, CallFacts, JobFacts DEF NewJob, Job, Status
<1>3. NamesUnique'
    BY <1>1 DEF IInv, NamesUnique
<1>4. ASSUME NEW code \in {202, 500}, Answer(q, code),
             jobs' = jobs \/ jobs' = [jobs EXCEPT ![q] = NewJob(q)],
             unacked \subseteq unacked', dbFaults' \in 0 .. MaxDbFaults, dbFaults' = 0 => dbFaults = 0,
             code = 202 => jobs' # jobs,
             code = 500 => dbFaults' # 0 /\ (jobs' # jobs => q \in unacked')
      PROVE  IInv'
  <2>1. /\ answer' \in [Requests -> Code \cup {None}] /\ answer'[q] = code
        /\ \A p \in Requests \ {q} : answer'[p] = answer[p] /\ pc'[p] = pc[p]
        /\ pc' \in [Requests \cup Executions -> RequestPlace \cup ExecutionPlace] /\ pc'[q] = "ended"
        /\ \A e \in Executions : pc'[e] = pc[e]
    <3>1. code \in Code /\ Typed /\ Answer(q, code)
        BY <1>1, <1>4 DEF Code
    <3>2. Answered(q, code)
        BY <3>1, AnswerFacts
    <3>3. QED
        BY <3>2 DEF Answered
  <2>2. /\ jobs' \in [Requests -> Job \cup {None}] /\ jobs'[q] \in {None, NewJob(q)}
        /\ \A p \in Requests \ {q} : jobs'[p] = jobs[p]
        /\ jobs' # jobs => jobs'[q] = NewJob(q)
        /\ jobs' = jobs => jobs'[q] = None
    <3>1. CASE jobs' = jobs
      <4>1. /\ jobs' \in [Requests -> Job \cup {None}] /\ jobs'[q] = None
            /\ \A p \in Requests \ {q} : jobs'[p] = jobs[p]
          BY <3>1, <1>1 DEF Typed
      <4>2. QED
          BY <4>1, <3>1, Zenon
    <3>2. CASE jobs' = [jobs EXCEPT ![q] = NewJob(q)]
      <4>1. /\ jobs' \in [Requests -> Job \cup {None}] /\ jobs'[q] = NewJob(q)
            /\ \A p \in Requests \ {q} : jobs'[p] = jobs[p]
          BY <3>2, <1>1, <1>2 DEF Typed
      <4>2. jobs' # jobs
          BY <4>1, <1>1, <1>2
      <4>3. QED
          BY <4>1, <4>2
    <3>3. QED
        BY <3>1, <3>2, <1>4
  <2>3. Kept
      BY <1>1, <2>2, NoneAssumption DEF Kept
  <2>4. Typed'
      BY <1>1, <1>4, <2>1, <2>2 DEF Typed, executionVars
  <2>5. jobs'[q] # None => potentials'[jobs'[q].potential] = call'[q].name
      BY <1>1, <1>2, <2>2
  <2>6. answer'[q] = 202 => jobs'[q] # None
      BY <1>2, <1>4, <2>1, <2>2
  <2>7. answer'[q] = 500 => dbFaults' # 0 /\ (jobs'[q] # None => q \in unacked')
      BY <1>4, <2>1, <2>2
  <2>8. answer'[q] \notin {201, 404, 409}
      BY <1>4, <2>1
  <2>9. RequestTells(q)'
      BY <1>1, <2>1, <2>5, <2>6, <2>7, <2>8 DEF RequestTells, RequestPlace
  <2>10. QED
      BY <1>1, <1>3, <1>4, <2>1, <2>2, <2>3, <2>4, <2>9, RequestStep DEF executionVars
<1>5. ASSUME jobs' = [jobs EXCEPT ![q] = NewJob(q)] PROVE jobs' # jobs
    BY <1>1, <1>2, <1>5 DEF Typed
<1>6. CASE /\ jobs' = [jobs EXCEPT ![q] = NewJob(q)] /\ Answer(q, 202) /\ UNCHANGED <<dbFaults, unacked>>
    BY <1>1, <1>4, <1>5, <1>6 DEF Typed
<1>7. CASE /\ jobs' = [jobs EXCEPT ![q] = NewJob(q)] /\ Answer(q, 500) /\ Fault /\ unacked' = unacked \cup {q}
    BY <1>1, <1>4, <1>7, FaultFacts
<1>8. CASE Answer(q, 500) /\ Fault /\ UNCHANGED <<jobs, unacked>>
    BY <1>1, <1>4, <1>8, FaultFacts
<1>9. QED
    BY <1>6, <1>7, <1>8 DEF InsertJob

-----------------------------------------------------------------------------
(* Executions.                                                             *)

LEMMA TakeHolds == ASSUME IInv, NEW e \in Executions, Take(e) PROVE IInv'
<1>1. /\ pc[e] = "idle" /\ Typed /\ Goto(e, "taken")
      /\ UNCHANGED <<jobs, results, requestVars, position, added, report, dbFaults, kills, unacked>>
    BY DEF Take, IInv
<1>2. PICK j \in Requests : /\ jobs[j] # None /\ doing' = [doing EXCEPT ![e] = j]
                            /\ seen' = [seen EXCEPT ![e] = jobs[j].status]
    BY DEF Take
<1>3. jobs[j] \in Job /\ jobs[j].status \in Status /\ Len(jobs[j].properties) \in Nat
    BY <1>1, <1>2, JobFacts DEF Typed, Job
<1>4. /\ pc' \in [Requests \cup Executions -> RequestPlace \cup ExecutionPlace] /\ pc'[e] = "taken"
      /\ \A a \in (Requests \cup Executions) \ {e} : pc'[a] = pc[a]
    BY <1>1, GotoFacts DEF ExecutionPlace
<1>5. Typed' /\ doing'[e] = j /\ \A d \in Executions \ {e} : doing'[d] = doing[d]
    BY <1>1, <1>2, <1>3, <1>4 DEF Typed, requestVars
<1>6. position[e] = 0
    BY <1>1 DEF IInv, ExecutionTells
<1>7. ExecutionTells(e)'
    BY <1>1, <1>3, <1>4, <1>5, <1>6 DEF ExecutionTells, ExecutionPlace
<1>8. QED
    BY <1>1, <1>4, <1>5, <1>7, SameTables, ExecutionStep DEF requestVars

\* What Begin and Finish write of a job.
LEMMA JobWritten ==
    ASSUME Typed, NEW j \in Requests, jobs[j] \in Job, NEW status \in Status,
           NEW date \in Executions \cup {None},
           jobs' = [jobs EXCEPT ![j] = [@ EXCEPT !.status = status, !.completed_by = date]],
           UNCHANGED potentials
    PROVE  /\ jobs' \in [Requests -> Job \cup {None}] /\ Kept
           /\ \A k \in Requests : jobs'[k] = jobs[k] \/ (jobs[k] \in Job /\ jobs'[k] \in Job)
<1> DEFINE written == [jobs[j] EXCEPT !.status = status, !.completed_by = date]
<1>1. /\ written \in Job /\ written.potential = jobs[j].potential
      /\ written.properties = jobs[j].properties
    BY DEF Job
<1>2. jobs' = [jobs EXCEPT ![j] = written]
    OBVIOUS
<1> HIDE DEF written
<1>3. jobs'[j] = written /\ \A k \in Requests \ {j} : jobs'[k] = jobs[k]
    BY <1>2 DEF Typed
<1>4. QED
    BY <1>1, <1>2, <1>3 DEF Typed, Kept

\* An execution that is under way has its job.
LEMMA WorkingFacts ==
    ASSUME IInv, NEW e \in Executions, pc[e] # "idle"
    PROVE  /\ Typed /\ doing[e] \in Requests /\ jobs[doing[e]] \in Job
           /\ Wanted(e) \in Seq(Property) /\ Len(Wanted(e)) \in Nat
           /\ position[e] \in Nat /\ position[e] <= Len(Wanted(e))
BY JobFacts DEF IInv, ExecutionTells, Typed, Wanted

\* A step of an execution at most moves it and writes its job.
LEMMA MoveHolds ==
    ASSUME IInv, NEW e \in Executions, pc[e] # "idle", NEW place \in ExecutionPlace \ {"idle"}, Goto(e, place),
           jobs' \in [Requests -> Job \cup {None}], Kept,
           \A j \in Requests : jobs'[j] = jobs[j] \/ (jobs[j] \in Job /\ jobs'[j] \in Job),
           results' \in [Requests -> Seq(ResultRow)], seen' \in [Executions -> Status \cup {None}],
           UNCHANGED <<requestVars, doing, position, added, report>>, unacked \subseteq unacked',
           dbFaults' \in 0 .. MaxDbFaults, dbFaults' = 0 => dbFaults = 0, kills' \in 0 .. MaxKills
    PROVE  IInv'
<1>1. /\ pc' \in [Requests \cup Executions -> RequestPlace \cup ExecutionPlace] /\ pc'[e] = place
      /\ \A a \in (Requests \cup Executions) \ {e} : pc'[a] = pc[a]
    BY GotoFacts DEF IInv
<1>2. Typed'
    BY <1>1 DEF IInv, Typed, requestVars
<1>3. ExecutionTells(e)'
    BY <1>1 DEF IInv, ExecutionTells, Kept
<1>4. QED
    BY <1>1, <1>2, <1>3, ExecutionStep

LEMMA BeginHolds == ASSUME IInv, NEW e \in Executions, Begin(e) PROVE IInv'
<1>1. /\ pc[e] = "taken" /\ UNCHANGED <<results, requestVars, executionVars, report, kills>>
    BY DEF Begin
<1>2. Typed /\ doing[e] \in Requests /\ jobs[doing[e]] \in Job
    BY <1>1, WorkingFacts
<1> DEFINE JobsWritten ==
             /\ jobs' \in [Requests -> Job \cup {None}] /\ Kept
             /\ \A j \in Requests : jobs'[j] = jobs[j] \/ (jobs[j] \in Job /\ jobs'[j] \in Job)
<1>3. ASSUME UNCHANGED jobs PROVE JobsWritten
    BY <1>1, <1>2, <1>3, SameTables DEF Typed, requestVars
<1>4. ASSUME Begun(e) PROVE JobsWritten
  <2>1. CASE seen[e] = "running"
      BY <2>1, <1>3, <1>4 DEF Begun
  <2>2. CASE seen[e] # "running"
    <3> DEFINE j == doing[e]
               date == jobs[j].completed_by
    <3>1. /\ jobs' = [jobs EXCEPT ![j].status = "running"] /\ date \in Executions \cup {None}
          /\ "running" \in Status
        BY <2>2, <1>2, <1>4 DEF Begun, Job, Status
    <3>2. [jobs[j] EXCEPT !.status = "running"] = [jobs[j] EXCEPT !.status = "running", !.completed_by = date]
        BY <1>2 DEF Job
    <3>3. jobs' = [jobs EXCEPT ![j] = [@ EXCEPT !.status = "running", !.completed_by = date]]
        BY <3>1, <3>2
    <3>4. QED
        BY <3>1, <3>3, <1>1, <1>2, JobWritten DEF requestVars
  <2>3. QED
      BY <2>1, <2>2
<1> HIDE DEF JobsWritten
<1>5. ASSUME NEW place \in {"begun", "raised"}, Goto(e, place), JobsWritten, unacked \subseteq unacked',
             dbFaults' \in 0 .. MaxDbFaults, dbFaults' = 0 => dbFaults = 0
      PROVE  IInv'
  <2>1. place \in ExecutionPlace \ {"idle"} /\ pc[e] # "idle"
      BY <1>1, <1>5 DEF ExecutionPlace
  <2>2. results' \in [Requests -> Seq(ResultRow)] /\ seen' \in [Executions -> Status \cup {None}]
        /\ kills' \in 0 .. MaxKills
      BY <1>1, <1>2 DEF Typed, executionVars
  <2>3. QED
      BY <2>1, <2>2, <1>1, <1>5, MoveHolds DEF JobsWritten, executionVars
<1>6. CASE Begun(e) /\ Goto(e, "begun") /\ UNCHANGED <<dbFaults, unacked>>
    BY <1>2, <1>4, <1>5, <1>6 DEF Typed
<1>7. CASE Begun(e) /\ Raise(e) /\ Fault /\ unacked' = unacked \cup {e}
    BY <1>2, <1>4, <1>5, <1>7, FaultFacts DEF Raise
<1>8. CASE Raise(e) /\ Fault /\ UNCHANGED <<jobs, unacked>>
    BY <1>2, <1>3, <1>5, <1>8, FaultFacts DEF Raise
<1>9. QED
    BY <1>6, <1>7, <1>8 DEF Begin

LEMMA LoadHolds == ASSUME IInv, NEW e \in Executions, Load(e) PROVE IInv'
<1>1. /\ pc[e] = "begun"
      /\ UNCHANGED <<jobs, results, requestVars, doing, position, added, report, kills, unacked>>
    BY DEF Load
<1>2. Typed /\ doing[e] \in Requests /\ jobs[doing[e]] \in Job /\ jobs[doing[e]].status \in Status
    BY <1>1, WorkingFacts DEF Job
<1>3. Kept /\ jobs' \in [Requests -> Job \cup {None}] /\ results' \in [Requests -> Seq(ResultRow)]
      /\ kills' \in 0 .. MaxKills
    BY <1>1, <1>2, SameTables DEF Typed, requestVars
<1>4. CASE seen' = [seen EXCEPT ![e] = jobs[doing[e]].status] /\ Goto(e, "loaded") /\ UNCHANGED dbFaults
  <2>1. seen' \in [Executions -> Status \cup {None}] /\ dbFaults' \in 0 .. MaxDbFaults
      BY <1>2, <1>4 DEF Typed
  <2>2. "loaded" \in ExecutionPlace \ {"idle"}
      BY DEF ExecutionPlace
  <2>3. QED
      BY <2>1, <2>2, <1>1, <1>3, <1>4, MoveHolds
<1>5. CASE Raise(e) /\ Fault /\ UNCHANGED seen
  <2>1. seen' \in [Executions -> Status \cup {None}] /\ dbFaults' \in 0 .. MaxDbFaults /\ dbFaults' # 0
      BY <1>2, <1>5, FaultFacts DEF Typed
  <2>2. "raised" \in ExecutionPlace \ {"idle"}
      BY DEF ExecutionPlace
  <2>3. QED
      BY <2>1, <2>2, <1>1, <1>3, <1>5, MoveHolds DEF Raise
<1>6. QED
    BY <1>4, <1>5 DEF Load

LEMMA ComputeHolds == ASSUME IInv, NEW e \in Executions, Compute(e) PROVE IInv'
<1>1. /\ pc[e] = "loaded" /\ position[e] < Len(Wanted(e)) /\ position' = [position EXCEPT ![e] = position[e] + 1]
      /\ UNCHANGED <<jobs, results, pc, requestVars, doing, seen, report, dbFaults, kills, unacked>>
    BY DEF Compute
<1>2. /\ Typed /\ doing[e] \in Requests /\ jobs[doing[e]] \in Job /\ Wanted(e) \in Seq(Property)
      /\ position[e] \in Nat /\ Len(Wanted(e)) \in Nat
    BY <1>1, WorkingFacts
<1> DEFINE row == [by |-> e, property |-> Wanted(e)[position[e] + 1]]
<1>3. row \in ResultRow
  <2>1. position[e] + 1 \in 1 .. Len(Wanted(e))
      BY <1>1, <1>2
  <2>2. Wanted(e)[position[e] + 1] \in Property
      BY <2>1, <1>2
  <2>3. QED
      BY <2>2 DEF ResultRow
<1>4. added' \in [Executions -> Seq(ResultRow)]
  <2>1. added' = added \/ added' = [added EXCEPT ![e] = Append(added[e], row)]
      BY DEF Compute
  <2>2. added[e] \in Seq(ResultRow)
      BY <1>2 DEF Typed
  <2>3. Append(added[e], row) \in Seq(ResultRow)
      BY <1>3, <2>2, AppendProperties
  <2> HIDE DEF row
  <2>4. QED
      BY <2>1, <2>3, <1>2 DEF Typed
<1>5. /\ position' \in [Executions -> Nat] /\ position'[e] = position[e] + 1
      /\ \A d \in Executions \ {e} : position'[d] = position[d]
    BY <1>1, <1>2 DEF Typed
<1>6. Typed'
    BY <1>1, <1>2, <1>4, <1>5 DEF Typed, requestVars
<1>7. Kept
    BY <1>1, <1>2, SameTables DEF requestVars
<1>8. ExecutionTells(e)'
    BY <1>1, <1>2, <1>5 DEF ExecutionTells, ExecutionPlace, Wanted
<1>9. QED
    BY <1>1, <1>5, <1>6, <1>7, <1>8, ExecutionStep

LEMMA FinishHolds == ASSUME IInv, NEW e \in Executions, Finish(e) PROVE IInv'
<1>1. /\ pc[e] = "loaded" /\ UNCHANGED <<requestVars, executionVars, report, kills>>
    BY DEF Finish
<1>2. Typed /\ doing[e] \in Requests /\ jobs[doing[e]] \in Job
    BY <1>1, WorkingFacts
<1> DEFINE JobsWritten ==
             /\ jobs' \in [Requests -> Job \cup {None}] /\ Kept /\ results' \in [Requests -> Seq(ResultRow)]
             /\ \A j \in Requests : jobs'[j] = jobs[j] \/ (jobs[j] \in Job /\ jobs'[j] \in Job)
<1>3. ASSUME UNCHANGED <<jobs, results>> PROVE JobsWritten
    BY <1>1, <1>2, <1>3, SameTables DEF Typed, requestVars
<1>4. ASSUME Finished(e) PROVE JobsWritten
  <2> DEFINE j == doing[e]
             status == IF seen[e] = "completed" THEN jobs[j].status ELSE "completed"
  <2>1. status \in Status
      BY <1>2 DEF Job, Status
  <2>2. results' = [results EXCEPT ![j] = results[j] \o added[e]]
      BY <1>4 DEF Finished
  <2>3. results[j] \o added[e] \in Seq(ResultRow)
    <3>1. results[j] \in Seq(ResultRow) /\ added[e] \in Seq(ResultRow)
        BY <1>2 DEF Typed
    <3>2. QED
        BY <3>1, ConcatProperties
  <2>4. results' \in [Requests -> Seq(ResultRow)]
      BY <2>2, <2>3, <1>2 DEF Typed
  <2>5. jobs' = [jobs EXCEPT ![j] = [@ EXCEPT !.status = status, !.completed_by = e]]
    <3>1. jobs' = [jobs EXCEPT ![j].completed_by = e,
                               ![j].status = IF seen[e] = "completed" THEN @ ELSE "completed"]
        BY <1>4 DEF Finished
    <3>2. [jobs[j] EXCEPT !.completed_by = e, !.status = status]
              = [jobs[j] EXCEPT !.status = status, !.completed_by = e]
        BY <1>2 DEF Job
    <3>3. jobs' = [jobs EXCEPT ![j] = [jobs[j] EXCEPT !.completed_by = e, !.status = status]]
        BY <3>1, <1>2 DEF Typed, Job
    <3>4. QED
        BY <3>2, <3>3
  <2>6. QED
      BY <2>1, <2>4, <2>5, <1>1, <1>2, JobWritten DEF requestVars
<1> HIDE DEF JobsWritten
<1>5. ASSUME NEW place \in {"ended", "raised"}, Goto(e, place), JobsWritten, unacked \subseteq unacked',
             dbFaults' \in 0 .. MaxDbFaults, dbFaults' = 0 => dbFaults = 0
      PROVE  IInv'
  <2>1. place \in ExecutionPlace \ {"idle"} /\ pc[e] # "idle"
      BY <1>1, <1>5 DEF ExecutionPlace
  <2>2. seen' \in [Executions -> Status \cup {None}] /\ kills' \in 0 .. MaxKills
      BY <1>1, <1>2 DEF Typed, executionVars
  <2>3. QED
      BY <2>1, <2>2, <1>1, <1>5, MoveHolds DEF JobsWritten, executionVars
<1>6. CASE Finished(e) /\ Goto(e, "ended") /\ UNCHANGED <<dbFaults, unacked>>
    BY <1>2, <1>4, <1>5, <1>6 DEF Typed
<1>7. CASE Finished(e) /\ Raise(e) /\ Fault /\ unacked' = unacked \cup {e}
    BY <1>2, <1>4, <1>5, <1>7, FaultFacts DEF Raise
<1>8. CASE Raise(e) /\ Fault /\ UNCHANGED <<jobs, results, unacked>>
    BY <1>2, <1>3, <1>5, <1>8, FaultFacts DEF Raise
<1>9. QED
    BY <1>6, <1>7, <1>8 DEF Finish

LEMMA KillHolds == ASSUME IInv, NEW e \in Executions, Kill(e) PROVE IInv'
<1>1. /\ pc[e] # "idle" /\ Goto(e, "killed") /\ kills < MaxKills /\ kills' = kills + 1
      /\ UNCHANGED <<jobs, results, requestVars, executionVars, report, dbFaults, unacked>>
    BY DEF Kill, Working
<1>2. /\ jobs' \in [Requests -> Job \cup {None}] /\ Kept /\ results' \in [Requests -> Seq(ResultRow)]
      /\ seen' \in [Executions -> Status \cup {None}] /\ dbFaults' \in 0 .. MaxDbFaults
    BY <1>1, SameTables DEF IInv, Typed, requestVars, executionVars
<1>3. kills' \in 0 .. MaxKills
    BY <1>1, BoundsAssumption DEF IInv, Typed
<1>4. "killed" \in ExecutionPlace \ {"idle"}
    BY DEF ExecutionPlace
<1>5. QED
    BY <1>1, <1>2, <1>3, <1>4, MoveHolds DEF executionVars

-----------------------------------------------------------------------------
LEMMA StepHolds == IInv /\ [Next]_vars => IInv'
<1> SUFFICES ASSUME IInv, [Next]_vars PROVE IInv'
    OBVIOUS
\* A reader changes nothing but its report.
<1>1. ASSUME UNCHANGED <<jobs, results, pc, requestVars, executionVars, dbFaults, kills, unacked>>
      PROVE  IInv'
  <2>1. Typed' /\ NamesUnique'
      BY <1>1 DEF IInv, Typed, NamesUnique, requestVars, executionVars
  <2>2. Kept
      BY <1>1, SameTables DEF IInv, requestVars
  <2>3. ASSUME NEW q \in Requests PROVE RequestTells(q)'
      BY <2>2, <1>1, OtherRequestsTell DEF IInv, requestVars
  <2>4. ASSUME NEW e \in Executions PROVE ExecutionTells(e)'
      BY <2>2, <1>1, OtherExecutionsTell DEF IInv, executionVars
  <2>5. QED
      BY <2>1, <2>3, <2>4 DEF IInv
<1>2. ASSUME NEW r \in Readers, ReadJob(r) \/ ReadResults(r) PROVE IInv'
    BY <1>1, <1>2 DEF ReadJob, ReadResults
<1>3. CASE UNCHANGED vars
    BY <1>1, <1>3 DEF vars
<1>4. QED
    BY <1>2, <1>3, AskHolds, SelectPotentialHolds, InsertPotentialHolds, InsertJobHolds, TakeHolds,
       BeginHolds, LoadHolds, ComputeHolds, FinishHolds, KillHolds DEF Next

THEOREM Invariance == Spec => []IInv
BY InitHolds, StepHolds, PTL DEF Spec

\* Types; an execution has its job and never runs past the list of it.
THEOREM TypeCorrectness == Spec => []TypeOK
<1>1. IInv => TypeOK
    BY JobFacts DEF IInv, Typed, RequestTells, ExecutionTells, TypeOK, RequestPlace, ExecutionPlace,
                    Stored, Wanted
<1>2. QED
    BY <1>1, Invariance, PTL

\* Whoever wins the race for a name, jobs belong to the potential asked for.
THEOREM JobsFindPotential == Spec => []JobsNamePotential
<1>1. IInv => JobsNamePotential
    BY DEF IInv, NamesUnique, RequestTells, JobsNamePotential, Stored
<1>2. QED
    BY <1>1, Invariance, PTL

\* What a client was told is what the tables hold.
THEOREM AnswersAreTrue == Spec => []AnswersTell
<1>1. IInv => AnswersTell
    BY DEF IInv, RequestTells, AnswersTell
<1>2. QED
    BY <1>1, Invariance, PTL

-----------------------------------------------------------------------------
(* Rows of whole executions.                                               *)

LEMMA WholeSame ==
    ASSUME NEW rows, NEW rows2, NEW e, NEW list, Whole(rows, e, list), RowsBy(rows2, e) = RowsBy(rows, e),
           \A k \in RowsBy(rows, e) : rows2[k] = rows[k]
    PROVE  Whole(rows2, e, list)
<1>1. PICK row \in [SupportedIn(list) -> RowsBy(rows, e)] :
          /\ \A k \in RowsBy(rows, e) : \E i \in SupportedIn(list) : row[i] = k
          /\ \A i \in SupportedIn(list) : rows[row[i]].property = list[i]
          /\ \A i, l \in SupportedIn(list) : i < l => row[i] < row[l]
    BY DEF Whole
<1>2. \A i \in SupportedIn(list) : rows2[row[i]] = rows[row[i]]
    BY <1>1
<1>3. QED
    BY <1>1, <1>2 DEF Whole

LEMMA WholeList ==
    ASSUME NEW rows, NEW e, NEW list, NEW list2, Whole(rows, e, list), SupportedIn(list2) = SupportedIn(list),
           \A i \in SupportedIn(list) : list2[i] = list[i]
    PROVE  Whole(rows, e, list2)
BY DEF Whole

\* The part of a list behind an execution.
Prefix(list, n) == [i \in 1 .. n |-> list[i]]

LEMMA PrefixFacts ==
    ASSUME NEW list \in Seq(Property), NEW n \in Nat
    PROVE  /\ SupportedIn(Prefix(list, n)) = {i \in 1 .. n : list[i] \in Supported}
           /\ \A i \in 1 .. n : Prefix(list, n)[i] = list[i]
           /\ n = Len(list) => SupportedIn(Prefix(list, n)) = SupportedIn(list)
BY DEF Prefix, SupportedIn

LEMMA WholeAll ==
    ASSUME NEW rows, NEW e, NEW list \in Seq(Property), Whole(rows, e, Prefix(list, Len(list)))
    PROVE  Whole(rows, e, list)
<1>1. Len(list) \in Nat /\ DOMAIN list = 1 .. Len(list)
    OBVIOUS
<1>2. SupportedIn(Prefix(list, Len(list))) = SupportedIn(list)
    BY <1>1, PrefixFacts
<1>3. \A i \in SupportedIn(list) : list[i] = Prefix(list, Len(list))[i]
    BY <1>1, PrefixFacts DEF SupportedIn
<1>4. QED
    BY <1>2, <1>3, WholeList

LEMMA WholeNothing ==
    ASSUME NEW e, NEW list \in Seq(Property)
    PROVE  Whole(<<>>, e, Prefix(list, 0))
<1>1. SupportedIn(Prefix(list, 0)) = {} /\ RowsBy(<<>>, e) = {}
    BY PrefixFacts DEF RowsBy
<1>2. [i \in {} |-> i] \in [{} -> {}]
    OBVIOUS
<1>3. QED
    BY <1>1, <1>2 DEF Whole

LEMMA WholePassed ==
    ASSUME NEW rows, NEW e, NEW list \in Seq(Property), NEW n \in Nat, list[n + 1] \notin Supported,
           Whole(rows, e, Prefix(list, n))
    PROVE  Whole(rows, e, Prefix(list, n + 1))
<1>1. \A i \in 1 .. n + 1 : i \in 1 .. n \/ i = n + 1
    OBVIOUS
<1>2. \A i \in 1 .. n : i \in 1 .. n + 1
    OBVIOUS
<1>3. SupportedIn(Prefix(list, n + 1)) = SupportedIn(Prefix(list, n))
  <2>1. SupportedIn(Prefix(list, n)) = {i \in 1 .. n : list[i] \in Supported}
      BY PrefixFacts
  <2>2. n + 1 \in Nat
      OBVIOUS
  <2>3. SupportedIn(Prefix(list, n + 1)) = {i \in 1 .. n + 1 : list[i] \in Supported}
      BY <2>2, PrefixFacts
  <2>4. QED
      BY <2>1, <2>3, <1>1, <1>2
<1>4. \A i \in SupportedIn(Prefix(list, n)) : Prefix(list, n + 1)[i] = Prefix(list, n)[i]
    BY <1>2, PrefixFacts
<1>5. QED
    BY <1>3, <1>4, WholeList

LEMMA WholeGrows ==
    ASSUME NEW s \in Seq(ResultRow), NEW e \in Executions, NEW list \in Seq(Property), NEW n \in Nat,
           list[n + 1] \in Supported, Whole(s, e, Prefix(list, n))
    PROVE  Whole(Append(s, [by |-> e, property |-> list[n + 1]]), e, Prefix(list, n + 1))
<1> DEFINE new == [by |-> e, property |-> list[n + 1]]
           t == Append(s, new)
           m == Len(s)
           S == SupportedIn(Prefix(list, n))
           T == SupportedIn(Prefix(list, n + 1))
<1>1. /\ m \in Nat /\ DOMAIN s = 1 .. m /\ DOMAIN t = 1 .. m + 1 /\ t[m + 1] = new
      /\ \A k \in 1 .. m : t[k] = s[k]
  <2>1. new \in ResultRow
      BY DEF ResultRow, Property
  <2>2. QED
      BY <2>1, AppendProperties
<1>2. /\ S = {i \in 1 .. n : list[i] \in Supported} /\ T = S \cup {n + 1}
      /\ \A i \in S : i \in Nat /\ i < n + 1 /\ i # n + 1 /\ Prefix(list, n + 1)[i] = list[i] /\ Prefix(list, n)[i] = list[i]
      /\ Prefix(list, n + 1)[n + 1] = list[n + 1]
  <2>1. \A i : i \in 1 .. n + 1 <=> i \in 1 .. n \/ i = n + 1
      OBVIOUS
  <2>2. QED
      BY <2>1, PrefixFacts
<1>3. new.by = e /\ new.property = list[n + 1]
    OBVIOUS
<1> HIDE DEF new, t, m, S, T
<1>4. RowsBy(t, e) = RowsBy(s, e) \cup {m + 1} /\ \A k \in RowsBy(s, e) : k \in 1 .. m
    BY <1>1, <1>3 DEF RowsBy
<1>5. PICK row \in [S -> RowsBy(s, e)] :
          /\ \A k \in RowsBy(s, e) : \E i \in S : row[i] = k
          /\ \A i \in S : s[row[i]].property = Prefix(list, n)[i]
          /\ \A i, l \in S : i < l => row[i] < row[l]
    BY DEF Whole, S
<1> DEFINE row2 == [i \in T |-> IF i = n + 1 THEN m + 1 ELSE row[i]]
<1>6. /\ row2 \in [T -> RowsBy(t, e)] /\ row2[n + 1] = m + 1
      /\ \A i \in S : row2[i] = row[i] /\ row[i] \in 1 .. m
  <2>1. \A i \in S : i # n + 1 /\ row[i] \in RowsBy(s, e) /\ row[i] \in 1 .. m
    <3>1. \A i \in S : row[i] \in RowsBy(s, e)
        BY <1>5
    <3>2. QED
        BY <3>1, <1>2, <1>4
  <2>2. \A i \in T : i = n + 1 \/ i \in S
      BY <1>2
  <2>3. \A i \in T : (IF i = n + 1 THEN m + 1 ELSE row[i]) \in RowsBy(t, e)
      BY <2>1, <2>2, <1>4
  <2>4. row2 \in [T -> RowsBy(t, e)]
      BY <2>3
  <2>5. n + 1 \in T /\ \A i \in S : i \in T
      BY <1>2
  <2>6. QED
      BY <2>1, <2>4, <2>5
<1> HIDE DEF row2
<1>7. \A k \in RowsBy(t, e) : \E i \in T : row2[i] = k
  <2>1. n + 1 \in T /\ \A i \in S : i \in T
      BY <1>2
  <2>2. \A k \in RowsBy(s, e) : \E i \in S : row2[i] = k
      BY <1>5, <1>6
  <2>3. QED
      BY <2>1, <2>2, <1>4, <1>6
<1>8. ASSUME NEW i \in T PROVE t[row2[i]].property = Prefix(list, n + 1)[i]
  <2>1. CASE i \in S
    <3>1. row2[i] = row[i] /\ t[row[i]] = s[row[i]] /\ Prefix(list, n + 1)[i] = Prefix(list, n)[i]
        BY <2>1, <1>1, <1>2, <1>6
    <3>2. s[row[i]].property = Prefix(list, n)[i]
        BY <2>1, <1>5
    <3>3. QED
        BY <3>1, <3>2
  <2>2. CASE i = n + 1
    <3>1. row2[i] = m + 1
        BY <2>2, <1>6
    <3>2. t[m + 1] = new
        BY <1>1
    <3>3. Prefix(list, n + 1)[i] = list[n + 1]
        BY <2>2, <1>2
    <3>4. QED
        BY <3>1, <3>2, <3>3, <1>3
  <2>3. QED
      BY <2>1, <2>2, <1>2
<1>9. \A i, l \in T : i < l => row2[i] < row2[l]
  <2>1. SUFFICES ASSUME NEW i \in T, NEW l \in T, i < l PROVE row2[i] < row2[l]
      OBVIOUS
  <2>2. i \in S
      BY <2>1, <1>2
  <2>3. CASE l \in S
    <3>1. row[i] < row[l]
        BY <2>1, <2>2, <2>3, <1>5
    <3>2. row2[i] = row[i] /\ row2[l] = row[l]
        BY <2>2, <2>3, <1>6
    <3>3. QED
        BY <3>1, <3>2
  <2>4. CASE l = n + 1
      BY <2>2, <2>4, <1>1, <1>6
  <2>5. QED
      BY <2>3, <2>4, <1>2
<1>10. QED
    BY <1>6, <1>7, <1>8, <1>9 DEF Whole, T, t, new

\* What a commit appends to the rows of a job.
LEMMA RowsAppended ==
    ASSUME NEW rows \in Seq(ResultRow), NEW s \in Seq(ResultRow), NEW e, \A k \in DOMAIN s : s[k].by # e
    PROVE  RowsBy(rows \o s, e) = RowsBy(rows, e) /\ \A k \in RowsBy(rows, e) : (rows \o s)[k] = rows[k]
<1> DEFINE t == rows \o s
           n == Len(rows)
           m == Len(s)
<1>1. /\ n \in Nat /\ m \in Nat /\ DOMAIN rows = 1 .. n /\ DOMAIN s = 1 .. m /\ DOMAIN t = 1 .. n + m
      /\ \A k \in 1 .. n : t[k] = rows[k]
      /\ \A k \in 1 .. m : t[n + k] = s[k]
    BY ConcatProperties
<1> HIDE DEF t, n, m
<1>2. \A k \in 1 .. n : k \in 1 .. n + m
    BY <1>1
<1>3. ASSUME NEW k \in 1 .. n + m, t[k].by = e PROVE k \in 1 .. n
  <2>1. SUFFICES ASSUME k \notin 1 .. n PROVE FALSE
      OBVIOUS
  <2>2. k - n \in 1 .. m /\ k = n + (k - n)
      BY <2>1, <1>1
  <2>3. t[k] = s[k - n]
      BY <2>2, <1>1
  <2>4. QED
      BY <2>2, <2>3, <1>1, <1>3
<1>4. RowsBy(t, e) = RowsBy(rows, e) /\ \A k \in RowsBy(rows, e) : t[k] = rows[k]
    BY <1>1, <1>2, <1>3 DEF RowsBy
<1>5. QED
    BY <1>4 DEF t

LEMMA WholeMoved ==
    ASSUME NEW rows \in Seq(ResultRow), NEW s \in Seq(ResultRow), NEW e, NEW list, RowsBy(rows, e) = {},
           \A k \in DOMAIN s : s[k].by = e, Whole(s, e, list)
    PROVE  Whole(rows \o s, e, list)
<1> DEFINE t == rows \o s
           n == Len(rows)
           m == Len(s)
<1>1. /\ n \in Nat /\ m \in Nat /\ DOMAIN rows = 1 .. n /\ DOMAIN s = 1 .. m /\ DOMAIN t = 1 .. n + m
      /\ \A k \in 1 .. n : t[k] = rows[k]
      /\ \A k \in 1 .. m : t[n + k] = s[k]
    BY ConcatProperties
<1> HIDE DEF t, n, m
<1>2. RowsBy(s, e) = 1 .. m
    BY <1>1 DEF RowsBy
<1>3. \A k \in 1 .. m : n + k \in RowsBy(t, e)
  <2>1. \A k \in 1 .. m : n + k \in 1 .. n + m
      BY <1>1
  <2>2. QED
      BY <2>1, <1>1 DEF RowsBy
<1>4. ASSUME NEW k \in RowsBy(t, e) PROVE k - n \in 1 .. m /\ k = n + (k - n)
  <2>1. k \in 1 .. n + m /\ t[k].by = e
      BY <1>1 DEF RowsBy
  <2>2. k \notin 1 .. n
      BY <2>1, <1>1 DEF RowsBy
  <2>3. QED
      BY <2>1, <2>2, <1>1
<1> DEFINE S == SupportedIn(list)
<1>5. PICK row \in [S -> 1 .. m] :
          /\ \A k \in 1 .. m : \E i \in S : row[i] = k
          /\ \A i \in S : s[row[i]].property = list[i]
          /\ \A i, l \in S : i < l => row[i] < row[l]
    BY <1>2 DEF Whole
<1> HIDE DEF S
<1> DEFINE row2 == [i \in S |-> n + row[i]]
<1>6. row2 \in [S -> RowsBy(t, e)] /\ \A i \in S : row2[i] = n + row[i] /\ row[i] \in 1 .. m
    BY <1>3, <1>5
<1> HIDE DEF row2
<1>7. ASSUME NEW k \in RowsBy(t, e) PROVE \E i \in S : row2[i] = k
  <2>1. PICK i \in S : row[i] = k - n
      BY <1>4, <1>5
  <2>2. QED
      BY <2>1, <1>4, <1>6
<1>8. \A i \in S : t[row2[i]].property = list[i]
    BY <1>1, <1>5, <1>6
<1>9. \A i, l \in S : i < l => row2[i] < row2[l]
    BY <1>1, <1>5, <1>6
<1>10. QED
    BY <1>6, <1>7, <1>8, <1>9 DEF Whole, S, t

-----------------------------------------------------------------------------
(* What executions have delivered, and what reports have read of it.       *)

\* What an execution has delivered to a job: nothing, or, ended or raised after
\* its last commit, everything.
Delivered(e, j) ==
    \/ /\ RowsBy(results[j], e) = {} /\ (jobs[j] # None => jobs[j].completed_by # e)
       /\ ~(pc[e] = "ended" /\ doing[e] = j)
    \/ /\ doing[e] = j /\ pc[e] \in {"ended", "raised"} /\ jobs[j] # None
       /\ Whole(results[j], e, jobs[j].properties)

\* The rows an execution holds are those of the part of the list behind it.
Holds(e) ==
    /\ \A k \in DOMAIN added[e] : added[e][k].by = e
    /\ pc[e] # "idle" => Whole(added[e], e, Prefix(jobs[doing[e]].properties, position[e]))
    /\ pc[e] = "idle" => added[e] = <<>>

\* A report with a date is of a job that the dated execution has completed.
ReportTells(r) ==
    /\ report[r].job # None => jobs[report[r].job] # None
    /\ report[r].rows # None => report[r].job # None
    /\ report[r].dated # None =>
          /\ report[r].job # None /\ doing[report[r].dated] = report[r].job
          /\ pc[report[r].dated] \in {"ended", "raised"}
          /\ Whole(results[report[r].job], report[r].dated, jobs[report[r].job].properties)
    /\ report[r].rows # None /\ report[r].dated # None =>
          Whole(report[r].rows, report[r].dated, jobs[report[r].job].properties)

ReportTyped ==
    report \in [Readers -> [job : Requests \cup {None}, dated : Executions \cup {None}, rows : Seq(ResultRow) \cup {None}]]

RInv ==
    /\ ReportTyped
    /\ \A e \in Executions : Holds(e) /\ \A j \in Requests : Delivered(e, j)
    /\ \A r \in Readers : ReportTells(r)

\* Stored jobs stay, with their list.
JobsStay ==
    \A j \in Requests : jobs[j] # None => jobs'[j] # None /\ jobs'[j].properties = jobs[j].properties
DatesStay(e) ==
    \A j \in Requests : jobs'[j] # None /\ jobs'[j].completed_by = e => jobs[j] # None /\ jobs[j].completed_by = e
RowsStay(e) ==
    \A j \in Requests :
        /\ RowsBy(results'[j], e) = RowsBy(results[j], e)
        /\ \A k \in RowsBy(results[j], e) : results'[j][k] = results[j][k]

LEMMA RInitHolds == Init => RInv
<1> SUFFICES ASSUME Init PROVE RInv
    OBVIOUS
<1>1. DOMAIN <<>> = {} /\ \A e \in Executions : RowsBy(<<>>, e) = {}
    BY DEF RowsBy
<1>2. ASSUME NEW e \in Executions PROVE Holds(e)
    BY <1>1 DEF Init, Holds
<1>3. ASSUME NEW e \in Executions, NEW j \in Requests PROVE Delivered(e, j)
    BY <1>1 DEF Init, Delivered
<1>4. ReportTyped /\ \A r \in Readers : ReportTells(r)
    BY DEF Init, ReportTyped, ReportTells, NoReport
<1>5. QED
    BY <1>2, <1>3, <1>4 DEF RInv

LEMMA ExecutionJob ==
    ASSUME IInv, NEW e \in Executions, pc[e] # "idle"
    PROVE  doing[e] \in Requests /\ jobs[doing[e]] # None /\ jobs[doing[e]].properties \in Seq(Property)
BY JobFacts DEF IInv, ExecutionTells

LEMMA HoldsKept ==
    ASSUME IInv, NEW e \in Executions, Holds(e), JobsStay, added'[e] = added[e], position'[e] = position[e],
           doing'[e] = doing[e], pc'[e] = "idle" <=> pc[e] = "idle"
    PROVE  Holds(e)'
<1>1. ASSUME pc[e] # "idle" PROVE jobs'[doing[e]].properties = jobs[doing[e]].properties
    BY <1>1, ExecutionJob DEF JobsStay
<1>2. QED
    BY <1>1 DEF Holds

LEMMA DeliveredKept ==
    ASSUME NEW e \in Executions, NEW j \in Requests, Delivered(e, j), JobsStay, DatesStay(e), RowsStay(e),
           \/ doing'[e] = doing[e] /\ pc'[e] = pc[e]
           \/ pc[e] \notin {"ended", "raised"} /\ pc'[e] # "ended"
    PROVE  Delivered(e, j)'
<1>1. CASE /\ RowsBy(results[j], e) = {} /\ (jobs[j] # None => jobs[j].completed_by # e)
           /\ ~(pc[e] = "ended" /\ doing[e] = j)
  <2>1. RowsBy(results'[j], e) = {} /\ (jobs'[j] # None => jobs'[j].completed_by # e)
      BY <1>1 DEF RowsStay, DatesStay
  <2>2. QED
      BY <2>1, <1>1 DEF Delivered
<1>2. CASE /\ doing[e] = j /\ pc[e] \in {"ended", "raised"} /\ jobs[j] # None
           /\ Whole(results[j], e, jobs[j].properties)
  <2>1. Whole(results'[j], e, jobs[j].properties)
      BY <1>2, WholeSame DEF RowsStay
  <2>2. QED
      BY <2>1, <1>2 DEF Delivered, JobsStay
<1>3. QED
    BY <1>1, <1>2 DEF Delivered

LEMMA ReportKept ==
    ASSUME NEW r \in Readers, ReportTyped, ReportTells(r), report'[r] = report[r], JobsStay,
           \A e \in Executions : pc[e] \in {"ended", "raised"} => pc'[e] = pc[e] /\ doing'[e] = doing[e] /\ RowsStay(e)
    PROVE  ReportTells(r)'
<1>1. report[r].job \in Requests \cup {None} /\ report[r].dated \in Executions \cup {None}
    BY DEF ReportTyped
<1>2. report[r].job # None =>
          jobs'[report[r].job] # None /\ jobs'[report[r].job].properties = jobs[report[r].job].properties
    BY <1>1 DEF ReportTells, JobsStay
<1> DEFINE e == report[r].dated
           j == report[r].job
<1>3. ASSUME e # None
      PROVE  /\ j # None /\ doing'[e] = j /\ pc'[e] \in {"ended", "raised"}
             /\ Whole(results'[j], e, jobs[j].properties)
  <2>1. /\ e \in Executions /\ j \in Requests /\ doing[e] = j /\ pc[e] \in {"ended", "raised"}
        /\ Whole(results[j], e, jobs[j].properties)
      BY <1>1, <1>3 DEF ReportTells
  <2> HIDE DEF e, j
  <2>2. pc'[e] = pc[e] /\ doing'[e] = doing[e] /\ RowsStay(e)
      BY <2>1
  <2>3. Whole(results'[j], e, jobs[j].properties)
      BY <2>1, <2>2, WholeSame DEF RowsStay
  <2>4. QED
      BY <2>1, <2>2, <2>3, NoneAssumption
<1>4. QED
    BY <1>2, <1>3 DEF ReportTells

\* The rows do not change: those of the whole table stay.
LEMMA SameRows == ASSUME UNCHANGED results PROVE \A e : RowsStay(e)
BY DEF RowsStay

\* A step of a request, or of an execution to a place before its end.
LEMMA QuietStep ==
    ASSUME IInv, RInv, UNCHANGED <<results, position, added, report>>, JobsStay, \A e \in Executions : DatesStay(e),
           \A e \in Executions : \/ pc'[e] = pc[e] /\ doing'[e] = doing[e]
                                 \/ /\ pc[e] \notin {"idle", "ended", "raised"} /\ pc'[e] \notin {"idle", "ended"}
                                    /\ doing'[e] = doing[e]
    PROVE  RInv'
<1>1. \A e \in Executions : RowsStay(e)
    BY SameRows
<1>2. ASSUME NEW e \in Executions PROVE Holds(e)' /\ \A j \in Requests : Delivered(e, j)'
    BY <1>1, <1>2, HoldsKept, DeliveredKept DEF RInv
<1>3. ReportTyped' /\ \A r \in Readers : ReportTells(r)'
  <2>1. ReportTyped'
      BY DEF RInv, ReportTyped
  <2>2. QED
      BY <1>1, <2>1, ReportKept DEF RInv
<1>4. QED
    BY <1>2, <1>3 DEF RInv

LEMMA RRequestHolds ==
    ASSUME IInv, RInv, NEW q \in Requests,
           Ask(q) \/ SelectPotential(q) \/ InsertPotential(q) \/ InsertJob(q)
    PROVE  RInv'
<1>1. UNCHANGED <<results, executionVars, report>> /\ Typed
    BY DEF Ask, SelectPotential, InsertPotential, InsertJob, IInv
<1>2. \E place \in RequestPlace : pc' = [pc EXCEPT ![q] = place]
    BY DEF Ask, SelectPotential, InsertPotential, InsertJob, Answer, Goto, RequestPlace
<1>3. \A e \in Executions : pc'[e] = pc[e]
    BY <1>1, <1>2, ActorsAssumption DEF Typed
<1>4. UNCHANGED jobs \/ (jobs[q] = None /\ jobs' = [jobs EXCEPT ![q] = NewJob(q)])
  <2>1. CASE Ask(q) \/ SelectPotential(q) \/ InsertPotential(q)
      BY <2>1 DEF Ask, SelectPotential, InsertPotential
  <2>2. CASE InsertJob(q)
    <3>1. pc[q] = "insert_job" /\ jobs[q] = None
        BY <2>2 DEF InsertJob, IInv, RequestTells
    <3>2. QED
        BY <2>2, <3>1 DEF InsertJob
  <2>3. QED
      BY <2>1, <2>2
<1>5. \A j \in Requests : \/ jobs'[j] = jobs[j]
                          \/ jobs[j] = None /\ jobs'[j] = NewJob(j)
  <2>1. CASE UNCHANGED jobs
      BY <2>1
  <2>2. CASE jobs[q] = None /\ jobs' = [jobs EXCEPT ![q] = NewJob(q)]
    <3>1. jobs'[q] = NewJob(q) /\ \A j \in Requests \ {q} : jobs'[j] = jobs[j]
        BY <2>2, <1>1 DEF Typed
    <3>2. QED
        BY <2>2, <3>1
  <2>3. QED
      BY <2>1, <2>2, <1>4
<1>6. JobsStay
    BY <1>5 DEF JobsStay
<1>7. \A e \in Executions : DatesStay(e)
  <2>1. \A j : NewJob(j).completed_by = None
      BY DEF NewJob
  <2>2. QED
      BY <1>5, <2>1, NoneAssumption DEF DatesStay
<1>8. QED
    BY <1>1, <1>3, <1>6, <1>7, QuietStep DEF executionVars

\* An execution that has not begun to compute has no rows anywhere.
LEMMA RTakeHolds == ASSUME IInv, RInv, NEW e \in Executions, Take(e) PROVE RInv'
<1>1. /\ pc[e] = "idle" /\ Typed /\ UNCHANGED <<jobs, results, position, added, report>>
      /\ pc' = [pc EXCEPT ![e] = "taken"] /\ position[e] = 0 /\ added[e] = <<>>
    BY DEF Take, Goto, IInv, ExecutionTells, RInv, Holds
<1>2. PICK j \in Requests : jobs[j] # None /\ doing' = [doing EXCEPT ![e] = j]
    BY DEF Take
<1>3. /\ pc'[e] = "taken" /\ doing'[e] = j
      /\ \A d \in Executions \ {e} : pc'[d] = pc[d] /\ doing'[d] = doing[d]
    BY <1>1, <1>2 DEF Typed
<1>4. JobsStay /\ \A d \in Executions : DatesStay(d) /\ RowsStay(d)
    BY <1>1, SameRows DEF JobsStay, DatesStay
<1>5. ASSUME NEW d \in Executions, NEW k \in Requests PROVE Delivered(d, k)'
  <2>1. Delivered(d, k)
      BY DEF RInv
  <2>2. d = e => pc[d] \notin {"ended", "raised"} /\ pc'[d] # "ended"
      BY <1>1, <1>3
  <2>3. d # e => doing'[d] = doing[d] /\ pc'[d] = pc[d]
      BY <1>3
  <2>4. QED
      BY <2>1, <2>2, <2>3, <1>4, DeliveredKept
<1>6. Holds(e)'
  <2>1. jobs[j].properties \in Seq(Property)
      BY <1>1, <1>2, JobFacts DEF Typed
  <2>2. Whole(<<>>, e, Prefix(jobs[j].properties, 0))
      BY <2>1, WholeNothing
  <2>3. DOMAIN <<>> = {}
      OBVIOUS
  <2>4. QED
      BY <1>1, <1>3, <2>2, <2>3 DEF Holds
<1>7. ASSUME NEW d \in Executions \ {e} PROVE Holds(d)'
    BY <1>1, <1>3, <1>4, <1>7, HoldsKept DEF RInv
<1>8. ReportTyped' /\ \A r \in Readers : ReportTells(r)'
  <2>1. ReportTyped'
      BY <1>1 DEF RInv, ReportTyped
  <2>2. \A d \in Executions : pc[d] \in {"ended", "raised"} => pc'[d] = pc[d] /\ doing'[d] = doing[d] /\ RowsStay(d)
      BY <1>1, <1>3, <1>4
  <2>3. QED
      BY <1>1, <1>4, <2>1, <2>2, ReportKept DEF RInv
<1>9. QED
    BY <1>5, <1>6, <1>7, <1>8 DEF RInv

\* A place before the end, without rows.
LEMMA RMoveHolds ==
    ASSUME IInv, RInv, NEW e \in Executions, pc[e] \in {"taken", "begun", "loaded"},
           NEW place \in {"begun", "loaded", "raised", "killed"}, Goto(e, place),
           UNCHANGED <<results, doing, position, added, report>>,
           \/ UNCHANGED jobs
           \/ jobs[doing[e]] # None /\ jobs' = [jobs EXCEPT ![doing[e]].status = "running"]
    PROVE  RInv'
<1>1. pc'[e] = place /\ \A d \in Executions \ {e} : pc'[d] = pc[d]
    BY DEF Goto, IInv, Typed
<1>2. \A j \in Requests : \/ jobs'[j] = jobs[j]
                          \/ /\ jobs[j] \in Job /\ jobs'[j] \in Job /\ jobs'[j].properties = jobs[j].properties
                             /\ jobs'[j].completed_by = jobs[j].completed_by
  <2>1. CASE UNCHANGED jobs
      BY <2>1
  <2>2. CASE jobs[doing[e]] # None /\ jobs' = [jobs EXCEPT ![doing[e]].status = "running"]
    <3> DEFINE j == doing[e]
               written == [jobs[j] EXCEPT !.status = "running"]
    <3>1. j \in Requests /\ jobs[j] \in Job
        BY WorkingFacts
    <3>2. /\ written \in Job /\ written.properties = jobs[j].properties
          /\ written.completed_by = jobs[j].completed_by
        BY <3>1 DEF Job, Status
    <3>3. jobs' = [jobs EXCEPT ![j] = written]
        BY <2>2
    <3> HIDE DEF j, written
    <3>4. jobs'[j] = written /\ \A k \in Requests \ {j} : jobs'[k] = jobs[k]
        BY <3>1, <3>3 DEF IInv, Typed
    <3>5. QED
        BY <3>1, <3>2, <3>4
  <2>3. QED
      BY <2>1, <2>2
<1>3. \A j \in Job : j # None
    BY JobFacts
<1>4. JobsStay /\ \A d \in Executions : DatesStay(d)
    BY <1>2, <1>3 DEF JobsStay, DatesStay
<1>5. QED
    BY <1>1, <1>4, QuietStep

LEMMA RBeforeEndHolds ==
    ASSUME IInv, RInv, NEW e \in Executions, Begin(e) \/ Load(e) \/ Kill(e)
    PROVE  RInv'
<1>1. /\ pc[e] \in {"taken", "begun", "loaded"} /\ UNCHANGED <<results, doing, position, added, report>>
      /\ jobs[doing[e]] # None
  <2>1. pc[e] \in {"taken", "begun", "loaded"} /\ UNCHANGED <<results, doing, position, added, report>>
      BY DEF Begin, Load, Kill, Working, executionVars
  <2>2. QED
      BY <2>1, ExecutionJob
<1>2. PICK place \in {"begun", "loaded", "raised", "killed"} : Goto(e, place)
    BY DEF Begin, Load, Kill, Raise
<1>3. UNCHANGED jobs \/ jobs' = [jobs EXCEPT ![doing[e]].status = "running"]
    BY DEF Begin, Begun, Load, Kill
<1>4. QED
    BY <1>1, <1>2, <1>3, RMoveHolds

LEMMA RComputeHolds == ASSUME IInv, RInv, NEW e \in Executions, Compute(e) PROVE RInv'
<1>1. /\ pc[e] = "loaded" /\ position[e] < Len(Wanted(e)) /\ position' = [position EXCEPT ![e] = position[e] + 1]
      /\ UNCHANGED <<jobs, results, pc, doing, report>>
    BY DEF Compute
<1> DEFINE list == jobs[doing[e]].properties
           n == position[e]
           row == [by |-> e, property |-> list[n + 1]]
<1>2. /\ Typed /\ list \in Seq(Property) /\ n \in Nat /\ added[e] \in Seq(ResultRow)
      /\ n + 1 \in 1 .. Len(list)
  <2>1. /\ Typed /\ Wanted(e) \in Seq(Property) /\ position[e] \in Nat /\ Len(Wanted(e)) \in Nat
      BY <1>1, WorkingFacts
  <2>2. position[e] + 1 \in 1 .. Len(Wanted(e))
      BY <2>1, <1>1
  <2>3. QED
      BY <2>1, <2>2 DEF Wanted, Typed
<1>3. row \in ResultRow /\ row.by = e
    BY <1>2 DEF ResultRow
<1>4. added' = IF list[n + 1] \in Supported THEN [added EXCEPT ![e] = Append(added[e], row)] ELSE added
    BY DEF Compute, Wanted
<1>5. position'[e] = n + 1 /\ \A d \in Executions \ {e} : position'[d] = position[d] /\ added'[d] = added[d]
  <2> HIDE DEF row, list
  <2>1. QED
      BY <1>1, <1>2, <1>4 DEF Typed
<1>6. (\A k \in DOMAIN added[e] : added[e][k].by = e) /\ Whole(added[e], e, Prefix(list, n))
    BY <1>1 DEF RInv, Holds
<1>7. (\A k \in DOMAIN added'[e] : added'[e][k].by = e) /\ Whole(added'[e], e, Prefix(list, n + 1))
  <2>1. CASE list[n + 1] \notin Supported
    <3>1. added'[e] = added[e]
        BY <2>1, <1>4
    <3>2. QED
        BY <2>1, <3>1, <1>2, <1>6, WholePassed
  <2>2. CASE list[n + 1] \in Supported
    <3> DEFINE longer == Append(added[e], row)
    <3>1. Whole(longer, e, Prefix(list, n + 1))
        BY <2>2, <1>2, <1>6, WholeGrows
    <3>2. /\ DOMAIN longer = 1 .. Len(added[e]) + 1 /\ longer[Len(added[e]) + 1] = row
          /\ \A k \in 1 .. Len(added[e]) : longer[k] = added[e][k]
          /\ DOMAIN added[e] = 1 .. Len(added[e]) /\ Len(added[e]) \in Nat
        BY <1>2, <1>3, AppendProperties
    <3> HIDE DEF longer, row, list
    <3>3. \A k \in DOMAIN longer : longer[k].by = e
        BY <3>2, <1>3, <1>6
    <3>4. added'[e] = longer
        BY <2>2, <1>2, <1>4 DEF Typed, longer
    <3>5. QED
        BY <3>1, <3>3, <3>4
  <2>3. QED
      BY <2>1, <2>2
<1>8. Holds(e)'
    BY <1>1, <1>5, <1>7 DEF Holds
<1>9. JobsStay /\ \A d \in Executions : DatesStay(d) /\ RowsStay(d)
    BY <1>1, SameRows DEF JobsStay, DatesStay
<1>10. ASSUME NEW d \in Executions PROVE \A j \in Requests : Delivered(d, j)'
    BY <1>1, <1>9, DeliveredKept DEF RInv
<1>11. ASSUME NEW d \in Executions \ {e} PROVE Holds(d)'
    BY <1>1, <1>5, <1>9, HoldsKept DEF RInv
<1>12. ReportTyped' /\ \A r \in Readers : ReportTells(r)'
  <2>1. ReportTyped'
      BY <1>1 DEF RInv, ReportTyped
  <2>2. QED
      BY <1>1, <1>9, <2>1, ReportKept DEF RInv
<1>13. QED
    BY <1>8, <1>10, <1>11, <1>12 DEF RInv

\* The last commit delivers all rows of the execution at once, and dates them.
LEMMA RFinishHolds == ASSUME IInv, RInv, NEW e \in Executions, Finish(e) PROVE RInv'
<1>1. /\ pc[e] = "loaded" /\ position[e] = Len(Wanted(e)) /\ UNCHANGED <<doing, position, added, report>>
    BY DEF Finish, executionVars
<1>2. CASE Raise(e) /\ UNCHANGED <<jobs, results>>
    BY <1>1, <1>2, RMoveHolds DEF Raise
<1>3. ASSUME Finished(e), NEW place \in {"ended", "raised"}, Goto(e, place) PROVE RInv'
  <2> DEFINE j == doing[e]
             list == jobs[j].properties
  <2>1. /\ Typed /\ j \in Requests /\ jobs[j] \in Job /\ jobs[j] # None /\ list \in Seq(Property)
        /\ results[j] \in Seq(ResultRow) /\ added[e] \in Seq(ResultRow)
      BY <1>1, WorkingFacts, ExecutionJob DEF Typed
  <2>2. (\A k \in DOMAIN added[e] : added[e][k].by = e) /\ Whole(added[e], e, list)
    <3>1. (\A k \in DOMAIN added[e] : added[e][k].by = e) /\ Whole(added[e], e, Prefix(list, Len(list)))
        BY <1>1 DEF RInv, Holds, Wanted
    <3>2. QED
        BY <3>1, <2>1, WholeAll
  <2>3. RowsBy(results[j], e) = {}
      BY <1>1, <2>1 DEF RInv, Delivered
  <2>4. Whole(results[j] \o added[e], e, list)
    <3> HIDE DEF j, list
    <3>1. QED
        BY <2>1, <2>2, <2>3, WholeMoved
  <2>5. /\ results'[j] = results[j] \o added[e]
        /\ \A k \in Requests \ {j} : results'[k] = results[k]
    <3>1. results' = [results EXCEPT ![j] = results[j] \o added[e]]
        BY <1>3 DEF Finished
    <3> HIDE DEF j
    <3>2. QED
        BY <3>1, <2>1 DEF Typed
  <2>6. /\ jobs'[j] # None /\ jobs'[j].properties = list /\ jobs'[j].completed_by = e
        /\ \A k \in Requests \ {j} : jobs'[k] = jobs[k]
    <3> DEFINE status == IF seen[e] = "completed" THEN jobs[j].status ELSE "completed"
               written == [jobs[j] EXCEPT !.completed_by = e, !.status = status]
    <3>1. /\ written \in Job /\ written.properties = jobs[j].properties /\ written.completed_by = e
        BY <2>1 DEF Job, Status
    <3>2. written # None
        BY <3>1, JobFacts
    <3>3. jobs' = [jobs EXCEPT ![j] = written]
      <4>1. jobs' = [jobs EXCEPT ![j].completed_by = e,
                                 ![j].status = IF seen[e] = "completed" THEN @ ELSE "completed"]
          BY <1>3 DEF Finished
      <4>2. Typed /\ doing[e] \in Requests /\ jobs[doing[e]] \in Job
          BY <2>1
      <4>3. jobs' = [jobs EXCEPT ![j] = [jobs[j] EXCEPT !.completed_by = e, !.status = status]]
        <5> HIDE DEF written
        <5>1. QED
            BY <4>1, <4>2 DEF Typed, Job
      <4>4. QED
          BY <4>3
    <3> HIDE DEF j, written
    <3>4. jobs'[j] = written /\ \A k \in Requests \ {j} : jobs'[k] = jobs[k]
        BY <2>1, <3>3 DEF Typed
    <3>5. QED
        BY <3>1, <3>2, <3>4
  <2>7. pc'[e] = place /\ \A d \in Executions \ {e} : pc'[d] = pc[d]
      BY <1>3, <2>1 DEF Goto, Typed
  <2>8. JobsStay
      BY <2>1, <2>6 DEF JobsStay
  <2>9. ASSUME NEW d \in Executions \ {e} PROVE DatesStay(d) /\ RowsStay(d)
    <3>1. \A k \in DOMAIN added[e] : added[e][k].by # d
        BY <2>2
    <3> HIDE DEF j, list
    <3>2. /\ RowsBy(results'[j], d) = RowsBy(results[j], d)
          /\ \A k \in RowsBy(results[j], d) : results'[j][k] = results[j][k]
      <4>1. /\ RowsBy(results[j] \o added[e], d) = RowsBy(results[j], d)
            /\ \A k \in RowsBy(results[j], d) : (results[j] \o added[e])[k] = results[j][k]
          BY <2>1, <3>1, RowsAppended
      <4>2. QED
          BY <4>1, <2>5
    <3>3. RowsStay(d)
        BY <2>5, <3>2 DEF RowsStay
    <3>4. DatesStay(d)
        BY <2>6 DEF DatesStay
    <3>5. QED
        BY <3>3, <3>4
  <2>10. ASSUME NEW d \in Executions \ {e} PROVE Holds(d)' /\ \A k \in Requests : Delivered(d, k)'
      BY <1>1, <2>7, <2>8, <2>9, HoldsKept, DeliveredKept DEF RInv
  <2>11. Holds(e)'
    <3>1. pc'[e] # "idle"
        BY <2>7
    <3>2. QED
        BY <1>1, <2>7, <2>8, <3>1, HoldsKept DEF RInv
  <2>12. ASSUME NEW k \in Requests PROVE Delivered(e, k)'
    <3>1. CASE k = j
        BY <3>1, <1>1, <2>4, <2>5, <2>6, <2>7 DEF Delivered
    <3>2. CASE k # j
      <4>1. RowsBy(results[k], e) = {} /\ (jobs[k] # None => jobs[k].completed_by # e)
          BY <1>1 DEF RInv, Delivered
      <4>2. QED
          BY <4>1, <3>2, <1>1, <2>5, <2>6 DEF Delivered
    <3>3. QED
        BY <3>1, <3>2
  <2>13. ReportTyped' /\ \A r \in Readers : ReportTells(r)'
    <3>1. ReportTyped'
        BY <1>1 DEF RInv, ReportTyped
    <3>2. \A d \in Executions : pc[d] \in {"ended", "raised"} => pc'[d] = pc[d] /\ doing'[d] = doing[d] /\ RowsStay(d)
        BY <1>1, <2>7, <2>9
    <3>3. QED
        BY <1>1, <2>8, <3>1, <3>2, ReportKept DEF RInv
  <2>14. QED
      BY <2>10, <2>11, <2>12, <2>13 DEF RInv
<1>4. QED
    BY <1>2, <1>3 DEF Finish, Raise

\* A reader takes what the table shows: the rows of the execution that has
\* dated the job are there before the date is.
LEMMA RReadHolds == ASSUME IInv, RInv, NEW r \in Readers, ReadJob(r) \/ ReadResults(r) PROVE RInv'
<1>1. UNCHANGED <<jobs, results, pc, doing, position, added>> /\ Typed
    BY DEF ReadJob, ReadResults, executionVars, IInv
<1>2. JobsStay /\ \A e \in Executions : DatesStay(e) /\ RowsStay(e)
    BY <1>1, SameRows DEF JobsStay, DatesStay
<1>3. ASSUME NEW e \in Executions PROVE Holds(e)' /\ \A j \in Requests : Delivered(e, j)'
    BY <1>1, <1>2, HoldsKept, DeliveredKept DEF RInv
<1>4. ReportTyped /\ ReportTells(r)
    BY DEF RInv
<1>5. CASE ReadJob(r)
  <2>1. PICK j \in Requests :
            /\ jobs[j] # None /\ report[r].job = None
            /\ report' = [report EXCEPT ![r].job = j, ![r].dated = jobs[j].completed_by]
      BY <1>5 DEF ReadJob
  <2>2. jobs[j] \in Job /\ jobs[j].completed_by \in Executions \cup {None} /\ j # None
      BY <1>1, <2>1, NoneAssumption DEF Typed, Job
  <2> DEFINE Read == [job : Requests \cup {None}, dated : Executions \cup {None}, rows : Seq(ResultRow) \cup {None}]
             read == [job |-> j, dated |-> jobs[j].completed_by, rows |-> report[r].rows]
  <2>3. ReportTyped' /\ \A x \in Readers \ {r} : report'[x] = report[x]
    <3>1. report \in [Readers -> Read]
        BY <1>4 DEF ReportTyped
    <3>2. read \in Read
        BY <2>2, <3>1
    <3>3. report' = [report EXCEPT ![r] = report'[r]]
        BY <2>1, <3>1
    <3>4. report'[r] = read
        BY <2>1, <3>1
    <3> HIDE DEF Read, read
    <3>5. report' \in [Readers -> Read] /\ \A x \in Readers \ {r} : report'[x] = report[x]
        BY <3>1, <3>2, <3>3, <3>4
    <3>6. QED
        BY <3>5 DEF ReportTyped, Read
  <2>4. report'[r].job = j /\ report'[r].dated = jobs[j].completed_by /\ report'[r].rows = report[r].rows
      BY <1>4, <2>1, <2>2 DEF ReportTyped
  <2>5. ReportTells(r)'
    <3> DEFINE e == jobs[j].completed_by
    <3>1. report[r].rows = None /\ jobs'[j] # None /\ j # None
        BY <1>1, <1>4, <2>1, <2>2 DEF ReportTells
    <3>2. CASE e = None
        BY <3>1, <3>2, <2>4 DEF ReportTells
    <3>3. CASE e # None
      <4>1. e \in Executions
          BY <2>2, <3>3
      <4>2. /\ doing[e] = j /\ pc[e] \in {"ended", "raised"} /\ Whole(results[j], e, jobs[j].properties)
          BY <2>1, <4>1 DEF RInv, Delivered
      <4>3. QED
          BY <3>1, <1>1, <2>4, <4>2 DEF ReportTells
    <3>4. QED
        BY <3>2, <3>3
  <2>6. QED
      BY <1>1, <1>2, <1>3, <2>3, <2>5, <1>4, ReportKept DEF RInv
<1>6. CASE ReadResults(r)
  <2>1. report' = [report EXCEPT ![r].rows = results[report[r].job]] /\ report[r].job # None
      BY <1>6 DEF ReadResults
  <2>2. report[r].job \in Requests /\ results[report[r].job] \in Seq(ResultRow)
      BY <1>1, <1>4, <2>1 DEF ReportTyped, Typed
  <2> DEFINE Read == [job : Requests \cup {None}, dated : Executions \cup {None}, rows : Seq(ResultRow) \cup {None}]
             read == [job |-> report[r].job, dated |-> report[r].dated, rows |-> results[report[r].job]]
  <2>3. ReportTyped' /\ \A x \in Readers \ {r} : report'[x] = report[x]
    <3>1. report \in [Readers -> Read]
        BY <1>4 DEF ReportTyped
    <3>2. read \in Read
        BY <2>2, <3>1
    <3>3. report' = [report EXCEPT ![r] = report'[r]]
        BY <2>1, <3>1
    <3>4. report'[r] = read
        BY <2>1, <3>1
    <3> HIDE DEF Read, read
    <3>5. report' \in [Readers -> Read] /\ \A x \in Readers \ {r} : report'[x] = report[x]
        BY <3>1, <3>2, <3>3, <3>4
    <3>6. QED
        BY <3>5 DEF ReportTyped, Read
  <2>4. /\ report'[r].job = report[r].job /\ report'[r].dated = report[r].dated
        /\ report'[r].rows = results[report[r].job]
      BY <1>4, <2>1, <2>2 DEF ReportTyped
  <2>5. ReportTells(r)'
    <3>1. report'[r].job # None /\ jobs'[report'[r].job] # None
        BY <1>1, <1>4, <2>1, <2>4 DEF ReportTells
    <3>2. ASSUME report'[r].dated # None
          PROVE  /\ doing'[report'[r].dated] = report'[r].job /\ pc'[report'[r].dated] \in {"ended", "raised"}
                 /\ Whole(results'[report'[r].job], report'[r].dated, jobs'[report'[r].job].properties)
        BY <3>2, <1>1, <1>4, <2>4 DEF ReportTells
    <3>3. report'[r].rows = results'[report'[r].job]
        BY <1>1, <2>4
    <3>4. QED
        BY <3>1, <3>2, <3>3 DEF ReportTells
  <2>6. QED
      BY <1>1, <1>2, <1>3, <2>3, <2>5, <1>4, ReportKept DEF RInv
<1>7. QED
    BY <1>5, <1>6

LEMMA RStepHolds == IInv /\ RInv /\ [Next]_vars => RInv'
<1> SUFFICES ASSUME IInv, RInv, [Next]_vars PROVE RInv'
    OBVIOUS
<1>1. CASE UNCHANGED vars
  <2>1. JobsStay /\ \A e \in Executions : DatesStay(e)
      BY <1>1 DEF vars, JobsStay, DatesStay
  <2>2. QED
      BY <1>1, <2>1, QuietStep DEF vars, executionVars
<1>2. QED
    BY <1>1, RRequestHolds, RTakeHolds, RBeforeEndHolds, RComputeHolds, RFinishHolds, RReadHolds DEF Next

THEOREM RowsInvariance == Spec => []RInv
BY RInitHolds, RStepHolds, Invariance, PTL DEF Spec

\* The rows of a job are those of whole executions, however many run it and
\* wherever they fail.
THEOREM ResultsAreWhole == Spec => []ResultsWhole
<1>1. IInv /\ RInv => ResultsWhole
  <2> SUFFICES ASSUME IInv, RInv, NEW j \in Stored, NEW e \in Executions
               PROVE  /\ RowsBy(results[j], e) = {} \/ Whole(results[j], e, jobs[j].properties)
                      /\ Working(e) => RowsBy(results[j], e) = {}
                      /\ pc[e] = "ended" /\ doing[e] = j => Whole(results[j], e, jobs[j].properties)
                      /\ jobs[j].completed_by = e => Whole(results[j], e, jobs[j].properties)
      BY DEF ResultsWhole
  <2>1. Delivered(e, j) /\ jobs[j] # None
      BY DEF RInv, Stored
  <2>2. QED
      BY <2>1 DEF Delivered, Working
<1>2. QED
    BY <1>1, Invariance, RowsInvariance, PTL

\* A report with a date lists every row of the execution that set it.
THEOREM ReportsCover == Spec => []ReportCovers
<1>1. RInv => ReportCovers
    BY DEF RInv, ReportTells, ReportCovers
<1>2. QED
    BY <1>1, RowsInvariance, PTL

=============================================================================
