---------------------------- MODULE HistoryPages ----------------------------
(***************************************************************************)
(* The history of verification tasks, read page by page through            *)
(* GET /verifications while tasks are created and settle.  The writes are  *)
(* those of VerificationTask, by their effect on what is listed.           *)
(***************************************************************************)
EXTENDS Integers, Sequences, Functions

CONSTANTS
    Senders,   \* values of triggered_by
    Limit,     \* the client's limit
    MaxRows,   \* bound: rows
    MaxWalks   \* bound: walks through the pages

ASSUME LimitAssumption == Limit \in 1 .. 200
ASSUME BoundAssumption == MaxRows \in Nat /\ MaxWalks \in Nat

VARIABLES
    history,  \* rows of verification_tasks, newest first
    walk,     \* the client at the pages
    walks     \* walks begun

historyVars == <<history, walk, walks>>

Ids(rows) == {rows[k].id : k \in DOMAIN rows}

-----------------------------------------------------------------------------
(* The writes.                                                             *)

\* The inserts block the event loop: the row is newer than all others.
Inserted(rows, sender) ==
    <<[id |-> Len(rows) + 1, sender |-> sender, status |-> "pending"]>> \o rows

Submit ==
    /\ Len(history) < MaxRows
    /\ \E sender \in Senders : history' = Inserted(history, sender)
    /\ UNCHANGED <<walk, walks>>

\* Slip: the order follows the updates.
UpdateReorders(k, s) ==
    history' = <<[history[k] EXCEPT !.status = s]>> \o SelectSeq(history, LAMBDA r : r # history[k])

\* update_verification: ORDER BY created_at does not see updated_at.
Update(k, s) == history' = [history EXCEPT ![k].status = s]
Settle ==
    /\ \E k \in DOMAIN history, s \in {"running", "completed", "failed"} :
           /\ \/ history[k].status \in {"pending", "running"}
              \/ history[k].status = "completed" /\ s = "failed"
           /\ Update(k, s)
    /\ UNCHANGED <<walk, walks>>

-----------------------------------------------------------------------------
(* The walk through the history.                                           *)

Still == [pc |-> "idle", next |-> 0, seen |-> {}, start |-> {}]
Begin(start) == [Still EXCEPT !.pc = "walk", !.start = start]

WalkStart ==
    /\ walk.pc = "idle" /\ walks < MaxWalks
    /\ walk' = Begin(Ids(history)) /\ walks' = walks + 1
    /\ UNCHANGED history

list_verifications(limit, offset) ==
    SubSeq(history, offset + 1,
           IF offset + limit <= Len(history) THEN offset + limit ELSE Len(history))

\* The client goes on until a page is not full.
WalkPage ==
    /\ walk.pc = "walk"
    /\ LET items == list_verifications(Limit, walk.next)
       IN  walk' = [walk EXCEPT !.seen = @ \cup Ids(items), !.next = @ + Limit,
                                !.pc = IF Len(items) < Limit THEN "done" ELSE "walk"]
    /\ UNCHANGED <<history, walks>>

WalkAgain == walk.pc = "done" /\ walk' = Still /\ UNCHANGED <<history, walks>>

-----------------------------------------------------------------------------
HistoryInit == history = <<>> /\ walk = Still /\ walks = 0

HistoryNext == Submit \/ Settle \/ WalkStart \/ WalkPage \/ WalkAgain
HistorySpec == HistoryInit /\ [][HistoryNext]_historyVars

-----------------------------------------------------------------------------
(* Properties                                                              *)

\* A walk through the history, whatever is submitted and settles meanwhile, ends
\* having met every task there was when it began.
HistoryWhole == walk.pc = "done" => walk.start \subseteq walk.seen

=============================================================================
