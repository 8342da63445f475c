-------------------------- MODULE MCReferenceReview --------------------------
(* Instances of ReferenceReview for TLC.                                   *)
EXTENDS ReferenceReview

CONSTANTS r1, r2, r3, q1, q2

Row1 == [status |-> "active", needs_review |-> TRUE, value |-> 1]
Row2 == [status |-> "rejected", needs_review |-> FALSE, value |-> 1]

TwoRows == (r1 :> Row1) @@ (r2 :> Row2)
ThreeRefs == {r1, r2, r3}
ThreeRows == (r3 :> NoRow) @@ TwoRows

TwoValues == {1, 2}
TwoRequests == {q1, q2}

Single(kind, r, v) == [kind |-> kind, ids |-> <<r>>, batch |-> FALSE, value |-> v]
Batch(kind, ids) == [kind |-> kind, ids |-> ids, batch |-> TRUE, value |-> 1]

\* Every operation, on one row, and both batches in both orders.
AllOps ==
    {Single(k, r1, 2) : k \in {"approve", "reject", "delete", "patch", "flag", "put", "remove"}}
        \cup {Batch(k, ids) : k \in {"approve", "reject", "other"}, ids \in {<<r1, r2>>, <<r2, r1, r3>>}}
        \cup {Single("approve", r2, 2), Single("remove", r2, 2), Single("put", r2, 1), Single("create", r3, 2)}

=============================================================================
