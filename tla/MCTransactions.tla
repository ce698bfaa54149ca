--------------------------- MODULE MCTransactions ---------------------------
(* Instances of Transactions for TLC. *)
EXTENDS Transactions, TLC

CONSTANTS r1, r2, u1, u2, o1, o2, a1, a2, k1, t1, t2

R(kind, user, org, tx, plain, traced, made) ==
    [kind |-> kind, user |-> user, org |-> org, key |-> k1, tx |-> tx, plain |-> plain,
     traced |-> traced, made |-> made, surviving |-> made, prepared |-> FALSE, shares |-> FALSE]

Prepared(q) == [q EXCEPT !.prepared = TRUE]
Shared(q) == [q EXCEPT !.shares = TRUE]

\* A behaviour with no fault, for the submissions of a sequence.
Plan(qs) ==
    [reqs |-> [r \in Requests |-> IF r = r2 /\ Len(qs) = 2 THEN qs[2] ELSE qs[1]],
     used |-> IF Len(qs) = 2 THEN {r1, r2} ELSE {r1}, node |-> {"accepted", "rejected"}, refusals |-> FALSE,
     dbFails |-> FALSE, deaf |-> FALSE, untraced |-> FALSE, deployer |-> TRUE,
     troubles |-> 0, stops |-> 0]

SendCreate == R("send", u1, o1, t1, a1, {}, {a1})
RawCreate == R("raw", u1, o1, t1, a1, {a1}, {a1})
Factory == R("raw", u1, o1, t1, None, {a1, a2}, {a1, a2})
Diverging == R("raw", u1, o1, t1, None, {a1}, {a2})
Nested == R("raw", u1, o1, t1, a1, {a1, a2}, {a1, a2})
Call(kind, u, t) == Shared(R(kind, u, o1, t, None, {}, {}))

Instances ==
    {\* faults of the node and the database around one creation, of either path
     [Plan(<<SendCreate>>) EXCEPT !.node = NodeAnswers, !.refusals = TRUE, !.dbFails = TRUE, !.stops = 1, !.deaf = TRUE],
     [Plan(<<RawCreate>>) EXCEPT !.node = NodeAnswers, !.refusals = TRUE, !.dbFails = TRUE, !.stops = 1],
     [Plan(<<Prepared(RawCreate)>>) EXCEPT !.node = NodeAnswers, !.refusals = TRUE, !.stops = 1],
     [Plan(<<Factory>>) EXCEPT !.dbFails = TRUE, !.deaf = TRUE, !.untraced = TRUE, !.deployer = FALSE],
     [Plan(<<Diverging>>) EXCEPT !.untraced = TRUE],
     Plan(<<Nested>>), Plan(<<Prepared(Nested)>>),
     \* two organizations claim an address, with transactions of their own
     Plan(<<Factory, R("raw", u2, o2, t2, None, {a1}, {a1})>>),
     Plan(<<RawCreate, R("raw", u2, o2, t2, None, {a1}, {})>>),
     Plan(<<Diverging, R("raw", u2, o2, t2, None, {a2}, {})>>),
     \* a transaction is submitted again while the first submission is under way
     Plan(<<RawCreate, RawCreate>>),
     \* recipients: one user at the limit, rows ahead of rows, and failing promotions
     [Plan(<<Call("raw", u1, t1), Call("raw", u1, t1)>>)
        EXCEPT !.node = {"accepted", "limited", "rejected"}, !.dbFails = TRUE],
     [Plan(<<Call("raw", u1, t1), Call("send", u2, t2)>>)
        EXCEPT !.troubles = 3, !.dbFails = TRUE, !.stops = 1, !.refusals = TRUE, !.node = {"accepted", "rejected"}]}
=============================================================================
