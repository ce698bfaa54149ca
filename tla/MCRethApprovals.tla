-------------------------- MODULE MCRethApprovals --------------------------
(* Small instances of RethApprovals. *)
EXTENDS RethApprovals, TLC

CONSTANTS t1, t2, t3

Issue(issued, ids) == [issued |-> issued, expires |-> issued + 2, ids |-> ids]

\* Three approvals compete for two places, next to a changing pool.
Pressure ==
    [events |-> {"drop"}, txs |-> {t1, t2}, adds |-> 2, blocks |-> 0, time |-> 3,
     batches |-> {Issue(0, t1 :> 1), Issue(0, t1 :> 2 @@ t2 :> 1), Issue(1, t3 :> 1 @@ t2 :> 2)}]

\* Reorganisations and finality.
Forks ==
    [events |-> {"forks"}, txs |-> {t1}, adds |-> 1, blocks |-> 3, time |-> 2,
     batches |-> {Issue(0, t1 :> 1)}]

\* The gate, with an approval that is replaced and a lost notification.
Gate ==
    [events |-> {"gate", "lose"}, txs |-> {t1}, adds |-> 1, blocks |-> 1, time |-> 3,
     batches |-> {Issue(0, t1 :> 1), Issue(1, t1 :> 2)}]

Instances == {Pressure, Forks, Gate}
=============================================================================
