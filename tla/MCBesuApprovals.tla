-------------------------- MODULE MCBesuApprovals --------------------------
(* Small instances of BesuApprovals. *)
EXTENDS BesuApprovals, TLC

CONSTANTS t1, t2, t3

Issue(issued, ids) == [issued |-> issued, expires |-> issued + MaxTtl, ids |-> ids]

\* Three approvals compete for two places, next to a changing pool.
Pressure ==
    [events |-> {"drop", "reconcile"}, txs |-> {t1, t2}, adds |-> 2, blocks |-> 0, time |-> 3,
     batches |-> {Issue(0, t1 :> 1), Issue(0, t1 :> 2 @@ t2 :> 1), Issue(1, t3 :> 1 @@ t2 :> 2)}]

\* Reorganisations and finality.
Forks ==
    [events |-> {"blocks"}, txs |-> {t1}, adds |-> 1, blocks |-> 3, time |-> 1,
     batches |-> {Issue(0, t1 :> 1)}]

\* A stale snapshot around an inclusion.
Snapshots ==
    [events |-> {"blocks", "reconcile"}, txs |-> {t1}, adds |-> 1, blocks |-> 2, time |-> 1,
     batches |-> {Issue(0, t1 :> 1)}]

\* The gate, with an approval that is replaced.
Gate ==
    [events |-> {"gate"}, txs |-> {t1, t2}, adds |-> 2, blocks |-> 0, time |-> 3,
     batches |-> {Issue(0, t1 :> 1), Issue(1, t1 :> 2)}]

Instances == {Pressure, Forks, Snapshots, Gate}
=============================================================================
