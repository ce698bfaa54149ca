-------------------------- MODULE VisibilityOutbox --------------------------
(***************************************************************************)
(* The outbox of visibleTo lists: a submission enqueues the recipients of  *)
(* its transaction once the node has accepted it, and reconcilers promote  *)
(* the rows into tx_visible_to (internal/server/visibility_reconciler.go,  *)
(* internal/db/pending_tx_visibility.go).  A row bears the name of the     *)
(* submission that enqueued it.  A kick only makes a tick come earlier.    *)
(***************************************************************************)
EXTENDS Deployments, Sequences, SequencesExt

CONSTANTS
    Workers,       \* reconcilers, one per instance of the server
    BatchSize,     \* rows of one tick: 100 in the code
    MaxAttempts    \* promotions after which a row is parked: 10 in the code

VARIABLES
    outbox,      \* pending_tx_visibility, oldest first: [req, attempts]
    visible,     \* tx_visible_to: the submission whose list each transaction has
    workers,     \* rows each reconciler has still to promote in its tick
    troubles     \* promotions that have failed

outboxVars == <<outbox, visible, workers, troubles>>

InitOutbox ==
    /\ outbox = <<>> /\ visible = [t \in Txs |-> None] /\ workers = [w \in Workers |-> <<>>]
    /\ troubles = 0

EnqueuePendingTxVisibility(r) == outbox' = Append(outbox, [req |-> r, attempts |-> 0])

\* mutant: a row that failed once is not due again
DueOnce == SelectSeq(outbox, LAMBDA row : row.attempts = 0)

Due == SelectSeq(outbox, LAMBDA row : row.attempts < MaxAttempts)

ListDuePendingTxVisibility ==
    [i \in 1..(IF Len(Due) < BatchSize THEN Len(Due) ELSE BatchSize) |-> Due[i].req]

Tick(w) ==
    /\ workers[w] = <<>> /\ Due # <<>>
    /\ workers' = [workers EXCEPT ![w] = ListDuePendingTxVisibility]
    /\ UNCHANGED <<load, outbox, visible, troubles, deployVars>>

\* One transaction: the list is inserted unless the transaction has one, the row deleted
\* unless another reconciler has deleted it.
PromotePendingTxVisibility(w) ==
    /\ workers[w] # <<>>
    /\ LET r == Head(workers[w]) IN
       /\ visible' = [visible EXCEPT ![Tx(r)] = IF @ = None THEN r ELSE @]
       /\ outbox' = SelectSeq(outbox, LAMBDA row : row.req # r)
    /\ workers' = [workers EXCEPT ![w] = Tail(@)]
    /\ UNCHANGED <<load, troubles, deployVars>>

\* The promotion failed; the attempt is counted, unless that fails as well.
MarkPendingTxVisibilityFailed(w) ==
    /\ workers[w] # <<>> /\ troubles < load.troubles
    /\ \E marked \in BOOLEAN :
          outbox' = [i \in DOMAIN outbox |->
                       IF marked /\ outbox[i].req = Head(workers[w])
                       THEN [outbox[i] EXCEPT !.attempts = @ + 1] ELSE outbox[i]]
    /\ workers' = [workers EXCEPT ![w] = Tail(@)] /\ troubles' = troubles + 1
    /\ UNCHANGED <<load, visible, deployVars>>

Reconcile(w) ==
    Tick(w) \/ PromotePendingTxVisibility(w) \/ MarkPendingTxVisibilityFailed(w)
=============================================================================
