------------------------- MODULE MCApprovalDelivery -------------------------
(* Small instances of ApprovalDelivery. *)
EXTENDS ApprovalDelivery, TLC

CONSTANTS s1, s2

\* A producer restart; faults with all slots in use; a drain that meets a fault or expiring
\* batches, also while they are retried; a connection that breaks.
Workload == {{"restart"}, {"fault", "wide"}, {"close", "fault"}, {"close", "expire"}, {"flap"}}
=============================================================================
