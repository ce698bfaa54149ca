-------------------------- MODULE MCAuditPipeline --------------------------
(* Small instances of AuditPipeline. *)
EXTENDS AuditPipeline, TLC

CONSTANTS r1, r2, r3, r4

\* an orderly process, overlapping appends with restarts, and both database faults
Workload == {{"lostAck"}, {"overlap", "crash"}, {"crash", "lostAck", "seedError"}}

\* two appends at a time in a process that never restarts
Overlapping == {{"overlap"}}

\* the records are interchangeable when none of them is corrupt
Symmetric == Permutations(Records)
=============================================================================
