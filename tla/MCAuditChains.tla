---------------------------- MODULE MCAuditChains ----------------------------
(***************************************************************************)
(* Small instances of the two hash chains, of access_logs (AccessLogChain) *)
(* and of rbac_audit_log (RbacAuditChain).  The chains share no row and no *)
(* lock, so a behaviour is one of either; the other one rests.             *)
(***************************************************************************)
EXTENDS AccessLogChain, TLC

CONSTANTS c1, c2, i1, i2, MaxRbacId

VARIABLES rbacOps, rbacRows, rbacNextId, rbacPending, rbacHead, rbacVer

rbac == <<rbacOps, rbacRows, rbacNextId, rbacPending, rbacHead, rbacVer>>

\* one chain under retention; two chains with a break-glass; fallback rows
Workload ==
    {{"restart", "fail", "ttl", "fifo"},
     {"restart", "fail", "partition", "reanchor"},
     {"restart", "basic", "reanchor"}, {}}

\* one instance alone; one next to retention; two sharing the table
RbacWorkload ==
    {{"restart", "fail"},
     {"restart", "fail", "prune", "cleanup"},
     {"restart", "fail", "prune", "cleanup", "seedError", "share"}}

R == INSTANCE RbacAuditChain WITH
        Instances <- {i1, i2}, Primary <- i1, Workloads <- RbacWorkload \cup {{}}, MaxId <- MaxRbacId,
        ops <- rbacOps, rows <- rbacRows, nextId <- rbacNextId, pending <- rbacPending,
        head <- rbacHead, ver <- rbacVer

\* Exactly one of the chains has a workload.
InitChains == Init /\ R!Init /\ (ops = {}) # (rbacOps = {})

NextChains ==
    \/ ops # {} /\ Next /\ UNCHANGED rbac
    \/ rbacOps # {} /\ R!Next /\ UNCHANGED vars

SpecChains == InitChains /\ [][NextChains]_<<vars, rbac>>

(* The administrative log stays verifiable through CreateAuditLog's failures *)
(* and restarts, a restart of the single writer continues it, also next to   *)
(* retention, and a break is never hidden again but by a cleanup.            *)
RbacLogContinues == R!LogContinues
=============================================================================
