-------------------------- MODULE ApprovalContract --------------------------
(***************************************************************************)
(* What a block producer promises about the approvals it holds, whichever  *)
(* client it runs: per transaction the greatest approval is kept, a valid  *)
(* approval of a pooled transaction stays, and the capacity is respected.  *)
(***************************************************************************)
EXTENDS Integers, FiniteSets

CONSTANTS Txs, Capacity

VARIABLES
    now,          \* the producer's clock
    held,         \* transaction -> [issued, id, expires]
    live          \* the transactions known to be in the pool

Valid(a) == now < a.expires

Outranks(a, b) == a.issued > b.issued \/ (a.issued = b.issued /\ a.id > b.id)

Kept(t) ==
    /\ t \in DOMAIN held <=> t \in DOMAIN held'
    /\ t \in DOMAIN held => held'[t] = held[t]

\* An approval arrives, or a greater one replaces it; an expired one is absent.
Improved(t) ==
    /\ t \in DOMAIN held'
    /\ t \in DOMAIN held => ~Valid(held[t]) \/ Outranks(held'[t], held[t])

\* Only what expired or is not waiting in the pool is given up.
Released(t) ==
    /\ t \in DOMAIN held \ DOMAIN held'
    /\ ~Valid(held[t]) \/ t \notin live

Step ==
    /\ now' >= now
    /\ \A t \in Txs : Kept(t) \/ Improved(t) \/ Released(t)
    /\ Cardinality(DOMAIN held') <= Capacity

Spec == DOMAIN held = {} /\ [][Step]_<<now, held, live>>
=============================================================================
