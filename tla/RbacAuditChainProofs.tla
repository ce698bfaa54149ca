------------------------ MODULE RbacAuditChainProofs ------------------------
(***************************************************************************)
(* The administrative audit log for any number of instances, ids and       *)
(* schedules: with one writer it stays verifiable until retention touches  *)
(* it, a restart continues the same chain, and no interleaving of several  *)
(* writers hides a break that a walk has seen.                             *)
(*                                                                         *)
(* The first invariant, Fresh, holds of every workload: an id is handed    *)
(* out once, and until its row is in the table no row and no head names    *)
(* it.  Ordered and Unbroken add what a single writer keeps.               *)
(***************************************************************************)
EXTENDS RbacAuditChain, TLAPS

Row == [id : Nat, prev : Nat, hashed : BOOLEAN]

\* Below any id at which S has a row, there is a highest one.
Topped(S) ==
    \A n \in Nat : (\E r \in S : r.id < n) => \E m \in S : m.id < n /\ \A s \in S : s.id < n => s.id <= m.id

Typed ==
    /\ rows \subseteq Row /\ nextId \in Nat /\ 0 < nextId
    /\ pending \in [Instances -> Nat] /\ head \in [Instances -> Nat]

\* An id is used once, and nothing refers to it before its row is written.
Fresh ==
    /\ Typed
    /\ \A r \in rows : 0 < r.id /\ r.id < nextId /\ r.prev < nextId
    /\ \A r, s \in rows : r.id = s.id => r = s
    /\ Topped(rows) /\ Topped(Hashed)
    /\ \A i \in Instances : pending[i] < nextId /\ head[i] < nextId
    /\ \A i \in Instances : pending[i] # 0 =>
          /\ \A r \in rows : r.id # pending[i] /\ r.prev # pending[i]
          /\ \A j \in Instances : head[j] # pending[i] /\ (j # i => pending[j] # pending[i])

Alone == ops \cap {"seedError", "share"} = {}
Untouched == ops \cap {"prune", "cleanup", "seedError", "share"} = {}

\* One writer: its head is the newest hashed row as long as there is one.
Ordered ==
    /\ \A i \in Instances : i # Primary => pending[i] = 0
    /\ \A r \in Hashed : r.id <= head[Primary]
    /\ Hashed # {} => \E s \in Hashed : s.id = head[Primary]
    /\ pending[Primary] # 0 => head[Primary] < pending[Primary]

\* And without retention each row continues the row before it.
Unbroken ==
    /\ \A r \in rows : r.hashed
    /\ rows = {} => head[Primary] = 0
    /\ \A r \in rows : /\ r.prev < r.id
                       /\ r.prev = 0 \/ \E s \in rows : s.id = r.prev
                       /\ \A s \in rows : s.id < r.id => s.id <= r.prev

Kept == Fresh /\ (Alone => Ordered) /\ (Untouched => Unbroken)

\* Last returns the row with the highest id when there is one.
LEMMA LastIsHighest ==
    ASSUME NEW S, NEW m \in S, \A s \in S : s.id \in Nat, \A s \in S : s.id <= m.id
    PROVE  Last(S) \in S /\ Last(S).id = m.id
  <1>1. \E r \in S : \A s \in S : s.id <= r.id
    OBVIOUS
  <1>2. Last(S) \in S /\ \A s \in S : s.id <= Last(S).id
    BY <1>1 DEF Last
  <1> QED
    BY <1>2

\* A set with a highest row below every id still has one after a row is added.
LEMMA ToppedAdd ==
    ASSUME NEW S, NEW w, \A s \in S : s.id \in Nat, w.id \in Nat, Topped(S)
    PROVE  Topped(S \cup {w})
  <1> SUFFICES ASSUME NEW n \in Nat, NEW r \in S \cup {w}, r.id < n
               PROVE  \E m \in S \cup {w} : m.id < n /\ \A s \in S \cup {w} : s.id < n => s.id <= m.id
    BY DEF Topped
  <1>1. CASE \E s \in S : s.id < n
    <2>1. PICK m \in S : m.id < n /\ \A s \in S : s.id < n => s.id <= m.id
      BY <1>1 DEF Topped
    <2>2. CASE w.id < n /\ m.id < w.id
      BY <2>1, <2>2
    <2>3. CASE ~(w.id < n /\ m.id < w.id)
      BY <2>1, <2>3
    <2> QED
      BY <2>2, <2>3
  <1>2. CASE ~\E s \in S : s.id < n
    BY <1>2
  <1> QED
    BY <1>1, <1>2

\* So does what is left above a cutoff.
LEMMA ToppedCut ==
    ASSUME NEW S, \A s \in S : s.id \in Nat, Topped(S), NEW cutoff \in Nat
    PROVE  Topped({r \in S : r.id >= cutoff})
  <1> SUFFICES ASSUME NEW n \in Nat, NEW r \in S, r.id >= cutoff, r.id < n
               PROVE  \E m \in S : /\ m.id >= cutoff /\ m.id < n
                                   /\ \A s \in S : s.id >= cutoff /\ s.id < n => s.id <= m.id
    BY DEF Topped
  <1>1. PICK m \in S : m.id < n /\ \A s \in S : s.id < n => s.id <= m.id
    BY DEF Topped
  <1> QED
    BY <1>1

\* The hash a restart reads back is 0 or the id of the newest hashed row.
LEMMA LatestFacts ==
    ASSUME Fresh
    PROVE  /\ LatestHash \in Nat /\ LatestHash < nextId
           /\ \A r \in Hashed : r.id <= LatestHash
           /\ IF Hashed = {} THEN LatestHash = 0 ELSE \E s \in Hashed : s.id = LatestHash
           /\ \A i \in Instances : pending[i] # 0 => LatestHash # pending[i]
  <1>1. \A r \in Hashed : r \in rows /\ r.id \in Nat /\ r.id < nextId
    BY DEF Fresh, Typed, Row, Hashed
  <1>2. nextId \in Nat /\ 0 < nextId /\ \A i \in Instances : pending[i] \in Nat /\ pending[i] < nextId
    BY DEF Fresh, Typed
  <1>3. CASE Hashed = {}
    <2>1. LatestHash = 0
      BY <1>3 DEF LatestHash
    <2> QED
      BY <1>2, <1>3, <2>1
  <1>4. CASE Hashed # {}
    <2>1. PICK m \in Hashed : m.id < nextId /\ \A s \in Hashed : s.id < nextId => s.id <= m.id
      BY <1>1, <1>2, <1>4 DEF Fresh, Topped
    <2>2. Last(Hashed) \in Hashed /\ Last(Hashed).id = m.id
      BY <1>1, <2>1, LastIsHighest
    <2>3. LatestHash = m.id
      BY <1>4, <2>2 DEF LatestHash
    <2> QED
      BY <1>1, <1>4, <2>1, <2>3 DEF Fresh
  <1> QED
    BY <1>3, <1>4

----------------------------------------------------------------------------
\* The log starts empty, with nothing reserved.
LEMMA KeptInit ==
    ASSUME Primary \in Instances, Init
    PROVE  Kept
  <1>1. Fresh
    BY DEF Init, Fresh, Typed, Topped, Hashed
  <1>2. Ordered /\ Unbroken
    BY DEF Init, Ordered, Unbroken, Hashed
  <1> QED
    BY <1>1, <1>2 DEF Kept

\* nextval hands out an id nothing refers to.
LEMMA ReserveKept ==
    ASSUME Primary \in Instances, Kept, NEW i \in Instances, Reserve(i)
    PROVE  Kept'
  <1> USE DEF Reserve
  <1>1. Fresh /\ Typed
    BY DEF Kept, Fresh
  <1>2. pending' \in [Instances -> Nat] /\ nextId' \in Nat /\ nextId < nextId' /\ 0 < nextId'
    BY <1>1 DEF Typed
  <1>3. \A j \in Instances : pending'[j] = IF j = i THEN nextId ELSE pending[j]
    BY <1>1 DEF Typed
  <1>4. Typed'
    BY <1>1, <1>2 DEF Typed
  <1>5. Hashed' = Hashed
    BY DEF Hashed
  <1>6. \A r \in rows : r.id \in Nat /\ r.prev \in Nat
    BY <1>1 DEF Typed, Row
  <1>7. \A j \in Instances : pending[j] \in Nat /\ head[j] \in Nat
    BY <1>1 DEF Typed
  <1>8. (\A r \in rows : 0 < r.id /\ r.id < nextId /\ r.prev < nextId)'
    BY <1>1, <1>2, <1>6 DEF Fresh, Typed
  <1>9. (\A j \in Instances : pending[j] < nextId /\ head[j] < nextId)'
    BY <1>1, <1>2, <1>3, <1>7 DEF Fresh, Typed
  <1>10. (\A k \in Instances : pending[k] # 0 =>
              /\ \A r \in rows : r.id # pending[k] /\ r.prev # pending[k]
              /\ \A j \in Instances : head[j] # pending[k] /\ (j # k => pending[j] # pending[k]))'
    <2>1. \A r \in rows : r.id # nextId /\ r.prev # nextId
      BY <1>1, <1>6 DEF Fresh, Typed
    <2>2. \A j \in Instances : head[j] # nextId /\ pending[j] # nextId
      BY <1>1, <1>7 DEF Fresh, Typed
    <2> QED
      BY <1>1, <1>3, <2>1, <2>2 DEF Fresh
  <1>11. Fresh'
    BY <1>1, <1>4, <1>5, <1>8, <1>9, <1>10 DEF Fresh, Topped
  <1>12. (Alone => Ordered)'
    <2> SUFFICES ASSUME Alone' PROVE Ordered'
      OBVIOUS
    <2>1. i = Primary /\ Ordered
      BY DEF Alone, Kept
    <2>2. head[Primary] < nextId
      BY <1>1 DEF Fresh
    <2> QED
      BY <1>3, <1>5, <2>1, <2>2 DEF Ordered
  <1>13. (Untouched => Unbroken)'
    BY DEF Untouched, Unbroken, Kept
  <1> QED
    BY <1>11, <1>12, <1>13 DEF Kept

\* A reservation is dropped: the INSERT failed.
LEMMA InsertFailsKept ==
    ASSUME Primary \in Instances, Kept, NEW i \in Instances, InsertFails(i)
    PROVE  Kept'
  <1> USE DEF InsertFails
  <1>1. Fresh /\ Typed
    BY DEF Kept, Fresh
  <1>2. pending' \in [Instances -> Nat]
    BY <1>1 DEF Typed
  <1>3. \A j \in Instances : pending'[j] = IF j = i THEN 0 ELSE pending[j]
    BY <1>1 DEF Typed
  <1>4. Hashed' = Hashed
    BY DEF Hashed
  <1>5. Fresh'
    BY <1>1, <1>2, <1>3, <1>4 DEF Fresh, Topped, Typed
  <1>6. (Alone => Ordered)'
    BY <1>3, <1>4 DEF Alone, Ordered, Kept
  <1>7. (Untouched => Unbroken)'
    BY DEF Untouched, Unbroken, Kept
  <1> QED
    BY <1>5, <1>6, <1>7 DEF Kept

\* The row is written and the writer's head names it.
LEMMA InsertKept ==
    ASSUME Primary \in Instances, Kept, NEW i \in Instances, Insert(i)
    PROVE  Kept'
  <1> DEFINE w == [id |-> pending[i], prev |-> head[i], hashed |-> TRUE]
  <1>1. Fresh /\ Typed
    BY DEF Kept, Fresh
  <1>2. \A j \in Instances : pending[j] \in Nat /\ head[j] \in Nat /\ pending[j] < nextId /\ head[j] < nextId
    BY <1>1 DEF Typed, Fresh
  <1>3. \A j \in Instances : pending'[j] = IF j = i THEN 0 ELSE pending[j]
    BY <1>1 DEF Typed, Insert
  <1>4. \A j \in Instances : head'[j] = IF j = i THEN pending[i] ELSE head[j]
    BY <1>1 DEF Typed, Insert
  <1>5. w \in Row /\ w.id = pending[i] /\ w.prev = head[i] /\ w.hashed
    BY <1>2 DEF Row
  <1>6. rows' = rows \cup {w} /\ ops' = ops /\ nextId' = nextId /\ pending[i] # 0
    BY DEF Insert
  <1>7. Hashed' = Hashed \cup {w}
    BY <1>5, <1>6 DEF Hashed
  <1>8. \A r \in rows : r.id \in Nat /\ r.prev \in Nat /\ 0 < r.id /\ r.id < nextId /\ r.prev < nextId
    BY <1>1 DEF Typed, Row, Fresh
  <1>9. Hashed \subseteq rows
    BY DEF Hashed
  <1> HIDE DEF w
  <1>10. \A r \in rows : r.id # w.id /\ r.prev # w.id
    BY <1>1, <1>5, <1>6 DEF Fresh
  <1>11. Fresh'
    <2>1. Typed'
      <3>1. pending' \in [Instances -> Nat] /\ head' \in [Instances -> Nat]
        BY <1>1, <1>2 DEF Typed, Insert
      <3>2. rows' \subseteq Row
        BY <1>1, <1>5, <1>6 DEF Typed
      <3> QED
        BY <1>1, <1>6, <3>1, <3>2 DEF Typed
    <2>2. (\A r \in rows : 0 < r.id /\ r.id < nextId /\ r.prev < nextId)'
      BY <1>2, <1>5, <1>6, <1>8
    <2>3. (\A r, s \in rows : r.id = s.id => r = s)'
      BY <1>1, <1>6, <1>10 DEF Fresh
    <2>4. Topped(rows')
      BY <1>1, <1>2, <1>5, <1>6, <1>8, ToppedAdd DEF Fresh
    <2>5. Topped(Hashed')
      BY <1>1, <1>2, <1>5, <1>7, <1>8, <1>9, ToppedAdd DEF Fresh
    <2>6. (\A j \in Instances : pending[j] < nextId /\ head[j] < nextId)'
      BY <1>2, <1>3, <1>4, <1>6, <2>1 DEF Typed
    <2>7. (\A k \in Instances : pending[k] # 0 =>
                /\ \A r \in rows : r.id # pending[k] /\ r.prev # pending[k]
                /\ \A j \in Instances : head[j] # pending[k] /\ (j # k => pending[j] # pending[k]))'
      <3> SUFFICES ASSUME NEW k \in Instances, k # i, pending[k] # 0
                   PROVE  /\ \A r \in rows' : r.id # pending[k] /\ r.prev # pending[k]
                          /\ \A j \in Instances : head'[j] # pending[k] /\ (j # k => pending'[j] # pending[k])
        BY <1>3
      <3>1. w.id # pending[k] /\ w.prev # pending[k]
        BY <1>1, <1>5 DEF Fresh
      <3> QED
        BY <1>1, <1>3, <1>4, <1>5, <1>6, <3>1 DEF Fresh
    <2> QED
      BY <2>1, <2>2, <2>3, <2>4, <2>5, <2>6, <2>7 DEF Fresh, Topped
  <1>12. ASSUME Alone
         PROVE  i = Primary /\ Ordered /\ head[Primary] < w.id /\ Ordered'
    <2>1. Ordered
      BY <1>12 DEF Kept
    <2>2. i = Primary
      BY <1>6, <2>1 DEF Ordered
    <2>3. head[Primary] < w.id
      BY <1>5, <1>6, <2>1, <2>2 DEF Ordered
    <2>4. \A r \in Hashed' : r.id <= head'[Primary]
      BY <1>2, <1>4, <1>5, <1>7, <1>8, <1>9, <2>1, <2>2, <2>3 DEF Ordered
    <2> QED
      BY <1>3, <1>4, <1>5, <1>7, <2>1, <2>2, <2>3, <2>4 DEF Ordered
  <1>13. (Alone => Ordered)'
    BY <1>6, <1>12 DEF Alone
  <1>14. (Untouched => Unbroken)'
    <2> SUFFICES ASSUME Untouched PROVE Unbroken'
      BY <1>6 DEF Untouched
    <2>1. Alone /\ Unbroken
      BY DEF Untouched, Alone, Kept
    <2>2. i = Primary /\ Ordered /\ w.prev = head[Primary] /\ w.prev < w.id
      BY <1>5, <1>12, <2>1
    <2>3. Hashed = rows
      BY <2>1 DEF Unbroken, Hashed
    <2>4. \A r \in rows : r.id <= w.prev
      BY <2>2, <2>3 DEF Ordered
    <2>5. w.prev = 0 \/ \E s \in rows : s.id = w.prev
      BY <2>1, <2>2, <2>3 DEF Ordered, Unbroken
    <2>6. \A r \in rows : ~(w.id < r.id)
      BY <1>2, <1>5, <1>8, <2>2, <2>4
    <2>7. \A r \in rows : /\ r.prev < r.id
                          /\ r.prev = 0 \/ \E s \in rows : s.id = r.prev
                          /\ \A s \in rows : s.id < r.id => s.id <= r.prev
      BY <2>1 DEF Unbroken
    <2>8. \A r \in rows' : /\ r.prev < r.id
                           /\ r.prev = 0 \/ \E s \in rows' : s.id = r.prev
                           /\ \A s \in rows' : s.id < r.id => s.id <= r.prev
      <3> TAKE r \in rows'
      <3>1. CASE r \in rows
        BY <1>6, <2>6, <2>7, <3>1
      <3>2. CASE r = w
        BY <1>2, <1>5, <1>6, <2>2, <2>4, <2>5, <3>2
      <3> QED
        BY <1>6, <3>1, <3>2
    <2> QED
      BY <1>5, <1>6, <2>1, <2>8 DEF Unbroken
  <1> QED
    BY <1>11, <1>13, <1>14 DEF Kept

\* Retention's own row takes the next id and carries no hash.
LEMMA LogAuditActionKept ==
    ASSUME Primary \in Instances, Kept, LogAuditAction
    PROVE  Kept'
  <1> DEFINE w == [id |-> nextId, prev |-> 0, hashed |-> FALSE]
  <1>1. Fresh /\ Typed
    BY DEF Kept, Fresh
  <1>2. nextId \in Nat /\ 0 < nextId
    BY <1>1 DEF Typed
  <1>3. w \in Row /\ w.id = nextId /\ w.prev = 0 /\ ~w.hashed
    BY <1>2 DEF Row
  <1>4. rows' = rows \cup {w} /\ nextId' = nextId + 1 /\ pending' = pending /\ head' = head /\ ops' = ops
    BY DEF LogAuditAction
  <1>5. Hashed' = Hashed
    BY <1>3, <1>4 DEF Hashed
  <1>6. \A r \in rows : r.id \in Nat /\ r.prev \in Nat /\ 0 < r.id /\ r.id < nextId /\ r.prev < nextId
    BY <1>1 DEF Typed, Row, Fresh
  <1>7. \A j \in Instances : pending[j] \in Nat /\ head[j] \in Nat /\ pending[j] < nextId /\ head[j] < nextId
    BY <1>1 DEF Typed, Fresh
  <1> HIDE DEF w
  <1>8. Typed'
    BY <1>1, <1>2, <1>3, <1>4 DEF Typed
  <1>9. (\A r \in rows : 0 < r.id /\ r.id < nextId /\ r.prev < nextId)'
    BY <1>2, <1>3, <1>4, <1>6
  <1>10. (\A r, s \in rows : r.id = s.id => r = s)'
    BY <1>1, <1>2, <1>3, <1>4, <1>6 DEF Fresh
  <1>11. Topped(rows')
    BY <1>1, <1>2, <1>3, <1>4, <1>6, ToppedAdd DEF Fresh
  <1>12. (\A j \in Instances : pending[j] < nextId /\ head[j] < nextId)'
    BY <1>2, <1>4, <1>7
  <1>13. (\A k \in Instances : pending[k] # 0 =>
              /\ \A r \in rows : r.id # pending[k] /\ r.prev # pending[k]
              /\ \A j \in Instances : head[j] # pending[k] /\ (j # k => pending[j] # pending[k]))'
    BY <1>1, <1>2, <1>3, <1>4, <1>7 DEF Fresh
  <1>14. Fresh'
    BY <1>1, <1>5, <1>8, <1>9, <1>10, <1>11, <1>12, <1>13 DEF Fresh, Topped
  <1>15. (Alone => Ordered)'
    BY <1>4, <1>5 DEF Alone, Ordered, Kept
  <1>16. ~Untouched'
    BY DEF LogAuditAction, Untouched
  <1> QED
    BY <1>14, <1>15, <1>16 DEF Kept

\* A cleanup takes the oldest rows; the newest hashed row goes only with all the others.
LEMMA CleanupKept ==
    ASSUME Primary \in Instances, Kept, CleanupRBACAuditLogs
    PROVE  Kept'
  <1>1. Fresh /\ Typed
    BY DEF Kept, Fresh
  <1>2. PICK cutoff \in 2..nextId : rows' = {r \in rows : r.id >= cutoff}
    BY DEF CleanupRBACAuditLogs
  <1>3. nextId' = nextId /\ pending' = pending /\ head' = head /\ ops' = ops
    BY DEF CleanupRBACAuditLogs
  <1>4. cutoff \in Nat
    BY <1>1 DEF Typed
  <1>5. \A r \in rows : r.id \in Nat
    BY <1>1 DEF Typed, Row
  <1>6. Hashed' = {r \in Hashed : r.id >= cutoff} /\ Hashed \subseteq rows
    BY <1>2 DEF Hashed
  <1>7. Topped(rows') /\ Topped(Hashed')
    <2>1. Topped(rows')
      BY <1>1, <1>2, <1>4, <1>5, ToppedCut DEF Fresh
    <2>2. Topped(Hashed')
      BY <1>1, <1>4, <1>5, <1>6, ToppedCut DEF Fresh
    <2> QED
      BY <2>1, <2>2
  <1>8. Typed'
    BY <1>1, <1>2, <1>3 DEF Typed
  <1>9. Fresh'
    BY <1>1, <1>2, <1>3, <1>7, <1>8 DEF Fresh, Topped
  <1>10. (Alone => Ordered)'
    <2> SUFFICES ASSUME Alone PROVE Ordered'
      BY <1>3 DEF Alone
    <2>1. Ordered
      BY DEF Kept
    <2>2. (Hashed # {} => \E s \in Hashed : s.id = head[Primary])'
      <3> SUFFICES ASSUME NEW r \in Hashed, r.id >= cutoff
                   PROVE  \E s \in Hashed' : s.id = head[Primary]
        BY <1>3, <1>6
      <3>1. PICK s \in Hashed : s.id = head[Primary] /\ r.id <= s.id
        BY <2>1 DEF Ordered
      <3>2. s.id >= cutoff
        BY <1>4, <1>5, <1>6, <3>1
      <3> QED
        BY <1>6, <3>1, <3>2
    <2> QED
      BY <1>3, <1>6, <2>1, <2>2 DEF Ordered
  <1>11. ~Untouched'
    BY DEF CleanupRBACAuditLogs, Untouched
  <1> QED
    BY <1>9, <1>10, <1>11 DEF Kept

\* A restart drops the reservation and takes h, which no other instance has reserved, as head.
LEMMA HeadReset ==
    ASSUME Primary \in Instances, Kept, NEW i \in Instances, NEW h \in Nat, h < nextId,
           \A k \in Instances : pending[k] # 0 => h # pending[k],
           head' = [head EXCEPT ![i] = h], pending' = [pending EXCEPT ![i] = 0],
           UNCHANGED <<ops, rows, nextId>>
    PROVE  /\ Fresh' /\ Hashed' = Hashed
           /\ \A j \in Instances : head'[j] = IF j = i THEN h ELSE head[j]
           /\ \A j \in Instances : pending'[j] = IF j = i THEN 0 ELSE pending[j]
  <1>1. Fresh /\ Typed
    BY DEF Kept, Fresh
  <1>2. pending' \in [Instances -> Nat] /\ head' \in [Instances -> Nat]
    BY <1>1 DEF Typed
  <1>3. \A j \in Instances : pending'[j] = IF j = i THEN 0 ELSE pending[j]
    BY <1>1 DEF Typed
  <1>4. \A j \in Instances : head'[j] = IF j = i THEN h ELSE head[j]
    BY <1>1 DEF Typed
  <1>5. Hashed' = Hashed
    BY DEF Hashed
  <1>6. Typed'
    BY <1>1, <1>2 DEF Typed
  <1>7. (\A j \in Instances : pending[j] < nextId /\ head[j] < nextId)'
    BY <1>1, <1>3, <1>4 DEF Fresh, Typed
  <1>8. (\A k \in Instances : pending[k] # 0 =>
              /\ \A r \in rows : r.id # pending[k] /\ r.prev # pending[k]
              /\ \A j \in Instances : head[j] # pending[k] /\ (j # k => pending[j] # pending[k]))'
    BY <1>1, <1>3, <1>4 DEF Fresh
  <1>9. Fresh'
    BY <1>1, <1>5, <1>6, <1>7, <1>8 DEF Fresh, Topped
  <1> QED
    BY <1>3, <1>4, <1>5, <1>9

\* A seeded restart finds the head the instance had.
LEMMA RestartKept ==
    ASSUME Primary \in Instances, Kept, NEW i \in Instances, Restart(i)
    PROVE  Kept'
  <1>1. Fresh
    BY DEF Kept
  <1>2. /\ LatestHash \in Nat /\ LatestHash < nextId
        /\ \A r \in Hashed : r.id <= LatestHash
        /\ IF Hashed = {} THEN LatestHash = 0 ELSE \E s \in Hashed : s.id = LatestHash
        /\ \A k \in Instances : pending[k] # 0 => LatestHash # pending[k]
    BY <1>1, LatestFacts
  <1>3. /\ Fresh' /\ Hashed' = Hashed
        /\ \A j \in Instances : head'[j] = IF j = i THEN LatestHash ELSE head[j]
        /\ \A j \in Instances : pending'[j] = IF j = i THEN 0 ELSE pending[j]
    BY <1>2, HeadReset DEF Restart
  <1>4. (Alone => Ordered)'
    <2> SUFFICES ASSUME Alone PROVE Ordered'
      BY DEF Alone, Restart
    <2>1. Ordered
      BY DEF Kept
    <2> QED
      BY <1>2, <1>3, <2>1 DEF Ordered
  <1>5. (Untouched => Unbroken)'
    <2> SUFFICES ASSUME Untouched PROVE Unbroken'
      BY DEF Untouched, Restart
    <2>1. Unbroken /\ rows' = rows
      BY DEF Kept, Restart
    <2>2. rows = {} => head'[Primary] = 0
      BY <1>2, <1>3, <2>1 DEF Unbroken, Hashed
    <2> QED
      BY <2>1, <2>2 DEF Unbroken
  <1> QED
    BY <1>3, <1>4, <1>5 DEF Kept

\* A restart that cannot read the log starts from the empty hash.
LEMMA RestartUnseededKept ==
    ASSUME Primary \in Instances, Kept, NEW i \in Instances, RestartUnseeded(i)
    PROVE  Kept'
  <1>1. nextId \in Nat /\ 0 < nextId
    BY DEF Kept, Fresh, Typed
  <1>2. Fresh'
    BY <1>1, HeadReset DEF RestartUnseeded
  <1>3. ~Alone' /\ ~Untouched'
    BY DEF RestartUnseeded, Alone, Untouched
  <1> QED
    BY <1>2, <1>3 DEF Kept

\* The verifier only reads.
LEMMA VerifierKept ==
    ASSUME Kept, UNCHANGED <<ops, rows, nextId, pending, head>>
    PROVE  Kept'
  <1>1. Hashed' = Hashed
    BY DEF Hashed
  <1>2. Fresh => Fresh'
    BY <1>1 DEF Fresh, Typed, Topped
  <1>3. Ordered => Ordered'
    BY <1>1 DEF Ordered
  <1>4. Unbroken => Unbroken'
    BY DEF Unbroken
  <1> QED
    BY <1>2, <1>3, <1>4 DEF Kept, Alone, Untouched

\* Every step keeps the invariant.
LEMMA KeptStep ==
    ASSUME Primary \in Instances, Kept, [Next]_vars
    PROVE  Kept'
  <1>1. ASSUME NEW i \in Instances,
               Reserve(i) \/ Insert(i) \/ InsertFails(i) \/ Restart(i) \/ RestartUnseeded(i)
        PROVE  Kept'
    BY <1>1, ReserveKept, InsertKept, InsertFailsKept, RestartKept, RestartUnseededKept
  <1>2. CASE LogAuditAction
    BY <1>2, LogAuditActionKept
  <1>3. CASE CleanupRBACAuditLogs
    BY <1>3, CleanupKept
  <1>4. CASE VerifySeed \/ VerifyWalk
    BY <1>4, VerifierKept DEF VerifySeed, VerifyWalk
  <1>5. CASE UNCHANGED vars
    BY <1>5, VerifierKept DEF vars
  <1> QED
    BY <1>1, <1>2, <1>3, <1>4, <1>5 DEF Next
----------------------------------------------------------------------------
\* The hash a walk holds below id n: the highest id there.
Reach(S, n) ==
    LET before == {s \in S : s.id < n}
    IN  IF before = {} THEN 0 ELSE Last(before).id

\* What the walk holds, from the highest row below n.
LEMMA ReachFacts ==
    ASSUME NEW S, NEW n \in Nat, \A s \in S : s.id \in Nat
    PROVE  /\ (\A s \in S : ~(s.id < n)) => Reach(S, n) = 0
           /\ \A m \in S : m.id < n /\ (\A s \in S : s.id < n => s.id <= m.id) => Reach(S, n) = m.id
  <1> DEFINE before == {s \in S : s.id < n}
  <1>1. (\A s \in S : ~(s.id < n)) => Reach(S, n) = 0
    BY DEF Reach
  <1>2. ASSUME NEW m \in S, m.id < n, \A s \in S : s.id < n => s.id <= m.id
        PROVE  Reach(S, n) = m.id
    <2>1. m \in before /\ (\A s \in before : s.id \in Nat) /\ \A s \in before : s.id <= m.id
      BY <1>2
    <2> HIDE DEF before
    <2>2. Last(before).id = m.id
      BY <2>1, LastIsHighest
    <2> QED
      BY <2>1, <2>2 DEF Reach, before
  <1> QED
    BY <1>1, <1>2

\* A walk over an unbroken log accepts every row.
LEMMA UnbrokenAccepted ==
    ASSUME Fresh, Unbroken
    PROVE  BadRows = {}
  <1> SUFFICES ASSUME NEW r \in rows
               PROVE  r.hashed /\ r.prev = Reach(rows, r.id)
    BY DEF BadRows, ReachedHash, Reach
  <1>1. \A s \in rows : s.id \in Nat /\ s.prev \in Nat /\ 0 < s.id
    BY DEF Fresh, Typed, Row
  <1>2. r.hashed
    BY DEF Unbroken
  <1>3. CASE \E s \in rows : s.id < r.id
    <2>1. PICK m \in rows : m.id < r.id /\ \A s \in rows : s.id < r.id => s.id <= m.id
      BY <1>1, <1>3 DEF Fresh, Topped
    <2>2. Reach(rows, r.id) = m.id
      BY <1>1, <2>1, ReachFacts
    <2>3. m.id <= r.prev /\ r.prev <= m.id
      BY <1>1, <2>1 DEF Unbroken
    <2> QED
      BY <1>1, <1>2, <2>2, <2>3
  <1>4. CASE ~\E s \in rows : s.id < r.id
    <2>1. Reach(rows, r.id) = 0
      BY <1>1, <1>4, ReachFacts
    <2>2. r.prev = 0
      BY <1>4 DEF Unbroken
    <2> QED
      BY <1>2, <2>1, <2>2
  <1> QED
    BY <1>3, <1>4

\* Inserting a row leaves a rejected row rejected: a row put below it has an id it
\* cannot have named as its predecessor.
LEMMA InsertHidesNothing ==
    ASSUME Fresh, NEW i \in Instances, Insert(i), BadRows # {}
    PROVE  BadRows' # {}
  <1> DEFINE w == [id |-> pending[i], prev |-> head[i], hashed |-> TRUE]
  <1>1. rows' = rows \cup {w} /\ w.id = pending[i] /\ pending[i] # 0 /\ pending[i] \in Nat
    BY DEF Insert, Fresh, Typed
  <1> HIDE DEF w
  <1>2. PICK r \in rows : ~r.hashed \/ r.prev # Reach(rows, r.id)
    BY DEF BadRows, ReachedHash, Reach
  <1>3. \A s \in rows : s.id \in Nat /\ s.id # w.id /\ s.prev # w.id
    BY <1>1 DEF Fresh, Typed, Row
  <1>4. \A s \in rows' : s.id \in Nat
    BY <1>1, <1>3
  <1>5. ASSUME r.prev # Reach(rows, r.id)
        PROVE  r.prev # Reach(rows', r.id)
    <2>1. CASE \E s \in rows : s.id < r.id
      <3>1. PICK m \in rows : m.id < r.id /\ \A s \in rows : s.id < r.id => s.id <= m.id
        BY <1>3, <2>1 DEF Fresh, Topped
      <3>2. Reach(rows, r.id) = m.id
        BY <1>3, <3>1, ReachFacts
      <3>3. CASE w.id < r.id /\ m.id < w.id
        <4>1. \A s \in rows' : s.id < r.id => s.id <= w.id
          BY <1>1, <1>3, <3>1, <3>3
        <4>2. w \in rows' /\ w.id < r.id
          BY <1>1, <3>3
        <4>3. Reach(rows', r.id) = w.id
          BY <1>3, <1>4, <4>1, <4>2, ReachFacts
        <4> QED
          BY <1>3, <4>3
      <3>4. CASE ~(w.id < r.id /\ m.id < w.id)
        <4>1. \A s \in rows' : s.id < r.id => s.id <= m.id
          BY <1>1, <1>3, <3>1, <3>4
        <4>2. m \in rows' /\ m.id < r.id
          BY <1>1, <3>1
        <4>3. Reach(rows', r.id) = m.id
          BY <1>3, <1>4, <4>1, <4>2, ReachFacts
        <4> QED
          BY <1>5, <3>2, <4>3
      <3> QED
        BY <3>3, <3>4
    <2>2. CASE ~\E s \in rows : s.id < r.id
      <3>1. Reach(rows, r.id) = 0
        BY <1>3, <2>2, ReachFacts
      <3>2. CASE w.id < r.id
        <4>1. w \in rows' /\ \A s \in rows' : s.id < r.id => s.id <= w.id
          BY <1>1, <2>2
        <4>2. Reach(rows', r.id) = w.id
          BY <1>3, <1>4, <3>2, <4>1, ReachFacts
        <4> QED
          BY <1>3, <4>2
      <3>3. CASE ~(w.id < r.id)
        <4>1. \A s \in rows' : ~(s.id < r.id)
          BY <1>1, <2>2, <3>3
        <4>2. Reach(rows', r.id) = 0
          BY <1>3, <1>4, <4>1, ReachFacts
        <4> QED
          BY <1>5, <3>1, <4>2
      <3> QED
        BY <3>2, <3>3
    <2> QED
      BY <2>1, <2>2
  <1>6. r \in rows' /\ (~r.hashed \/ r.prev # Reach(rows', r.id))
    BY <1>1, <1>2, <1>5
  <1> QED
    BY <1>6 DEF BadRows, ReachedHash, Reach

\* No step but a cleanup makes a rejected log acceptable.
LEMMA BreakKept ==
    ASSUME Fresh, [Next]_vars, BadRows # {}, ~CleanupRBACAuditLogs
    PROVE  BadRows' # {}
  <1>1. ASSUME NEW i \in Instances, Insert(i)
        PROVE  BadRows' # {}
    BY <1>1, InsertHidesNothing
  <1>2. CASE LogAuditAction
    <2> DEFINE w == [id |-> nextId, prev |-> 0, hashed |-> FALSE]
    <2>1. w \in rows' /\ ~w.hashed
      BY <1>2 DEF LogAuditAction
    <2> HIDE DEF w
    <2> QED
      BY <2>1 DEF BadRows
  <1>3. CASE rows' = rows
    BY <1>3 DEF BadRows, ReachedHash
  <1>4. (\E i \in Instances : Insert(i)) \/ LogAuditAction \/ rows' = rows
    BY DEF Next, vars, Reserve, InsertFails, Restart, RestartUnseeded, VerifySeed, VerifyWalk
  <1> QED
    BY <1>1, <1>2, <1>3, <1>4

\* The single writer's head is what a restart would read back.
LEMMA OrderedRestart ==
    ASSUME Fresh, Ordered, Hashed # {}
    PROVE  head[Primary] = Last(Hashed).id
  <1>1. PICK m \in Hashed : m.id = head[Primary] /\ \A s \in Hashed : s.id <= m.id
    BY DEF Ordered
  <1>2. \A s \in Hashed : s.id \in Nat
    BY DEF Fresh, Typed, Row, Hashed
  <1> QED
    BY <1>1, <1>2, LastIsHighest

\* The administrative audit log, for any number of proxy instances, any ids and any
\* mix of failed writes, restarts, retention rows, cleanups and unseeded starts: with
\* one writer every walk accepts the log until retention or an unseeded start touches
\* it, a restart continues the chain the writer had, and no step but a cleanup makes a
\* log that verifyRBACAuditLog rejects acceptable again (CreateAuditLog, LogAuditAction,
\* CleanupRBACAuditLogs, GetLatestRBACAuditLogHash).
THEOREM AdminLogContinues ==
    ASSUME Primary \in Instances
    PROVE  Spec => LogContinues
  <1>1. Init => Kept
    BY KeptInit
  <1>2. Kept /\ [Next]_vars => Kept'
    BY KeptStep
  <1>3. Spec => []Kept
    BY <1>1, <1>2, PTL DEF Spec
  <1>4. Kept => RbacVerifiable
    BY UnbrokenAccepted DEF Kept, Untouched, RbacVerifiable
  <1>5. Kept => RestartKeepsChain
    BY OrderedRestart DEF Kept, Alone, RestartKeepsChain
  <1>6. Kept /\ [Next]_vars => [BadRows # {} /\ ~CleanupRBACAuditLogs => (BadRows # {})']_vars
    BY BreakKept DEF Kept
  <1> QED
    BY <1>3, <1>4, <1>5, <1>6, PTL DEF Spec, LogContinues, BreakStaysVisible
=============================================================================
