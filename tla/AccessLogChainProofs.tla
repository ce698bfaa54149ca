----------------------- MODULE AccessLogChainProofs -----------------------
(***************************************************************************)
(* The access log's chains (internal/rpclog) for every number of chains,   *)
(* workload, cap, batch size and schedule.  Two inductive invariants:      *)
(*                                                                         *)
(*   Grown    while nothing is deleted, each chain is one line of hashes   *)
(*            and every place a checkpoint, a verifier pass or break-glass *)
(*            holds is a row of it: no pass raises a false alarm, and      *)
(*            break-glass makes the chain verify again;                    *)
(*   Chained  with retention, where the default chain is the only one: the *)
(*            rows that remain continue the anchor, so that the log stays  *)
(*            verifiable and writers continue its newest row.              *)
(***************************************************************************)
EXTENDS AccessLogChain, TLAPS

USE ZenonT(10), SMTT(30), SMTT(40)

\* The rows of a chain that carry a hash.
Linked(c) == {r \in Of(c) : r.hashed}

\* The id of a row of the chain, or none.
Seen(c, h) == h = 0 \/ \E r \in Of(c) : r.id = h

\* A place a walk may start from: the empty chain, or a row and its hash.
Mark(c, i, h) == (i = 0 /\ h = 0) \/ \E r \in Of(c) : r.id = i /\ h = HashOf(r)

\* While nothing is deleted: ids are handed out once, each hashed row of the chain
\* continues the hashed row before it, and the writer's head is the newest.
Line(c) ==
    /\ \A r \in Of(c) : 0 < r.id /\ r.id < nextId /\ r.id # pending[c]
    /\ \A r, s \in Of(c) : r.id = s.id => r = s
    /\ Of(c) # {} => \E m \in Of(c) : \A s \in Of(c) : s.id <= m.id
    /\ c # Default \/ "basic" \notin ops => \A r \in Of(c) : r.hashed
    /\ \A r \in Linked(c) :
          /\ r.prev < r.id /\ r.id <= head[c]
          /\ r.prev = 0 \/ \E s \in Linked(c) : s.id = r.prev
          /\ \A s \in Linked(c) : s.id < r.id => s.id <= r.prev
    /\ head[c] = 0 \/ \E s \in Linked(c) : s.id = head[c]
    /\ head[c] < nextId
    /\ pending[c] # 0 => head[c] < pending[c] /\ pending[c] < nextId

\* What checkpoints, break-glass and a verifier pass hold are rows of the chain.
Noted ==
    /\ \A c \in Chains : /\ Mark(c, anchor[c].id, anchor[c].hash)
                         /\ c # Default => anchor[c].id = 0
                         /\ Seen(c, ckpt[c]) /\ Seen(c, cw[c])
    /\ bg.pc # "idle" => \E r \in Of(Default) : r.id = bg.id /\ bg.hash = HashOf(r)
    /\ bg.pc = "anchored" => anchor[Default].id = bg.id /\ anchor[Default].hash = bg.hash
    /\ ver.pc = "walk" => Mark(ver.chain, ver.id, ver.prev)
    /\ ver.pc = "head" => Seen(ver.chain, ver.head)

\* No pass has raised an alarm.
Silent ==
    /\ ver.verdict # "chain_truncated"
    /\ "basic" \notin ops => ver.verdict \notin {"hash_mismatch", "null_entry_hash"}

\* The invariant of a table nothing is deleted from, whatever else the workload holds.
Grown == TypeOK /\ (\A c \in Chains : Line(c)) /\ Noted /\ Silent

Growing == ops \cap Retention = {}

\* Last returns the row with the highest id when there is one.
LEMMA LastIsHighest ==
    ASSUME NEW S, NEW m \in S, \A s \in S : s.id \in Nat, \A s \in S : s.id <= m.id
    PROVE  Last(S) \in S /\ Last(S).id = m.id
  <1> DEFINE P(r) == r \in S /\ \A s \in S : s.id <= r.id
  <1>1. \E r \in S : \A s \in S : s.id <= r.id
    OBVIOUS
  <1>2. Last(S) \in S /\ \A s \in S : s.id <= Last(S).id
    BY <1>1 DEF Last
  <1> QED
    BY <1>2

\* Rows and their fields are typed.
LEMMA RowFacts ==
    ASSUME TypeOK, NEW c \in Chains
    PROVE  /\ \A r \in Of(c) : r \in rows /\ r.id \in Nat /\ r.prev \in Nat /\ r.hashed \in BOOLEAN
           /\ head[c] \in Nat /\ pending[c] \in Nat /\ nextId \in Nat
           /\ anchor[c].id \in Nat /\ anchor[c].hash \in Nat /\ ckpt[c] \in Nat /\ cw[c] \in Nat
  BY DEF TypeOK, Row, Of

\* The hash a restarting writer reads back is its head, whatever the fallback
\* logger, other writers and a break-glass wrote.
LEMMA SeedIsHead ==
    ASSUME TypeOK, NEW c \in Chains, Line(c), Noted
    PROVE  Seed(c) = head[c]
  <1>1. /\ \A r \in Linked(c) : r.id \in Nat /\ r.id <= head[c] /\ r.id > 0
        /\ head[c] = 0 \/ \E s \in Linked(c) : s.id = head[c]
        /\ head[c] \in Nat
    BY RowFacts DEF Line, Linked
  <1>2. CASE Linked(c) = {}
    <2>1. anchor[c].hash = 0
      BY <1>2 DEF Noted, Mark, HashOf, Linked
    <2> QED
      BY <1>1, <1>2, <2>1 DEF Seed, Linked
  <1>3. CASE Linked(c) # {}
    <2>1. PICK m \in Linked(c) : m.id = head[c]
      BY <1>1, <1>3
    <2>2. Last(Linked(c)).id = head[c]
      BY <1>1, <2>1, LastIsHighest
    <2> QED
      BY <1>3, <2>2 DEF Seed, Linked
  <1> QED
    BY <1>2, <1>3

\* Walks from a marked row that only meet hashed rows accept them.
LEMMA WalkAccepts ==
    ASSUME TypeOK, NEW c \in Chains, Line(c), NEW i, NEW h, Mark(c, i, h), i = h,
           \A r \in Of(c) : r.id > i => r.hashed
    PROVE  BadRows(c, i, h) = {}
  <1> SUFFICES ASSUME NEW r \in Of(c), r.id > i
               PROVE  r.prev = ReachedHash(c, i, h, r)
    BY DEF BadRows
  <1> DEFINE before == {s \in Of(c) : i < s.id /\ s.id < r.id}
  <1>1. /\ i \in Nat /\ (i = 0 \/ \E s \in Linked(c) : s.id = i)
        /\ \A s \in Of(c) : s.id \in Nat /\ s.prev \in Nat
    <2>1. \A s \in Of(c) : s.id \in Nat /\ s.prev \in Nat /\ s.id > 0
      BY RowFacts DEF Line
    <2>2. CASE i = 0
      BY <2>1, <2>2
    <2>3. CASE i # 0
      <3>1. PICK s \in Of(c) : s.id = i /\ h = HashOf(s)
        BY <2>3 DEF Mark
      <3>2. s.hashed
        BY <2>3, <3>1 DEF HashOf
      <3> QED
        BY <2>1, <3>1, <3>2 DEF Linked
    <2> QED
      BY <2>2, <2>3
  <1>2. r \in Linked(c)
    BY DEF Linked
  <1>3. /\ r.prev < r.id /\ i <= r.prev
        /\ r.prev = 0 \/ \E s \in Linked(c) : s.id = r.prev
        /\ \A s \in Linked(c) : s.id < r.id => s.id <= r.prev
    BY <1>1, <1>2 DEF Line
  <1>4. \A s \in before : s \in Linked(c)
    BY DEF Linked
  <1>5. CASE before = {}
    <2>1. r.prev = i
      BY <1>1, <1>3, <1>5 DEF Linked
    <2> QED
      BY <1>5, <2>1 DEF ReachedHash
  <1>6. CASE before # {}
    <2>1. PICK b \in before : TRUE
      BY <1>6
    <2>2. r.prev > i /\ r.prev # 0
      BY <1>1, <1>3, <1>4, <2>1
    <2>3. PICK m \in Linked(c) : m.id = r.prev
      BY <1>3, <2>2
    <2>4. m \in before
      BY <1>1, <1>3, <2>2, <2>3 DEF Linked
    <2>5. \A s \in before : s.id \in Nat /\ s.id <= m.id
      BY <1>1, <1>3, <1>4, <2>3
    <2>6. Last(before) \in before /\ Last(before).id = m.id
      BY <2>4, <2>5, LastIsHighest, ZenonT(30)
    <2>7. HashOf(Last(before)) = r.prev
      BY <1>4, <2>3, <2>6 DEF HashOf, Linked
    <2> QED
      BY <1>6, <2>7 DEF ReachedHash
  <1> QED
    BY <1>5, <1>6

\* Such a walk ends at the writer's head.
LEMMA WalkEnds ==
    ASSUME TypeOK, NEW c \in Chains, Line(c), Mark(c, anchor[c].id, anchor[c].hash),
           anchor[c].id = anchor[c].hash, \A r \in Of(c) : r.id > anchor[c].id => r.hashed
    PROVE  LET kept == {r \in Of(c) : r.id > anchor[c].id}
           IN  head[c] = IF kept = {} THEN anchor[c].hash ELSE HashOf(Last(kept))
  <1> DEFINE i == anchor[c].id
             kept == {r \in Of(c) : r.id > i}
  <1>1. /\ \A s \in Of(c) : s.id \in Nat /\ s.id > 0
        /\ i \in Nat /\ head[c] \in Nat
        /\ \A s \in Linked(c) : s.id <= head[c]
        /\ head[c] = 0 \/ \E s \in Linked(c) : s.id = head[c]
    BY RowFacts DEF Line
  <1>2. i = 0 \/ \E s \in Linked(c) : s.id = i
    <2>1. CASE i # 0
      <3>1. PICK s \in Of(c) : s.id = i /\ i = HashOf(s)
        BY <2>1 DEF Mark
      <3> QED
        BY <2>1, <3>1 DEF HashOf, Linked
    <2> QED
      BY <2>1
  <1>3. i <= head[c]
    BY <1>1, <1>2
  <1>4. \A s \in kept : s \in Linked(c)
    BY DEF Linked
  <1>5. CASE kept = {}
    <2>1. head[c] = i
      BY <1>1, <1>3, <1>5 DEF Linked
    <2> QED
      BY <1>5, <2>1
  <1>6. CASE kept # {}
    <2>1. PICK b \in kept : TRUE
      BY <1>6
    <2>2. head[c] > i /\ head[c] # 0
      BY <1>1, <1>4, <2>1
    <2>3. PICK m \in Linked(c) : m.id = head[c]
      BY <1>1, <2>2
    <2>4. m \in kept /\ m.hashed
      BY <2>2, <2>3 DEF Linked
    <2>5. \A s \in kept : s.id \in Nat /\ s.id <= m.id
      BY <1>1, <1>4, <2>3
    <2>6. Last(kept) \in kept /\ Last(kept).id = m.id
      BY <2>4, <2>5, LastIsHighest, ZenonT(30)
    <2>7. HashOf(Last(kept)) = head[c]
      BY <1>4, <2>3, <2>6 DEF HashOf, Linked
    <2> QED
      BY <1>6, <2>7
  <1> QED
    BY <1>5, <1>6

\* A step that adds no row and leaves the writers alone keeps every line.
LEMMA LineStays ==
    ASSUME TypeOK, NEW c \in Chains, Line(c), ops' = ops, rows' = rows, nextId' = nextId,
           head'[c] = head[c], pending'[c] \in {pending[c], 0}
    PROVE  Line(c)'
  <1>1. Of(c)' = Of(c) /\ Linked(c)' = Linked(c)
    BY DEF Of, Linked
  <1>2. \A r \in Of(c) : r.id # pending'[c]
    BY DEF Line
  <1>3. pending'[c] # 0 => pending'[c] = pending[c]
    OBVIOUS
  <1> QED
    BY <1>1, <1>2, <1>3 DEF Line

\* An id taken from the sequence is above every row of the chain.
LEMMA ReserveKeepsLine ==
    ASSUME TypeOK, NEW c \in Chains, NEW d \in Chains, Line(d), Reserve(c)
    PROVE  Line(d)'
  <1>1. /\ Of(d)' = Of(d) /\ Linked(d)' = Linked(d) /\ ops' = ops /\ head' = head
        /\ nextId \in Nat /\ nextId' = nextId + 1 /\ head[d] \in Nat /\ pending[d] \in Nat
        /\ pending'[d] \in {pending[d], nextId}
    BY DEF Reserve, Of, Linked, TypeOK
  <1>2. \A r \in Of(d) : r.id \in Nat
    BY RowFacts
  <1>3. \A r \in Of(d) : 0 < r.id /\ r.id < nextId + 1 /\ r.id # pending'[d]
    BY <1>1, <1>2 DEF Line
  <1>4. head[d] < nextId + 1 /\ (pending'[d] # 0 => head[d] < pending'[d] /\ pending'[d] < nextId + 1)
    BY <1>1 DEF Line
  <1> QED
    BY <1>1, <1>3, <1>4 DEF Line

\* The row Append writes is linked to the newest hashed row and becomes it.
LEMMA InsertKeepsLine ==
    ASSUME TypeOK, NEW c \in Chains, NEW d \in Chains, Line(d), Insert(c)
    PROVE  Line(d)'
  <1> DEFINE w == Written(c)
  <1>1. /\ w \in Row /\ w.id = pending[c] /\ w.prev = head[c] /\ w.hashed /\ w.chain = c
        /\ pending[c] # 0 /\ pending[c] \in Nat /\ head[c] \in Nat /\ nextId \in Nat
    BY DEF Insert, Written, Row, TypeOK
  <1>2. /\ rows' = rows \cup {w} /\ nextId' = nextId /\ ops' = ops
        /\ head' = [head EXCEPT ![c] = pending[c]] /\ pending' = [pending EXCEPT ![c] = 0]
    BY DEF Insert
  <1> HIDE DEF w
  <1>3. CASE d # c
    <2>1. Of(d)' = Of(d) /\ Linked(d)' = Linked(d)
      BY <1>1, <1>2, <1>3 DEF Of, Linked
    <2>2. head'[d] = head[d] /\ pending'[d] = pending[d]
      BY <1>2, <1>3 DEF TypeOK
    <2> QED
      BY <1>2, <2>1, <2>2 DEF Line
  <1>4. CASE d = c
    <2>1. Of(c)' = Of(c) \cup {w} /\ Linked(c)' = Linked(c) \cup {w}
      BY <1>1, <1>2 DEF Of, Linked
    <2>2. head'[c] = w.id /\ pending'[c] = 0
      BY <1>1, <1>2 DEF TypeOK
    <2>3. head[c] < w.id /\ w.id < nextId /\ 0 < w.id
      BY <1>1, <1>4 DEF Line
    <2>4. \A r \in Of(c) : r.id \in Nat /\ r.prev \in Nat /\ 0 < r.id /\ r.id < nextId /\ r.id # w.id
      BY <1>1, <1>4, RowFacts DEF Line
    <2>5. \A r \in Linked(c) : r \in Of(c) /\ r.id <= head[c]
      BY <1>4 DEF Line, Linked
    <2>6. (\A r \in Of(c) : 0 < r.id /\ r.id < nextId /\ r.id # pending[c])'
      BY <1>1, <1>2, <2>1, <2>2, <2>3, <2>4
    <2>7. (\A r, s \in Of(c) : r.id = s.id => r = s)'
      BY <1>4, <2>1, <2>4 DEF Line
    <2>8. \E m \in Of(c)' : \A s \in Of(c)' : s.id <= m.id
      <3>1. CASE Of(c) = {}
        BY <1>1, <2>1, <3>1
      <3>2. CASE Of(c) # {}
        <4>1. PICK m \in Of(c) : \A s \in Of(c) : s.id <= m.id
          BY <1>4, <3>2 DEF Line
        <4>2. CASE m.id < w.id
          BY <1>1, <2>1, <2>4, <4>1, <4>2
        <4>3. CASE ~(m.id < w.id)
          BY <1>1, <2>1, <2>4, <4>1, <4>3
        <4> QED
          BY <4>2, <4>3
      <3> QED
        BY <3>1, <3>2
    <2>9. (c # Default \/ "basic" \notin ops => \A r \in Of(c) : r.hashed)'
      BY <1>1, <1>2, <1>4, <2>1 DEF Line
    <2>10. ASSUME NEW r \in Linked(c)'
           PROVE  /\ r.prev < r.id /\ r.id <= w.id
                  /\ r.prev = 0 \/ \E s \in Linked(c)' : s.id = r.prev
                  /\ \A s \in Linked(c)' : s.id < r.id => s.id <= r.prev
      <3>1. CASE r = w
        <4>1. r.prev = head[c] /\ r.id = w.id
          BY <1>1, <3>1
        <4>2. head[c] = 0 \/ \E s \in Linked(c) : s.id = head[c]
          BY <1>4 DEF Line
        <4>3. \A s \in Linked(c)' : s.id < r.id => s.id <= r.prev
          BY <1>1, <2>1, <2>3, <2>5, <4>1
        <4> QED
          BY <1>1, <2>1, <2>3, <4>1, <4>2, <4>3
      <3>2. CASE r \in Linked(c)
        <4>1. /\ r.prev < r.id /\ r.id <= head[c]
              /\ r.prev = 0 \/ \E s \in Linked(c) : s.id = r.prev
              /\ \A s \in Linked(c) : s.id < r.id => s.id <= r.prev
          BY <1>4, <3>2 DEF Line
        <4>2. r.id \in Nat /\ r.id < w.id
          BY <1>1, <2>3, <2>4, <2>5, <3>2
        <4>3. \A s \in Linked(c)' : s.id < r.id => s.id <= r.prev
          BY <1>1, <2>1, <4>1, <4>2
        <4> QED
          BY <1>1, <2>1, <4>1, <4>2, <4>3
      <3> QED
        BY <2>1, <3>1, <3>2
    <2>11. (head[c] = 0 \/ \E s \in Linked(c) : s.id = head[c])' /\ (head[c] < nextId)'
      BY <1>2, <2>1, <2>2, <2>3
    <2> QED
      BY <1>4, <2>2, <2>6, <2>7, <2>8, <2>9, <2>10, <2>11 DEF Line
  <1> QED
    BY <1>3, <1>4

\* The fallback logger's row carries no hash and stands beside the line.
LEMMA BasicKeepsLine ==
    ASSUME TypeOK, ChainAssumption, NEW d \in Chains, Line(d), BasicLog
    PROVE  Line(d)'
  <1> DEFINE w == [id |-> nextId, chain |-> Default, prev |-> 0, hashed |-> FALSE]
  <1>1. /\ w.id = nextId /\ w.chain = Default /\ ~w.hashed /\ nextId \in Nat
        /\ rows' = rows \cup {w} /\ nextId' = nextId + 1 /\ ops' = ops /\ "basic" \in ops
        /\ head' = head /\ pending' = pending
    BY DEF BasicLog, TypeOK
  <1> HIDE DEF w
  <1>2. Linked(d)' = Linked(d) /\ Of(d)' = IF d = Default THEN Of(d) \cup {w} ELSE Of(d)
    BY <1>1 DEF Of, Linked
  <1>3. /\ \A r \in Of(d) : r.id \in Nat /\ 0 < r.id /\ r.id < nextId /\ r.id # pending[d]
        /\ head[d] \in Nat /\ pending[d] \in Nat /\ head[d] < nextId
        /\ pending[d] # 0 => pending[d] < nextId
    BY RowFacts DEF Line
  <1>4. nextId > 0 /\ pending[d] # nextId
    BY <1>1, <1>3
  <1>5. (\A r \in Of(d) : 0 < r.id /\ r.id < nextId /\ r.id # pending[d])'
    BY <1>1, <1>2, <1>3, <1>4
  <1>6. (\A r, s \in Of(d) : r.id = s.id => r = s)'
    BY <1>1, <1>2, <1>3 DEF Line
  <1>7. (Of(d) # {} => \E m \in Of(d) : \A s \in Of(d) : s.id <= m.id)'
    <2>1. CASE d = Default
      <3>1. \A s \in Of(d)' : s.id <= w.id
        BY <1>1, <1>2, <1>3, <2>1
      <3> QED
        BY <1>2, <2>1, <3>1
    <2>2. CASE d # Default
      BY <1>2, <2>2 DEF Line
    <2> QED
      BY <2>1, <2>2
  <1>8. (d # Default \/ "basic" \notin ops => \A r \in Of(d) : r.hashed)'
    BY <1>1, <1>2 DEF Line
  <1>9. (head[d] < nextId)' /\ (pending[d] # 0 => head[d] < pending[d] /\ pending[d] < nextId)'
    BY <1>1, <1>3 DEF Line
  <1> QED
    BY <1>1, <1>2, <1>5, <1>6, <1>7, <1>8, <1>9 DEF Line

\* A write that fails, or a restart, leaves the head where it was and drops the
\* reserved id.
LEMMA DropKeepsLine ==
    ASSUME TypeOK, NEW c \in Chains, NEW d \in Chains, Line(c), Line(d), Noted,
           InsertFails(c) \/ Restart(c)
    PROVE  Line(d)' /\ head' = head
  <1>1. head' = head
    BY SeedIsHead DEF InsertFails, Restart, TypeOK
  <1>2. ops' = ops /\ rows' = rows /\ nextId' = nextId /\ pending'[d] \in {pending[d], 0}
    BY DEF InsertFails, Restart, TypeOK
  <1> QED
    BY <1>1, <1>2, LineStays

\* What is noted stays a row of the chain when rows are only added.
LEMMA NotedStays ==
    ASSUME TypeOK, Noted, rows \subseteq rows', UNCHANGED <<anchor, ckpt, cw, bg, ver>>
    PROVE  Noted'
  <1>1. \A c : Of(c) \subseteq Of(c)'
    BY DEF Of
  <1>2. ASSUME NEW c \in Chains
        PROVE  Mark(c, anchor[c].id, anchor[c].hash)' /\ Seen(c, ckpt[c])' /\ Seen(c, cw[c])'
    BY <1>1 DEF Noted, Mark, Seen, HashOf
  <1>3. (bg.pc # "idle" => \E r \in Of(Default) : r.id = bg.id /\ bg.hash = HashOf(r))'
    BY <1>1 DEF Noted, HashOf
  <1>4. (ver.pc = "walk" => Mark(ver.chain, ver.id, ver.prev))'
    BY <1>1 DEF Noted, Mark, HashOf
  <1>5. (ver.pc = "head" => Seen(ver.chain, ver.head))'
    BY <1>1 DEF Noted, Seen
  <1> QED
    BY <1>2, <1>3, <1>4, <1>5 DEF Noted

\* The newest row of a chain that has one.
LEMMA NewestRow ==
    ASSUME TypeOK, NEW c \in Chains, Line(c), Of(c) # {}
    PROVE  /\ Last(Of(c)) \in Of(c) /\ Last(Of(c)).id \in Nat
           /\ \A s \in Of(c) : s.id <= Last(Of(c)).id
  <1>1. PICK m \in Of(c) : \A s \in Of(c) : s.id <= m.id
    BY DEF Line
  <1>2. \A s \in Of(c) : s.id \in Nat
    BY RowFacts
  <1>3. Last(Of(c)) \in Of(c) /\ Last(Of(c)).id = m.id
    BY <1>1, <1>2, LastIsHighest
  <1> QED
    BY <1>1, <1>2, <1>3

\* Checkpoints, break-glass and the verifier's reads note rows of the chain.
LEMMA NotedStep ==
    ASSUME ChainAssumption, TypeOK, \A c \in Chains : Line(c), Noted, UNCHANGED rows,
           NEW c \in Chains,
           \/ CheckpointRead(c) \/ CheckpointWrite(c) \/ VerifyStart(c)
           \/ ReAnchorRecord \/ ReAnchorSet \/ ReAnchorCheckpoint \/ ReAnchorFails
           \/ VerifyWalk \/ VerifyReadCheckpoint \/ VerifyReadHead
    PROVE  Noted'
  <1>0. Default \in Chains
    BY DEF ChainAssumption
  <1>1. \A d : Of(d)' = Of(d)
    BY DEF Of
  <1>2. ASSUME NEW d \in Chains
        PROVE  /\ Mark(d, anchor[d].id, anchor[d].hash) /\ (d # Default => anchor[d].id = 0)
               /\ Seen(d, ckpt[d]) /\ Seen(d, cw[d])
    BY DEF Noted
  <1>3. CASE CheckpointRead(c)
    <2>1. Seen(c, Last(Of(c)).id)
      BY <1>3, NewestRow DEF CheckpointRead, Seen
    <2>2. ASSUME NEW d \in Chains PROVE Seen(d, cw[d])'
      BY <1>1, <1>2, <1>3, <2>1 DEF CheckpointRead, Seen, TypeOK
    <2> QED
      BY <1>1, <1>3, <2>2 DEF CheckpointRead, Noted, Mark, Seen, HashOf
  <1>4. CASE CheckpointWrite(c)
    <2>1. ASSUME NEW d \in Chains PROVE Seen(d, cw[d])' /\ Seen(d, ckpt[d])'
      BY <1>1, <1>2, <1>4 DEF CheckpointWrite, Seen, TypeOK
    <2> QED
      BY <1>1, <1>4, <2>1 DEF CheckpointWrite, Noted, Mark, Seen, HashOf
  <1>5. CASE VerifyStart(c)
    <2>1. ver'.pc = "walk" /\ ver'.chain = c /\ ver'.id = anchor[c].id /\ ver'.prev = anchor[c].hash
      BY <1>5 DEF VerifyStart
    <2>2. (ver.pc = "walk" => Mark(ver.chain, ver.id, ver.prev))'
      BY <1>1, <1>2, <2>1 DEF Mark, HashOf
    <2> QED
      BY <1>1, <1>5, <2>1, <2>2 DEF VerifyStart, Noted, Mark, Seen, HashOf
  <1>6. CASE ReAnchorRecord
    <2> DEFINE l == Last(Of(Default))
    <2>1. l \in Of(Default)
      BY <1>0, <1>6, NewestRow DEF ReAnchorRecord
    <2>2. bg'.pc = "recorded" /\ bg'.id = l.id /\ bg'.hash = HashOf(l)
      BY <1>6 DEF ReAnchorRecord
    <2>3. (bg.pc # "idle" => \E r \in Of(Default) : r.id = bg.id /\ bg.hash = HashOf(r))'
      BY <1>1, <2>1, <2>2 DEF HashOf
    <2> QED
      BY <1>1, <1>6, <2>2, <2>3, ZenonT(30) DEF ReAnchorRecord, Noted, Mark, Seen, HashOf
  <1>7. CASE ReAnchorSet
    <2>1. /\ bg'.pc = "anchored" /\ bg'.id = bg.id /\ bg'.hash = bg.hash /\ bg.pc = "recorded"
          /\ anchor' = [anchor EXCEPT ![Default] = [id |-> bg.id, hash |-> bg.hash]]
          /\ UNCHANGED <<ckpt, cw, ver>>
      BY <1>7 DEF ReAnchorSet, TypeOK
    <2>2. anchor'[Default].id = bg.id /\ anchor'[Default].hash = bg.hash
      BY <1>0, <2>1 DEF TypeOK
    <2>3. \E r \in Of(Default) : r.id = bg.id /\ bg.hash = HashOf(r)
      BY <2>1 DEF Noted
    <2>4. ASSUME NEW d \in Chains
          PROVE  Mark(d, anchor[d].id, anchor[d].hash)' /\ (d # Default => anchor'[d].id = 0)
      <3>1. CASE d = Default
        BY <1>1, <2>2, <2>3, <3>1 DEF Mark, HashOf
      <3>2. CASE d # Default
        <4>1. anchor'[d] = anchor[d]
          BY <2>1, <3>2 DEF TypeOK
        <4> QED
          BY <1>1, <1>2, <3>2, <4>1 DEF Mark, HashOf
      <3> QED
        BY <3>1, <3>2
    <2> QED
      BY <1>1, <2>1, <2>2, <2>3, <2>4, ZenonT(30) DEF Noted, Seen, Mark, HashOf
  <1>8. CASE ReAnchorCheckpoint
    <2>1. /\ bg'.pc = "idle" /\ bg.pc = "anchored"
          /\ ckpt' = [ckpt EXCEPT ![Default] = bg.id] /\ UNCHANGED <<anchor, cw, ver>>
      BY <1>8 DEF ReAnchorCheckpoint, TypeOK
    <2>2. Seen(Default, bg.id)
      BY <2>1 DEF Noted, Seen
    <2>3. ASSUME NEW d \in Chains PROVE Seen(d, ckpt[d])'
      BY <1>1, <1>2, <2>1, <2>2 DEF Seen, TypeOK
    <2> QED
      BY <1>1, <2>1, <2>3, ZenonT(30) DEF Noted, Mark, Seen, HashOf
  <1>9. CASE ReAnchorFails
    <2>1. bg'.pc = "idle" /\ UNCHANGED <<anchor, ckpt, cw, ver>>
      BY <1>9 DEF ReAnchorFails, TypeOK
    <2> QED
      BY <1>1, <2>1 DEF Noted, Mark, Seen, HashOf
  <1>10. CASE VerifyWalk \/ VerifyReadHead
    <2>1. ver'.pc \notin {"walk", "head"} /\ UNCHANGED <<anchor, ckpt, cw, bg>>
      BY <1>10, ZenonT(30) DEF VerifyWalk, VerifyReadHead, TypeOK
    <2> QED
      BY <1>1, <2>1 DEF Noted, Mark, Seen, HashOf
  <1>11. CASE VerifyReadCheckpoint
    <2>1. /\ ver'.pc = "idle" \/ (ver'.pc = "head" /\ ver'.head = ckpt[ver'.chain] /\ ver'.chain \in Chains)
          /\ UNCHANGED <<anchor, ckpt, cw, bg>>
      BY <1>11 DEF VerifyReadCheckpoint, TypeOK
    <2>2. (ver.pc = "head" => Seen(ver.chain, ver.head))'
      BY <1>1, <1>2, <2>1 DEF Seen
    <2> QED
      BY <1>1, <2>1, <2>2 DEF Noted, Mark, Seen, HashOf
  <1> QED
    BY <1>3, <1>4, <1>5, <1>6, <1>7, <1>8, <1>9, <1>10, <1>11

\* No pass over a growing table raises an alarm: the walk starts at a row of the
\* chain, and the checkpoint it compares with names a row that is still there.
LEMMA SilentStep ==
    ASSUME TypeOK, \A c \in Chains : Line(c), Noted, Silent, ops' = ops,
           VerifyWalk \/ VerifyReadCheckpoint \/ VerifyReadHead
    PROVE  Silent'
  <1>0. ver.chain \in Chains
    BY DEF TypeOK
  <1>1. CASE VerifyWalk
    <2> DEFINE reason == WalkReason(ver.chain, ver.id, ver.prev)
    <2>1. ver'.verdict \in {ver.verdict, reason} /\ ver.pc = "walk"
      BY <1>1 DEF VerifyWalk, TypeOK
    <2>2. reason \in {"ok", "hash_mismatch", "null_entry_hash"}
      BY DEF WalkReason
    <2>3. ASSUME "basic" \notin ops PROVE reason = "ok"
      <3>1. Line(ver.chain) /\ Mark(ver.chain, ver.id, ver.prev)
        BY <1>0, <2>1 DEF Noted
      <3>2. \A r \in Of(ver.chain) : r.hashed
        BY <2>3, <3>1 DEF Line
      <3>3. ver.id = ver.prev
        BY <3>1, <3>2 DEF Mark, HashOf
      <3>4. BadRows(ver.chain, ver.id, ver.prev) = {}
        BY <1>0, <3>1, <3>2, <3>3, WalkAccepts
      <3> QED
        BY <3>4 DEF WalkReason
    <2> HIDE DEF reason
    <2> QED
      BY <2>1, <2>2, <2>3 DEF Silent
  <1>2. CASE VerifyReadCheckpoint
    <2>1. ver'.verdict \in {ver.verdict, "ok"}
      BY <1>2 DEF VerifyReadCheckpoint, TypeOK
    <2> QED
      BY <2>1 DEF Silent
  <1>3. CASE VerifyReadHead
    <2>1. /\ ver.pc = "head" /\ ver.head \in Nat
          /\ ver'.verdict = IF Truncated(ver.chain, ver.head) THEN "chain_truncated" ELSE "ok"
      BY <1>3 DEF VerifyReadHead, TypeOK
    <2>2. ~Truncated(ver.chain, ver.head)
      <3>1. Seen(ver.chain, ver.head)
        BY <2>1 DEF Noted
      <3>2. CASE Of(ver.chain) = {}
        BY <2>1, <3>1, <3>2 DEF Seen, Truncated
      <3>3. CASE Of(ver.chain) # {}
        <4>1. /\ Last(Of(ver.chain)).id \in Nat
              /\ \A s \in Of(ver.chain) : s.id <= Last(Of(ver.chain)).id
          BY <1>0, <3>3, NewestRow
        <4> QED
          BY <2>1, <3>1, <3>3, <4>1 DEF Seen, Truncated
      <3> QED
        BY <3>2, <3>3
    <2> QED
      BY <2>1, <2>2 DEF Silent
  <1> QED
    BY <1>1, <1>2, <1>3

\* What every step but a restart and a prune does to the types.
LEMMA TypeStep ==
    ASSUME ChainAssumption, TypeOK, \A c \in Chains : Line(c), Noted, Growing, [Next]_vars
    PROVE  TypeOK'
  <1>0. Default \in Chains
    BY DEF ChainAssumption
  <1>1. ASSUME NEW c \in Chains, Reserve(c) \/ InsertFails(c) \/ Restart(c) PROVE TypeOK'
    <2>1. CASE Restart(c)
      <3>1. Seed(c) \in Nat
        BY SeedIsHead, RowFacts
      <3> QED
        BY <2>1, <3>1 DEF Restart, TypeOK
    <2> QED
      BY <1>1, <2>1 DEF Reserve, InsertFails, TypeOK
  <1>2. ASSUME NEW c \in Chains, Insert(c) PROVE TypeOK'
    <2>1. Written(c) \in Row
      BY DEF Written, Row, TypeOK
    <2> QED
      BY <1>2, <2>1 DEF Insert, TypeOK
  <1>3. ASSUME BasicLog PROVE TypeOK'
    <2> DEFINE w == [id |-> nextId, chain |-> Default, prev |-> 0, hashed |-> FALSE]
    <2>1. w \in Row
      BY <1>0 DEF TypeOK, Row
    <2>2. rows' = rows \cup {w} /\ nextId' = nextId + 1
          /\ UNCHANGED <<ops, pending, head, anchor, ckpt, cw, bg, ver>>
      BY <1>3 DEF BasicLog
    <2> HIDE DEF w
    <2> QED
      BY <2>1, <2>2 DEF TypeOK
  <1>4. ASSUME NEW c \in Chains, CheckpointRead(c) \/ CheckpointWrite(c) PROVE TypeOK'
    <2>1. CASE CheckpointRead(c)
      <3>1. Last(Of(c)).id \in Nat
        BY <2>1, NewestRow DEF CheckpointRead
      <3> QED
        BY <2>1, <3>1 DEF CheckpointRead, TypeOK
    <2>2. CASE CheckpointWrite(c)
      <3>1. ckpt' \in [Chains -> Nat] /\ cw' \in [Chains -> Nat]
        BY <1>0, <2>2 DEF CheckpointWrite, TypeOK
      <3>2. UNCHANGED <<ops, rows, nextId, pending, head, anchor, bg, ver>>
        BY <2>2 DEF CheckpointWrite
      <3> QED
        BY <1>0, <3>1, <3>2 DEF TypeOK
    <2> QED
      BY <1>4, <2>1, <2>2
  <1>5. ASSUME ReAnchorRecord PROVE TypeOK'
    <2>1. Last(Of(Default)).id \in Nat
      BY <1>0, <1>5, NewestRow DEF ReAnchorRecord
    <2>2. HashOf(Last(Of(Default))) \in Nat
      BY <2>1 DEF HashOf
    <2> QED
      BY <1>5, <2>1, <2>2 DEF ReAnchorRecord, TypeOK
  <1>6. ASSUME ReAnchorSet \/ ReAnchorCheckpoint \/ ReAnchorFails PROVE TypeOK'
    <2>1. CASE ReAnchorSet
      BY <1>0, <2>1 DEF ReAnchorSet, TypeOK
    <2>2. CASE ReAnchorCheckpoint
      BY <1>0, <2>2 DEF ReAnchorCheckpoint, TypeOK
    <2>3. CASE ReAnchorFails
      BY <1>0, <2>3 DEF ReAnchorFails, TypeOK
    <2> QED
      BY <1>6, <2>1, <2>2, <2>3
  <1>7. ASSUME NEW c \in Chains, VerifyStart(c) PROVE TypeOK'
    BY <1>7 DEF VerifyStart, TypeOK
  <1>8. ASSUME VerifyWalk PROVE TypeOK'
    <2> DEFINE reason == WalkReason(ver.chain, ver.id, ver.prev)
    <2>1. reason \in {"ok", "hash_mismatch", "null_entry_hash"}
      BY DEF WalkReason
    <2>2. /\ ver' = IF reason = "ok" /\ CheckpointKey THEN [ver EXCEPT !.pc = "checkpoint"]
                    ELSE [ver EXCEPT !.pc = "idle", !.verdict = reason]
          /\ UNCHANGED <<ops, rows, nextId, pending, head, anchor, ckpt, cw, bg>>
      BY <1>8 DEF VerifyWalk
    <2> HIDE DEF reason
    <2> QED
      BY <2>1, <2>2, ZenonT(30) DEF TypeOK
  <1>9. ASSUME VerifyReadCheckpoint \/ VerifyReadHead PROVE TypeOK'
    <2> DEFINE found == IF Truncated(ver.chain, ver.head) THEN "chain_truncated" ELSE "ok"
    <2>1. /\ UNCHANGED <<ops, rows, nextId, pending, head, anchor, ckpt, cw, bg>>
          /\ \/ ver' = [ver EXCEPT !.pc = "idle", !.verdict = "ok"]
             \/ ver' = [ver EXCEPT !.pc = "head", !.head = ckpt[ver.chain]]
             \/ ver' = [ver EXCEPT !.pc = "idle", !.verdict = found]
      BY <1>9 DEF VerifyReadCheckpoint, VerifyReadHead
    <2>2. found \in {"chain_truncated", "ok"}
      OBVIOUS
    <2> HIDE DEF found
    <2> QED
      BY <2>1, <2>2, ZenonT(30) DEF TypeOK
  <1>10. ASSUME UNCHANGED vars PROVE TypeOK'
    BY <1>10 DEF vars, TypeOK
  <1> QED
    BY <1>1, <1>2, <1>3, <1>4, <1>5, <1>6, <1>7, <1>8, <1>9, <1>10
       DEF Next, Growing, Retention, CleanupAccessLogs, TrimAccessLogsFIFOBatch

\* What a behaviour is open to never changes.
LEMMA OpsFixed == [Next]_vars => ops' = ops
  BY DEF Next, Reserve, Insert, InsertFails, Restart, CheckpointRead, CheckpointWrite,
         VerifyStart, BasicLog, CleanupAccessLogs, TrimAccessLogsFIFOBatch, Prune,
         ReAnchorRecord, ReAnchorSet, ReAnchorCheckpoint, ReAnchorFails, VerifyWalk,
         VerifyReadCheckpoint, VerifyReadHead, vars

\* Every step on a table nothing is deleted from keeps the invariant.
LEMMA GrownStep ==
    ASSUME ChainAssumption, Growing, Grown, [Next]_vars
    PROVE  Grown'
  <1>0. TypeOK /\ (\A c \in Chains : Line(c)) /\ Noted /\ Silent /\ ops' = ops
    BY OpsFixed DEF Grown
  <1>1. TypeOK'
    BY <1>0, TypeStep
  <1>2. ASSUME UNCHANGED ver PROVE Silent'
    BY <1>0, <1>2 DEF Silent
  <1>3. ASSUME UNCHANGED <<rows, nextId, pending, head>> PROVE \A d \in Chains : Line(d)'
    BY <1>0, <1>3, LineStays
  <1>4. ASSUME NEW c \in Chains, Reserve(c) PROVE Grown'
    <2>1. \A d \in Chains : Line(d)'
      BY <1>0, <1>4, ReserveKeepsLine
    <2>2. Noted' /\ Silent'
      BY <1>0, <1>2, <1>4, NotedStays DEF Reserve
    <2> QED
      BY <1>1, <2>1, <2>2 DEF Grown
  <1>5. ASSUME NEW c \in Chains, Insert(c) PROVE Grown'
    <2>1. \A d \in Chains : Line(d)'
      BY <1>0, <1>5, InsertKeepsLine
    <2>2. Noted' /\ Silent'
      BY <1>0, <1>2, <1>5, NotedStays DEF Insert
    <2> QED
      BY <1>1, <2>1, <2>2 DEF Grown
  <1>6. ASSUME NEW c \in Chains, InsertFails(c) \/ Restart(c) PROVE Grown'
    <2>1. \A d \in Chains : Line(d)'
      BY <1>0, <1>6, DropKeepsLine
    <2>2. Noted' /\ Silent'
      BY <1>0, <1>2, <1>6, NotedStays DEF InsertFails, Restart
    <2> QED
      BY <1>1, <2>1, <2>2 DEF Grown
  <1>7. ASSUME BasicLog PROVE Grown'
    <2>1. \A d \in Chains : Line(d)'
      BY <1>0, <1>7, BasicKeepsLine
    <2>2. Noted' /\ Silent'
      BY <1>0, <1>2, <1>7, NotedStays DEF BasicLog
    <2> QED
      BY <1>1, <2>1, <2>2 DEF Grown
  <1>8. ASSUME NEW c \in Chains,
               \/ CheckpointRead(c) \/ CheckpointWrite(c) \/ VerifyStart(c)
               \/ ReAnchorRecord \/ ReAnchorSet \/ ReAnchorCheckpoint \/ ReAnchorFails
               \/ VerifyWalk \/ VerifyReadCheckpoint \/ VerifyReadHead
        PROVE  Grown'
    <2>1. UNCHANGED <<rows, nextId, pending, head>>
      BY <1>8 DEF CheckpointRead, CheckpointWrite, VerifyStart, ReAnchorRecord, ReAnchorSet,
           ReAnchorCheckpoint, ReAnchorFails, VerifyWalk, VerifyReadCheckpoint, VerifyReadHead
    <2>2. Noted'
      BY <1>0, <1>8, <2>1, NotedStep
    <2>3. Silent'
      <3>1. CASE VerifyWalk \/ VerifyReadCheckpoint \/ VerifyReadHead
        BY <1>0, <3>1, SilentStep
      <3>2. CASE VerifyStart(c)
        BY <1>0, <3>2 DEF VerifyStart, Silent
      <3>3. CASE ~(VerifyWalk \/ VerifyReadCheckpoint \/ VerifyReadHead \/ VerifyStart(c))
        BY <1>2, <1>8, <3>3 DEF CheckpointRead, CheckpointWrite, ReAnchorRecord, ReAnchorSet,
             ReAnchorCheckpoint, ReAnchorFails
      <3> QED
        BY <3>1, <3>2, <3>3
    <2> QED
      BY <1>1, <1>3, <2>1, <2>2, <2>3 DEF Grown
  <1>9. ASSUME UNCHANGED vars PROVE Grown'
    BY <1>0, <1>1, <1>2, <1>3, <1>9, NotedStays DEF Grown, vars
  <1>10. ~CleanupAccessLogs /\ ~TrimAccessLogsFIFOBatch
    BY DEF Growing, Retention, CleanupAccessLogs, TrimAccessLogsFIFOBatch
  <1>11. Default \in Chains
    BY DEF ChainAssumption
  <1> QED
    BY <1>4, <1>5, <1>6, <1>7, <1>8, <1>9, <1>10, <1>11 DEF Next

\* An empty table satisfies the invariant.
LEMMA GrownInit == ASSUME ChainAssumption, Init PROVE Grown
  <1>1. rows = {} /\ \A c : Of(c) = {} /\ Linked(c) = {}
    BY DEF Init, Of, Linked
  <1>2. TypeOK
    BY DEF Init, TypeOK, ChainAssumption
  <1>3. ASSUME NEW c \in Chains PROVE Line(c)
    <2>1. Of(c) = {} /\ Linked(c) = {} /\ nextId = 1 /\ pending[c] = 0 /\ head[c] = 0
      BY <1>1 DEF Init
    <2> QED
      BY <2>1, SMTT(20) DEF Line
  <1>4. Noted
    BY <1>1 DEF Init, Noted, Mark, Seen
  <1> QED
    BY <1>2, <1>3, <1>4 DEF Init, Grown, Silent

\* The invariant holds in every behaviour without retention.
LEMMA GrownAlways == Spec => [](Growing => Grown)
  <1>1. Init => (Growing => Grown)
    BY GrownInit, ChainAssumption
  <1>2. (Growing => Grown) /\ [Next]_vars => (Growing => Grown)'
    <2>1. [Next]_vars => Growing' = Growing
      BY OpsFixed DEF Growing
    <2> QED
      BY <2>1, GrownStep, ChainAssumption, ZenonT(30)
  <1> QED
    BY <1>1, <1>2, PTL DEF Spec

\* Every chain of a growing table is accepted and continued by its writer when all
\* rows above its anchor are hashed.
LEMMA GrownAccepted ==
    ASSUME ChainAssumption, Grown,
           \A r \in Of(Default) : r.id >= anchor[Default].id => r.hashed
    PROVE  Intact /\ HeadsFollow
  <1> SUFFICES ASSUME NEW c \in Chains
               PROVE  /\ BadRows(c, anchor[c].id, anchor[c].hash) = {}
                      /\ LET kept == {r \in Of(c) : r.id > anchor[c].id}
                         IN  head[c] = IF kept = {} THEN anchor[c].hash ELSE HashOf(Last(kept))
    BY ZenonT(30) DEF Intact, HeadsFollow
  <1>1. TypeOK /\ Line(c) /\ Mark(c, anchor[c].id, anchor[c].hash)
    BY ZenonT(30) DEF Grown, Noted
  <1>2. \A r \in Of(c) : r.id >= anchor[c].id => r.hashed
    BY <1>1, ZenonT(30) DEF Line
  <1>3. \A r \in Of(c) : r.id \in Nat
    BY <1>1, RowFacts
  <1>4. anchor[c].id = anchor[c].hash
    BY <1>1, <1>2, <1>3 DEF Mark, HashOf
  <1>5. \A r \in Of(c) : r.id > anchor[c].id => r.hashed
    <2>1. anchor[c].id \in Nat
      BY <1>1 DEF TypeOK
    <2> QED
      BY <1>2, <1>3, <2>1
  <1>6. BadRows(c, anchor[c].id, anchor[c].hash) = {}
    BY <1>1, <1>4, <1>5, WalkAccepts
  <1> QED
    BY <1>1, <1>4, <1>5, <1>6, WalkEnds, ZenonT(30)

\* So every chain is, without fallback rows.
LEMMA UnmixedAccepted ==
    ASSUME Grown, "basic" \notin ops
    PROVE  Intact /\ HeadsFollow
  <1>1. \A r \in Of(Default) : r.hashed
    BY ChainAssumption DEF Grown, Line, ChainAssumption
  <1> QED
    BY <1>1, ChainAssumption, GrownAccepted

\* While retention is off, a pass that interleaves with any number of writers,
\* restarts, checkpoints and a break-glass raises no alarm over rows this code
\* wrote (Verifier.Verify, checkTruncation, IntegrityWorker.pass).
THEOREM PassesStaySilent == Spec => []NoFalseAlarm
  <1>1. (Growing => Grown) => NoFalseAlarm
    BY DEF Growing, Grown, Silent, NoFalseAlarm, NoMismatchAlarm, NoTruncationAlarm, Retention
  <1> QED
    BY <1>1, GrownAlways, PTL

\* A break-glass re-anchor that reports success leaves chains the verifier accepts
\* and the writers continue, for workloads that run it without retention
\* (BreakGlassReAnchor).
THEOREM BreakGlassRepairs ==
    ASSUME \A w \in Workloads : "reanchor" \in w => w \cap Retention = {}
    PROVE  Spec => BreakGlassResumes
  <1> DEFINE Open == ops \in Workloads /\ (bg.pc # "idle" => "reanchor" \in ops)
             Resumed == ReAnchorCheckpoint /\ (\A r \in Of(Default) : r.id >= bg.id => r.hashed)
                           => (Intact /\ HeadsFollow)'
             Clean == \A r \in Of(Default) : r.id >= anchor[Default].id => r.hashed
  <1>0. (Grown /\ Clean => Intact /\ HeadsFollow)'
    <2>1. Grown /\ Clean => Intact /\ HeadsFollow
      BY GrownAccepted, ChainAssumption
    <2> QED
      BY <2>1, PTL
  <1>1. Init => Open
    BY DEF Init
  <1>2. Open /\ [Next]_vars => Open'
    BY OpsFixed DEF Next, Reserve, Insert, InsertFails, Restart, CheckpointRead, CheckpointWrite,
         VerifyStart, BasicLog, CleanupAccessLogs, TrimAccessLogsFIFOBatch, Prune,
         ReAnchorRecord, ReAnchorSet, ReAnchorCheckpoint, ReAnchorFails, VerifyWalk,
         VerifyReadCheckpoint, VerifyReadHead, vars
  <1>3. Open /\ (Growing => Grown) /\ (Growing => Grown)' /\ [Next]_vars => [Resumed]_vars
    <2> SUFFICES ASSUME Open, (Growing => Grown), (Growing => Grown)', [Next]_vars,
                        ReAnchorCheckpoint, \A r \in Of(Default) : r.id >= bg.id => r.hashed
                 PROVE  (Intact /\ HeadsFollow)'
      OBVIOUS
    <2>1. bg.pc = "anchored" /\ rows' = rows /\ anchor' = anchor
      BY DEF ReAnchorCheckpoint
    <2>2. Growing /\ Growing'
      BY <2>1, OpsFixed DEF Growing
    <2>3. Grown /\ Grown'
      BY <2>2
    <2>4. anchor[Default].id = bg.id
      BY <2>1, <2>3, ZenonT(30) DEF Grown, Noted
    <2>5. Of(Default)' = Of(Default) /\ anchor'[Default].id = bg.id
      BY <2>1, <2>4 DEF Of
    <2>6. Clean'
      BY <2>5
    <2> QED
      BY <1>0, <2>3, <2>6
  <1>4. Resumed <=> (ReAnchorCheckpoint /\ (\A r \in Of(Default) : r.id >= bg.id => r.hashed)
                        => (Intact /\ HeadsFollow)')
    OBVIOUS
  <1> HIDE DEF Open, Resumed
  <1>5. Spec => []Open
    BY <1>1, <1>2, PTL DEF Spec
  <1>6. Spec => [][Resumed]_vars
    BY <1>3, <1>5, GrownAlways, PTL DEF Spec
  <1> QED
    BY <1>6 DEF BreakGlassResumes, Resumed

\* The deployment retention is proved for: AUDIT_CHAIN_NAME left at its default,
\* no fallback rows, no break-glass operation.
SoleChain == ops \cap {"basic", "reanchor", "partition"} = {}

cut == anchor[Default]
tip == head[Default]

\* What the steps read and write, typed.
Typed ==
    /\ Default \in Chains
    /\ rows \subseteq Row /\ nextId \in Nat
    /\ pending \in [Chains -> Nat] /\ head \in [Chains -> Nat]
    /\ anchor \in [Chains -> [id : Nat, hash : Nat]]
    /\ bg.pc = "idle"

\* Nobody writes another chain.
Alone ==
    /\ \A r \in rows : r.chain = Default
    /\ \A c \in Chains : c # Default => /\ pending[c] = 0 /\ head[c] = 0
                                       /\ anchor[c].id = 0 /\ anchor[c].hash = 0

\* Every row is linked to the row before it, the oldest to the anchor, and the
\* in-memory head is the newest row, or the anchor once none is left.
Chained ==
    /\ Typed /\ Alone
    /\ \A r, s \in rows : r.id = s.id => r = s
    /\ cut.hash = cut.id
    /\ \A r \in rows : r.hashed /\ cut.id <= r.prev /\ r.prev < r.id /\ r.id <= tip
    /\ \A r \in rows : r.prev = cut.id \/ \E s \in rows : s.id = r.prev
    /\ \A r, s \in rows : s.id < r.id => s.id <= r.prev
    /\ cut.id <= tip /\ (tip = cut.id \/ \E s \in rows : s.id = tip)
    /\ tip < nextId
    /\ pending[Default] # 0 => (tip < pending[Default] /\ pending[Default] < nextId)

\* All rows are rows of the default chain, and its pair of anchor fields is typed.
LEMMA SoleRows ==
    ASSUME Chained
    PROVE  /\ Of(Default) = rows /\ \A c \in Chains : c # Default => Of(c) = {}
           /\ Default \in Chains /\ cut.id \in Nat /\ cut.hash \in Nat /\ tip \in Nat
           /\ \A r \in rows : r.id \in Nat /\ r.prev \in Nat
  BY DEF Chained, Typed, Alone, Of, Row, cut, tip

\* Steps that leave the other chains alone keep them unwritten.
LEMMA AloneStays ==
    ASSUME Typed, Alone, \A r \in rows' : r.chain = Default,
           \A c \in Chains : c # Default => /\ pending'[c] = pending[c] /\ head'[c] = head[c]
                                           /\ anchor'[c] = anchor[c]
    PROVE  Alone'
  BY DEF Alone

\* The rows a trim picks are closed under "older than".
OldestFirst == \A r \in OldestExcess : \A s \in rows : s.id < r.id => s \in OldestExcess

\* Deleting the rows up to some row and anchoring there keeps the chain.
LEMMA PruneKeepsChain ==
    ASSUME SoleChain, Chained, NEW D, D \subseteq rows,
           \A r \in D : \A s \in rows : s.id < r.id => s \in D,
           Prune(D)
    PROVE  Chained'
  <1>1. PICK last \in D :
          /\ \A r \in D : r.id <= last.id
          /\ rows' = rows \ D
          /\ anchor' = [anchor EXCEPT ![Default] =
                [id |-> last.id, hash |-> IF last.hashed THEN last.id ELSE @.hash]]
          /\ UNCHANGED <<nextId, pending, head, ckpt, cw, bg, ver>>
    BY ZenonT(30) DEF Prune
  <1>2. last \in rows /\ last.id \in Nat /\ last.hashed
    BY DEF Chained, Typed, Row
  <1>3. cut' = [id |-> last.id, hash |-> last.id] /\ tip' = tip
    BY <1>1, <1>2, ZenonT(30) DEF cut, tip, Chained, Typed
  <1>4. Typed' /\ Alone'
    <2>1. anchor' = [anchor EXCEPT ![Default] = [id |-> last.id, hash |-> last.id]]
      BY <1>1, <1>2
    <2>2. Typed'
      <3>1. Typed
        BY DEF Chained
      <3>2. anchor' \in [Chains -> [id : Nat, hash : Nat]]
        BY <1>2, <2>1, <3>1, ZenonT(30) DEF Typed
      <3>3. rows' \subseteq Row
        BY <1>1, <3>1 DEF Typed
      <3> QED
        BY <1>1, <3>1, <3>2, <3>3 DEF Typed
    <2>3. Typed /\ Alone /\ \A r \in rows' : r.chain = Default
      BY <1>1, ZenonT(30) DEF Chained, Alone
    <2>4. \A c \in Chains : c # Default => /\ pending'[c] = pending[c] /\ head'[c] = head[c]
                                          /\ anchor'[c] = anchor[c]
      BY <1>1, <2>1, ZenonT(30) DEF Chained, Typed
    <2>5. Alone'
      BY <2>3, <2>4, AloneStays
    <2> QED
      BY <2>2, <2>5
  <1>5. ASSUME NEW r \in rows' PROVE r \in rows /\ last.id < r.id
    <2>1. r \in rows /\ r \notin D
      BY <1>1
    <2>2. r.id \in Nat
      BY <2>1 DEF Chained, Typed, Row
    <2>3. ~(r.id < last.id)
      BY <2>1
    <2>4. r.id # last.id
      BY <1>2, <2>1 DEF Chained
    <2> QED
      BY <1>2, <2>1, <2>2, <2>3, <2>4
  <1>6. cut.id < last.id /\ cut.id \in Nat
    <2>1. cut.id \in Nat
      BY SoleRows
    <2>2. last.prev \in Nat /\ cut.id <= last.prev /\ last.prev < last.id
      BY <1>2 DEF Chained, Typed, Row
    <2> QED
      BY <1>2, <2>1, <2>2
  <1>7. ASSUME NEW r \in rows' PROVE last.id <= r.prev
    BY <1>2, <1>5 DEF Chained
  <1>8. ASSUME NEW r \in rows' PROVE r.prev = last.id \/ \E s \in rows' : s.id = r.prev
    <2>1. r.prev # cut.id
      BY <1>2, <1>5, <1>6, <1>7 DEF Chained, Typed, Row
    <2>2. PICK s \in rows : s.id = r.prev
      BY <1>5, <2>1 DEF Chained
    <2>3. CASE s \in D
      <3>1. s.id <= last.id /\ last.id <= s.id /\ s.id \in Nat
        BY <1>1, <1>7, <2>2, <2>3 DEF Chained, Typed, Row
      <3> QED
        BY <1>2, <2>2, <3>1
    <2>4. CASE s \notin D
      BY <1>1, <2>2, <2>4
    <2> QED
      BY <2>3, <2>4
  <1>9. tip \in Nat /\ last.id <= tip /\ (tip = last.id \/ \E s \in rows' : s.id = tip)
    <2>1. tip \in Nat /\ last.id <= tip /\ tip # cut.id
      BY <1>2, <1>6, SoleRows DEF Chained
    <2>2. PICK s \in rows : s.id = tip
      BY <2>1 DEF Chained
    <2>3. CASE s \in D
      <3>1. s.id <= last.id
        BY <1>1, <2>3
      <3>2. tip = last.id
        BY <1>2, <2>1, <2>2, <3>1
      <3> QED
        BY <2>1, <3>2
    <2>4. CASE s \notin D
      BY <1>1, <2>1, <2>2, <2>4
    <2> QED
      BY <2>1, <2>3, <2>4
  <1>10. nextId' = nextId /\ pending' = pending
    BY <1>1
  <1> QED
    BY <1>3, <1>4, <1>5, <1>7, <1>8, <1>9, <1>10 DEF Chained

\* The hash a restarting writer reads back is its head.
LEMMA SeedIsTip ==
    ASSUME SoleChain, Chained
    PROVE  Seed(Default) = tip
  <1> DEFINE linked == {r \in Of(Default) : r.hashed}
  <1>1. linked = rows
    BY SoleRows, ZenonT(30) DEF Chained
  <1>2. CASE rows = {}
    BY <1>1, <1>2, ZenonT(30) DEF Seed, Chained, cut
  <1>3. CASE rows # {}
    <2>1. tip # cut.id
      BY <1>3, SoleRows DEF Chained
    <2>2. PICK m \in rows : m.id = tip
      BY <2>1 DEF Chained
    <2>3. Last(rows).id = m.id
      <3>1. \A s \in rows : s.id \in Nat /\ s.id <= m.id
        BY <2>2 DEF Chained, Typed, Row
      <3> QED
        BY <3>1, LastIsHighest
    <2> QED
      BY <1>1, <1>3, <2>2, <2>3, ZenonT(30) DEF Seed
  <1> QED
    BY <1>2, <1>3

\* Appending behind the in-memory head keeps the chain.
LEMMA InsertKeepsChain ==
    ASSUME SoleChain, Chained, Insert(Default)
    PROVE  Chained'
  <1> DEFINE w == Written(Default)
  <1>1. w \in Row /\ w.id = pending[Default] /\ w.prev = tip /\ w.hashed
    BY ZenonT(30) DEF Written, Row, Chained, Typed, tip
  <1>2. rows' = rows \cup {w} /\ tip' = w.id /\ cut' = cut /\ nextId' = nextId /\ pending'[Default] = 0
    BY <1>1, ZenonT(30) DEF Insert, tip, cut, Chained, Typed
  <1>3. Typed' /\ Alone'
    <2>1. Typed'
      BY <1>1, ZenonT(30) DEF Insert, Chained, Typed
    <2>2. w.chain = Default
      BY ZenonT(30) DEF Written
    <2>3. Typed /\ Alone /\ \A r \in rows' : r.chain = Default
      BY <1>2, <2>2, ZenonT(30) DEF Chained, Alone
    <2>4. \A c \in Chains : c # Default => /\ pending'[c] = pending[c] /\ head'[c] = head[c]
                                          /\ anchor'[c] = anchor[c]
      BY ZenonT(30) DEF Insert, Chained, Typed
    <2>5. Alone'
      BY <2>3, <2>4, AloneStays, ZenonT(30)
    <2> QED
      BY <2>1, <2>5
  <1>4. tip < w.id /\ w.id < nextId /\ tip \in Nat /\ w.id \in Nat /\ nextId \in Nat /\ cut.id \in Nat
    BY <1>1, SoleRows, ZenonT(30) DEF Insert, Chained, Typed
  <1>5. \A r \in rows : r.id \in Nat /\ r.prev \in Nat /\ r.id <= tip
    BY ZenonT(30) DEF Chained, Typed, Row
  <1> HIDE DEF w
  <1>6. (\A r, s \in rows : r.id = s.id => r = s)'
    <2>1. \A r, s \in rows : r.id = s.id => r = s
      BY DEF Chained
    <2>2. \A r \in rows : r.id # w.id
      BY <1>4, <1>5
    <2> QED
      BY <1>2, <2>1, <2>2
  <1>7. (\A r \in rows : r.hashed /\ cut.id <= r.prev /\ r.prev < r.id /\ r.id <= tip)'
    <2>1. \A r \in rows : r.hashed /\ cut.id <= r.prev /\ r.prev < r.id
      BY DEF Chained
    <2>2. cut.id <= tip
      BY DEF Chained
    <2>3. \A r \in rows : r.id <= w.id
      BY <1>4, <1>5
    <2>4. w.hashed /\ cut.id <= w.prev /\ w.prev < w.id /\ w.id <= w.id
      BY <1>1, <1>4, <2>2
    <2> QED
      BY <1>2, <2>1, <2>3, <2>4
  <1>8. (\A r \in rows : r.prev = cut.id \/ \E s \in rows : s.id = r.prev)'
    <2>1. \A r \in rows : r.prev = cut.id \/ \E s \in rows : s.id = r.prev
      BY DEF Chained
    <2>2. w.prev = cut.id \/ \E s \in rows : s.id = w.prev
      BY <1>1, ZenonT(30) DEF Chained
    <2> QED
      BY <1>2, <2>1, <2>2
  <1>9. (\A r, s \in rows : s.id < r.id => s.id <= r.prev)'
    <2>1. \A r, s \in rows : s.id < r.id => s.id <= r.prev
      BY ZenonT(30) DEF Chained
    <2>2. \A r \in rows : ~(w.id < r.id)
      BY <1>4, <1>5
    <2>3. \A s \in rows : s.id <= w.prev
      BY <1>1, <1>5
    <2>4. ~(w.id < w.id)
      BY <1>4
    <2> QED
      BY <1>2, <2>1, <2>2, <2>3, <2>4
  <1>10. (cut.id <= tip /\ (tip = cut.id \/ \E s \in rows : s.id = tip) /\ tip < nextId)'
    <2>1. cut.id <= tip
      BY DEF Chained
    <2> QED
      BY <1>2, <1>4, <2>1
  <1>11. cut'.hash = cut'.id
    BY <1>2, ZenonT(30) DEF Chained
  <1> QED
    BY <1>2, <1>3, <1>6, <1>7, <1>8, <1>9, <1>10, <1>11, ZenonT(30) DEF Chained

\* Every step of a sole chain keeps its rows linked, from the anchor to the head in memory.
LEMMA ChainedStep ==
    ASSUME SoleChain, OldestFirst, Chained, [Next]_vars
    PROVE  Chained'
  <1>0. /\ Typed /\ Alone /\ Default \in Chains
        /\ \A c \in Chains : c # Default => Of(c) = {} /\ pending[c] = 0 /\ Seed(c) = head[c]
    <2>1. Typed /\ Alone /\ Default \in Chains
      BY SoleRows, ZenonT(30) DEF Chained
    <2>2. ASSUME NEW c \in Chains, c # Default
          PROVE  Of(c) = {} /\ pending[c] = 0 /\ Seed(c) = head[c]
      <3>1. Of(c) = {} /\ pending[c] = 0 /\ head[c] = 0 /\ anchor[c].hash = 0
        BY <2>1, <2>2, SoleRows DEF Alone
      <3> QED
        BY <3>1 DEF Seed
    <2> QED
      BY <2>1, <2>2
  <1>1. ASSUME Reserve(Default) PROVE Chained'
    <2>1. /\ rows' = rows /\ head' = head /\ anchor' = anchor /\ bg' = bg /\ nextId' = nextId + 1
          /\ pending' = [pending EXCEPT ![Default] = nextId]
      BY <1>1 DEF Reserve
    <2>2. Typed'
      BY <1>0, <2>1 DEF Typed
    <2>3. Alone'
      BY <1>0, <2>1 DEF Alone, Typed
    <2>4. pending'[Default] = nextId /\ nextId \in Nat /\ tip' = tip /\ cut' = cut
      BY <1>0, <2>1 DEF Typed, tip, cut
    <2>5. tip \in Nat /\ tip < nextId
      BY SoleRows, ZenonT(30) DEF Chained
    <2>6. (tip < nextId /\ (pending[Default] # 0 => (tip < pending[Default] /\ pending[Default] < nextId)))'
      BY <2>1, <2>4, <2>5
    <2> QED
      BY <2>1, <2>2, <2>3, <2>4, <2>6, ZenonT(30) DEF Chained
  <1>2. ASSUME Insert(Default) PROVE Chained'
    BY <1>2, InsertKeepsChain
  <1>3. ASSUME NEW c \in Chains, InsertFails(c) \/ Restart(c) PROVE Chained'
    <2>1. head' = head
      BY <1>0, <1>3, SeedIsTip DEF InsertFails, Restart, tip, Typed
    <2>2. /\ rows' = rows /\ anchor' = anchor /\ bg' = bg /\ nextId' = nextId
          /\ pending' = [pending EXCEPT ![c] = 0]
      BY <1>3 DEF InsertFails, Restart
    <2>3. Typed'
      BY <1>0, <2>1, <2>2 DEF Typed
    <2>4. Alone'
      BY <1>0, <2>1, <2>2 DEF Alone, Typed
    <2>5. pending'[Default] \in {pending[Default], 0} /\ tip' = tip /\ cut' = cut
      BY <1>0, <2>1, <2>2 DEF Typed, tip, cut
    <2> QED
      BY <2>1, <2>2, <2>3, <2>4, <2>5, ZenonT(30) DEF Chained
  <1>4. ASSUME NEW c \in Chains, c # Default, Reserve(c) \/ Insert(c) PROVE FALSE
    BY <1>0, <1>4 DEF Reserve, Insert, SoleChain
  <1>5. ASSUME CleanupAccessLogs PROVE Chained'
    <2>1. PICK cutoff \in 2..nextId : Prune({r \in rows : r.id < cutoff})
      BY <1>5, ZenonT(30) DEF CleanupAccessLogs
    <2> DEFINE D == {r \in rows : r.id < cutoff}
    <2>2. \A r \in D : \A s \in rows : s.id < r.id => s \in D
      BY SoleRows
    <2>3. Prune(D) /\ D \subseteq rows
      BY <2>1
    <2> QED
      BY <2>2, <2>3, PruneKeepsChain
  <1>6. ASSUME TrimAccessLogsFIFOBatch PROVE Chained'
    <2>1. Prune(OldestExcess) /\ OldestExcess \subseteq rows
      BY <1>6 DEF TrimAccessLogsFIFOBatch, OldestExcess
    <2> QED
      BY <2>1, PruneKeepsChain DEF OldestFirst
  <1>7. ASSUME UNCHANGED <<rows, nextId, pending, head, anchor, bg>> PROVE Chained'
    BY <1>7, ZenonT(30) DEF Chained, Typed, Alone, cut, tip
  <1> QED
    BY <1>0, <1>1, <1>2, <1>3, <1>4, <1>5, <1>6, <1>7, ZenonT(30)
       DEF Next, vars, SoleChain, Typed, CheckpointRead, CheckpointWrite, VerifyStart,
           BasicLog, ReAnchorRecord, ReAnchorSet, ReAnchorCheckpoint, ReAnchorFails,
           VerifyWalk, VerifyReadCheckpoint, VerifyReadHead

\* So are the rows a chain starts with.
LEMMA ChainedInit ==
    ASSUME ChainAssumption, Init
    PROVE  Chained
  <1>1. Default \in Chains
    BY DEF ChainAssumption
  <1>2. Typed
    BY <1>1, ZenonT(30) DEF Init, Typed
  <1>3. Alone
    BY <1>1, ZenonT(30) DEF Init, Alone
  <1>4. cut = [id |-> 0, hash |-> 0] /\ tip = 0
    BY <1>1, ZenonT(30) DEF Init, cut, tip
  <1>5. rows = {} /\ nextId = 1 /\ pending[Default] = 0
    BY <1>1, ZenonT(30) DEF Init
  <1> QED
    BY <1>2, <1>3, <1>4, <1>5 DEF Chained

\* Linked rows pass the verifier's walk from the anchor.
LEMMA ChainedVerifies ==
    ASSUME SoleChain, Chained
    PROVE  Intact
  <1> SUFFICES ASSUME NEW r \in rows, r.id > cut.id
               PROVE  r.prev = ReachedHash(Default, cut.id, cut.hash, r)
    <2>1. \A c \in Chains : c # Default => BadRows(c, anchor[c].id, anchor[c].hash) = {}
      BY SoleRows, ZenonT(30) DEF BadRows
    <2>2. \A r \in rows : r.hashed
      BY DEF Chained
    <2>3. BadRows(Default, cut.id, cut.hash) = {}
      BY <2>2, SoleRows DEF BadRows
    <2>4. BadRows(Default, anchor[Default].id, anchor[Default].hash) = {}
      BY <2>3 DEF cut
    <2> QED
      BY <2>1, <2>4 DEF Intact
  <1> DEFINE before == {s \in rows : cut.id < s.id /\ s.id < r.id}
  <1>1. before = {s \in Of(Default) : cut.id < s.id /\ s.id < r.id}
    BY SoleRows
  <1>2. CASE before = {}
    <2>1. r.prev = cut.id
      BY <1>2, SoleRows DEF Chained
    <2> QED
      BY <1>1, <1>2, <2>1, ZenonT(30) DEF ReachedHash, Chained
  <1>3. CASE before # {}
    <2>0. /\ cut.id \in Nat /\ \A x \in rows : x.id \in Nat /\ x.prev \in Nat
          /\ \A x \in rows : cut.id <= x.prev /\ x.prev < x.id
          /\ \A s \in rows : s.id < r.id => s.id <= r.prev
      BY SoleRows, ZenonT(30) DEF Chained
    <2>1. r.prev # cut.id
      BY <1>3, <2>0
    <2>2. PICK m \in rows : m.id = r.prev
      BY <2>1 DEF Chained
    <2>3. m \in before
      BY <2>0, <2>1, <2>2
    <2>4. \A s \in before : s.id \in Nat /\ s.id <= m.id
      BY <2>2, ZenonT(30) DEF Chained, Typed, Row
    <2>5. Last(before) \in before /\ Last(before).id = m.id
      BY <2>3, <2>4, LastIsHighest, ZenonT(30)
    <2>6. HashOf(Last(before)) = r.prev
      BY <2>2, <2>5, ZenonT(30) DEF HashOf, Chained
    <2> QED
      BY <1>1, <1>3, <2>6, ZenonT(30) DEF ReachedHash
  <1> QED
    BY <1>2, <1>3

\* That walk ends at the head the next record is linked to.
LEMMA ChainedContinues ==
    ASSUME SoleChain, Chained
    PROVE  HeadsFollow
  <1> DEFINE kept == {r \in Of(Default) : r.id > anchor[Default].id}
  <1>0. ASSUME NEW c \in Chains, c # Default
        PROVE  {r \in Of(c) : r.id > anchor[c].id} = {} /\ head[c] = anchor[c].hash
    <2>1. Of(c) = {}
      BY <1>0, SoleRows
    <2>2. Alone
      BY DEF Chained
    <2> QED
      BY <1>0, <2>1, <2>2, ZenonT(30) DEF Alone
  <1>1. kept = rows
    <2>1. Of(Default) = rows /\ cut.id \in Nat /\ \A r \in rows : r.id \in Nat /\ r.prev \in Nat
      BY SoleRows
    <2>2. \A r \in rows : cut.id <= r.prev /\ r.prev < r.id
      BY DEF Chained
    <2>3. \A r \in rows : r.id > cut.id
      BY <2>1, <2>2
    <2> QED
      BY <2>1, <2>3 DEF cut
  <1>2. CASE rows = {}
    <2>1. tip = cut.hash
      BY <1>2 DEF Chained
    <2> QED
      BY <1>0, <1>1, <1>2, <2>1, ZenonT(30) DEF HeadsFollow, cut, tip
  <1>3. CASE rows # {}
    <2>1. tip # cut.id
      BY <1>3, SoleRows DEF Chained
    <2>2. PICK m \in rows : m.id = tip
      BY <2>1 DEF Chained
    <2>3. \A s \in rows : s.id \in Nat /\ s.id <= m.id
      BY <2>2, ZenonT(30) DEF Chained, Typed, Row
    <2>4. Last(rows) \in rows /\ Last(rows).id = m.id
      BY <2>3, LastIsHighest
    <2>5. HashOf(Last(rows)) = tip
      BY <2>2, <2>4, ZenonT(30) DEF HashOf, Chained
    <2> QED
      BY <1>0, <1>1, <1>3, <2>5, ZenonT(30) DEF HeadsFollow, tip
  <1> QED
    BY <1>2, <1>3

----------------------------------------------------------------------------
INSTANCE FiniteSetTheorems

\* The table is finite: each step adds at most one row.
LEMMA RowsFinite == Spec => []IsFiniteSet(rows)
  <1>1. Init => IsFiniteSet(rows)
    BY FS_EmptySet, ZenonT(30) DEF Init
  <1>2. IsFiniteSet(rows) /\ [Next]_vars => IsFiniteSet(rows)'
    <2> SUFFICES ASSUME IsFiniteSet(rows), [Next]_vars PROVE IsFiniteSet(rows')
      OBVIOUS
    <2>1. (\E w : rows' = rows \cup {w}) \/ rows' \subseteq rows
      <3>1. ASSUME NEW D, Prune(D) PROVE rows' \subseteq rows
        BY <3>1, ZenonT(30) DEF Prune
      <3>2. CleanupAccessLogs \/ TrimAccessLogsFIFOBatch => rows' \subseteq rows
        BY <3>1, ZenonT(30) DEF CleanupAccessLogs, TrimAccessLogsFIFOBatch
      <3>3. (\E c \in Chains : Insert(c)) \/ BasicLog => \E w : rows' = rows \cup {w}
        BY ZenonT(30) DEF Insert, BasicLog
      <3>4. \/ CleanupAccessLogs \/ TrimAccessLogsFIFOBatch \/ (\E c \in Chains : Insert(c)) \/ BasicLog
            \/ rows' = rows
        BY DEF Next, vars, Reserve, InsertFails, Restart, CheckpointRead, CheckpointWrite, VerifyStart,
               ReAnchorRecord, ReAnchorSet, ReAnchorCheckpoint, ReAnchorFails, VerifyWalk,
               VerifyReadCheckpoint, VerifyReadHead
      <3> QED
        BY <3>2, <3>3, <3>4
    <2> QED
      BY <2>1, FS_AddElement, FS_Subset
  <1> QED
    BY <1>1, <1>2, PTL DEF Spec

\* The oldest excess rows are closed under "older than".
LEMMA OldestIsPrefix ==
    ASSUME rows \subseteq Row, IsFiniteSet(rows), ChainAssumption,
           NEW r \in OldestExcess, NEW s \in rows, s.id < r.id
    PROVE  s \in OldestExcess
  <1> DEFINE below(x) == {t \in rows : t.id < x.id}
  <1>1. r \in rows
    BY DEF OldestExcess
  <1>2. below(s) \subseteq below(r)
    BY <1>1 DEF Row
  <1>3. IsFiniteSet(below(r)) /\ IsFiniteSet(below(s))
    BY FS_Subset
  <1>4. Cardinality(below(s)) <= Cardinality(below(r))
    BY <1>2, <1>3, FS_Subset, ZenonT(30)
  <1>5. Cardinality(below(s)) \in Nat /\ Cardinality(below(r)) \in Nat /\ Cardinality(rows) \in Nat
    BY <1>3, FS_CardinalityType, ZenonT(30)
  <1> QED
    BY <1>4, <1>5 DEF OldestExcess, ChainAssumption

\* So a trim, too, leaves the rows of a sole chain linked.
LEMMA ChainedAlways == Spec => [](SoleChain => Chained)
  <1>1. Init => (SoleChain => Chained)
    BY ChainedInit, ChainAssumption
  <1>2. IsFiniteSet(rows) /\ (SoleChain => Chained) /\ [Next]_vars => (SoleChain => Chained)'
    <2>1. [Next]_vars => SoleChain' = SoleChain
      BY OpsFixed DEF SoleChain
    <2>2. Chained /\ IsFiniteSet(rows) => OldestFirst
      BY OldestIsPrefix, ChainAssumption, ZenonT(30) DEF Chained, Typed, OldestFirst
    <2> QED
      BY <2>1, <2>2, ChainedStep, ZenonT(30)
  <1> QED
    BY <1>1, <1>2, RowsFinite, PTL DEF Spec

\* The rows left in the table continue the anchor across every prune, trim, failed
\* write and restart, for every cap and batch, and without retention those of every
\* instance's chain do (CleanupAccessLogs, TrimAccessLogsFIFOBatch, HashChain.Append).
THEOREM RetentionKeepsVerifiable == Spec => []Verifiable
  <1>1. (SoleChain => Chained) /\ (Growing => Grown) => Verifiable
    <2> SUFFICES ASSUME SoleChain => Chained, Growing => Grown,
                        ops \cap {"basic", "reanchor"} = {},
                        "partition" \in ops => ops \cap Retention = {}
                 PROVE  Intact
      BY DEF Verifiable
    <2>1. CASE "partition" \in ops
      BY <2>1, UnmixedAccepted DEF Growing
    <2>2. CASE "partition" \notin ops
      BY <2>2, ChainedVerifies DEF SoleChain
    <2> QED
      BY <2>1, <2>2
  <1> QED
    BY <1>1, ChainedAlways, GrownAlways, PTL

\* And a writer's next row continues what that walk ends with
\* (GetLatestAccessLogHashForChain's fallback to the anchor).
THEOREM WriterContinues == Spec => []HeadContinues
  <1>1. (SoleChain => Chained) /\ (Growing => Grown) => HeadContinues
    <2> SUFFICES ASSUME SoleChain => Chained, Growing => Grown,
                        ops \cap {"basic", "reanchor"} = {},
                        "partition" \in ops => ops \cap Retention = {}
                 PROVE  HeadsFollow
      BY DEF HeadContinues
    <2>1. CASE "partition" \in ops
      BY <2>1, UnmixedAccepted DEF Growing
    <2>2. CASE "partition" \notin ops
      BY <2>2, ChainedContinues DEF SoleChain
    <2> QED
      BY <2>1, <2>2
  <1> QED
    BY <1>1, ChainedAlways, GrownAlways, PTL

\* A restart reads back the head the process had, whatever retention deleted from
\* the one chain, and whatever fallback rows, other instances and a break-glass
\* wrote next to it (GetLatestAccessLogHashForChain).
THEOREM RestartTransparent == Spec => []RestartKeepsHead
  <1>1. (SoleChain => Chained) /\ (Growing => Grown) => RestartKeepsHead
    <2> SUFFICES ASSUME SoleChain => Chained, Growing => Grown, NEW c \in Chains,
                        ops \cap Retention = {} \/ ops \cap {"basic", "partition", "reanchor"} = {}
                 PROVE  head[c] = Seed(c)
      BY DEF RestartKeepsHead
    <2>1. CASE ops \cap Retention = {}
      <3>1. TypeOK /\ Line(c) /\ Noted
        BY <2>1 DEF Growing, Grown
      <3> QED
        BY <3>1, SeedIsHead
    <2>2. CASE ops \cap {"basic", "partition", "reanchor"} = {}
      <3>1. Chained
        BY <2>2 DEF SoleChain
      <3>2. CASE c = Default
        <4>1. SoleChain
          BY <2>2 DEF SoleChain
        <4> QED
          BY <3>1, <3>2, <4>1, SeedIsTip DEF tip
      <3>3. CASE c # Default
        <4>1. Of(c) = {} /\ head[c] = 0 /\ anchor[c].hash = 0
          BY <3>1, <3>3, SoleRows, ZenonT(30) DEF Chained, Alone
        <4> QED
          BY <4>1, ZenonT(30) DEF Seed
      <3> QED
        BY <3>2, <3>3
    <2> QED
      BY <2>1, <2>2
  <1> QED
    BY <1>1, ChainedAlways, GrownAlways, PTL
=============================================================================
