------------------------ MODULE AuditPipelineProofs ------------------------
(***************************************************************************)
(* What holds of AuditPipeline for every set of records, every batch size  *)
(* and any number of overlapping appends, failures and restarts.           *)
(***************************************************************************)
EXTENDS AuditPipeline, TLAPS, FiniteSetTheorems

\* A sealed row is well typed, and appending it keeps the table well typed.
LEMMA AppendRow ==
    ASSUME NEW R, NEW s \in Seq(R), NEW r \in R
    PROVE  /\ Append(s, r) \in Seq(R)
           /\ Len(Append(s, r)) = Len(s) + 1
           /\ DOMAIN Append(s, r) = 1..(Len(s) + 1)
           /\ \A i \in DOMAIN s : Append(s, r)[i] = s[i]
           /\ Append(s, r)[Len(s) + 1] = r
  OBVIOUS

\* The fields of rows and entries are typed.
LEMMA FieldTypes ==
    ASSUME TypeOK
    PROVE  /\ \A i \in DOMAIN rows : rows[i].bseq \in Nat /\ rows[i].rec \in Records
           /\ \A e \in buf \cup batch : e.seq \in Nat /\ e.rec \in Records
  <1>1. ASSUME NEW i \in DOMAIN rows
        PROVE  rows[i].bseq \in Nat /\ rows[i].rec \in Records
    <2>1. rows \in Seq(Row)
      BY DEF TypeOK
    <2>2. rows[i] \in Row
      BY <2>1
    <2> QED
      BY <2>2 DEF Row
  <1>2. \A e \in buf \cup batch : e.seq \in Nat /\ e.rec \in Records
    BY DEF TypeOK, Entry
  <1> QED
    BY <1>1, <1>2

\* What a behaviour is open to never changes.
LEMMA EventsFixed == [Next]_vars => events' = events
  BY DEF Next, SealStep, Allocate, Store, StoreFails, Acknowledge, ReadHighWater, Drain,
         SealEntry, SkipCorrupt, SealFails, SealDone, Clean, CleanFails, SealLosesAnswer,
         Crash, vars

\* Every step keeps the type invariant (all handlers of the pipeline).
LEMMA TypeStep == TypeOK /\ [Next]_vars => TypeOK'
  <1> SUFFICES ASSUME TypeOK, [Next]_vars PROVE TypeOK'
    OBVIOUS
  <1>0. events' = events
    BY EventsFixed
  <1> USE <1>0 DEF TypeOK, Entry, Row
  <1>1. ASSUME NEW r \in Records, Allocate(r) PROVE TypeOK'
    BY <1>1 DEF Allocate, tick
  <1>2. ASSUME NEW r \in Records, Store(r) PROVE TypeOK'
    BY <1>2 DEF Store, tick, memory
  <1>3. ASSUME NEW r \in Records, StoreFails(r) PROVE TypeOK'
    BY <1>3 DEF StoreFails, tick, memory
  <1>4. ASSUME NEW r \in Records, Acknowledge(r) PROVE TypeOK'
    BY <1>4 DEF Acknowledge, tick, memory
  <1>5. CASE ReadHighWater
    <2>1. SealedSeqs \subseteq Nat
      BY FieldTypes DEF SealedSeqs
    <2>2. hw' \in Nat
      BY <1>5, <2>1 DEF ReadHighWater, IsMax
    <2> QED
      BY <1>5, <2>2 DEF ReadHighWater, memory
  <1>6. CASE Drain
    BY <1>6 DEF Drain, DrainAfter, memory
  <1>7. ASSUME NEW e \in batch, SealEntry(e) PROVE TypeOK'
    BY <1>7, AppendRow DEF SealEntry, SealedRow
  <1>8. ASSUME NEW e \in batch, SkipCorrupt(e) PROVE TypeOK'
    BY <1>8 DEF SkipCorrupt, memory
  <1>9. ASSUME NEW e \in batch, SealFails(e) PROVE TypeOK'
    BY <1>9 DEF SealFails, memory
  <1>10. CASE SealDone
    BY <1>10 DEF SealDone, memory
  <1>11. CASE Clean
    BY <1>11 DEF Clean, memory
  <1>12. CASE CleanFails
    BY <1>12 DEF CleanFails, memory
  <1>13. ASSUME NEW e \in batch, SealLosesAnswer(e) PROVE TypeOK'
    BY <1>13, AppendRow DEF SealLosesAnswer, SealedRow, memory
  <1>14. CASE Crash
    <2>1. seq' \in Nat /\ lastHash' \in Nat
      BY <1>14 DEF Crash, RecoveredSeq, RecoveredHash, IsMax, BufferedSeqs
    <2> QED
      BY <2>1, <1>14 DEF Crash
  <1>15. CASE UNCHANGED vars
    BY <1>15 DEF vars
  <1> QED
    BY <1>1, <1>2, <1>3, <1>4, <1>5, <1>6, <1>7, <1>8, <1>9, <1>10, <1>11,
       <1>12, <1>13, <1>14, <1>15 DEF Next, SealStep

\* The type invariant holds in every reachable state of the pipeline.
THEOREM TypeCorrect == Spec => []TypeOK
  <1>1. Init => TypeOK
    BY PipelineAssumption DEF Init, TypeOK, Entry, Row
  <1> QED
    BY <1>1, TypeStep, PTL DEF Spec
----------------------------------------------------------------------------
\* The database tells the truth and the head can be read back.
Truthful == events \cap {"lostAck", "seedError"} = {}

\* The in-memory head is the hash of the last row, and the rows are linked.
Linked == lastHash = Len(rows) /\ \A i \in DOMAIN rows : rows[i].prev = i - 1

\* The walk of the verifier over access_logs succeeds in every reachable
\* state when no statement both commits and reports an error and the head is
\* read back at start-up: failed seals, crashes and restarts never fork it.
THEOREM ChainNeverForks == Spec => []ChainIntact
  <1>1. Init => (Truthful => Linked)
    BY DEF Init, Linked
  <1>2. TypeOK /\ (Truthful => Linked) /\ [Next]_vars => (Truthful => Linked)'
    <2> SUFFICES ASSUME TypeOK, Truthful => Linked, [Next]_vars, Truthful' PROVE Linked'
      OBVIOUS
    <2>0. Linked /\ Truthful
      BY EventsFixed DEF Truthful
    <2>1. ASSUME NEW e \in batch, SealEntry(e) PROVE Linked'
      <3>1. SealedRow(e, lastHash) \in Row
        BY DEF SealedRow, TypeOK, Entry, Row
      <3>2. rows' = Append(rows, SealedRow(e, lastHash)) /\ lastHash' = Len(rows) + 1
        BY <2>1 DEF SealEntry
      <3> QED
        BY <2>0, <3>1, <3>2, AppendRow DEF Linked, SealedRow, TypeOK
    <2>2. CASE Crash
      BY <2>0, <2>2 DEF Crash, RecoveredHash, Linked, Truthful
    <2>3. ASSUME UNCHANGED <<rows, lastHash>> PROVE Linked'
      BY <2>0, <2>3 DEF Linked
    <2>4. UNCHANGED <<rows, lastHash>> \/ Crash \/ \E e \in batch : SealEntry(e)
      BY <2>0 DEF Next, SealStep, Allocate, Store, StoreFails, Acknowledge, ReadHighWater,
             Drain, SkipCorrupt, SealFails, SealDone, Clean, CleanFails,
             SealLosesAnswer, vars, memory, Truthful
    <2> QED
      BY <2>1, <2>2, <2>3, <2>4
  <1>3. (Truthful => Linked) => ChainIntact
    BY DEF Linked, Truthful, ChainIntact
  <1> QED
    BY <1>1, <1>2, <1>3, TypeCorrect, PTL DEF Spec
----------------------------------------------------------------------------
\* Keys of the buffer are unique, and so are those of the drained batch.
KeysUnique ==
    /\ \A d, e \in buf : d.seq = e.seq => d = e
    /\ \A d, e \in batch : d.seq = e.seq => d = e

\* What the tick has read bounds the sealed sequences from above.
TickAhead ==
    /\ pc = "drain" => \A i \in DOMAIN rows : rows[i].bseq <= hw
    /\ pc = "seal" => \A e \in batch, i \in DOMAIN rows : rows[i].bseq < e.seq

OrderInv == SealedInOrder /\ KeysUnique /\ TickAhead

\* Sealing the next entry of the batch keeps the rows in buffer order.
LEMMA SealKeepsOrder ==
    ASSUME TypeOK, OrderInv, pc = "seal", NEW e \in batch, IsNext(e),
           rows' = Append(rows, SealedRow(e, lastHash))
    PROVE  /\ SealedInOrder'
           /\ \A d \in batch \ {e}, i \in DOMAIN rows' : rows'[i].bseq < d.seq
  <1>1. SealedRow(e, lastHash) \in Row /\ rows \in Seq(Row) /\ SealedRow(e, lastHash).bseq = e.seq
    BY DEF SealedRow, TypeOK, Entry, Row
  <1>2. /\ DOMAIN rows' = 1..(Len(rows) + 1) /\ DOMAIN rows = 1..Len(rows)
        /\ \A i \in DOMAIN rows : rows'[i] = rows[i]
        /\ rows'[Len(rows) + 1].bseq = e.seq
        /\ Len(rows) \in Nat
    BY <1>1, AppendRow
  <1>3. \A i \in DOMAIN rows : rows[i].bseq < e.seq
    BY DEF OrderInv, TickAhead
  <1>4. SealedInOrder'
    BY <1>2, <1>3 DEF OrderInv, SealedInOrder
  <1>5. ASSUME NEW d \in batch \ {e}, NEW i \in DOMAIN rows'
        PROVE  rows'[i].bseq < d.seq
    <2>1. e.seq < d.seq
      BY DEF IsNext, OrderInv, KeysUnique, TypeOK, Entry
    <2>2. CASE i \in DOMAIN rows
      BY <1>2, <2>2 DEF OrderInv, TickAhead
    <2>3. CASE i = Len(rows) + 1
      BY <1>2, <2>1, <2>3
    <2> QED
      BY <1>2, <2>2, <2>3
  <1> QED
    BY <1>4, <1>5

\* Every step keeps the order of the sealed rows (Sealer.Tick and restarts).
LEMMA OrderStep == TypeOK /\ OrderInv /\ [Next]_vars => OrderInv'
  <1> SUFFICES ASSUME TypeOK, OrderInv, [Next]_vars PROVE OrderInv'
    OBVIOUS
  <1> USE DEF OrderInv
  <1>1. ASSUME NEW r \in Records, Store(r) PROVE OrderInv'
    <2>1. KeysUnique'
      BY <1>1 DEF Store, tick, KeysUnique, TypeOK
    <2> QED
      BY <1>1, <2>1 DEF Store, tick, SealedInOrder, TickAhead
  <1>2. CASE ReadHighWater
    <2>1. \A i \in DOMAIN rows : rows[i].bseq <= hw'
      BY <1>2 DEF ReadHighWater, IsMax, SealedSeqs
    <2> QED
      BY <1>2, <2>1 DEF ReadHighWater, SealedInOrder, KeysUnique, TickAhead
  <1>3. CASE Drain
    <2>1. batch' \subseteq {e \in buf : e.seq > hw}
      BY <1>3 DEF Drain, DrainAfter
    <2>2. KeysUnique'
      BY <1>3, <2>1 DEF Drain, KeysUnique
    <2>3. TickAhead'
      <3> SUFFICES ASSUME NEW e \in batch', NEW i \in DOMAIN rows PROVE rows[i].bseq < e.seq
        BY <1>3 DEF Drain, TickAhead
      <3>1. rows[i].bseq <= hw
        BY <1>3 DEF Drain, TickAhead
      <3>2. e.seq > hw /\ e.seq \in Nat /\ hw \in Nat /\ rows[i].bseq \in Nat
        BY <2>1, FieldTypes DEF TypeOK
      <3> QED
        BY <3>1, <3>2
    <2> QED
      BY <1>3, <2>2, <2>3 DEF Drain, SealedInOrder
  <1>4. ASSUME NEW e \in batch, SealEntry(e) PROVE OrderInv'
    <2>1. /\ SealedInOrder'
          /\ \A d \in batch \ {e}, i \in DOMAIN rows' : rows'[i].bseq < d.seq
      BY <1>4, SealKeepsOrder DEF SealEntry
    <2> QED
      BY <1>4, <2>1 DEF SealEntry, KeysUnique, TickAhead
  <1>5. ASSUME NEW e \in batch, SealLosesAnswer(e) PROVE OrderInv'
    <2>1. SealedInOrder'
      BY <1>5, SealKeepsOrder DEF SealLosesAnswer
    <2> QED
      BY <1>5, <2>1 DEF SealLosesAnswer, KeysUnique, TickAhead
  <1>6. ASSUME UNCHANGED rows, buf' \subseteq buf, batch' \subseteq batch,
               pc' \in {"idle", "clean"} \/ UNCHANGED <<pc, hw>>
        PROVE  OrderInv'
    BY <1>6 DEF SealedInOrder, KeysUnique, TickAhead
  <1>7. ASSUME NEW r \in Records, Allocate(r) \/ StoreFails(r) \/ Acknowledge(r) PROVE OrderInv'
    BY <1>6, <1>7 DEF Allocate, StoreFails, Acknowledge, tick
  <1>8. ASSUME NEW e \in batch, SkipCorrupt(e) \/ SealFails(e) PROVE OrderInv'
    BY <1>6, <1>8 DEF SkipCorrupt, SealFails
  <1>9. CASE SealDone \/ Clean \/ CleanFails \/ Crash
    BY <1>6, <1>9 DEF SealDone, Clean, CleanFails, Crash
  <1>10. CASE UNCHANGED vars
    BY <1>6, <1>10 DEF vars
  <1> QED
    BY <1>1, <1>2, <1>3, <1>4, <1>5, <1>7, <1>8, <1>9, <1>10 DEF Next, SealStep

\* No entry is sealed twice or out of buffer order, whatever crashes, failed
\* statements, lost answers and failed deletes happen between the chain
\* commit and the buffer delete (Sealer.Tick).
THEOREM SealedInBufferOrder == Spec => []SealedInOrder
  <1>1. Init => OrderInv
    BY DEF Init, OrderInv, SealedInOrder, KeysUnique, TickAhead
  <1>2. OrderInv => SealedInOrder
    BY DEF OrderInv
  <1> QED
    BY <1>1, <1>2, OrderStep, TypeCorrect, PTL DEF Spec
----------------------------------------------------------------------------
\* A record's sequence is allocated once and stays with it.
SlotInv ==
    /\ \A e \in buf \cup batch : slot[e.rec] = e.seq /\ req[e.rec] # "new"
    /\ \A i \in DOMAIN rows : slot[rows[i].rec] = rows[i].bseq /\ req[rows[i].rec] # "new"

\* Every step keeps the records' sequences (Buffer.Append, SealBufferedAccessLog).
LEMMA SlotStep == TypeOK /\ SlotInv /\ [Next]_vars => SlotInv'
  <1> SUFFICES ASSUME TypeOK, SlotInv, [Next]_vars PROVE SlotInv'
    OBVIOUS
  <1>0. /\ \A i \in DOMAIN rows : rows[i].rec \in Records
        /\ \A e \in buf \cup batch : e.rec \in Records
    BY FieldTypes
  <1>1. ASSUME NEW r \in Records, Allocate(r) PROVE SlotInv'
    BY <1>0, <1>1 DEF Allocate, tick, SlotInv, TypeOK
  <1>2. ASSUME NEW r \in Records, Store(r) PROVE SlotInv'
    BY <1>0, <1>2 DEF Store, tick, SlotInv, TypeOK
  <1>3. ASSUME NEW r \in Records, StoreFails(r) \/ Acknowledge(r) PROVE SlotInv'
    BY <1>0, <1>3 DEF StoreFails, Acknowledge, tick, SlotInv, TypeOK
  <1>4. ASSUME NEW e \in batch, SealEntry(e) \/ SealLosesAnswer(e) PROVE SlotInv'
    <2>1. SealedRow(e, lastHash) \in Row /\ rows \in Seq(Row)
      BY DEF SealedRow, TypeOK, Entry, Row
    <2>2. /\ rows' = Append(rows, SealedRow(e, lastHash))
          /\ batch' \subseteq batch /\ UNCHANGED <<req, slot, buf>>
      BY <1>4 DEF SealEntry, SealLosesAnswer
    <2>3. \A i \in DOMAIN rows' :
             \/ i \in DOMAIN rows /\ rows'[i] = rows[i]
             \/ rows'[i] = SealedRow(e, lastHash)
      BY <2>1, <2>2, AppendRow
    <2>4. SealedRow(e, lastHash).rec = e.rec /\ SealedRow(e, lastHash).bseq = e.seq
      BY DEF SealedRow
    <2>5. slot[e.rec] = e.seq /\ req[e.rec] # "new"
      BY DEF SlotInv
    <2>6. \A i \in DOMAIN rows' :
             slot[rows'[i].rec] = rows'[i].bseq /\ req[rows'[i].rec] # "new"
      BY <2>3, <2>4, <2>5 DEF SlotInv
    <2> QED
      BY <2>2, <2>6 DEF SlotInv
  <1>5. CASE Crash
    BY <1>0, <1>5 DEF Crash, SlotInv, TypeOK, InFlight
  <1>6. ASSUME UNCHANGED <<req, slot, rows>>, buf' \subseteq buf,
               batch' \subseteq buf \cup batch
        PROVE  SlotInv'
    BY <1>6 DEF SlotInv
  <1>7. CASE ReadHighWater \/ Drain \/ SealDone \/ Clean \/ CleanFails
    BY <1>6, <1>7 DEF ReadHighWater, Drain, DrainAfter, SealDone, Clean, CleanFails
  <1>8. ASSUME NEW e \in batch, SkipCorrupt(e) \/ SealFails(e) PROVE SlotInv'
    BY <1>6, <1>8 DEF SkipCorrupt, SealFails
  <1>9. CASE UNCHANGED vars
    BY <1>6, <1>9 DEF vars
  <1> QED
    BY <1>1, <1>2, <1>3, <1>4, <1>5, <1>7, <1>8, <1>9 DEF Next, SealStep

\* No record appears twice in the chain, under every fault the model has
\* (Sealer.Tick's resume, SealBufferedAccessLog's unique buffer_seq).
THEOREM LoggedAtMostOnce == Spec => []SealedOnce
  <1>1. Init => SlotInv
    BY DEF Init, SlotInv
  <1>2. TypeOK /\ SealedInOrder /\ SlotInv => SealedOnce
    <2> SUFFICES ASSUME TypeOK, SealedInOrder, SlotInv,
                        NEW i \in DOMAIN rows, NEW j \in DOMAIN rows,
                        rows[i].rec = rows[j].rec
                 PROVE  i = j
      BY DEF SealedOnce
    <2>1. rows[i].bseq = rows[j].bseq /\ rows[i].bseq \in Nat
      BY FieldTypes DEF SlotInv
    <2>2. i \in Nat /\ j \in Nat
      BY DEF TypeOK
    <2> QED
      BY <2>1, <2>2 DEF SealedInOrder
  <1> QED
    BY <1>1, <1>2, SlotStep, TypeCorrect, SealedInBufferOrder, PTL DEF Spec
----------------------------------------------------------------------------
\* The record is in the chain, or the sealer skips it.
Done(r) == r \in Corrupt \/ \E i \in DOMAIN rows : rows[i].rec = r

\* Every sequence in the buffer, the table and the tick is below n.
AllBelow(n) ==
    /\ \A e \in buf \cup batch : e.seq < n
    /\ \A i \in DOMAIN rows : rows[i].bseq < n
    /\ hw < n /\ lastSealed < n

\* Appends do not overlap and the process does not restart.
Serial == events \cap {"overlap", "crash"} = {}

\* Appends do not overlap: the one that is writing has the newest sequence.
OneWriter ==
    /\ crashes = 0 /\ IsFiniteSet(buf)
    /\ \A e \in buf : e.seq > 0
    /\ \A r, s \in InFlight : r = s
    /\ AllBelow(seq + 1)
    /\ \A r \in Records : req[r] = "writing" =>
           slot[r] > 0 /\ slot[r] <= seq /\ AllBelow(slot[r])

\* What the next DeleteThrough may remove is sealed or skipped.
DeletableDone ==
    /\ \A e \in buf : e.seq <= hw => Done(e.rec)
    /\ \A e \in buf, i \in DOMAIN rows : e.seq <= rows[i].bseq => Done(e.rec)
    /\ pc \in {"seal", "clean"} => \A e \in buf : e.seq <= lastSealed => Done(e.rec)
    /\ pc = "seal" => \A e \in buf, d \in batch :
           hw < e.seq /\ e.seq <= d.seq => e \in batch \/ Done(e.rec)

\* A stored record is in the buffer until it is done.
Held == \A r \in Records : req[r] \in {"stored", "acked"} =>
            Done(r) \/ \E e \in buf : e.rec = r

LossInv == OneWriter /\ DeletableDone /\ Held

\* The rows only grow, so what is done stays done.
LEMMA DoneStays ==
    ASSUME TypeOK, NEW e \in batch, rows' = Append(rows, SealedRow(e, lastHash))
    PROVE  /\ \A r : Done(r) => Done(r)'
           /\ Done(e.rec)'
           /\ \A i \in DOMAIN rows' :
                 rows'[i].bseq = e.seq \/ (i \in DOMAIN rows /\ rows'[i] = rows[i])
  <1>1. SealedRow(e, lastHash) \in Row /\ rows \in Seq(Row)
    BY DEF SealedRow, TypeOK, Entry, Row
  <1>2. /\ \A i \in DOMAIN rows : i \in DOMAIN rows' /\ rows'[i] = rows[i]
        /\ \E i \in DOMAIN rows' : rows'[i] = SealedRow(e, lastHash)
        /\ \A i \in DOMAIN rows' : i \in DOMAIN rows \/ rows'[i] = SealedRow(e, lastHash)
    BY <1>1, AppendRow
  <1> QED
    BY <1>2 DEF Done, SealedRow

\* Drain returns a prefix of what lies above the high-water.
LEMMA DrainIsPrefix ==
    ASSUME TypeOK, KeysUnique, IsFiniteSet(buf), NEW h \in Nat,
           NEW e \in buf, NEW d \in DrainAfter(h, Batch), h < e.seq, e.seq <= d.seq
    PROVE  e \in DrainAfter(h, Batch)
  <1> DEFINE Lower(x) == {f \in buf : h < f.seq /\ f.seq < x.seq}
  <1>1. d \in buf /\ Cardinality(Lower(d)) < Batch
    BY DEF DrainAfter
  <1>2. IsFiniteSet(Lower(d))
    BY FS_Subset
  <1>3. Lower(e) \subseteq Lower(d)
    BY <1>1, FieldTypes
  <1>4. /\ Cardinality(Lower(e)) <= Cardinality(Lower(d))
        /\ Cardinality(Lower(e)) \in Nat /\ Cardinality(Lower(d)) \in Nat
    BY <1>2, <1>3, FS_Subset, FS_CardinalityType
  <1>5. Cardinality(Lower(e)) < Batch
    BY <1>1, <1>4, PipelineAssumption
  <1> QED
    BY <1>5, FieldTypes DEF DrainAfter

\* OneWriter survives a step that leaves the appends alone, adds nothing to the
\* buffer and reads no higher key.
LEMMA OneWriterKept ==
    ASSUME OneWriter, UNCHANGED <<req, slot, seq, crashes>>,
           IsFiniteSet(buf'), buf' \subseteq buf,
           seq \in Nat, slot \in [Records -> Nat],
           \A n \in Nat : AllBelow(n) => AllBelow(n)'
    PROVE  OneWriter'
  <1>1. AllBelow(seq + 1)'
    <2>1. PICK n \in Nat : n = seq + 1
      OBVIOUS
    <2>2. AllBelow(n)'
      BY <2>1 DEF OneWriter
    <2> QED
      BY <2>1, <2>2 DEF AllBelow
  <1>2. ASSUME NEW r \in Records, req'[r] = "writing"
        PROVE  (slot[r] > 0 /\ slot[r] <= seq /\ AllBelow(slot[r]))'
    <2>1. slot[r] > 0 /\ slot[r] <= seq /\ AllBelow(slot[r]) /\ slot'[r] = slot[r]
      BY <1>2 DEF OneWriter
    <2>2. PICK n \in Nat : n = slot[r]
      OBVIOUS
    <2>3. AllBelow(n)'
      BY <2>1, <2>2
    <2>4. AllBelow(slot[r])'
      BY <2>1, <2>2, <2>3 DEF AllBelow
    <2> QED
      BY <2>1, <2>4
  <1>3. InFlight' = InFlight
    BY DEF InFlight
  <1> QED
    BY <1>1, <1>2, <1>3 DEF OneWriter

\* Every step keeps LossInv when appends do not overlap and the process does
\* not restart.
LEMMA LossStep ==
    ASSUME Serial
    PROVE  TypeOK /\ OrderInv /\ LossInv /\ [Next]_vars => LossInv'
  <1> SUFFICES ASSUME TypeOK, OrderInv, LossInv, [Next]_vars PROVE LossInv'
    OBVIOUS
  <1>f. /\ \A i \in DOMAIN rows : rows[i].bseq \in Nat /\ rows[i].rec \in Records
        /\ \A e \in buf \cup batch : e.seq \in Nat /\ e.rec \in Records
        /\ seq \in Nat /\ hw \in Nat /\ lastSealed \in Nat /\ slot \in [Records -> Nat]
    BY FieldTypes DEF TypeOK
  <1>1. ASSUME NEW r \in Records, Allocate(r) PROVE LossInv'
    <2>0. UNCHANGED <<buf, rows, hw, batch, lastSealed, pc, crashes>>
      BY <1>1 DEF Allocate, tick
    <2>1. InFlight = {}
      <3>1. IsFiniteSet(InFlight) /\ Cardinality(InFlight) \in Nat
        BY PipelineAssumption, FS_Subset, FS_CardinalityType DEF InFlight
      <3>2. Cardinality(InFlight) < 1
        BY <1>1 DEF Allocate, Serial
      <3> QED
        BY <3>1, <3>2, FS_EmptySet
    <2>2. InFlight' = {r}
      BY <1>1, <2>1 DEF Allocate, InFlight, TypeOK
    <2>3. \A s \in Records : req'[s] = "writing" => s = r /\ slot'[s] = seq + 1
      BY <1>1, <2>1 DEF Allocate, InFlight, TypeOK
    <2>4. AllBelow(seq + 1)'
      <3>1. AllBelow(seq + 1) /\ seq' = seq + 1
        BY <1>1 DEF Allocate, LossInv, OneWriter
      <3>2. \A e \in buf \cup batch : e.seq < seq + 1 + 1
        BY <3>1, <1>f DEF AllBelow
      <3>3. \A i \in DOMAIN rows : rows[i].bseq < seq + 1 + 1
        BY <3>1, <1>f DEF AllBelow
      <3>4. hw < seq + 1 + 1 /\ lastSealed < seq + 1 + 1
        BY <3>1, <1>f DEF AllBelow
      <3> QED
        BY <2>0, <3>1, <3>2, <3>3, <3>4 DEF AllBelow
    <2>5. OneWriter'
      <3>1. ASSUME NEW s \in Records, req'[s] = "writing"
            PROVE  (slot[s] > 0 /\ slot[s] <= seq /\ AllBelow(slot[s]))'
        <4>1. slot'[s] = seq + 1 /\ seq' = seq + 1 /\ seq + 1 > 0
          BY <1>1, <1>f, <2>3, <3>1 DEF Allocate
        <4>2. AllBelow(seq + 1)
          BY DEF LossInv, OneWriter
        <4>3. AllBelow(slot[s])'
          BY <2>0, <4>1, <4>2 DEF AllBelow
        <4> QED
          BY <4>1, <4>3
      <3>2. \A x, y \in InFlight' : x = y
        BY <2>2
      <3>3. crashes' = 0 /\ IsFiniteSet(buf') /\ \A e \in buf' : e.seq > 0
        BY <2>0 DEF LossInv, OneWriter
      <3> QED
        BY <2>4, <3>1, <3>2, <3>3 DEF OneWriter
    <2>6. DeletableDone'
      BY <2>0 DEF LossInv, DeletableDone, Done
    <2>7. Held'
      BY <1>1, <2>0 DEF Allocate, LossInv, Held, Done, TypeOK
    <2> QED
      BY <2>5, <2>6, <2>7 DEF LossInv
  <1>2. ASSUME NEW r \in Records, Store(r) PROVE LossInv'
    <2> DEFINE new == [seq |-> slot[r], rec |-> r]
    <2>0. UNCHANGED <<rows, hw, batch, lastSealed, pc, crashes, slot, seq>>
      BY <1>2 DEF Store, tick, memory
    <2>1. slot[r] > 0 /\ AllBelow(slot[r]) /\ slot[r] \in Nat
      BY <1>2, <1>f DEF Store, LossInv, OneWriter
    <2>2. buf' = buf \cup {new}
      <3>1. \A e \in buf : e.seq # slot[r]
        BY <1>f, <2>1 DEF AllBelow
      <3> QED
        BY <1>2, <3>1 DEF Store
    <2>3. InFlight' = InFlight /\ \A s \in Records : req'[s] # "writing"
      <3>1. req[r] = "writing" /\ req' = [req EXCEPT ![r] = "stored"] /\ DOMAIN req = Records
        BY <1>2 DEF Store, TypeOK
      <3>2. \A s \in Records : s # r => s \notin InFlight
        BY <3>1 DEF InFlight, LossInv, OneWriter
      <3> QED
        BY <3>1, <3>2 DEF InFlight
    <2>4. slot[r] < seq + 1
      BY <1>2, <1>f DEF Store, LossInv, OneWriter
    <2>5. OneWriter'
      <3>1. IsFiniteSet(buf')
        BY <2>2, FS_AddElement DEF LossInv, OneWriter
      <3>2. \A e \in buf' : e.seq > 0 /\ e.seq < seq + 1
        <4>1. \A e \in buf : e.seq > 0 /\ e.seq < seq + 1
          BY DEF LossInv, OneWriter, AllBelow
        <4> QED
          BY <2>1, <2>2, <2>4, <4>1
      <3>3. AllBelow(seq + 1)'
        BY <2>0, <3>2 DEF LossInv, OneWriter, AllBelow
      <3>4. \A x, y \in InFlight' : x = y
        BY <2>3 DEF LossInv, OneWriter
      <3> QED
        BY <2>0, <2>3, <3>1, <3>2, <3>3, <3>4 DEF LossInv, OneWriter
    <2>6. DeletableDone'
      <3>1. \A s : Done(s)' = Done(s)
        BY <2>0 DEF Done
      <3>2. /\ ~(new.seq <= hw) /\ ~(new.seq <= lastSealed)
            /\ \A i \in DOMAIN rows : ~(new.seq <= rows[i].bseq)
            /\ \A d \in batch : ~(new.seq <= d.seq)
        <4>1. new.seq = slot[r]
          OBVIOUS
        <4> HIDE DEF new
        <4> QED
          BY <2>1, <1>f, <4>1 DEF AllBelow
      <3> QED
        BY <2>0, <2>2, <3>1, <3>2 DEF LossInv, DeletableDone
    <2>7. Held'
      <3>1. new \in buf' /\ new.rec = r /\ \A e \in buf : e \in buf'
        BY <2>2
      <3>2. ASSUME NEW s \in Records, req'[s] \in {"stored", "acked"}, ~Done(s)
            PROVE  \E e \in buf' : e.rec = s
        <4>1. CASE s = r
          BY <3>1, <4>1
        <4>2. CASE s # r
          <5>1. req[s] \in {"stored", "acked"}
            BY <1>2, <3>2, <4>2 DEF Store, TypeOK
          <5> QED
            BY <3>1, <3>2, <5>1 DEF LossInv, Held
        <4> QED
          BY <4>1, <4>2
      <3> QED
        BY <2>0, <3>2 DEF Held, Done
    <2> QED
      BY <2>5, <2>6, <2>7 DEF LossInv
  <1>3. ASSUME NEW r \in Records, StoreFails(r) \/ Acknowledge(r) PROVE LossInv'
    <2>0. UNCHANGED <<buf, rows, hw, batch, lastSealed, pc, crashes, slot, seq>>
      BY <1>3 DEF StoreFails, Acknowledge, tick, memory
    <2>1. InFlight' \subseteq InFlight /\ \A s \in Records : req'[s] = "writing" => req[s] = "writing"
      BY <1>3 DEF StoreFails, Acknowledge, InFlight, TypeOK
    <2>2. OneWriter'
      BY <2>0, <2>1 DEF LossInv, OneWriter, AllBelow
    <2>3. DeletableDone'
      BY <2>0 DEF LossInv, DeletableDone, Done
    <2>4. Held'
      BY <1>3, <2>0 DEF StoreFails, Acknowledge, LossInv, Held, Done, TypeOK
    <2> QED
      BY <2>2, <2>3, <2>4 DEF LossInv
  <1>4. CASE ReadHighWater
    <2>0. UNCHANGED <<req, slot, seq, buf, rows, batch, lastSealed, crashes>> /\ pc' = "drain"
      BY <1>4 DEF ReadHighWater, memory
    <2>1. hw' = 0 \/ \E i \in DOMAIN rows : hw' = rows[i].bseq
      BY <1>4 DEF ReadHighWater, IsMax, SealedSeqs
    <2>2. OneWriter'
      <3>1. \A n \in Nat : AllBelow(n) => AllBelow(n)'
        <4>1. ASSUME NEW n \in Nat, AllBelow(n) PROVE hw' < n
          BY <2>1, <4>1, <1>f DEF AllBelow
        <4> QED
          BY <2>0, <4>1 DEF AllBelow
      <3> QED
        BY <2>0, <3>1, <1>f, OneWriterKept DEF LossInv, OneWriter
    <2>3. DeletableDone'
      <3>1. \A r : Done(r)' = Done(r)
        BY <2>0 DEF Done
      <3>2. ASSUME NEW e \in buf, e.seq <= hw' PROVE Done(e.rec)
        <4>1. CASE hw' = 0
          BY <4>1, <3>2, <1>f DEF LossInv, OneWriter
        <4>2. CASE \E i \in DOMAIN rows : hw' = rows[i].bseq
          BY <4>2, <3>2 DEF LossInv, DeletableDone
        <4> QED
          BY <2>1, <4>1, <4>2
      <3> QED
        BY <2>0, <3>1, <3>2 DEF LossInv, DeletableDone
    <2>4. Held'
      BY <2>0 DEF LossInv, Held, Done
    <2> QED
      BY <2>2, <2>3, <2>4 DEF LossInv
  <1>5. CASE Drain
    <2>0. /\ UNCHANGED <<req, slot, seq, buf, rows, hw, crashes>>
          /\ batch' = DrainAfter(hw, Batch) /\ lastSealed' = 0 /\ pc' = "seal"
      BY <1>5 DEF Drain, memory
    <2>1. batch' \subseteq buf
      BY <2>0 DEF DrainAfter
    <2>2. OneWriter'
      <3>1. ASSUME NEW n \in Nat, AllBelow(n) PROVE AllBelow(n)'
        <4>1. 0 < n
          BY <3>1, <1>f DEF AllBelow
        <4> QED
          BY <2>0, <2>1, <3>1, <4>1 DEF AllBelow
      <3> QED
        BY <2>0, <3>1, <1>f, OneWriterKept DEF LossInv, OneWriter
    <2>3. \A e \in buf, d \in batch' : hw < e.seq /\ e.seq <= d.seq => e \in batch'
      BY <2>0, <1>f, DrainIsPrefix DEF LossInv, OneWriter, OrderInv
    <2>4. DeletableDone'
      <3>1. \A r : Done(r)' = Done(r)
        BY <2>0 DEF Done
      <3>2. \A e \in buf : ~(e.seq <= 0)
        BY <1>f DEF LossInv, OneWriter
      <3> QED
        BY <2>0, <2>3, <3>1, <3>2 DEF LossInv, DeletableDone
    <2>5. Held'
      BY <2>0 DEF LossInv, Held, Done
    <2> QED
      BY <2>2, <2>4, <2>5 DEF LossInv
  <1>6. ASSUME NEW e \in batch, pc = "seal", IsNext(e), batch' = batch \ {e}, pc' = pc,
               lastSealed' = e.seq, UNCHANGED <<req, slot, seq, buf, hw, crashes>>,
               \A r : Done(r) => Done(r)', Done(e.rec)',
               \A i \in DOMAIN rows' :
                  rows'[i].bseq = e.seq \/ (i \in DOMAIN rows /\ rows'[i] = rows[i])
        PROVE  LossInv'
    <2>1. OneWriter'
      <3>1. ASSUME NEW n \in Nat, AllBelow(n) PROVE AllBelow(n)'
        <4>1. e.seq < n
          BY <3>1 DEF AllBelow
        <4>2. \A i \in DOMAIN rows' : rows'[i].bseq < n
          BY <1>6, <3>1, <4>1 DEF AllBelow
        <4> QED
          BY <1>6, <3>1, <4>1, <4>2 DEF AllBelow
      <3> QED
        BY <1>6, <3>1, <1>f, OneWriterKept DEF LossInv, OneWriter
    <2>2. ASSUME NEW f \in buf, f.seq <= e.seq PROVE Done(f.rec)'
      <3>1. CASE f.seq <= hw
        BY <1>6, <3>1 DEF LossInv, DeletableDone
      <3>2. CASE hw < f.seq /\ f \in batch
        <4>1. f = e
          <5>1. e.seq <= f.seq
            BY <1>6, <3>2 DEF IsNext
          <5>2. f.seq = e.seq
            BY <1>f, <2>2, <5>1
          <5> QED
            BY <3>2, <5>2 DEF OrderInv, KeysUnique
        <4> QED
          BY <1>6, <4>1
      <3>3. CASE hw < f.seq /\ f \notin batch
        BY <1>6, <2>2, <3>3 DEF LossInv, DeletableDone
      <3> QED
        BY <1>f, <3>1, <3>2, <3>3
    <2>3. DeletableDone'
      BY <1>6, <2>2 DEF LossInv, DeletableDone
    <2>4. Held'
      BY <1>6 DEF LossInv, Held
    <2> QED
      BY <2>1, <2>3, <2>4 DEF LossInv
  <1>7. ASSUME NEW e \in batch, SealEntry(e) PROVE LossInv'
    <2>1. rows' = Append(rows, SealedRow(e, lastHash))
      BY <1>7 DEF SealEntry
    <2> QED
      BY <1>6, <1>7, <2>1, DoneStays DEF SealEntry
  <1>8. ASSUME NEW e \in batch, SkipCorrupt(e) PROVE LossInv'
    BY <1>6, <1>8 DEF SkipCorrupt, Done, memory
  <1>9. ASSUME NEW e \in batch, SealLosesAnswer(e) PROVE LossInv'
    <2>0. /\ rows' = Append(rows, SealedRow(e, lastHash)) /\ pc = "seal" /\ pc' = "clean"
          /\ UNCHANGED <<req, slot, seq, buf, hw, batch, lastSealed, crashes>> /\ IsNext(e)
      BY <1>9 DEF SealLosesAnswer, memory
    <2>1. /\ \A r : Done(r) => Done(r)'
          /\ Done(e.rec)'
          /\ \A i \in DOMAIN rows' :
                rows'[i].bseq = e.seq \/ (i \in DOMAIN rows /\ rows'[i] = rows[i])
      BY <2>0, DoneStays
    <2>2. OneWriter'
      <3>1. ASSUME NEW n \in Nat, AllBelow(n) PROVE AllBelow(n)'
        <4>1. \A i \in DOMAIN rows' : rows'[i].bseq < n
          BY <2>1, <3>1 DEF AllBelow
        <4> QED
          BY <2>0, <3>1, <4>1 DEF AllBelow
      <3> QED
        BY <2>0, <3>1, <1>f, OneWriterKept DEF LossInv, OneWriter
    <2>3. ASSUME NEW f \in buf, f.seq <= e.seq PROVE Done(f.rec)'
      <3>1. CASE f.seq <= hw
        BY <2>1, <3>1 DEF LossInv, DeletableDone
      <3>2. CASE hw < f.seq /\ f \in batch
        <4>1. f = e
          <5>1. e.seq <= f.seq
            BY <2>0, <3>2 DEF IsNext
          <5>2. f.seq = e.seq
            BY <1>f, <2>3, <5>1
          <5> QED
            BY <3>2, <5>2 DEF OrderInv, KeysUnique
        <4> QED
          BY <2>1, <4>1
      <3>3. CASE hw < f.seq /\ f \notin batch
        BY <2>0, <2>1, <2>3, <3>3 DEF LossInv, DeletableDone
      <3> QED
        BY <1>f, <3>1, <3>2, <3>3
    <2>4. DeletableDone'
      BY <2>0, <2>1, <2>3 DEF LossInv, DeletableDone
    <2>5. Held'
      BY <2>0, <2>1 DEF LossInv, Held
    <2> QED
      BY <2>2, <2>4, <2>5 DEF LossInv
  <1>10. CASE Clean
    <2>0. /\ UNCHANGED <<req, slot, seq, rows, hw, lastSealed, crashes>> /\ batch' = {} /\ pc' = "idle"
          /\ buf' = {e \in buf : e.seq > CleanThrough} /\ pc = "clean"
      BY <1>10 DEF Clean, memory
    <2>1. \A e \in buf : e \in buf' \/ Done(e.rec)
      <3>1. ASSUME NEW e \in buf, e \notin buf' PROVE Done(e.rec)
        <4>1. e.seq <= lastSealed \/ e.seq <= hw
          BY <2>0, <1>f, <3>1 DEF CleanThrough
        <4> QED
          BY <2>0, <4>1 DEF LossInv, DeletableDone
      <3> QED
        BY <3>1
    <2>2. IsFiniteSet(buf')
      BY <2>0, FS_Subset DEF LossInv, OneWriter
    <2>3. OneWriter'
      <3>1. \A n \in Nat : AllBelow(n) => AllBelow(n)'
        BY <2>0 DEF AllBelow
      <3> QED
        BY <2>0, <2>2, <3>1, <1>f, OneWriterKept DEF LossInv
    <2>4. DeletableDone'
      BY <2>0 DEF LossInv, DeletableDone, Done
    <2>5. Held'
      BY <2>0, <2>1 DEF LossInv, Held, Done
    <2> QED
      BY <2>3, <2>4, <2>5 DEF LossInv
  <1>11. ASSUME UNCHANGED <<req, slot, seq, buf, rows, hw, lastSealed, crashes>>,
                \/ batch' = batch /\ (pc' = pc \/ (pc = "seal" /\ pc' = "clean"))
                \/ batch' = {} /\ pc' = "idle"
         PROVE  LossInv'
    <2>1. OneWriter'
      <3>1. \A n \in Nat : AllBelow(n) => AllBelow(n)'
        BY <1>11 DEF AllBelow
      <3> QED
        BY <1>11, <3>1, <1>f, OneWriterKept DEF LossInv, OneWriter
    <2>2. DeletableDone'
      <3>1. /\ pc' = "seal" => pc = "seal"
            /\ pc' \in {"seal", "clean"} => pc \in {"seal", "clean"}
        BY <1>11
      <3>2. \A r : Done(r)' = Done(r)
        BY <1>11 DEF Done
      <3> QED
        <4>1. ASSUME pc' = "seal", NEW e \in buf, NEW d \in batch', hw < e.seq /\ e.seq <= d.seq
              PROVE  e \in batch' \/ Done(e.rec)
          <5>1. e \in batch \/ Done(e.rec)
            BY <1>11, <3>1, <4>1 DEF LossInv, DeletableDone
          <5> QED
            BY <1>11, <3>1, <4>1, <5>1
        <4> QED
          BY <1>11, <3>1, <3>2, <4>1 DEF LossInv, DeletableDone
    <2>3. Held'
      BY <1>11 DEF LossInv, Held, Done
    <2> QED
      BY <2>1, <2>2, <2>3 DEF LossInv
  <1>12. CASE SealDone \/ CleanFails \/ \E e \in batch : SealFails(e)
    BY <1>11, <1>12 DEF SealDone, CleanFails, SealFails, memory
  <1>13. CASE UNCHANGED vars
    BY <1>11, <1>13 DEF vars
  <1>14. ~Crash
    BY DEF Crash, Serial
  <1> QED
    BY <1>1, <1>2, <1>3, <1>4, <1>5, <1>7, <1>8, <1>9, <1>10, <1>12, <1>13, <1>14
       DEF Next, SealStep

\* A record whose Append returned is never lost when appends do not overlap
\* and the process does not restart (Buffer.Append, Sealer.Tick).
THEOREM NoLossWhenSerial == Spec => []NothingLost
  <1>1. Init => LossInv
    <2> SUFFICES ASSUME Init PROVE LossInv
      OBVIOUS
    <2>1. /\ InFlight = {} /\ AllBelow(seq + 1) /\ \A r \in Records : req[r] = "new"
      BY DEF Init, InFlight, AllBelow
    <2>2. OneWriter
      BY <2>1, FS_EmptySet DEF Init, OneWriter
    <2>3. DeletableDone /\ Held
      BY <2>1 DEF Init, DeletableDone, Held
    <2> QED
      BY <2>2, <2>3 DEF LossInv
  <1>2. Init => OrderInv
    BY DEF Init, OrderInv, SealedInOrder, KeysUnique, TickAhead
  <1>3. (Serial => LossInv) => NothingLost
    BY DEF LossInv, Held, NothingLost, Done, Serial
  <1>4. TypeOK /\ OrderInv /\ (Serial => LossInv) /\ [Next]_vars => (Serial => LossInv)'
    <2>1. [Next]_vars => Serial' = Serial
      BY EventsFixed DEF Serial
    <2> QED
      BY <2>1, LossStep
  <1> QED
    BY <1>1, <1>2, <1>3, <1>4, OrderStep, TypeCorrect, PTL DEF Spec
=============================================================================
