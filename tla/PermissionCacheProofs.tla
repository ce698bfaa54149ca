----------------------- MODULE PermissionCacheProofs ------------------------
(***************************************************************************)
(* The steps of an administrator's change (the tables written, the entries *)
(* in front cleared, the generation moved, rows of the shared cache        *)
(* deleted), the clock and the cleanup keep the invariant, and what        *)
(* follows: the shared cache is fresh and requests are answered from       *)
(* current facts, for every number of users, replicas, calls and failing   *)
(* statements.                                                             *)
(***************************************************************************)
EXTENDS PermissionCacheComputation

USE ZenonT(10), SMTT(30), SMTT(40)

\* Rollback ends the call and gives up its locks.
LEMMA RollbackFacts ==
    ASSUME st \in [Calls -> CallState], NEW c \in Calls, Rollback(c)
    PROVE  /\ st' \in [Calls -> CallState] /\ Others(c) /\ st'[c].pc = "end"
           /\ st'[c].share = st[c].share /\ ~st'[c].counter /\ st'[c].del = {}
           /\ st'[c].owes = st[c].owes /\ SameRead(st'[c], st[c]) /\ SameNotes(st'[c], st[c])
           /\ st'[c].wait = st[c].wait /\ st'[c].fit = st[c].fit
  <1> DEFINE er == Op(c) \in Inline
             no == FALSE
             r == st[c]
             rec == [r EXCEPT !.pc = "end", !.counter = no, !.del = {}, !.err = er]
  <1>0. r \in CallState /\ er \in BOOLEAN /\ no \in BOOLEAN /\ ~no
    OBVIOUS
  <1>3. Set(c, rec)
    BY DEF Rollback
  <1> HIDE DEF er, no, r
  <1>1. rec \in CallState
    BY <1>0, Zenon DEF CallState, Stages
  <1>2. /\ rec.pc = "end" /\ rec.share = r.share /\ ~rec.counter /\ rec.del = {}
        /\ rec.owes = r.owes /\ SameRead(rec, r) /\ SameNotes(rec, r)
        /\ rec.wait = r.wait /\ rec.fit = r.fit
    BY <1>0 DEF CallState, SameRead, SameNotes
  <1> HIDE DEF rec
  <1>4. st' \in [Calls -> CallState] /\ st'[c] = rec /\ Others(c)
    BY <1>1, <1>3, SetFacts
  <1> QED BY <1>2, <1>4 DEF r

\* What each step of an administrator's call does.
LEMMA AfterTypes ==
    ASSUME Types, NEW c \in Calls
    PROVE  MembersAfter(c) \subseteq Users /\ GrantAfter(c) \in Grants /\ Touched(c) \subseteq Users
  <1>1. members \subseteq Users /\ grant \in Grants /\ User(c) \in Users /\ load.calls[c].grant \in Grants
    BY LoadFacts DEF Types
  <1>2. MembersAfter(c) \in {members \cup {User(c)}, members \ {User(c)}, {}, members}
    BY DEF MembersAfter
  <1>3. GrantAfter(c) \in {load.calls[c].grant, "none", grant}
    BY DEF GrantAfter
  <1> QED BY <1>1, <1>2, <1>3 DEF Touched, Grants

\* A transaction that failed: only the call's locks and its end have changed.
Rolled(c) ==
    /\ Others(c) /\ Frozen /\ UNCHANGED <<upper, flight>> /\ Fault /\ st'[c].pc = "end"
    /\ st'[c].share = st[c].share /\ ~st'[c].counter /\ st'[c].del = {} /\ st'[c].owes = st[c].owes
    /\ SameRead(st'[c], st[c]) /\ SameNotes(st'[c], st[c]) /\ st'[c].wait = st[c].wait

\* What changes when a transaction fails.
LEMMA RollbackStep ==
    ASSUME Types, NEW c \in Calls, Rollback(c), Frozen, UNCHANGED <<upper, flight>>
    PROVE  Types' /\ Rolled(c)
  <1>1. /\ Fault /\ st' \in [Calls -> CallState] /\ Others(c) /\ st'[c].pc = "end"
        /\ st'[c].share = st[c].share /\ ~st'[c].counter /\ st'[c].del = {}
        /\ st'[c].owes = st[c].owes
        /\ SameRead(st'[c], st[c]) /\ SameNotes(st'[c], st[c]) /\ st'[c].wait = st[c].wait
    BY RollbackFacts, Zenon DEF Types, Rollback
  <1>2. Types'
    BY <1>1, LightTypes DEF Types, Frozen
  <1> QED BY <1>1, <1>2, Zenon DEF Rolled

\* A change to the tables makes the call owe whatever it disturbs.
LEMMA TouchedFacts ==
    ASSUME Types, NEW c \in Calls, Op(c) \in Separate
    PROVE  /\ \A u \in Users \ Touched(c) : /\ u \in MembersAfter(c) <=> u \in members
                                            /\ u \in members => GrantAfter(c) = grant
           /\ Op(c) = "regrant" => MembersAfter(c) = members /\ Touched(c) \subseteq members
           /\ Op(c) \in UserWrites => Touched(c) \subseteq {User(c)}
           /\ \A u \in MembersAfter(c) \ members : Op(c) = "join" /\ u \in Touched(c)
  <1>1. \A u \in Users \ Touched(c) : /\ u \in MembersAfter(c) <=> u \in members
                                      /\ u \in members => GrantAfter(c) = grant
    BY DEF Touched
  <1>2. Op(c) = "regrant" => MembersAfter(c) = members
    BY DEF MembersAfter
  <1>3. Op(c) = "regrant" => Touched(c) \subseteq members
    BY <1>2 DEF Touched
  <1>4. Op(c) \in UserWrites => Touched(c) \subseteq {User(c)}
    <2>1. Op(c) \in UserWrites => GrantAfter(c) = grant
      BY DEF GrantAfter, UserWrites
    <2>2. Op(c) \in UserWrites =>
            \A u \in Users : u # User(c) => (u \in MembersAfter(c) <=> u \in members)
      BY DEF MembersAfter, UserWrites
    <2> QED BY <2>1, <2>2 DEF Touched
  <1>5. ASSUME NEW u \in MembersAfter(c) \ members
        PROVE  Op(c) = "join" /\ u \in Touched(c)
    <2>1. Op(c) = "join"
      BY DEF MembersAfter
    <2>2. u \in Users
      BY AfterTypes
    <2> QED BY <2>1, <2>2 DEF Touched
  <1> QED BY <1>1, <1>2, <1>3, <1>4, <1>5

\* A step of an administrator's call that changes no table and holds no lock after it.
LEMMA WriterInv ==
    ASSUME Inv, NEW c \in Calls, Types', Others(c), Frozen, Free(st'[c]),
           st'[c].owes = st[c].owes, st'[c].snap <= gen,
           \/ st'[c].pc = "end"
           \/ st'[c].pc = "write" /\ Op(c) \in Separate /\ st'[c].owes = {}
           \/ st'[c].pc = "bump" /\ Op(c) \in UserWrites \cup Inline
           \/ st'[c].pc = "bumpOnly" /\ Op(c) \in GroupWrites \cup OrgWrites \cup {"disband"}
    PROVE  Inv'
  <1>1. CallOK(c) /\ Op(c)' = Op(c) /\ User(c)' = User(c)
    BY Rigid DEF Inv, Frozen
  <1>2. Light(c)
    BY DEF Light, Frozen
  <1>3. CallOK(c)'
    BY <1>1 DEF CallOK, Free, Frozen
  <1>4. ReadOK(c)'
    BY DEF ReadOK
  <1> QED BY <1>2, <1>3, <1>4, LightInv

\* A transaction that fails keeps Inv.
LEMMA RolledInv ==
    ASSUME Inv, NEW c \in Calls, Types', Rolled(c), st[c].pc # "upsert" PROVE Inv'
  <1>1. Types /\ CallOK(c)
    BY DEF Inv
  <1>2. /\ Others(c) /\ Frozen /\ st'[c].pc = "end" /\ st'[c].share = st[c].share /\ ~st'[c].counter
        /\ st'[c].del = {} /\ st'[c].owes = st[c].owes /\ st'[c].snap = st[c].snap
    BY DEF Rolled, SameRead
  <1> USE <1>2
  <1>3. ~st[c].share /\ st'[c].snap <= gen
    BY <1>1 DEF CallOK
  <1>4. Free(st'[c])
    BY <1>3 DEF Free
  <1> QED BY <1>3, <1>4, WriterInv, Zenon

\* A step that moves the generation: no computation under the old one is published.
LEMMA MovedFacts ==
    ASSUME Inv, NEW c \in Calls, Others(c), load' = load, gen' = gen + 1,
           \A d \in Calls : d # c => ~st[d].share /\ ~st[d].counter
    PROVE  \A d \in Calls : d # c => CallOK(d)' /\ ReadOK(d)' /\ SweptBy(d)'
  <1> SUFFICES ASSUME NEW d \in Calls, d # c PROVE CallOK(d)' /\ ReadOK(d)' /\ SweptBy(d)'
    OBVIOUS
  <1>1. CallOK(d) /\ st'[d] = st[d] /\ Op(d)' = Op(d) /\ User(d)' = User(d) /\ gen \in Nat
        /\ st[d].snap \in Nat
    BY Rigid DEF Inv, Others, Types, CallState
  <1> USE <1>1
  <1>2. st[d].pc \notin {"upsert", "commit"} /\ st[d].snap <= gen
    BY DEF CallOK
  <1> USE <1>2
  <1>3. st'[d].snap <= gen' /\ st'[d].snap # gen'
    OBVIOUS
  <1>4. CallOK(d)'
    BY <1>3, Zenon DEF CallOK
  <1>5. ReadOK(d)'
    BY <1>3 DEF ReadOK
  <1>6. SweptBy(d)'
    BY Zenon DEF SweptBy
  <1> QED BY <1>4, <1>5, <1>6

\* A step of an administrator's call keeps Shape.
LEMMA WriterShape ==
    ASSUME Inv, Shape, NEW c \in Calls, Others(c), load' = load, flight' = flight,
           st[c].pc \in Writing, st'[c].pc \in Writing \cup {"end"},
           SameRead(st'[c], st[c]), SameNotes(st'[c], st[c]), st'[c].wait \in {st[c].wait, "none"},
           \A u \in Users : rows'[u] = rows[u] \/ ~rows'[u].some,
           \A p \in Places, u \in Users : upper'[p][u] = upper[p][u] \/ ~upper'[p][u].some
    PROVE  Shape'
  <1>1. ~st[c].done
    BY DEF Shape, ShapeOK, Writing
  <1>2. ShapeOK(c)'
    BY <1>1, ShapeSelf, ZenonT(30) DEF Writing, Reading, SameNotes
  <1>3. WindowOK(c)'
    BY WindowSelf DEF SameRead
  <1> QED BY <1>2, <1>3, ShapeMove DEF Writing, Slotted

\* A transaction that fails keeps Shape.
LEMMA RolledShape ==
    ASSUME Inv, Shape, NEW c \in Calls, Rolled(c), st[c].pc \in Writing
    PROVE  Shape'
  BY WriterShape DEF Rolled, Frozen

\* A step of an administrator's call in a quiet history meets no request under way: only
\* what the caches hold is at stake.
LEMMA CurrentWriter ==
    ASSUME Inv, Shape, Current, NEW c \in Calls, Others(c), load' = load, Writes(c),
           \A d \in Calls : Op(d) \in Reads => ~Active(d),
           Finished(c)' => st'[c].owes = {}, st'[c].pc # "wait",
           \A p \in Places, u \in Users :
               upper'[p][u].some => Sound(u, upper[p][u].perms)' \/ Clearing(u)'
    PROVE  Current'
  <1>0. \A d \in Calls : Op(d)' = Op(d)
    BY Rigid
  <1>1. ASSUME NEW d \in Calls, Op(d) \in Reads
        PROVE  st'[d].fit /\ ~(Active(d) \/ Waited(d))' /\ ~At(d, "grants")'
    <2>0. Op(c) \notin Reads
      BY DEF Writes, Reads, Separate, Inline, UserWrites, GroupWrites, OrgWrites
    <2>1. st'[d] = st[d] /\ ~Active(d)
      BY <1>1, <2>0 DEF Others
    <2>2. ASSUME NEW e \in Calls, st'[e].pc = "wait" PROVE FALSE
      <3>1. CASE e # c
        <4>1. st[e].pc \in Reading
          BY <2>2, <3>1 DEF Others, Reading
        <4> QED BY <4>1, ReadersActive
      <3>2. CASE e = c
        BY <2>2, <3>2
      <3> QED BY <3>1, <3>2
    <2> QED BY <1>1, <2>1, <2>2, ZenonT(30) DEF Current, Active, Waited, At, Begun, Finished
  <1>2. ASSUME NEW d \in Calls, Finished(d)' PROVE st'[d].owes = {}
    BY <1>2 DEF Others, Current, Finished
  <1> QED BY <1>0, <1>1, <1>2, ZenonT(30) DEF Current

\* While an administrator's call runs in a quiet history, no request does.
LEMMA NoRequest ==
    ASSUME Inv, Shape, Quiet, NEW c \in Calls, st[c].pc \in Writing
    PROVE  Writes(c) /\ \A d \in Calls : Op(d) \in Reads => ~Active(d)
  BY WritersActive, NoOverlap

\* The call changes no table, and no entry it was to clear is left.
LEMMA CurrentPlain ==
    ASSUME Inv, Shape, Current, NEW c \in Calls, Others(c), Writes(c),
           UNCHANGED <<load, members, grant, now>>,
           \A d \in Calls : Op(d) \in Reads => ~Active(d),
           Finished(c)' => st'[c].owes = {}, st'[c].pc # "wait",
           \A p \in Places, u \in Users : upper'[p][u] = upper[p][u] \/ ~upper'[p][u].some,
           \A p \in Places, u \in Users :
               At(c, "clear") /\ upper'[p][u].some => Op(c) \notin Inline /\ u \notin st[c].owes
    PROVE  Current'
  <1>1. ASSUME NEW p \in Places, NEW u \in Users, upper'[p][u].some
        PROVE  Sound(u, upper[p][u].perms)' \/ Clearing(u)'
    <2>1. upper'[p][u] = upper[p][u]
      BY <1>1
    <2>2. Sound(u, upper[p][u].perms)' <=> Sound(u, upper[p][u].perms)
      BY <2>1 DEF Sound
    <2>3. Clearing(u) => Clearing(u)'
      <3> SUFFICES ASSUME NEW d \in Calls, At(d, "clear"), Op(d) \in Inline \/ u \in st[d].owes
                   PROVE  Clearing(u)'
        BY DEF Clearing
      <3>1. d # c
        BY <1>1, ZenonT(30)
      <3>2. Op(d)' = Op(d)
        BY Rigid
      <3> QED BY <3>1, <3>2 DEF Others, Clearing, At
    <2> QED BY <1>1, <2>1, <2>2, <2>3, ZenonT(30) DEF Current
  <1> QED BY <1>1, CurrentWriter

\* The invariant is kept when an administrator's call arrives.
LEMMA StartWriteKept == ASSUME Full, NEW c \in Calls, StartWrite(c) PROVE Full'
  <1>0. Inv /\ Shape /\ Types
    BY DEF Full, Inv
  <1> USE <1>0
  <1>1. /\ Types' /\ Others(c) /\ Frozen /\ UNCHANGED <<upper, flight, faults>>
        /\ Op(c) \in Separate \cup Inline /\ st[c].pc = "start"
        /\ st'[c].pc = IF Op(c) \in Separate THEN "write" ELSE "bump"
        /\ ~st'[c].share /\ ~st'[c].counter /\ st'[c].del = {} /\ st'[c].owes = {}
        /\ st'[c].perms = NoPerms /\ st'[c].readAt = 0 /\ st'[c].snap = 0
        /\ ~st'[c].done /\ st'[c].fit /\ st'[c].wait = "none"
        /\ st'[c].before = {d \in Calls : Finished(d)}
    <2> DEFINE p == IF Op(c) \in Separate THEN "write" ELSE "bump"
    <2>1. p \in Stages /\ Begin(c, p)
      BY DEF Stages, StartWrite
    <2>2. /\ Frozen /\ UNCHANGED <<upper, flight, faults>> /\ NoFault
          /\ Op(c) \in Separate \cup Inline /\ st[c].pc = "start"
      BY DEF StartWrite, Frozen, Rest, tables, shared, NoFault, At
    <2> HIDE DEF p
    <2>3. /\ st' \in [Calls -> CallState] /\ Others(c) /\ st'[c].pc = p
          /\ ~st'[c].share /\ ~st'[c].counter /\ st'[c].del = {} /\ st'[c].owes = {}
          /\ st'[c].perms = NoPerms /\ st'[c].readAt = 0 /\ st'[c].snap = 0
          /\ ~st'[c].done /\ st'[c].fit /\ st'[c].wait = "none"
          /\ st'[c].before = {d \in Calls : Finished(d)}
      BY <2>1, BeginFacts, ZenonT(30) DEF Types
    <2>4. Types'
      BY <2>2, <2>3, LightTypes, ZenonT(30) DEF Types, Frozen
    <2> QED BY <2>1, <2>2, <2>3, <2>4 DEF p
  <1>2. Inv'
    <2>1. Types /\ CallOK(c) /\ gen \in Nat
      BY DEF Inv, Types
    <2>2. /\ Types' /\ Others(c) /\ Frozen /\ Op(c) \in Separate \cup Inline /\ st[c].pc = "start"
          /\ st'[c].pc = IF Op(c) \in Separate THEN "write" ELSE "bump"
          /\ ~st'[c].share /\ ~st'[c].counter /\ st'[c].del = {} /\ st'[c].owes = {} /\ st'[c].snap = 0
      BY <2>1, <1>1, ZenonT(30)
    <2>3. Free(st'[c]) /\ st'[c].owes = st[c].owes /\ st'[c].snap <= gen
      BY <2>1, <2>2 DEF Free, CallOK
    <2> QED BY <2>2, <2>3, WriterInv
  <1>3. Shape'
    <2>1. /\ Others(c) /\ Frozen /\ UNCHANGED <<upper, flight>>
          /\ st[c].pc = "start" /\ st'[c].pc \in {"write", "bump"}
          /\ st'[c].perms = NoPerms /\ ~st'[c].done /\ st'[c].wait = "none"
          /\ st'[c].before = {d \in Calls : Finished(d)}
      BY <1>1, ZenonT(30) DEF Inv
    <2> USE <2>1
    <2>2. ShapeOK(c)'
      BY ShapeSelf, ZenonT(30) DEF Frozen, Reading
    <2>3. WindowOK(c)'
      BY DEF WindowOK, NoPerms
    <2> QED BY <2>2, <2>3, ShapeMove, ZenonT(30) DEF Frozen, Slotted
  <1>4. ASSUME Current, Quiet' PROVE Current'
    <2> USE <1>2, <1>3, <1>4
    <2>1. /\ Others(c) /\ Frozen /\ UNCHANGED upper /\ Writes(c) /\ st[c].pc = "start"
          /\ st'[c].pc \in {"write", "bump"}
      BY <1>1, ZenonT(30) DEF Inv, Writes
    <2> USE <2>1
    <2>2. ASSUME NEW d \in Calls, Op(d) \in Reads PROVE ~Active(d)
      <3>1. Op(d)' \in Reads /\ Writes(c)' /\ Active(c)'
        BY <2>2, Rigid, ZenonT(30) DEF Frozen, Writes, Active, Begun, Finished
      <3>2. ~Active(d)'
        <4>1. Apart(d, c)' /\ ShapeOK(c)' /\ ShapeOK(d)'
          BY <3>1, ZenonT(30) DEF Quiet, Shape
        <4> QED BY <3>1, <4>1, ZenonT(30) DEF Apart, ShapeOK, Active
      <3>3. d # c
        BY <2>2 DEF Writes, Reads, Separate, Inline, UserWrites, GroupWrites, OrgWrites
      <3> QED BY <3>2, <3>3, ZenonT(30) DEF Others, Active, Begun, Finished
    <2> QED BY <2>2, CurrentPlain, ZenonT(30) DEF Frozen, Finished, At
  <1>5. Others(c) /\ load' = load /\ NoFault /\ st[c].pc = "start" /\ st'[c].pc \in {"write", "bump"}
    BY <1>1, ZenonT(30) DEF Frozen, NoFault
  <1> QED BY <1>2, <1>3, <1>4, <1>5, FullStep

\* The invariant is kept when the tables are changed on their own.
LEMMA WriteKept == ASSUME Full, NEW c \in Calls, Write(c) PROVE Full'
  <1>0. Inv /\ Shape /\ Types
    BY DEF Full, Inv
  <1> USE <1>0
  <1>1. /\ Types' /\ Others(c) /\ UNCHANGED <<load, gen, rows, now, upper, flight>>
        /\ (Fault \/ NoFault) /\ st[c].pc = "write"
        /\ SameRead(st'[c], st[c]) /\ SameNotes(st'[c], st[c])
        /\ st'[c].share = st[c].share /\ st'[c].counter = st[c].counter /\ st'[c].del = st[c].del
        /\ \/ /\ members' = MembersAfter(c) /\ grant' = GrantAfter(c)
              /\ st'[c].pc = "clear" /\ st'[c].owes = Touched(c) /\ st'[c].wait = st[c].wait
           \/ /\ members' = members /\ grant' = grant /\ st'[c].pc = "end"
              /\ st'[c].owes = st[c].owes /\ st'[c].wait = "none"
    <2>1. /\ st[c].pc = "write" /\ UNCHANGED <<load, gen, rows, now, upper, flight>>
          /\ st \in [Calls -> CallState] /\ "clear" \in Stages /\ (Fault \/ NoFault)
      BY DEF Write, At, Rest, shared, Types, Stages
    <2> USE <2>1
    <2>2. \/ members' = MembersAfter(c) /\ grant' = GrantAfter(c) /\ Set(c, [st[c] EXCEPT !.pc = "clear", !.owes = Touched(c)])
          \/ members' = members /\ grant' = grant /\ AnswerError(c)
      BY DEF Write, tables
    <2>3. MembersAfter(c) \subseteq Users /\ GrantAfter(c) \in Grants /\ Touched(c) \in SUBSET Users
      BY AfterTypes
    <2>4. /\ st' \in [Calls -> CallState] /\ Others(c)
          /\ SameRead(st'[c], st[c]) /\ SameNotes(st'[c], st[c])
          /\ st'[c].share = st[c].share /\ st'[c].counter = st[c].counter /\ st'[c].del = st[c].del
          /\ \/ /\ members' = MembersAfter(c) /\ grant' = GrantAfter(c)
                /\ st'[c].pc = "clear" /\ st'[c].owes = Touched(c) /\ st'[c].wait = st[c].wait
             \/ /\ members' = members /\ grant' = grant /\ st'[c].pc = "end"
                /\ st'[c].owes = st[c].owes /\ st'[c].wait = "none"
      <3>1. CASE members' = MembersAfter(c) /\ grant' = GrantAfter(c) /\ Set(c, [st[c] EXCEPT !.pc = "clear", !.owes = Touched(c)])
        <4> USE <2>3, <3>1
        <4> DEFINE s == st[c]
                   rec == [s EXCEPT !.pc = "clear", !.owes = Touched(c)]
        <4>1. s \in CallState /\ Set(c, rec)
          BY DEF Types
        <4> USE <4>1
        <4> HIDE DEF s
        <4>2. rec \in CallState
          BY Zenon DEF CallState, Stages
        <4>3. /\ rec.pc = "clear" /\ rec.owes = Touched(c) /\ rec.share = s.share
              /\ rec.counter = s.counter /\ rec.del = s.del /\ SameRead(rec, s)
              /\ SameNotes(rec, s) /\ rec.err = s.err /\ rec.fit = s.fit /\ rec.wait = s.wait
          BY DEF CallState, SameRead, SameNotes
        <4> HIDE DEF rec
        <4>4. st' \in [Calls -> CallState] /\ st'[c] = rec /\ Others(c)
          BY <4>2, SetFacts DEF Types
        <4> QED BY <4>3, <4>4 DEF s
      <3>2. CASE members' = members /\ grant' = grant /\ AnswerError(c)
        BY <3>2, AnswerErrorFacts, ZenonT(30) DEF Same
      <3> QED BY <2>2, <3>1, <3>2, ZenonT(30)
    <2> USE <2>4
    <2>5. faults' \in 0..load.faults
      BY LoadFacts DEF Types, Fault, NoFault
    <2>6. members' \subseteq Users /\ grant' \in Grants
      BY <2>3, ZenonT(30) DEF Types
    <2>7. Types'
      BY <2>5, <2>6, ZenonT(30) DEF Types
    <2> QED BY <2>7, ZenonT(30)
  <1>2. Inv'
    <2>1. /\ Types' /\ Others(c) /\ UNCHANGED <<load, gen, rows, now>> /\ st[c].pc = "write"
          /\ SameRead(st'[c], st[c])
          /\ st'[c].share = st[c].share /\ st'[c].counter = st[c].counter /\ st'[c].del = st[c].del
          /\ \/ /\ members' = MembersAfter(c) /\ grant' = GrantAfter(c)
                /\ st'[c].pc = "clear" /\ st'[c].owes = Touched(c)
             \/ /\ members' = members /\ grant' = grant /\ st'[c].pc = "end"
                /\ st'[c].owes = st[c].owes
      BY <1>1, Zenon DEF Inv
    <2>2. Types /\ CallOK(c) /\ Free(st[c])
      BY <2>1, FreeNow, Zenon DEF Inv
    <2>3. /\ ~st'[c].share /\ ~st'[c].counter /\ st'[c].del = {} /\ st'[c].snap <= gen /\ Free(st'[c])
          /\ Op(c) \in Separate /\ st[c].owes = {}
      BY <2>1, <2>2, ZenonT(30) DEF Free, SameRead, CallOK
    <2>4. CASE members' = members /\ grant' = grant /\ st'[c].pc = "end" /\ st'[c].owes = st[c].owes
      BY <2>1, <2>3, <2>4, WriterInv, Zenon DEF Frozen
    <2>5. CASE /\ members' = MembersAfter(c) /\ grant' = GrantAfter(c)
               /\ st'[c].pc = "clear" /\ st'[c].owes = Touched(c)
      <3>1. /\ \A d \in Calls : Op(d)' = Op(d) /\ User(d)' = User(d) /\ User(d) \in Users
            /\ \A d \in Calls : d # c => st'[d] = st[d]
            /\ load' = load /\ gen' = gen /\ rows' = rows /\ now' = now
        BY <2>1, <2>2, Rigid, LoadFacts, Zenon DEF Others, Types
      <3>2. /\ \A u \in Users \ Touched(c) : /\ u \in members' <=> u \in members
                                             /\ u \in members => grant' = grant
            /\ Op(c) = "regrant" => members' = members /\ Touched(c) \subseteq members
            /\ Op(c) \in UserWrites => Touched(c) \subseteq {User(c)}
            /\ \A u \in members' \ members : Op(c) = "join" /\ u \in Touched(c)
        BY <2>2, <2>3, <2>5, TouchedFacts, Zenon
      <3>3. \A u \in Touched(c) : Owing(u)' /\ Pending(u)'
        <4>1. \A u \in Touched(c) : Reaches(c, u)' /\ st'[c].pc # "deleteOnly"
          BY <2>5, <3>1, <3>2, ZenonT(30) DEF Reaches
        <4> QED BY <4>1, ZenonT(30) DEF Owing, Pending
      <3>4. \A u \in Users : Joining(u) => Joining(u)'
        BY <2>3, <3>1, ZenonT(30) DEF Joining
      <3>5. ASSUME NEW u \in Users \ Touched(c)
            PROVE  (Owing(u) => Owing(u)') /\ (Pending(u) => Pending(u)')
        <4>1. \A d \in Calls : Reaches(d, u) => d # c /\ Reaches(d, u)'
          BY <2>3, <3>1, <3>2, ZenonT(30) DEF Reaches
        <4> QED BY <3>1, <4>1, ZenonT(30) DEF Owing, Pending
      <3>6. \A d \in Calls : CallOK(d)'
        <4>1. CallOK(c)'
          BY <2>1, <2>2, <2>3, <2>5, <3>1, <3>2, Zenon DEF CallOK
        <4>2. ASSUME NEW d \in Calls, d # c PROVE CallOK(d)'
          BY <3>1, <4>2, Zenon DEF Inv, CallOK
        <4> QED BY <4>1, <4>2
      <3>7. \A d \in Calls : SweptBy(d)'
        <4>1. SweptBy(c)'
          BY <2>5, ZenonT(30) DEF SweptBy
        <4>2. ASSUME NEW d \in Calls, d # c PROVE SweptBy(d)'
          <5>1. SweptBy(d)
            BY DEF Inv
          <5>2. \A u \in members' \ members : Joining(u)'
            BY <2>5, <3>1, <3>2, ZenonT(30) DEF Joining
          <5>3. \A u \in members : u \in Users
            BY <2>2, ZenonT(30) DEF Types
          <5> QED BY <3>1, <3>4, <4>2, <5>1, <5>2, <5>3, ZenonT(30) DEF SweptBy
        <4> QED BY <4>1, <4>2
      <3>8. \A d \in Calls : ReadOK(d)'
        <4> USE <3>1
        <4>1. ReadOK(c)'
          BY <2>5, ZenonT(30) DEF ReadOK
        <4>2. ASSUME NEW d \in Calls, d # c PROVE ReadOK(d)'
          <5>1. CASE User(d) \in Touched(c)
            BY <3>3, <5>1, ZenonT(30) DEF ReadOK
          <5>2. CASE User(d) \notin Touched(c)
            <6>1. ReadOK(d) /\ User(d) \in Users \ Touched(c)
              BY <5>2, ZenonT(30) DEF Inv
            <6> USE <6>1
            <6>2. Right(User(d), st[d].perms) => Right(User(d), st[d].perms)'
              BY <3>2, <4>2, ZenonT(30) DEF Right
            <6>3. (Pending(User(d)) => Pending(User(d))') /\ (User(d) \in members => User(d)' \in members')
              BY <3>2, <3>5
            <6> QED BY <4>2, <6>2, <6>3, ZenonT(30) DEF ReadOK
          <5> QED BY <5>1, <5>2, ZenonT(30)
        <4> QED BY <4>1, <4>2, ZenonT(30)
      <3>9. Exclusive'
        BY <2>3, <3>1 DEF Inv, Exclusive
      <3>10. ASSUME NEW u \in Users PROVE RowOK(u)'
        <4> USE <3>1
        <4>1. RowOK(u)
          BY DEF Inv
        <4>2. CASE u \in Touched(c)
          BY <3>3, <4>1, <4>2 DEF RowOK
        <4>3. CASE u \notin Touched(c)
          <5>1. Right(u, rows[u].perms) => Right(u, rows[u].perms)'
            BY <3>2, <4>3 DEF Right
          <5> QED BY <3>5, <4>1, <4>3, <5>1 DEF RowOK
        <4> QED BY <4>2, <4>3
      <3> QED BY <2>1, <3>6, <3>7, <3>8, <3>9, <3>10, Zenon DEF Inv
    <2> QED BY <2>1, <2>4, <2>5, ZenonT(30)
  <1>3. Shape'
    <2>1. /\ Others(c) /\ UNCHANGED <<load, rows, upper, flight>> /\ st[c].pc = "write"
          /\ SameRead(st'[c], st[c]) /\ SameNotes(st'[c], st[c]) /\ st'[c].pc \in {"clear", "end"}
          /\ st'[c].wait \in {st[c].wait, "none"}
      BY <1>1 DEF Inv
    <2> QED BY <2>1, WriterShape DEF Writing
  <1>4. ASSUME Quiet, Current PROVE Current'
    <2> USE <1>4
    <2> DEFINE Done == /\ members' = MembersAfter(c) /\ grant' = GrantAfter(c)
                       /\ st'[c].pc = "clear" /\ st'[c].owes = Touched(c)
               Refused == /\ members' = members /\ grant' = grant /\ st'[c].pc = "end"
                          /\ st'[c].owes = st[c].owes
    <2>1. /\ Others(c) /\ UNCHANGED <<load, now, upper>> /\ st[c].pc = "write" /\ (Done \/ Refused)
      BY <1>1 DEF Inv
    <2> USE <2>1
    <2>2. Writes(c) /\ \A d \in Calls : Op(d) \in Reads => ~Active(d)
      BY NoRequest DEF Writing
    <2>3. CallOK(c) /\ Op(c) \in Separate /\ st[c].owes = {}
      BY DEF Inv, CallOK
    <2>4. CASE Refused
      BY <2>2, <2>3, <2>4, CurrentPlain DEF At
    <2>5. CASE Done
      <3>1. ASSUME NEW p \in Places, NEW u \in Users, upper'[p][u].some
            PROVE  Sound(u, upper[p][u].perms)' \/ Clearing(u)'
        <4>1. CASE u \in Touched(c)
          BY <2>5, <4>1 DEF Clearing, At
        <4>2. CASE u \notin Touched(c) /\ Clearing(u)
          <5>1. PICK d \in Calls : At(d, "clear") /\ (Op(d) \in Inline \/ u \in st[d].owes)
            BY <4>2 DEF Clearing
          <5>2. d # c /\ Op(d)' = Op(d)
            BY <5>1, Rigid DEF At
          <5> QED BY <5>1, <5>2 DEF Others, Clearing, At
        <4>3. CASE u \notin Touched(c) /\ ~Clearing(u)
          <5>1. /\ u \in members' <=> u \in members
                /\ u \in members => grant' = grant
            <6>1. Types
              BY DEF Inv
            <6> QED BY <2>3, <2>5, <4>3, <6>1, TouchedFacts
          <5>2. Sound(u, upper[p][u].perms)
            BY <3>1, <4>3, Zenon DEF Current
          <5> QED BY <5>1, <5>2 DEF Sound, Coded
        <4> QED BY <4>1, <4>2, <4>3
      <3> QED BY <2>2, <2>5, <3>1, CurrentWriter DEF Finished
    <2> QED BY <2>4, <2>5
  <1>5. Others(c) /\ load' = load /\ (Fault \/ NoFault) /\ st'[c].before = st[c].before
        /\ st'[c].pc \in {"clear", "end"}
    BY <1>1 DEF SameNotes
  <1> QED BY <1>2, <1>3, <1>4, <1>5, FullStep, ZenonT(30)

\* The invariant is kept when the cache in front is cleared (InvalidateUser, InvalidateOrg, InvalidateGroup).
LEMMA ClearUpperKept == ASSUME Full, NEW c \in Calls, ClearUpper(c) PROVE Full'
  <1>0. Inv /\ Shape /\ Types
    BY DEF Full, Inv
  <1> USE <1>0
  <1>1. /\ Types' /\ Others(c) /\ Frozen /\ UNCHANGED flight /\ (Fault \/ NoFault)
        /\ st[c].pc = "clear" /\ Same(st'[c], st[c]) /\ SameRead(st'[c], st[c])
        /\ SameNotes(st'[c], st[c]) /\ st'[c].wait \in {st[c].wait, "none"}
        /\ \/ Op(c) \in Inline \ {"disband"} /\ st'[c].pc = "end"
           \/ Op(c) \in UserWrites /\ st'[c].pc = "bump"
           \/ Op(c) \notin (Inline \ {"disband"}) \cup UserWrites /\ st'[c].pc = "bumpOnly"
        /\ \A p \in Places, u \in Users : upper'[p][u] = upper[p][u] \/ ~upper'[p][u].some
        /\ Fault \/ \A u \in Cleared(c) : ~upper'[Place(c)][u].some
    <2>1. /\ st[c].pc = "clear" /\ Frozen /\ UNCHANGED flight /\ (Fault \/ NoFault)
          /\ st \in [Calls -> CallState] /\ "bump" \in Stages /\ "bumpOnly" \in Stages
          /\ st[c] \in CallState /\ upper \in [Places -> [Users -> EntryType]]
      BY DEF ClearUpper, At, Frozen, Rest, tables, shared, Types, Stages
    <2>2. \/ Op(c) \in Inline \ {"disband"} /\ Answer(c, st[c])
          \/ Op(c) \in UserWrites /\ Goto(c, "bump")
          \/ Op(c) \notin (Inline \ {"disband"}) \cup UserWrites /\ Goto(c, "bumpOnly")
      BY DEF ClearUpper
    <2>3. /\ st' \in [Calls -> CallState] /\ Others(c) /\ Same(st'[c], st[c])
          /\ SameRead(st'[c], st[c]) /\ SameNotes(st'[c], st[c]) /\ st'[c].wait \in {st[c].wait, "none"}
          /\ \/ Op(c) \in Inline \ {"disband"} /\ st'[c].pc = "end"
             \/ Op(c) \in UserWrites /\ st'[c].pc = "bump"
             \/ Op(c) \notin (Inline \ {"disband"}) \cup UserWrites /\ st'[c].pc = "bumpOnly"
      <3> USE <2>1
      <3>1. CASE Op(c) \in Inline \ {"disband"} /\ Answer(c, st[c])
        BY <3>1, AnswerFacts
      <3>2. CASE Op(c) \in UserWrites /\ Goto(c, "bump")
        BY <3>2, GotoFacts
      <3>3. CASE Op(c) \notin (Inline \ {"disband"}) \cup UserWrites /\ Goto(c, "bumpOnly")
        BY <3>3, GotoFacts
      <3> QED BY <2>2, <3>1, <3>2, <3>3, Zenon
    <2> DEFINE Goal == /\ upper' \in [Places -> [Users -> EntryType]]
                       /\ \A p \in Places, u \in Users : upper'[p][u] = upper[p][u] \/ ~upper'[p][u].some
                       /\ Fault \/ \A u \in Cleared(c) : ~upper'[Place(c)][u].some
    <2>4. Goal
      <3>1. CASE Fault /\ upper' = upper
        BY <2>1, <3>1
      <3>2. CASE upper' = [upper EXCEPT ![Place(c)] =
                              [u \in Users |-> IF u \in Cleared(c) THEN NoEntry ELSE @[u]]]
        <4> DEFINE new == [u \in Users |-> IF u \in Cleared(c) THEN NoEntry ELSE upper[Place(c)][u]]
        <4>1. NoEntry \in EntryType /\ ~NoEntry.some
          BY DEF NoEntry, EntryType, NoPerms, PermsType, Grants
        <4>2. Place(c) \in Places /\ Cleared(c) \subseteq Users
          BY LoadFacts DEF Types, Cleared
        <4> USE <4>2
        <4>3. /\ new \in [Users -> EntryType]
              /\ \A u \in Users : new[u] = upper[Place(c)][u] \/ ~new[u].some
              /\ \A u \in Cleared(c) : ~new[u].some
          BY <2>1, <4>1
        <4>4. upper' = [upper EXCEPT ![Place(c)] = new]
          BY <3>2
        <4> HIDE DEF new
        <4>5. /\ upper' \in [Places -> [Users -> EntryType]] /\ upper'[Place(c)] = new
              /\ \A p \in Places : p # Place(c) => upper'[p] = upper[p]
          BY <2>1, <4>3, <4>4
        <4> QED BY <4>3, <4>5
      <3>3. \/ Fault /\ upper' = upper
            \/ upper' = [upper EXCEPT ![Place(c)] =
                            [u \in Users |-> IF u \in Cleared(c) THEN NoEntry ELSE @[u]]]
        BY DEF ClearUpper
      <3> QED BY <3>1, <3>2, <3>3
    <2>5. Types'
      BY <2>1, <2>3, <2>4, LightTypes DEF Types, Frozen
    <2> QED BY <2>1, <2>3, <2>4, <2>5
  <1>2. Inv'
    <2>1. Types /\ CallOK(c)
      BY DEF Inv
    <2> USE <2>1
    <2>2. /\ Types' /\ Others(c) /\ Frozen /\ st[c].pc = "clear" /\ Same(st'[c], st[c])
          /\ st'[c].snap = st[c].snap
          /\ \/ Op(c) \in Inline \ {"disband"} /\ st'[c].pc = "end"
             \/ Op(c) \in UserWrites /\ st'[c].pc = "bump"
             \/ Op(c) \notin (Inline \ {"disband"}) \cup UserWrites /\ st'[c].pc = "bumpOnly"
      BY <1>1 DEF SameRead
    <2> USE <2>2
    <2>3. Free(st'[c]) /\ st'[c].owes = st[c].owes /\ st'[c].snap <= gen
      <3>1. Free(st[c])
        BY FreeNow
      <3> QED BY <3>1 DEF Free, Same, CallOK
    <2>4. Op(c) \in Separate \cup Inline
      BY DEF CallOK
    <2> QED BY <2>3, <2>4, WriterInv, Zenon DEF Separate
  <1>3. Shape'
    <2>1. /\ Others(c) /\ Frozen /\ UNCHANGED flight /\ st[c].pc = "clear"
          /\ SameRead(st'[c], st[c]) /\ SameNotes(st'[c], st[c])
          /\ st'[c].pc \in {"end", "bump", "bumpOnly"} /\ st'[c].wait \in {st[c].wait, "none"}
          /\ \A p \in Places, u \in Users : upper'[p][u] = upper[p][u] \/ ~upper'[p][u].some
      BY <1>1 DEF Inv
    <2> QED BY <2>1, WriterShape DEF Writing, Frozen
  <1>4. ASSUME Quiet, Current, ~Fault PROVE Current'
    <2> USE <1>2, <1>4
    <2>1. /\ Others(c) /\ Frozen /\ st[c].pc = "clear" /\ st'[c].owes = st[c].owes
          /\ \/ Op(c) \in Inline /\ st'[c].pc = "end"
             \/ st'[c].pc \in {"bump", "bumpOnly"}
          /\ \A p \in Places, u \in Users : upper'[p][u] = upper[p][u] \/ ~upper'[p][u].some
          /\ \A u \in Cleared(c) : ~upper'[Place(c)][u].some
      BY <1>1, Zenon DEF Inv, Same
    <2>2. Writes(c) /\ Active(c) /\ \A d \in Calls : Op(d) \in Reads => ~Active(d)
      BY <2>1, NoRequest, WritersActive DEF Writing
    <2>3. CallOK(c)
      BY DEF Inv
    <2>4. Op(c) \in Inline => st[c].owes = {} /\ Op(c) \notin UserWrites
      BY <2>3 DEF CallOK, Separate, Inline, UserWrites, GroupWrites, OrgWrites
    <2>5. ASSUME NEW p \in Places, NEW u \in Users, upper'[p][u].some
          PROVE  Op(c) \notin Inline /\ u \notin st[c].owes
      <3>1. PICK d \in Calls : Begun(d) /\ Place(d) = p
        BY <2>1, <2>5, Zenon DEF Shape, UpperOK
      <3>2. p = Place(c)
        BY <2>2, <3>1 DEF Quiet, Active
      <3>3. u \notin Cleared(c)
        BY <2>1, <2>5, <3>2
      <3>4. Op(c) \in UserWrites /\ u # User(c)
        BY <3>3 DEF Cleared
      <3> QED BY <2>3, <2>4, <3>4 DEF CallOK
    <2>6. Finished(c)' => st'[c].owes = {}
      BY <2>1, <2>4 DEF Finished
    <2> QED BY <2>1, <2>2, <2>5, <2>6, CurrentPlain DEF Frozen
  <1>5. Others(c) /\ load' = load /\ (Fault \/ NoFault) /\ st'[c].before = st[c].before
        /\ st'[c].pc \in {"bump", "bumpOnly", "end"}
    BY <1>1 DEF Frozen, SameNotes
  <1> QED BY <1>2, <1>3, <1>4, <1>5, FullStep

\* The invariant is kept when the generation moves inside a transaction (bumpCacheGeneration).
LEMMA BumpKept == ASSUME Full, NEW c \in Calls, Bump(c) PROVE Full'
  <1>0. Inv /\ Shape /\ Types
    BY DEF Full, Inv
  <1> USE <1>0
  <1>1. /\ Types' /\ st[c].pc = "bump"
        /\ \/ Rolled(c)
           \/ /\ Others(c) /\ Frozen /\ UNCHANGED <<upper, flight, faults>>
              /\ Sharers = {} /\ Counting = {} /\ st'[c].pc = "delete"
              /\ st'[c].counter /\ st'[c].share = st[c].share /\ st'[c].del = st[c].del
              /\ st'[c].owes = st[c].owes
              /\ SameRead(st'[c], st[c]) /\ SameNotes(st'[c], st[c]) /\ SameEnd(st'[c], st[c])
    <2>1. /\ st[c].pc = "bump" /\ Frozen /\ UNCHANGED <<upper, flight>>
          /\ st \in [Calls -> CallState] /\ "delete" \in Stages
      BY DEF Bump, At, Frozen, Rest, tables, shared, Types, Stages
    <2> USE <2>1
    <2>2. CASE Rollback(c)
      BY <2>2, RollbackStep, Zenon
    <2>3. CASE Sharers = {} /\ Counting = {} /\ NoFault /\ Set(c, [st[c] EXCEPT !.pc = "delete", !.counter = TRUE])
      <3> USE <2>3
      <3>1. /\ st' \in [Calls -> CallState] /\ Others(c) /\ st'[c].pc = "delete"
            /\ st'[c].counter /\ st'[c].share = st[c].share /\ st'[c].del = st[c].del
            /\ st'[c].owes = st[c].owes
            /\ SameRead(st'[c], st[c]) /\ SameNotes(st'[c], st[c]) /\ SameEnd(st'[c], st[c])
        <4> DEFINE s == st[c]
                   yes == TRUE
                   rec == [s EXCEPT !.pc = "delete", !.counter = yes]
        <4>1. s \in CallState /\ Set(c, rec) /\ yes \in BOOLEAN /\ yes
          BY DEF Types
        <4> USE <4>1
        <4> HIDE DEF s, yes
        <4>2. rec \in CallState
          BY Zenon DEF CallState, Stages
        <4>3. /\ rec.pc = "delete" /\ rec.counter /\ rec.share = s.share /\ rec.del = s.del
              /\ rec.owes = s.owes /\ SameRead(rec, s) /\ SameNotes(rec, s) /\ rec.err = s.err
              /\ rec.fit = s.fit /\ rec.wait = s.wait
          BY DEF CallState, SameRead, SameNotes
        <4> HIDE DEF rec
        <4>4. st' \in [Calls -> CallState] /\ st'[c] = rec /\ Others(c)
          BY <4>2, SetFacts DEF Types
        <4> QED BY <4>3, <4>4 DEF s, SameEnd
      <3>2. Types'
        BY <3>1, LightTypes DEF Types, Frozen
      <3> QED BY <3>1, <3>2 DEF NoFault
    <2> QED BY <2>2, <2>3 DEF Bump
  <1>2. Inv'
    <2>1. /\ Types' /\ st[c].pc = "bump"
          /\ \/ Rolled(c)
             \/ /\ Others(c) /\ Frozen /\ Sharers = {} /\ Counting = {} /\ st'[c].pc = "delete"
                /\ st'[c].counter /\ st'[c].share = st[c].share /\ st'[c].del = st[c].del
                /\ st'[c].owes = st[c].owes /\ SameRead(st'[c], st[c])
      BY <1>1, Zenon DEF Inv
    <2>2. CASE Rolled(c)
      BY <2>1, <2>2, RolledInv
    <2>3. CASE /\ Others(c) /\ Frozen /\ Sharers = {} /\ Counting = {} /\ st'[c].pc = "delete"
               /\ st'[c].counter /\ st'[c].share = st[c].share /\ st'[c].del = st[c].del
               /\ st'[c].owes = st[c].owes /\ SameRead(st'[c], st[c])
      <3> USE <2>3
      <3>1. CallOK(c) /\ Free(st[c]) /\ Op(c)' = Op(c) /\ User(c)' = User(c)
            /\ UNCHANGED <<load, members, grant, gen, rows, now>>
        BY <2>1, FreeNow, Rigid, Zenon DEF Inv, Frozen
      <3>2. CallOK(c)'
        <4>1. ~st'[c].share /\ st'[c].del = {} /\ st'[c].snap <= gen' /\ Op(c) \in UserWrites \cup Inline
          BY <2>1, <3>1 DEF Free, SameRead, CallOK
        <4> QED BY <3>1, <4>1, Zenon DEF CallOK
      <3>3. ReadOK(c)' /\ SweptBy(c)'
        BY Zenon DEF ReadOK, SweptBy
      <3>4. Exclusive'
        <4>1. \A d \in Calls : ~st[d].share /\ ~st[d].counter
          BY DEF Sharers, Counting
        <4>2. \A d \in Calls : ~st'[d].share /\ (st'[d].counter => d = c)
          BY <4>1 DEF Others
        <4> QED BY <4>2 DEF Exclusive
      <3> QED BY <2>1, <3>1, <3>2, <3>3, <3>4, SteadyInv, Zenon
    <2> QED BY <2>1, <2>2, <2>3
  <1>3. Shape'
    <2>1. /\ st[c].pc = "bump"
          /\ \/ Rolled(c)
             \/ /\ Others(c) /\ Frozen /\ UNCHANGED <<upper, flight>> /\ st'[c].pc = "delete"
                /\ SameRead(st'[c], st[c]) /\ SameNotes(st'[c], st[c]) /\ st'[c].wait = st[c].wait
      BY <1>1 DEF Inv, SameEnd
    <2> QED BY <2>1, WriterShape, RolledShape DEF Writing, Frozen
  <1>4. ASSUME Quiet, Current, ~Fault PROVE Current'
    <2> USE <1>4
    <2>1. /\ Others(c) /\ Frozen /\ UNCHANGED upper /\ st[c].pc = "bump" /\ st'[c].pc = "delete"
      BY <1>1 DEF Inv, Rolled
    <2>2. Writes(c) /\ \A d \in Calls : Op(d) \in Reads => ~Active(d)
      BY <2>1, NoRequest DEF Writing
    <2> QED BY <2>1, <2>2, CurrentPlain DEF Frozen, Finished, At
  <1>5. Others(c) /\ load' = load /\ (Fault \/ NoFault) /\ st'[c].before = st[c].before
        /\ st'[c].pc \in {"delete", "end"}
    BY <1>1 DEF Rolled, Frozen, NoFault, SameNotes
  <1> QED BY <1>2, <1>3, <1>4, <1>5, FullStep

\* The invariant is kept when the rows are deleted inside a transaction.
LEMMA DeleteRowsKept == ASSUME Full, NEW c \in Calls, DeleteRows(c) PROVE Full'
  <1>0. Inv /\ Shape /\ Types
    BY DEF Full, Inv
  <1> USE <1>0
  <1>1. /\ Types' /\ st[c].pc = "delete"
        /\ \/ Rolled(c)
           \/ /\ Others(c) /\ Frozen /\ UNCHANGED <<upper, flight, faults>>
              /\ st'[c].pc = "commit" /\ st'[c].del = Doomed(c)
              /\ st'[c].share = st[c].share /\ st'[c].counter = st[c].counter
              /\ st'[c].owes = st[c].owes
              /\ SameRead(st'[c], st[c]) /\ SameNotes(st'[c], st[c]) /\ SameEnd(st'[c], st[c])
    <2>1. /\ st[c].pc = "delete" /\ Frozen /\ UNCHANGED <<upper, flight>>
          /\ st \in [Calls -> CallState] /\ "commit" \in Stages
      BY DEF DeleteRows, At, Frozen, Rest, tables, shared, Types, Stages
    <2>2. CASE Rollback(c)
      BY <2>1, <2>2, RollbackStep
    <2>3. CASE NoFault /\ Set(c, [st[c] EXCEPT !.pc = "commit", !.del = Doomed(c)])
      <3> USE <2>1, <2>3
      <3>1. Doomed(c) \in SUBSET Users
        <4>1. members \subseteq Users /\ User(c) \in Users
          BY LoadFacts DEF Types
        <4>2. Scope(c) \in {{User(c)}, members, Users}
          BY DEF Scope
        <4> QED BY <4>1, <4>2 DEF Doomed
      <3>2. /\ st' \in [Calls -> CallState] /\ Others(c) /\ st'[c].pc = "commit"
            /\ st'[c].del = Doomed(c) /\ st'[c].share = st[c].share /\ st'[c].counter = st[c].counter
            /\ st'[c].owes = st[c].owes
            /\ SameRead(st'[c], st[c]) /\ SameNotes(st'[c], st[c]) /\ SameEnd(st'[c], st[c])
        <4> USE <3>1
        <4> DEFINE s == st[c]
                   rec == [s EXCEPT !.pc = "commit", !.del = Doomed(c)]
        <4>1. s \in CallState /\ Set(c, rec)
          BY DEF Types
        <4> USE <4>1
        <4> HIDE DEF s
        <4>2. rec \in CallState
          BY Zenon DEF CallState, Stages
        <4>3. /\ rec.pc = "commit" /\ rec.del = Doomed(c) /\ rec.share = s.share
              /\ rec.counter = s.counter /\ rec.owes = s.owes /\ SameRead(rec, s)
              /\ SameNotes(rec, s) /\ rec.err = s.err /\ rec.fit = s.fit /\ rec.wait = s.wait
          BY DEF CallState, SameRead, SameNotes
        <4> HIDE DEF rec
        <4>4. st' \in [Calls -> CallState] /\ st'[c] = rec /\ Others(c)
          BY <4>2, SetFacts DEF Types
        <4> QED BY <4>3, <4>4 DEF s, SameEnd
      <3>3. Types'
        BY <3>2, LightTypes DEF Types, Frozen
      <3> QED BY <3>2, <3>3 DEF NoFault
    <2> QED BY <2>2, <2>3 DEF DeleteRows
  <1>2. Inv'
    <2>1. /\ Types' /\ st[c].pc = "delete"
          /\ \/ Rolled(c)
             \/ /\ Others(c) /\ Frozen /\ st'[c].pc = "commit" /\ st'[c].del = Doomed(c)
                /\ st'[c].share = st[c].share /\ st'[c].counter = st[c].counter
                /\ st'[c].owes = st[c].owes /\ SameRead(st'[c], st[c])
      BY <1>1, Zenon DEF Inv
    <2>2. CASE Rolled(c)
      BY <2>1, <2>2, RolledInv
    <2>3. CASE /\ Others(c) /\ Frozen /\ st'[c].pc = "commit" /\ st'[c].del = Doomed(c)
               /\ st'[c].share = st[c].share /\ st'[c].counter = st[c].counter
               /\ st'[c].owes = st[c].owes /\ SameRead(st'[c], st[c])
      <3> USE <2>3
      <3>1. CallOK(c) /\ Op(c)' = Op(c) /\ User(c)' = User(c) /\ User(c) \in Users
            /\ UNCHANGED <<load, members, grant, gen, rows, now>> /\ members \subseteq Users
        BY Rigid, LoadFacts, Zenon DEF Inv, Frozen, Types
      <3>2. CallOK(c)'
        <4>1. /\ ~st'[c].share /\ st'[c].counter /\ st'[c].snap <= gen'
              /\ Op(c) \in UserWrites \cup Inline
          BY <2>1, <3>1, Zenon DEF SameRead, CallOK
        <4> QED BY <3>1, <4>1, Zenon DEF CallOK
      <3>3. ReadOK(c)'
        BY Zenon DEF ReadOK
      <3>4. SweptBy(c)'
        <4>1. Op(c) \in UserWrites => Scope(c) = {User(c)}
          BY DEF Scope, UserWrites
        <4>2. Op(c) \in {"unshare", "dissolve"} => Scope(c) = members
          BY DEF Scope, UserWrites
        <4>3. Op(c) \in {"drop", "disband"} => Scope(c) = Users
          BY DEF Scope, UserWrites
        <4> QED BY <3>1, <4>1, <4>2, <4>3 DEF SweptBy, Doomed
      <3>5. Exclusive'
        BY Zenon DEF Inv, Exclusive, Others
      <3> QED BY <2>1, <3>1, <3>2, <3>3, <3>4, <3>5, SteadyInv, Zenon
    <2> QED BY <2>1, <2>2, <2>3
  <1>3. Shape'
    <2>1. /\ st[c].pc = "delete"
          /\ \/ Rolled(c)
             \/ /\ Others(c) /\ Frozen /\ UNCHANGED <<upper, flight>> /\ st'[c].pc = "commit"
                /\ SameRead(st'[c], st[c]) /\ SameNotes(st'[c], st[c]) /\ st'[c].wait = st[c].wait
      BY <1>1, Zenon DEF Inv, SameEnd
    <2> QED BY <2>1, WriterShape, RolledShape DEF Writing, Frozen
  <1>4. ASSUME Quiet, Current, ~Fault PROVE Current'
    <2> USE <1>4
    <2>1. /\ Others(c) /\ Frozen /\ UNCHANGED upper /\ st[c].pc = "delete" /\ st'[c].pc = "commit"
      BY <1>1, Zenon DEF Inv, Rolled
    <2>2. Writes(c) /\ \A d \in Calls : Op(d) \in Reads => ~Active(d)
      BY <2>1, NoRequest DEF Writing
    <2> QED BY <2>1, <2>2, CurrentPlain, Zenon DEF Frozen, Finished, At
  <1>5. Others(c) /\ load' = load /\ (Fault \/ NoFault) /\ st'[c].before = st[c].before
        /\ st'[c].pc \in {"commit", "end"}
    BY <1>1 DEF Rolled, Frozen, NoFault, SameNotes
  <1> QED BY <1>2, <1>3, <1>4, <1>5, FullStep

\* The invariant is kept when the transaction commits.
LEMMA CommitKept == ASSUME Full, NEW c \in Calls, Commit(c) PROVE Full'
  <1>0. Inv /\ Shape /\ Types
    BY DEF Full, Inv
  <1> USE <1>0
  <1>1. /\ Types' /\ st[c].pc = "commit"
        /\ \/ Rolled(c)
           \/ /\ Others(c) /\ UNCHANGED <<load, now, upper, flight, faults>>
              /\ gen' = gen + 1
              /\ rows' = [u \in Users |-> IF u \in st[c].del THEN NoEntry ELSE rows[u]]
              /\ st'[c].share = st[c].share /\ ~st'[c].counter /\ st'[c].del = {}
              /\ st'[c].owes = {} /\ SameRead(st'[c], st[c]) /\ SameNotes(st'[c], st[c])
              /\ st'[c].wait \in {st[c].wait, "none"}
              /\ \/ /\ Op(c) \in Inline /\ st'[c].pc = "clear"
                    /\ members' = MembersAfter(c) /\ grant' = GrantAfter(c)
                 \/ /\ Op(c) \notin Inline /\ st'[c].pc = "end"
                    /\ members' = members /\ grant' = grant
    <2>1. /\ st[c].pc = "commit" /\ UNCHANGED <<load, now, upper, flight>>
          /\ st \in [Calls -> CallState] /\ gen \in Nat /\ rows \in [Users -> EntryType]
      BY DEF Commit, At, Rest, Types
    <2>2. CASE Rollback(c) /\ UNCHANGED <<tables, shared>>
      BY <2>1, <2>2, RollbackStep, Zenon DEF tables, shared, Frozen
    <2> DEFINE r == st[c]
               no == FALSE
               nil == {}
               rec == [r EXCEPT !.counter = no, !.del = nil, !.owes = nil]
               fin == [rec EXCEPT !.pc = "clear"]
               new == [u \in Users |-> IF u \in st[c].del THEN NoEntry ELSE rows[u]]
    <2>3. \/ Rollback(c) /\ UNCHANGED <<tables, shared>>
          \/ /\ NoFault /\ gen' = gen + 1 /\ rows' = new
             /\ \/ /\ Op(c) \in Inline /\ members' = MembersAfter(c) /\ grant' = GrantAfter(c)
                   /\ Set(c, fin)
                \/ Op(c) \notin Inline /\ members' = members /\ grant' = grant /\ Answer(c, rec)
      BY DEF Commit, tables
    <2>4. ~no /\ no \in BOOLEAN /\ nil \in SUBSET Users /\ r \in CallState /\ nil = {}
      BY <2>1
    <2>5. new \in [Users -> EntryType]
      <3>1. NoEntry \in EntryType
        BY DEF NoEntry, EntryType, NoPerms, PermsType, Grants
      <3> QED BY <2>1, <3>1
    <2> HIDE DEF r, no, nil, new
    <2>6. /\ rec \in CallState /\ rec.share = r.share /\ ~rec.counter /\ rec.del = nil
          /\ rec.owes = nil /\ SameRead(rec, r) /\ SameNotes(rec, r) /\ rec.wait = r.wait
      BY <2>4, Zenon DEF CallState, SameRead, SameNotes
    <2> HIDE DEF rec
    <2>7. /\ fin \in CallState /\ fin.share = rec.share /\ fin.counter = rec.counter
          /\ fin.del = rec.del /\ fin.pc = "clear"
          /\ fin.owes = rec.owes /\ SameRead(fin, rec) /\ SameNotes(fin, rec) /\ fin.wait = rec.wait
      BY <2>6 DEF CallState, Stages, SameRead, SameNotes
    <2> HIDE DEF fin
    <2>8. CASE /\ NoFault /\ gen' = gen + 1 /\ rows' = new
               /\ \/ /\ Op(c) \in Inline /\ members' = MembersAfter(c) /\ grant' = GrantAfter(c)
                     /\ Set(c, fin)
                  \/ Op(c) \notin Inline /\ members' = members /\ grant' = grant /\ Answer(c, rec)
      <3>1. /\ st' \in [Calls -> CallState] /\ Others(c) /\ st'[c].share = st[c].share
            /\ ~st'[c].counter /\ st'[c].del = {} /\ st'[c].owes = {}
            /\ SameRead(st'[c], st[c]) /\ SameNotes(st'[c], st[c])
            /\ st'[c].wait \in {st[c].wait, "none"}
            /\ \/ Op(c) \in Inline /\ st'[c].pc = "clear"
                  /\ members' = MembersAfter(c) /\ grant' = GrantAfter(c)
               \/ Op(c) \notin Inline /\ st'[c].pc = "end"
                  /\ members' = members /\ grant' = grant
        <4> USE <2>6
        <4>1. CASE /\ Op(c) \in Inline /\ members' = MembersAfter(c) /\ grant' = GrantAfter(c)
                   /\ Set(c, fin)
          <5>1. st' \in [Calls -> CallState] /\ st'[c] = fin /\ Others(c)
            BY <2>1, <2>7, <4>1, SetFacts
          <5> QED BY <2>4, <2>7, <4>1, <5>1, Zenon DEF SameRead, SameNotes, r
        <4>2. CASE Op(c) \notin Inline /\ members' = members /\ grant' = grant /\ Answer(c, rec)
          <5>1. /\ st' \in [Calls -> CallState] /\ Others(c) /\ st'[c].pc = "end"
                /\ Same(st'[c], rec) /\ SameRead(st'[c], rec) /\ SameNotes(st'[c], rec)
                /\ st'[c].wait = "none"
            BY <2>1, <4>2, AnswerFacts, Zenon
          <5> QED BY <2>4, <4>2, <5>1, Zenon DEF Same, SameRead, SameNotes, r
        <4> QED BY <2>8, <4>1, <4>2, Zenon
      <3>2. members' \subseteq Users /\ grant' \in Grants
        BY <3>1, AfterTypes, Zenon DEF Types
      <3>3. gen' \in Nat /\ faults' = faults
        BY <2>1, <2>8 DEF NoFault
      <3>4. Types'
        BY <2>1, <2>5, <2>8, <3>1, <3>2, <3>3, Zenon DEF Types
      <3> QED BY <2>1, <2>8, <3>1, <3>3, <3>4, Zenon DEF new
    <2> QED BY <2>2, <2>3, <2>8, Zenon
  <1>2. Inv'
    <2> DEFINE new == [u \in Users |-> IF u \in st[c].del THEN NoEntry ELSE rows[u]]
               Inlined == /\ Op(c) \in Inline /\ st'[c].pc = "clear"
                          /\ members' = MembersAfter(c) /\ grant' = GrantAfter(c)
               Invalidated == /\ Op(c) \notin Inline /\ st'[c].pc = "end"
                              /\ members' = members /\ grant' = grant
               Done == /\ Others(c) /\ load' = load /\ now' = now /\ gen' = gen + 1 /\ rows' = new
                       /\ st'[c].share = st[c].share /\ ~st'[c].counter /\ st'[c].del = {}
                       /\ st'[c].owes = {} /\ SameRead(st'[c], st[c])
                       /\ (Inlined \/ Invalidated)
    <2>1. Types' /\ st[c].pc = "commit" /\ (Rolled(c) \/ Done)
      BY <1>1, Zenon DEF Inv
    <2>2. CASE Rolled(c)
      BY <2>1, <2>2, RolledInv, Zenon
    <2>3. CASE Done
      <3>1. CallOK(c) /\ SweptBy(c) /\ Types /\ gen \in Nat /\ st[c].snap \in Nat
        BY DEF Inv, Types, CallState
      <3>2. /\ st[c].counter /\ ~st[c].share /\ Op(c) \in UserWrites \cup Inline
            /\ Op(c) \in Inline => st[c].owes = {}
        BY <2>1, <3>1, Zenon DEF CallOK, Inline, Separate, UserWrites, GroupWrites, OrgWrites
      <3>3. \A d \in Calls : d # c => ~st[d].share /\ ~st[d].counter
        BY <3>2, Zenon DEF Inv, Exclusive
      <3>4. \A d \in Calls : d # c => CallOK(d)' /\ ReadOK(d)' /\ SweptBy(d)'
        BY <2>3, <3>3, MovedFacts, Zenon
      <3>5. /\ \A d \in Calls : Op(d)' = Op(d) /\ User(d)' = User(d)
            /\ \A d \in Calls : d # c => st'[d] = st[d]
        BY <2>3, Rigid, Zenon DEF Others
      <3>6. CallOK(c)'
        <4>1. ~st'[c].share /\ st'[c].snap <= gen'
          <5>1. st[c].snap <= gen
            BY <3>1, Zenon DEF CallOK
          <5>2. st'[c].snap = st[c].snap /\ gen' = gen + 1 /\ ~st'[c].share
            BY <2>3, <3>2, Zenon DEF SameRead
          <5> QED BY <3>1, <5>1, <5>2
        <4>2. ~st'[c].counter /\ st'[c].del = {} /\ st'[c].owes = {} /\ st'[c].pc \in {"clear", "end"}
              /\ (st'[c].pc = "clear" => Op(c) \in Inline)
          BY <2>3
        <4> QED BY <3>5, <4>1, <4>2, Zenon DEF CallOK
      <3>7. ReadOK(c)' /\ SweptBy(c)'
        BY <2>3, Zenon DEF ReadOK, SweptBy
      <3>8. Exclusive'
        BY <2>3, <3>3, <3>5, Zenon DEF Exclusive
      <3>9. ASSUME NEW u \in Users PROVE RowOK(u)'
        <4>1. RowOK(u) /\ rows \in [Users -> EntryType]
          BY <3>1 DEF Inv, Types
        <4>2. CASE u \in st[c].del \/ ~rows[u].some
          <5>1. ~rows'[u].some
            BY <2>3, <4>2, Zenon DEF NoEntry
          <5> QED BY <5>1 DEF RowOK
        <4>3. CASE u \notin st[c].del /\ rows[u].some
          <5>1. rows'[u] = rows[u]
            BY <2>3, <4>3
          <5>2. CASE Invalidated
            <6>1. u # User(c) /\ Op(c) \in UserWrites
              BY <2>1, <3>1, <3>2, <4>3, <5>2, Zenon DEF SweptBy
            <6>2. u \notin st[c].owes
              BY <3>1, <6>1, Zenon DEF CallOK
            <6>3. \A d \in Calls : Reaches(d, u) => d # c /\ Reaches(d, u)'
              BY <3>5, <5>2, <6>2 DEF Reaches
            <6>4. Owing(u) => Owing(u)'
              BY <6>3 DEF Owing
            <6>5. Right(u, rows[u].perms) => Right(u, rows[u].perms)'
              BY <2>3, <5>1, <5>2, Zenon DEF Right
            <6> QED BY <4>1, <5>1, <6>4, <6>5 DEF RowOK
          <5>3. CASE Inlined
            <6>1. Op(c) \in {"unshare", "dissolve"}
              BY <2>1, <3>1, <4>3, <5>3, Zenon DEF SweptBy, Inline
            <6>2. CASE u \in members
              <7>1. Joining(u)
                BY <2>1, <3>1, <4>3, <6>1, <6>2, Zenon DEF SweptBy
              <7>2. Owing(u)'
                BY <3>2, <3>5, <5>3, <7>1 DEF Joining, Owing, Reaches
              <7> QED BY <4>1, <5>1, <7>2, Zenon DEF RowOK
            <6>3. CASE u \notin members
              <7> USE <6>3
              <7>1. u \notin members'
                BY <5>3, <6>1 DEF MembersAfter
              <7>2. Owing(u) => Owing(u)'
                BY <3>2, <3>5, <5>3 DEF Owing, Reaches
              <7>3. Right(u, rows[u].perms) => Right(u, rows[u].perms)'
                BY <5>1, <7>1 DEF Right
              <7> QED BY <4>1, <5>1, <7>2, <7>3 DEF RowOK
            <6> QED BY <6>2, <6>3
          <5> QED BY <2>3, <5>2, <5>3, Zenon
        <4> QED BY <4>2, <4>3
      <3>10. \A d \in Calls : CallOK(d)' /\ SweptBy(d)' /\ ReadOK(d)'
        BY <3>4, <3>6, <3>7
      <3> QED BY <2>1, <3>8, <3>9, <3>10, Zenon DEF Inv
    <2> QED BY <2>1, <2>2, <2>3, Zenon
  <1>3. Shape'
    <2>1. /\ st[c].pc = "commit"
          /\ \/ Rolled(c)
             \/ /\ Others(c) /\ UNCHANGED <<load, upper, flight>> /\ st'[c].pc \in {"clear", "end"}
                /\ rows' = [u \in Users |-> IF u \in st[c].del THEN NoEntry ELSE rows[u]]
                /\ SameRead(st'[c], st[c]) /\ SameNotes(st'[c], st[c])
                /\ st'[c].wait \in {st[c].wait, "none"}
      BY <1>1, Zenon DEF Inv
    <2> USE <2>1
    <2>2. CASE Rolled(c)
      BY <2>2, RolledShape, Zenon DEF Writing
    <2>3. CASE ~Rolled(c)
      <3>1. \A u \in Users : rows'[u] = rows[u] \/ ~rows'[u].some
        BY <2>3 DEF NoEntry
      <3> QED BY <2>3, <3>1, WriterShape DEF Writing
    <2> QED BY <2>2, <2>3
  <1>4. ASSUME Quiet, Current, ~Fault PROVE Current'
    <2> USE <1>4
    <2>1. /\ Others(c) /\ UNCHANGED <<load, now, upper>> /\ st[c].pc = "commit" /\ st'[c].owes = {}
          /\ \/ Op(c) \in Inline /\ st'[c].pc = "clear"
             \/ st'[c].pc = "end" /\ members' = members /\ grant' = grant
      BY <1>1, Zenon DEF Inv, Rolled
    <2> USE <2>1
    <2>2. Writes(c) /\ \A d \in Calls : Op(d) \in Reads => ~Active(d)
      BY NoRequest, Zenon DEF Writing
    <2>3. CASE st'[c].pc = "end"
      BY <2>2, <2>3, CurrentPlain, Zenon DEF At
    <2>4. CASE Op(c) \in Inline /\ st'[c].pc = "clear"
      <3>1. \A u \in Users : Clearing(u)'
        BY <2>4, Rigid DEF Clearing, At
      <3> QED BY <2>2, <2>4, <3>1, CurrentWriter, Zenon DEF Finished
    <2> QED BY <2>3, <2>4
  <1>5. Others(c) /\ load' = load /\ (Fault \/ NoFault) /\ st'[c].before = st[c].before
        /\ st'[c].pc \in {"clear", "end"}
    BY <1>1 DEF Rolled, Frozen, NoFault, SameNotes
  <1> QED BY <1>2, <1>3, <1>4, <1>5, FullStep

\* The invariant is kept when the generation moves on its own (InvalidateCacheForOrg, InvalidateCacheForGroup).
LEMMA BumpOnlyKept == ASSUME Full, NEW c \in Calls, BumpOnly(c) PROVE Full'
  <1>0. Inv /\ Shape /\ Types
    BY DEF Full, Inv
  <1> USE <1>0
  <1>1. /\ Types' /\ st[c].pc = "bumpOnly"
        /\ \/ Rolled(c)
           \/ /\ Others(c) /\ UNCHANGED <<load, members, grant, rows, now, upper, flight, faults>>
              /\ gen' = gen + 1 /\ Sharers = {} /\ Counting = {}
              /\ st'[c].pc = "deleteOnly" /\ Same(st'[c], st[c])
              /\ SameRead(st'[c], st[c]) /\ SameNotes(st'[c], st[c]) /\ SameEnd(st'[c], st[c])
    <2>1. /\ st[c].pc = "bumpOnly" /\ UNCHANGED <<load, members, grant, rows, now, upper, flight>>
          /\ st \in [Calls -> CallState] /\ gen \in Nat /\ "deleteOnly" \in Stages
      BY DEF BumpOnly, At, Rest, tables, Types, Stages
    <2> USE <2>1
    <2>2. CASE Rollback(c) /\ UNCHANGED gen
      BY <2>2, RollbackStep, Zenon DEF Frozen
    <2>3. CASE Sharers = {} /\ Counting = {} /\ NoFault /\ gen' = gen + 1 /\ Goto(c, "deleteOnly")
      <3> USE <2>3
      <3>1. /\ st' \in [Calls -> CallState] /\ Others(c) /\ st'[c].pc = "deleteOnly"
            /\ Same(st'[c], st[c])
            /\ SameRead(st'[c], st[c]) /\ SameNotes(st'[c], st[c]) /\ SameEnd(st'[c], st[c])
        BY GotoFacts DEF SameEnd
      <3>2. gen' \in Nat /\ faults' = faults
        BY DEF NoFault
      <3>3. Types'
        BY <3>1, <3>2 DEF Types
      <3> QED BY <3>1, <3>2, <3>3
    <2> QED BY <2>2, <2>3, Zenon DEF BumpOnly
  <1>2. Inv'
    <2> DEFINE Done == /\ Others(c) /\ UNCHANGED <<load, members, grant, rows, now>>
                       /\ gen' = gen + 1 /\ Sharers = {} /\ Counting = {}
                       /\ st'[c].pc = "deleteOnly" /\ Same(st'[c], st[c]) /\ SameRead(st'[c], st[c])
    <2>1. Types' /\ st[c].pc = "bumpOnly" /\ (Rolled(c) \/ Done)
      BY <1>1, Zenon DEF Inv
    <2>2. CASE Rolled(c)
      BY <2>1, <2>2, RolledInv
    <2>3. CASE Done
      <3>1. CallOK(c) /\ Types /\ gen \in Nat /\ st[c].snap \in Nat
        BY DEF Inv, Types, CallState
      <3>2. \A d \in Calls : ~st[d].share /\ ~st[d].counter
        BY <2>3, Zenon DEF Sharers, Counting
      <3>3. \A d \in Calls : d # c => CallOK(d)' /\ ReadOK(d)' /\ SweptBy(d)'
        BY <2>3, <3>2, MovedFacts
      <3>4. /\ \A d \in Calls : Op(d)' = Op(d) /\ User(d)' = User(d) /\ st'[d].owes = st[d].owes
            /\ \A d \in Calls : d # c => st'[d] = st[d]
        BY <2>3, Rigid, Zenon DEF Others, Same
      <3>5. CallOK(c)'
        <4> USE <3>1
        <4>1. ~st'[c].share /\ ~st'[c].counter /\ st'[c].del = {} /\ st'[c].snap <= gen'
          <5>1. st[c].snap <= gen /\ st[c].del = {}
            BY <2>1, Zenon DEF CallOK
          <5>2. /\ st'[c].snap = st[c].snap /\ gen' = gen + 1 /\ st'[c].del = st[c].del
                /\ ~st'[c].share /\ ~st'[c].counter
            BY <2>3, <3>2, Zenon DEF Same, SameRead
          <5> QED BY <5>1, <5>2
        <4>2. Op(c) \in GroupWrites \cup OrgWrites \cup {"disband"}
          BY <2>1, Zenon DEF CallOK
        <4> QED BY <2>3, <3>4, <4>1, <4>2, Zenon DEF CallOK
      <3>6. ReadOK(c)' /\ SweptBy(c)'
        BY <2>3, Zenon DEF ReadOK, SweptBy
      <3>7. Exclusive'
        <4>1. \A d \in Calls : ~st'[d].counter
          BY <2>3, <3>2, <3>4, Zenon DEF Same
        <4> QED BY <4>1 DEF Exclusive
      <3>8. ASSUME NEW u \in Users PROVE RowOK(u)'
        <4> USE <2>3
        <4>1. RowOK(u)
          BY DEF Inv
        <4>2. Owing(u)' <=> Owing(u)
          BY <3>4, Zenon DEF Owing, Reaches
        <4>3. Right(u, rows[u].perms)' <=> Right(u, rows[u].perms)
          BY DEF Right
        <4> QED BY <4>1, <4>2, <4>3, Zenon DEF RowOK
      <3>9. \A d \in Calls : CallOK(d)' /\ SweptBy(d)' /\ ReadOK(d)'
        BY <3>3, <3>5, <3>6
      <3> QED BY <2>1, <3>7, <3>8, <3>9, Zenon DEF Inv
    <2> QED BY <2>1, <2>2, <2>3
  <1>3. Shape'
    <2>1. /\ st[c].pc = "bumpOnly"
          /\ \/ Rolled(c)
             \/ /\ Others(c) /\ UNCHANGED <<load, rows, upper, flight>> /\ st'[c].pc = "deleteOnly"
                /\ SameRead(st'[c], st[c]) /\ SameNotes(st'[c], st[c]) /\ st'[c].wait = st[c].wait
      BY <1>1, Zenon DEF Inv, SameEnd
    <2> QED BY <2>1, WriterShape, RolledShape, Zenon DEF Writing
  <1>4. ASSUME Quiet, Current, ~Fault PROVE Current'
    <2> USE <1>4
    <2>1. /\ Others(c) /\ UNCHANGED <<load, members, grant, now, upper>> /\ st[c].pc = "bumpOnly"
          /\ st'[c].pc = "deleteOnly"
      BY <1>1, Zenon DEF Inv, Rolled
    <2>2. Writes(c) /\ \A d \in Calls : Op(d) \in Reads => ~Active(d)
      BY <2>1, NoRequest DEF Writing
    <2> QED BY <2>1, <2>2, CurrentPlain, Zenon DEF Finished, At
  <1>5. Others(c) /\ load' = load /\ (Fault \/ NoFault) /\ st'[c].before = st[c].before
        /\ st'[c].pc \in {"deleteOnly", "end"}
    BY <1>1, Zenon DEF Rolled, Frozen, NoFault, SameNotes
  <1> QED BY <1>2, <1>3, <1>4, <1>5, FullStep

\* The invariant is kept when the rows are deleted on their own (InvalidateCacheForOrg, InvalidateCacheForGroup).
LEMMA DeleteOnlyKept == ASSUME Full, NEW c \in Calls, DeleteOnly(c) PROVE Full'
  <1>0. Inv /\ Shape /\ Types
    BY DEF Full, Inv
  <1> USE <1>0
  <1>1. /\ Types' /\ st[c].pc = "deleteOnly"
        /\ \/ Rolled(c)
           \/ /\ Others(c) /\ UNCHANGED <<load, members, grant, gen, now, upper, flight, faults>>
              /\ rows' = [u \in Users |-> IF u \in Scope(c) THEN NoEntry ELSE rows[u]]
              /\ st'[c].pc = "end" /\ st'[c].owes = {} /\ st'[c].share = st[c].share
              /\ st'[c].counter = st[c].counter /\ st'[c].del = st[c].del
              /\ SameRead(st'[c], st[c]) /\ SameNotes(st'[c], st[c]) /\ st'[c].wait = "none"
    <2>1. /\ st[c].pc = "deleteOnly" /\ UNCHANGED <<load, members, grant, gen, now, upper, flight>>
          /\ st \in [Calls -> CallState] /\ rows \in [Users -> EntryType]
      BY DEF DeleteOnly, At, Rest, tables, Types
    <2>2. CASE Rollback(c) /\ UNCHANGED rows
      BY <2>1, <2>2, RollbackStep, Zenon DEF Frozen
    <2> DEFINE r == st[c]
               nil == {}
               rec == [r EXCEPT !.owes = nil]
               new == [u \in Users |-> IF u \in Scope(c) THEN NoEntry ELSE rows[u]]
    <2>3. \/ Rollback(c) /\ UNCHANGED rows
          \/ NoFault /\ rows' = new /\ Answer(c, rec)
      BY DEF DeleteOnly
    <2>4. nil \in SUBSET Users /\ r \in CallState /\ nil = {}
      BY <2>1
    <2>5. new \in [Users -> EntryType]
      <3>1. NoEntry \in EntryType
        BY DEF NoEntry, EntryType, NoPerms, PermsType, Grants
      <3> QED BY <2>1, <3>1
    <2> HIDE DEF r, nil, new
    <2>6. /\ rec \in CallState /\ rec.share = r.share /\ rec.counter = r.counter /\ rec.del = r.del
          /\ rec.owes = nil /\ SameRead(rec, r) /\ SameNotes(rec, r)
      BY <2>4 DEF CallState, SameRead, SameNotes
    <2> HIDE DEF rec
    <2>7. CASE NoFault /\ rows' = new /\ Answer(c, rec)
      <3> USE <2>1, <2>7
      <3>1. /\ st' \in [Calls -> CallState] /\ Others(c) /\ st'[c].pc = "end"
            /\ Same(st'[c], rec) /\ SameRead(st'[c], rec) /\ SameNotes(st'[c], rec)
            /\ st'[c].wait = "none"
        BY <2>6, AnswerFacts
      <3> USE <3>1
      <3>2. /\ st'[c].owes = {} /\ st'[c].share = st[c].share
            /\ st'[c].counter = st[c].counter /\ st'[c].del = st[c].del
            /\ SameRead(st'[c], st[c]) /\ SameNotes(st'[c], st[c])
        BY <2>4, <2>6, Zenon DEF Same, SameRead, SameNotes, r
      <3>3. Types'
        BY <2>5 DEF Types, NoFault
      <3> QED BY <3>2, <3>3, Zenon DEF new, NoFault
    <2> QED BY <2>2, <2>3, <2>7
  <1>2. Inv'
    <2> DEFINE new == [u \in Users |-> IF u \in Scope(c) THEN NoEntry ELSE rows[u]]
               Done == /\ Others(c) /\ UNCHANGED <<load, members, grant, gen, now>> /\ rows' = new
                       /\ st'[c].pc = "end" /\ st'[c].owes = {} /\ st'[c].share = st[c].share
                       /\ st'[c].counter = st[c].counter /\ st'[c].del = st[c].del
                       /\ SameRead(st'[c], st[c])
    <2>1. Types' /\ st[c].pc = "deleteOnly" /\ (Rolled(c) \/ Done)
      BY <1>1, Zenon DEF Inv
    <2>2. CASE Rolled(c)
      BY <2>1, <2>2, RolledInv, Zenon
    <2>3. CASE Done
      <3>1. CallOK(c) /\ Types /\ Free(st[c])
        BY <2>1, FreeNow DEF Inv
      <3>2. Op(c) \in GroupWrites \cup OrgWrites \cup {"disband"}
        BY <2>1, <3>1, Zenon DEF CallOK
      <3>3. /\ \A d \in Calls : Op(d)' = Op(d) /\ User(d)' = User(d)
            /\ \A d \in Calls : d # c => st'[d] = st[d]
        BY <2>3, Rigid, Zenon DEF Others
      <3>4. CallOK(c)'
        <4>1. ~st'[c].share /\ ~st'[c].counter /\ st'[c].del = {} /\ st'[c].snap <= gen'
          BY <2>3, <3>1, Zenon DEF Free, SameRead, CallOK
        <4> QED BY <2>3, <4>1, Zenon DEF CallOK
      <3>5. ASSUME NEW d \in Calls, d # c PROVE CallOK(d)'
        <4>1. st'[d] = st[d] /\ gen' = gen /\ Op(d)' = Op(d) /\ User(d)' = User(d)
          BY <2>3, <3>3, <3>5, Zenon
        <4>2. CallOK(d)
          BY Zenon DEF Inv
        <4> QED BY <4>1, <4>2 DEF CallOK
      <3>6. \A u : /\ Pending(u) => Pending(u)'
                   /\ Joining(u) => Joining(u)'
                   /\ Owing(u) /\ ~Reaches(c, u) => Owing(u)'
        <4> USE <3>3
        <4>1. Op(c) # "join"
          BY <3>2 DEF GroupWrites, OrgWrites
        <4>2. \A u : Joining(u) => Joining(u)'
          BY <4>1 DEF Joining
        <4>3. \A u : \A d \in Calls : d # c /\ Reaches(d, u) => Reaches(d, u)'
          BY <2>3, Zenon DEF Reaches
        <4> QED BY <2>1, <4>2, <4>3, Zenon DEF Pending, Owing
      <3>7. ASSUME NEW d \in Calls PROVE ReadOK(d)'
        <4>1. CASE d = c
          BY <2>3, <4>1, Zenon DEF ReadOK
        <4>2. CASE d # c
          <5> USE <3>3
          <5>1. ReadOK(d)
            BY DEF Inv
          <5>2. Right(User(d), st[d].perms)' <=> Right(User(d), st[d].perms)
            BY <2>3, <4>2, Zenon DEF Right
          <5>3. Pending(User(d)) => Pending(User(d))'
            BY <3>6
          <5> QED BY <2>3, <4>2, <5>1, <5>2, <5>3, Zenon DEF ReadOK
        <4> QED BY <4>1, <4>2
      <3>8. \A u \in Users : rows'[u] = rows[u] \/ ~rows'[u].some
        BY <2>3 DEF NoEntry
      <3>9. ASSUME NEW d \in Calls PROVE SweptBy(d)'
        <4>1. CASE d = c
          BY <2>3, <4>1, ZenonT(30) DEF SweptBy
        <4>2. CASE d # c
          <5>1. SweptBy(d) /\ User(d) \in Users /\ members \subseteq Users
            BY <3>1, LoadFacts, Zenon DEF Inv, Types
          <5> QED BY <2>3, <3>3, <3>6, <3>8, <4>2, <5>1, Zenon DEF SweptBy
        <4> QED BY <4>1, <4>2
      <3>10. Exclusive'
        BY <2>3, <3>3, Zenon DEF Inv, Exclusive
      <3>11. ASSUME NEW u \in Users PROVE RowOK(u)'
        <4>1. RowOK(u)
          BY DEF Inv
        <4>2. CASE u \in Scope(c)
          <5>1. ~rows'[u].some
            BY <2>3, <4>2, Zenon DEF NoEntry
          <5> QED BY <5>1 DEF RowOK
        <4>3. CASE u \notin Scope(c)
          <5>1. rows'[u] = rows[u]
            BY <2>3, <4>3, Zenon
          <5>2. ~Reaches(c, u)
            <6>1. Op(c) = "regrant" /\ u \notin members
              BY <3>2, <4>3 DEF Scope, GroupWrites, OrgWrites, UserWrites
            <6> QED BY <6>1 DEF Reaches
          <5>3. Right(u, rows[u].perms)' <=> Right(u, rows[u].perms)
            BY <2>3, <5>1, Zenon DEF Right
          <5> QED BY <3>6, <4>1, <5>1, <5>2, <5>3, Zenon DEF RowOK
        <4> QED BY <4>2, <4>3
      <3>12. \A d \in Calls : CallOK(d)' /\ SweptBy(d)' /\ ReadOK(d)'
        BY <3>4, <3>5, <3>7, <3>9
      <3> QED BY <2>1, <3>10, <3>11, <3>12, Zenon DEF Inv
    <2> QED BY <2>1, <2>2, <2>3, Zenon
  <1>3. Shape'
    <2>1. /\ st[c].pc = "deleteOnly"
          /\ \/ Rolled(c)
             \/ /\ Others(c) /\ UNCHANGED <<load, upper, flight>> /\ st'[c].pc = "end"
                /\ rows' = [u \in Users |-> IF u \in Scope(c) THEN NoEntry ELSE rows[u]]
                /\ SameRead(st'[c], st[c]) /\ SameNotes(st'[c], st[c]) /\ st'[c].wait = "none"
      BY <1>1, Zenon DEF Inv
    <2> USE <2>1
    <2>2. CASE Rolled(c)
      BY <2>2, RolledShape, ZenonT(30) DEF Writing
    <2>3. CASE ~Rolled(c)
      <3>1. \A u \in Users : rows'[u] = rows[u] \/ ~rows'[u].some
        BY <2>3 DEF NoEntry
      <3> QED BY <2>3, <3>1, WriterShape, Zenon DEF Writing
    <2> QED BY <2>2, <2>3
  <1>4. ASSUME Quiet, Current, ~Fault PROVE Current'
    <2> USE <1>4
    <2>1. /\ Others(c) /\ UNCHANGED <<load, members, grant, now, upper>> /\ st[c].pc = "deleteOnly"
          /\ st'[c].pc = "end" /\ st'[c].owes = {}
      BY <1>1, Zenon DEF Inv, Rolled
    <2>2. Writes(c) /\ \A d \in Calls : Op(d) \in Reads => ~Active(d)
      BY <2>1, NoRequest, Zenon DEF Writing
    <2> QED BY <2>1, <2>2, CurrentPlain, Zenon DEF Finished, At
  <1>5. Others(c) /\ load' = load /\ (Fault \/ NoFault) /\ st'[c].before = st[c].before
        /\ st'[c].pc = "end"
    BY <1>1, ZenonT(30) DEF Rolled, Frozen, NoFault, SameNotes
  <1> QED BY <1>2, <1>3, <1>4, <1>5, FullStep

\* Every step of an administrator's call keeps the invariant.
LEMMA WriteStepFull == ASSUME Full, NEW c \in Calls, WriteStep(c) PROVE Full'
  BY StartWriteKept, WriteKept, ClearUpperKept, BumpKept, DeleteRowsKept,
     CommitKept, BumpOnlyKept, DeleteOnlyKept
     DEF WriteStep

\* The cleanup of a cache in memory only drops entries (cleanup).
LEMMA CleanupTypes ==
    ASSUME Types, NEW r \in Replicas, Cleanup(r)
    PROVE  /\ Types' /\ UNCHANGED <<load, members, grant, gen, rows, flight, now, st, faults>>
           /\ \A p \in Places, u \in Users : upper'[p][u] = upper[p][u] \/ ~upper'[p][u].some
  <1> DEFINE new == [u \in Users |-> IF upper[r][u].exp < now THEN NoEntry ELSE upper[r][u]]
  <1>1. /\ UNCHANGED <<load, members, grant, gen, rows, flight, now, st, faults>>
        /\ upper' = [upper EXCEPT ![r] = new]
        /\ upper \in [Places -> [Users -> EntryType]] /\ r \in Places
    BY ZenonT(30) DEF Cleanup, tables, shared, Types, Places
  <1> USE <1>1
  <1>2. NoEntry \in EntryType /\ ~NoEntry.some
    BY ZenonT(30) DEF NoEntry, EntryType, NoPerms, PermsType, Grants
  <1>3. new \in [Users -> EntryType] /\ \A u \in Users : new[u] = upper[r][u] \/ ~new[u].some
    BY <1>2, ZenonT(30)
  <1> HIDE DEF new
  <1>4. /\ upper' \in [Places -> [Users -> EntryType]]
        /\ \A p \in Places, u \in Users : upper'[p][u] = upper[p][u] \/ ~upper'[p][u].some
    BY <1>3
  <1>5. Types'
    BY <1>4, ZenonT(30) DEF Types
  <1> QED BY <1>4, <1>5, ZenonT(30)

\* Permissions that are right stay right as time passes.
LEMMA TickInv == ASSUME Inv, Tick PROVE Inv'
  <1>1. /\ Types /\ now' = now + 1 /\ now \in Nat /\ now' \in 0..load.ticks
        /\ UNCHANGED <<load, members, grant, gen, rows, upper, flight, st, faults>>
        /\ load.until \in [Users -> Nat]
    <2>1. Types /\ UNCHANGED <<load, members, grant, gen, rows, upper, flight, st, faults>>
          /\ now' = now + 1 /\ now < load.ticks
      BY DEF Inv, Tick, tables, shared
    <2>2. load.ticks \in Nat /\ now \in 0..load.ticks /\ load.until \in [Users -> Nat]
      BY <2>1, LoadFacts, ZenonT(30) DEF Types
    <2> QED BY <2>1, <2>2
  <1> USE <1>1
  <1>2. Types'
    BY ZenonT(30) DEF Types
  <1>3. \A u \in Users : \A p : Right(u, p) => Right(u, p)'
    <2> SUFFICES ASSUME NEW u \in Users, NEW p, Right(u, p) PROVE Right(u, p)'
      OBVIOUS
    <2>1. load.until[u] \in Nat
      OBVIOUS
    <2>2. load.until[u] <= now => load'.until[u] <= now'
      BY <2>1
    <2> QED BY <2>2, ZenonT(30) DEF Right
  <1>4. \A d \in Calls : Op(d)' = Op(d) /\ User(d)' = User(d) /\ User(d) \in Users
    BY Rigid, LoadFacts, ZenonT(30) DEF Types
  <1>5. \A u : /\ Pending(u)' <=> Pending(u)
               /\ Joining(u)' <=> Joining(u)
               /\ Owing(u)' <=> Owing(u)
    BY <1>4, ZenonT(30) DEF Pending, Joining, Owing, Reaches
  <1>6. ASSUME NEW d \in Calls PROVE CallOK(d)' /\ SweptBy(d)' /\ ReadOK(d)'
    <2> USE <1>4
    <2>1. CallOK(d) /\ SweptBy(d) /\ ReadOK(d)
      BY DEF Inv
    <2> USE <2>1
    <2>2. CallOK(d)'
      BY Zenon DEF CallOK
    <2>3. SweptBy(d)'
      BY <1>5, Zenon DEF SweptBy
    <2>4. Right(User(d), st[d].perms) => Right(User(d), st[d].perms)'
      BY <1>3, Zenon
    <2>5. ReadOK(d)'
      BY <1>5, <2>4, Zenon DEF ReadOK
    <2> QED BY <2>2, <2>3, <2>5, ZenonT(30)
  <1>7. Exclusive'
    BY ZenonT(30) DEF Inv, Exclusive
  <1>8. ASSUME NEW u \in Users PROVE RowOK(u)'
    <2>1. Right(u, rows[u].perms) => Right(u, rows[u].perms)'
      BY <1>3, ZenonT(30)
    <2> QED BY <1>5, <2>1, Zenon DEF Inv, RowOK
  <1> QED BY <1>2, <1>6, <1>7, <1>8 DEF Inv

\* Nothing the invariant speaks of changes.
LEMMA IdleInv ==
    ASSUME Inv, Types', UNCHANGED <<load, members, grant, gen, rows, now, st>>
    PROVE  Inv'
  <1>1. \A d \in Calls : Op(d)' = Op(d) /\ User(d)' = User(d)
    BY Rigid
  <1>2. \A u : /\ Pending(u)' <=> Pending(u)
               /\ Joining(u)' <=> Joining(u)
               /\ Owing(u)' <=> Owing(u)
    BY <1>1, ZenonT(30) DEF Pending, Joining, Owing, Reaches
  <1>3. ASSUME NEW d \in Calls PROVE CallOK(d)' /\ SweptBy(d)' /\ ReadOK(d)'
    <2> USE <1>1
    <2>1. CallOK(d) /\ SweptBy(d) /\ ReadOK(d)
      BY DEF Inv
    <2> USE <2>1
    <2>2. CallOK(d)'
      BY Zenon DEF CallOK
    <2>3. SweptBy(d)'
      BY <1>2, Zenon DEF SweptBy
    <2>4. Right(User(d), st[d].perms)' <=> Right(User(d), st[d].perms)
      BY Zenon DEF Right
    <2>5. ReadOK(d)'
      BY <1>2, <2>4, Zenon DEF ReadOK
    <2> QED BY <2>2, <2>3, <2>5
  <1>4. Exclusive'
    BY ZenonT(30) DEF Inv, Exclusive
  <1>5. ASSUME NEW u \in Users PROVE RowOK(u)'
    <2>1. Right(u, rows[u].perms)' <=> Right(u, rows[u].perms)
      BY DEF Right
    <2> QED BY <1>2, <2>1, Zenon DEF Inv, RowOK
  <1> QED BY <1>3, <1>4, <1>5 DEF Inv

\* Inv holds at the start.
LEMMA InitInv == ASSUME Init PROVE Inv
  <1>1. /\ load \in Loads /\ members = load.members /\ grant = load.grant /\ gen = 0
        /\ rows = [u \in Users |-> NoEntry] /\ now = 0 /\ faults = 0
        /\ st = [c \in Calls |-> Fresh]
        /\ upper = [p \in Places |-> [u \in Users |-> NoEntry]]
        /\ flight = [r \in Replicas |-> [u \in Users |-> "none"]]
    BY DEF Init
  <1>2. /\ load.members \subseteq Users /\ load.grant \in Grants /\ load.ticks \in Nat
        /\ load.faults \in Nat
    BY <1>1, LoadFacts, ZenonT(30)
  <1>3. NoEntry \in EntryType /\ ~NoEntry.some
    BY DEF NoEntry, EntryType, NoPerms, PermsType, Grants
  <1>4. Fresh \in CallState
    <2>1. NoPerms \in PermsType
      BY DEF NoPerms, PermsType, Grants
    <2> QED BY <2>1, ZenonT(30) DEF Fresh, CallState, Stages
  <1>5. Types
    <2> USE <1>1
    <2>1. rows \in [Users -> EntryType] /\ upper \in [Places -> [Users -> EntryType]]
      BY <1>3
    <2>2. st \in [Calls -> CallState]
      BY <1>4
    <2>3. flight \in [Replicas -> [Users -> Calls \cup {"none"}]]
      OBVIOUS
    <2> QED BY <1>2, <2>1, <2>2, <2>3 DEF Types
  <1>6. \A c \in Calls : st[c] = Fresh
    BY <1>1
  <1>7. /\ Fresh.pc = "start" /\ Fresh.share = FALSE /\ Fresh.counter = FALSE /\ Fresh.del = {}
        /\ Fresh.owes = {} /\ Fresh.snap = 0
    BY DEF Fresh
  <1>8. ASSUME NEW c \in Calls PROVE CallOK(c) /\ SweptBy(c) /\ ReadOK(c)
    <2>1. /\ st[c].pc = "start" /\ ~st[c].share /\ ~st[c].counter /\ st[c].del = {}
          /\ st[c].owes = {} /\ st[c].snap <= gen
      BY <1>1, <1>6, <1>7
    <2> USE <2>1
    <2>2. CallOK(c)
      BY DEF CallOK
    <2>3. SweptBy(c)
      BY Zenon DEF SweptBy
    <2>4. ReadOK(c)
      BY DEF ReadOK
    <2> QED BY <2>2, <2>3, <2>4
  <1>9. Exclusive
    BY <1>6, <1>7 DEF Exclusive
  <1>10. \A u \in Users : RowOK(u)
    BY <1>1, <1>3, Zenon DEF RowOK
  <1> QED BY <1>5, <1>8, <1>9, <1>10 DEF Inv

\* No call moves: the clock, the cleanup of a cache in memory, or nothing.
LEMMA IdleShape ==
    ASSUME Inv, Shape, UNCHANGED <<load, rows, flight, st>>,
           \A p \in Places, u \in Users : upper'[p][u] = upper[p][u] \/ ~upper'[p][u].some
    PROVE  Shape'
  <1>0. \A d \in Calls : /\ Op(d)' = Op(d) /\ User(d)' = User(d) /\ Home(d)' = Home(d)
                         /\ Place(d)' = Place(d)
    BY Rigid
  <1>1. ASSUME NEW c \in Calls PROVE ShapeOK(c)' /\ WindowOK(c)'
    <2>1. st[c].wait # "none" => st[c].wait \in Calls
      BY DEF Inv, Types, CallState
    <2>2. ShapeOK(c) /\ WindowOK(c)
      BY DEF Shape
    <2>3. ShapeOK(c)'
      BY <1>0, <2>1, <2>2, Zenon DEF ShapeOK, Finished
    <2>4. WindowOK(c)'
      BY <1>0, <2>2, Zenon DEF WindowOK
    <2> QED BY <2>3, <2>4
  <1>2. FlightOK'
    <2>1. \A r \in Replicas, u \in Users : flight[r][u] # "none" => flight[r][u] \in Calls
      BY DEF Inv, Types
    <2> QED BY <1>0, <2>1, Zenon DEF Shape, FlightOK
  <1>3. \A u \in Users : RowWindow(u)'
    BY DEF Shape, RowWindow
  <1>4. ASSUME NEW p \in Places, NEW u \in Users PROVE UpperOK(p, u)'
    BY <1>0, Zenon DEF Shape, UpperOK, Begun
  <1> QED BY <1>1, <1>2, <1>3, <1>4, Zenon DEF Shape

\* Shape holds at the start.
LEMMA InitShape == ASSUME Init PROVE Shape
  <1>1. /\ \A c \in Calls : /\ st[c].pc = "start" /\ st[c].before = {} /\ ~st[c].done /\ ~st[c].err
                            /\ st[c].wait = "none" /\ ~st[c].perms.member
        /\ \A r \in Replicas, u \in Users : flight[r][u] = "none"
        /\ \A u \in Users : ~rows[u].some
        /\ \A p \in Places, u \in Users : ~upper[p][u].some
    BY Zenon DEF Init, Fresh, NoEntry, NoPerms
  <1> USE <1>1
  <1>2. \A c \in Calls : ShapeOK(c) /\ WindowOK(c)
    BY Zenon DEF ShapeOK, WindowOK, Reading
  <1>3. FlightOK
    BY DEF FlightOK
  <1> QED BY <1>2, <1>3, Zenon DEF Shape, RowWindow, UpperOK

\* Current is kept when no call moves: the clock, the cleanup of a cache in memory, or nothing.
LEMMA IdleCurrent ==
    ASSUME Inv, Current, UNCHANGED <<load, members, grant, st>>, now' \in Nat, now <= now',
           \A p \in Places, u \in Users : upper'[p][u] = upper[p][u] \/ ~upper'[p][u].some
    PROVE  Current'
  <1>0. /\ \A d \in Calls : Op(d)' = Op(d) /\ User(d)' = User(d) /\ User(d) \in Users
        /\ now \in Nat /\ load.until \in [Users -> Nat]
    BY Rigid, LoadFacts DEF Inv, Types
  <1>1. \A u \in Users : load.until[u] <= now => load.until[u] <= now'
    BY <1>0
  <1>2. ASSUME NEW c \in Calls, Op(c) \in Reads
        PROVE  /\ st'[c].fit
               /\ (Active(c) \/ Waited(c))' /\ ~st'[c].err /\ st'[c].pc \in Past =>
                      FitAt(c)' /\ Sound(User(c), st[c].perms)'
               /\ At(c, "grants")' => Holds(User(c), st[c].readAt)'
    <2>1. FitAt(c)' <=> FitAt(c)
      BY SameFit DEF FitAt
    <2>2. Sound(User(c), st[c].perms) => Sound(User(c), st[c].perms)'
      BY <1>0, <1>1 DEF Sound, Coded
    <2>3. Holds(User(c), st[c].readAt)' <=> Holds(User(c), st[c].readAt)
      BY <1>0 DEF Holds
    <2>4. /\ (Active(c) \/ Waited(c))' <=> (Active(c) \/ Waited(c))
          /\ At(c, "grants")' <=> At(c, "grants")
      BY DEF Active, Waited, At, Begun, Finished
    <2> QED BY <1>2, <2>1, <2>2, <2>3, <2>4, Zenon DEF Current
  <1>3. \A c \in Calls : Finished(c)' => st'[c].owes = {}
    BY Zenon DEF Current, Finished
  <1>4. ASSUME NEW p \in Places, NEW u \in Users, upper'[p][u].some
        PROVE  Sound(u, upper[p][u].perms)' \/ Clearing(u)'
    <2>1. upper'[p][u] = upper[p][u]
      BY <1>4
    <2>2. Clearing(u) => Clearing(u)'
      BY <1>0 DEF Clearing, At
    <2>3. Sound(u, upper[p][u].perms) => Sound(u, upper[p][u].perms)'
      BY <1>1, <2>1, Zenon DEF Sound, Coded
    <2> QED BY <1>4, <2>1, <2>2, <2>3, Zenon DEF Current
  <1> QED BY <1>0, <1>2, <1>3, <1>4, Zenon DEF Current

\* Current holds at the start.
LEMMA InitCurrent == ASSUME Init PROVE Current
  <1>1. /\ \A c \in Calls : /\ st[c].pc = "start" /\ st[c].fit /\ st[c].owes = {}
        /\ \A p \in Places, u \in Users : ~upper[p][u].some
    BY DEF Init, Fresh, NoEntry
  <1> QED BY <1>1, Zenon DEF Current, Past, At, Finished

\* The invariant holds at the start.
LEMMA InitFull == ASSUME Init PROVE Full
  BY InitInv, InitShape, InitCurrent DEF Full

\* The clock and the cleanup keep the invariant.
LEMMA IdleFull ==
    ASSUME Full, Tick \/ (\E r \in Replicas : Cleanup(r)) \/ UNCHANGED vars
    PROVE  Full'
  <1>0. Inv /\ Shape /\ Types /\ (Quiet => Current) /\ now \in Nat
    BY DEF Full, Inv, Types
  <1> USE <1>0
  <1>1. /\ UNCHANGED <<load, members, grant, gen, rows, flight, st, faults>>
        /\ \A p \in Places, u \in Users : upper'[p][u] = upper[p][u] \/ ~upper'[p][u].some
        /\ now' \in Nat /\ now <= now'
        /\ Inv'
    <2>1. CASE Tick
      <3>1. /\ UNCHANGED <<load, members, grant, gen, rows, upper, flight, st, faults>>
            /\ now' = now + 1
        BY <2>1 DEF Tick, tables, shared
      <3>2. Inv'
        BY <2>1, TickInv
      <3> QED BY <3>1, <3>2
    <2>2. ASSUME NEW r \in Replicas, Cleanup(r)
          PROVE  /\ Types' /\ UNCHANGED <<load, members, grant, gen, rows, flight, now, st, faults>>
                 /\ \A p \in Places, u \in Users : upper'[p][u] = upper[p][u] \/ ~upper'[p][u].some
      BY <2>2, CleanupTypes, Zenon
    <2>3. CASE \E r \in Replicas : Cleanup(r)
      <3>1. Inv'
        BY <2>2, <2>3, IdleInv
      <3> QED BY <2>2, <2>3, <3>1
    <2>4. CASE UNCHANGED vars
      <3>1. UNCHANGED <<load, members, grant, gen, rows, upper, flight, now, st, faults>>
        BY <2>4 DEF vars
      <3> USE <3>1
      <3>2. Types'
        BY DEF Types
      <3>3. Inv'
        BY <3>2, IdleInv
      <3> QED BY <3>3
    <2> QED BY <2>1, <2>3, <2>4
  <1> USE <1>1
  <1>2. Shape'
    BY IdleShape
  <1>3. Quiet' => Quiet
    <2>1. \A d \in Calls : Op(d)' = Op(d) /\ Place(d)' = Place(d)
      BY Rigid
    <2> QED BY <2>1, Zenon DEF Quiet, Begun, Apart, Writes
  <1>4. Current => Current'
    BY IdleCurrent
  <1> QED BY <1>2, <1>3, <1>4, Zenon DEF Full

\* Every step keeps the invariant.
LEMMA FullKept == ASSUME Full, [Next]_vars PROVE Full'
  <1>1. ASSUME NEW c \in Calls, ReadStep(c) PROVE Full'
    BY <1>1, ReadStepFull
  <1>2. ASSUME NEW c \in Calls, WriteStep(c) PROVE Full'
    BY <1>2, WriteStepFull
  <1> QED BY <1>1, <1>2, IdleFull DEF Next

\* The three parts of the invariant hold in every behaviour: rows of the shared cache are
\* right or owed an invalidation, entries never outlive the membership they show, and in a
\* quiet history everything cached or answered is what the tables say.
THEOREM CacheInvariant == Spec => []Full
  <1>1. Init => Full
    BY InitFull
  <1>2. Full /\ [Next]_vars => Full'
    BY FullKept
  <1> QED BY <1>1, <1>2, PTL DEF Spec

\* A row that owes nothing and has not expired shows what the tables say.
LEMMA RowsFresh == ASSUME Inv PROVE RowFresh
  <1> SUFFICES ASSUME NEW u \in Users, rows[u].some, now < rows[u].exp, ~Owed(u)
               PROVE  View(rows[u].perms) = Facts(u, now)
    BY DEF RowFresh
  <1> DEFINE p == rows[u].perms
  <1>1. Types /\ RowOK(u)
    BY DEF Inv
  <1>2. p \in PermsType /\ p.exp \in Nat /\ now \in Nat /\ load.until[u] \in Nat
    <2>1. rows[u] \in EntryType
      BY <1>1 DEF Types
    <2>2. p \in PermsType
      BY <2>1 DEF EntryType
    <2>3. p.exp \in Nat
      BY <2>2 DEF PermsType
    <2>4. now \in Nat
      BY <1>1 DEF Types
    <2>5. load.until[u] \in Nat
      BY <1>1, LoadFacts DEF Types
    <2> QED BY <2>2, <2>3, <2>4, <2>5
  <1>3. ~Owing(u)
    BY DEF Owed, Owing, Reaches
  <1>4. now < p.exp /\ Right(u, p)
    BY <1>1, <1>3 DEF RowOK
  <1>5. CASE p.member
    <2>1. u \in members /\ p.grant = grant /\ p.exp <= load.until[u]
      BY <1>4, <1>5 DEF Right
    <2> USE <2>1
    <2>2. now < load.until[u]
      BY <1>2, <1>4
    <2>3. Holds(u, now)
      BY <2>2 DEF Holds
    <2>4. Facts(u, now) = [member |-> TRUE, grant |-> grant]
      BY <2>3 DEF Facts
    <2> QED BY <1>2, <1>5, <2>4 DEF View, PermsType
  <1>6. CASE ~p.member
    <2>1. p.grant = "none" /\ (u \notin members \/ load.until[u] <= now)
      BY <1>4, <1>6 DEF Right
    <2>2. Holds(u, now) = FALSE
      BY <1>2, <2>1 DEF Holds
    <2>3. Facts(u, now) = [member |-> FALSE, grant |-> "none"]
      BY <2>2, Zenon DEF Facts
    <2> QED BY <1>2, <1>6, <2>1, <2>3, Zenon DEF View, PermsType
  <1> QED BY <1>5, <1>6

\* The invariant bounds what requests are answered with.
LEMMA AnswersFull == ASSUME Full PROVE AnswersCurrent
  <1>1. TypeOK
    <2>1. Types
      BY DEF Full, Inv
    <2> USE <2>1
    <2>2. now \in 0..MaxTime
      BY LoadFacts DEF Types
    <2>3. \A c \in Calls : /\ st[c].perms \in PermsType
                           /\ st[c].snap \in Nat /\ st[c].wait \in Calls \cup {"none"}
      BY DEF Types, CallState
    <2> QED BY <2>2, <2>3 DEF Types, TypeOK
  <1>2. QuietAnswersCurrent
    BY Zenon DEF Full, QuietAnswersCurrent, Current
  <1>3. WindowRespected
    BY Zenon DEF Full, Shape, WindowOK, WindowRespected
  <1> QED BY <1>1, <1>2, <1>3 DEF AnswersCurrent

\* RowFresh for every number of users, replicas, calls and faults: once the committed changes
\* have been followed by their invalidations, a live row of effective_permissions_cache shows
\* what the tables say (SetCachedPermissionsAtGeneration, bumpCacheGeneration).
THEOREM SharedCacheFresh == Spec => []RowFresh
  <1>1. Full => RowFresh
    BY RowsFresh DEF Full
  <1> QED BY <1>1, CacheInvariant, PTL

\* AnswersCurrent for every number of users, replicas, calls and faults: in a quiet history a
\* request is answered with what the tables say, and from a cache in memory never with a
\* membership past its end (InvalidateUser, InvalidateOrg, InvalidateGroup, SetWithTTL).
THEOREM RequestsAnsweredCurrent == Spec => []AnswersCurrent
  <1>1. Full => AnswersCurrent
    BY AnswersFull
  <1> QED BY <1>1, CacheInvariant, PTL
=============================================================================
