-------------------- MODULE PermissionCacheComputation ----------------------
(***************************************************************************)
(* The steps of a computation (the generation noted, memberships and       *)
(* grants read, the row written under the generation guard, the waiters    *)
(* told, the slot given up, the entry stored in front) keep the invariant. *)
(***************************************************************************)
EXTENDS PermissionCacheInvariant

USE ZenonT(10), SMTT(30), SMTT(40)

\* The invariant is kept when the generation is noted (CacheGeneration).
LEMMA CacheGenerationKept == ASSUME Full, NEW c \in Calls, CacheGeneration(c) PROVE Full'
  <1>0. Inv /\ Shape /\ Types
    BY DEF Full, Inv
  <1> USE <1>0
  <1>1. /\ Types' /\ Others(c) /\ Frozen /\ UNCHANGED <<upper, flight>> /\ (Fault \/ NoFault)
        /\ st[c].pc = "snapshot" /\ st'[c].pc = "memberships" /\ Same(st'[c], st[c])
        /\ SameNotes(st'[c], st[c]) /\ SameEnd(st'[c], st[c])
        /\ st'[c].perms = st[c].perms /\ st'[c].readAt = st[c].readAt
        /\ st'[c].snap \in {st[c].snap, gen}
    <2>1. /\ st[c].pc = "snapshot" /\ Frozen /\ UNCHANGED <<upper, flight>>
          /\ st \in [Calls -> CallState] /\ gen \in Nat /\ "memberships" \in Stages
      BY DEF CacheGeneration, At, Frozen, Rest, tables, shared, Types, Stages
    <2> USE <2>1
    <2>2. (Fault \/ NoFault) /\ (Set(c, [st[c] EXCEPT !.pc = "memberships", !.known = TRUE, !.snap = gen]) \/ Goto(c, "memberships"))
      BY DEF CacheGeneration
    <2>3. /\ st' \in [Calls -> CallState] /\ Others(c) /\ st'[c].pc = "memberships"
          /\ Same(st'[c], st[c]) /\ SameNotes(st'[c], st[c]) /\ SameEnd(st'[c], st[c])
          /\ st'[c].perms = st[c].perms /\ st'[c].readAt = st[c].readAt
          /\ st'[c].snap \in {st[c].snap, gen}
      <3>1. CASE Set(c, [st[c] EXCEPT !.pc = "memberships", !.known = TRUE, !.snap = gen])
        <4> USE <3>1
        <4> DEFINE s == st[c]
                   yes == TRUE
                   rec == [s EXCEPT !.pc = "memberships", !.known = yes, !.snap = gen]
        <4>1. s \in CallState /\ Set(c, rec) /\ yes \in BOOLEAN /\ yes
          BY DEF Types
        <4> USE <4>1
        <4> HIDE DEF s, yes
        <4>2. rec \in CallState
          BY Zenon DEF CallState, Stages
        <4>3. /\ rec.pc = "memberships" /\ rec.known /\ rec.snap = gen /\ Same(rec, s)
              /\ rec.perms = s.perms /\ rec.readAt = s.readAt /\ SameNotes(rec, s)
              /\ rec.err = s.err /\ rec.fit = s.fit /\ rec.wait = s.wait
          BY DEF CallState, Same, SameNotes
        <4> HIDE DEF rec
        <4>4. st' \in [Calls -> CallState] /\ st'[c] = rec /\ Others(c)
          BY <4>2, SetFacts DEF Types
        <4> QED BY <4>3, <4>4 DEF s, SameEnd
      <3>2. CASE Goto(c, "memberships")
        BY <3>2, GotoFacts DEF SameEnd, SameRead
      <3> QED BY <2>2, <3>1, <3>2
    <2>4. Types'
      BY <2>2, <2>3, LightTypes DEF Types, Frozen
    <2> QED BY <2>2, <2>3, <2>4
  <1>2. Inv'
    <2>1. /\ Types' /\ Others(c) /\ Frozen /\ st[c].pc = "snapshot" /\ Same(st'[c], st[c])
          /\ st'[c].snap \in {st[c].snap, gen} /\ st'[c].pc = "memberships"
      BY <1>1, Zenon DEF Inv
    <2> QED BY <2>1, MoveInv DEF Reading
  <1>3. Shape'
    <2>1. /\ Others(c) /\ Frozen /\ UNCHANGED <<upper, flight>> /\ st[c].pc = "snapshot"
          /\ st'[c].pc = "memberships" /\ SameNotes(st'[c], st[c]) /\ SameEnd(st'[c], st[c])
          /\ st'[c].perms = st[c].perms /\ st'[c].readAt = st[c].readAt
      BY <1>1, Zenon DEF Inv
    <2> USE <2>1
    <2>2. Op(c) \in Reads /\ ~st[c].done /\ ~st[c].err
      BY Zenon DEF Shape, ShapeOK, Reading
    <2>3. ShapeOK(c)'
      BY <2>2, ShapeSelf, Zenon DEF Frozen, SameNotes, SameEnd
    <2>4. WindowOK(c)'
      BY WindowSelf, Zenon DEF Frozen
    <2> QED BY <2>3, <2>4, ShapeMove DEF Frozen, Slotted, SameNotes
  <1>4. ASSUME Current PROVE Current'
    <2> USE <1>2, <1>4
    <2>1. /\ Others(c) /\ Frozen /\ UNCHANGED upper /\ st[c].pc = "snapshot"
          /\ st'[c].pc = "memberships" /\ st'[c].fit = st[c].fit
      BY <1>1, Zenon DEF Inv, SameEnd
    <2>2. Op(c) \in Reads
      BY <2>1, ReadersActive DEF Reading
    <2> QED BY <2>1, <2>2, CurrentBlank, Zenon DEF Frozen, Past
  <1>5. Others(c) /\ load' = load /\ (Fault \/ NoFault) /\ st'[c].before = st[c].before
        /\ st'[c].pc = "memberships"
    BY <1>1 DEF Frozen, SameNotes
  <1> QED BY <1>2, <1>3, <1>4, <1>5, FullStep

\* The invariant is kept when the memberships are read (computePermissions).
LEMMA ReadMembershipsKept == ASSUME Full, NEW c \in Calls, ReadMemberships(c) PROVE Full'
  <1>0. Inv /\ Shape /\ Types
    BY DEF Full, Inv
  <1> USE <1>0
  <1>1. /\ Types' /\ Others(c) /\ Frozen /\ UNCHANGED <<upper, flight>> /\ (Fault \/ NoFault)
        /\ st[c].pc = "memberships" /\ Same(st'[c], st[c]) /\ SameNotes(st'[c], st[c])
        /\ st'[c].snap = st[c].snap /\ st'[c].known = st[c].known
        /\ st'[c].fit = st[c].fit /\ st'[c].wait = st[c].wait
        /\ \/ /\ st'[c].readAt = now /\ st'[c].err = st[c].err
              /\ st'[c].pc = IF Holds(User(c), now) THEN "grants" ELSE AfterReads(c)
              /\ st'[c].perms.member <=> Holds(User(c), now)
              /\ st'[c].perms.grant = "none"
              /\ st'[c].perms.exp = Expiry(User(c), Holds(User(c), now))
           \/ st'[c].pc = "broadcast" /\ st'[c].err /\ SameRead(st'[c], st[c])
    <2> DEFINE h == Holds(User(c), now)
               m == [member |-> h, grant |-> "none", exp |-> Expiry(User(c), h)]
               p == IF h THEN "grants" ELSE AfterReads(c)
    <2>1. /\ st[c].pc = "memberships" /\ Frozen /\ UNCHANGED <<upper, flight>>
          /\ st \in [Calls -> CallState] /\ now \in Nat /\ p \in Stages
      BY LoadFacts DEF ReadMemberships, At, Frozen, Rest, tables, shared, Types, Stages, AfterReads
    <2>2. (NoFault /\ Set(c, [st[c] EXCEPT !.pc = p, !.readAt = now, !.perms = m])) \/ Failed(c)
      BY DEF ReadMemberships
    <2>3. h \in BOOLEAN
      BY DEF Holds
    <2>4. Expiry(User(c), h) \in Nat
      BY <2>3, ExpiryFacts, LoadFacts, Zenon DEF Types
    <2> HIDE DEF h, p
    <2>5. m \in PermsType /\ (m.member <=> h) /\ m.grant = "none" /\ m.exp = Expiry(User(c), h)
      BY <2>3, <2>4 DEF PermsType, Grants
    <2> HIDE DEF m
    <2>6. CASE NoFault /\ Set(c, [st[c] EXCEPT !.pc = p, !.readAt = now, !.perms = m])
      <3> USE <2>1, <2>5, <2>6
      <3>1. /\ st' \in [Calls -> CallState] /\ Others(c) /\ st'[c].pc = p
            /\ st'[c].readAt = now /\ st'[c].perms = m /\ Same(st'[c], st[c])
            /\ SameNotes(st'[c], st[c]) /\ st'[c].snap = st[c].snap /\ st'[c].known = st[c].known
            /\ st'[c].err = st[c].err /\ st'[c].fit = st[c].fit /\ st'[c].wait = st[c].wait
        <4> DEFINE s == st[c]
                   rec == [s EXCEPT !.pc = p, !.readAt = now, !.perms = m]
        <4>1. s \in CallState /\ Set(c, rec)
          BY DEF Types
        <4> USE <4>1
        <4> HIDE DEF s
        <4>2. rec \in CallState
          BY Zenon DEF CallState, Stages
        <4>3. /\ rec.pc = p /\ rec.readAt = now /\ rec.perms = m /\ Same(rec, s)
              /\ rec.snap = s.snap /\ rec.known = s.known /\ SameNotes(rec, s)
              /\ rec.err = s.err /\ rec.fit = s.fit /\ rec.wait = s.wait
          BY DEF CallState, Same, SameNotes
        <4> HIDE DEF rec
        <4>4. st' \in [Calls -> CallState] /\ st'[c] = rec /\ Others(c)
          BY <4>2, SetFacts DEF Types
        <4> QED BY <4>3, <4>4 DEF s
      <3>2. Types'
        BY <3>1, LightTypes DEF Types, Frozen
      <3> QED BY <3>1, <3>2 DEF h, p
    <2>7. CASE Failed(c)
      <3>1. /\ Types' /\ Others(c) /\ Fault /\ Same(st'[c], st[c]) /\ SameNotes(st'[c], st[c])
            /\ SameRead(st'[c], st[c]) /\ st'[c].fit = st[c].fit /\ st'[c].wait = st[c].wait
            /\ st'[c].pc = "broadcast" /\ st'[c].err
        BY <2>1, <2>7, FailedStep, Zenon
      <3> QED BY <2>1, <3>1, Zenon DEF SameRead
    <2> QED BY <2>2, <2>6, <2>7
  <1>2. Inv'
    <2>1. /\ Types' /\ Others(c) /\ Frozen /\ st[c].pc = "memberships" /\ Same(st'[c], st[c])
          /\ st'[c].snap = st[c].snap /\ st'[c].known = st[c].known
          /\ \/ /\ st'[c].pc = IF Holds(User(c), now) THEN "grants" ELSE AfterReads(c)
                /\ st'[c].perms.member <=> Holds(User(c), now)
                /\ st'[c].perms.grant = "none"
             \/ st'[c].pc = "broadcast"
      BY <1>1, Zenon DEF Inv
    <2>2. CASE st'[c].pc = "broadcast"
      BY <2>1, <2>2, MoveInv, Zenon DEF Reading
    <2>3. CASE st'[c].pc \in {"grants", "lock"}
      <3>1. /\ st'[c].pc = IF Holds(User(c), now) THEN "grants" ELSE AfterReads(c)
            /\ st'[c].perms.member <=> Holds(User(c), now)
            /\ st'[c].perms.grant = "none"
        BY <2>1, <2>3, Zenon
      <3>2. Free(st[c]) /\ CallOK(c) /\ now \in Nat /\ load.until[User(c)] \in Nat
        <4>1. Types /\ CallOK(c)
          BY DEF Inv
        <4>2. now \in Nat /\ load.until[User(c)] \in Nat
          BY <4>1, LoadFacts DEF Types
        <4> QED BY <2>1, <4>1, <4>2, FreeNow
      <3>3. Light(c)
        BY <2>1, <2>3, <3>2, Zenon DEF Light, Free, Same, Frozen
      <3>4. Op(c)' = Op(c) /\ User(c)' = User(c)
        BY <2>1, Rigid, Zenon DEF Frozen
      <3>5. CallOK(c)'
        <4> USE <3>2
        <4>1. (st'[c].pc = "lock" => st'[c].known) /\ st'[c].snap <= gen'
          BY <2>1, <3>1, Zenon DEF AfterReads, CallOK, Frozen
        <4>2. ~st'[c].share /\ ~st'[c].counter /\ st'[c].del = {} /\ st'[c].owes = st[c].owes
          BY <2>1 DEF Same, Free
        <4> QED BY <2>3, <3>4, <4>1, <4>2, Zenon DEF CallOK
      <3>6. ReadOK(c)'
        <4>1. CASE Holds(User(c), now)
          <5>1. User(c) \in members' /\ st'[c].pc = "grants"
            BY <2>1, <3>1, <4>1, Zenon DEF Holds, Frozen
          <5> QED BY <3>4, <5>1 DEF ReadOK
        <4>2. CASE ~Holds(User(c), now)
          <5>1. ~st'[c].perms.member /\ st'[c].pc # "grants"
            BY <3>1, <4>2 DEF AfterReads
          <5>2. User(c) \notin members \/ load.until[User(c)] <= now
            BY <3>2, <4>2 DEF Holds
          <5>3. Right(User(c), st[c].perms)'
            BY <2>1, <3>1, <3>4, <5>1, <5>2, Zenon DEF Right, Frozen
          <5> QED BY <5>1, <5>3 DEF ReadOK
        <4> QED BY <4>1, <4>2
      <3> QED BY <2>1, <3>3, <3>5, <3>6, LightInv
    <2> QED BY <2>1, <2>2, <2>3 DEF AfterReads
  <1>3. Shape'
    <2> DEFINE h == Holds(User(c), now)
               Good == /\ st'[c].readAt = now /\ st'[c].err = st[c].err
                       /\ st'[c].pc = IF h THEN "grants" ELSE AfterReads(c)
                       /\ st'[c].perms.member <=> h
                       /\ st'[c].perms.exp = Expiry(User(c), h)
               Bad == st'[c].pc = "broadcast" /\ st'[c].err /\ SameRead(st'[c], st[c])
    <2>1. /\ Others(c) /\ Frozen /\ UNCHANGED <<upper, flight>> /\ st[c].pc = "memberships"
          /\ SameNotes(st'[c], st[c]) /\ st'[c].wait = st[c].wait /\ (Good \/ Bad)
      BY <1>1, Zenon DEF Inv
    <2> USE <2>1
    <2>2. Op(c) \in Reads /\ ~st[c].done /\ ~st[c].err
      BY Zenon DEF Shape, ShapeOK, Reading
    <2>3. ~st'[c].done /\ st'[c].before = st[c].before /\ st'[c].own = st[c].own
      BY <2>2, Zenon DEF SameNotes
    <2>4. st'[c].pc \in {"grants", "lock", "broadcast"}
          /\ (st'[c].pc = "grants" => st'[c].perms.member) /\ (st'[c].err => st'[c].pc = "broadcast")
      BY <2>2, Zenon DEF AfterReads
    <2>5. ShapeOK(c)'
      BY <2>2, <2>3, <2>4, ShapeSelf, Zenon DEF Frozen
    <2>6. WindowOK(c)'
      <3>1. CASE Good
        <4>1. User(c) \in Users /\ h \in BOOLEAN /\ Types /\ load.until[User(c)] \in Nat /\ now \in Nat
          BY LoadFacts DEF Inv, Types, Holds
        <4>2. h => Expiry(User(c), h) <= load.until[User(c)]
          BY <4>1, ExpiryFacts, Zenon
        <4>3. h => now <= load.until[User(c)]
          BY <4>1 DEF Holds
        <4>4. load' = load /\ User(c)' = User(c)
          BY Rigid, Zenon DEF Frozen
        <4> QED BY <3>1, <4>2, <4>3, <4>4, Zenon DEF WindowOK
      <3>2. CASE Bad
        BY <3>2, WindowSelf, Zenon DEF Frozen, SameRead
      <3> QED BY <3>1, <3>2, Zenon
    <2> QED BY <2>3, <2>4, <2>5, <2>6, ShapeMove, Zenon DEF Frozen, Slotted
  <1>4. ASSUME Current PROVE Current'
    <2> USE <1>2, <1>4
    <2> DEFINE h == Holds(User(c), now)
               Good == /\ st'[c].readAt = now
                       /\ st'[c].pc = IF h THEN "grants" ELSE AfterReads(c)
                       /\ st'[c].perms.member <=> h
                       /\ st'[c].perms.grant = "none"
               Bad == st'[c].pc = "broadcast" /\ st'[c].err
    <2>1. /\ Others(c) /\ Frozen /\ UNCHANGED upper /\ st[c].pc = "memberships"
          /\ st'[c].fit = st[c].fit /\ (Good \/ Bad)
      BY <1>1, Zenon DEF Inv
    <2>2. Op(c) \in Reads /\ st'[c].fit
      BY <2>1, ReadersActive, Zenon DEF Reading, Current
    <2>3. CASE Bad
      BY <2>1, <2>2, <2>3, CurrentBlank, Zenon DEF Frozen, Past
    <2>4. CASE Good /\ h
      BY <2>1, <2>2, <2>4, CurrentReader, Zenon DEF Frozen, Past
    <2>5. CASE Good /\ ~h
      <3>1. Types /\ User(c) \in Users /\ st'[c].perms \in PermsType /\ now \in Nat
            /\ load.until[User(c)] \in Nat
        <4>1. Types /\ Types'
          BY DEF Inv
        <4> QED BY <4>1, LoadFacts DEF Types, CallState
      <3>2. ~st'[c].perms.member
        BY <2>5
      <3>3. Sound(User(c), st'[c].perms)
        BY <2>5, <3>1, <3>2 DEF Sound, Holds
      <3>4. \E v \in Due(c, now) : View(st'[c].perms) \in Shown(v)
        BY <3>1, <3>2, <3>3, SoundFits
      <3>5. st'[c].pc \notin {"grants", "wait"}
        BY <2>5 DEF AfterReads
      <3> QED BY <2>1, <2>2, <2>5, <3>3, <3>4, <3>5, CurrentReader, Zenon DEF Frozen
    <2> QED BY <2>1, <2>3, <2>4, <2>5, Zenon
  <1>5. Others(c) /\ load' = load /\ (Fault \/ NoFault) /\ st'[c].before = st[c].before
        /\ st'[c].pc \in {"grants", "lock", "broadcast"}
    BY <1>1, Zenon DEF Frozen, SameNotes, AfterReads
  <1> QED BY <1>2, <1>3, <1>4, <1>5, FullStep

\* The invariant is kept when the grants are read (computePermissions).
LEMMA ReadGrantsKept == ASSUME Full, NEW c \in Calls, ReadGrants(c) PROVE Full'
  <1>0. Inv /\ Shape /\ Types
    BY DEF Full, Inv
  <1> USE <1>0
  <1>1. /\ Types' /\ Others(c) /\ Frozen /\ UNCHANGED <<upper, flight>> /\ (Fault \/ NoFault)
        /\ st[c].pc = "grants" /\ Same(st'[c], st[c]) /\ SameNotes(st'[c], st[c])
        /\ st'[c].snap = st[c].snap /\ st'[c].known = st[c].known
        /\ st'[c].fit = st[c].fit /\ st'[c].wait = st[c].wait /\ st'[c].readAt = st[c].readAt
        /\ \/ /\ st'[c].pc = AfterReads(c) /\ st'[c].err = st[c].err
              /\ st'[c].perms.member /\ st'[c].perms.grant = grant
              /\ st'[c].perms.exp <= load.until[User(c)]
           \/ st'[c].pc = "broadcast" /\ st'[c].err /\ SameRead(st'[c], st[c])
    <2> DEFINE x == Expiry(User(c), TRUE)
               m == [member |-> TRUE, grant |-> grant, exp |-> x]
               p == AfterReads(c)
    <2>1. /\ st[c].pc = "grants" /\ Frozen /\ UNCHANGED <<upper, flight>>
          /\ st \in [Calls -> CallState] /\ grant \in Grants /\ p \in Stages
      BY DEF ReadGrants, At, Frozen, Rest, tables, shared, Types, Stages, AfterReads
    <2> USE <2>1
    <2>2. (NoFault /\ Set(c, [st[c] EXCEPT !.pc = p, !.perms = m])) \/ Failed(c)
      BY DEF ReadGrants
    <2>3. x \in Nat /\ x <= load.until[User(c)]
      BY ExpiryFacts, LoadFacts, Zenon DEF Types
    <2> HIDE DEF x, p
    <2>4. m \in PermsType /\ m.member /\ m.grant = grant /\ m.exp = x
      BY <2>3 DEF PermsType
    <2> HIDE DEF m
    <2>5. CASE NoFault /\ Set(c, [st[c] EXCEPT !.pc = p, !.perms = m])
      <3> USE <2>4, <2>5
      <3>1. /\ st' \in [Calls -> CallState] /\ Others(c) /\ st'[c].pc = p /\ st'[c].perms = m
            /\ Same(st'[c], st[c]) /\ SameNotes(st'[c], st[c]) /\ st'[c].readAt = st[c].readAt
            /\ st'[c].snap = st[c].snap /\ st'[c].known = st[c].known
            /\ st'[c].err = st[c].err /\ st'[c].fit = st[c].fit /\ st'[c].wait = st[c].wait
        <4> DEFINE s == st[c]
                   rec == [s EXCEPT !.pc = p, !.perms = m]
        <4>1. s \in CallState /\ Set(c, rec)
          BY DEF Types
        <4> USE <4>1
        <4> HIDE DEF s
        <4>2. rec \in CallState
          BY Zenon DEF CallState, Stages
        <4>3. /\ rec.pc = p /\ rec.perms = m /\ Same(rec, s) /\ rec.readAt = s.readAt
              /\ rec.snap = s.snap /\ rec.known = s.known /\ SameNotes(rec, s)
              /\ rec.err = s.err /\ rec.fit = s.fit /\ rec.wait = s.wait
          BY DEF CallState, Same, SameNotes
        <4> HIDE DEF rec
        <4>4. st' \in [Calls -> CallState] /\ st'[c] = rec /\ Others(c)
          BY <4>2, SetFacts DEF Types
        <4> QED BY <4>3, <4>4 DEF s
      <3>2. Types'
        BY <3>1, LightTypes, ZenonT(30) DEF Types, Frozen
      <3> QED BY <2>3, <3>1, <3>2 DEF p
    <2>6. CASE Failed(c)
      <3>1. /\ Types' /\ Others(c) /\ Fault /\ Same(st'[c], st[c]) /\ SameNotes(st'[c], st[c])
            /\ SameRead(st'[c], st[c]) /\ st'[c].fit = st[c].fit /\ st'[c].wait = st[c].wait
            /\ st'[c].pc = "broadcast" /\ st'[c].err
        BY <2>6, FailedStep, Zenon
      <3> QED BY <3>1, Zenon DEF SameRead
    <2> QED BY <2>2, <2>5, <2>6, ZenonT(30)
  <1>2. Inv'
    <2>1. /\ Types' /\ Others(c) /\ Frozen /\ st[c].pc = "grants" /\ Same(st'[c], st[c])
          /\ st'[c].snap = st[c].snap /\ st'[c].known = st[c].known
          /\ \/ /\ st'[c].pc = AfterReads(c)
                /\ st'[c].perms.member /\ st'[c].perms.grant = grant
                /\ st'[c].perms.exp <= load.until[User(c)]
             \/ st'[c].pc = "broadcast"
      BY <1>1, Zenon DEF Inv
    <2> USE <2>1
    <2>2. CASE st'[c].pc = "broadcast"
      BY <2>2, MoveInv, Zenon DEF Reading
    <2>3. CASE st'[c].pc = "lock"
      <3>1. /\ st[c].known /\ st'[c].perms.member /\ st'[c].perms.grant = grant
            /\ st'[c].perms.exp <= load.until[User(c)]
        BY <2>3, ZenonT(30) DEF AfterReads
      <3>2. Free(st[c]) /\ CallOK(c) /\ ReadOK(c)
        BY FreeNow, Zenon DEF Inv
      <3>3. Light(c)
        BY <2>3, <3>2, Zenon DEF Light, Free, Same, Frozen
      <3>4. Op(c)' = Op(c) /\ User(c)' = User(c)
        BY Rigid, Zenon DEF Frozen
      <3>5. CallOK(c)'
        <4> USE <3>2
        <4>1. st'[c].known /\ st'[c].snap <= gen'
          BY <3>1, Zenon DEF CallOK, Frozen
        <4>2. ~st'[c].share /\ ~st'[c].counter /\ st'[c].del = {} /\ st'[c].owes = st[c].owes
          BY ZenonT(30) DEF Same, Free
        <4> QED BY <2>3, <3>4, <4>1, <4>2, Zenon DEF CallOK
      <3>6. ReadOK(c)'
        <4>1. CASE st[c].snap # gen
          BY <4>1, Zenon DEF ReadOK, Frozen
        <4>2. CASE st[c].snap = gen
          <5>1. User(c) \in members \/ Pending(User(c))
            BY <3>1, <3>2, <4>2, Zenon DEF ReadOK
          <5>2. CASE User(c) \in members
            <6>1. Right(User(c), st[c].perms)'
              BY <3>1, <3>4, <5>2, Zenon DEF Right, Frozen
            <6> QED BY <2>3, <6>1, ZenonT(30) DEF ReadOK
          <5>3. CASE Pending(User(c))
            <6>1. Pending(User(c))'
              <7>1. \A d \in Calls : st'[d].owes = st[d].owes /\ Op(d)' = Op(d)
                BY Rigid, ZenonT(30) DEF Others, Same, Frozen
              <7>2. \A d \in Calls : st[d].pc # "deleteOnly" => st'[d].pc # "deleteOnly"
                BY <2>3, ZenonT(30) DEF Others
              <7> QED BY <3>4, <5>3, <7>1, <7>2, Zenon DEF Pending, Reaches, Frozen
            <6> QED BY <2>3, <6>1, ZenonT(30) DEF ReadOK
          <5> QED BY <5>1, <5>2, <5>3, ZenonT(30)
        <4> QED BY <4>1, <4>2, ZenonT(30)
      <3> QED BY <3>3, <3>5, <3>6, LightInv, ZenonT(30)
    <2> QED BY <2>2, <2>3, ZenonT(30) DEF AfterReads
  <1>3. Shape'
    <2> DEFINE Good == /\ st'[c].pc = AfterReads(c) /\ st'[c].err = st[c].err
                       /\ st'[c].perms.member /\ st'[c].perms.exp <= load.until[User(c)]
               Bad == st'[c].pc = "broadcast" /\ st'[c].err /\ SameRead(st'[c], st[c])
    <2>1. /\ Others(c) /\ Frozen /\ UNCHANGED <<upper, flight>> /\ st[c].pc = "grants"
          /\ SameNotes(st'[c], st[c]) /\ st'[c].wait = st[c].wait /\ st'[c].readAt = st[c].readAt
          /\ (Good \/ Bad)
      BY <1>1, Zenon DEF Inv
    <2> USE <2>1
    <2>2. Op(c) \in Reads /\ ~st[c].done /\ ~st[c].err /\ st[c].perms.member
      BY Zenon DEF Shape, ShapeOK, Reading
    <2>3. ~st'[c].done /\ st'[c].before = st[c].before /\ st'[c].own = st[c].own
      BY <2>2, Zenon DEF SameNotes
    <2>4. st'[c].pc \in {"lock", "broadcast"} /\ (st'[c].err => st'[c].pc = "broadcast")
      BY <2>2, Zenon DEF AfterReads
    <2>5. ShapeOK(c)'
      BY <2>2, <2>3, <2>4, ShapeSelf, Zenon DEF Frozen
    <2>6. WindowOK(c)'
      <3>1. CASE Good
        <4>1. load' = load /\ User(c)' = User(c)
          BY Rigid, Zenon DEF Frozen
        <4>2. ~load.redis => st[c].readAt <= load.until[User(c)]
          BY <2>2, Zenon DEF Shape, WindowOK
        <4> QED BY <3>1, <4>1, <4>2, Zenon DEF WindowOK
      <3>2. CASE Bad
        BY <3>2, WindowSelf, Zenon DEF Frozen, SameRead
      <3> QED BY <3>1, <3>2, Zenon
    <2> QED BY <2>3, <2>4, <2>5, <2>6, ShapeMove, Zenon DEF Frozen, Slotted
  <1>4. ASSUME Current PROVE Current'
    <2> USE <1>2, <1>4
    <2> DEFINE Good == /\ st'[c].pc = AfterReads(c) /\ st'[c].perms.member /\ st'[c].perms.grant = grant
               Bad == st'[c].pc = "broadcast" /\ st'[c].err
               t == st[c].readAt
    <2>1. /\ Others(c) /\ Frozen /\ UNCHANGED upper /\ st[c].pc = "grants"
          /\ st'[c].fit = st[c].fit /\ st'[c].readAt = t /\ (Good \/ Bad)
      BY <1>1, Zenon DEF Inv
    <2>2. Op(c) \in Reads /\ st'[c].fit
      BY <2>1, ReadersActive, Zenon DEF Reading, Current
    <2>3. CASE Bad
      BY <2>1, <2>2, <2>3, CurrentBlank, ZenonT(30) DEF Frozen, Past
    <2>4. CASE Good
      <3>1. User(c) \in Users /\ st'[c].perms \in PermsType /\ t \in Nat
            /\ load.until[User(c)] \in Nat
        <4>1. Types /\ Types'
          BY DEF Inv
        <4> QED BY <4>1, LoadFacts, Zenon DEF Types, CallState
      <3>2. Holds(User(c), t)
        BY <2>1, <2>2, Zenon DEF Current, At
      <3>3. Sound(User(c), st'[c].perms)
        BY <2>4, <3>1, <3>2 DEF Sound, Holds
      <3>4. View(st'[c].perms) = Facts(User(c), t)
        <4>1. View(st'[c].perms) = [member |-> TRUE, grant |-> grant]
          BY <2>4, <3>1, ZenonT(30) DEF View, PermsType
        <4> QED BY <3>2, <4>1 DEF Facts
      <3>5. \E v \in Due(c, t) : View(st'[c].perms) \in Shown(v)
        BY <3>4 DEF Due, Shown
      <3>6. st'[c].pc \notin {"grants", "wait"}
        BY <2>4 DEF AfterReads
      <3> QED BY <2>1, <2>2, <2>4, <3>3, <3>5, <3>6, CurrentReader, Zenon DEF Frozen
    <2> QED BY <2>1, <2>3, <2>4, ZenonT(30)
  <1>5. Others(c) /\ load' = load /\ (Fault \/ NoFault) /\ st'[c].before = st[c].before
        /\ st'[c].pc \in {"lock", "broadcast"}
    BY <1>1, Zenon DEF Frozen, SameNotes, AfterReads
  <1> QED BY <1>2, <1>3, <1>4, <1>5, FullStep, Zenon

\* The invariant is kept when the generation is locked and compared (SetCachedPermissionsAtGeneration).
LEMMA LockGenerationKept == ASSUME Full, NEW c \in Calls, LockGeneration(c) PROVE Full'
  <1>0. Inv /\ Shape /\ Types
    BY DEF Full, Inv
  <1> USE <1>0
  <1>1. /\ Types' /\ Others(c) /\ Frozen /\ UNCHANGED <<upper, flight>> /\ (Fault \/ NoFault)
        /\ st[c].pc = "lock" /\ SameRead(st'[c], st[c]) /\ SameNotes(st'[c], st[c])
        /\ SameEnd(st'[c], st[c])
        /\ \/ /\ Counting = {} /\ gen = st[c].snap /\ st'[c].pc = "upsert" /\ st'[c].share
              /\ st'[c].counter = st[c].counter /\ st'[c].del = st[c].del
              /\ st'[c].owes = st[c].owes
           \/ st'[c].pc = "broadcast" /\ Same(st'[c], st[c])
    <2>1. /\ st[c].pc = "lock" /\ Frozen /\ UNCHANGED <<upper, flight>> /\ (Fault \/ NoFault)
          /\ st \in [Calls -> CallState] /\ "upsert" \in Stages /\ "broadcast" \in Stages
      BY DEF LockGeneration, At, Frozen, Rest, tables, shared, Types, Stages
    <2> USE <2>1
    <2>2. \/ Counting = {} /\ gen = st[c].snap /\ Set(c, [st[c] EXCEPT !.pc = "upsert", !.share = TRUE])
          \/ Goto(c, "broadcast")
      BY DEF LockGeneration
    <2>3. /\ st' \in [Calls -> CallState] /\ Others(c)
          /\ SameRead(st'[c], st[c]) /\ SameNotes(st'[c], st[c]) /\ SameEnd(st'[c], st[c])
          /\ \/ /\ Counting = {} /\ gen = st[c].snap /\ st'[c].pc = "upsert" /\ st'[c].share
                /\ st'[c].counter = st[c].counter /\ st'[c].del = st[c].del
                /\ st'[c].owes = st[c].owes
             \/ st'[c].pc = "broadcast" /\ Same(st'[c], st[c])
      <3>1. CASE Counting = {} /\ gen = st[c].snap /\ Set(c, [st[c] EXCEPT !.pc = "upsert", !.share = TRUE])
        <4> USE <3>1
        <4> DEFINE s == st[c]
                   yes == TRUE
                   rec == [s EXCEPT !.pc = "upsert", !.share = yes]
        <4>1. s \in CallState /\ Set(c, rec) /\ yes \in BOOLEAN /\ yes
          BY DEF Types
        <4> USE <4>1
        <4> HIDE DEF s, yes
        <4>2. rec \in CallState
          BY Zenon DEF CallState, Stages
        <4>3. /\ rec.pc = "upsert" /\ rec.share /\ rec.counter = s.counter /\ rec.del = s.del
              /\ rec.owes = s.owes /\ SameRead(rec, s) /\ SameNotes(rec, s) /\ rec.err = s.err
              /\ rec.fit = s.fit /\ rec.wait = s.wait
          BY DEF CallState, SameRead, SameNotes
        <4> HIDE DEF rec
        <4>4. st' \in [Calls -> CallState] /\ st'[c] = rec /\ Others(c)
          BY <4>2, SetFacts DEF Types
        <4> QED BY <4>3, <4>4 DEF s, SameEnd
      <3>2. CASE Goto(c, "broadcast")
        BY <3>2, GotoFacts, ZenonT(30) DEF SameEnd
      <3> QED BY <2>2, <3>1, <3>2
    <2>4. Types'
      BY <2>3, LightTypes, ZenonT(30) DEF Types, Frozen
    <2> QED BY <2>3, <2>4, ZenonT(30)
  <1>2. Inv'
    <2>1. /\ Types' /\ Others(c) /\ Frozen /\ st[c].pc = "lock" /\ SameRead(st'[c], st[c])
          /\ \/ /\ Counting = {} /\ gen = st[c].snap /\ st'[c].pc = "upsert" /\ st'[c].share
                /\ st'[c].counter = st[c].counter /\ st'[c].del = st[c].del
                /\ st'[c].owes = st[c].owes
             \/ st'[c].pc = "broadcast" /\ Same(st'[c], st[c])
      BY <1>1, Zenon DEF Inv
    <2> USE <2>1
    <2>2. CASE st'[c].pc = "broadcast" /\ Same(st'[c], st[c])
      BY <2>2, MoveInv, ZenonT(30) DEF Reading, SameRead
    <2>3. CASE /\ Counting = {} /\ gen = st[c].snap /\ st'[c].pc = "upsert" /\ st'[c].share
               /\ st'[c].counter = st[c].counter /\ st'[c].del = st[c].del
               /\ st'[c].owes = st[c].owes
      <3> USE <2>3
      <3>1. CallOK(c) /\ ReadOK(c) /\ Free(st[c])
        BY FreeNow, Zenon DEF Inv
      <3>2. /\ UNCHANGED <<load, members, grant, gen, rows, now>>
            /\ Op(c)' = Op(c) /\ User(c)' = User(c) /\ (Pending(User(c)) => Pending(User(c))')
        BY SteadyFacts, Zenon DEF Frozen
      <3>3. st[c].known /\ st'[c].known /\ st'[c].snap = gen' /\ st'[c].snap <= gen'
        BY <3>1, <3>2, Zenon DEF CallOK, SameRead
      <3>4. CallOK(c)'
        <4>1. ~st'[c].counter /\ st'[c].del = {}
          BY <3>1, Zenon DEF Free
        <4> QED BY <3>1, <3>2, <3>3, <4>1, Zenon DEF CallOK
      <3>5. ReadOK(c)'
        <4>1. Right(User(c), st[c].perms) \/ Pending(User(c))
          BY <3>1, <3>3, Zenon DEF ReadOK
        <4>2. Right(User(c), st[c].perms) => Right(User(c), st[c].perms)'
          BY <3>2, Zenon DEF Right, SameRead
        <4> QED BY <3>2, <4>1, <4>2, Zenon DEF ReadOK
      <3>6. SweptBy(c)'
        BY Zenon DEF SweptBy
      <3>7. Exclusive'
        <4>1. \A d \in Calls : ~st[d].counter
          BY ZenonT(30) DEF Counting
        <4>2. \A d \in Calls : ~st'[d].counter
          BY <4>1, ZenonT(30) DEF Others
        <4> QED BY <4>2, ZenonT(30) DEF Exclusive
      <3> QED BY <3>2, <3>4, <3>5, <3>6, <3>7, SteadyInv, Zenon
    <2> QED BY <2>2, <2>3, Zenon
  <1>3. Shape'
    <2>1. /\ Others(c) /\ Frozen /\ UNCHANGED <<upper, flight>> /\ st[c].pc = "lock"
          /\ SameRead(st'[c], st[c]) /\ SameNotes(st'[c], st[c]) /\ SameEnd(st'[c], st[c])
          /\ st'[c].pc \in {"upsert", "broadcast"}
      BY <1>1, Zenon DEF Inv
    <2> USE <2>1
    <2>2. Op(c) \in Reads /\ ~st[c].done /\ ~st[c].err
      BY Zenon DEF Shape, ShapeOK, Reading
    <2>3. ShapeOK(c)'
      BY <2>2, ShapeSelf, Zenon DEF Frozen, SameNotes, SameEnd
    <2>4. WindowOK(c)'
      BY WindowSelf, Zenon DEF Frozen, SameRead
    <2> QED BY <2>3, <2>4, ShapeMove, Zenon DEF Frozen, Slotted, SameNotes
  <1>4. ASSUME Current PROVE Current'
    <2> USE <1>2, <1>4
    <2>1. /\ Others(c) /\ Frozen /\ UNCHANGED upper /\ st[c].pc = "lock"
          /\ SameRead(st'[c], st[c]) /\ SameEnd(st'[c], st[c]) /\ st'[c].pc \in {"upsert", "broadcast"}
      BY <1>1, Zenon DEF Inv
    <2>2. Op(c) \in Reads /\ st'[c].fit
      BY <2>1, ReadersActive, Zenon DEF Reading, Current, SameEnd
    <2> QED BY <2>1, <2>2, CurrentKeep, Zenon DEF Frozen, Past, SameRead, SameEnd
  <1>5. Others(c) /\ load' = load /\ (Fault \/ NoFault) /\ st'[c].before = st[c].before
        /\ st'[c].pc \in {"upsert", "broadcast"}
    BY <1>1, Zenon DEF Frozen, SameNotes
  <1> QED BY <1>2, <1>3, <1>4, <1>5, FullStep, Zenon

\* The invariant is kept when the row is written (SetCachedPermissionsAtGeneration).
LEMMA UpsertKept == ASSUME Full, NEW c \in Calls, Upsert(c) PROVE Full'
  <1>0. Inv /\ Shape /\ Types
    BY DEF Full, Inv
  <1> USE <1>0
  <1>1. /\ Types' /\ Others(c) /\ UNCHANGED <<load, members, grant, gen, now, upper, flight>>
        /\ (Fault \/ NoFault) /\ st[c].pc = "upsert" /\ st'[c].pc = "broadcast"
        /\ ~st'[c].share /\ st'[c].counter = st[c].counter /\ st'[c].del = st[c].del
        /\ st'[c].owes = st[c].owes
        /\ SameRead(st'[c], st[c]) /\ SameNotes(st'[c], st[c]) /\ SameEnd(st'[c], st[c])
        /\ \/ rows' = [rows EXCEPT ![User(c)] = [some |-> TRUE, perms |-> st[c].perms,
                                                 exp |-> st[c].perms.exp]]
           \/ rows' = rows
    <2>1. /\ st[c].pc = "upsert" /\ UNCHANGED <<load, members, grant, gen, now, upper, flight>>
          /\ st \in [Calls -> CallState] /\ "broadcast" \in Stages /\ (Fault \/ NoFault)
      BY DEF Upsert, At, Rest, tables, Types, Stages
    <2> USE <2>1
    <2> DEFINE e == [some |-> TRUE, perms |-> st[c].perms, exp |-> st[c].perms.exp]
    <2>2. \/ rows' = [rows EXCEPT ![User(c)] = e] /\ Set(c, [st[c] EXCEPT !.pc = "broadcast", !.share = FALSE, !.ok = TRUE])
          \/ rows' = rows /\ Set(c, [st[c] EXCEPT !.pc = "broadcast", !.share = FALSE])
      BY DEF Upsert
    <2>3. /\ st' \in [Calls -> CallState] /\ Others(c) /\ st'[c].pc = "broadcast"
          /\ ~st'[c].share /\ st'[c].counter = st[c].counter /\ st'[c].del = st[c].del
          /\ st'[c].owes = st[c].owes
          /\ SameRead(st'[c], st[c]) /\ SameNotes(st'[c], st[c]) /\ SameEnd(st'[c], st[c])
      <3>1. CASE Set(c, [st[c] EXCEPT !.pc = "broadcast", !.share = FALSE, !.ok = TRUE])
        <4> USE <3>1
        <4> DEFINE s == st[c]
                   no == FALSE
                   yes == TRUE
                   rec == [s EXCEPT !.pc = "broadcast", !.share = no, !.ok = yes]
        <4>1. s \in CallState /\ Set(c, rec) /\ no \in BOOLEAN /\ ~no /\ yes \in BOOLEAN /\ yes
          BY DEF Types
        <4> USE <4>1
        <4> HIDE DEF s, no, yes
        <4>2. rec \in CallState
          BY Zenon DEF CallState, Stages
        <4>3. /\ rec.pc = "broadcast" /\ ~rec.share /\ rec.counter = s.counter
              /\ rec.del = s.del /\ rec.owes = s.owes /\ SameRead(rec, s) /\ SameNotes(rec, s)
              /\ rec.err = s.err /\ rec.fit = s.fit /\ rec.wait = s.wait
          BY DEF CallState, SameRead, SameNotes
        <4> HIDE DEF rec
        <4>4. st' \in [Calls -> CallState] /\ st'[c] = rec /\ Others(c)
          BY <4>2, SetFacts DEF Types
        <4> QED BY <4>3, <4>4 DEF s, SameEnd
      <3>2. CASE Set(c, [st[c] EXCEPT !.pc = "broadcast", !.share = FALSE])
        <4> USE <3>2
        <4> DEFINE s == st[c]
                   no == FALSE
                   rec == [s EXCEPT !.pc = "broadcast", !.share = no]
        <4>1. s \in CallState /\ Set(c, rec) /\ no \in BOOLEAN /\ ~no
          BY DEF Types
        <4> USE <4>1
        <4> HIDE DEF s, no
        <4>2. rec \in CallState
          BY Zenon DEF CallState, Stages
        <4>3. /\ rec.pc = "broadcast" /\ ~rec.share /\ rec.counter = s.counter
              /\ rec.del = s.del /\ rec.owes = s.owes /\ SameRead(rec, s) /\ SameNotes(rec, s)
              /\ rec.err = s.err /\ rec.fit = s.fit /\ rec.wait = s.wait
          BY DEF CallState, SameRead, SameNotes
        <4> HIDE DEF rec
        <4>4. st' \in [Calls -> CallState] /\ st'[c] = rec /\ Others(c)
          BY <4>2, SetFacts DEF Types
        <4> QED BY <4>3, <4>4 DEF s, SameEnd
      <3> QED BY <2>2, <3>1, <3>2
    <2>4. rows' \in [Users -> EntryType]
      <3>1. st[c].perms \in PermsType /\ rows \in [Users -> EntryType]
        BY DEF CallState, Types
      <3>2. e \in EntryType
        BY <3>1, Zenon DEF EntryType, PermsType
      <3> HIDE DEF e
      <3> QED BY <2>2, <3>1, <3>2
    <2>5. faults' \in 0..load.faults
      BY LoadFacts DEF Types, Fault, NoFault
    <2>6. Types'
      BY <2>3, <2>4, <2>5 DEF Types
    <2> QED BY <2>2, <2>3, <2>6
  <1>2. Inv'
    <2> DEFINE e == [some |-> TRUE, perms |-> st[c].perms, exp |-> st[c].perms.exp]
    <2>1. /\ Types' /\ Others(c) /\ UNCHANGED <<load, members, grant, gen, now>>
          /\ st[c].pc = "upsert" /\ st'[c].pc = "broadcast"
          /\ ~st'[c].share /\ st'[c].counter = st[c].counter /\ st'[c].del = st[c].del
          /\ st'[c].owes = st[c].owes /\ SameRead(st'[c], st[c])
          /\ (rows' = [rows EXCEPT ![User(c)] = e] \/ rows' = rows)
      BY <1>1, Zenon DEF Inv
    <2>2. CallOK(c) /\ ReadOK(c) /\ Types
      BY DEF Inv
    <2>3. st[c].share /\ ~st[c].counter /\ st[c].del = {} /\ st[c].known /\ st[c].snap = gen
      BY <2>1, <2>2, Zenon DEF CallOK
    <2>4. /\ \A d \in Calls : Op(d)' = Op(d) /\ User(d)' = User(d)
          /\ \A u : (Owing(u)' <=> Owing(u)) /\ (Joining(u)' <=> Joining(u))
          /\ \A d \in Calls : d # c => CallOK(d)' /\ ReadOK(d)'
      BY <2>1, SteadyFacts, Zenon
    <2>5. CallOK(c)'
      <3>1. ~st'[c].counter /\ st'[c].del = {} /\ st'[c].snap <= gen'
        BY <2>1, <2>2, <2>3, Zenon DEF SameRead, CallOK
      <3> QED BY <2>1, <2>2, <2>4, <3>1, Zenon DEF CallOK
    <2>6. ReadOK(c)'
      BY <2>1, Zenon DEF ReadOK
    <2>7. \A d \in Calls : SweptBy(d)'
      <3>1. \A d \in Calls : ~st[d].counter
        BY <2>3 DEF Inv, Exclusive
      <3>2. \A d \in Calls : st[d].pc # "commit"
        BY <3>1, Zenon DEF Inv, CallOK
      <3>3. \A d \in Calls : st'[d].pc # "commit"
        BY <2>1, <3>2 DEF Others
      <3> QED BY <3>3 DEF SweptBy
    <2>8. Exclusive'
      BY <2>1, <2>3, Zenon DEF Inv, Exclusive, Others
    <2>9. ASSUME NEW u \in Users PROVE RowOK(u)'
      <3>1. RowOK(u) /\ rows \in [Users -> EntryType]
        BY <2>2 DEF Inv, Types
      <3>2. CASE rows'[u] = rows[u]
        <4>1. Right(u, rows[u].perms)' <=> Right(u, rows[u].perms)
          BY <2>1, <3>2, Zenon DEF Right
        <4> QED BY <2>4, <3>1, <3>2, <4>1, Zenon DEF RowOK
      <3>3. CASE u = User(c) /\ rows'[u] = e
        <4>1. Right(u, st[c].perms) \/ Pending(u)
          BY <2>1, <2>2, <2>3, <3>3, Zenon DEF ReadOK
        <4>2. Pending(u) => Owing(u)
          BY DEF Pending, Owing
        <4>3. rows'[u].perms = st[c].perms /\ rows'[u].exp = rows'[u].perms.exp
          BY <3>3
        <4>4. Right(u, st[c].perms) => Right(u, rows[u].perms)'
          BY <2>1, <4>3, Zenon DEF Right
        <4> QED BY <2>4, <4>1, <4>2, <4>3, <4>4, Zenon DEF RowOK
      <3> QED BY <2>1, <3>1, <3>2, <3>3, Zenon
    <2>10. \A d \in Calls : CallOK(d)' /\ ReadOK(d)'
      BY <2>4, <2>5, <2>6
    <2> QED BY <2>1, <2>7, <2>8, <2>9, <2>10, Zenon DEF Inv
  <1>3. Shape'
    <2> DEFINE row == [some |-> TRUE, perms |-> st[c].perms, exp |-> st[c].perms.exp]
    <2>1. /\ Others(c) /\ UNCHANGED <<load, upper, flight>> /\ st[c].pc = "upsert"
          /\ st'[c].pc = "broadcast" /\ SameRead(st'[c], st[c]) /\ SameNotes(st'[c], st[c])
          /\ SameEnd(st'[c], st[c]) /\ (rows' = [rows EXCEPT ![User(c)] = row] \/ rows' = rows)
      BY <1>1, Zenon DEF Inv
    <2> USE <2>1
    <2>2. Op(c) \in Reads /\ ~st[c].done /\ ~st[c].err
      BY Zenon DEF Shape, ShapeOK, Reading
    <2>3. ShapeOK(c)'
      BY <2>2, ShapeSelf, Zenon DEF SameNotes, SameEnd
    <2>4. WindowOK(c)'
      BY WindowSelf, Zenon DEF SameRead
    <2>5. ASSUME NEW u \in Users PROVE RowWindow(u)'
      <3>1. CASE rows'[u] = rows[u]
        BY <3>1, Zenon DEF Shape, RowWindow
      <3>2. CASE u = User(c) /\ rows'[u] = row
        <4>1. WindowOK(c)
          BY DEF Shape
        <4> QED BY <3>2, <4>1 DEF RowWindow, WindowOK
      <3>3. rows'[u] = rows[u] \/ (u = User(c) /\ rows'[u] = row)
        <4>1. rows \in [Users -> EntryType]
          BY DEF Inv, Types
        <4> HIDE DEF row
        <4> QED BY <4>1
      <3> QED BY <3>1, <3>2, <3>3
    <2>6. FlightOK'
      BY FlightStays, Zenon DEF Slotted, SameNotes
    <2>7. \A p \in Places, u \in Users : UpperOK(p, u)'
      BY UpperShrinks
    <2> QED BY <2>3, <2>4, <2>5, <2>6, <2>7, ShapeStep, Zenon
  <1>4. ASSUME Current PROVE Current'
    <2> USE <1>2, <1>4
    <2>1. /\ Others(c) /\ UNCHANGED <<load, members, grant, now, upper>> /\ st[c].pc = "upsert"
          /\ SameRead(st'[c], st[c]) /\ SameEnd(st'[c], st[c]) /\ st'[c].pc = "broadcast"
      BY <1>1, Zenon DEF Inv
    <2>2. Op(c) \in Reads /\ st'[c].fit
      BY <2>1, ReadersActive, Zenon DEF Reading, Current, SameEnd
    <2> QED BY <2>1, <2>2, CurrentKeep, Zenon DEF Past, SameRead, SameEnd
  <1>5. Others(c) /\ load' = load /\ (Fault \/ NoFault) /\ st'[c].before = st[c].before
        /\ st'[c].pc = "broadcast"
    BY <1>1, Zenon DEF SameNotes
  <1> QED BY <1>2, <1>3, <1>4, <1>5, FullStep, Zenon

\* The invariant is kept when the waiters are woken (resolveCacheable).
LEMMA BroadcastKept == ASSUME Full, NEW c \in Calls, Broadcast(c) PROVE Full'
  <1>0. Inv /\ Shape /\ Types
    BY DEF Full, Inv
  <1> USE <1>0
  <1>1. /\ Types' /\ Others(c) /\ Frozen /\ UNCHANGED <<upper, flight, faults>>
        /\ st[c].pc = "broadcast" /\ st'[c].pc = "remove" /\ Same(st'[c], st[c])
        /\ SameRead(st'[c], st[c]) /\ SameEnd(st'[c], st[c])
        /\ st'[c].own = st[c].own /\ st'[c].before = st[c].before
    <2>1. /\ st[c].pc = "broadcast" /\ Frozen /\ UNCHANGED <<upper, flight, faults>> /\ NoFault
          /\ st \in [Calls -> CallState] /\ "remove" \in Stages /\ st[c].own \in BOOLEAN
          /\ Set(c, [st[c] EXCEPT !.pc = "remove", !.done = st[c].own])
      BY DEF Broadcast, At, Frozen, Rest, tables, shared, Types, Stages, NoFault, CallState
    <2> USE <2>1
    <2>2. /\ st' \in [Calls -> CallState] /\ Others(c) /\ st'[c].pc = "remove" /\ Same(st'[c], st[c])
          /\ SameRead(st'[c], st[c]) /\ SameEnd(st'[c], st[c])
          /\ st'[c].own = st[c].own /\ st'[c].before = st[c].before
      <3> DEFINE s == st[c]
                 rec == [s EXCEPT !.pc = "remove", !.done = st[c].own]
      <3>1. s \in CallState /\ Set(c, rec)
        BY DEF Types
      <3> USE <3>1
      <3> HIDE DEF s
      <3>2. rec \in CallState
        BY Zenon DEF CallState, Stages
      <3>3. /\ rec.pc = "remove" /\ rec.done = st[c].own /\ Same(rec, s) /\ SameRead(rec, s)
            /\ rec.own = s.own /\ rec.before = s.before /\ rec.err = s.err /\ rec.fit = s.fit
            /\ rec.wait = s.wait
        BY DEF CallState, Same, SameRead
      <3> HIDE DEF rec
      <3>4. st' \in [Calls -> CallState] /\ st'[c] = rec /\ Others(c)
        BY <3>2, SetFacts DEF Types
      <3> QED BY <3>3, <3>4 DEF s, SameEnd
    <2>3. Types'
      BY <2>2, LightTypes DEF Types, Frozen
    <2> QED BY <2>2, <2>3
  <1>2. Inv'
    <2>1. /\ Types' /\ Others(c) /\ Frozen /\ st[c].pc = "broadcast" /\ st'[c].pc = "remove"
          /\ Same(st'[c], st[c]) /\ st'[c].snap = st[c].snap
      BY <1>1, Zenon DEF Inv, SameRead
    <2> QED BY <2>1, MoveInv DEF Reading
  <1>3. Shape'
    <2>1. /\ Others(c) /\ Frozen /\ UNCHANGED <<upper, flight>> /\ st[c].pc = "broadcast"
          /\ SameRead(st'[c], st[c]) /\ SameEnd(st'[c], st[c]) /\ st'[c].pc = "remove"
          /\ st'[c].own = st[c].own /\ st'[c].before = st[c].before
      BY <1>1, Zenon DEF Inv
    <2> USE <2>1
    <2>2. Op(c) \in Reads
      BY Zenon DEF Shape, ShapeOK, Reading
    <2>3. ShapeOK(c)'
      BY <2>2, ShapeSelf, Zenon DEF Frozen, SameEnd
    <2>4. WindowOK(c)'
      BY WindowSelf DEF Frozen, SameRead
    <2> QED BY <2>3, <2>4, ShapeMove, Zenon DEF Frozen, Slotted
  <1>4. ASSUME Current PROVE Current'
    <2> USE <1>2, <1>4
    <2>1. /\ Others(c) /\ Frozen /\ UNCHANGED upper /\ st[c].pc = "broadcast"
          /\ SameRead(st'[c], st[c]) /\ SameEnd(st'[c], st[c]) /\ st'[c].pc = "remove"
      BY <1>1, Zenon DEF Inv
    <2>2. Op(c) \in Reads /\ st'[c].fit
      BY <2>1, ReadersActive, Zenon DEF Reading, Current, SameEnd
    <2> QED BY <2>1, <2>2, CurrentKeep DEF Frozen, Past, SameRead, SameEnd
  <1>5. Others(c) /\ load' = load /\ NoFault /\ st'[c].before = st[c].before
        /\ st'[c].pc = "remove"
    BY <1>1, Zenon DEF Frozen, NoFault
  <1> QED BY <1>2, <1>3, <1>4, <1>5, FullStep

\* The invariant is kept when the slot is given up (resolveCacheable).
LEMMA RemoveEntryKept == ASSUME Full, NEW c \in Calls, RemoveEntry(c) PROVE Full'
  <1>0. Inv /\ Shape /\ Types
    BY DEF Full, Inv
  <1> USE <1>0
  <1>1. /\ Types' /\ Others(c) /\ Frozen /\ UNCHANGED <<upper, faults>>
        /\ st[c].pc = "remove" /\ Same(st'[c], st[c]) /\ SameRead(st'[c], st[c])
        /\ SameNotes(st'[c], st[c]) /\ st'[c].err = st[c].err
        /\ flight' = IF st[c].own THEN [flight EXCEPT ![Home(c)][User(c)] = "none"] ELSE flight
        /\ \/ st[c].err /\ st'[c].pc = "end" /\ st'[c].fit /\ st'[c].wait = "none"
           \/ /\ ~st[c].err /\ st'[c].pc = "store" /\ st'[c].fit = st[c].fit
              /\ st'[c].wait = st[c].wait
    <2>1. /\ st[c].pc = "remove" /\ Frozen /\ UNCHANGED <<upper, faults>> /\ NoFault
          /\ st \in [Calls -> CallState] /\ "store" \in Stages
          /\ flight' = IF st[c].own THEN [flight EXCEPT ![Home(c)][User(c)] = "none"] ELSE flight
          /\ IF st[c].err THEN Answer(c, st[c]) ELSE Goto(c, "store")
      BY DEF RemoveEntry, At, Frozen, Rest, tables, shared, Types, Stages, NoFault
    <2> USE <2>1
    <2>2. /\ st' \in [Calls -> CallState] /\ Others(c) /\ Same(st'[c], st[c])
          /\ SameRead(st'[c], st[c]) /\ SameNotes(st'[c], st[c]) /\ st'[c].err = st[c].err
          /\ \/ st[c].err /\ st'[c].pc = "end" /\ st'[c].fit /\ st'[c].wait = "none"
             \/ /\ ~st[c].err /\ st'[c].pc = "store" /\ st'[c].fit = st[c].fit
                /\ st'[c].wait = st[c].wait
      <3>1. CASE st[c].err
        <4>1. Answer(c, st[c]) /\ st[c] \in CallState
          BY <3>1
        <4> QED BY <3>1, <4>1, AnswerFacts, Zenon
      <3>2. CASE ~st[c].err
        <4>1. Goto(c, "store")
          BY <3>2
        <4> QED BY <3>2, <4>1, GotoFacts
      <3> QED BY <3>1, <3>2, Zenon
    <2>3. flight' \in [Replicas -> [Users -> Calls \cup {"none"}]]
      <3>1. flight \in [Replicas -> [Users -> Calls \cup {"none"}]] /\ Home(c) \in Replicas /\ User(c) \in Users
        BY LoadFacts DEF Types
      <3> QED BY <3>1
    <2>4. Types'
      BY <2>2, <2>3, LightTypes, Zenon DEF Types, Frozen
    <2> QED BY <2>2, <2>4
  <1>2. Inv'
    <2>1. /\ Types' /\ Others(c) /\ Frozen /\ st[c].pc = "remove" /\ st'[c].pc \in {"end", "store"}
          /\ Same(st'[c], st[c]) /\ st'[c].snap = st[c].snap
      BY <1>1 DEF Inv, SameRead
    <2> QED BY <2>1, MoveInv, Zenon DEF Reading
  <1>3. Shape'
    <2>1. /\ Others(c) /\ Frozen /\ UNCHANGED upper /\ st[c].pc = "remove"
          /\ SameRead(st'[c], st[c]) /\ SameNotes(st'[c], st[c]) /\ st'[c].err = st[c].err
          /\ flight' = IF st[c].own THEN [flight EXCEPT ![Home(c)][User(c)] = "none"] ELSE flight
          /\ st'[c].pc \in {"end", "store"} /\ (st'[c].pc = "store" => ~st[c].err)
          /\ st'[c].wait \in {st[c].wait, "none"}
      BY <1>1 DEF Inv
    <2> USE <2>1
    <2>2. Op(c) \in Reads
      BY DEF Shape, ShapeOK, Reading
    <2>3. ShapeOK(c)'
      BY <2>2, ShapeSelf DEF Frozen, SameNotes, Reading
    <2>4. WindowOK(c)'
      BY WindowSelf DEF Frozen, SameRead
    <2>5. \A p \in Places, u \in Users : UpperOK(p, u)'
      BY UpperShrinks DEF Frozen
    <2>6. \A u \in Users : RowWindow(u)'
      BY RowsShrink DEF Frozen
    <2>7. FlightOK'
      <3>0. User(c) \in Users /\ Home(c) \in Replicas /\ Types /\ Types'
        BY LoadFacts, <1>1, Zenon DEF Inv, Types
      <3> SUFFICES ASSUME NEW r \in Replicas, NEW u \in Users, NEW d \in Calls, flight'[r][u] = d
                   PROVE  /\ User(d)' = u /\ Home(d)' = r /\ Op(d)' \in Reads
                          /\ st'[d].own /\ st'[d].pc \in Slotted
        <4>1. \A r \in Replicas, u \in Users : flight'[r][u] # "none" => flight'[r][u] \in Calls
          BY <3>0 DEF Types
        <4> QED BY <4>1 DEF FlightOK
      <3>1. User(d)' = User(d) /\ Home(d)' = Home(d) /\ Op(d)' = Op(d)
        BY Rigid DEF Frozen
      <3>2. d # "none"
        BY PermissionCacheAssumption
      <3>3. flight[r][u] = d /\ ~(st[c].own /\ r = Home(c) /\ u = User(c))
        BY <3>0, <3>2 DEF Types
      <3>4. User(d) = u /\ Home(d) = r /\ Op(d) \in Reads /\ st[d].own /\ st[d].pc \in Slotted
        BY <3>2, <3>3, Zenon DEF Shape, FlightOK
      <3>5. d # c
        BY <3>3, <3>4
      <3> QED BY <3>1, <3>4, <3>5 DEF Others
    <2> QED BY <2>3, <2>4, <2>5, <2>6, <2>7, ShapeStep DEF Frozen
  <1>4. ASSUME Current PROVE Current'
    <2> USE <1>2, <1>4
    <2>1. /\ Others(c) /\ Frozen /\ UNCHANGED upper /\ st[c].pc = "remove"
          /\ SameRead(st'[c], st[c]) /\ st'[c].err = st[c].err /\ st'[c].pc \in {"end", "store"}
          /\ (st'[c].fit \/ st'[c].fit = st[c].fit)
      BY <1>1 DEF Inv
    <2>2. Op(c) \in Reads /\ st'[c].fit
      BY <2>1, ReadersActive, Zenon DEF Reading, Current
    <2> QED BY <2>1, <2>2, CurrentKeep DEF Frozen, Past, SameRead
  <1>5. Others(c) /\ load' = load /\ NoFault /\ st'[c].before = st[c].before
        /\ st'[c].pc \in {"end", "store"}
    BY <1>1 DEF Frozen, NoFault, SameNotes
  <1> QED BY <1>2, <1>3, <1>4, <1>5, FullStep, Zenon

\* The invariant is kept when the result is kept in front (SetWithTTL).
LEMMA SetUpperKept == ASSUME Full, NEW c \in Calls, SetUpper(c) PROVE Full'
  <1>0. Inv /\ Shape /\ Types
    BY DEF Full, Inv
  <1> USE <1>0
  <1>1. /\ Types' /\ Others(c) /\ Frozen /\ UNCHANGED flight /\ (Fault \/ NoFault)
        /\ st[c].pc = "store" /\ st'[c].pc = "end" /\ Same(st'[c], st[c])
        /\ SameRead(st'[c], st[c]) /\ SameNotes(st'[c], st[c]) /\ st'[c].err = st[c].err
        /\ st'[c].wait = "none" /\ (st'[c].fit <=> st[c].err \/ FitAt(c))
        /\ \A p \in Places, u \in Users :
              \/ upper'[p][u] = upper[p][u]
              \/ ~upper'[p][u].some
              \/ p = Place(c) /\ u = User(c) /\ upper'[p][u] = Entry(c)
    <2>1. /\ st[c].pc = "store" /\ Frozen /\ UNCHANGED flight /\ (Fault \/ NoFault)
          /\ st \in [Calls -> CallState] /\ st[c] \in CallState /\ Answer(c, st[c])
          /\ upper \in [Places -> [Users -> EntryType]]
      BY DEF SetUpper, At, Frozen, Rest, tables, shared, Types
    <2>2. /\ st' \in [Calls -> CallState] /\ Others(c) /\ st'[c].pc = "end" /\ Same(st'[c], st[c])
          /\ SameRead(st'[c], st[c]) /\ SameNotes(st'[c], st[c]) /\ st'[c].err = st[c].err
          /\ st'[c].wait = "none" /\ (st'[c].fit <=> st[c].err \/ FitAt(c))
      BY <2>1, AnswerFacts DEF FitAt
    <2> DEFINE Goal == /\ upper' \in [Places -> [Users -> EntryType]]
                       /\ \A p \in Places, u \in Users :
                             \/ upper'[p][u] = upper[p][u]
                             \/ ~upper'[p][u].some
                             \/ p = Place(c) /\ u = User(c) /\ upper'[p][u] = Entry(c)
    <2>3. Goal
      <3>1. CASE upper' = upper
        BY <2>1, <3>1
      <3>2. ASSUME NEW kept \in Evicted(Place(c), User(c)),
                   upper' = [upper EXCEPT ![Place(c)] = [kept EXCEPT ![User(c)] = Entry(c)]]
            PROVE  Goal
        <4>1. Place(c) \in Places /\ User(c) \in Users
          BY LoadFacts, Zenon DEF Types
        <4>2. Entry(c) \in EntryType
          <5>1. st[c].perms \in PermsType /\ now \in Nat /\ load.ttl \in Nat
            BY <2>1, LoadFacts DEF CallState, Types
          <5> DEFINE x == IF load.redis THEN now + load.ttl ELSE Least(now + load.ttl, st[c].perms.exp)
          <5>2. x \in Nat
            BY <5>1 DEF Least, PermsType
          <5> HIDE DEF x
          <5>3. [some |-> TRUE, perms |-> st[c].perms, exp |-> x] \in EntryType
            BY <5>1, <5>2 DEF EntryType
          <5> QED BY <5>3 DEF Entry, x
        <4>3. /\ kept \in [Users -> EntryType]
              /\ \A u \in Users : kept[u] = upper[Place(c)][u] \/ ~kept[u].some
          <5>1. NoEntry \in EntryType /\ ~NoEntry.some
            BY DEF NoEntry, EntryType, NoPerms, PermsType, Grants
          <5>2. kept = upper[Place(c)] \/ \E v \in Users : kept = [upper[Place(c)] EXCEPT ![v] = NoEntry]
            BY <3>2 DEF Evicted, Kept
          <5> QED BY <2>1, <4>1, <5>1, <5>2
        <4> DEFINE new == [kept EXCEPT ![User(c)] = Entry(c)]
        <4>4. new \in [Users -> EntryType] /\ new[User(c)] = Entry(c)
              /\ \A u \in Users : u # User(c) => new[u] = kept[u]
          BY <4>1, <4>2, <4>3
        <4>5. upper' = [upper EXCEPT ![Place(c)] = new]
          BY <3>2
        <4> HIDE DEF new
        <4>6. upper' \in [Places -> [Users -> EntryType]] /\ upper'[Place(c)] = new
              /\ \A p \in Places : p # Place(c) => upper'[p] = upper[p]
          BY <2>1, <4>1, <4>4, <4>5
        <4> QED BY <4>3, <4>4, <4>6
      <3>3. \/ upper' = upper
            \/ \E kept \in Evicted(Place(c), User(c)) :
                  upper' = [upper EXCEPT ![Place(c)] = [kept EXCEPT ![User(c)] = Entry(c)]]
        BY DEF SetUpper
      <3> QED BY <3>1, <3>2, <3>3
    <2>4. Types'
      BY <2>1, <2>2, <2>3, LightTypes, Zenon DEF Types, Frozen
    <2> QED BY <2>1, <2>2, <2>3, <2>4
  <1>2. Inv'
    <2>1. /\ Types' /\ Others(c) /\ Frozen /\ st[c].pc = "store" /\ st'[c].pc = "end"
          /\ Same(st'[c], st[c]) /\ st'[c].snap = st[c].snap
      BY <1>1, Zenon DEF Inv, SameRead
    <2> QED BY <2>1, MoveInv, Zenon DEF Reading
  <1>3. Shape'
    <2>1. /\ Others(c) /\ Frozen /\ UNCHANGED flight /\ st[c].pc = "store" /\ st'[c].pc = "end"
          /\ SameRead(st'[c], st[c]) /\ SameNotes(st'[c], st[c]) /\ st'[c].err = st[c].err
          /\ st'[c].wait = "none"
          /\ \A p \in Places, u \in Users :
                \/ upper'[p][u] = upper[p][u]
                \/ ~upper'[p][u].some
                \/ p = Place(c) /\ u = User(c) /\ upper'[p][u] = Entry(c)
      BY <1>1, Zenon DEF Inv
    <2>2. Op(c) \in Reads
      BY <2>1, Zenon DEF Shape, ShapeOK, Reading
    <2>3. ShapeOK(c)'
      BY <2>1, <2>2, ShapeSelf, Zenon DEF Frozen, SameNotes, Reading
    <2>4. WindowOK(c)'
      BY <2>1, WindowSelf, Zenon DEF Frozen, SameRead
    <2>5. \A u \in Users : RowWindow(u)'
      BY <2>1, RowsShrink, Zenon DEF Frozen
    <2>6. FlightOK'
      BY <2>1, FlightStays, Zenon DEF Frozen, Slotted
    <2>7. ASSUME NEW p \in Places, NEW u \in Users PROVE UpperOK(p, u)'
      <3>0. load' = load /\ \A d \in Calls : Place(d)' = Place(d) /\ (Begun(d) => Begun(d)')
        BY <2>1, Rigid, Zenon DEF Frozen, Begun, Others
      <3>1. CASE upper'[p][u] = upper[p][u]
        BY <3>0, <3>1, Zenon DEF Shape, UpperOK
      <3>2. CASE ~upper'[p][u].some
        BY <3>2 DEF UpperOK
      <3>3. CASE p = Place(c) /\ u = User(c) /\ upper'[p][u] = Entry(c)
        <4>1. Begun(c)' /\ Place(c)' = p
          BY <2>1, <3>0, <3>3, Zenon DEF Begun
        <4>2. upper'[p][u].perms = st[c].perms
              /\ (~load.redis => upper'[p][u].exp = Least(now + load.ttl, st[c].perms.exp))
          BY <3>3 DEF Entry
        <4>3. now \in Nat /\ load.ttl \in Nat /\ st[c].perms.exp \in Nat /\ load.until[u] \in Nat
          BY LoadFacts DEF Inv, Types, CallState, PermsType
        <4>4. Least(now + load.ttl, st[c].perms.exp) <= st[c].perms.exp
              /\ Least(now + load.ttl, st[c].perms.exp) \in Nat
          BY <4>3 DEF Least
        <4>5. ~load.redis /\ st[c].perms.member => st[c].perms.exp <= load.until[u]
          BY <3>3, Zenon DEF Shape, WindowOK
        <4>6. ~load.redis /\ st[c].perms.member =>
                  Least(now + load.ttl, st[c].perms.exp) <= load.until[u]
          BY <4>3, <4>4, <4>5
        <4> QED BY <3>0, <4>1, <4>2, <4>5, <4>6, Zenon DEF UpperOK
      <3> QED BY <2>1, <3>1, <3>2, <3>3, Zenon
    <2> QED BY <2>1, <2>3, <2>4, <2>5, <2>6, <2>7, ShapeStep, Zenon DEF Frozen
  <1>4. ASSUME Current PROVE Current'
    <2> USE <1>2, <1>4
    <2>1. /\ Others(c) /\ Frozen /\ st[c].pc = "store" /\ st'[c].pc = "end"
          /\ SameRead(st'[c], st[c]) /\ st'[c].err = st[c].err
          /\ (st'[c].fit <=> st[c].err \/ FitAt(c))
          /\ \A p \in Places, u \in Users :
                \/ upper'[p][u] = upper[p][u]
                \/ ~upper'[p][u].some
                \/ p = Place(c) /\ u = User(c) /\ upper'[p][u] = Entry(c)
      BY <1>1, Zenon DEF Inv
    <2> USE <2>1
    <2>2. Op(c) \in Reads /\ Active(c) /\ ~st[c].err
      BY ReadersActive, Zenon DEF Reading, Shape, ShapeOK
    <2>3. FitAt(c) /\ Sound(User(c), st[c].perms)
      BY <2>2, Zenon DEF Current, Past
    <2>4. Entry(c).perms = st[c].perms
      BY DEF Entry
    <2>5. \A p \in Places, u \in Users :
                 \/ upper'[p][u] = upper[p][u]
                 \/ upper'[p][u].some => Sound(u, upper'[p][u].perms)
      BY <2>3, <2>4, Zenon
    <2> QED BY <2>2, <2>3, <2>5, CurrentKeep, Zenon DEF Frozen, Past, SameRead
  <1>5. Others(c) /\ load' = load /\ (Fault \/ NoFault) /\ st'[c].before = st[c].before
        /\ st'[c].pc = "end"
    BY <1>1, Zenon DEF Frozen, SameNotes
  <1> QED BY <1>2, <1>3, <1>4, <1>5, FullStep, Zenon

\* Every step of a request keeps the invariant.
LEMMA ReadStepFull == ASSUME Full, NEW c \in Calls, ReadStep(c) PROVE Full'
  BY StartReadKept, GetUpperKept, GetCachedKept, ClaimKept, AwaitKept, CacheGenerationKept,
     ReadMembershipsKept, ReadGrantsKept, LockGenerationKept, UpsertKept, BroadcastKept, RemoveEntryKept, SetUpperKept
     DEF ReadStep
=============================================================================
