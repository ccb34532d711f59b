-------------------------- MODULE SpaceStoreProofs --------------------------
(***************************************************************************)
(* What SpaceStore guarantees for any agents, tasks and bounds: when one   *)
(* request is in progress at a time, and for any number of requests that   *)
(* write under the lock only, StoreInv is invariant, so every answered     *)
(* change is durable; and one request at a time, the store implements      *)
(* WriteThrough.  All that the proofs need from the way requests overlap   *)
(* is Settled: a request that begins finds nothing left to write.          *)
(* And of Spaces, for any spaces and requests: the ones that should be     *)
(* there are, and no others, through imports, failures and crashes.        *)
(***************************************************************************)
EXTENDS SpaceStore, Spaces, TLAPS

Settled == \A h \in Handlers : pend[h] = {} /\ phase[h] # "edited"

\* One request at a time, under the stored name of the space.
OneAtATime == (\A g, h \in Handlers : g = h) /\ Spellings = {Stored}

\* The extra invariant of LockedSpec: what is pending, the lock holder writes.
LockInv ==
  \A h \in Handlers :
    /\ phase[h] # "edited"
    /\ \A w \in pend[h] : lock = h /\ w.rank < 4

-----------------------------------------------------------------------------
\* When all is settled the rows agree with memory, the loose ones apart.
LEMMA SettledAgrees ==
  ASSUME StoreInv, Settled
  PROVE  \A r \in Row \ Loose : db[r] = mem[r]
  BY DEF StoreInv, TypeOK, Covered, Settled

\* A full save writes every record there is but those of B, the space before the
\* tasks.
LEMMA FlushFacts ==
  ASSUME NEW m \in [Row -> Nat], NEW B
  PROVE  /\ Flush(m, B) \subseteq Write
         /\ \A w \in Flush(m, B) : w.val = m[w.row] /\ w.rank < 4
         /\ \A v, w \in Flush(m, B) :
              v.row = SpaceRow /\ w.row \in Tasks => v.rank < w.rank
         /\ \A r \in Row \ B : r = SpaceRow \/ m[r] # 0 => \E w \in Flush(m, B) : w.row = r
<1>1. W(SpaceRow, m[SpaceRow], 1) \in Write BY DEF W, Write, Row
<1>2. \A a \in Agents \ B : W(a, m[a], 2) \in Write BY DEF W, Write, Row
<1>3. \A t \in Tasks : W(t, m[t], 3) \in Write BY DEF W, Write, Row
<1>4. Flush(m, B) \subseteq Write BY <1>1, <1>2, <1>3 DEF Flush
<1>5. ASSUME NEW w \in Flush(m, B)
      PROVE  \/ w = W(SpaceRow, m[SpaceRow], 1)
             \/ \E a \in Agents : w = W(a, m[a], 2)
             \/ \E t \in Tasks : w = W(t, m[t], 3)
  BY <1>5 DEF Flush
<1>6. \A w \in Flush(m, B) : w.val = m[w.row] /\ w.rank < 4
  BY <1>5 DEF W
<1>7. \A w \in Flush(m, B) : w.row = SpaceRow => w.rank = 1
  BY <1>5, StoreAssumption DEF W
<1>8. \A w \in Flush(m, B) : w.row \in Tasks => w.rank = 3
  BY <1>5, StoreAssumption DEF W
<1>9. ASSUME NEW r \in Row \ B, r = SpaceRow \/ m[r] # 0
      PROVE  \E w \in Flush(m, B) : w.row = r
  <2>1. CASE r = SpaceRow
    <3>1. W(SpaceRow, m[SpaceRow], 1) \in Flush(m, B) BY DEF Flush
    <3> QED BY <2>1, <3>1 DEF W
  <2>2. CASE r \in Agents /\ m[r] # 0
    <3>1. W(r, m[r], 2) \in Flush(m, B) BY <2>2 DEF Flush
    <3> QED BY <3>1 DEF W
  <2>3. CASE r \in Tasks /\ m[r] # 0
    <3>1. W(r, m[r], 3) \in Flush(m, B) BY <2>3 DEF Flush
    <3> QED BY <3>1 DEF W
  <2> QED BY <1>9, <2>1, <2>2, <2>3 DEF Row
<1> QED BY <1>4, <1>6, <1>7, <1>8, <1>9

\* A save of a snapshot writes every record there is, the agents of B hollow.
LEMMA SnapshotFacts ==
  ASSUME NEW m \in [Row -> Nat], NEW B \in SUBSET Agents
  PROVE  /\ Flush(Snapshot(m, B), {}) \subseteq Write
         /\ \A w \in Flush(Snapshot(m, B), {}) :
              w.rank < 4 /\ (w.row \notin B => w.val = m[w.row])
         /\ \A v, w \in Flush(Snapshot(m, B), {}) :
              v.row = SpaceRow /\ w.row \in Tasks => v.rank < w.rank
         /\ \A r \in Row : r = SpaceRow \/ m[r] # 0 =>
              \E w \in Flush(Snapshot(m, B), {}) : w.row = r
<1> DEFINE c == Snapshot(m, B)
<1>1. Hollow \in Nat /\ Hollow # 0 BY StoreAssumption DEF Hollow
<1>2. /\ c \in [Row -> Nat]
      /\ \A r \in Row : c[r] = IF r \in B THEN Hollow ELSE m[r]
  BY <1>1 DEF Snapshot
<1>3. SpaceRow \notin B BY StoreAssumption
<1> HIDE DEF c
<1>4. /\ Flush(c, {}) \subseteq Write
      /\ \A w \in Flush(c, {}) : w.val = c[w.row] /\ w.rank < 4
      /\ \A v, w \in Flush(c, {}) : v.row = SpaceRow /\ w.row \in Tasks => v.rank < w.rank
      /\ \A r \in Row : r = SpaceRow \/ c[r] # 0 => \E w \in Flush(c, {}) : w.row = r
  BY <1>2, FlushFacts
<1>5. \A w \in Flush(c, {}) : w.row \in Row BY <1>4 DEF Write
<1> QED BY <1>1, <1>2, <1>3, <1>4, <1>5 DEF c

\* A request that begins and leaves every record it changed, and every loose one it
\* takes in, to the pending statements P or to its snapshot.
Begins(h, P, x) ==
  /\ phase[h] = "idle" /\ lock = NoHandler
  /\ mem' \in [Row -> Nat] /\ mem'[SpaceRow] >= mem[SpaceRow]
  /\ \A t \in Tasks : mem'[t] # 0 => t <= mem'[SpaceRow]
  /\ edits' \in Nat /\ db' = db
  /\ phase' = [phase EXCEPT ![h] = x]
  /\ pend' = [pend EXCEPT ![h] = P]
  /\ lock' = lock \/ (lock' = h /\ x = "writing")
  /\ bare' \in SUBSET Agents /\ unwritten' \in SUBSET (Agents \cup Tasks)
  /\ \A r \in bare' \cup unwritten' : mem'[r] # 0
  /\ x = "edited" => \A w \in P : w.rank = 4 /\ w.row # SpaceRow
  /\ \A w \in P : w.row \notin bare' => w.val = mem'[w.row]
  /\ \A v, w \in P : v.row = SpaceRow /\ w.row \in Tasks => v.rank < w.rank
  /\ \A r \in Row \ (bare' \cup unwritten') :
       \/ r \notin Loose /\ mem'[r] = mem[r]
       \/ \E w \in P : w.row = r
       \/ x = "edited" /\ (r = SpaceRow \/ mem'[r] # 0)

LEMMA BeginStoreInv ==
  ASSUME StoreInv, Settled,
         NEW h \in Handlers, NEW P \in SUBSET Write, NEW x \in {"edited", "writing"},
         Begins(h, P, x)
  PROVE  StoreInv'
<1> USE DEF Begins
<1>0. TypeOK /\ PhaseInv /\ NumbersAhead /\ db[SpaceRow] <= mem[SpaceRow] BY DEF StoreInv
<1>1. \A r \in Row \ Loose : db[r] = mem[r] BY SettledAgrees
<1>2. TypeOK' BY <1>0 DEF TypeOK
<1>3. \A g \in Handlers : pend'[g] = IF g = h THEN P ELSE {}
  BY <1>0 DEF TypeOK, Settled
<1>4. \A g \in Handlers : phase'[g] = IF g = h THEN x ELSE phase[g]
  BY <1>0 DEF TypeOK
<1>5. PhaseInv' BY <1>0, <1>3, <1>4, StoreAssumption DEF PhaseInv, TypeOK
<1>6. PendingCurrent' BY <1>3 DEF PendingCurrent
<1>7. Covered'
  <2>1. \A r \in Row \ (bare' \cup unwritten') :
          r \notin Loose /\ mem'[r] = mem[r] => db'[r] = mem'[r]
    BY <1>1
  <2> QED BY <1>3, <1>4, <2>1 DEF Covered, Loose
<1>8. NumbersAhead' BY <1>0 DEF NumbersAhead
<1>9. db'[SpaceRow] <= mem'[SpaceRow]
  <2>1. SpaceRow \in Row BY DEF Row
  <2>2. db[SpaceRow] \in Nat /\ mem[SpaceRow] \in Nat /\ mem'[SpaceRow] \in Nat
    BY <1>0, <2>1 DEF TypeOK
  <2> QED BY <1>0, <2>2
<1>10. LooseThere' BY DEF LooseThere, Loose
<1> QED BY <1>2, <1>5, <1>6, <1>7, <1>8, <1>9, <1>10 DEF StoreInv

\* What memory may become in one edit.
GoodMem(m) ==
  /\ m \in [Row -> Nat]
  /\ m[SpaceRow] >= mem[SpaceRow]
  /\ \A t \in Tasks : m[t] # 0 => t <= m[SpaceRow]

\* A request that saves the whole space: what is gone and had a row is dropped.
SavesWhole(h, P, x, m, B) ==
  /\ Begin(h, m, B) /\ GoodMem(m) /\ \A b \in B : m[b] # 0
  /\ db' = db /\ unwritten' = {}
  /\ phase' = [phase EXCEPT ![h] = x]
  /\ pend' = [pend EXCEPT ![h] = P]
  /\ lock' = lock \/ (lock' = h /\ x = "writing")
  /\ x = "edited" => \A w \in P : w.rank = 4 /\ w.row # SpaceRow
  /\ \A w \in P : w.row \notin B => w.val = m[w.row]
  /\ \A v, w \in P : v.row = SpaceRow /\ w.row \in Tasks => v.rank < w.rank
  /\ \A r \in Row \ B : r = SpaceRow \/ m[r] # 0 =>
       x = "edited" \/ \E w \in P : w.row = r
  /\ \A r \in Row : m[r] # mem[r] =>
       r = SpaceRow \/ m[r] # 0 \/ \E w \in P : w.row = r

LEMMA WholeStoreInv ==
  ASSUME StoreInv, Settled,
         NEW h \in Handlers, NEW P \in SUBSET Write, NEW x \in {"edited", "writing"},
         NEW m, NEW B \in SUBSET Agents, SavesWhole(h, P, x, m, B)
  PROVE  StoreInv'
<1>1. edits' \in Nat BY DEF SavesWhole, Begin, StoreInv, TypeOK
<1>2. /\ phase[h] = "idle" /\ lock = NoHandler /\ mem' = m /\ bare' = B
      /\ bare' \cup unwritten' = B
  BY DEF SavesWhole, Begin
<1>3. /\ mem' \in [Row -> Nat] /\ mem'[SpaceRow] >= mem[SpaceRow]
      /\ \A t \in Tasks : mem'[t] # 0 => t <= mem'[SpaceRow]
  BY <1>2 DEF GoodMem, SavesWhole
<1>4. ASSUME NEW r \in Row \ B
      PROVE  \/ r \notin Loose /\ mem'[r] = mem[r]
             \/ \E w \in P : w.row = r
             \/ x = "edited" /\ (r = SpaceRow \/ mem'[r] # 0)
  <2>1. CASE r = SpaceRow \/ m[r] # 0 BY <1>2, <2>1 DEF SavesWhole
  <2>2. CASE m[r] = 0 /\ mem[r] = 0 BY <1>2, <2>2 DEF StoreInv, LooseThere
  <2>3. CASE r # SpaceRow /\ m[r] = 0 /\ mem[r] # 0 BY <2>3 DEF SavesWhole
  <2> QED BY <2>1, <2>2, <2>3
<1>5. Begins(h, P, x) BY <1>1, <1>2, <1>3, <1>4 DEF SavesWhole, Begins
<1> QED BY <1>5, BeginStoreInv

-----------------------------------------------------------------------------
\* Memory after an edit: the records of R change, and only to numbered tasks.
LEMMA EditedFacts ==
  ASSUME StoreInv, NEW R \in SUBSET Row
  PROVE  /\ Edited(R) \in [Row -> Nat]
         /\ \A r \in Row : Edited(R)[r] = IF r \in R THEN edits + 1 ELSE mem[r]
         /\ edits + 1 \in Nat /\ edits + 1 # 0
  BY DEF StoreInv, TypeOK, Edited

LEMMA CreatedFacts ==
  ASSUME StoreInv, NEW P \in SUBSET Tasks, NewTask \in Tasks
  PROVE  /\ Created(P) \in [Row -> Nat]
         /\ Created(P)[SpaceRow] = mem[SpaceRow] + 1
         /\ Created(P)[SpaceRow] \in Nat /\ mem[SpaceRow] \in Nat
         /\ \A r \in Row \ {SpaceRow} :
              Created(P)[r] = IF r \in {NewTask} \cup P THEN edits + 1 ELSE mem[r]
<1>1. {NewTask} \cup P \in SUBSET Row BY DEF Row
<1>2. Edited({NewTask} \cup P) \in [Row -> Nat] BY <1>1, EditedFacts
<1>3. SpaceRow \in Row BY DEF Row
<1>4. mem[SpaceRow] \in Nat BY <1>3 DEF StoreInv, TypeOK
<1>5. NewTask \in Nat BY <1>4 DEF NewTask
<1>6. Created(P) \in [Row -> Nat] BY <1>2, <1>5 DEF Created
<1>7. Created(P)[SpaceRow] = NewTask BY <1>2, <1>3 DEF Created
<1>8. \A r \in Row \ {SpaceRow} : Created(P)[r] = Edited({NewTask} \cup P)[r]
  BY <1>2 DEF Created
<1> QED BY <1>1, <1>4, <1>6, <1>7, <1>8, EditedFacts DEF NewTask

\* A pending deletion.
LEMMA DropFacts ==
  ASSUME NEW r \in Row, NEW sp
  PROVE  Drop(r, sp) \in SUBSET Write /\ \A w \in Drop(r, sp) : w = W(r, 0, 4)
  BY DEF Drop, W, Write

\* When nothing is pending, no pending statement shares an edited record.
LEMMA ShareFacts ==
  ASSUME StoreInv, Settled, NEW S
  PROVE  Share(S) = pend
  BY DEF StoreInv, TypeOK, Settled, Share

LEMMA EditedGood ==
  ASSUME StoreInv, NEW R \in SUBSET (Agents \cup Present(Tasks))
  PROVE  /\ GoodMem(Edited(R))
         /\ \A r \in Row : Edited(R)[r] # mem[r] => Edited(R)[r] # 0
         /\ \A r \in Row : mem[r] # 0 \/ r \in R => Edited(R)[r] # 0
         /\ edits + 1 \in Nat
<1>0. /\ TypeOK /\ mem[SpaceRow] \in Nat
      /\ SpaceRow \in Row /\ Agents \subseteq Row /\ Tasks \subseteq Row
      /\ SpaceRow \notin Tasks /\ SpaceRow \notin Agents /\ Agents \cap Tasks = {}
      /\ \A t \in Tasks : mem[t] # 0 => t <= mem[SpaceRow]
  BY StoreAssumption DEF StoreInv, TypeOK, Row, NumbersAhead
<1>1. R \in SUBSET Row BY <1>0 DEF Present
<1>2. /\ Edited(R) \in [Row -> Nat] /\ edits + 1 # 0 /\ edits + 1 \in Nat
      /\ \A r \in Row : Edited(R)[r] = IF r \in R THEN edits + 1 ELSE mem[r]
  BY <1>1, EditedFacts
<1>3. Edited(R)[SpaceRow] = mem[SpaceRow] BY <1>0, <1>2 DEF Present
<1>4. \A t \in Tasks : Edited(R)[t] # 0 => mem[t] # 0 BY <1>0, <1>2 DEF Present
<1> QED BY <1>0, <1>2, <1>3, <1>4 DEF GoodMem

\* The three ways a request saves what it edited.
LEMMA ByNameStoreInv ==
  ASSUME StoreInv, Settled, NEW h \in Handlers, NEW m, NEW B \in SUBSET Agents,
         NEW D \in SUBSET Write,
         Begin(h, m, B), SaveByName(h, Stored, D), GoodMem(m), \A b \in B : m[b] # 0,
         \A w \in D : w.rank = 4 /\ w.row # SpaceRow /\ w.val = m[w.row],
         \A r \in Row : m[r] # mem[r] =>
           r = SpaceRow \/ m[r] # 0 \/ \E w \in D : w.row = r
  PROVE  StoreInv'
<1>1. /\ db' = db /\ unwritten' = {} /\ lock' = lock
      /\ phase' = [phase EXCEPT ![h] = "edited"] /\ pend' = [pend EXCEPT ![h] = D]
  BY DEF SaveByName
<1>2. SavesWhole(h, D, "edited", m, B) BY <1>1 DEF SavesWhole
<1> QED BY <1>2, WholeStoreInv

LEMMA SnapshotStoreInv ==
  ASSUME StoreInv, Settled, NEW h \in Handlers, NEW m, NEW B \in SUBSET Agents,
         Begin(h, m, B), SaveSnapshot(h, m), GoodMem(m), \A b \in B : m[b] # 0,
         \A r \in Row : m[r] # mem[r] => r = SpaceRow \/ m[r] # 0
  PROVE  StoreInv'
<1> DEFINE F == Flush(Snapshot(m, B), {})
<1>1. m \in [Row -> Nat] BY DEF GoodMem
<1>2. /\ F \in SUBSET Write
      /\ \A w \in F : w.row \notin B => w.val = m[w.row]
      /\ \A v, w \in F : v.row = SpaceRow /\ w.row \in Tasks => v.rank < w.rank
      /\ \A r \in Row : r = SpaceRow \/ m[r] # 0 => \E w \in F : w.row = r
  BY <1>1, SnapshotFacts
<1>3. /\ db' = db /\ unwritten' = {} /\ lock' = lock
      /\ phase' = [phase EXCEPT ![h] = "writing"] /\ pend' = [pend EXCEPT ![h] = F]
  BY DEF SaveSnapshot, Begin
<1> HIDE DEF F
<1>4. SavesWhole(h, F, "writing", m, B) BY <1>2, <1>3 DEF SavesWhole
<1> QED BY <1>2, <1>4, WholeStoreInv

LEMMA LockedStoreInv ==
  ASSUME StoreInv, Settled, NEW h \in Handlers, NEW m, NEW B \in SUBSET Agents, NEW S,
         NEW D \in SUBSET Write,
         Begin(h, m, B), SaveLocked(h, m, S, D), GoodMem(m), \A b \in B : m[b] # 0,
         \A w \in D : w.row \in Agents /\ w.val = m[w.row],
         \A r \in Row : m[r] # mem[r] =>
           r = SpaceRow \/ m[r] # 0 \/ \E w \in D : w.row = r
  PROVE  StoreInv'
<1> DEFINE F == Flush(m, B) \cup D
<1>1. m \in [Row -> Nat] BY DEF GoodMem
<1>2. /\ Flush(m, B) \in SUBSET Write
      /\ \A w \in Flush(m, B) : w.val = m[w.row]
      /\ \A v, w \in Flush(m, B) : v.row = SpaceRow /\ w.row \in Tasks => v.rank < w.rank
      /\ \A r \in Row \ B : r = SpaceRow \/ m[r] # 0 => \E w \in Flush(m, B) : w.row = r
  BY <1>1, FlushFacts
<1>3. /\ db' = db /\ unwritten' = {} /\ lock' = h
      /\ phase' = [phase EXCEPT ![h] = "writing"] /\ pend' = [pend EXCEPT ![h] = F]
  BY ShareFacts DEF Begin, SaveLocked
<1>4. /\ F \in SUBSET Write
      /\ \A w \in F : w.val = m[w.row]
      /\ \A r \in Row \ B : r = SpaceRow \/ m[r] # 0 => \E w \in F : w.row = r
      /\ \A r \in Row : m[r] # mem[r] => r = SpaceRow \/ m[r] # 0 \/ \E w \in F : w.row = r
  BY <1>2
<1>5. \A v, w \in F : v.row = SpaceRow /\ w.row \in Tasks => v.rank < w.rank
  BY <1>2, StoreAssumption
<1> HIDE DEF F
<1>6. SavesWhole(h, F, "writing", m, B) BY <1>3, <1>4, <1>5 DEF SavesWhole
<1> QED BY <1>4, <1>6, WholeStoreInv

\* A section that ends without a save.
LEMMA UnwrittenStoreInv ==
  ASSUME StoreInv, Settled, NEW h \in Handlers, NEW r \in Agents \cup Present(Tasks),
         NEW B \in SUBSET Agents, bare \ {r} \subseteq B, B \subseteq bare \cup {r},
         LeftUnwritten(h, r, B)
  PROVE  StoreInv'
<1>0. /\ TypeOK /\ PhaseInv /\ NumbersAhead /\ LooseThere
      /\ r \in Row /\ SpaceRow \in Row /\ r \in Agents \cup Tasks /\ r # SpaceRow
      /\ db[SpaceRow] <= mem[SpaceRow]
  BY StoreAssumption DEF StoreInv, Row, Present
<1>1. /\ mem' = Edited({r}) /\ edits' = edits + 1 /\ bare' = B
      /\ unwritten' = unwritten \cup {r} /\ pend' = pend
      /\ UNCHANGED <<db, lock, phase>>
  BY ShareFacts DEF LeftUnwritten, Begin
<1>2. /\ GoodMem(mem') /\ mem' \in [Row -> Nat] /\ edits' \in Nat
      /\ \A q \in Row : mem'[q] = IF q = r THEN edits + 1 ELSE mem[q]
      /\ edits + 1 # 0
  BY <1>0, <1>1, EditedGood, EditedFacts DEF GoodMem
<1>3. TypeOK' BY <1>0, <1>1, <1>2 DEF TypeOK
<1>4. PhaseInv' BY <1>0, <1>1 DEF PhaseInv
<1>5. PendingCurrent' BY <1>1 DEF PendingCurrent, Settled
<1>6. Covered'
  <2>1. \A q \in Row : q \notin B \cup (unwritten \cup {r}) => q \notin Loose /\ q # r
    BY DEF Loose
  <2>2. \A q \in Row \ Loose : db[q] = mem[q] BY SettledAgrees
  <2> QED BY <1>1, <1>2, <2>1, <2>2 DEF Covered, Loose
<1>7. NumbersAhead' BY <1>0, <1>1, <1>2 DEF NumbersAhead, GoodMem
<1>8. LooseThere'
  <2>1. \A q \in B \cup (unwritten \cup {r}) : q \in Row /\ (q \in Loose \/ q = r)
    BY <1>0 DEF Loose, TypeOK, Row
  <2> QED BY <1>0, <1>1, <1>2, <2>1 DEF LooseThere, Loose
<1>9. db'[SpaceRow] <= mem'[SpaceRow] BY <1>0, <1>1, <1>2
<1> QED BY <1>3, <1>4, <1>5, <1>6, <1>7, <1>8, <1>9 DEF StoreInv

LEMMA RefusedStoreInv ==
  ASSUME StoreInv, Settled, NEW h \in Handlers, Refused(h)
  PROVE  StoreInv'
<1>0. bare \in SUBSET Agents BY DEF StoreInv, TypeOK
<1>1. ASSUME NEW a \in Agents, RefuseAgent(h, a) PROVE StoreInv'
  <2>1. bare \ {a} \in SUBSET Agents BY <1>0
  <2> QED BY <1>1, <2>1, UnwrittenStoreInv DEF RefuseAgent
<1>2. ASSUME NEW a \in Agents, SetWorkDir(h, a) PROVE StoreInv'
  <2> DEFINE B == IF mem[a] = 0 THEN bare \cup {a} ELSE bare
  <2>1. B \in SUBSET Agents /\ bare \ {a} \subseteq B /\ B \subseteq bare \cup {a} BY <1>0
  <2>2. LeftUnwritten(h, a, B) BY <1>2 DEF SetWorkDir
  <2> HIDE DEF B
  <2> QED BY <2>1, <2>2, UnwrittenStoreInv
<1>3. ASSUME NEW t \in Present(Tasks), RefuseTask(h, t) PROVE StoreInv'
  BY <1>0, <1>3, UnwrittenStoreInv DEF RefuseTask
<1> QED BY <1>1, <1>2, <1>3 DEF Refused, RefuseOnAgent

\* A request that begins when all is settled, under the stored name.
LEMMA EditStoreInv ==
  ASSUME StoreInv, Settled, Spellings = {Stored}, NEW h \in Handlers, EditSpace(h)
  PROVE  StoreInv'
<1>0. /\ TypeOK /\ NumbersAhead /\ mem[SpaceRow] \in Nat
      /\ SpaceRow \in Row /\ Agents \subseteq Row /\ Tasks \subseteq Row
      /\ SpaceRow \notin Tasks /\ SpaceRow \notin Agents /\ Agents \cap Tasks = {}
      /\ \A t \in Tasks : mem[t] # 0 => t <= mem[SpaceRow]
      /\ bare \in SUBSET Agents /\ \A b \in bare : mem[b] # 0
  BY StoreAssumption DEF StoreInv, TypeOK, Row, NumbersAhead, LooseThere, Loose
<1> USE <1>0
<1>1. ASSUME NEW P \in ParentTasks, NewTask \in Tasks
      PROVE  /\ GoodMem(Created(P))
             /\ \A r \in Row : Created(P)[r] # mem[r] => r = SpaceRow \/ Created(P)[r] # 0
             /\ \A b \in bare : Created(P)[b] # 0
  <2>1. P \in SUBSET Tasks /\ \A t \in P : mem[t] # 0 BY <1>1 DEF ParentTasks, Present
  <2>2. NewTask = mem[SpaceRow] + 1 BY DEF NewTask
  <2>3. edits \in Nat BY DEF TypeOK
  <2>4. \A r \in Row \ {SpaceRow} :
          Created(P)[r] = IF r \in {NewTask} \cup P THEN edits + 1 ELSE mem[r]
    BY <1>1, <2>1, CreatedFacts
  <2>5. Created(P) \in [Row -> Nat] /\ Created(P)[SpaceRow] = mem[SpaceRow] + 1
    BY <1>1, <2>1, CreatedFacts
  <2>6. ASSUME NEW t \in Tasks, Created(P)[t] # 0 PROVE t <= mem[SpaceRow] + 1
    BY <2>1, <2>2, <2>4, <2>6 DEF Tasks
  <2>7. GoodMem(Created(P)) BY <2>5, <2>6 DEF GoodMem
  <2> QED BY <2>3, <2>4, <2>7
<1>2. ASSUME NEW R \in SUBSET (Agents \cup Present(Tasks))
      PROVE  /\ GoodMem(Edited(R))
             /\ \A r \in Row : Edited(R)[r] # mem[r] => Edited(R)[r] # 0
             /\ \A r \in Row : mem[r] # 0 \/ r \in R => Edited(R)[r] # 0
             /\ edits + 1 \in Nat
  BY EditedGood
<1>3. CASE \E sp \in Spellings, P \in ParentTasks : CreateTask(h, sp, P)
  <2>1. PICK P \in ParentTasks : CreateTask(h, Stored, P) BY <1>3
  <2> QED BY <2>1, <1>1, ByNameStoreInv DEF CreateTask
<1>4. CASE \E P \in ParentTasks : McpCreateTask(h, P)
  <2>1. PICK P \in ParentTasks : McpCreateTask(h, P) BY <1>4
  <2>2. mem' = Created(P) BY <2>1 DEF McpCreateTask, Begin
  <2> QED BY <2>1, <2>2, <1>1, SnapshotStoreInv DEF McpCreateTask
<1>5. CASE \E t \in Present(Tasks) : EditTask(h, Stored, t)
  <2>1. PICK t \in Present(Tasks) : EditTask(h, Stored, t) BY <1>5
  <2>2. \A b \in bare : Edited({t})[b] # 0 BY <1>2
  <2> QED BY <2>1, <2>2, <1>2, ByNameStoreInv DEF EditTask
<1>6. CASE \E t \in Present(Tasks) : McpEditTask(h, t)
  <2>1. PICK t \in Present(Tasks) : McpEditTask(h, t) BY <1>6
  <2>2. mem' = Edited({t}) BY <2>1 DEF McpEditTask, Begin
  <2>3. \A b \in bare : Edited({t})[b] # 0 BY <1>2
  <2> QED BY <2>1, <2>2, <2>3, <1>2, SnapshotStoreInv DEF McpEditTask
<1>7. CASE \E t \in Present(Tasks) : DeleteTask(h, Stored, t)
  <2>1. PICK t \in Present(Tasks) : DeleteTask(h, Stored, t) BY <1>7
  <2> DEFINE m == [mem EXCEPT ![t] = 0]
  <2>2. t \in Tasks /\ t \in Row /\ t # SpaceRow BY DEF Present
  <2>3. GoodMem(m) BY <2>2 DEF GoodMem, TypeOK
  <2>4. \A w \in Drop(t, Stored) : w.rank = 4 /\ w.row # SpaceRow /\ w.val = m[w.row]
    BY <2>2 DEF Drop, W, TypeOK
  <2>5. \E w \in Drop(t, Stored) : w.row = t BY DEF Drop, W
  <2>6. Drop(t, Stored) \in SUBSET Write BY <2>2, DropFacts
  <2>7. \A r \in Row : m[r] # mem[r] => r = t BY DEF TypeOK
  <2>8. Begin(h, m, bare) /\ SaveByName(h, Stored, Drop(t, Stored)) BY <2>1 DEF DeleteTask
  <2>9. \A b \in bare : m[b] # 0 BY <2>2 DEF TypeOK
  <2> HIDE DEF m
  <2> QED BY <2>3, <2>4, <2>5, <2>6, <2>7, <2>8, <2>9, ByNameStoreInv
<1>8. CASE \E a \in Agents : PatchConfig(h, Stored, a) \/ EditAgent(h, Stored, a)
  <2>1. PICK a \in Agents : PatchConfig(h, Stored, a) \/ EditAgent(h, Stored, a) BY <1>8
  <2> DEFINE B == IF PatchConfig(h, Stored, a)
                    THEN IF mem[a] = 0 THEN bare \cup {a} ELSE bare
                    ELSE bare \ {a}
  <2>2. Share({a}) = pend /\ pend = [pend EXCEPT ![h] = {}]
    BY ShareFacts DEF Settled, TypeOK
  <2>3. B \in SUBSET Agents /\ \A b \in B : b \in bare \cup {a} OBVIOUS
  <2>4. Begin(h, Edited({a}), B) /\ SaveByName(h, Stored, {})
    <3>1. CASE PatchConfig(h, Stored, a) BY <2>2, <3>1 DEF PatchConfig, SaveByName
    <3>2. CASE ~PatchConfig(h, Stored, a) BY <2>1, <2>2, <3>2 DEF EditAgent, SaveByName
    <3> QED BY <3>1, <3>2
  <2> HIDE DEF B
  <2>5. \A b \in B : Edited({a})[b] # 0 BY <1>2, <2>3
  <2> QED BY <2>3, <2>4, <2>5, <1>2, ByNameStoreInv
<1>9. CASE \E a \in Agents, T \in SUBSET Present(Tasks) : PostStatus(h, Stored, a, T)
  <2>1. PICK a \in Agents, T \in SUBSET Present(Tasks) : PostStatus(h, Stored, a, T)
    BY <1>9
  <2> DEFINE m == Edited({a} \cup T)
             A == LiveW(a, edits + 1, 1)
             P == {W(SpaceRow, mem[SpaceRow], 2)}
                    \cup ({A} \cup {W(t, edits + 1, 3) : t \in T})
  <2>2. /\ GoodMem(m) /\ edits + 1 \in Nat
        /\ m \in [Row -> Nat]
        /\ \A r \in Row : m[r] = IF r \in {a} \cup T THEN edits + 1 ELSE mem[r]
    BY <1>2, EditedFacts DEF Present
  <2>3. /\ phase[h] = "idle" /\ lock = NoHandler /\ mem' = m /\ edits' = edits + 1
        /\ db' = db /\ lock' = lock /\ phase' = [phase EXCEPT ![h] = "writing"]
        /\ pend' = [pend EXCEPT ![h] = P]
        /\ bare' = bare /\ unwritten' = unwritten \ ({a} \cup T)
    BY <2>1 DEF PostStatus, Begin
  <2>4. /\ A \in Write /\ A.row = a /\ A.rank = 1 /\ A.val = edits + 1
        /\ W(SpaceRow, mem[SpaceRow], 2) \in Write
        /\ \A t \in T : W(t, edits + 1, 3) \in Write
    <3>1. A \in Write BY <2>2 DEF LiveW, Write
    <3>2. A.row = a /\ A.rank = 1 /\ A.val = edits + 1 BY DEF LiveW
    <3>3. W(SpaceRow, mem[SpaceRow], 2) \in Write BY DEF W, Write
    <3>4. \A t \in T : W(t, edits + 1, 3) \in Write BY <2>2 DEF W, Write, Present
    <3> QED BY <3>1, <3>2, <3>3, <3>4
  <2>5. P \in SUBSET Write BY <2>4
  <2>6. \A w \in P :
          \/ w.row = SpaceRow /\ w.val = mem[SpaceRow] /\ w.rank = 2
          \/ w.row = a /\ w.val = edits + 1 /\ w.rank = 1
          \/ w.row \in T /\ w.val = edits + 1 /\ w.rank = 3
    BY <2>4 DEF W
  <2>7. \A r \in {a} \cup T : \E w \in P : w.row = r
    <3>1. \A t \in T : W(t, edits + 1, 3) \in P /\ W(t, edits + 1, 3).row = t BY DEF W
    <3>2. A \in P /\ A.row = a BY <2>4
    <3> QED BY <3>1, <3>2
  <2> HIDE DEF P, A
  <2>8. \A w \in P : w.val = m[w.row]
    BY <2>2, <2>6 DEF Present
  <2>9. \A v, w \in P : v.row = SpaceRow /\ w.row \in Tasks => v.rank < w.rank
    BY <2>6 DEF Present
  <2>10. \A r \in Row \ (bare \cup (unwritten \ ({a} \cup T))) :
           (r \notin Loose /\ m[r] = mem[r]) \/ \E w \in P : w.row = r
    BY <2>2, <2>7 DEF Loose
  <2>11. /\ unwritten' \in SUBSET (Agents \cup Tasks) /\ bare' \in SUBSET Agents
         /\ \A r \in bare' \cup unwritten' : mem'[r] # 0
    <3>1. unwritten' \in SUBSET (Agents \cup Tasks) /\ bare' \in SUBSET Agents
      BY <2>3 DEF TypeOK
    <3>2. \A r \in bare' \cup unwritten' : r \in Row /\ r \in Loose
      BY <2>3, <3>1 DEF Loose, Row
    <3>3. \A r \in Row : mem[r] # 0 => mem'[r] # 0 BY <1>2, <2>3, Zenon DEF Present
    <3> QED BY <3>1, <3>2, <3>3 DEF StoreInv, LooseThere
  <2> HIDE DEF m
  <2>12. /\ mem' \in [Row -> Nat] /\ mem'[SpaceRow] >= mem[SpaceRow] /\ edits' \in Nat
         /\ \A t \in Tasks : mem'[t] # 0 => t <= mem'[SpaceRow]
    BY <2>2, <2>3 DEF GoodMem
  <2>13. /\ \A w \in P : w.row \notin bare' => w.val = mem'[w.row]
         /\ \A r \in Row \ (bare' \cup unwritten') :
              (r \notin Loose /\ mem'[r] = mem[r]) \/ \E w \in P : w.row = r
    BY <2>3, <2>8, <2>10
  <2>14. Begins(h, P, "writing") BY <2>3, <2>9, <2>11, <2>12, <2>13 DEF Begins
  <2> QED BY <2>5, <2>14, BeginStoreInv
<1>10. CASE \E a \in Agents : \E K \in SUBSET (Present(Agents \ {a}) \ bare) :
              DeleteAgent(h, Stored, a, K)
  <2>0. PICK a \in Agents : \E K \in SUBSET (Present(Agents \ {a}) \ bare) :
                              DeleteAgent(h, Stored, a, K)
    BY <1>10
  <2>1. PICK K \in SUBSET (Present(Agents \ {a}) \ bare) : DeleteAgent(h, Stored, a, K)
    BY <2>0
  <2> DEFINE m == [Edited(K) EXCEPT ![a] = 0]
  <2>2. K \in SUBSET Agents /\ \A b \in K : mem[b] # 0 BY DEF Present
  <2>3. /\ GoodMem(Edited(K)) /\ Edited(K) \in [Row -> Nat]
        /\ \A r \in Row : Edited(K)[r] # mem[r] => Edited(K)[r] # 0
        /\ \A r \in Row : mem[r] # 0 => Edited(K)[r] # 0
    BY <1>2, <2>2 DEF GoodMem
  <2>4. /\ m \in [Row -> Nat] /\ m[a] = 0
        /\ \A r \in Row \ {a} : m[r] = Edited(K)[r]
    BY <2>3
  <2>5. GoodMem(m) BY <2>3, <2>4 DEF GoodMem
  <2>6. \A w \in Drop(a, Stored) : w.row = a /\ w.val = 0 BY DEF Drop, W
  <2>7. \E w \in Drop(a, Stored) : w.row = a BY DEF Drop, W
  <2>8. Drop(a, Stored) \in SUBSET Write BY DropFacts
  <2>9. Begin(h, m, bare \ {a}) /\ SaveLocked(h, m, K, Drop(a, Stored))
    BY <2>1 DEF DeleteAgent, Begin
  <2>10. bare \ {a} \in SUBSET Agents /\ \A b \in bare \ {a} : m[b] # 0
    BY <2>3, <2>4
  <2> HIDE DEF m
  <2> QED BY <2>3, <2>4, <2>5, <2>6, <2>7, <2>8, <2>9, <2>10, LockedStoreInv
<1>11. CASE \E a \in Agents : EditAgentLocked(h, a)
  <2>1. PICK a \in Agents : EditAgentLocked(h, a) BY <1>11
  <2>2. mem' = Edited({a}) BY <2>1 DEF EditAgentLocked, Begin
  <2>3. bare \ {a} \in SUBSET Agents /\ \A b \in bare \ {a} : Edited({a})[b] # 0
    BY <1>2
  <2> QED BY <2>1, <2>2, <2>3, <1>2, LockedStoreInv DEF EditAgentLocked
<1>12. CASE PostText(h)
  <2>1. GoodMem(mem) BY DEF GoodMem, TypeOK
  <2> QED BY <1>12, <2>1, SnapshotStoreInv DEF PostText
<1> QED
  BY <1>3, <1>4, <1>5, <1>6, <1>7, <1>8, <1>9, <1>10, <1>11, <1>12 DEF EditSpace

-----------------------------------------------------------------------------
\* The row of the space is never loose.
LEMMA SpaceNotLoose ==
  ASSUME TypeOK
  PROVE  SpaceRow \notin Loose /\ Loose \in SUBSET Row
  BY StoreAssumption DEF TypeOK, Loose, Row

\* The steps after the edit keep the invariant; a row is written while no
\* other request has anything to write.
LEMMA CarryStoreInv ==
  ASSUME StoreInv, NEW h \in Handlers, Carry(h),
         WriteRow(h) =>
           \A g \in Handlers \ {h} : pend[g] = {} /\ phase[g] # "edited"
  PROVE  StoreInv'
<1>0. /\ TypeOK /\ PhaseInv /\ PendingCurrent /\ Covered /\ NumbersAhead /\ LooseThere
      /\ db[SpaceRow] <= mem[SpaceRow] /\ bare \in SUBSET Agents /\ SpaceRow \notin bare
      /\ Tasks \cap bare = {}
      /\ SpaceRow \in Row /\ Tasks \subseteq Row /\ SpaceRow \notin Tasks
      /\ mem \in [Row -> Nat] /\ db \in [Row -> Nat]
  BY StoreAssumption DEF StoreInv, TypeOK, Row
<1>1. CASE TakeSnapshot(h)
  <2>1. /\ Flush(Snapshot(mem, bare), {}) \subseteq Write
        /\ \A w \in Flush(Snapshot(mem, bare), {}) :
             w.rank < 4 /\ (w.row \notin bare => w.val = mem[w.row])
        /\ \A v, w \in Flush(Snapshot(mem, bare), {}) :
             v.row = SpaceRow /\ w.row \in Tasks => v.rank < w.rank
        /\ \A r \in Row : r = SpaceRow \/ mem[r] # 0 =>
             \E w \in Flush(Snapshot(mem, bare), {}) : w.row = r
    BY <1>0, SnapshotFacts
  <2> DEFINE F == Flush(Snapshot(mem, bare), {})
  <2>2. /\ phase[h] = "edited" /\ lock = NoHandler
        /\ phase' = [phase EXCEPT ![h] = "writing"]
        /\ pend' = [pend EXCEPT ![h] = pend[h] \cup F]
        /\ mem' = mem /\ db' = db /\ lock' = lock /\ edits' = edits
        /\ bare' = bare /\ unwritten' = unwritten
    BY <1>1 DEF TakeSnapshot
  <2>3. \A w \in pend[h] : w.rank = 4 /\ w.row # SpaceRow /\ (w.row \notin bare => w.val = mem[w.row])
    BY <1>0, <2>2 DEF PhaseInv, PendingCurrent
  <2> HIDE DEF F
  <2>4. F \subseteq Write BY <2>1 DEF F
  <2>5. TypeOK' BY <1>0, <2>2, <2>4 DEF TypeOK
  <2>6. /\ \A g \in Handlers : pend'[g] = IF g = h THEN pend[h] \cup F ELSE pend[g]
        /\ \A g \in Handlers : phase'[g] = IF g = h THEN "writing" ELSE phase[g]
    BY <1>0, <2>2 DEF TypeOK
  <2>7. PhaseInv' BY <1>0, <2>2, <2>6 DEF PhaseInv
  <2>8. \A w \in pend[h] \cup F : w.row \notin bare => w.val = mem[w.row] BY <2>1, <2>3 DEF F
  <2>9. \A v, w \in pend[h] \cup F : v.row = SpaceRow /\ w.row \in Tasks => v.rank < w.rank
    <3> SUFFICES ASSUME NEW v \in pend[h] \cup F, NEW w \in pend[h] \cup F,
                        v.row = SpaceRow, w.row \in Tasks
                 PROVE  v.rank < w.rank
      OBVIOUS
    <3>1. v \in F /\ v.rank < 4 BY <2>1, <2>3 DEF F
    <3> QED BY <2>1, <2>3, <3>1 DEF F
  <2>10. PendingCurrent'
    BY <1>0, <2>2, <2>6, <2>8, <2>9 DEF PendingCurrent
  <2>11. Covered'
    <3> SUFFICES ASSUME NEW r \in Row \ Loose, db[r] # mem[r]
                 PROVE  \E g \in Handlers : \/ \E w \in pend'[g] : w.row = r
                                            \/ phase'[g] = "edited" /\ (r = SpaceRow \/ mem[r] # 0)
      BY <2>2 DEF Covered, Loose
    <3>1. PICK g \in Handlers : \/ \E w \in pend[g] : w.row = r
                                \/ phase[g] = "edited" /\ (r = SpaceRow \/ mem[r] # 0)
      BY <1>0 DEF Covered
    <3>2. CASE r = SpaceRow \/ mem[r] # 0 BY <2>1, <2>6, <3>2 DEF F
    <3>3. CASE \E w \in pend[g] : w.row = r BY <2>6, <3>3
    <3> QED BY <3>1, <3>2, <3>3
  <2>12. NumbersAhead' BY <1>0, <2>2 DEF NumbersAhead
  <2>13. LooseThere' BY <1>0, <2>2 DEF LooseThere, Loose
  <2> QED BY <1>0, <2>2, <2>5, <2>7, <2>10, <2>11, <2>12, <2>13 DEF StoreInv
<1>2. CASE WriteRow(h)
  <2>1. PICK w \in pend[h] :
          /\ \A x \in pend[h] : w.rank <= x.rank
          /\ db' = [db EXCEPT ![w.row] = w.val]
          /\ pend' = [pend EXCEPT ![h] = @ \ {w}]
    BY <1>2 DEF WriteRow
  <2>2. /\ phase[h] = "writing"
        /\ mem' = mem /\ phase' = phase /\ lock' = lock /\ edits' = edits
        /\ bare' = bare /\ unwritten' = unwritten
    BY <1>2 DEF WriteRow
  <2>3. /\ w \in Write /\ w.row \in Row /\ w.val \in Nat
        /\ (w.row \notin bare => w.val = mem[w.row])
    BY <1>0 DEF TypeOK, Write, PendingCurrent
  <2>4. /\ \A g \in Handlers : pend'[g] = IF g = h THEN pend[h] \ {w} ELSE pend[g]
        /\ \A r \in Row : db'[r] = IF r = w.row THEN w.val ELSE db[r]
    BY <1>0, <2>1, <2>3 DEF TypeOK
  <2>5. TypeOK' BY <1>0, <2>1, <2>2, <2>3 DEF TypeOK
  <2>6. PhaseInv' BY <1>0, <2>2, <2>4 DEF PhaseInv
  <2>7. PendingCurrent' BY <1>0, <2>2, <2>4 DEF PendingCurrent
  <2>8. Covered'
    <3> SUFFICES ASSUME NEW r \in Row \ Loose, r # w.row, db[r] # mem[r]
                 PROVE  \E g \in Handlers : \/ \E x \in pend'[g] : x.row = r
                                            \/ phase[g] = "edited" /\ (r = SpaceRow \/ mem[r] # 0)
      BY <2>2, <2>3, <2>4 DEF Covered, Loose
    <3>1. PICK g \in Handlers : \/ \E x \in pend[g] : x.row = r
                                \/ phase[g] = "edited" /\ (r = SpaceRow \/ mem[r] # 0)
      BY <1>0 DEF Covered
    <3> QED BY <2>4, <3>1
  <2>9. NumbersAhead'
    <3> SUFFICES ASSUME NEW t \in Tasks, db'[t] # 0 PROVE t <= db'[SpaceRow]
      BY <1>0, <2>2 DEF NumbersAhead
    <3>1. CASE w.row = SpaceRow
      <4>1. t # w.row /\ db[t] # 0 /\ db'[SpaceRow] = mem[SpaceRow] BY <1>0, <2>3, <2>4, <3>1
      <4>2. t <= db[SpaceRow] BY <1>0, <4>1 DEF NumbersAhead
      <4> QED BY <1>0, <4>1, <4>2 DEF Tasks
    <3>2. CASE w.row = t
      <4>1. mem[t] # 0 /\ t <= mem[SpaceRow] BY <1>0, <2>3, <2>4, <3>2 DEF NumbersAhead
      <4>2. db'[SpaceRow] = db[SpaceRow] BY <1>0, <2>4, <3>2
      <4>3. ASSUME db[SpaceRow] # mem[SpaceRow] PROVE FALSE
        <5>1. PICK x \in pend[h] : x.row = SpaceRow
          BY <1>0, <1>2, <2>2, <4>3, SpaceNotLoose DEF Covered
        <5>2. x.rank < w.rank BY <1>0, <3>2, <5>1 DEF PendingCurrent
        <5>3. x.rank \in Nat /\ w.rank \in Nat
          BY <1>0, <5>1 DEF TypeOK, Write
        <5> QED BY <2>1, <5>2, <5>3
      <4> QED BY <4>1, <4>2, <4>3
    <3>3. CASE w.row # t /\ w.row # SpaceRow
      BY <1>0, <2>4, <3>3 DEF NumbersAhead
    <3> QED BY <3>1, <3>2, <3>3
  <2>10. db'[SpaceRow] <= mem'[SpaceRow] BY <1>0, <2>2, <2>3, <2>4
  <2>11. LooseThere' BY <1>0, <2>2 DEF LooseThere, Loose
  <2> QED BY <2>5, <2>6, <2>7, <2>8, <2>9, <2>10, <2>11 DEF StoreInv
<1>3. CASE Unlock(h) \/ Answer(h)
  <2>1. /\ mem' = mem /\ db' = db /\ pend' = pend /\ edits' = edits
        /\ bare' = bare /\ unwritten' = unwritten
    BY <1>3 DEF Unlock, Answer
  <2>2. TypeOK' BY <1>0, <1>3 DEF TypeOK, Unlock, Answer
  <2>3. PhaseInv' BY <1>0, <1>3, StoreAssumption DEF PhaseInv, Unlock, Answer, TypeOK
  <2>4. Covered' BY <1>0, <1>3, <2>1 DEF Covered, Loose, Unlock, Answer, TypeOK
  <2> QED BY <1>0, <2>1, <2>2, <2>3, <2>4
          DEF StoreInv, PendingCurrent, NumbersAhead, LooseThere, Loose
<1> QED BY <1>1, <1>2, <1>3 DEF Carry

\* A restart finds the rows a crash left.
LEMMA RestartStoreInv ==
  ASSUME StoreInv, Restart
  PROVE  StoreInv' /\ db' = mem'
<1>1. TypeOK' BY DEF StoreInv, TypeOK, Restart
<1>2. SpaceRow \in Row /\ db[SpaceRow] \in Nat BY DEF StoreInv, TypeOK, Row
<1>3. PhaseInv' BY StoreAssumption DEF PhaseInv, Restart
<1> QED
  BY <1>1, <1>2, <1>3
     DEF StoreInv, PendingCurrent, Covered, NumbersAhead, LooseThere, Loose, Restart

LEMMA InitStoreInv == Init => StoreInv
<1> SUFFICES ASSUME Init PROVE StoreInv
  OBVIOUS
<1>1. TypeOK BY DEF Init, TypeOK
<1>2. PhaseInv BY StoreAssumption DEF Init, PhaseInv
<1>3. SpaceRow \in Row /\ Tasks \subseteq Row BY DEF Row
<1> QED
  BY <1>1, <1>2, <1>3 DEF Init, StoreInv, PendingCurrent, Covered, NumbersAhead,
     LooseThere, Loose

LEMMA StutterStoreInv == StoreInv /\ UNCHANGED vars => StoreInv'
  BY DEF StoreInv, TypeOK, PhaseInv, PendingCurrent, Covered, NumbersAhead,
         LooseThere, Loose, vars

\* What every request that is not in progress has left.
LEMMA IdleDurable ==
  ASSUME StoreInv
  PROVE  Durable
  BY DEF StoreInv, TypeOK, PhaseInv, Covered, Durable

-----------------------------------------------------------------------------
(* One request at a time.                                                  *)

LEMMA OneAtATimeStep ==
  ASSUME OneAtATime, StoreInv, [Next]_vars
  PROVE  StoreInv'
<1>1. CASE \E h \in Handlers : EditSpace(h)
  <2>1. PICK h \in Handlers : EditSpace(h) BY <1>1
  <2>2. phase[h] = "idle"
    BY <2>1 DEF EditSpace, CreateTask, McpCreateTask, EditTask, McpEditTask, DeleteTask, PatchConfig,
                EditAgent, PostText, PostStatus, EditAgentLocked, DeleteAgent, Begin
  <2>3. Settled BY <2>2 DEF OneAtATime, StoreInv, PhaseInv, Settled
  <2> QED BY <2>1, <2>3, EditStoreInv DEF OneAtATime
<1>2. CASE \E h \in Handlers : Carry(h)
  BY <1>2, CarryStoreInv DEF OneAtATime
<1>3. CASE Restart BY <1>3, RestartStoreInv
<1>4. CASE UNCHANGED vars BY <1>4, StutterStoreInv
<1>5. CASE \E h \in Handlers : Refused(h)
  <2>1. PICK h \in Handlers : Refused(h) BY <1>5
  <2>2. phase[h] = "idle"
    BY <2>1 DEF Refused, RefuseOnAgent, RefuseAgent, SetWorkDir, RefuseTask, LeftUnwritten, Begin
  <2>3. Settled BY <2>2 DEF OneAtATime, StoreInv, PhaseInv, Settled
  <2> QED BY <2>1, <2>3, RefusedStoreInv
<1> QED BY <1>1, <1>2, <1>3, <1>4, <1>5 DEF Next, Serve

\* One request at a time, whatever the requests and wherever the server dies
\* between two statements, StoreInv holds.
THEOREM SequentialInvariant ==
  ASSUME OneAtATime
  PROVE  Spec => []StoreInv
<1>1. StoreInv /\ [Next]_vars => StoreInv' BY OneAtATimeStep
<1> QED BY <1>1, InitStoreInv, PTL DEF Spec

\* So what was answered is in the rows: a restart loads the space that the clients
\* saw last, but for the configs of agents without a status and for the changes of
\* refused requests that no save has taken in since.
THEOREM SequentialDurable ==
  ASSUME OneAtATime
  PROVE  Spec => []Durable
<1>1. StoreInv => Durable BY IdleDurable
<1> QED BY <1>1, SequentialInvariant, PTL

\* And the rows a crash leaves never let a task number be given out again: the
\* row of the space is written before the rows of its tasks.
THEOREM SequentialNumbers ==
  ASSUME OneAtATime
  PROVE  Spec => []NumbersAhead
<1>1. StoreInv => NumbersAhead BY DEF StoreInv
<1> QED BY <1>1, SequentialInvariant, PTL

-----------------------------------------------------------------------------
(* Requests that write under the lock, any number of them at a time.       *)

LEMMA LockedStep ==
  ASSUME StoreInv, LockInv, [LockedNext]_vars
  PROVE  StoreInv' /\ LockInv'
<1>0. TypeOK /\ LooseThere BY DEF StoreInv
<1>1. CASE \E h \in Handlers : \E a \in Agents : EditAgentLocked(h, a)
  <2>1. PICK h \in Handlers, a \in Agents : EditAgentLocked(h, a) BY <1>1
  <2>2. lock = NoHandler BY <2>1 DEF EditAgentLocked, Begin
  <2>3. Settled BY <2>2, StoreAssumption DEF LockInv, Settled
  <2> DEFINE m == Edited({a})
             B == bare \ {a}
  <2>4. Begin(h, m, B) /\ SaveLocked(h, m, {a}, {}) BY <2>1 DEF EditAgentLocked, Begin
  <2>5. /\ GoodMem(m) /\ \A r \in Row : m[r] # mem[r] => m[r] # 0
        /\ \A r \in Row : mem[r] # 0 => m[r] # 0
    BY EditedGood
  <2>6. m \in [Row -> Nat] BY <2>5 DEF GoodMem
  <2>7. \A w \in Flush(m, B) : w.rank < 4 BY <2>6, FlushFacts
  <2>11. B \in SUBSET Agents /\ \A b \in B : m[b] # 0
    <3>1. B \in SUBSET Agents /\ \A b \in B : b \in Row /\ b \in Loose BY <1>0 DEF TypeOK, Row, Loose
    <3> QED BY <1>0, <2>5, <3>1 DEF LooseThere
  <2> HIDE DEF m, B
  <2>8. StoreInv' BY <2>3, <2>4, <2>5, <2>11, LockedStoreInv
  <2>9. /\ pend' = [pend EXCEPT ![h] = Flush(m, B)] /\ lock' = h
        /\ phase' = [phase EXCEPT ![h] = "writing"]
    <3>1. Share({a}) = pend BY <2>3, ShareFacts
    <3>2. Flush(m, B) \cup {} = Flush(m, B) /\ bare' = B BY <2>4 DEF Begin
    <3> QED BY <2>4, <3>1, <3>2 DEF SaveLocked
  <2>10. LockInv' BY <1>0, <2>3, <2>7, <2>9 DEF LockInv, Settled, TypeOK
  <2> QED BY <2>8, <2>10
<1>2. CASE \E h \in Handlers : Carry(h)
  <2>1. PICK h \in Handlers : Carry(h) BY <1>2
  <2>2. WriteRow(h) => \A g \in Handlers \ {h} : pend[g] = {} /\ phase[g] # "edited"
    BY DEF WriteRow, LockInv
  <2>3. StoreInv' BY <2>1, <2>2, CarryStoreInv
  <2>4. LockInv'
    BY <1>0, <2>1 DEF LockInv, Carry, TakeSnapshot, WriteRow, Unlock, Answer, TypeOK
  <2> QED BY <2>3, <2>4
<1>3. CASE Restart
  BY <1>3, RestartStoreInv DEF Restart, LockInv
<1>4. CASE UNCHANGED vars
  BY <1>4, StutterStoreInv DEF vars, LockInv
<1>5. CASE \E h \in Handlers : \E a \in Agents : RefuseOnAgent(h, a)
  <2>1. PICK h \in Handlers, a \in Agents : RefuseOnAgent(h, a) BY <1>5
  <2>2. lock = NoHandler
    BY <2>1 DEF RefuseOnAgent, RefuseAgent, SetWorkDir, LeftUnwritten, Begin
  <2>3. Settled BY <2>2, StoreAssumption DEF LockInv, Settled
  <2>4. StoreInv' BY <2>1, <2>3, RefusedStoreInv DEF Refused
  <2>5. pend' = pend /\ phase' = phase /\ lock' = lock
    BY <2>1, <2>3, ShareFacts DEF RefuseOnAgent, RefuseAgent, SetWorkDir, LeftUnwritten
  <2> QED BY <2>4, <2>5 DEF LockInv
<1> QED BY <1>1, <1>2, <1>3, <1>4, <1>5 DEF LockedNext

\* Any number of requests that write under the lock, interleaved with the
\* unlocked tail of each other, with ones that are refused half-way and with
\* crashes, leave memory and rows equal, the loose records apart.
THEOREM LockedDurable == LockedSpec => []Durable
<1>1. Init => StoreInv /\ LockInv BY InitStoreInv DEF Init, LockInv
<1>2. StoreInv /\ LockInv /\ [LockedNext]_vars => (StoreInv /\ LockInv)'
  BY LockedStep
<1>3. StoreInv => Durable BY IdleDurable
<1> QED BY <1>1, <1>2, <1>3, PTL DEF LockedSpec

-----------------------------------------------------------------------------
(* The store implements WriteThrough.                                      *)

\* A request that is not refused loosens at most the record it makes.
LEMMA EditLoosens ==
  ASSUME NEW h \in Handlers, EditSpace(h)
  PROVE  \E N \in WT!Makes : Loose' \in SUBSET (Loose \cup N)
<1>1. CASE \E a \in Agents, sp \in Spellings : PatchConfig(h, sp, a)
  <2>1. PICK a \in Agents, sp \in Spellings : PatchConfig(h, sp, a) BY <1>1
  <2> DEFINE N == IF mem[a] = 0 THEN {a} ELSE {}
  <2>2. N \in WT!Makes BY DEF WT!Makes, Row
  <2>3. Loose' \in SUBSET (Loose \cup N) BY <2>1 DEF PatchConfig, Begin, Loose
  <2> QED BY <2>2, <2>3
<1>2. CASE ~\E a \in Agents, sp \in Spellings : PatchConfig(h, sp, a)
  <2>1. bare' \subseteq bare /\ unwritten' \subseteq unwritten
    BY <1>2 DEF EditSpace, CreateTask, McpCreateTask, EditTask, McpEditTask, DeleteTask, EditAgent,
                PostText, PostStatus, EditAgentLocked, DeleteAgent, Begin, SaveByName, SaveSnapshot,
                SaveLocked
  <2>2. {} \in WT!Makes BY DEF WT!Makes
  <2> QED BY <2>1, <2>2 DEF Loose
<1> QED BY <1>1, <1>2

\* A refused one leaves a single record unwritten.
LEMMA RefusedLeaves ==
  ASSUME NEW h \in Handlers, Refused(h)
  PROVE  \E r \in Row : \E B : /\ LeftUnwritten(h, r, B)
                               /\ bare \ {r} \subseteq B /\ B \subseteq bare \cup {r}
<1>0. Agents \subseteq Row /\ Present(Tasks) \subseteq Row BY DEF Row, Present
<1>1. ASSUME NEW a \in Agents, RefuseAgent(h, a)
      PROVE  LeftUnwritten(h, a, bare \ {a})
  BY <1>1 DEF RefuseAgent
<1>2. ASSUME NEW a \in Agents, SetWorkDir(h, a)
      PROVE  \E B : LeftUnwritten(h, a, B) /\ bare \ {a} \subseteq B /\ B \subseteq bare \cup {a}
  BY <1>2 DEF SetWorkDir
<1>3. ASSUME NEW t \in Present(Tasks), RefuseTask(h, t)
      PROVE  LeftUnwritten(h, t, bare)
  BY <1>3 DEF RefuseTask
<1>4. CASE \E a \in Agents : RefuseAgent(h, a)
  <2>1. PICK a \in Agents : RefuseAgent(h, a) BY <1>4
  <2>2. LeftUnwritten(h, a, bare \ {a}) BY <1>1, <2>1
  <2>3. bare \ {a} \subseteq bare \ {a} /\ bare \ {a} \subseteq bare \cup {a}
    OBVIOUS
  <2> QED BY <1>0, <2>2, <2>3
<1>5. CASE \E a \in Agents : SetWorkDir(h, a)
  <2>1. PICK a \in Agents : SetWorkDir(h, a) BY <1>5
  <2> QED BY <1>0, <1>2, <2>1
<1>6. CASE \E t \in Present(Tasks) : RefuseTask(h, t)
  <2>1. PICK t \in Present(Tasks) : RefuseTask(h, t) BY <1>6
  <2> QED BY <1>0, <1>3, <2>1
<1> QED BY <1>4, <1>5, <1>6 DEF Refused, RefuseOnAgent

\* One request at a time, the space is written through, with the loose records
\* that the abstract specification allows: each step of the server and each crash
\* is a step of WriteThrough, or leaves it unchanged.
THEOREM Refinement ==
  ASSUME OneAtATime
  PROVE  Spec => WrittenThrough
<1> DEFINE busy == \E h \in Handlers : phase[h] # "idle"
<1>1. Init => WT!Init
  BY DEF Init, WT!Init, Loose
<1>2. ASSUME StoreInv, StoreInv', [Next]_vars
      PROVE  [WT!Next]_<<mem, db, Loose, busy>>
  <2>0. TypeOK /\ TypeOK' /\ PhaseInv BY <1>2 DEF StoreInv
  <2>1. CASE \E h \in Handlers : EditSpace(h)
    <3>1. PICK h \in Handlers : EditSpace(h) BY <2>1
    <3>2. phase[h] = "idle" /\ db' = db /\ phase'[h] \in {"edited", "writing"}
      BY <2>0, <3>1, StoreAssumption
         DEF EditSpace, CreateTask, McpCreateTask, EditTask, McpEditTask, DeleteTask, PatchConfig,
             EditAgent, PostText, PostStatus, EditAgentLocked, DeleteAgent, Begin,
             SaveByName, SaveSnapshot, SaveLocked, OneAtATime, TypeOK
    <3>3. ~busy /\ busy' BY <3>2 DEF OneAtATime
    <3>4. \E N \in WT!Makes : Loose' \in SUBSET (Loose \cup N) BY <3>1, EditLoosens
    <3>5. WT!Request BY <2>0, <3>2, <3>3, <3>4 DEF WT!Request, TypeOK
    <3> QED BY <3>5 DEF WT!Next
  <2>2. CASE \E h \in Handlers : TakeSnapshot(h) \/ Unlock(h)
    <3>1. mem' = mem /\ db' = db /\ Loose' = Loose BY <2>2 DEF TakeSnapshot, Unlock, Loose
    <3>2. busy' = busy BY <2>0, <2>2 DEF TakeSnapshot, Unlock, TypeOK
    <3> QED BY <3>1, <3>2
  <2>3. CASE \E h \in Handlers : WriteRow(h)
    <3>0. PICK h \in Handlers : WriteRow(h) BY <2>3
    <3>1. PICK w \in pend[h] :
            /\ phase[h] = "writing" /\ mem' = mem /\ phase' = phase
            /\ db' = [db EXCEPT ![w.row] = w.val] /\ Loose' = Loose
      BY <3>0 DEF WriteRow, Loose
    <3>2. w.row \in Row /\ w.val \in Nat /\ (w.row \notin Loose => w.val = mem[w.row])
      BY <1>2, <2>0 DEF StoreInv, PendingCurrent, TypeOK, Write, Loose
    <3>3. busy /\ busy' = busy BY <3>1
    <3>4. /\ db' \in [Row -> Nat] /\ (db'[w.row] = mem[w.row] \/ w.row \in Loose)
          /\ \A q \in Row \ {w.row} : db'[q] = db[q]
      BY <2>0, <3>1, <3>2 DEF TypeOK
    <3>5. WT!Harden(w.row) BY <3>1, <3>3, <3>4 DEF WT!Harden
    <3> QED BY <3>2, <3>5 DEF WT!Next
  <2>4. CASE \E h \in Handlers : Answer(h)
    <3>1. PICK h \in Handlers : Answer(h) BY <2>4
    <3>2. Settled BY <3>1 DEF Answer, OneAtATime, Settled
    <3>3. \A r \in Row \ Loose : db[r] = mem[r] BY <1>2, <3>2, SettledAgrees
    <3>4. mem' = mem /\ db' = db /\ Loose' = Loose /\ busy /\ ~busy'
      BY <2>0, <3>1 DEF Answer, OneAtATime, TypeOK, Loose
    <3> QED BY <3>3, <3>4 DEF WT!Reply, WT!Next
  <2>5. CASE Restart
    BY <2>5 DEF Restart, WT!Crash, WT!Next, Loose
  <2>6. CASE UNCHANGED vars
    BY <2>6 DEF vars, Loose
  <2>7. CASE \E h \in Handlers : Refused(h)
    <3>h. PICK h \in Handlers : Refused(h) BY <2>7
    <3>r. PICK r \in Row : \E B : /\ LeftUnwritten(h, r, B)
                                 /\ bare \ {r} \subseteq B /\ B \subseteq bare \cup {r}
      BY <3>h, RefusedLeaves
    <3>1. PICK B : /\ LeftUnwritten(h, r, B)
                   /\ bare \ {r} \subseteq B /\ B \subseteq bare \cup {r}
      BY <3>r
    <3>2. phase[h] = "idle" /\ phase' = phase /\ db' = db /\ mem' = Edited({r}) /\ Loose' = Loose \cup {r}
      BY <3>1 DEF LeftUnwritten, Begin, Loose
    <3>3. ~busy /\ ~busy' BY <3>2 DEF OneAtATime
    <3>4. \A q \in Row \ {r} : mem'[q] = mem[q] BY <3>2 DEF Edited
    <3>5. WT!Refuse(r) BY <2>0, <3>2, <3>3, <3>4 DEF WT!Refuse, TypeOK
    <3> QED BY <3>5 DEF WT!Next
  <2> QED BY <1>2, <2>1, <2>2, <2>3, <2>4, <2>5, <2>6, <2>7 DEF Next, Serve, Carry
<1> QED
  BY <1>1, <1>2, SequentialInvariant, PTL DEF Spec, WrittenThrough, WT!Spec

\* With any number of requests that write under the lock, one is in progress, as
\* the clients see it, while it holds the lock.
LockedWT == INSTANCE WriteThrough
              WITH Rows <- Row, view <- mem, disk <- db, loose <- Loose,
                   busy <- lock # NoHandler

\* Requests that write under the lock only are written through, however many of
\* them overlap: from the unlock on, what the request did is in the rows, unless it
\* was refused half-way.
THEOREM LockedRefinement == LockedSpec => LockedWT!Spec
<1> DEFINE busy == lock # NoHandler
<1>1. Init => StoreInv /\ LockInv /\ LockedWT!Init
  BY InitStoreInv DEF Init, LockInv, LockedWT!Init, Loose
<1>2. StoreInv /\ LockInv /\ [LockedNext]_vars => (StoreInv /\ LockInv)'
  BY LockedStep
<1>3. ASSUME StoreInv, LockInv, StoreInv', [LockedNext]_vars
      PROVE  [LockedWT!Next]_<<mem, db, Loose, busy>>
  <2>0. TypeOK /\ TypeOK' /\ PhaseInv BY <1>3 DEF StoreInv
  <2>1. CASE \E h \in Handlers : \E a \in Agents : EditAgentLocked(h, a)
    <3>1. PICK h \in Handlers, a \in Agents : EditAgentLocked(h, a) BY <2>1
    <3>2. lock = NoHandler /\ lock' = h /\ db' = db /\ Loose' \in SUBSET Loose
      BY <3>1 DEF EditAgentLocked, Begin, SaveLocked, Loose
    <3>3. ~busy /\ busy' BY <3>2, StoreAssumption
    <3>4. {} \in LockedWT!Makes BY DEF LockedWT!Makes
    <3>5. \E N \in LockedWT!Makes : Loose' \in SUBSET (Loose \cup N) BY <3>2, <3>4
    <3> QED BY <2>0, <3>2, <3>3, <3>5 DEF LockedWT!Request, LockedWT!Next, TypeOK
  <2>2. CASE \E h \in Handlers : WriteRow(h)
    <3>0. PICK h \in Handlers : WriteRow(h) BY <2>2
    <3>1. PICK w \in pend[h] :
            /\ mem' = mem /\ lock' = lock /\ Loose' = Loose
            /\ db' = [db EXCEPT ![w.row] = w.val]
      BY <3>0 DEF WriteRow, Loose
    <3>2. w.row \in Row /\ w.val \in Nat /\ (w.row \notin Loose => w.val = mem[w.row])
      BY <1>3, <2>0 DEF StoreInv, PendingCurrent, TypeOK, Write, Loose
    <3>3. busy /\ busy' BY <1>3, <3>1, StoreAssumption DEF LockInv
    <3>4. /\ db' \in [Row -> Nat] /\ (db'[w.row] = mem[w.row] \/ w.row \in Loose)
          /\ \A q \in Row \ {w.row} : db'[q] = db[q]
      BY <2>0, <3>1, <3>2 DEF TypeOK
    <3>5. LockedWT!Harden(w.row) BY <3>1, <3>3, <3>4 DEF LockedWT!Harden
    <3> QED BY <3>2, <3>5 DEF LockedWT!Next
  <2>3. CASE \E h \in Handlers : Unlock(h)
    <3>1. PICK h \in Handlers : Unlock(h) BY <2>3
    <3>2. \A w \in pend[h] : FALSE
      BY <1>3, <2>0, <3>1 DEF Unlock, LockInv, TypeOK, Write
    <3>3. Settled BY <1>3, <3>1, <3>2 DEF Unlock, LockInv, Settled
    <3>4. \A r \in Row \ Loose : db[r] = mem[r] BY <1>3, <3>3, SettledAgrees
    <3>5. mem' = mem /\ db' = db /\ Loose' = Loose /\ busy /\ ~busy'
      BY <3>1, StoreAssumption DEF Unlock, Loose
    <3> QED BY <3>4, <3>5 DEF LockedWT!Reply, LockedWT!Next
  <2>4. CASE \E h \in Handlers : TakeSnapshot(h) \/ Answer(h)
    BY <2>4 DEF TakeSnapshot, Answer, Loose
  <2>5. CASE Restart
    BY <2>5 DEF Restart, LockedWT!Crash, LockedWT!Next, Loose
  <2>6. CASE UNCHANGED vars
    BY <2>6 DEF vars, Loose
  <2>7. CASE \E h \in Handlers : \E a \in Agents : RefuseOnAgent(h, a)
    <3>h. PICK h \in Handlers : Refused(h) BY <2>7 DEF Refused
    <3>r. PICK r \in Row : \E B : /\ LeftUnwritten(h, r, B)
                                 /\ bare \ {r} \subseteq B /\ B \subseteq bare \cup {r}
      BY <3>h, RefusedLeaves
    <3>1. PICK B : /\ LeftUnwritten(h, r, B)
                   /\ bare \ {r} \subseteq B /\ B \subseteq bare \cup {r}
      BY <3>r
    <3>2. /\ lock = NoHandler /\ lock' = lock /\ db' = db /\ mem' = Edited({r})
          /\ Loose' = Loose \cup {r}
      BY <3>1 DEF LeftUnwritten, Begin, Loose
    <3>3. \A q \in Row \ {r} : mem'[q] = mem[q] BY <3>2 DEF Edited
    <3>4. LockedWT!Refuse(r) BY <2>0, <3>2, <3>3 DEF LockedWT!Refuse, TypeOK
    <3> QED BY <3>4 DEF LockedWT!Next
  <2> QED BY <1>3, <2>1, <2>2, <2>3, <2>4, <2>5, <2>6, <2>7 DEF LockedNext, Carry
<1> QED
  BY <1>1, <1>2, <1>3, PTL DEF LockedSpec, LockedWT!Spec

-----------------------------------------------------------------------------
(* The spaces as wholes.                                                   *)

Jobs == [at : {"open"}, space : Names, stale : BOOLEAN, is : Contents \ {"none"}]

SpacesTypes ==
  /\ json \in [Names -> {"none", "good", "bad"}]
  /\ served \in [Names -> Contents] /\ rows \in [Names -> Contents]
  /\ boot \in {"down", "importing", "up"}
  /\ request \in [Requests -> {Idle} \cup Jobs]
  /\ boot # "up" => dropping = {} /\ \A h \in Requests : request[h] = Idle
  /\ \A s \in Names : FromFiles(s) # "none" => s \in alive

\* A request whose space was not deleted since it got it.
Current(s) == \E h \in Holding(s) : ~request[h].stale

ServedIfCurrent == \A s \in Names : Current(s) => served[s] # "none"

\* Before the start: what it would load, or import, is what is alive.
DownTrue ==
  boot = "down" => \A s \in Names \ excused :
    IF Known(rows) = {} THEN s \in alive => FromFiles(s) # "none"
                        ELSE s \in alive <=> rows[s] # "none"

\* In an import: what is served is alive, and has its row once it was reached.
ImportTrue ==
  boot = "importing" =>
    /\ left \subseteq Known(served)
    /\ \A s \in Names :
         /\ served[s] = FromFiles(s)
         /\ served[s] = "none" => rows[s] = "none"
         /\ served[s] # "none" /\ s \notin left => rows[s] # "none" \/ s \in unsaved
    /\ \A s \in Names \ excused : s \in alive => served[s] # "none"

\* After it: what is alive is served or on its way out, and has a row unless its
\* save failed; what is served is alive or about to be.
UpTrueOf(s) ==
  /\ served[s] # "none" => s \in alive \/ Current(s)
  /\ s \in alive => served[s] # "none" \/ s \in dropping
  /\ s \in alive => rows[s] # "none" \/ s \in unsaved
  /\ rows[s] # "none" => s \in alive

UpTrue == boot = "up" => \A s \in Names \ excused : UpTrueOf(s)

\* The inductive invariant of the spaces.
SpacesInv == SpacesTypes /\ ServedIfCurrent /\ DownTrue /\ ImportTrue /\ UpTrue

LEMMA InitSpaces == SpacesInit => SpacesInv
<1> SUFFICES ASSUME SpacesInit PROVE SpacesInv
  OBVIOUS
<1>1. SpacesTypes
  BY DEF SpacesInit, SpacesTypes, Contents, None, FromFiles, Replayed
<1>2. ServedIfCurrent
  BY DEF SpacesInit, ServedIfCurrent, Current, Holding
<1>3. Known(rows) = {} /\ boot = "down"
  BY DEF SpacesInit, Known, None
<1>4. \A s \in Names : s \in alive => FromFiles(s) # "none"
  BY DEF SpacesInit, FromFiles, Replayed
<1> QED
  BY <1>1, <1>2, <1>3, <1>4 DEF SpacesInv, DownTrue, ImportTrue, UpTrue

\* What a start reads, and the import that follows.
LEMMA StartSteps ==
  ASSUME SpacesInv, Import \/ Load \/ Imported
  PROVE  SpacesInv'
<1>t. /\ SpacesTypes /\ ServedIfCurrent /\ DownTrue /\ ImportTrue
      /\ boot # "up" /\ dropping = {} /\ \A h \in Requests : request[h] = Idle
  BY DEF SpacesInv, SpacesTypes, Import, Load, Imported
<1>s. /\ UNCHANGED <<json, events, rows, request, dropping, alive, unsaved>>
      /\ excused \subseteq excused'
  BY DEF Import, Load, Imported
<1>f. \A s \in Names : FromFiles(s)' = FromFiles(s) /\ FromFiles(s) \in Contents
  BY <1>s DEF FromFiles, Replayed, Contents
<1>c. \A s \in Names : ~Current(s)'
  BY <1>t, <1>s DEF Current, Holding
<1>1. SpacesTypes'
  <2>1. served' \in [Names -> Contents] /\ boot' \in {"down", "importing", "up"}
    BY <1>t, <1>f DEF SpacesTypes, Import, Load, Imported, Contents
  <2> QED
    BY <1>t, <1>s, <1>f, <2>1 DEF SpacesTypes
<1>2. ServedIfCurrent'
  BY <1>c DEF ServedIfCurrent
<1>3. CASE Import
  <2>1. /\ boot = "down" /\ Known(rows) = {} /\ boot' = "importing" /\ left' = Known(served')
        /\ excused' = excused
        /\ \A s \in Names : served'[s] = FromFiles(s) /\ rows[s] = "none"
    BY <1>3 DEF Import, Known
  <2>2. ImportTrue'
    <3>1. \A s \in Names \ excused : s \in alive => FromFiles(s) # "none"
      BY <1>t, <2>1 DEF DownTrue
    <3>2. \A s \in Names : served'[s] # "none" => s \in left'
      BY <2>1 DEF Known
    <3> QED
      BY <1>s, <1>f, <2>1, <3>1, <3>2 DEF ImportTrue
  <2> QED
    BY <1>1, <1>2, <2>1, <2>2 DEF SpacesInv, DownTrue, UpTrue
<1>4. CASE Load
  <2>1. /\ boot = "down" /\ Known(rows) # {} /\ boot' = "up"
        /\ \A s \in Names \ excused' : served'[s] = rows[s]
    BY <1>4 DEF Load
  <2>2. UpTrue'
    BY <1>t, <1>s, <2>1 DEF DownTrue, UpTrue, UpTrueOf
  <2> QED
    BY <1>1, <1>2, <2>1, <2>2 DEF SpacesInv, DownTrue, ImportTrue
<1>5. CASE Imported
  <2>1. boot = "importing" /\ left = {} /\ boot' = "up" /\ served' = served /\ excused' = excused
    BY <1>5 DEF Imported
  <2>2. UpTrue'
    BY <1>t, <1>s, <2>1 DEF ImportTrue, SpacesTypes, UpTrue, UpTrueOf
  <2> QED
    BY <1>1, <1>2, <2>1, <2>2 DEF SpacesInv, DownTrue, ImportTrue
<1> QED
  BY <1>3, <1>4, <1>5

LEMMA ImportSteps ==
  ASSUME SpacesInv, NEW s \in Names, ImportRow(s) \/ ImportRest(s) \/ ImportFails(s)
  PROVE  SpacesInv'
<1>t. /\ SpacesTypes /\ ServedIfCurrent /\ ImportTrue
      /\ boot = "importing" /\ s \in left /\ served[s] # "none"
  BY DEF SpacesInv, ImportRow, ImportRest, ImportFails, Reached, ImportTrue, Known
<1>s. UNCHANGED <<json, events, served, boot, request, dropping, alive, excused>>
  BY DEF ImportRow, ImportRest, ImportFails
<1>f. \A n \in Names : FromFiles(n)' = FromFiles(n)
  BY <1>s DEF FromFiles, Replayed
<1>1. /\ rows' \in [Names -> Contents] /\ left' \subseteq left /\ unsaved \subseteq unsaved'
      /\ \A n \in Names : n # s => rows'[n] = rows[n] /\ (n \in left => n \in left')
      /\ s \in left' \/ rows'[s] # "none" \/ s \in unsaved'
  BY <1>t DEF SpacesTypes, Contents, ImportRow, ImportRest, ImportFails
<1>2. SpacesTypes' /\ ServedIfCurrent'
  BY <1>t, <1>s, <1>f, <1>1 DEF SpacesTypes, ServedIfCurrent, Current, Holding
<1>3. ImportTrue'
  <2>1. left' \subseteq Known(served')
    BY <1>t, <1>s, <1>1 DEF ImportTrue
  <2>2. ASSUME NEW n \in Names
        PROVE  /\ served[n] = FromFiles(n)
               /\ served[n] = "none" => rows'[n] = "none"
               /\ served[n] # "none" /\ n \notin left' => rows'[n] # "none" \/ n \in unsaved'
    BY <1>t, <1>1 DEF ImportTrue
  <2>3. \A n \in Names \ excused : n \in alive => served[n] # "none"
    BY <1>t DEF ImportTrue
  <2> QED
    BY <1>s, <1>f, <2>1, <2>2, <2>3 DEF ImportTrue
<1> QED
  BY <1>t, <1>s, <1>2, <1>3 DEF SpacesInv, DownTrue, UpTrue

LEMMA CrashStep == ASSUME SpacesInv, Crash PROVE SpacesInv'
<1>t. SpacesTypes /\ ImportTrue /\ UpTrue /\ boot \in {"importing", "up"}
  BY DEF SpacesInv, SpacesTypes, Crash
<1>s. /\ boot' = "down" /\ served' = None /\ left' = {} /\ dropping' = {}
      /\ request' = [h \in Requests |-> Idle]
      /\ excused' = excused \cup {s \in unsaved : rows[s] = "none"}
                            \cup (IF Known(rows) = {} THEN {} ELSE left)
      /\ UNCHANGED <<json, events, rows, alive, unsaved>>
  BY DEF Crash
<1>f. \A n \in Names : FromFiles(n)' = FromFiles(n)
  BY <1>s DEF FromFiles, Replayed
<1>1. SpacesTypes'
  BY <1>t, <1>s, <1>f DEF SpacesTypes, Contents, None
<1>2. ServedIfCurrent'
  BY <1>s DEF ServedIfCurrent, Current, Holding
<1>3. ASSUME NEW s \in Names \ excused'
      PROVE  IF Known(rows) = {} THEN s \in alive => FromFiles(s) # "none"
                                 ELSE s \in alive <=> rows[s] # "none"
  <2>1. s \in Names \ excused /\ (s \in unsaved => rows[s] # "none") /\ (Known(rows) # {} => s \notin left)
    BY <1>s
  <2>2. Known(rows) = {} => rows[s] = "none"
    BY DEF Known
  <2>3. CASE boot = "importing"
    BY <1>t, <2>1, <2>2, <2>3 DEF ImportTrue, SpacesTypes
  <2>4. CASE boot = "up"
    BY <1>t, <2>1, <2>2, <2>4 DEF UpTrue, UpTrueOf
  <2> QED
    BY <1>t, <2>3, <2>4
<1>4. DownTrue'
  BY <1>s, <1>f, <1>3 DEF DownTrue, Known
<1> QED
  BY <1>1, <1>2, <1>4, <1>s DEF SpacesInv, ImportTrue, UpTrue

LEMMA JobFacts ==
  ASSUME SpacesTypes, NEW h \in Requests, request[h] # Idle
  PROVE  /\ boot = "up" /\ request[h] \in Jobs
         /\ request[h].space \in Names /\ h \in Holding(request[h].space)
         /\ request[h].is \in Contents /\ request[h].is # "none"
<1>1. boot = "up" /\ request[h] \in Jobs
  BY DEF SpacesTypes
<1> QED
  BY <1>1 DEF Jobs, Holding

LEMMA OpenStep ==
  ASSUME SpacesInv, NEW h \in Requests, NEW s \in Names, Open(h, s)
  PROVE  SpacesInv'
<1> DEFINE job == [at |-> "open", space |-> s, stale |-> FALSE, is |-> served'[s]]
<1>t. SpacesTypes /\ ServedIfCurrent /\ UpTrue /\ boot = "up" /\ request[h] = Idle
  BY DEF SpacesInv, Open
<1>s. /\ served' = [served EXCEPT ![s] = IF served[s] = "none" THEN "fresh" ELSE served[s]]
      /\ request' = [request EXCEPT ![h] = job]
      /\ UNCHANGED <<json, events, rows, boot, left, dropping, alive, unsaved, excused>>
  BY DEF Open
<1>1. /\ served' \in [Names -> Contents] /\ served'[s] # "none"
      /\ \A n \in Names : n # s => served'[n] = served[n]
  BY <1>t, <1>s DEF SpacesTypes, Contents
<1>2. job \in Jobs /\ job # Idle /\ job.space = s /\ ~job.stale
  BY <1>1 DEF Jobs, Idle
<1> HIDE DEF job
<1>3. /\ request' \in [Requests -> {Idle} \cup Jobs] /\ request'[h] = job
      /\ \A g \in Requests : g # h => request'[g] = request[g]
  BY <1>t, <1>s, <1>2 DEF SpacesTypes
<1>4. Current(s)' /\ \A n \in Names : n # s => (Current(n)' <=> Current(n))
  <2>1. h \in Holding(s)' /\ ~request'[h].stale
    BY <1>2, <1>3 DEF Holding
  <2>2. Current(s)'
    BY <2>1 DEF Current
  <2>3. \A n \in Names : n # s => Holding(n)' = Holding(n) /\ h \notin Holding(n)
    BY <1>t, <1>2, <1>3 DEF Holding
  <2> QED
    BY <1>3, <2>2, <2>3 DEF Current, Holding
<1>f. \A n \in Names : FromFiles(n)' = FromFiles(n)
  BY <1>s DEF FromFiles, Replayed
<1>5. SpacesTypes'
  BY <1>t, <1>s, <1>1, <1>3, <1>f DEF SpacesTypes
<1>6. ServedIfCurrent'
  BY <1>t, <1>1, <1>4 DEF ServedIfCurrent
<1>7. UpTrue'
  <2>1. ASSUME NEW n \in Names \ excused PROVE UpTrueOf(n)'
    BY <1>t, <1>s, <1>1, <1>4 DEF UpTrue, UpTrueOf
  <2> QED
    BY <1>s, <2>1 DEF UpTrue
<1> QED
  BY <1>t, <1>s, <1>5, <1>6, <1>7 DEF SpacesInv, DownTrue, ImportTrue

\* A request that is done with its space.
LEMMA Closed ==
  ASSUME SpacesTypes, NEW h \in Requests, request[h] # Idle,
         request' = [request EXCEPT ![h] = Idle]
  PROVE  /\ request' \in [Requests -> {Idle} \cup Jobs]
         /\ \A n \in Names : Current(n)' => Current(n)
         /\ \A n \in Names : n # request[h].space \/ request[h].stale => (Current(n) => Current(n)')
<1>1. /\ request' \in [Requests -> {Idle} \cup Jobs] /\ request'[h] = Idle
      /\ \A g \in Requests : g # h => request'[g] = request[g]
  BY DEF SpacesTypes
<1>2. \A n \in Names : Holding(n)' = Holding(n) \ {h}
  BY <1>1 DEF Holding
<1>3. ASSUME NEW n \in Names, Current(n)' PROVE Current(n)
  BY <1>1, <1>2, <1>3 DEF Current, Holding
<1>4. ASSUME NEW n \in Names, n # request[h].space \/ request[h].stale, Current(n) PROVE Current(n)'
  <2>1. PICK g \in Holding(n) : ~request[g].stale
    BY <1>4 DEF Current
  <2>2. g # h /\ g \in Requests
    BY <1>4, <2>1 DEF Holding
  <2>3. g \in Holding(n)' /\ ~request'[g].stale
    BY <1>1, <1>2, <2>1, <2>2
  <2> QED
    BY <2>3 DEF Current
<1> QED
  BY <1>1, <1>3, <1>4

\* What a request may do to its space s when it is done with it.
LEMMA CloseStep ==
  ASSUME SpacesInv, NEW h \in Requests, request[h] # Idle, NEW s \in Names, s = request[h].space,
         request' = [request EXCEPT ![h] = Idle],
         UNCHANGED <<json, events, served, boot, left, dropping>>,
         rows' \in [Names -> Contents],
         alive \subseteq alive', alive' \subseteq alive \cup {s},
         unsaved' \ {s} = unsaved \ {s}, excused' \ {s} = excused \ {s},
         \A n \in Names : n # s => rows'[n] = rows[n],
         s \notin excused' =>
           /\ request[h].stale /\ s \notin alive' => rows'[s] = "none" /\ s \notin excused
           /\ ~request[h].stale => s \in alive'
           /\ s \in alive' => served[s] # "none" \/ s \in dropping
           /\ s \in alive' => rows'[s] # "none" \/ s \in unsaved'
  PROVE  SpacesInv'
<1>t. SpacesTypes /\ ServedIfCurrent /\ UpTrue /\ boot = "up"
  BY JobFacts DEF SpacesInv
<1>1. /\ request' \in [Requests -> {Idle} \cup Jobs]
      /\ \A n \in Names : Current(n)' => Current(n)
      /\ \A n \in Names : n # s \/ request[h].stale => (Current(n) => Current(n)')
  BY <1>t, Closed
<1>f. \A n \in Names : FromFiles(n)' = FromFiles(n)
  BY DEF FromFiles, Replayed
<1>2. SpacesTypes'
  BY <1>t, <1>1, <1>f DEF SpacesTypes
<1>3. ServedIfCurrent'
  BY <1>t, <1>1 DEF ServedIfCurrent
<1>4. ASSUME NEW n \in Names, n \notin excused' PROVE UpTrueOf(n)'
  <2>1. CASE n # s
    <3>1. n \notin excused /\ (n \in alive' <=> n \in alive) /\ (n \in unsaved' <=> n \in unsaved)
      BY <1>4, <2>1
    <3> QED
      BY <1>t, <1>1, <2>1, <3>1 DEF UpTrue, UpTrueOf
  <2>2. CASE n = s /\ s \in alive'
    BY <1>4, <2>2 DEF UpTrueOf
  <2>3. CASE n = s /\ s \notin alive'
    <3>1. request[h].stale /\ rows'[s] = "none" /\ s \notin excused /\ s \notin alive
      BY <1>4, <2>3
    <3>2. served[s] # "none" => Current(s)
      BY <1>t, <3>1 DEF UpTrue, UpTrueOf
    <3> QED
      BY <1>1, <2>3, <3>1, <3>2 DEF UpTrueOf
  <2> QED
    BY <2>1, <2>2, <2>3
<1>5. UpTrue'
  BY <1>4 DEF UpTrue
<1> QED
  BY <1>t, <1>2, <1>3, <1>5 DEF SpacesInv, DownTrue, ImportTrue

LEMMA SaveSteps ==
  ASSUME SpacesInv, NEW h \in Requests,
         Save(h) \/ SaveFails(h) \/ SaveSpaceByName(h) \/ NoSave(h)
  PROVE  SpacesInv'
<1>t. SpacesTypes /\ ServedIfCurrent /\ UpTrue
  BY DEF SpacesInv
<1>0. request[h].at = "open" /\ request[h] # Idle
  BY DEF Save, SaveFails, SaveSpaceByName, NoSave, Idle
<1>1. PICK s \in Names : s = request[h].space
  BY <1>t, <1>0, JobFacts, Zenon
<1>2. /\ boot = "up" /\ request[h].is \in Contents /\ request[h].is # "none" /\ h \in Holding(s)
      /\ rows \in [Names -> Contents] /\ served \in [Names -> Contents]
      /\ request' = [request EXCEPT ![h] = Idle]
      /\ UNCHANGED <<json, events, served, boot, left, dropping>>
  BY <1>t, <1>0, <1>1, JobFacts DEF SpacesTypes, Save, SaveFails, SaveSpaceByName, NoSave
<1>3. ~request[h].stale => served[s] # "none"
  BY <1>t, <1>2 DEF ServedIfCurrent, Current
<1>4. s \notin excused => UpTrueOf(s)
  BY <1>t, <1>2 DEF UpTrue
<1>5. CASE Save(h)
  <2>1. /\ rows' = [rows EXCEPT ![s] = request[h].is]
        /\ unsaved' = unsaved \ {s}
        /\ request[h].stale => excused' = excused \cup {s} /\ alive' = alive
        /\ ~request[h].stale => alive' = alive \cup {s} /\ excused' \in {excused, excused \ {s}}
    BY <1>1, <1>5 DEF Save
  <2>2. rows' \in [Names -> Contents] /\ rows'[s] # "none" /\ \A n \in Names : n # s => rows'[n] = rows[n]
    BY <1>2, <2>1
  <2>3. /\ alive \subseteq alive' /\ alive' \subseteq alive \cup {s}
        /\ unsaved' \ {s} = unsaved \ {s} /\ excused' \ {s} = excused \ {s}
    BY <2>1
  <2>4. ASSUME s \notin excused'
        PROVE  /\ request[h].stale /\ s \notin alive' => rows'[s] = "none" /\ s \notin excused
               /\ ~request[h].stale => s \in alive'
               /\ s \in alive' => served[s] # "none" \/ s \in dropping
               /\ s \in alive' => rows'[s] # "none" \/ s \in unsaved'
    BY <1>3, <2>1, <2>2, <2>4
  <2> QED
    BY <1>0, <1>1, <1>2, <2>2, <2>3, <2>4, CloseStep
<1>6. CASE SaveFails(h)
  <2>1. /\ rows' = rows /\ excused' = excused
        /\ request[h].stale => alive' = alive /\ unsaved' = unsaved
        /\ ~request[h].stale => alive' = alive \cup {s} /\ unsaved' = unsaved \cup {s}
    BY <1>1, <1>6 DEF SaveFails
  <2>2. /\ alive \subseteq alive' /\ alive' \subseteq alive \cup {s}
        /\ unsaved' \ {s} = unsaved \ {s} /\ excused' \ {s} = excused \ {s}
    BY <2>1
  <2>3. ASSUME s \notin excused'
        PROVE  /\ request[h].stale /\ s \notin alive' => rows'[s] = "none" /\ s \notin excused
               /\ ~request[h].stale => s \in alive'
               /\ s \in alive' => served[s] # "none" \/ s \in dropping
               /\ s \in alive' => rows'[s] # "none" \/ s \in unsaved'
    BY <1>3, <1>4, <2>1, <2>3 DEF UpTrueOf
  <2> QED
    BY <1>0, <1>1, <1>2, <2>1, <2>2, <2>3, CloseStep
<1>7. CASE SaveSpaceByName(h)
  <2>1. /\ excused' = excused
        /\ served[s] = "none" => rows' = rows /\ alive' = alive /\ unsaved' = unsaved
        /\ served[s] # "none" => /\ rows' = [rows EXCEPT ![s] = served[s]]
                                 /\ alive' = alive \cup {s} /\ unsaved' = unsaved \ {s}
    BY <1>1, <1>7 DEF SaveSpaceByName
  <2>2. CASE served[s] = "none"
    BY <1>0, <1>1, <1>2, <1>3, <1>4, <2>1, <2>2, CloseStep DEF UpTrueOf
  <2>3. CASE served[s] # "none"
    <3>1. rows' \in [Names -> Contents] /\ rows'[s] # "none" /\ \A n \in Names : n # s => rows'[n] = rows[n]
      BY <1>2, <2>1, <2>3
    <3>2. /\ alive \subseteq alive' /\ alive' \subseteq alive \cup {s}
          /\ unsaved' \ {s} = unsaved \ {s} /\ excused' \ {s} = excused \ {s}
      BY <2>1, <2>3
    <3>3. ASSUME s \notin excused'
          PROVE  /\ request[h].stale /\ s \notin alive' => rows'[s] = "none" /\ s \notin excused
                 /\ ~request[h].stale => s \in alive'
                 /\ s \in alive' => served[s] # "none" \/ s \in dropping
                 /\ s \in alive' => rows'[s] # "none" \/ s \in unsaved'
      BY <2>1, <2>3, <3>1
    <3> QED
      BY <1>0, <1>1, <1>2, <3>1, <3>2, <3>3, CloseStep
  <2> QED
    BY <2>2, <2>3
<1>8. CASE NoSave(h)
  <2>1. /\ rows' = rows /\ excused' = excused
        /\ request[h].stale \/ s \in alive => alive' = alive /\ unsaved' = unsaved
        /\ ~request[h].stale /\ s \notin alive =>
             alive' = alive \cup {s} /\ unsaved' = unsaved \cup {s}
    BY <1>1, <1>8 DEF NoSave
  <2>2. /\ alive \subseteq alive' /\ alive' \subseteq alive \cup {s}
        /\ unsaved' \ {s} = unsaved \ {s} /\ excused' \ {s} = excused \ {s}
    BY <2>1
  <2>3. ASSUME s \notin excused'
        PROVE  /\ request[h].stale /\ s \notin alive' => rows'[s] = "none" /\ s \notin excused
               /\ ~request[h].stale => s \in alive'
               /\ s \in alive' => served[s] # "none" \/ s \in dropping
               /\ s \in alive' => rows'[s] # "none" \/ s \in unsaved'
    BY <1>3, <1>4, <2>1, <2>3 DEF UpTrueOf
  <2> QED
    BY <1>0, <1>1, <1>2, <2>1, <2>2, <2>3, CloseStep
<1> QED
  BY <1>5, <1>6, <1>7, <1>8

LEMMA DeleteSpaceStep == ASSUME SpacesInv, NEW s \in Names, Delete(s) PROVE SpacesInv'
<1>t. SpacesTypes /\ ServedIfCurrent /\ UpTrue /\ boot = "up"
  BY DEF SpacesInv, Delete
<1>s. /\ served' = [served EXCEPT ![s] = "none"] /\ dropping' = dropping \cup {s}
      /\ request' = [h \in Requests |->
                       IF h \in Holding(s) THEN [request[h] EXCEPT !.stale = TRUE] ELSE request[h]]
      /\ UNCHANGED <<json, events, rows, boot, left, alive, unsaved, excused>>
  BY DEF Delete
<1>1. /\ served' \in [Names -> Contents] /\ served'[s] = "none"
      /\ \A n \in Names : n # s => served'[n] = served[n]
  BY <1>t, <1>s DEF SpacesTypes, Contents
<1>2. ASSUME NEW h \in Holding(s)
      PROVE  /\ request'[h] \in Jobs /\ request'[h].stale = TRUE /\ request'[h].space = s
             /\ h \in Requests /\ request'[h] # Idle
  <2>1. h \in Requests /\ request[h] # Idle /\ request[h].space = s
    BY DEF Holding
  <2>2. request[h] \in Jobs
    BY <1>t, <2>1, JobFacts
  <2>3. request'[h] = [request[h] EXCEPT !.stale = TRUE]
    BY <1>s, <2>1
  <2> QED
    BY <2>1, <2>2, <2>3 DEF Jobs, Idle
<1>3. \A h \in Requests : h \notin Holding(s) => request'[h] = request[h]
  BY <1>s
<1>4. request' \in [Requests -> {Idle} \cup Jobs]
  <2>1. \A h \in Requests : request'[h] \in {Idle} \cup Jobs
    BY <1>t, <1>2, <1>3 DEF SpacesTypes
  <2> QED
    BY <1>s, <2>1
<1>5. \A n \in Names : Holding(n)' = Holding(n)
  BY <1>2, <1>3 DEF Holding
<1>6. ~Current(s)' /\ \A n \in Names : n # s => (Current(n)' <=> Current(n))
  <2>1. ~Current(s)'
    BY <1>2, <1>5 DEF Current
  <2>2. ASSUME NEW n \in Names, n # s PROVE Current(n)' <=> Current(n)
    <3>1. \A h \in Holding(n) : h \in Requests /\ h \notin Holding(s)
      BY <2>2 DEF Holding
    <3> QED
      BY <1>3, <1>5, <3>1 DEF Current
  <2> QED
    BY <2>1, <2>2
<1>f. \A n \in Names : FromFiles(n)' = FromFiles(n)
  BY <1>s DEF FromFiles, Replayed
<1>7. SpacesTypes'
  BY <1>t, <1>s, <1>1, <1>4, <1>f DEF SpacesTypes
<1>8. ServedIfCurrent'
  BY <1>t, <1>1, <1>6 DEF ServedIfCurrent
<1>9. UpTrue'
  <2>1. ASSUME NEW n \in Names \ excused PROVE UpTrueOf(n)'
    BY <1>t, <1>s, <1>1, <1>6 DEF UpTrue, UpTrueOf
  <2> QED
    BY <1>s, <2>1 DEF UpTrue
<1> QED
  BY <1>t, <1>s, <1>7, <1>8, <1>9 DEF SpacesInv, DownTrue, ImportTrue

LEMMA DropSteps ==
  ASSUME SpacesInv, NEW s \in Names, DropSpace(s) \/ DropFails(s)
  PROVE  SpacesInv'
<1>t. SpacesTypes /\ ServedIfCurrent /\ UpTrue /\ s \in dropping /\ boot = "up"
  BY DEF SpacesInv, SpacesTypes, DropSpace, DropFails, Removed
<1>s. /\ dropping' = dropping \ {s} /\ alive' = alive \ {s} /\ unsaved' = unsaved \ {s}
      /\ json' = [json EXCEPT ![s] = "none"] /\ events' = events \ {s}
      /\ excused' \in {excused, excused \cup {s}}
      /\ UNCHANGED <<served, boot, left, request>>
  BY DEF DropSpace, DropFails, Removed
<1>1. /\ rows' \in [Names -> Contents] /\ \A n \in Names : n # s => rows'[n] = rows[n]
      /\ s \notin excused' => rows'[s] = "none" /\ served[s] = "none"
  BY <1>t DEF DropSpace, DropFails, SpacesTypes, Contents
<1>f. \A n \in Names : FromFiles(n)' # "none" => n # s /\ FromFiles(n)' = FromFiles(n)
  BY <1>t, <1>s DEF FromFiles, Replayed, SpacesTypes
<1>2. SpacesTypes'
  BY <1>t, <1>s, <1>1, <1>f DEF SpacesTypes
<1>c. \A n \in Names : Current(n)' <=> Current(n)
  BY <1>s DEF Current, Holding
<1>3. ServedIfCurrent'
  BY <1>t, <1>s, <1>c DEF ServedIfCurrent
<1>4. ASSUME NEW n \in Names \ excused' PROVE UpTrueOf(n)'
  <2>1. CASE n = s
    BY <1>s, <1>1, <2>1 DEF UpTrueOf
  <2>2. CASE n # s
    BY <1>t, <1>s, <1>1, <1>c, <2>2 DEF UpTrue, UpTrueOf
  <2> QED
    BY <2>1, <2>2
<1>5. UpTrue'
  BY <1>4 DEF UpTrue
<1> QED
  BY <1>t, <1>s, <1>2, <1>3, <1>5 DEF SpacesInv, DownTrue, ImportTrue

LEMMA StepSpaces == ASSUME SpacesInv, [SpacesNext]_spacesVars PROVE SpacesInv'
<1>1. CASE UNCHANGED spacesVars
  <2>1. UNCHANGED <<json, events, served, rows, boot, left, request, dropping, alive, unsaved, excused>>
    BY <1>1 DEF spacesVars
  <2>2. \A n \in Names : FromFiles(n)' = FromFiles(n)
    BY <2>1 DEF FromFiles, Replayed
  <2>3. \A n \in Names : Current(n)' <=> Current(n)
    BY <2>1 DEF Current, Holding
  <2>4. SpacesTypes' /\ ServedIfCurrent'
    BY <2>1, <2>2, <2>3 DEF SpacesInv, SpacesTypes, ServedIfCurrent
  <2>5. DownTrue' /\ ImportTrue'
    BY <2>1, <2>2 DEF SpacesInv, DownTrue, ImportTrue, Known
  <2>6. UpTrue'
    BY <2>1, <2>3 DEF SpacesInv, UpTrue, UpTrueOf
  <2> QED
    BY <2>4, <2>5, <2>6 DEF SpacesInv
<1> QED
  BY <1>1, StartSteps, ImportSteps, CrashStep, OpenStep, SaveSteps, DeleteSpaceStep, DropSteps
     DEF SpacesNext

\* The server has the spaces that were imported or created and not deleted, for
\* any spaces, any files and any requests, but for those the code gives up.
THEOREM ServedSpacesTrue == SpacesSpec => []SpacesTrue
<1>1. ASSUME SpacesInv PROVE SpacesTrue
  <2> SUFFICES ASSUME boot = "up", dropping = {}, \A h \in Requests : request[h] = Idle,
                      NEW s \in Names \ excused
               PROVE  (served[s] # "none") <=> (s \in alive)
    BY DEF SpacesTrue, Quiet
  <2>1. ~Current(s)
    BY DEF Current, Holding
  <2> QED
    BY <1>1, <2>1 DEF SpacesInv, UpTrue, UpTrueOf
<1> QED
  BY InitSpaces, StepSpaces, <1>1, PTL DEF SpacesSpec

=============================================================================
