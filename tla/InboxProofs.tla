---------------------------- MODULE InboxProofs ----------------------------
(* Proofs about Inbox, for any agents, messages and limits.                *)
EXTENDS Inbox, FiniteSetTheorems, WellFoundedInduction, TLAPS

USE AgentsAssumption, ClientsAssumption, TargetsAssumption, BoundsAssumption

-----------------------------------------------------------------------------
\* The rows hold the direct messages of the agents of A.
Stored(box, R, A) ==
  \A a \in A : \A m \in box[a] :
    ~m.shared => [id |-> m.id, agent |-> a, read |-> m.read] \in R

LEMMA LeastNumber ==
  ASSUME NEW T \in SUBSET Nat, T # {}
  PROVE  \E n \in T : \A k \in T : n <= k
<1> DEFINE R == {p \in Nat \X Nat : p[1] < p[2]}
<1>1. IsWellFoundedOn(R, Nat)
  BY NatLessThanWellFounded DEF OpToRel
<1>2. \A n, k \in T : <<k, n>> \notin R => n <= k
  OBVIOUS
<1> HIDE DEF R
<1>3. \E n \in T : \A k \in T : <<k, n>> \notin R
  BY <1>1, WFMin, ZenonT(40)
<1>4. QED
  BY <1>2, <1>3

\* A set of agents has a first and a last one in map order.
LEMMA FirstAndLast ==
  ASSUME NEW H \in SUBSET Agents, H # {}, NEW order \in MapOrders
  PROVE  /\ \E a \in H : \A b \in H : order[a] <= order[b]
         /\ \E a \in H : \A b \in H : order[b] <= order[a]
<1> DEFINE N == Cardinality(Agents)
<1>1. N \in Nat
  BY FS_CardinalityType
<1>2. \A a \in H : order[a] \in 1 .. N
  BY DEF MapOrders
<1> HIDE DEF N
<1>3. \E a \in H : \A b \in H : order[a] <= order[b]
  <2> DEFINE T == {order[a] : a \in H}
  <2>1. T \in SUBSET Nat /\ T # {}
    BY <1>1, <1>2
  <2> HIDE DEF T
  <2>2. PICK n \in T : \A k \in T : n <= k
    BY <2>1, LeastNumber
  <2>3. QED
    BY <2>2 DEF T
<1>4. \E a \in H : \A b \in H : order[b] <= order[a]
  <2> DEFINE T == {N - order[a] : a \in H}
  <2>1. T \in SUBSET Nat /\ T # {}
    BY <1>1, <1>2
  <2> HIDE DEF T
  <2>2. PICK n \in T : \A k \in T : n <= k
    BY <2>1, LeastNumber
  <2>3. PICK a \in H : n = N - order[a]
    BY <2>2 DEF T
  <2>4. ASSUME NEW b \in H PROVE order[b] <= order[a]
    <3>1. N - order[a] <= N - order[b]
      BY <2>2, <2>3 DEF T
    <3>2. QED
      BY <1>1, <1>2, <3>1
  <2>5. QED
    BY <2>4
<1>5. QED
  BY <1>3, <1>4

LEMMA HolderTypes ==
  ASSUME NEW box, NEW i \in Held(box), NEW order \in MapOrders
  PROVE  /\ FirstHolder(box, i, order) \in Holders(box, i)
         /\ LastHolder(box, i, order) \in Holders(box, i)
<1>1. Holders(box, i) \in SUBSET Agents /\ Holders(box, i) # {}
  BY DEF Held, Holders
<1>2. QED
  BY <1>1, FirstAndLast DEF FirstHolder, LastHolder

\* What has an ID each is finite.
LEMMA FiniteById ==
  ASSUME NEW S, \A x \in S : x.id \in Stamps, \A x, y \in S : x.id = y.id => x = y
  PROVE  IsFiniteSet(S) /\ Cardinality(S) \in 0 .. MaxStamp
<1> DEFINE f == [x \in S |-> x.id]
<1>1. f \in Injection(S, Stamps)
  BY DEF Injection, IsInjective
<1>2. IsFiniteSet(Stamps) /\ Cardinality(Stamps) = MaxStamp
  BY FS_Interval DEF Stamps
<1> HIDE DEF f
<1>3. IsFiniteSet(S) /\ Cardinality(S) <= MaxStamp
  BY <1>1, <1>2, FS_Injection
<1>4. QED
  BY <1>3, FS_CardinalityType

Like(x, m) == x.id = m.id /\ x.read = m.read /\ x.shared = m.shared

\* Reindexing changes places only.
LEMMA SameIndexed ==
  ASSUME NEW S \in SUBSET Message, \A m, n \in S : m.id = n.id => m = n
  PROVE  /\ Reindexed(S) \subseteq Message
         /\ \A x \in Reindexed(S) : \E m \in S : Like(x, m)
         /\ \A x, y \in Reindexed(S) : x.id = y.id => x = y
<1> DEFINE Place(m) == Cardinality({n \in S : n.at <= m.at})
<1>1. IsFiniteSet(S) /\ Cardinality(S) \in 0 .. MaxStamp
  BY FiniteById DEF Message
<1>2. \A m \in S : Place(m) \in Stamps
  <2> TAKE m \in S
  <2> DEFINE Before == {n \in S : n.at <= m.at}
  <2>1. Before \in SUBSET S /\ m \in Before
    BY DEF Message, Stamps
  <2> HIDE DEF Before
  <2>2. IsFiniteSet(Before) /\ Cardinality(Before) <= Cardinality(S)
    BY <1>1, <2>1, FS_Subset
  <2>3. Cardinality(Before) \in Nat /\ Cardinality(Before) # 0
    BY <2>1, <2>2, FS_CardinalityType, FS_EmptySet
  <2>4. Cardinality(Before) \in Stamps
    BY <1>1, <2>2, <2>3 DEF Stamps
  <2>5. QED
    BY <2>4 DEF Before
<1>3. Reindexed(S) = {[m EXCEPT !.at = Place(m)] : m \in S}
  BY DEF Reindexed
<1> HIDE DEF Place
<1>4. ASSUME NEW m \in S
      PROVE /\ [m EXCEPT !.at = Place(m)] \in Message
            /\ Like([m EXCEPT !.at = Place(m)], m)
  BY <1>2 DEF Message, Like
<1>5. Reindexed(S) \subseteq Message
  BY <1>3, <1>4
<1>6. ASSUME NEW x \in Reindexed(S)
      PROVE \E m \in S : x = [m EXCEPT !.at = Place(m)] /\ Like(x, m)
  BY <1>3, <1>4
<1>7. ASSUME NEW x \in Reindexed(S), NEW y \in Reindexed(S), x.id = y.id
      PROVE x = y
  <2>1. PICK m \in S : x = [m EXCEPT !.at = Place(m)] /\ Like(x, m)
    BY <1>6
  <2>2. PICK n \in S : y = [n EXCEPT !.at = Place(n)] /\ Like(y, n)
    BY <1>6
  <2>3. m = n
    BY <1>7, <2>1, <2>2 DEF Like
  <2>4. QED
    BY <2>1, <2>2, <2>3
<1>8. QED
  BY <1>5, <1>6, <1>7

\* Saving a tidy space stores every direct message and keeps the table keyed.
LEMMA Saved ==
  ASSUME NEW box, Tidy(box), Keyed(rows), Owned(box, rows),
         NEW order \in MapOrders, NEW R, R = Written(box, order)
  PROVE  /\ Keyed(R) /\ Owned(box, R) /\ Stored(box, R, Agents)
         /\ \A r \in R : r.id \in Held(box) \/ r \in rows
<1> DEFINE Agent(i) == IF \E r \in rows : r.id = i
                         THEN (CHOOSE r \in rows : r.id = i).agent
                         ELSE FirstHolder(box, i, order)
           Read(i) == ReadBy(box, i, LastHolder(box, i, order))
           New(i) == [id |-> i, agent |-> Agent(i), read |-> Read(i)]
<1>1. R = {r \in rows : r.id \notin Held(box)} \cup {New(i) : i \in Held(box)}
  BY DEF Written
<1>2. Held(box) \subseteq Stamps
  BY DEF Held, Ids, Tidy, Fits, Message
<1>3. ASSUME NEW i \in Held(box) PROVE Agent(i) \in Agents
  <2>1. CASE \E r \in rows : r.id = i
    <3>1. (CHOOSE r \in rows : r.id = i) \in rows
      BY <2>1
    <3>2. QED
      BY <2>1, <3>1 DEF Keyed, Row
  <2>2. CASE ~\E r \in rows : r.id = i
    BY <2>2, HolderTypes DEF Holders
  <2>3. QED
    BY <2>1, <2>2
<1>4. \A i \in Held(box) : Read(i) \in BOOLEAN
  BY DEF ReadBy
<1>5. ASSUME NEW a \in Agents, NEW m \in box[a], ~m.shared
      PROVE m.id \in Held(box) /\ Agent(m.id) = a /\ Read(m.id) = m.read
  <2> DEFINE i == m.id
  <2>1. i \in Held(box) /\ Holders(box, i) = {a}
    BY <1>5 DEF Held, Holders, Ids, Tidy, Alone
  <2>2. FirstHolder(box, i, order) = a /\ LastHolder(box, i, order) = a
    BY <2>1, HolderTypes
  <2>3. Agent(i) = a
    <3>1. CASE \E r \in rows : r.id = i
      <4>1. (CHOOSE r \in rows : r.id = i) \in rows /\ (CHOOSE r \in rows : r.id = i).id = i
        BY <3>1
      <4>2. QED
        BY <1>5, <3>1, <4>1 DEF Owned
    <3>2. CASE ~\E r \in rows : r.id = i
      BY <2>2, <3>2
    <3>3. QED
      BY <3>1, <3>2
  <2>4. m.read \in BOOLEAN /\ \A n \in box[a] : n.id = i => n = m
    BY DEF Tidy, Fits, Distinct, Message
  <2>5. ReadBy(box, i, a) = m.read
    <3>1. CASE m.read = TRUE
      BY <3>1 DEF ReadBy
    <3>2. CASE m.read = FALSE
      BY <2>4, <3>2 DEF ReadBy
    <3>3. QED
      BY <2>4, <3>1, <3>2
  <2>6. QED
    BY <2>1, <2>2, <2>3, <2>5
<1> HIDE DEF Agent, Read
<1>6. Keyed(R)
  <2>1. R \subseteq Row
    BY <1>1, <1>2, <1>3, <1>4 DEF Keyed, Row
  <2>2. QED
    BY <1>1, <2>1 DEF Keyed
<1>7. Owned(box, R)
  <2> SUFFICES ASSUME NEW a \in Agents, NEW m \in box[a], NEW r \in R,
                      ~m.shared, r.id = m.id
               PROVE r.agent = a
    BY DEF Owned
  <2>1. r = New(m.id)
    BY <1>1, <1>5
  <2>2. QED
    BY <1>5, <2>1
<1>8. Stored(box, R, Agents)
  <2> SUFFICES ASSUME NEW a \in Agents, NEW m \in box[a], ~m.shared
               PROVE [id |-> m.id, agent |-> a, read |-> m.read] \in R
    BY DEF Stored
  <2>1. New(m.id) \in R /\ New(m.id) = [id |-> m.id, agent |-> a, read |-> m.read]
    BY <1>1, <1>5
  <2>2. QED
    BY <2>1
<1>9. \A r \in R : r.id \in Held(box) \/ r \in rows
  BY <1>1
<1>10. QED
  BY <1>6, <1>7, <1>8, <1>9

\* One save of the space, under the lock, after an edit that keeps it tidy.
LEMMA SaveStep ==
  ASSUME TypeOK, Keyed(rows), Tidy(inbox'), Owned(inbox', rows), SaveSpace(inbox'),
         \A a \in Agents : \A m \in inbox'[a] : m.id <= clock',
         \A r \in rows : r.id <= clock'
  PROVE  /\ Keyed(rows') /\ Owned(inbox', rows') /\ DirectDurable'
         /\ unsaved' = {} /\ behind' = {} /\ \A r \in rows' : r.id <= clock'
         /\ \A r \in rows' : (\E a \in Agents : \E m \in inbox'[a] : m.id = r.id) \/ r \in rows
<1>1. PICK order \in MapOrders : rows' = Written(inbox', order)
  BY DEF SaveSpace
<1>2. /\ Keyed(rows') /\ Owned(inbox', rows') /\ Stored(inbox', rows', Agents)
      /\ \A r \in rows' : r.id \in Held(inbox') \/ r \in rows
  BY <1>1, Saved
<1>3. unsaved' = {} /\ behind' = {}
  BY DEF SaveSpace
<1>4. DirectDurable'
  BY <1>2 DEF DirectDurable, Stored
<1>5. \A i \in Held(inbox') : \E a \in Agents : \E m \in inbox'[a] : m.id = i
  BY DEF Held, Ids
<1>6. QED
  BY <1>2, <1>3, <1>4, <1>5

LEMMA InitInbox == Init => InboxInv
  BY DEF Init, InboxInv, TypeOK, Tidy, Fits, Distinct, Alone, Keyed, Owned, Past, Apart,
         DirectDurable, Earlier

\* A step that touches neither inboxes nor rows nor copies of them.
LEMMA StillInbox ==
  ASSUME InboxInv, UNCHANGED <<inbox, rows, late, saving, unsaved, behind>>,
         TypeOK', Past', Apart'
  PROVE  InboxInv'
<1>1. Tidy(inbox') /\ Keyed(rows') /\ Owned(inbox', rows')
  BY DEF InboxInv
<1>2. \A s \in Savers : Earlier(inbox', saving'[s])
  BY DEF InboxInv
<1>3. DirectDurable'
  BY DEF InboxInv, DirectDurable, Awaited
<1>4. QED
  BY <1>1, <1>2, <1>3 DEF InboxInv

LEMMA StampInbox ==
  ASSUME InboxInv, NEW kind \in Kinds, NEW to \in Targets, Stamp(kind, to)
  PROVE  InboxInv'
<1> DEFINE f == [id |-> clock + 1, to |-> to, kind |-> kind, passed |-> {}]
<1>1. flying' = flying \cup {f} /\ clock' = clock + 1 /\ clock < MaxStamp
  BY DEF Stamp
<1>2. UNCHANGED <<inbox, rows, late, saving, deleting, cursor, asking, owed, unsaved, behind>>
  BY DEF Stamp
<1>3. clock \in Nat /\ clock + 1 \in Stamps
  BY <1>1 DEF InboxInv, TypeOK, Stamps
<1>4. f \in Flight
  BY <1>3 DEF Flight
<1>6. f.id = clock + 1
  OBVIOUS
<1> HIDE DEF f
<1>5. TypeOK'
  <2>1. flying' \subseteq Flight
    BY <1>1, <1>4 DEF InboxInv, TypeOK
  <2>2. clock' \in 0 .. MaxStamp
    BY <1>1, <1>3 DEF Stamps
  <2>3. QED
    BY <1>2, <2>1, <2>2 DEF InboxInv, TypeOK
<1>7. /\ \A a \in Agents : \A m \in inbox[a] : m.id \in Int
      /\ \A r \in rows : r.id \in Int
      /\ \A g \in flying : g.id \in Int
      /\ \A s \in Savers : \A r \in saving[s] : r.id \in Int
  BY DEF InboxInv, TypeOK, Message, Row, Flight, Stamps
<1>8. Past'
  BY <1>1, <1>2, <1>3, <1>6, <1>7 DEF InboxInv, Past
<1>9. Apart'
  BY <1>1, <1>2, <1>3, <1>6, <1>7 DEF InboxInv, Past, Apart
<1>10. QED
  BY <1>2, <1>5, <1>8, <1>9, StillInbox

LEMMA PassedFacts ==
  ASSUME NEW F \in SUBSET Flight, NEW who
  PROVE  Passed(F, who) \subseteq Flight
  BY DEF Passed, Flight

\* What flies stays apart from what is delivered or saved, as no ID is new.
LEMMA PassedApart ==
  ASSUME InboxInv, NEW F \in SUBSET flying, NEW who, flying' = Passed(F, who),
         clock' = clock,
         \A f \in F : /\ \A a \in Agents : \A m \in inbox'[a] : m.id # f.id
                      /\ \A r \in rows' : r.id # f.id
                      /\ \A s \in Savers : \A r \in saving'[s] : r.id # f.id
  PROVE  /\ flying' \subseteq Flight
         /\ \A f \in flying' : f.id <= clock'
         /\ Apart'
<1>1. F \in SUBSET Flight
  BY DEF InboxInv, TypeOK
<1>2. ASSUME NEW f \in flying'
      PROVE \E g \in F : f = [g EXCEPT !.passed = @ \cup (who \cap g.to \cap Clients)]
                          /\ f.id = g.id
  BY <1>1, <1>2 DEF Passed, Flight
<1>3. flying' \subseteq Flight
  BY <1>1, PassedFacts
<1>4. \A f \in flying' : f.id <= clock'
  BY <1>2 DEF InboxInv, Past
<1>5. \A f \in flying' : /\ \A a \in Agents : \A m \in inbox'[a] : m.id # f.id
                         /\ \A r \in rows' : r.id # f.id
                         /\ \A s \in Savers : \A r \in saving'[s] : r.id # f.id
  BY <1>2
<1>6. ASSUME NEW f \in flying', NEW g \in flying', f.id = g.id PROVE f = g
  <2>1. PICK h \in F : f = [h EXCEPT !.passed = @ \cup (who \cap h.to \cap Clients)]
                      /\ f.id = h.id
    BY <1>2
  <2>2. PICK k \in F : g = [k EXCEPT !.passed = @ \cup (who \cap k.to \cap Clients)]
                      /\ g.id = k.id
    BY <1>2
  <2>3. h = k
    BY <1>6, <2>1, <2>2 DEF InboxInv, Apart
  <2>4. QED
    BY <2>1, <2>2, <2>3
<1>7. QED
  BY <1>3, <1>4, <1>5, <1>6 DEF Apart

\* A received message is new, the others are the old ones.
LEMMA ReceivedFacts ==
  ASSUME InboxInv, NEW m \in flying, NEW a \in Agents
  PROVE  LET R == Received(inbox[a], m)
         IN /\ R \subseteq Message
            /\ \A x \in R : \/ x.id = m.id /\ x.shared = (Cardinality(m.to) > 1)
                            \/ \E y \in inbox[a] : Like(x, y)
            /\ \A x, y \in R : x.id = y.id => x = y
<1> DEFINE box == inbox[a]
           new == [id |-> m.id, at |-> Cardinality(box) + 1, read |-> FALSE,
                   shared |-> Cardinality(m.to) > 1]
           grown == box \cup {new}
<1>1. m \in Flight /\ box \in SUBSET Message
  BY DEF InboxInv, TypeOK
<1>2. \A x, y \in box : x.id = y.id => x = y
  BY DEF InboxInv, Tidy, Distinct
<1>3. \A x \in box : x.id # m.id
  BY DEF InboxInv, Apart
<1>4. new.id = m.id /\ new.shared = (Cardinality(m.to) > 1) /\ new.read = FALSE
  OBVIOUS
<1>5. new \in Message
  <2>1. IsFiniteSet(box) /\ Cardinality(box) \in 0 .. MaxStamp
    BY <1>1, <1>2, FiniteById DEF Message
  <2>2. m.id \in Stamps
    BY <1>1 DEF Flight
  <2> DEFINE S == box \cup {m}
  <2>3. \A x \in S : x.id \in Stamps
    BY <1>1, <2>2 DEF Message
  <2>4. \A x, y \in S : x.id = y.id => x = y
    BY <1>2, <1>3
  <2>5. Cardinality(S) \in 0 .. MaxStamp
    BY <2>3, <2>4, FiniteById
  <2>6. Cardinality(S) = Cardinality(box) + 1
    BY <1>3, <2>1, FS_AddElement
  <2> HIDE DEF S
  <2>7. Cardinality(box) + 1 \in Stamps
    BY <2>1, <2>5, <2>6 DEF Stamps
  <2>8. (Cardinality(m.to) > 1) \in BOOLEAN
    OBVIOUS
  <2>9. QED
    BY <2>2, <2>7, <2>8 DEF Message
<1> HIDE DEF new
<1>6. grown \in SUBSET Message /\ \A x, y \in grown : x.id = y.id => x = y
  BY <1>1, <1>2, <1>3, <1>4, <1>5
<1>7. \A x \in grown : \/ x.id = m.id /\ x.shared = (Cardinality(m.to) > 1)
                       \/ \E y \in box : Like(x, y)
  BY <1>4 DEF Like
<1> DEFINE kept == PruneRead(grown)
<1>8. kept \in SUBSET grown
  BY DEF PruneRead
<1>9. Received(box, m) = IF m.kind = "sent" THEN Reindexed(kept) ELSE grown
  BY DEF Received, new
<1> HIDE DEF grown, kept
<1>10. kept \in SUBSET Message /\ \A x, y \in kept : x.id = y.id => x = y
  BY <1>6, <1>8
<1>11. /\ Reindexed(kept) \subseteq Message
       /\ \A x \in Reindexed(kept) : \E y \in kept : Like(x, y)
       /\ \A x, y \in Reindexed(kept) : x.id = y.id => x = y
  BY <1>10, SameIndexed
<1>12. \A x \in Reindexed(kept) : \/ x.id = m.id /\ x.shared = (Cardinality(m.to) > 1)
                                  \/ \E y \in box : Like(x, y)
  BY <1>7, <1>8, <1>11 DEF Like
<1>13. QED
  BY <1>6, <1>7, <1>9, <1>11, <1>12

\* What an append makes of the inboxes.
AppendedTo(m) ==
  /\ inbox' = [a \in Agents |-> IF a \in m.to THEN Received(inbox[a], m) ELSE inbox[a]]
  /\ Tidy(inbox') /\ Owned(inbox', rows)
  /\ \A s \in Savers : Earlier(inbox', saving[s])
  /\ \A a \in Agents : \A x \in inbox'[a] : x.id <= clock
  /\ \A a \in Agents : \A x \in inbox'[a] :
       \/ a \in m.to /\ x.id = m.id /\ x.shared = (Cardinality(m.to) > 1)
       \/ x.id # m.id /\ \E y \in inbox[a] : Like(x, y)
  /\ owed' \in [Clients -> SUBSET Stamps]

LEMMA AppendInbox == ASSUME InboxInv, NEW m \in flying, Append(m) PROVE AppendedTo(m)
<1>1. inbox' = [a \in Agents |-> IF a \in m.to THEN Received(inbox[a], m) ELSE inbox[a]]
  BY DEF Append
<1>2. m \in Flight /\ inbox \in [Agents -> SUBSET Message]
  BY DEF InboxInv, TypeOK
<1>3. /\ \A a \in Agents : \A x \in inbox[a] : x.id # m.id
      /\ \A r \in rows : r.id # m.id
      /\ \A s \in Savers : \A r \in saving[s] : r.id # m.id
  BY DEF InboxInv, Apart
<1>4. Fits(inbox') /\ Distinct(inbox')
  BY <1>1, <1>2, ReceivedFacts DEF Fits, Distinct, InboxInv, Tidy
<1>5. ASSUME NEW a \in Agents, NEW x \in inbox'[a]
      PROVE \/ a \in m.to /\ x.id = m.id /\ x.shared = (Cardinality(m.to) > 1)
            \/ x.id # m.id /\ \E y \in inbox[a] : Like(x, y)
  <2>1. CASE a \in m.to
    <3>1. inbox'[a] = Received(inbox[a], m)
      BY <1>1, <2>1
    <3>2. \/ x.id = m.id /\ x.shared = (Cardinality(m.to) > 1)
          \/ \E y \in inbox[a] : Like(x, y)
      BY <1>5, <3>1, ReceivedFacts
    <3>3. QED
      BY <1>3, <2>1, <3>2 DEF Like
  <2>2. CASE a \notin m.to
    <3>1. x \in inbox[a]
      BY <1>1, <1>5, <2>2
    <3>2. QED
      BY <1>3, <3>1 DEF Like
  <2>3. QED
    BY <2>1, <2>2
<1>6. ASSUME ~(Cardinality(m.to) > 1), NEW a \in m.to, NEW b \in m.to PROVE a = b
  <2>1. m.to \in SUBSET Agents
    BY <1>2 DEF Flight
  <2>2. IsFiniteSet(m.to) /\ Cardinality(m.to) \in Nat
    BY <2>1, FS_Subset, FS_CardinalityType
  <2>3. Cardinality(m.to) # 0
    BY <2>2, FS_EmptySet
  <2>4. Cardinality(m.to) = 1
    BY <1>6, <2>2, <2>3
  <2>5. QED
    BY <2>2, <2>4, FS_Singleton
<1>7. Alone(inbox')
  <2> SUFFICES ASSUME NEW a \in Agents, NEW b \in Agents,
                      NEW x \in inbox'[a], NEW y \in inbox'[b],
                      ~x.shared, x.id = y.id
               PROVE a = b
    BY DEF Alone
  <2>1. CASE x.id = m.id
    BY <1>5, <1>6, <2>1
  <2>2. CASE x.id # m.id
    <3>1. PICK u \in inbox[a] : Like(x, u)
      BY <1>5, <2>2
    <3>2. PICK v \in inbox[b] : Like(y, v)
      BY <1>5, <2>2
    <3>3. ~u.shared /\ u.id = v.id
      BY <3>1, <3>2 DEF Like
    <3>4. QED
      BY <3>3 DEF InboxInv, Tidy, Alone
  <2>3. QED
    BY <2>1, <2>2
<1>8. Owned(inbox', rows)
  BY <1>3, <1>5 DEF Owned, InboxInv, Like
<1>9. \A a \in Agents : \A x \in inbox'[a] : x.id <= clock
  BY <1>5 DEF InboxInv, Past, Like
<1>10. \A s \in Savers : Earlier(inbox', saving[s])
  <2> SUFFICES ASSUME NEW s \in Savers, NEW a \in Agents, NEW x \in inbox'[a],
                      NEW r \in saving[s], ~x.shared, r.id = x.id
               PROVE  r.agent = a /\ (r.read => x.read)
    BY DEF Earlier
  <2>1. PICK y \in inbox[a] : Like(x, y)
    BY <1>3, <1>5
  <2>2. QED
    BY <2>1 DEF InboxInv, Earlier, Like
<1>11. owed' \in [Clients -> SUBSET Stamps]
  <2>1. m.id \in Stamps
    BY <1>2 DEF Flight
  <2>2. \A a \in Clients : StillOwed(inbox')[a] \in SUBSET Stamps
    BY DEF StillOwed, InboxInv, TypeOK
  <2>3. owed' = [a \in Clients |->
          StillOwed(inbox')[a] \cup (IF a \in m.to \ (m.passed \cup asking) THEN {m.id} ELSE {})]
    BY DEF Append
  <2>4. QED
    BY <2>1, <2>2, <2>3
<1>12. QED
  BY <1>1, <1>4, <1>5, <1>7, <1>8, <1>9, <1>10, <1>11 DEF AppendedTo, Tidy

\* What still flies is not what was appended.
LEMMA AppendApart ==
  ASSUME InboxInv, NEW m \in flying, Append(m), AppendedTo(m),
         \A r \in rows' : (\E a \in Agents : \E x \in inbox'[a] : x.id = r.id) \/ r \in rows
  PROVE  /\ flying' \subseteq Flight /\ Apart'
         /\ \A f \in flying' : f.id <= clock'
<1>1. ASSUME NEW f \in flying \ {m}
      PROVE /\ \A a \in Agents : \A x \in inbox'[a] : x.id # f.id
            /\ \A r \in rows' : r.id # f.id
            /\ \A s \in Savers : \A r \in saving'[s] : r.id # f.id
  <2>1. f.id # m.id
    BY <1>1 DEF InboxInv, Apart
  <2>2. \A a \in Agents : \A x \in inbox'[a] : x.id # f.id
    BY <1>1, <2>1 DEF AppendedTo, InboxInv, Apart, Like
  <2>3. saving' = saving
    BY DEF Append
  <2>4. QED
    BY <1>1, <2>2, <2>3 DEF InboxInv, Apart
<1>2. flying \ {m} \in SUBSET flying
  OBVIOUS
<1>3. QED
  BY <1>1, <1>2, PassedApart DEF Append

LEMMA DeliverInbox == ASSUME InboxInv, NEW m \in flying, Deliver(m) PROVE InboxInv'
<1>1. /\ Append(m) /\ SaveSpace(inbox')
      /\ UNCHANGED <<clock, late, saving, deleting, cursor, asking>>
  BY DEF Deliver, Append
<1>2. AppendedTo(m)
  BY <1>1, AppendInbox
<1>3. /\ Keyed(rows') /\ Owned(inbox', rows') /\ DirectDurable'
      /\ unsaved' = {} /\ behind' = {} /\ \A r \in rows' : r.id <= clock'
      /\ \A r \in rows' : (\E a \in Agents : \E x \in inbox'[a] : x.id = r.id) \/ r \in rows
  BY <1>1, <1>2, SaveStep DEF InboxInv, Past, AppendedTo
<1>4. /\ flying' \subseteq Flight /\ Apart'
      /\ \A f \in flying' : f.id <= clock'
  BY <1>1, <1>2, <1>3, AppendApart
<1>5. TypeOK'
  BY <1>1, <1>2, <1>3, <1>4 DEF InboxInv, TypeOK, AppendedTo, Tidy, Fits, Keyed
<1>6. Past'
  BY <1>1, <1>2, <1>3, <1>4 DEF InboxInv, Past, AppendedTo
<1>7. \A s \in Savers : Earlier(inbox', saving'[s])
  BY <1>1, <1>2 DEF AppendedTo
<1>8. QED
  BY <1>2, <1>3, <1>4, <1>5, <1>6, <1>7 DEF InboxInv, AppendedTo

\* A notice is shown before it has a row; its handler will write it.
LEMMA NotifyInbox == ASSUME InboxInv, NEW m \in flying, Notify(m) PROVE InboxInv'
<1>1. /\ Append(m) /\ late' = late \cup {m.id}
      /\ UNCHANGED <<clock, rows, saving, deleting, cursor, asking, unsaved, behind>>
  BY DEF Notify, Append
<1>2. AppendedTo(m)
  BY <1>1, AppendInbox
<1>3. /\ flying' \subseteq Flight /\ Apart'
      /\ \A f \in flying' : f.id <= clock'
  BY <1>1, <1>2, AppendApart
<1>4. m.id \in Stamps
  BY DEF InboxInv, TypeOK, Flight
<1>5. TypeOK'
  BY <1>1, <1>2, <1>3, <1>4 DEF InboxInv, TypeOK, AppendedTo, Tidy, Fits
<1>6. Past'
  BY <1>1, <1>2, <1>3 DEF InboxInv, Past, AppendedTo
<1>7. DirectDurable'
  <2> SUFFICES ASSUME NEW a \in Agents \ unsaved, NEW x \in inbox'[a], ~x.shared
               PROVE  \/ [id |-> x.id, agent |-> a, read |-> x.read] \in rows
                      \/ x.id \in behind /\ x.read
                           /\ [id |-> x.id, agent |-> a, read |-> FALSE] \in rows
                      \/ Awaited(x.id)'
    BY <1>1 DEF DirectDurable
  <2>1. CASE x.id = m.id
    BY <1>1, <2>1 DEF Awaited, InboxInv, Apart
  <2>2. CASE x.id # m.id
    <3>1. PICK y \in inbox[a] : Like(x, y)
      BY <1>2, <2>2 DEF AppendedTo
    <3>2. \/ [id |-> y.id, agent |-> a, read |-> y.read] \in rows
          \/ y.id \in behind /\ y.read
               /\ [id |-> y.id, agent |-> a, read |-> FALSE] \in rows
          \/ Awaited(y.id)
      BY <3>1 DEF InboxInv, DirectDurable, Like
    <3>3. Awaited(y.id) => Awaited(y.id)'
      BY <1>1 DEF Awaited
    <3>4. x.id = y.id /\ x.read = y.read
      BY <3>1 DEF Like
    <3>5. QED
      BY <1>1, <3>2, <3>3, <3>4 DEF Awaited
  <2>3. QED
    BY <2>1, <2>2
<1>8. \A s \in Savers : Earlier(inbox', saving'[s])
  BY <1>1, <1>2 DEF AppendedTo
<1>9. QED
  BY <1>1, <1>2, <1>3, <1>5, <1>6, <1>7, <1>8 DEF InboxInv, AppendedTo

\* A copy has a row of every message, as it is.
LEMMA CopyFacts ==
  ASSUME InboxInv
  PROVE  /\ CopyOf(inbox) \subseteq Row
         /\ Earlier(inbox, CopyOf(inbox))
         /\ \A r \in CopyOf(inbox) : \E a \in Agents : \E m \in inbox[a] : m.id = r.id
         /\ \A a \in Agents : \A m \in inbox[a] : \E r \in CopyOf(inbox) : r.id = m.id
<1>1. inbox \in [Agents -> SUBSET Message]
  BY DEF InboxInv, TypeOK
<1>2. ASSUME NEW r \in CopyOf(inbox)
      PROVE \E a \in Agents : \E m \in inbox[a] :
              r = [id |-> m.id, agent |-> a, read |-> m.read]
  BY <1>2 DEF CopyOf
<1>3. ASSUME NEW a \in Agents, NEW m \in inbox[a]
      PROVE [id |-> m.id, agent |-> a, read |-> m.read] \in CopyOf(inbox)
  BY <1>3 DEF CopyOf
<1>4. CopyOf(inbox) \subseteq Row
  BY <1>1, <1>2 DEF Row, Message
<1>5. Earlier(inbox, CopyOf(inbox))
  <2> SUFFICES ASSUME NEW a \in Agents, NEW m \in inbox[a], NEW r \in CopyOf(inbox),
                      ~m.shared, r.id = m.id
               PROVE  r.agent = a /\ (r.read => m.read)
    BY DEF Earlier
  <2>1. PICK b \in Agents : \E n \in inbox[b] :
               r = [id |-> n.id, agent |-> b, read |-> n.read]
    BY <1>2
  <2>2. PICK n \in inbox[b] : r = [id |-> n.id, agent |-> b, read |-> n.read]
    BY <2>1
  <2>3. b = a
    BY <2>2 DEF InboxInv, Tidy, Alone
  <2>4. n = m
    BY <2>2, <2>3 DEF InboxInv, Tidy, Distinct
  <2>5. QED
    BY <2>2, <2>3, <2>4
<1>6. \A r \in CopyOf(inbox) : \E a \in Agents : \E m \in inbox[a] : m.id = r.id
  BY <1>2
<1>7. \A a \in Agents : \A m \in inbox[a] : \E r \in CopyOf(inbox) : r.id = m.id
  BY <1>3
<1>8. QED
  BY <1>4, <1>5, <1>6, <1>7

LEMMA CopyInbox ==
  ASSUME InboxInv, NEW s \in Savers, Copy(s), late' \subseteq late,
         \A i \in late \ late' : \A r \in saving[s] : r.id # i
  PROVE  InboxInv'
<1>1. /\ saving[s] = {} /\ saving' = [saving EXCEPT ![s] = CopyOf(inbox)]
      /\ UNCHANGED <<clock, flying, inbox, rows, deleting, cursor, asking, owed, unsaved, behind>>
  BY DEF Copy
<1>2. /\ saving'[s] = CopyOf(inbox)
      /\ \A t \in Savers \ {s} : saving'[t] = saving[t]
  BY <1>1 DEF InboxInv, TypeOK
<1>3. TypeOK'
  BY <1>1, CopyFacts DEF InboxInv, TypeOK
<1>4. \A t \in Savers : Earlier(inbox', saving'[t])
  BY <1>1, <1>2, CopyFacts DEF InboxInv
<1>5. Past'
  BY <1>1, <1>2, CopyFacts DEF InboxInv, Past
<1>6. Apart'
  <2>1. \A f \in flying : \A r \in saving'[s] : r.id # f.id
    BY <1>2, CopyFacts DEF InboxInv, Apart
  <2>2. QED
    BY <1>1, <1>2, <2>1 DEF InboxInv, Apart
<1>7. DirectDurable'
  <2>1. ASSUME NEW a \in Agents, NEW m \in inbox[a], Awaited(m.id) PROVE Awaited(m.id)'
    <3>1. \E r \in saving'[s] : r.id = m.id
      BY <1>2, CopyFacts
    <3>2. QED
      BY <1>1, <2>1, <3>1 DEF Awaited
  <2>2. QED
    BY <1>1, <2>1 DEF InboxInv, DirectDurable
<1>8. QED
  BY <1>1, <1>3, <1>4, <1>5, <1>6, <1>7 DEF InboxInv

\* A statement sets the flag of a row, or adds the row.
LEMMA UpsertFacts ==
  ASSUME NEW R \in SUBSET Row, NEW r \in Row, \A p, q \in R : p.id = q.id => p = q
  PROVE  LET U == Upsert(R, r)
         IN /\ U \subseteq Row /\ \A p, q \in U : p.id = q.id => p = q
            /\ \A q \in R : q.id # r.id => q \in U
            /\ \A q \in U : (q \in R /\ q.id # r.id) \/ q.id = r.id
            /\ \E q \in U : /\ q.id = r.id /\ q.read = r.read
                            /\ q = r \/ \E p \in R : p.id = r.id /\ p.agent = q.agent
<1> DEFINE Set(q) == IF q.id = r.id THEN [q EXCEPT !.read = r.read] ELSE q
           U == Upsert(R, r)
<1>1. CASE \E q \in R : q.id = r.id
  <2>1. U = {Set(q) : q \in R}
    BY <1>1 DEF Upsert
  <2>2. \A q \in R : /\ Set(q) \in Row /\ Set(q).id = q.id /\ Set(q).agent = q.agent
                     /\ q.id = r.id => Set(q).read = r.read
                     /\ q.id # r.id => Set(q) = q
    BY DEF Row
  <2> HIDE DEF Set
  <2>3. \A p, q \in U : p.id = q.id => p = q
    BY <2>1, <2>2
  <2>4. PICK k \in R : k.id = r.id
    BY <1>1
  <2>5. Set(k) \in U /\ Set(k).id = r.id /\ Set(k).read = r.read /\ Set(k).agent = k.agent
    BY <2>1, <2>2, <2>4
  <2>6. \A q \in R : q.id # r.id => q \in U
    BY <2>1, <2>2
  <2>7. \A q \in U : (q \in R /\ q.id # r.id) \/ q.id = r.id
    BY <2>1, <2>2
  <2>8. U \subseteq Row
    BY <2>1, <2>2
  <2> HIDE DEF U
  <2>9. \E q \in U : /\ q.id = r.id /\ q.read = r.read
                     /\ q = r \/ \E p \in R : p.id = r.id /\ p.agent = q.agent
    BY <2>4, <2>5
  <2>10. QED
    BY <2>3, <2>6, <2>7, <2>8, <2>9 DEF U
<1>2. CASE ~\E q \in R : q.id = r.id
  <2>1. U = R \cup {r}
    BY <1>2 DEF Upsert
  <2> HIDE DEF U
  <2>2. U \subseteq Row /\ \A p, q \in U : p.id = q.id => p = q
    BY <1>2, <2>1
  <2>3. /\ \A q \in R : q.id # r.id => q \in U
        /\ \A q \in U : (q \in R /\ q.id # r.id) \/ q.id = r.id
        /\ r \in U
    BY <1>2, <2>1
  <2>4. QED
    BY <2>2, <2>3 DEF U
<1>3. QED
  BY <1>1, <1>2

LEMMA WriteRowInbox ==
  ASSUME InboxInv, NEW s \in Savers, NEW r \in saving[s], WriteRow(s, r)
  PROVE  InboxInv'
<1>1. /\ rows' = Upsert(rows, r) /\ saving' = [saving EXCEPT ![s] = @ \ {r}]
      /\ behind' = behind \cup {r.id}
      /\ UNCHANGED <<clock, flying, inbox, late, deleting, cursor, asking, owed, unsaved>>
  BY DEF WriteRow
<1>2. r \in Row /\ rows \in SUBSET Row /\ \A p, q \in rows : p.id = q.id => p = q
  BY DEF InboxInv, TypeOK, Keyed
<1>3. /\ rows' \subseteq Row /\ \A p, q \in rows' : p.id = q.id => p = q
      /\ \A q \in rows : q.id # r.id => q \in rows'
      /\ \A q \in rows' : (q \in rows /\ q.id # r.id) \/ q.id = r.id
  BY <1>1, <1>2, UpsertFacts
<1>4. PICK w \in rows' : /\ w.id = r.id /\ w.read = r.read
                         /\ w = r \/ \E p \in rows : p.id = r.id /\ p.agent = w.agent
  BY <1>1, <1>2, UpsertFacts
<1>5. \A t \in Savers : saving'[t] \subseteq saving[t]
  BY <1>1 DEF InboxInv, TypeOK
<1>6. TypeOK'
  <2>1. saving' \in [Savers -> SUBSET Row]
    BY <1>1, <1>5 DEF InboxInv, TypeOK
  <2>2. behind' \subseteq Stamps
    BY <1>1, <1>2 DEF InboxInv, TypeOK, Row
  <2>3. QED
    BY <1>1, <1>3, <2>1, <2>2 DEF InboxInv, TypeOK
<1>7. \A t \in Savers : Earlier(inbox', saving'[t])
  BY <1>1, <1>5 DEF InboxInv, Earlier
<1>8. ASSUME NEW a \in Agents, NEW m \in inbox[a], ~m.shared, m.id = r.id
      PROVE w.agent = a /\ (r.read => m.read)
  <2>1. r.agent = a /\ (r.read => m.read)
    BY <1>8 DEF InboxInv, Earlier
  <2>2. \A p \in rows : p.id = r.id => p.agent = a
    BY <1>8 DEF InboxInv, Owned
  <2>3. QED
    BY <1>4, <2>1, <2>2
<1>9. Owned(inbox', rows')
  <2> SUFFICES ASSUME NEW a \in Agents, NEW m \in inbox[a], NEW q \in rows',
                      ~m.shared, q.id = m.id
               PROVE  q.agent = a
    BY <1>1 DEF Owned
  <2>1. CASE q.id = r.id
    BY <1>3, <1>4, <1>8, <2>1
  <2>2. CASE q.id # r.id
    BY <1>3, <2>2 DEF InboxInv, Owned
  <2>3. QED
    BY <2>1, <2>2
<1>10. Past' /\ Apart'
  <2>1. \A q \in rows' : q.id <= clock
    BY <1>3 DEF InboxInv, Past
  <2>2. \A f \in flying : \A q \in rows' : q.id # f.id
    BY <1>3 DEF InboxInv, Apart
  <2>3. QED
    BY <1>1, <1>5, <2>1, <2>2 DEF InboxInv, Past, Apart
<1>11. DirectDurable'
  <2> SUFFICES ASSUME NEW a \in Agents \ unsaved, NEW m \in inbox[a], ~m.shared
               PROVE  \/ [id |-> m.id, agent |-> a, read |-> m.read] \in rows'
                      \/ m.id \in behind' /\ m.read
                           /\ [id |-> m.id, agent |-> a, read |-> FALSE] \in rows'
                      \/ Awaited(m.id)'
    BY <1>1 DEF DirectDurable
  <2>1. CASE m.id = r.id
    <3>1. w = [id |-> m.id, agent |-> a, read |-> r.read]
      BY <1>3, <1>4, <1>8, <2>1 DEF Row
    <3>2. m.read \in BOOLEAN /\ r.read \in BOOLEAN
      BY <1>2 DEF InboxInv, TypeOK, Message, Row
    <3>3. CASE m.read = r.read
      BY <3>1, <3>3
    <3>4. CASE m.read # r.read
      <4>1. m.read = TRUE /\ r.read = FALSE
        BY <1>8, <2>1, <3>2, <3>4
      <4>2. QED
        BY <1>1, <2>1, <3>1, <4>1
    <3>5. QED
      BY <3>3, <3>4
  <2>2. CASE m.id # r.id
    <3>1. \A b : [id |-> m.id, agent |-> a, read |-> b] \in rows
                => [id |-> m.id, agent |-> a, read |-> b] \in rows'
      BY <1>3, <2>2
    <3>2. Awaited(m.id) => Awaited(m.id)'
      <4>1. \A t \in Savers : \A q \in saving[t] : q.id = m.id => q \in saving'[t]
        BY <1>1, <2>2 DEF InboxInv, TypeOK
      <4>2. (\A q \in rows : q.id # m.id) => \A q \in rows' : q.id # m.id
        BY <1>3, <2>2
      <4>3. QED
        BY <1>1, <4>1, <4>2 DEF Awaited
    <3>3. QED
      BY <1>1, <3>1, <3>2 DEF InboxInv, DirectDurable
  <2>3. QED
    BY <2>1, <2>2
<1>12. QED
  BY <1>1, <1>3, <1>6, <1>7, <1>9, <1>10, <1>11 DEF InboxInv, Keyed

\* An edit that adds no message, followed by a save.
LEMMA EditInbox ==
  ASSUME InboxInv, SaveSpace(inbox'), UNCHANGED <<clock, flying, late, saving>>,
         Fits(inbox'), Distinct(inbox'),
         \A a \in Agents : \A x \in inbox'[a] :
           \E y \in inbox[a] : x.id = y.id /\ x.shared = y.shared /\ (y.read => x.read),
         deleting' \subseteq Removable, asking' \subseteq Clients, cursor' \in [Clients -> 0 .. MaxStamp],
         owed' \in [Clients -> SUBSET Stamps]
  PROVE  InboxInv'
<1>1. Alone(inbox') /\ Owned(inbox', rows)
  BY DEF InboxInv, Tidy, Alone, Owned
<1>7. \A s \in Savers : Earlier(inbox', saving'[s])
  BY DEF InboxInv, Earlier
<1>2. \A a \in Agents : \A x \in inbox'[a] : x.id <= clock'
  BY DEF InboxInv, Past
<1>3. /\ Keyed(rows') /\ Owned(inbox', rows') /\ DirectDurable'
      /\ unsaved' = {} /\ behind' = {} /\ \A r \in rows' : r.id <= clock'
      /\ \A r \in rows' : (\E a \in Agents : \E x \in inbox'[a] : x.id = r.id) \/ r \in rows
  BY <1>1, <1>2, SaveStep DEF InboxInv, Past, Tidy
<1>4. Past' /\ Apart'
  BY <1>2, <1>3 DEF InboxInv, Past, Apart
<1>5. TypeOK'
  BY <1>3 DEF InboxInv, TypeOK, Fits, Keyed
<1>6. QED
  BY <1>1, <1>3, <1>4, <1>5, <1>7 DEF InboxInv, Tidy

LEMMA AckInbox == ASSUME InboxInv, NEW a \in Clients, NEW i, Ack(a, i) PROVE InboxInv'
<1> DEFINE Acked(m) == IF m.id = i THEN [m EXCEPT !.read = TRUE] ELSE m
<1>1. /\ inbox' = [inbox EXCEPT ![a] = {Acked(m) : m \in inbox[a]}]
      /\ SaveSpace(inbox')
      /\ UNCHANGED <<clock, flying, late, saving, deleting, cursor, asking, owed>>
  BY DEF Ack
<1>2. inbox \in [Agents -> SUBSET Message]
  BY DEF InboxInv, TypeOK
<1>3. \A m \in Message : /\ Acked(m) \in Message /\ Acked(m).id = m.id
                          /\ Acked(m).shared = m.shared /\ (m.read => Acked(m).read)
  BY DEF Message
<1> HIDE DEF Acked
<1>4. /\ inbox'[a] = {Acked(m) : m \in inbox[a]}
      /\ \A b \in Agents \ {a} : inbox'[b] = inbox[b]
  BY <1>1, <1>2
<1>5. Fits(inbox')
  BY <1>1, <1>2, <1>3 DEF Fits
<1>6. Distinct(inbox')
  <2>1. ASSUME NEW x \in inbox'[a], NEW y \in inbox'[a], x.id = y.id PROVE x = y
    <3>1. PICK m \in inbox[a] : x = Acked(m)
      BY <1>4, <2>1
    <3>2. PICK n \in inbox[a] : y = Acked(n)
      BY <1>4, <2>1
    <3>3. m.id = n.id
      BY <1>2, <1>3, <2>1, <3>1, <3>2
    <3>4. QED
      BY <3>1, <3>2, <3>3 DEF InboxInv, Tidy, Distinct
  <2>2. QED
    BY <1>4, <2>1 DEF Distinct, InboxInv, Tidy
<1>7. ASSUME NEW b \in Agents, NEW x \in inbox'[b]
      PROVE \E y \in inbox[b] : x.id = y.id /\ x.shared = y.shared /\ (y.read => x.read)
  <2>1. CASE b = a
    BY <1>2, <1>3, <1>4, <1>7, <2>1
  <2>2. CASE b # a
    BY <1>4, <1>7, <2>2
  <2>3. QED
    BY <2>1, <2>2
<1>8. QED
  BY <1>1, <1>5, <1>6, <1>7, EditInbox DEF InboxInv, TypeOK

\* The cursor of a poll is the ID of the last message it returns.
LEMMA CursorType ==
  ASSUME NEW page \in SUBSET Message, page # {}
  PROVE  /\ CursorAfter(page) \in Stamps
         /\ \E l \in page : CursorAfter(page) = l.id /\ \A n \in page : n.at <= l.at
<1> DEFINE T == {MaxStamp - m.at : m \in page}
<1>1. \A m \in page : m.at \in Stamps /\ m.id \in Stamps
  BY DEF Message
<1>2. T \in SUBSET Nat /\ T # {}
  BY <1>1 DEF Stamps
<1> HIDE DEF T
<1>3. PICK t \in T : \A k \in T : t <= k
  BY <1>2, LeastNumber
<1>4. PICK m \in page : t = MaxStamp - m.at
  BY <1>3 DEF T
<1>5. ASSUME NEW n \in page PROVE n.at <= m.at
  <2>1. MaxStamp - m.at <= MaxStamp - n.at
    BY <1>3, <1>4 DEF T
  <2>2. QED
    BY <1>1, <2>1 DEF Stamps
<1>6. \E l \in page : \A n \in page : n.at <= l.at
  BY <1>5
<1> DEFINE last == CHOOSE l \in page : \A n \in page : n.at <= l.at
<1>7. last \in page /\ \A n \in page : n.at <= last.at
  BY <1>6
<1>8. CursorAfter(page) = last.id
  BY DEF CursorAfter
<1> HIDE DEF last
<1>9. QED
  BY <1>1, <1>7, <1>8

\* A poll moves one cursor and marks what flies.
LEMMA PollStep ==
  ASSUME InboxInv, NEW a \in Clients, flying' = Passed(flying, {a}),
         UNCHANGED <<clock, inbox, rows, late, saving, deleting, unsaved, behind>>,
         cursor' \in [Clients -> 0 .. MaxStamp], asking' \subseteq Clients,
         owed' \in [Clients -> SUBSET Stamps]
  PROVE  InboxInv'
<1>1. \A f \in flying : /\ \A b \in Agents : \A m \in inbox'[b] : m.id # f.id
                        /\ \A r \in rows' : r.id # f.id
                        /\ \A s \in Savers : \A r \in saving'[s] : r.id # f.id
  BY DEF InboxInv, Apart
<1>2. /\ flying' \subseteq Flight /\ Apart'
      /\ \A f \in flying' : f.id <= clock'
  <2>1. flying \in SUBSET flying
    OBVIOUS
  <2>2. QED
    BY <1>1, <2>1, PassedApart
<1>3. TypeOK'
  BY <1>2 DEF InboxInv, TypeOK
<1>4. Past'
  BY <1>2 DEF InboxInv, Past
<1>5. QED
  BY <1>2, <1>3, <1>4, StillInbox

LEMMA PollInbox == ASSUME InboxInv, NEW a \in Clients, NEW size, Poll(a, size) PROVE InboxInv'
<1>1. Page(a, size) \in SUBSET Message
  BY DEF Page, Newer, InboxInv, TypeOK
<1>2. CursorAfter(Page(a, size)) \in 0 .. MaxStamp
  BY <1>1, CursorType DEF Poll, Stamps
<1>3. cursor' \in [Clients -> 0 .. MaxStamp]
  BY <1>2 DEF Poll, InboxInv, TypeOK
<1>4. owed' \in [Clients -> SUBSET Stamps]
  BY DEF Poll, InboxInv, TypeOK
<1>5. asking' \subseteq Clients
  BY DEF Poll, InboxInv, TypeOK
<1>6. QED
  BY <1>3, <1>4, <1>5, PollStep DEF Poll

LEMMA PollEmptyInbox ==
  ASSUME InboxInv, NEW a \in Clients, NEW size, PollEmpty(a, size) PROVE InboxInv'
<1>1. TypeOK' /\ Past' /\ Apart'
  BY DEF PollEmpty, InboxInv, TypeOK, Past, Apart
<1>2. QED
  BY <1>1, StillInbox DEF PollEmpty

LEMMA PollNowInbox == ASSUME InboxInv, NEW a \in Clients, PollNow(a) PROVE InboxInv'
<1>1. cursor' \in [Clients -> 0 .. MaxStamp]
  BY DEF PollNow, InboxInv, TypeOK
<1>2. asking' \subseteq Clients /\ owed' \in [Clients -> SUBSET Stamps]
  BY DEF PollNow, InboxInv, TypeOK
<1>3. QED
  BY <1>1, <1>2, PollStep DEF PollNow

LEMMA DeleteRecordInbox == ASSUME InboxInv, NEW a \in Removable, DeleteRecord(a) PROVE InboxInv'
<1>1. /\ inbox' = [inbox EXCEPT ![a] = {}]
      /\ SaveSpace(inbox')
      /\ deleting' = deleting \cup {a}
      /\ owed' = StillOwed(inbox')
      /\ UNCHANGED <<clock, flying, late, saving, cursor, asking>>
  BY DEF DeleteRecord
<1>2. \A b \in Agents : inbox'[b] \in SUBSET inbox[b]
  BY <1>1 DEF InboxInv, TypeOK
<1>3. Fits(inbox') /\ Distinct(inbox')
  BY <1>1, <1>2 DEF InboxInv, TypeOK, Tidy, Fits, Distinct
<1>4. owed' \in [Clients -> SUBSET Stamps]
  BY <1>1 DEF StillOwed, InboxInv, TypeOK
<1>5. \A b \in Agents : \A x \in inbox'[b] :
        \E y \in inbox[b] : x.id = y.id /\ x.shared = y.shared /\ (y.read => x.read)
  BY <1>2
<1>6. QED
  BY <1>1, <1>3, <1>4, <1>5, EditInbox DEF InboxInv, TypeOK

LEMMA DeleteRowsInbox == ASSUME InboxInv, NEW a \in Removable, DeleteRows(a) PROVE InboxInv'
<1>1. /\ rows' = {r \in rows : r.agent # a}
      /\ deleting' = deleting \ {a}
      /\ unsaved' = unsaved \cup {a}
      /\ UNCHANGED <<clock, flying, inbox, late, saving, cursor, asking, owed, behind>>
  BY DEF DeleteRows
<1>2. rows' \subseteq rows
  BY <1>1
<1>3. DirectDurable'
  <2> SUFFICES ASSUME NEW b \in Agents \ unsaved', NEW m \in inbox[b], ~m.shared
               PROVE  \/ [id |-> m.id, agent |-> b, read |-> m.read] \in rows'
                      \/ m.id \in behind /\ m.read
                           /\ [id |-> m.id, agent |-> b, read |-> FALSE] \in rows'
                      \/ Awaited(m.id)'
    BY <1>1 DEF DirectDurable
  <2>1. b # a
    BY <1>1
  <2>2. \/ [id |-> m.id, agent |-> b, read |-> m.read] \in rows
        \/ m.id \in behind /\ m.read /\ [id |-> m.id, agent |-> b, read |-> FALSE] \in rows
        \/ Awaited(m.id)
    BY <1>1 DEF InboxInv, DirectDurable
  <2>3. Awaited(m.id) => Awaited(m.id)'
    BY <1>1, <1>2 DEF Awaited
  <2>4. QED
    BY <1>1, <2>1, <2>2, <2>3
<1>4. TypeOK'
  BY <1>1, <1>2 DEF InboxInv, TypeOK
<1>5. Keyed(rows') /\ Owned(inbox', rows') /\ Past' /\ Apart'
  BY <1>1, <1>2 DEF InboxInv, Keyed, Owned, Past, Apart
<1>7. \A s \in Savers : Earlier(inbox', saving'[s])
  BY <1>1 DEF InboxInv
<1>6. QED
  BY <1>1, <1>3, <1>4, <1>5, <1>7 DEF InboxInv, Tidy, Fits, Distinct, Alone

\* A loaded inbox holds rows of its agent, each as it was saved.
LEMMA LoadedFacts ==
  ASSUME InboxInv, NEW a \in Agents
  PROVE  /\ Loaded(a) \subseteq Message
         /\ \A x \in Loaded(a) : ~x.shared /\ [id |-> x.id, agent |-> a, read |-> x.read] \in rows
         /\ \A x, y \in Loaded(a) : x.id = y.id => x = y
<1> DEFINE Kept == Newest(Oldest(RowsOf(a)))
           Shown(r) == [id |-> r.id, at |-> r.id, read |-> r.read, shared |-> FALSE]
           S == {Shown(r) : r \in Kept}
<1>1. Kept \subseteq rows /\ \A r \in Kept : r.agent = a
  BY DEF Newest, Oldest, RowsOf
<1>2. Loaded(a) = Reindexed(S)
  BY DEF Loaded
<1>3. rows \subseteq Row /\ \A r, q \in rows : r.id = q.id => r = q
  BY DEF InboxInv, Keyed
<1> HIDE DEF Kept
<1>4. \A r \in Row : /\ Shown(r) \in Message /\ Shown(r).id = r.id
                     /\ Shown(r).read = r.read /\ Shown(r).shared = FALSE
  BY DEF Row, Message
<1>5. \A r \in Row : r = [id |-> r.id, agent |-> r.agent, read |-> r.read]
  BY DEF Row
<1> HIDE DEF Shown
<1>6. S \in SUBSET Message
  BY <1>1, <1>3, <1>4
<1>7. ASSUME NEW x \in S
      PROVE \E r \in Kept : x = Shown(r)
  OBVIOUS
<1>8. ASSUME NEW x \in S, NEW y \in S, x.id = y.id PROVE x = y
  <2>1. PICK r \in Kept : x = Shown(r)
    BY <1>7
  <2>2. PICK q \in Kept : y = Shown(q)
    BY <1>7
  <2>3. r = q
    BY <1>1, <1>3, <1>4, <1>8, <2>1, <2>2
  <2>4. QED
    BY <2>1, <2>2, <2>3
<1>9. ASSUME NEW x \in S
      PROVE x.shared = FALSE /\ [id |-> x.id, agent |-> a, read |-> x.read] \in rows
  <2>1. PICK r \in Kept : x = Shown(r)
    BY <1>7
  <2>2. QED
    BY <1>1, <1>3, <1>4, <1>5, <2>1
<1> HIDE DEF S
<1>10. /\ Reindexed(S) \subseteq Message
       /\ \A x \in Reindexed(S) : \E m \in S : Like(x, m)
       /\ \A x, y \in Reindexed(S) : x.id = y.id => x = y
  BY <1>6, <1>8, SameIndexed
<1>11. QED
  BY <1>2, <1>9, <1>10, ZenonT(40) DEF Like

LEMMA RestartInbox == ASSUME InboxInv, Restart PROVE InboxInv'
<1>1. /\ inbox' = [a \in Agents |-> Loaded(a)]
      /\ flying' = {} /\ deleting' = {} /\ asking' = {} /\ unsaved' = {} /\ behind' = {}
      /\ late' = {} /\ saving' = [s \in Savers |-> {}]
      /\ owed' = StillOwed(inbox')
      /\ UNCHANGED <<clock, rows, cursor>>
  BY DEF Restart
<1>2. Fits(inbox') /\ Distinct(inbox')
  BY <1>1, LoadedFacts DEF Fits, Distinct
<1>3. ASSUME NEW a \in Agents, NEW x \in inbox'[a]
      PROVE ~x.shared /\ [id |-> x.id, agent |-> a, read |-> x.read] \in rows
  BY <1>1, <1>3, LoadedFacts
<1>4. rows' \subseteq Row /\ \A r, q \in rows : r.id = q.id => r = q
  BY <1>1 DEF InboxInv, Keyed
<1>5. Alone(inbox') /\ Owned(inbox', rows')
  <2>1. ASSUME NEW a \in Agents, NEW x \in inbox'[a], NEW r \in rows, r.id = x.id
        PROVE r.agent = a
    <3> DEFINE q == [id |-> x.id, agent |-> a, read |-> x.read]
    <3>1. q \in rows /\ q.id = x.id /\ q.agent = a
      BY <1>3
    <3> HIDE DEF q
    <3>2. QED
      BY <1>4, <2>1, <3>1
  <2>2. Owned(inbox', rows')
    BY <1>1, <2>1 DEF Owned
  <2>3. ASSUME NEW a \in Agents, NEW b \in Agents, NEW x \in inbox'[a],
               NEW y \in inbox'[b], x.id = y.id
        PROVE a = b
    <3>1. [id |-> y.id, agent |-> b, read |-> y.read] \in rows
      BY <1>3
    <3>2. QED
      BY <2>1, <2>3, <3>1
  <2>4. QED
    BY <2>2, <2>3 DEF Alone
<1>6. DirectDurable'
  BY <1>1, <1>3 DEF DirectDurable
<1>7. Past' /\ Apart'
  <2>1. ASSUME NEW a \in Agents, NEW x \in inbox'[a] PROVE x.id <= clock
    <3> DEFINE q == [id |-> x.id, agent |-> a, read |-> x.read]
    <3>1. q \in rows /\ q.id = x.id
      BY <1>3
    <3> HIDE DEF q
    <3>2. QED
      BY <3>1 DEF InboxInv, Past
  <2>2. QED
    BY <1>1, <2>1 DEF InboxInv, Past, Apart
<1>8. TypeOK'
  BY <1>1, <1>2 DEF InboxInv, TypeOK, Fits, StillOwed
<1>10. \A s \in Savers : Earlier(inbox', saving'[s])
  BY <1>1 DEF Earlier
<1>9. QED
  BY <1>1, <1>2, <1>5, <1>6, <1>7, <1>8, <1>10 DEF InboxInv, Tidy, Keyed

LEMMA StutterInbox == ASSUME InboxInv, UNCHANGED vars PROVE InboxInv'
<1>1. TypeOK' /\ Past' /\ Apart'
  BY DEF vars, InboxInv, TypeOK, Past, Apart
<1>2. QED
  BY <1>1, StillInbox DEF vars

-----------------------------------------------------------------------------
\* The invariant holds of every reachable state: inboxes and rows are well typed,
\* an ID is in an inbox once, the table has one row of an ID, and a message that
\* went to one agent is in no inbox and no row of another, however sends, acks,
\* polls, removals and restarts overlap.
THEOREM InboxInvariant == Spec => []InboxInv
<1>1. ASSUME InboxInv, [Next]_vars PROVE InboxInv'
  <2>1. ASSUME NEW kind \in Kinds, NEW to \in Targets, Stamp(kind, to) PROVE InboxInv'
    BY <1>1, <2>1, StampInbox
  <2>2. ASSUME NEW m \in flying, Deliver(m) PROVE InboxInv'
    BY <1>1, <2>2, DeliverInbox
  <2>3. ASSUME NEW a \in Clients, NEW i \in Stamps, Ack(a, i) PROVE InboxInv'
    BY <1>1, <2>3, AckInbox
  <2>4. ASSUME NEW a \in Clients, NEW size, Poll(a, size) PROVE InboxInv'
    BY <1>1, <2>4, PollInbox
  <2>10. ASSUME NEW a \in Clients, NEW size, PollEmpty(a, size) PROVE InboxInv'
    BY <1>1, <2>10, PollEmptyInbox
  <2>11. ASSUME NEW a \in Clients, PollNow(a) PROVE InboxInv'
    BY <1>1, <2>11, PollNowInbox
  <2>5. ASSUME NEW a \in Removable, DeleteRecord(a) PROVE InboxInv'
    BY <1>1, <2>5, DeleteRecordInbox
  <2>6. ASSUME NEW a \in Removable, DeleteRows(a) PROVE InboxInv'
    BY <1>1, <2>6, DeleteRowsInbox
  <2>7. CASE Restart
    BY <1>1, <2>7, RestartInbox
  <2>12. ASSUME NEW m \in flying, Notify(m) PROVE InboxInv'
    BY <1>1, <2>12, NotifyInbox
  <2>13. ASSUME NEW s \in Savers, NEW i \in late, CopyNotice(s, i) PROVE InboxInv'
    BY <1>1, <2>13, CopyInbox DEF CopyNotice, Copy
  <2>14. ASSUME NEW s \in Savers, CopyOther(s) PROVE InboxInv'
    BY <1>1, <2>14, CopyInbox DEF CopyOther
  <2>15. ASSUME NEW s \in Savers, NEW r \in saving[s], WriteRow(s, r) PROVE InboxInv'
    BY <1>1, <2>15, WriteRowInbox
  <2>8. CASE UNCHANGED vars
    BY <1>1, <2>8, StutterInbox
  <2>9. QED
    BY <1>1, <2>1, <2>2, <2>3, <2>4, <2>5, <2>6, <2>7, <2>8, <2>10, <2>11,
       <2>12, <2>13, <2>14, <2>15 DEF Next
<1>2. QED
  BY <1>1, InitInbox, PTL DEF Spec

\* What an agent sees of a message sent to it alone is what the table says, in
\* every interleaving of the handlers and across crashes, but for a task notice
\* its handler has still to write, a read flag that an older copy has taken back
\* in the table, and the wipe that ends a DELETE.
THEOREM DirectMessagesDurable == Spec => []DirectDurable
<1>1. InboxInv => DirectDurable
  BY DEF InboxInv
<1>2. QED
  BY <1>1, InboxInvariant, PTL

-----------------------------------------------------------------------------
\* The messages of a slice have places without a gap beyond the last one.
Dense(S) == \A m \in S : m.at <= Cardinality(S)

\* What is owed is in the inbox, and everything before it there is older.
InOrder(S, ids) ==
  /\ ids \subseteq Ids(S)
  /\ \A m, n \in S : m.id \in ids /\ n.at < m.at => n.id < m.id

\* A message that nobody passed is newer than the cursor and the inbox of its
\* recipient.
Ahead ==
  \A f \in flying : \A a \in (f.to \cap Clients) \ f.passed :
    cursor[a] < f.id /\ \A n \in inbox[a] : n.id < f.id

\* The inductive invariant of the cursor.
CursorInv ==
  /\ InboxInv
  /\ \A a \in Agents : Dense(inbox[a])
  /\ \A a \in Clients : InOrder(inbox[a], owed[a]) /\ cursor[a] <= clock
  /\ \A a \in asking : owed[a] = {}
  /\ Ahead
  /\ NothingSkipped

\* Reindexing loses no message, leaves no gap and keeps the order.
LEMMA Reordered ==
  ASSUME NEW S \in SUBSET Message, \A m, n \in S : m.id = n.id => m = n
  PROVE  /\ \A m \in S : m.id \in Ids(Reindexed(S))
         /\ Dense(Reindexed(S))
         /\ \A x, y \in Reindexed(S) : y.at < x.at =>
              \E m, n \in S : m.id = x.id /\ n.id = y.id /\ n.at < m.at
<1> DEFINE Place(m) == Cardinality({n \in S : n.at <= m.at})
           Moved(m) == [m EXCEPT !.at = Place(m)]
           T == Reindexed(S)
<1>1. IsFiniteSet(S) /\ Cardinality(S) \in Nat
  BY FiniteById DEF Message
<1>2. T = {Moved(m) : m \in S}
  BY DEF Reindexed
<1>3. \A m \in S : Moved(m).id = m.id /\ Moved(m).at = Place(m)
  BY DEF Message
<1>4. ASSUME NEW m \in S, NEW n \in S
      PROVE /\ Place(n) \in Nat /\ Place(n) <= Cardinality(S)
            /\ m.at <= n.at => Place(m) <= Place(n)
  <2> DEFINE M == {k \in S : k.at <= m.at}
             N == {k \in S : k.at <= n.at}
  <2>1. N \subseteq S /\ (m.at <= n.at => M \subseteq N)
    BY DEF Message, Stamps
  <2> HIDE DEF M, N
  <2>2. IsFiniteSet(N) /\ Cardinality(N) <= Cardinality(S) /\ Cardinality(N) \in Nat
    BY <1>1, <2>1, FS_Subset, FS_CardinalityType
  <2>3. m.at <= n.at => Cardinality(M) <= Cardinality(N)
    BY <2>1, <2>2, FS_Subset
  <2>4. QED
    BY <2>2, <2>3 DEF M, N
<1>5. T \subseteq Message /\ \A x, y \in T : x.id = y.id => x = y
  BY SameIndexed
<1> HIDE DEF Moved, Place, T
<1>6. IsFiniteSet(T) /\ Cardinality(T) \in Nat
  BY <1>5, FiniteById DEF Message
<1>7. Cardinality(S) <= Cardinality(T)
  <2> DEFINE f == [m \in S |-> Moved(m)]
  <2>1. f \in Injection(S, T)
    BY <1>2, <1>3 DEF Injection, IsInjective
  <2> HIDE DEF f
  <2>2. QED
    BY <1>6, <2>1, FS_Injection
<1>8. Dense(T)
  <2>1. ASSUME NEW x \in T PROVE x.at <= Cardinality(T)
    <3>1. PICK m \in S : x = Moved(m)
      BY <1>2
    <3>2. x.at \in Nat /\ x.at <= Cardinality(S)
      BY <1>3, <1>4, <3>1
    <3>3. QED
      BY <1>1, <1>6, <1>7, <3>2
  <2>2. QED
    BY <2>1 DEF Dense
<1>9. \A m \in S : m.id \in Ids(T)
  BY <1>2, <1>3 DEF Ids
<1>10. ASSUME NEW x \in T, NEW y \in T, y.at < x.at
       PROVE \E m, n \in S : m.id = x.id /\ n.id = y.id /\ n.at < m.at
  <2>1. PICK m \in S : x = Moved(m)
    BY <1>2
  <2>2. PICK n \in S : y = Moved(n)
    BY <1>2
  <2>3. ~(m.at <= n.at)
    BY <1>3, <1>4, <1>10, <2>1, <2>2
  <2>4. n.at < m.at
    BY <2>3 DEF Message, Stamps
  <2>5. QED
    BY <1>3, <2>1, <2>2, <2>4
<1>11. QED
  BY <1>8, <1>9, <1>10 DEF T

\* A delivery appends: the message comes last, the others keep their order, and
\* nothing unread is pruned.
LEMMA ReceivedOrder ==
  ASSUME InboxInv, NEW m \in flying, NEW a \in Agents, Dense(inbox[a])
  PROVE  LET R == Received(inbox[a], m)
         IN /\ m.id \in Ids(R) /\ Dense(R)
            /\ \A y \in inbox[a] : ~y.read => y.id \in Ids(R)
            /\ \A x, y \in R : y.at < x.at =>
                 \/ x.id = m.id /\ y.id # m.id
                 \/ \E u, v \in inbox[a] : u.id = x.id /\ v.id = y.id /\ v.at < u.at
<1> DEFINE box == inbox[a]
           new == [id |-> m.id, at |-> Cardinality(box) + 1, read |-> FALSE,
                   shared |-> Cardinality(m.to) > 1]
           grown == box \cup {new}
<1>1. m \in Flight /\ box \in SUBSET Message
  BY DEF InboxInv, TypeOK
<1>2. \A x, y \in box : x.id = y.id => x = y
  BY DEF InboxInv, Tidy, Distinct
<1>3. \A x \in box : x.id # m.id
  BY DEF InboxInv, Apart
<1>4. new.id = m.id /\ new.at = Cardinality(box) + 1 /\ new.read = FALSE
  OBVIOUS
<1>5. IsFiniteSet(box) /\ Cardinality(box) \in Nat
  BY <1>1, <1>2, FiniteById DEF Message
<1>6. m.id \in Stamps /\ \A x \in box : x.at \in Nat /\ x.at < new.at
  BY <1>1, <1>5 DEF Flight, Message, Stamps, Dense
<1> HIDE DEF new
<1>7. new \notin box /\ Cardinality(grown) = new.at
  BY <1>3, <1>4, <1>5, FS_AddElement
<1>8. Dense(grown)
  BY <1>4, <1>5, <1>6, <1>7 DEF Dense
<1>9. ASSUME NEW x \in grown, NEW y \in grown, y.at < x.at
      PROVE y \in box /\ (x \in box \/ x.id = m.id)
  BY <1>4, <1>5, <1>6, <1>9
<1>10. \A x \in grown : x = new \/ x.id # m.id
  BY <1>3
<1> DEFINE kept == PruneRead(grown)
<1>11. kept \in SUBSET grown /\ \A x \in grown : ~x.read => x \in kept
  BY DEF PruneRead
<1>12. Received(box, m) = IF m.kind = "sent" THEN Reindexed(kept) ELSE grown
  BY DEF Received, new
<1>13. \A x, y \in grown : x.id = y.id => x = y
  BY <1>2, <1>3, <1>4
<1>14. new \in Message
  <2>1. Cardinality(box) + 1 \in Stamps /\ (Cardinality(m.to) > 1) \in BOOLEAN
    <3>1. \A x \in grown : x.id \in Stamps
      BY <1>1, <1>4, <1>6 DEF Message
    <3>2. Cardinality(grown) \in 0 .. MaxStamp
      <4> HIDE DEF grown
      <4>1. QED
        BY <1>13, <3>1, FiniteById
    <3>3. QED
      BY <1>4, <1>5, <1>7, <3>2 DEF Stamps
  <2>2. QED
    BY <1>6, <2>1 DEF new, Message
<1>15. grown \in SUBSET Message
  BY <1>1, <1>14
<1>16. new \in grown /\ \A y \in box : y \in grown
  OBVIOUS
<1> HIDE DEF grown, kept
<1>17. CASE m.kind # "sent"
  <2>1. Received(box, m) = grown
    BY <1>12, <1>17
  <2>2. QED
    BY <1>3, <1>4, <1>8, <1>9, <1>16, <2>1 DEF Ids
<1>18. CASE m.kind = "sent"
  <2>1. kept \in SUBSET Message /\ \A x, y \in kept : x.id = y.id => x = y
    BY <1>11, <1>13, <1>15
  <2>2. /\ \A x \in kept : x.id \in Ids(Reindexed(kept))
        /\ Dense(Reindexed(kept))
        /\ \A x, y \in Reindexed(kept) : y.at < x.at =>
             \E u, v \in kept : u.id = x.id /\ v.id = y.id /\ v.at < u.at
    BY <2>1, Reordered
  <2>3. \A x, y \in Reindexed(kept) : y.at < x.at =>
          \/ x.id = m.id /\ y.id # m.id
          \/ \E u, v \in box : u.id = x.id /\ v.id = y.id /\ v.at < u.at
    <3> TAKE x, y \in Reindexed(kept)
    <3> HAVE y.at < x.at
    <3>1. PICK u \in kept, v \in kept : u.id = x.id /\ v.id = y.id /\ v.at < u.at
      BY <2>2
    <3>2. v \in box /\ (u \in box \/ u.id = m.id)
      BY <1>9, <1>11, <3>1
    <3>3. QED
      BY <1>3, <3>1, <3>2
  <2>4. \A y \in grown : ~y.read => y.id \in Ids(Reindexed(kept))
    BY <1>11, <2>2
  <2>5. Received(box, m) = Reindexed(kept)
    BY <1>12, <1>18
  <2>6. QED
    BY <1>4, <1>16, <2>2, <2>3, <2>4, <2>5
<1>19. QED
  BY <1>17, <1>18

\* Nothing of the cursor's invariant changes but what is named.
LEMMA CursorTypes ==
  ASSUME InboxInv
  PROVE  /\ clock \in Nat
         /\ \A a \in Clients : a \in Agents /\ cursor[a] \in Nat
         /\ \A a \in Agents : \A m \in inbox[a] : m \in Message /\ m.id \in Nat /\ m.id <= clock
         /\ \A f \in flying : f \in Flight /\ f.id \in Nat /\ f.id <= clock
BY DEF InboxInv, TypeOK, Message, Flight, Stamps, Past

LEMMA InitCursor == Init => CursorInv
<1>1. Init => InboxInv
  BY InitInbox
<1>2. QED
  BY <1>1 DEF Init, CursorInv, Dense, InOrder, Ahead, NothingSkipped

LEMMA StampCursor ==
  ASSUME CursorInv, NEW kind \in Kinds, NEW to \in Targets, Stamp(kind, to)
  PROVE  CursorInv'
<1>1. InboxInv'
  BY StampInbox DEF CursorInv
<1> DEFINE f == [id |-> clock + 1, to |-> to, kind |-> kind, passed |-> {}]
<1>2. /\ flying' = flying \cup {f} /\ clock' = clock + 1
      /\ UNCHANGED <<inbox, cursor, asking, owed>>
  BY DEF Stamp
<1>3. f.id = clock + 1
  OBVIOUS
<1> HIDE DEF f
<1>4. Ahead'
  <2>1. \A a \in Clients : cursor[a] < f.id /\ \A n \in inbox[a] : n.id < f.id
    BY <1>3, CursorTypes DEF CursorInv
  <2>2. QED
    BY <1>2, <2>1 DEF CursorInv, Ahead
<1>5. \A a \in Clients : cursor[a] <= clock'
  BY <1>2, CursorTypes DEF CursorInv
<1>6. QED
  BY <1>1, <1>2, <1>4, <1>5 DEF CursorInv, NothingSkipped

\* What flies is still ahead of those that neither received nor polled.
LEMMA PassedAhead ==
  ASSUME CursorInv, NEW F \in SUBSET flying, NEW who, flying' = Passed(F, who),
         \A a \in Clients \ who : inbox'[a] = inbox[a] /\ cursor'[a] = cursor[a]
  PROVE  Ahead'
<1>1. SUFFICES ASSUME NEW f \in flying', NEW a \in (f.to \cap Clients) \ f.passed
               PROVE  cursor'[a] < f.id /\ \A n \in inbox'[a] : n.id < f.id
  BY DEF Ahead
<1>2. PICK g \in F : f = [g EXCEPT !.passed = @ \cup (who \cap g.to \cap Clients)]
  BY DEF Passed
<1>3. g \in Flight /\ g \in flying
  BY CursorTypes DEF CursorInv
<1>4. f.id = g.id /\ f.to = g.to /\ f.passed = g.passed \cup (who \cap g.to \cap Clients)
  BY <1>2, <1>3 DEF Flight
<1>5. a \in (g.to \cap Clients) \ g.passed /\ a \notin who
  BY <1>4
<1>6. QED
  BY <1>3, <1>4, <1>5 DEF CursorInv, Ahead

LEMMA AppendCursor ==
  ASSUME CursorInv, NEW m \in flying, Append(m), InboxInv' PROVE CursorInv'
<1>1. InboxInv'
  OBVIOUS
<1>2. /\ inbox' = [a \in Agents |-> IF a \in m.to THEN Received(inbox[a], m) ELSE inbox[a]]
      /\ flying' = Passed(flying \ {m}, m.to)
      /\ UNCHANGED <<clock, cursor, asking>>
      /\ owed' = [a \in Clients |->
           StillOwed(inbox')[a] \cup (IF a \in m.to \ (m.passed \cup asking) THEN {m.id} ELSE {})]
  BY DEF Append
<1>3. \A a \in Agents : Dense(inbox'[a])
  BY <1>2, ReceivedOrder DEF CursorInv
<1>4. \A a \in Clients \ m.to : inbox'[a] = inbox[a] /\ cursor'[a] = cursor[a]
  BY <1>2
<1>5. Ahead'
  <2>1. flying \ {m} \in SUBSET flying
    OBVIOUS
  <2>2. QED
    BY <1>2, <1>4, <2>1, PassedAhead
<1>6. \A a \in Clients :
        /\ owed[a] \subseteq Ids(inbox[a])
        /\ m.id \notin owed[a]
        /\ StillOwed(inbox')[a] = owed[a] \cap Ids(inbox'[a])
  BY DEF CursorInv, InOrder, InboxInv, Apart, Ids, StillOwed
<1>7. ASSUME NEW a \in Clients PROVE InOrder(inbox'[a], owed'[a])
  <2>1. CASE a \notin m.to
    <3>1. inbox'[a] = inbox[a] /\ owed'[a] \subseteq owed[a]
      BY <1>2, <1>6, <2>1
    <3>2. QED
      BY <3>1 DEF CursorInv, InOrder
  <2>2. CASE a \in m.to
    <3>1. inbox'[a] = Received(inbox[a], m)
      BY <1>2, <2>2
    <3>2. /\ m.id \in Ids(inbox'[a])
          /\ \A x, y \in inbox'[a] : y.at < x.at =>
               \/ x.id = m.id /\ y.id # m.id
               \/ \E u, v \in inbox[a] : u.id = x.id /\ v.id = y.id /\ v.at < u.at
      BY <3>1, ReceivedOrder DEF CursorInv
    <3>3. owed'[a] \subseteq Ids(inbox'[a])
      BY <1>2, <1>6, <3>2
    <3>4. ASSUME NEW x \in inbox'[a], NEW y \in inbox'[a], x.id \in owed'[a], y.at < x.at
          PROVE  y.id < x.id
      <4>1. CASE x.id = m.id
        <5>1. a \notin m.passed
          BY <1>2, <1>6, <3>4, <4>1
        <5>2. \A n \in inbox[a] : n.id < m.id
          BY <2>2, <5>1 DEF CursorInv, Ahead
        <5>3. y.id # m.id
          <6>1. \A n \in inbox[a] : n.id # m.id
            BY CursorTypes DEF CursorInv, InboxInv, Apart
          <6>2. QED
            BY <3>2, <3>4, <4>1, <6>1
        <5>4. \E n \in inbox[a] : n.id = y.id
          <6>1. \/ y.id = m.id
                \/ \E n \in inbox[a] : Like(y, n)
            BY <3>1, ReceivedFacts DEF CursorInv
          <6>2. QED
            BY <5>3, <6>1 DEF Like
        <5>5. QED
          BY <4>1, <5>2, <5>4
      <4>2. CASE x.id # m.id
        <5>1. x.id \in owed[a]
          BY <1>2, <1>6, <3>4, <4>2
        <5>2. PICK u \in inbox[a], v \in inbox[a] : u.id = x.id /\ v.id = y.id /\ v.at < u.at
          BY <3>2, <3>4, <4>2
        <5>3. QED
          BY <5>1, <5>2 DEF CursorInv, InOrder
      <4>3. QED
        BY <4>1, <4>2
    <3>5. QED
      BY <3>3, <3>4 DEF InOrder
  <2>3. QED
    BY <2>1, <2>2
<1>8. \A a \in asking' : owed'[a] = {}
  BY <1>2, <1>6 DEF CursorInv, InboxInv, TypeOK
<1>9. NothingSkipped'
  <2>1. ASSUME NEW a \in Clients, NEW i \in owed'[a] PROVE i > cursor[a]
    <3>1. CASE i \in owed[a]
      BY <3>1 DEF CursorInv, NothingSkipped
    <3>2. CASE i \notin owed[a]
      <4>1. i = m.id /\ a \in m.to \ m.passed
        BY <1>2, <1>6, <2>1, <3>2
      <4>2. cursor[a] < m.id
        BY <4>1 DEF CursorInv, Ahead
      <4>3. QED
        BY <4>1, <4>2, CursorTypes DEF CursorInv
    <3>3. QED
      BY <3>1, <3>2
  <2>2. QED
    BY <1>2, <2>1 DEF NothingSkipped
<1>10. QED
  BY <1>1, <1>2, <1>3, <1>5, <1>7, <1>8, <1>9 DEF CursorInv

LEMMA AckCursor == ASSUME CursorInv, NEW a \in Clients, NEW i, Ack(a, i) PROVE CursorInv'
<1> DEFINE Acked(m) == IF m.id = i THEN [m EXCEPT !.read = TRUE] ELSE m
<1>1. InboxInv'
  BY AckInbox DEF CursorInv
<1>2. /\ inbox' = [inbox EXCEPT ![a] = {Acked(m) : m \in inbox[a]}]
      /\ UNCHANGED <<clock, flying, cursor, asking, owed>>
  BY DEF Ack
<1>3. \A m \in Message : Acked(m).id = m.id /\ Acked(m).at = m.at
  BY DEF Message
<1> HIDE DEF Acked
<1>4. a \in Agents /\ inbox \in [Agents -> SUBSET Message]
  BY DEF CursorInv, InboxInv, TypeOK
<1>5. /\ inbox'[a] = {Acked(m) : m \in inbox[a]}
      /\ \A b \in Agents \ {a} : inbox'[b] = inbox[b]
  BY <1>2, <1>4
<1>6. /\ Cardinality(inbox[a]) <= Cardinality(inbox'[a])
      /\ Cardinality(inbox[a]) \in Nat /\ Cardinality(inbox'[a]) \in Nat
  <2> DEFINE f == [m \in inbox[a] |-> Acked(m)]
  <2>1. \A m, n \in inbox[a] : m.id = n.id => m = n
    BY <1>4 DEF CursorInv, InboxInv, Tidy, Distinct
  <2>2. f \in Injection(inbox[a], inbox'[a])
    BY <1>3, <1>4, <1>5, <2>1 DEF Injection, IsInjective
  <2>3. inbox'[a] \subseteq Message /\ \A x, y \in inbox'[a] : x.id = y.id => x = y
    BY <1>1, <1>4 DEF InboxInv, Tidy, Fits, Distinct
  <2>4. IsFiniteSet(inbox'[a]) /\ Cardinality(inbox'[a]) \in Nat
    BY <2>3, FiniteById DEF Message
  <2>5. inbox[a] \subseteq Message
    BY <1>4
  <2>6. Cardinality(inbox[a]) \in Nat
    BY <2>1, <2>5, FiniteById DEF Message
  <2> HIDE DEF f
  <2>7. QED
    BY <2>2, <2>4, <2>6, FS_Injection
<1>7. Dense(inbox'[a])
  <2>1. ASSUME NEW x \in inbox'[a] PROVE x.at <= Cardinality(inbox'[a])
    <3>1. PICK m \in inbox[a] : x = Acked(m)
      BY <1>5, <2>1
    <3>2. x.at \in Nat /\ x.at <= Cardinality(inbox[a])
      BY <1>3, <1>4, <3>1 DEF CursorInv, Dense, Message, Stamps
    <3>3. QED
      BY <1>6, <3>2
  <2>2. QED
    BY <2>1 DEF Dense
<1>8. InOrder(inbox'[a], owed[a])
  <2>1. Ids(inbox'[a]) = Ids(inbox[a])
    BY <1>3, <1>4, <1>5 DEF Ids
  <2>2. \A x \in inbox'[a] : \E m \in inbox[a] : m.id = x.id /\ m.at = x.at
    BY <1>3, <1>4, <1>5
  <2>3. InOrder(inbox[a], owed[a])
    BY DEF CursorInv
  <2>4. QED
    BY <2>1, <2>2, <2>3 DEF InOrder
<1>9. \A b \in Agents : \A x \in inbox'[b] : \E m \in inbox[b] : m.id = x.id
  BY <1>3, <1>4, <1>5
<1>10. Ahead'
  BY <1>2, <1>9 DEF CursorInv, Ahead
<1>11. \A b \in Agents : Dense(inbox'[b])
  BY <1>5, <1>7 DEF CursorInv
<1>12. \A b \in Clients : InOrder(inbox'[b], owed'[b])
  BY <1>2, <1>5, <1>8 DEF CursorInv
<1>13. NothingSkipped'
  BY <1>2 DEF CursorInv, NothingSkipped
<1>14. QED
  BY <1>1, <1>2, <1>10, <1>11, <1>12, <1>13 DEF CursorInv

\* A page is the beginning of what is newer than the cursor.
LEMMA PageFirst ==
  ASSUME InboxInv, NEW a \in Clients, NEW size \in Nat,
         NEW l \in Page(a, size), NEW m \in Newer(a), m \notin Page(a, size)
  PROVE  l.at < m.at
<1> DEFINE Before(x) == {n \in Newer(a) : n.at < x.at}
<1>1. /\ Newer(a) \subseteq Message /\ l \in Newer(a)
      /\ \A x, y \in Newer(a) : x.id = y.id => x = y
  BY DEF Newer, Page, InboxInv, TypeOK, Tidy, Distinct
<1>2. IsFiniteSet(Newer(a))
  BY <1>1, FiniteById DEF Message
<1>3. SUFFICES ASSUME m.at <= l.at PROVE FALSE
  BY <1>1 DEF Message, Stamps
<1>4. Before(m) \subseteq Before(l) /\ Before(l) \subseteq Newer(a)
  BY <1>1, <1>3 DEF Message, Stamps
<1>5. Cardinality(Before(l)) < size /\ ~(Cardinality(Before(m)) < size)
  BY DEF Page
<1> HIDE DEF Before
<1>6. /\ Cardinality(Before(m)) <= Cardinality(Before(l))
      /\ Cardinality(Before(m)) \in Nat /\ Cardinality(Before(l)) \in Nat
  BY <1>2, <1>4, FS_Subset, FS_CardinalityType
<1>7. QED
  BY <1>5, <1>6

LEMMA PollCursor ==
  ASSUME CursorInv, NEW a \in Clients, NEW size \in Nat, Poll(a, size)
  PROVE  CursorInv'
<1> DEFINE page == Page(a, size)
<1>1. InboxInv'
  BY PollInbox DEF CursorInv
<1>2. /\ a \notin asking /\ page # {}
      /\ cursor' = [cursor EXCEPT ![a] = CursorAfter(page)]
      /\ owed' = [owed EXCEPT ![a] = @ \ Ids(page)]
      /\ flying' = Passed(flying, {a})
      /\ UNCHANGED <<clock, inbox, asking>>
  BY DEF Poll
<1>3. page \subseteq inbox[a] /\ page \in SUBSET Message
  BY DEF Page, Newer, CursorInv, InboxInv, TypeOK
<1>4. PICK l \in page : CursorAfter(page) = l.id /\ \A n \in page : n.at <= l.at
  <2> HIDE DEF page
  <2>1. QED
    BY <1>2, <1>3, CursorType
<1>5. /\ cursor'[a] = l.id /\ owed'[a] = owed[a] \ Ids(page)
      /\ \A b \in Clients \ {a} : cursor'[b] = cursor[b] /\ owed'[b] = owed[b]
  BY <1>2, <1>4 DEF CursorInv, InboxInv, TypeOK
<1>6. Ahead'
  <2>1. flying \in SUBSET flying
    OBVIOUS
  <2>2. \A b \in Clients \ {a} : inbox'[b] = inbox[b] /\ cursor'[b] = cursor[b]
    BY <1>2, <1>5
  <2>3. QED
    BY <1>2, <2>1, <2>2, PassedAhead
<1>7. ASSUME NEW i \in owed'[a] PROVE i > cursor'[a]
  <2>1. i \in owed[a] /\ i \notin Ids(page)
    BY <1>5, <1>7
  <2>2. PICK m \in inbox[a] : m.id = i
    BY <2>1 DEF CursorInv, InOrder, Ids
  <2>3. m \in Newer(a) /\ m \notin page
    BY <2>1, <2>2 DEF CursorInv, NothingSkipped, Newer, Ids
  <2>4. l.at < m.at
    BY <1>4, <2>3, PageFirst DEF CursorInv
  <2>5. l.id < m.id
    BY <1>3, <2>1, <2>2, <2>4 DEF CursorInv, InOrder
  <2>6. QED
    BY <1>3, <1>4, <1>5, <2>2, <2>5 DEF Message, Stamps
<1>8. NothingSkipped'
  BY <1>5, <1>7 DEF CursorInv, NothingSkipped
<1>9. \A b \in Clients : InOrder(inbox'[b], owed'[b]) /\ cursor'[b] <= clock'
  <2>1. l.id <= clock
    BY <1>3, CursorTypes DEF CursorInv
  <2>2. \A b \in Clients : owed'[b] \subseteq owed[b]
    BY <1>5
  <2> HIDE DEF page
  <2>3. QED
    BY <1>2, <1>5, <2>1, <2>2 DEF CursorInv, InOrder
<1>10. \A b \in asking' : owed'[b] = {}
  BY <1>2 DEF CursorInv, InboxInv, TypeOK
<1>11. QED
  BY <1>1, <1>2, <1>6, <1>8, <1>9, <1>10 DEF CursorInv

\* A poll that finds nothing has nothing to find.
LEMMA EmptyPage ==
  ASSUME InboxInv, NEW a \in Clients, NEW size \in {PageSize, MaxStamp}, Page(a, size) = {}
  PROVE  Newer(a) = {}
<1> DEFINE T == {m.at : m \in Newer(a)}
<1>1. SUFFICES ASSUME Newer(a) # {} PROVE FALSE
  OBVIOUS
<1>2. Newer(a) \subseteq Message
  BY DEF Newer, InboxInv, TypeOK
<1>3. T \in SUBSET Nat /\ T # {} /\ size > 0
  BY <1>1, <1>2 DEF Message, Stamps
<1> HIDE DEF T
<1>4. PICK k \in T : \A n \in T : k <= n
  BY <1>3, LeastNumber
<1>5. PICK m \in Newer(a) : m.at = k
  BY DEF T
<1>6. {n \in Newer(a) : n.at < m.at} = {}
  BY <1>2, <1>4, <1>5 DEF T, Message, Stamps
<1>7. m \in Page(a, size)
  BY <1>3, <1>6, FS_EmptySet DEF Page
<1>8. QED
  BY <1>7

LEMMA PollEmptyCursor ==
  ASSUME CursorInv, NEW a \in Clients, NEW size \in {PageSize, MaxStamp}, PollEmpty(a, size)
  PROVE  CursorInv'
<1>1. InboxInv'
  BY PollEmptyInbox DEF CursorInv
<1>2. /\ Page(a, size) = {} /\ asking' = asking \cup {a}
      /\ UNCHANGED <<clock, flying, inbox, cursor, owed>>
  BY DEF PollEmpty
<1>3. Newer(a) = {}
  BY <1>2, EmptyPage DEF CursorInv
<1>4. owed[a] = {}
  BY <1>3 DEF Newer, CursorInv, InOrder, Ids, NothingSkipped
<1>5. QED
  BY <1>1, <1>2, <1>4 DEF CursorInv, Ahead, NothingSkipped

LEMMA PollNowCursor == ASSUME CursorInv, NEW a \in Clients, PollNow(a) PROVE CursorInv'
<1>1. InboxInv'
  BY PollNowInbox DEF CursorInv
<1>2. /\ a \in asking /\ asking' = asking \ {a}
      /\ cursor' = [cursor EXCEPT ![a] = clock]
      /\ flying' = Passed(flying, {a})
      /\ UNCHANGED <<clock, inbox, owed>>
  BY DEF PollNow
<1>3. cursor'[a] = clock /\ \A b \in Clients \ {a} : cursor'[b] = cursor[b]
  BY <1>2 DEF CursorInv, InboxInv, TypeOK
<1>4. Ahead'
  <2>1. flying \in SUBSET flying
    OBVIOUS
  <2>2. \A b \in Clients \ {a} : inbox'[b] = inbox[b] /\ cursor'[b] = cursor[b]
    BY <1>2, <1>3
  <2>3. QED
    BY <1>2, <2>1, <2>2, PassedAhead
<1>5. owed[a] = {}
  BY <1>2 DEF CursorInv
<1>6. NothingSkipped' /\ \A b \in Clients : cursor'[b] <= clock'
  BY <1>2, <1>3, <1>5, CursorTypes DEF CursorInv, NothingSkipped
<1>7. QED
  BY <1>1, <1>2, <1>4, <1>6 DEF CursorInv

LEMMA DeleteRecordCursor ==
  ASSUME CursorInv, NEW a \in Removable, DeleteRecord(a)
  PROVE  CursorInv'
<1>1. InboxInv'
  BY DeleteRecordInbox DEF CursorInv
<1>2. /\ inbox' = [inbox EXCEPT ![a] = {}]
      /\ owed' = StillOwed(inbox')
      /\ UNCHANGED <<clock, flying, cursor, asking>>
  BY DEF DeleteRecord
<1>3. \A b \in Agents : inbox'[b] = {} \/ inbox'[b] = inbox[b]
  BY <1>2 DEF CursorInv, InboxInv, TypeOK
<1>4. \A b \in Clients : owed'[b] = owed[b] \cap Ids(inbox'[b])
  BY <1>2 DEF StillOwed
<1>5. Ahead'
  BY <1>2, <1>3, CursorTypes DEF CursorInv, Ahead
<1>6. \A b \in Agents : Dense(inbox'[b])
  BY <1>3 DEF CursorInv, Dense
<1>7. \A b \in Clients : InOrder(inbox'[b], owed'[b])
  BY <1>3, <1>4 DEF CursorInv, InOrder, InboxInv, TypeOK
<1>8. NothingSkipped' /\ \A b \in asking' : owed'[b] = {}
  <2>1. cursor' = cursor /\ asking' = asking /\ asking \subseteq Clients
    BY <1>2 DEF CursorInv, InboxInv, TypeOK
  <2>2. \A b \in Clients : owed'[b] \subseteq owed[b]
    BY <1>4
  <2>3. NothingSkipped'
    BY <2>1, <2>2 DEF CursorInv, NothingSkipped
  <2>4. QED
    BY <2>1, <2>2, <2>3 DEF CursorInv
<1>9. QED
  BY <1>1, <1>2, <1>5, <1>6, <1>7, <1>8 DEF CursorInv

\* A loaded inbox is in the order of its stamps; it lacks a row only when there
\* are too many of them.
LEMMA LoadedOrder ==
  ASSUME InboxInv, NEW a \in Agents
  PROVE  /\ Dense(Loaded(a))
         /\ \A x, y \in Loaded(a) : y.at < x.at => y.id < x.id
         /\ \A r \in RowsOf(a) :
              \/ r.id \in Ids(Loaded(a))
              \/ Cardinality({q \in RowsOf(a) : q.id > r.id}) >= LoadCap
              \/ Cardinality(RowsOf(a)) > QueryLimit
<1> DEFINE R == RowsOf(a)
           Kept == Newest(Oldest(R))
           Shown(r) == [id |-> r.id, at |-> r.id, read |-> r.read, shared |-> FALSE]
           S == {Shown(r) : r \in Kept}
<1>1. R \subseteq Row /\ \A r, q \in R : r.id = q.id => r = q
  BY DEF RowsOf, InboxInv, Keyed
<1>2. IsFiniteSet(R) /\ Cardinality(R) \in Nat
  BY <1>1, FiniteById DEF Row
<1>3. Loaded(a) = Reindexed(S)
  BY DEF Loaded
<1>4. Kept \subseteq R
  BY DEF Newest, Oldest
<1>5. \A r \in R \ Kept : \/ Cardinality({q \in R : q.id > r.id}) >= LoadCap
                          \/ Cardinality(R) > QueryLimit
  <2> TAKE r \in R \ Kept
  <2> HIDE DEF R
  <2>1. CASE r \in Oldest(R)
    <3> DEFINE L == {q \in Oldest(R) : q.id > r.id}
               M == {q \in R : q.id > r.id}
    <3>1. ~(Cardinality(L) < LoadCap)
      BY <2>1 DEF Newest
    <3>2. L \subseteq M /\ M \subseteq R
      BY DEF Oldest
    <3> HIDE DEF L, M
    <3>3. /\ Cardinality(L) <= Cardinality(M)
          /\ Cardinality(L) \in Nat /\ Cardinality(M) \in Nat
      BY <1>2, <3>2, FS_Subset, FS_CardinalityType
    <3>4. Cardinality(M) >= LoadCap
      BY <3>1, <3>3
    <3>5. QED
      BY <3>4 DEF M
  <2>2. CASE r \notin Oldest(R)
    <3> DEFINE L == {q \in R : q.id < r.id}
    <3>1. ~(Cardinality(L) < QueryLimit)
      BY <2>2 DEF Oldest
    <3>2. L \subseteq R /\ r \in R /\ r \notin L
      BY <1>1 DEF Row, Stamps
    <3> HIDE DEF L
    <3>3. /\ Cardinality(L) \in Nat /\ Cardinality(L) <= Cardinality(R)
          /\ Cardinality(L) = Cardinality(R) => L = R
      BY <1>2, <3>2, FS_Subset, FS_CardinalityType
    <3>4. QED
      BY <1>2, <3>1, <3>2, <3>3
  <2>3. QED
    BY <2>1, <2>2
<1> HIDE DEF Kept, R
<1>6. \A r \in Row : /\ Shown(r) \in Message /\ Shown(r).id = r.id /\ Shown(r).at = r.id
  BY DEF Row, Message
<1> HIDE DEF Shown
<1>7. /\ S \in SUBSET Message /\ \A x \in S : x.at = x.id
      /\ \A r \in Kept : \E x \in S : x.id = r.id
  BY <1>1, <1>4, <1>6
<1>8. ASSUME NEW x \in S, NEW y \in S, x.id = y.id PROVE x = y
  <2>1. PICK r \in Kept : x = Shown(r)
    OBVIOUS
  <2>2. PICK q \in Kept : y = Shown(q)
    OBVIOUS
  <2>3. QED
    BY <1>1, <1>4, <1>6, <1>8, <2>1, <2>2
<1> HIDE DEF S
<1>9. /\ \A m \in S : m.id \in Ids(Reindexed(S))
      /\ Dense(Reindexed(S))
      /\ \A x, y \in Reindexed(S) : y.at < x.at =>
           \E m, n \in S : m.id = x.id /\ n.id = y.id /\ n.at < m.at
  BY <1>7, <1>8, Reordered
<1>10. \A x, y \in Reindexed(S) : y.at < x.at => y.id < x.id
  BY <1>7, <1>9
<1>11. \A r \in Kept : r.id \in Ids(Reindexed(S))
  BY <1>7, <1>9
<1>12. QED
  BY <1>3, <1>5, <1>9, <1>10, <1>11 DEF R

LEMMA RestartCursor == ASSUME CursorInv, Restart PROVE CursorInv'
<1>1. InboxInv'
  BY RestartInbox DEF CursorInv
<1>2. /\ inbox' = [a \in Agents |-> Loaded(a)]
      /\ flying' = {} /\ asking' = {} /\ owed' = StillOwed(inbox')
      /\ UNCHANGED <<clock, cursor>>
  BY DEF Restart
<1>3. \A a \in Agents : /\ Dense(inbox'[a])
                        /\ \A x, y \in inbox'[a] : y.at < x.at => y.id < x.id
  BY <1>2, LoadedOrder DEF CursorInv
<1>4. \A a \in Clients : owed'[a] = owed[a] \cap Ids(inbox'[a])
  BY <1>2 DEF StillOwed
<1>5. \A a \in Clients : InOrder(inbox'[a], owed'[a])
  BY <1>3, <1>4 DEF InOrder
<1>6. NothingSkipped'
  BY <1>2, <1>4 DEF CursorInv, NothingSkipped
<1>7. QED
  BY <1>1, <1>2, <1>3, <1>5, <1>6 DEF CursorInv, Ahead

LEMMA NextCursor == ASSUME CursorInv, [Next]_vars PROVE CursorInv'
<1>1. ASSUME NEW kind \in Kinds, NEW to \in Targets, Stamp(kind, to) PROVE CursorInv'
  BY <1>1, StampCursor
<1>2. ASSUME NEW m \in flying, Deliver(m) PROVE CursorInv'
  BY <1>2, DeliverInbox, AppendCursor DEF CursorInv, Deliver
<1>12. ASSUME NEW m \in flying, Notify(m) PROVE CursorInv'
  BY <1>12, NotifyInbox, AppendCursor DEF CursorInv, Notify
<1>13. ASSUME InboxInv', UNCHANGED <<clock, flying, inbox, cursor, asking, owed>> PROVE CursorInv'
  BY <1>13 DEF CursorInv, Ahead, NothingSkipped
<1>14. ASSUME NEW s \in Savers, NEW i \in late, CopyNotice(s, i) PROVE CursorInv'
  <2>1. InboxInv'
    BY <1>14, CopyInbox DEF CursorInv, CopyNotice, Copy
  <2>2. QED
    BY <1>13, <1>14, <2>1 DEF CopyNotice, Copy
<1>15. ASSUME NEW s \in Savers, CopyOther(s) PROVE CursorInv'
  <2>1. InboxInv'
    BY <1>15, CopyInbox DEF CursorInv, CopyOther
  <2>2. QED
    BY <1>13, <1>15, <2>1 DEF CopyOther, Copy
<1>16. ASSUME NEW s \in Savers, NEW r \in saving[s], WriteRow(s, r) PROVE CursorInv'
  <2>1. InboxInv'
    BY <1>16, WriteRowInbox DEF CursorInv
  <2>2. QED
    BY <1>13, <1>16, <2>1 DEF WriteRow
<1>3. ASSUME NEW a \in Clients, NEW i \in Stamps, Ack(a, i) PROVE CursorInv'
  BY <1>3, AckCursor
<1>4. ASSUME NEW a \in Clients, NEW size \in {PageSize, MaxStamp}, Poll(a, size) PROVE CursorInv'
  BY <1>4, PollCursor
<1>5. ASSUME NEW a \in Clients, NEW size \in {PageSize, MaxStamp}, PollEmpty(a, size) PROVE CursorInv'
  BY <1>5, PollEmptyCursor
<1>6. ASSUME NEW a \in Clients, PollNow(a) PROVE CursorInv'
  BY <1>6, PollNowCursor
<1>7. ASSUME NEW a \in Removable, DeleteRecord(a) PROVE CursorInv'
  BY <1>7, DeleteRecordCursor
<1>8. ASSUME NEW a \in Removable, DeleteRows(a) PROVE CursorInv'
  <2>1. InboxInv'
    BY <1>8, DeleteRowsInbox DEF CursorInv
  <2>2. QED
    BY <1>8, <1>13, <2>1 DEF DeleteRows
<1>9. CASE Restart
  BY <1>9, RestartCursor
<1>10. CASE UNCHANGED vars
  BY <1>10, <1>13, StutterInbox DEF vars, CursorInv
<1>11. QED
  BY <1>1, <1>2, <1>3, <1>4, <1>5, <1>6, <1>7, <1>8, <1>9, <1>10, <1>12, <1>14, <1>15, <1>16
     DEF Next

\* The cursor of an agent skips no message that reached its inbox in the order
\* of the stamps and during no poll, whatever pages, prunings, late messages,
\* removals and restarts come between (handlers_messages.go, check_messages).
THEOREM CursorSkipsNothing == Spec => []NothingSkipped
<1>1. CursorInv => NothingSkipped
  BY DEF CursorInv
<1>2. QED
  BY <1>1, InitCursor, NextCursor, PTL DEF Spec

\* What a restart leaves out of an inbox is read, shared, or beyond a limit.
LEMMA RestartKeeps ==
  ASSUME InboxInv, Restart, NEW a \in Agents \ unsaved, NEW m \in inbox[a],
         ~m.read, ~m.shared, m.id \notin Ids(inbox'[a]), ~Awaited(m.id)
  PROVE  \/ Cardinality({r \in RowsOf(a) : r.id > m.id}) >= LoadCap
         \/ Cardinality(RowsOf(a)) > QueryLimit
<1> DEFINE r == [id |-> m.id, agent |-> a, read |-> m.read]
<1>1. r \in RowsOf(a) /\ r.id = m.id
  BY DEF InboxInv, DirectDurable, RowsOf
<1>2. inbox'[a] = Loaded(a)
  BY DEF Restart
<1> HIDE DEF r
<1>3. \/ r.id \in Ids(Loaded(a))
      \/ Cardinality({q \in RowsOf(a) : q.id > r.id}) >= LoadCap
      \/ Cardinality(RowsOf(a)) > QueryLimit
  BY <1>1, LoadedOrder
<1>4. QED
  BY <1>1, <1>2, <1>3

\* Only the deletion of its agent, or a restart that meets one of its limits or
\* comes before the save of a task notice, takes an unread direct message from
\* an inbox.
THEOREM UnreadMessagesKept == Spec => UnreadKept
<1> DEFINE Excused(a, m) ==
      \/ a \in deleting' \ deleting
      \/ Awaited(m.id)
      \/ Cardinality({r \in RowsOf(a) : r.id > m.id}) >= LoadCap
      \/ Cardinality(RowsOf(a)) > QueryLimit
<1>1. ASSUME CursorInv, Next, NEW a \in Agents \ unsaved, NEW m \in inbox[a],
             ~m.read, ~m.shared, m.id \notin Ids(inbox'[a])
      PROVE  Excused(a, m)
  <2>1. inbox \in [Agents -> SUBSET Message] /\ m.id \in Ids(inbox[a])
    BY <1>1 DEF CursorInv, InboxInv, TypeOK, Ids
  <2>2. inbox' # inbox
    BY <1>1, <2>1
  <2>3. ASSUME NEW f \in flying, Append(f) PROVE FALSE
    <3>1. inbox' = [b \in Agents |-> IF b \in f.to THEN Received(inbox[b], f) ELSE inbox[b]]
      BY <2>3 DEF Append
    <3>2. m.id \in Ids(Received(inbox[a], f))
      BY <1>1, ReceivedOrder DEF CursorInv
    <3>3. QED
      BY <1>1, <2>1, <3>1, <3>2
  <2>4. ASSUME NEW b \in Clients, NEW i \in Stamps, Ack(b, i) PROVE FALSE
    <3> DEFINE Acked(n) == IF n.id = i THEN [n EXCEPT !.read = TRUE] ELSE n
    <3>1. inbox' = [inbox EXCEPT ![b] = {Acked(n) : n \in inbox[b]}]
      BY <2>4 DEF Ack
    <3>2. \A n \in Message : Acked(n).id = n.id
      BY DEF Message
    <3> HIDE DEF Acked
    <3>3. inbox'[a] = inbox[a] \/ inbox'[a] = {Acked(n) : n \in inbox[a]}
      BY <2>1, <3>1
    <3>4. QED
      BY <1>1, <2>1, <3>2, <3>3 DEF Ids
  <2>5. ASSUME NEW b \in Removable, DeleteRecord(b) PROVE Excused(a, m)
    <3>1. inbox' = [inbox EXCEPT ![b] = {}] /\ deleting' = deleting \cup {b} /\ b \notin deleting
      BY <2>5 DEF DeleteRecord
    <3>2. a = b
      BY <1>1, <2>1, <3>1
    <3>3. QED
      BY <3>1, <3>2
  <2>6. CASE Restart
    BY <1>1, <2>6, RestartKeeps DEF CursorInv
  <2>7. QED
    BY <1>1, <2>2, <2>3, <2>4, <2>5, <2>6
       DEF Next, Stamp, Deliver, Notify, Poll, PollEmpty, PollNow, DeleteRows,
           CopyNotice, CopyOther, Copy, WriteRow
<1>2. CursorInv /\ [Next]_vars
        => [\A a \in Agents \ unsaved : \A m \in inbox[a] :
              ~m.read /\ ~m.shared /\ m.id \notin Ids(inbox'[a]) => Excused(a, m)]_vars
  <2> HIDE DEF Excused
  <2>1. QED
    BY <1>1
<1>3. QED
  BY <1>2, InitCursor, NextCursor, PTL DEF Spec, UnreadKept
=============================================================================
