------------------------------- MODULE Inbox -------------------------------
(***************************************************************************)
(* The message inboxes of one space: senders stamp a message before they   *)
(* take Server.mu, deliver it to one inbox or to a subtree, and save the   *)
(* space before they unlock; agents poll with a cursor and acknowledge.    *)
(* The notice of a task is delivered under the lock and saved after it:    *)
(* its handler, like others that save by name, copies the space under a    *)
(* second lock and writes the copy row by row while the others go on.      *)
(*                                                                         *)
(* A stamp is a tick of the clock: it is the ID and the Timestamp of a     *)
(* message.  `at' is the place of a message in the slice AgentUpdate       *)
(* .Messages.  A cursor c stands for the time just after stamp c, so that  *)
(* Timestamp.After(cursor) is id > c.                                      *)
(***************************************************************************)
EXTENDS Integers, FiniteSets

CONSTANTS
  Agents,      \* the agents of the space
  Clients,     \* the agents that poll and acknowledge; the others only receive
  Removable,   \* the agents that a DELETE request names
  Savers,      \* handlers that write a copy of the space after their unlock
  Targets,     \* the recipient sets a sender can address
  MaxStamp,    \* bound: messages sent in a behaviour
  MaxFlying,   \* bound: senders between their stamp and the lock
  PageSize,    \* checkMessagesPageSize, 20 in the code
  ReadCap,     \* maxReadMessages, 50 in the code
  QueryLimit,  \* messageQueryLimit, 500 in the code
  LoadCap      \* maxMessages of loadSpaceFromRepo, 200 in the code

ASSUME AgentsAssumption == IsFiniteSet(Agents)
ASSUME ClientsAssumption == Clients \subseteq Agents /\ Removable \subseteq Agents
ASSUME TargetsAssumption == Targets \subseteq (SUBSET Agents) \ {{}}
ASSUME BoundsAssumption ==
  /\ MaxStamp \in Nat /\ MaxFlying \in Nat
  /\ PageSize \in Nat \ {0} /\ ReadCap \in Nat
  /\ QueryLimit \in Nat /\ LoadCap \in Nat

VARIABLES
  clock,      \* the last stamp given
  flying,     \* stamped messages that are not delivered yet
  inbox,      \* AgentUpdate.Messages of every agent
  rows,       \* the table agent_messages
  late,       \* task notices whose handler has not taken its copy yet
  saving,     \* what is left of the copy a handler writes
  deleting,   \* agents whose DELETE has unlocked and not yet wiped the rows
  cursor,     \* the cursor every client holds
  asking,     \* clients whose poll found nothing and has not read the time yet
  owed,       \* history: messages in a client's inbox that came in the order of
              \* their stamps and during no poll, and that no poll returned yet
  unsaved,    \* history: agents wiped since the space was saved under the lock
  behind      \* history: messages whose rows a copy wrote since then

vars == <<clock, flying, inbox, rows, late, saving, deleting, cursor, asking, owed,
          unsaved, behind>>

Stamps == 1 .. MaxStamp

\* "sent" is POST .../message and send_message, which prune; "internal" is
\* deliverInternalMessage and deliverDecisionMessage, which do not; "notice" is
\* notifyTaskAssigned and notifyTaskComment, which save after the unlock.
Kinds == {"sent", "internal", "notice"}

Message == [id : Stamps, at : Stamps, read : BOOLEAN, shared : BOOLEAN]
Flight == [id : Stamps, to : SUBSET Agents, kind : Kinds, passed : SUBSET Clients]
Row == [id : Stamps, agent : Agents, read : BOOLEAN]

TypeOK ==
  /\ clock \in 0 .. MaxStamp
  /\ flying \subseteq Flight
  /\ inbox \in [Agents -> SUBSET Message]
  /\ rows \subseteq Row
  /\ late \subseteq Stamps
  /\ saving \in [Savers -> SUBSET Row]
  /\ deleting \subseteq Removable
  /\ cursor \in [Clients -> 0 .. MaxStamp]
  /\ asking \subseteq Clients
  /\ owed \in [Clients -> SUBSET Stamps]
  /\ unsaved \subseteq Removable
  /\ behind \subseteq Stamps

-----------------------------------------------------------------------------
Ids(S) == {m.id : m \in S}

\* The slice without gaps.
Reindexed(S) ==
  {[m EXCEPT !.at = Cardinality({n \in S : n.at <= m.at})] : m \in S}

PruneOldest(S) ==    \* mutant: caps the messages instead of the read ones
  {m \in S : Cardinality({n \in S : n.at > m.at}) < ReadCap}

\* All unread messages stay; of the read ones the newest ReadCap.
PruneRead(S) ==
  {m \in S : ~m.read \/ Cardinality({n \in S : n.read /\ n.at > m.at}) < ReadCap}

\* saveSpace writes every message of every agent, agents in map order.  The
\* primary key is the ID alone and a conflict updates read only, so the first
\* agent that holds a new ID owns the row, and the last one sets read.
MapOrders == {f \in [Agents -> 1 .. Cardinality(Agents)] :
                \A a, b \in Agents : f[a] = f[b] => a = b}
Holders(box, i) == {a \in Agents : i \in Ids(box[a])}
FirstHolder(box, i, order) ==
  CHOOSE a \in Holders(box, i) : \A b \in Holders(box, i) : order[a] <= order[b]
LastHolder(box, i, order) ==
  CHOOSE a \in Holders(box, i) : \A b \in Holders(box, i) : order[b] <= order[a]
ReadBy(box, i, a) == \E m \in box[a] : m.id = i /\ m.read

RowsOfSpace(a) ==    \* mutant: loads without asking for the name
  rows

RowsOf(a) == {r \in rows : r.agent = a}
Held(box) == UNION {Ids(box[a]) : a \in Agents}
Written(box, order) ==
  {r \in rows : r.id \notin Held(box)}
    \cup {[id |-> i,
           agent |-> IF \E r \in rows : r.id = i
                       THEN (CHOOSE r \in rows : r.id = i).agent
                       ELSE FirstHolder(box, i, order),
           read |-> ReadBy(box, i, LastHolder(box, i, order))] : i \in Held(box)}

SaveSpace(box) == /\ \E order \in MapOrders : rows' = Written(box, order)
                  /\ unsaved' = {} /\ behind' = {}

\* A copy of the space, and the statement for one message of it.
CopyOf(box) ==
  UNION {{[id |-> m.id, agent |-> a, read |-> m.read] : m \in box[a]} : a \in Agents}
Upsert(R, r) ==
  IF \E q \in R : q.id = r.id
    THEN {IF q.id = r.id THEN [q EXCEPT !.read = r.read] ELSE q : q \in R}
    ELSE R \cup {r}

\* A poll or a delivery between the stamp and the delivery of a message.
Passed(F, who) ==
  {[m EXCEPT !.passed = @ \cup (who \cap m.to \cap Clients)] : m \in F}

StillOwed(box) == [a \in Clients |-> owed[a] \cap Ids(box[a])]

-----------------------------------------------------------------------------
Init ==
  /\ clock = 0 /\ flying = {}
  /\ inbox = [a \in Agents |-> {}] /\ rows = {} /\ deleting = {}
  /\ late = {} /\ saving = [s \in Savers |-> {}]
  /\ cursor = [a \in Clients |-> 0] /\ asking = {}
  /\ owed = [a \in Clients |-> {}] /\ unsaved = {} /\ behind = {}

\* The ID and the timestamp are taken before the lock.
Stamp(kind, to) ==
  /\ kind # "sent" => Cardinality(to) = 1
  /\ clock < MaxStamp /\ Cardinality(flying) < MaxFlying
  /\ clock' = clock + 1
  /\ flying' = flying \cup
       {[id |-> clock + 1, to |-> to, kind |-> kind, passed |-> {}]}
  /\ UNCHANGED <<inbox, rows, late, saving, deleting, cursor, asking, owed, unsaved, behind>>

Received(box, m) ==
  LET grown == box \cup {[id |-> m.id, at |-> Cardinality(box) + 1, read |-> FALSE,
                          shared |-> Cardinality(m.to) > 1]}
  IN IF m.kind = "sent" THEN Reindexed(PruneRead(grown)) ELSE grown

Append(m) ==
  /\ m \in flying
  /\ inbox' = [a \in Agents |-> IF a \in m.to THEN Received(inbox[a], m) ELSE inbox[a]]
  /\ flying' = Passed(flying \ {m}, m.to)
  /\ owed' = [a \in Clients |->
       StillOwed(inbox')[a] \cup (IF a \in m.to \ (m.passed \cup asking) THEN {m.id} ELSE {})]
  /\ UNCHANGED <<clock, saving, deleting, cursor, asking>>

\* Append to every recipient and save, under one lock.
Deliver(m) ==
  /\ m.kind # "notice" /\ Append(m)
  /\ SaveSpace(inbox')
  /\ UNCHANGED late

\* Append under the lock; the save comes after it.
Notify(m) ==
  /\ m.kind = "notice" /\ Append(m)
  /\ late' = late \cup {m.id}
  /\ UNCHANGED <<rows, unsaved, behind>>

\* saveSpaceByName copies the space under a lock of its own.
Copy(s) ==
  /\ saving[s] = {}
  /\ saving' = [saving EXCEPT ![s] = CopyOf(inbox)]
  /\ UNCHANGED <<clock, flying, inbox, rows, deleting, cursor, asking, owed, unsaved, behind>>

CopyNotice(s, i) == i \in late /\ Copy(s) /\ late' = late \ {i}

\* The tail of the requests for tasks, configurations and contracts.
CopyOther(s) == Copy(s) /\ UNCHANGED late

\* One statement of the save.  Saves under the lock come between any two.
WriteRow(s, r) ==
  /\ r \in saving[s]
  /\ rows' = Upsert(rows, r)
  /\ saving' = [saving EXCEPT ![s] = @ \ {r}]
  /\ behind' = behind \cup {r.id}
  /\ UNCHANGED <<clock, flying, inbox, late, deleting, cursor, asking, owed, unsaved>>

AckUnsaved(a, i) ==    \* mutant: acknowledges in memory only
  /\ i \in Ids(inbox[a])
  /\ inbox' = [inbox EXCEPT ![a] =
       {IF m.id = i THEN [m EXCEPT !.read = TRUE] ELSE m : m \in @}]
  /\ UNCHANGED <<clock, flying, rows, late, saving, deleting, cursor, asking, owed, unsaved, behind>>

Ack(a, i) ==
  /\ i \in Ids(inbox[a])
  /\ inbox' = [inbox EXCEPT ![a] =
       {IF m.id = i THEN [m EXCEPT !.read = TRUE] ELSE m : m \in @}]
  /\ SaveSpace(inbox')
  /\ UNCHANGED <<clock, flying, late, saving, deleting, cursor, asking, owed>>

\* What is newer than the cursor, in slice order, at most size of it.
Newer(a) == {m \in inbox[a] : m.id > cursor[a]}
Page(a, size) ==
  {m \in Newer(a) : Cardinality({n \in Newer(a) : n.at < m.at}) < size}
CursorAfter(page) == (CHOOSE m \in page : \A n \in page : n.at <= m.at).id

PollUncut(a, size) ==    \* mutant: computes the cursor before the page is cut
  /\ a \notin asking /\ Page(a, size) # {}
  /\ cursor' = [cursor EXCEPT ![a] = CursorAfter(Newer(a))]
  /\ owed' = [owed EXCEPT ![a] = @ \ Ids(Page(a, size))]
  /\ flying' = Passed(flying, {a})
  /\ UNCHANGED <<clock, inbox, rows, late, saving, deleting, asking, unsaved, behind>>

\* check_messages returns pages of PageSize, GET .../messages everything; the
\* cursor is that of the last message of the copy.
Poll(a, size) ==
  /\ a \notin asking /\ Page(a, size) # {}
  /\ cursor' = [cursor EXCEPT ![a] = CursorAfter(Page(a, size))]
  /\ owed' = [owed EXCEPT ![a] = @ \ Ids(Page(a, size))]
  /\ flying' = Passed(flying, {a})
  /\ UNCHANGED <<clock, inbox, rows, late, saving, deleting, asking, unsaved, behind>>

\* A poll that finds nothing takes the time for its cursor, after the unlock.
PollEmpty(a, size) ==
  /\ a \notin asking /\ Page(a, size) = {}
  /\ asking' = asking \cup {a}
  /\ UNCHANGED <<clock, flying, inbox, rows, late, saving, deleting, cursor, owed, unsaved, behind>>

PollNow(a) ==
  /\ a \in asking
  /\ asking' = asking \ {a}
  /\ cursor' = [cursor EXCEPT ![a] = clock]
  /\ flying' = Passed(flying, {a})
  /\ UNCHANGED <<clock, inbox, rows, late, saving, deleting, owed, unsaved, behind>>

\* DELETE removes the record and saves under the lock, and wipes the rows
\* of the name after it.
DeleteRecord(a) ==
  /\ a \notin deleting
  /\ inbox' = [inbox EXCEPT ![a] = {}]
  /\ SaveSpace(inbox')
  /\ deleting' = deleting \cup {a}
  /\ owed' = StillOwed(inbox')
  /\ UNCHANGED <<clock, flying, late, saving, cursor, asking>>

DeleteRows(a) ==
  /\ a \in deleting
  /\ rows' = {r \in rows : r.agent # a}
  /\ deleting' = deleting \ {a}
  /\ unsaved' = unsaved \cup {a}
  /\ UNCHANGED <<clock, flying, inbox, late, saving, cursor, asking, owed, behind>>

\* A crash and the load of the rows: of the QueryLimit oldest, the LoadCap newest.
Oldest(R) == {r \in R : Cardinality({q \in R : q.id < r.id}) < QueryLimit}
Newest(R) == {r \in R : Cardinality({q \in R : q.id > r.id}) < LoadCap}
Loaded(a) ==
  Reindexed({[id |-> r.id, at |-> r.id, read |-> r.read, shared |-> FALSE] :
               r \in Newest(Oldest(RowsOf(a)))})

Restart ==
  /\ inbox' = [a \in Agents |-> Loaded(a)]
  /\ flying' = {} /\ deleting' = {} /\ asking' = {} /\ unsaved' = {} /\ behind' = {}
  /\ late' = {} /\ saving' = [s \in Savers |-> {}]
  /\ owed' = StillOwed(inbox')
  /\ UNCHANGED <<clock, rows, cursor>>

Next ==
  \/ \E kind \in Kinds, to \in Targets : Stamp(kind, to)
  \/ \E m \in flying : Deliver(m)
  \/ \E m \in flying : Notify(m)
  \/ \E s \in Savers, i \in late : CopyNotice(s, i)
  \/ \E s \in Savers : CopyOther(s)
  \/ \E s \in Savers : \E r \in saving[s] : WriteRow(s, r)
  \/ \E a \in Clients, i \in Stamps : Ack(a, i)
  \/ \E a \in Clients, size \in {PageSize, MaxStamp} : Poll(a, size)
  \/ \E a \in Clients, size \in {PageSize, MaxStamp} : PollEmpty(a, size)
  \/ \E a \in Clients : PollNow(a)
  \/ \E a \in Removable : DeleteRecord(a)
  \/ \E a \in Removable : DeleteRows(a)
  \/ Restart

Spec == Init /\ [][Next]_vars

-----------------------------------------------------------------------------
\* The handler of a task notice has not written it yet.
Awaited(i) ==
  /\ \A r \in rows : r.id # i
  /\ i \in late \/ \E s \in Savers : \E r \in saving[s] : r.id = i

\* What an inbox shows of a message that went to one agent is in its row, the
\* read flag included, whatever other agents, shared messages, prunings and
\* restarts did.  The wipe that ends a DELETE can take a row away, until the
\* space is saved under the lock again; until then, too, the row of a read
\* message says unread where a handler wrote it from an older copy; and a task
\* notice has no row while its handler has still to write it.
DirectDurable ==
  \A a \in Agents \ unsaved : \A m \in inbox[a] :
    ~m.shared =>
      \/ [id |-> m.id, agent |-> a, read |-> m.read] \in rows
      \/ m.id \in behind /\ m.read /\ [id |-> m.id, agent |-> a, read |-> FALSE] \in rows
      \/ Awaited(m.id)

\* An unread message leaves an inbox only when its agent is deleted, or in a
\* restart that finds the save of a task notice still to come, LoadCap newer
\* rows, read or not, or a table so long that the query returns the oldest rows
\* only.
UnreadKept ==
  [][\A a \in Agents \ unsaved : \A m \in inbox[a] :
       ~m.read /\ ~m.shared /\ m.id \notin Ids(inbox'[a])
         => \/ a \in deleting' \ deleting
            \/ Awaited(m.id)
            \/ Cardinality({r \in RowsOf(a) : r.id > m.id}) >= LoadCap
            \/ Cardinality(RowsOf(a)) > QueryLimit]_vars

\* The cursor skips no message that was stamped and delivered while no other
\* delivery to its recipients and no poll of them went on: one that no poll
\* returned yet is newer than the cursor, whatever pages, prunings, late
\* messages and restarts came between.
NothingSkipped == \A a \in Clients : \A i \in owed[a] : i > cursor[a]

\* An ID is held once by an inbox; a direct message by one inbox and by no row
\* of another agent.
Fits(box) == box \in [Agents -> SUBSET Message]
Distinct(box) == \A a \in Agents : \A m, n \in box[a] : m.id = n.id => m = n
Alone(box) ==
  \A a, b \in Agents : \A m \in box[a] : \A n \in box[b] :
    ~m.shared /\ m.id = n.id => a = b
Keyed(R) == R \subseteq Row /\ \A r, q \in R : r.id = q.id => r = q
Owned(box, R) ==
  \A a \in Agents : \A m \in box[a] : \A r \in R : ~m.shared /\ r.id = m.id => r.agent = a
Tidy(box) == Fits(box) /\ Distinct(box) /\ Alone(box)

\* A copy knows a message as its inbox does, or as it was before it was read.
Earlier(box, R) ==
  \A a \in Agents : \A m \in box[a] : \A r \in R :
    ~m.shared /\ r.id = m.id => r.agent = a /\ (r.read => m.read)

\* IDs come from the clock, and what flies is nowhere yet.
Past ==
  /\ \A a \in Agents : \A m \in inbox[a] : m.id <= clock
  /\ \A r \in rows : r.id <= clock
  /\ \A f \in flying : f.id <= clock
  /\ \A s \in Savers : \A r \in saving[s] : r.id <= clock
Apart ==
  /\ \A f \in flying :
       /\ \A a \in Agents : \A m \in inbox[a] : m.id # f.id
       /\ \A r \in rows : r.id # f.id
       /\ \A s \in Savers : \A r \in saving[s] : r.id # f.id
  /\ \A f, g \in flying : f.id = g.id => f = g

\* The inductive invariant: one row of an ID, which belongs to the agent that
\* has the direct message, and one inbox that has it, which a copy cannot
\* change; no ID is used again.
InboxInv ==
  /\ TypeOK /\ Tidy(inbox) /\ Keyed(rows) /\ Owned(inbox, rows)
  /\ \A s \in Savers : Earlier(inbox, saving[s])
  /\ Past /\ Apart /\ DirectDurable

=============================================================================
