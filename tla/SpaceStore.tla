----------------------------- MODULE SpaceStore -----------------------------
(***************************************************************************)
(* One space in memory and its rows in the database (storage.go,           *)
(* db_adapter.go, db/repository.go and the handlers that call them).       *)
(*                                                                         *)
(* Requests change the space under Server.mu, but only some of them keep   *)
(* the lock while they write rows; the others write after the unlock, from *)
(* the live record, from copies, or from a snapshot taken in a second      *)
(* critical section.  Every row is written by one statement of its own.    *)
(* A crash loses memory and the writes still pending; the next start loads *)
(* the space back from the rows.                                           *)
(*                                                                         *)
(* Not all that is in memory is meant for a row.  A configured agent that  *)
(* never had a status (a nil Status) has none, and a request that is       *)
(* refused half-way leaves what it had changed, without saving it.         *)
(*                                                                         *)
(* The content of a record is the number of the edit that made it, 0 for   *)
(* an absent one.  The content of SpaceRow is NextTaskSeq.                 *)
(***************************************************************************)
EXTENDS Naturals

CONSTANTS
  Agents,      \* agent names
  SpaceRow,    \* the row of the space itself
  MaxTasks,    \* bound on the tasks created
  MaxEdits,    \* bound on the edits of records
  Handlers,    \* the requests that can be in progress at once
  NoHandler,   \* the lock is free
  Stored,      \* the name of the space as it is stored
  Spellings    \* the spellings of the space name that requests use

Tasks == 1..MaxTasks    \* TASK-001, TASK-002, ...

ASSUME StoreAssumption ==
  /\ MaxTasks \in Nat /\ MaxEdits \in Nat
  /\ SpaceRow \notin Agents \cup Tasks
  /\ Agents \cap Tasks = {}
  /\ NoHandler \notin Handlers
  /\ Stored \in Spellings

Row == {SpaceRow} \cup Agents \cup Tasks

VARIABLES
  mem,      \* mem[r]: the content of r in Server.spaces
  db,       \* db[r]: the content of the row of r
  pend,     \* pend[h]: the row writes that request h has yet to issue
  phase,    \* phase[h]: "idle", "edited" (the snapshot is still to be taken), "writing"
  lock,     \* the request that holds Server.mu over several steps
  edits,    \* the number of edits made so far
  bare,     \* the agents of Server.spaces that have a config and a nil Status
  unwritten   \* history: the records a section without a save changed, until they are saved

vars == <<mem, db, pend, phase, lock, edits, bare, unwritten>>

\* A pending statement.  Statements of a lower rank are issued first; a live
\* one reads the record when it is issued.
Write == [row : Row, val : Nat, rank : 1..4, live : BOOLEAN]

W(r, v, k) == [row |-> r, val |-> v, rank |-> k, live |-> FALSE]

LiveW(r, v, k) == [row |-> r, val |-> v, rank |-> k, live |-> TRUE]

TypeOK ==
  /\ mem \in [Row -> Nat]
  /\ db \in [Row -> Nat]
  /\ pend \in [Handlers -> SUBSET Write]
  /\ phase \in [Handlers -> {"idle", "edited", "writing"}]
  /\ lock \in Handlers \cup {NoHandler}
  /\ edits \in Nat
  /\ bare \in SUBSET Agents
  /\ unwritten \in SUBSET (Agents \cup Tasks)

Init ==
  /\ mem = [r \in Row |-> 0]
  /\ db = [r \in Row |-> 0]
  /\ pend = [h \in Handlers |-> {}]
  /\ phase = [h \in Handlers |-> "idle"]
  /\ lock = NoHandler
  /\ edits = 0
  /\ bare = {} /\ unwritten = {}

-----------------------------------------------------------------------------
(* What the handlers share.                                                *)

FlushTasksFirst(m, B) ==    \* mutant: the row of the space is written last
  {W(t, m[t], 1) : t \in {t \in Tasks : m[t] # 0}}
    \cup {W(a, m[a], 2) : a \in {a \in Agents \ B : m[a] # 0}}
    \cup {W(SpaceRow, m[SpaceRow], 3)}

\* persistSpaceToDB: the space, then every agent that has a status, then every
\* task.  B are the agents without one.  A row whose record is gone is not touched.
Flush(m, B) ==
  {W(SpaceRow, m[SpaceRow], 1)}
    \cup {W(a, m[a], 2) : a \in {a \in Agents \ B : m[a] # 0}}
    \cup {W(t, m[t], 3) : t \in {t \in Tasks : m[t] # 0}}

\* An agent with an empty status and no config.
Hollow == MaxEdits + 1

\* snapshot() goes through JSON, where a record without a status is read as one
\* of the old format: it comes out hollow.
Snapshot(m, B) == [r \in Row |-> IF r \in B THEN Hollow ELSE m[r]]

\* The statement that deletes row r, when the request names the space as stored.
Drop(r, sp) == IF sp = Stored THEN {W(r, 0, 4)} ELSE {}

\* A request h finds the lock free, gives the records the contents m, and leaves
\* the agents in B without a status.
Begin(h, m, B) ==
  /\ phase[h] = "idle"
  /\ lock = NoHandler
  /\ edits < MaxEdits
  /\ edits' = edits + 1
  /\ mem' = m /\ bare' = B

\* Memory after an edit of the records in R.
Edited(R) == [r \in Row |-> IF r \in R THEN edits + 1 ELSE mem[r]]

Present(S) == {r \in S : mem[r] # 0}

\* A pending live statement sees an edit of the record it shares, unless the
\* record was replaced since.
Share(S) ==
  [h \in Handlers |->
    {IF w.live /\ w.row \in S /\ w.val = mem[w.row] THEN [w EXCEPT !.val = edits + 1] ELSE w
       : w \in pend[h]}]

\* The edit is unlocked; then saveSpaceByName is called with the name from the
\* URL, which finds nothing unless it is the stored one, and D is issued.
SaveByName(h, sp, D) ==
  /\ phase' = [phase EXCEPT ![h] = IF sp = Stored THEN "edited" ELSE "idle"]
  /\ pend' = [pend EXCEPT ![h] = IF sp = Stored THEN D ELSE {}]
  /\ unwritten' = IF sp = Stored THEN {} ELSE unwritten
  /\ UNCHANGED <<db, lock>>

\* A snapshot is taken in the section of the edit, and saved after the unlock.
SaveSnapshot(h, m) ==
  /\ phase' = [phase EXCEPT ![h] = "writing"]
  /\ pend' = [pend EXCEPT ![h] = Flush(Snapshot(m, bare'), {})]
  /\ unwritten' = {}
  /\ UNCHANGED <<db, lock>>

\* The space is saved before the unlock; D is issued after it.
SaveLocked(h, m, S, D) ==
  /\ phase' = [phase EXCEPT ![h] = "writing"]
  /\ pend' = [Share(S) EXCEPT ![h] = Flush(m, bare') \cup D]
  /\ lock' = h /\ unwritten' = {}
  /\ UNCHANGED db

\* The record r is changed, and the section ends without a save.
LeftUnwritten(h, r, B) ==
  /\ Begin(h, Edited({r}), B)
  /\ unwritten' = unwritten \cup {r}
  /\ pend' = Share({r})
  /\ UNCHANGED <<db, lock, phase>>

-----------------------------------------------------------------------------
(* The sections in which requests edit the space.                          *)

NewTask == mem[SpaceRow] + 1

\* Memory after a task is created: it takes the next number, and the parent
\* task in P, if any, lists it.
Created(P) == [Edited({NewTask} \cup P) EXCEPT ![SpaceRow] = NewTask]

ParentTasks == {{}} \cup {{t} : t \in Present(Tasks)}

\* POST .../tasks and .../tasks/{id}/subtasks.
CreateTask(h, sp, P) ==
  /\ NewTask \in Tasks
  /\ Begin(h, Created(P), bare)
  /\ SaveByName(h, sp, {})

\* The MCP tool create_task.
McpCreateTask(h, P) ==
  /\ NewTask \in Tasks
  /\ Begin(h, Created(P), bare)
  /\ SaveSnapshot(h, mem')

\* PUT, move, assign and comment on a task, and the closing of an agent's tasks.
EditTask(h, sp, t) ==
  /\ Begin(h, Edited({t}), bare)
  /\ SaveByName(h, sp, {})

\* The MCP tools move_task and update_task.
McpEditTask(h, t) ==
  /\ Begin(h, Edited({t}), bare)
  /\ SaveSnapshot(h, mem')

DeleteTaskRowKept(h, sp, t) ==    \* mutant: trusts the snapshot to remove the row
  /\ Begin(h, [mem EXCEPT ![t] = 0], bare)
  /\ SaveByName(h, sp, {})

DeleteTask(h, sp, t) ==
  /\ Begin(h, [mem EXCEPT ![t] = 0], bare)
  /\ SaveByName(h, sp, Drop(t, sp))

\* PUT on a task with a title and an invalid status: the title stays.
RefuseTask(h, t) == LeftUnwritten(h, t, bare)

\* PATCH .../config: an agent that is not there becomes a record with a config and
\* no status.  A statement on its way sees the config if it was there before.
PatchConfig(h, sp, a) ==
  /\ Begin(h, Edited({a}), IF mem[a] = 0 THEN bare \cup {a} ELSE bare)
  /\ phase' = [phase EXCEPT ![h] = IF sp = Stored THEN "edited" ELSE "idle"]
  /\ pend' \in {pend, Share({a})}
  /\ unwritten' = IF sp = Stored THEN {} ELSE unwritten
  /\ UNCHANGED <<db, lock>>

\* A duplicated agent, and the notice of an assigned or commented task.
EditAgent(h, sp, a) ==
  /\ Begin(h, Edited({a}), bare \ {a})
  /\ phase' = [phase EXCEPT ![h] = IF sp = Stored THEN "edited" ELSE "idle"]
  /\ pend' = Share({a})
  /\ unwritten' = IF sp = Stored THEN {} ELSE unwritten
  /\ UNCHANGED <<db, lock>>

\* POST .../contracts and .../archive: text fields of the space.
PostText(h) ==
  /\ Begin(h, mem, bare)
  /\ SaveSnapshot(h, mem)

PostStatusAgentOnly(h, sp, a, T) ==    \* mutant: the linked tasks are not written
  /\ Begin(h, Edited({a} \cup T), bare)
  /\ unwritten' = unwritten \ ({a} \cup T)
  /\ phase' = [phase EXCEPT ![h] = "writing"]
  /\ pend' = [pend EXCEPT ![h] =
       {LiveW(a, edits', 1), W(SpaceRow, mem[SpaceRow], 2)}]
  /\ UNCHANGED <<db, lock>>

\* A status post of a, by HTTP or MCP, replaces the status and links the PR to
\* the tasks in T.  After the unlock it writes the new status, the space as it
\* was before the unlock, and copies of the tasks; the name from the URL goes
\* into the rows, so under another spelling those of a and T are not of this
\* space.  For a bare agent the handler does not get that far (the panic of
\* AgentHierarchy).
PostStatus(h, sp, a, T) ==
  /\ a \notin bare
  /\ Begin(h, Edited({a} \cup T), bare)
  /\ unwritten' = IF sp = Stored THEN unwritten \ ({a} \cup T) ELSE unwritten
  /\ phase' = [phase EXCEPT ![h] = "writing"]
  /\ pend' = [pend EXCEPT ![h] =
       {W(SpaceRow, mem[SpaceRow], 2)}
         \cup IF sp = Stored
                THEN {LiveW(a, edits', 1)} \cup {W(t, edits', 3) : t \in T}
                ELSE {}]
  /\ UNCHANGED <<db, lock>>

\* The requests that edit or create the status of a and save under the lock:
\* registration, heartbeat, ignition, messages and acks, spawn, stop, restart.
EditAgentLocked(h, a) ==
  /\ Begin(h, Edited({a}), bare \ {a})
  /\ SaveLocked(h, mem', {a}, {})

\* A registration that is refused for its parent, a restart that has cleared the
\* session and cannot create the next one: what was changed stays.
RefuseAgent(h, a) == LeftUnwritten(h, a, bare \ {a})

\* The MCP tool spawn_agent puts its work_dir into the config before it spawns,
\* which may be refused.
SetWorkDir(h, a) == LeftUnwritten(h, a, IF mem[a] = 0 THEN bare \cup {a} ELSE bare)

\* DELETE .../agent/{a}: the agents in K lose their parent.
DeleteAgent(h, sp, a, K) ==
  /\ Begin(h, [Edited(K) EXCEPT ![a] = 0], bare \ {a})
  /\ SaveLocked(h, mem', K, Drop(a, sp))

-----------------------------------------------------------------------------
(* The steps after the edit.                                               *)

\* saveSpaceByName copies the space under the read lock.
TakeSnapshot(h) ==
  /\ phase[h] = "edited"
  /\ lock = NoHandler
  /\ phase' = [phase EXCEPT ![h] = "writing"]
  /\ pend' = [pend EXCEPT ![h] = @ \cup Flush(Snapshot(mem, bare), {})]
  /\ UNCHANGED <<mem, db, lock, edits, bare, unwritten>>

\* One statement; one that follows the unlock waits for it.
WriteRow(h) ==
  /\ phase[h] = "writing"
  /\ \E w \in pend[h] :
       /\ \A x \in pend[h] : w.rank <= x.rank
       /\ lock = h => w.rank < 4
       /\ db' = [db EXCEPT ![w.row] = w.val]
       /\ pend' = [pend EXCEPT ![h] = @ \ {w}]
  /\ UNCHANGED <<mem, phase, lock, edits, bare, unwritten>>


Unlock(h) ==
  /\ lock = h
  /\ \A w \in pend[h] : w.rank = 4
  /\ lock' = NoHandler
  /\ UNCHANGED <<mem, db, pend, phase, edits, bare, unwritten>>

\* The request is answered.
Answer(h) ==
  /\ phase[h] = "writing"
  /\ lock # h
  /\ pend[h] = {}
  /\ phase' = [phase EXCEPT ![h] = "idle"]
  /\ UNCHANGED <<mem, db, pend, lock, edits, bare, unwritten>>

\* The server dies and is started again: loadSpaceFromRepo.
Restart ==
  /\ mem' = db /\ bare' = {} /\ unwritten' = {}
  /\ pend' = [h \in Handlers |-> {}]
  /\ phase' = [h \in Handlers |-> "idle"]
  /\ lock' = NoHandler
  /\ UNCHANGED <<db, edits>>

-----------------------------------------------------------------------------
EditSpace(h) ==
  \/ \E sp \in Spellings, P \in ParentTasks : CreateTask(h, sp, P)
  \/ \E P \in ParentTasks : McpCreateTask(h, P)
  \/ \E t \in Present(Tasks) :
       \/ \E sp \in Spellings : EditTask(h, sp, t) \/ DeleteTask(h, sp, t)
       \/ McpEditTask(h, t)
  \/ \E a \in Agents :
       \/ \E sp \in Spellings :
            \/ PatchConfig(h, sp, a)
            \/ EditAgent(h, sp, a)
            \/ \E T \in SUBSET Present(Tasks) : PostStatus(h, sp, a, T)
            \/ \E K \in SUBSET (Present(Agents \ {a}) \ bare) : DeleteAgent(h, sp, a, K)
       \/ EditAgentLocked(h, a)
  \/ PostText(h)

RefuseOnAgent(h, a) == RefuseAgent(h, a) \/ SetWorkDir(h, a)

Refused(h) ==
  \/ \E a \in Agents : RefuseOnAgent(h, a)
  \/ \E t \in Present(Tasks) : RefuseTask(h, t)

Carry(h) == TakeSnapshot(h) \/ WriteRow(h) \/ Unlock(h) \/ Answer(h)

Serve == \E h \in Handlers : EditSpace(h) \/ Refused(h) \/ Carry(h)

Next == Serve \/ Restart

Spec == Init /\ [][Next]_vars

\* The requests that write nothing outside the lock.
LockedNext ==
  \/ \E h \in Handlers :
       \/ \E a \in Agents : EditAgentLocked(h, a) \/ RefuseOnAgent(h, a)
       \/ Carry(h)
  \/ Restart

LockedSpec == Init /\ [][LockedNext]_vars

-----------------------------------------------------------------------------
(* Properties.                                                             *)

\* The records that may be ahead of their rows.
Loose == bare \cup unwritten

\* When no request is in progress, the rows hold what memory holds, so a
\* restart loses nothing that was answered and revives nothing deleted.  The
\* exceptions are the configs of agents without a status, and what requests
\* changed that were refused, until the next save of the space.
Durable ==
  (\A h \in Handlers : phase[h] = "idle") => \A r \in Row \ Loose : db[r] = mem[r]

\* A config that was answered is in the row of its agent, which the comment on
\* AgentConfig promises ("config fields persist across restarts").
ConfigsPersist ==
  (\A h \in Handlers : phase[h] = "idle") =>
    \A a \in bare \ unwritten : db[a] = mem[a]

\* The number of every task is below the next one, in memory and, whatever
\* point of a save a crash interrupts, in the rows a restart reads.
NumbersAhead ==
  \A t \in Tasks :
    /\ mem[t] # 0 => t <= mem[SpaceRow]
    /\ db[t] # 0 => t <= db[SpaceRow]

\* Every record that differs from its row, and should not, is still to be written:
\* by a pending statement, or by the snapshot of a request that has not taken it.
Covered ==
  \A r \in Row \ Loose : db[r] # mem[r] =>
    \E h \in Handlers :
      \/ \E w \in pend[h] : w.row = r
      \/ phase[h] = "edited" /\ (r = SpaceRow \/ mem[r] # 0)

\* Pending statements carry what memory holds, the space before the tasks.
PendingCurrent ==
  \A h \in Handlers : \A w \in pend[h] :
    /\ w.row \notin bare => w.val = mem[w.row]
    /\ w.row \in Tasks =>
         \A v \in pend[h] : v.row = SpaceRow => v.rank < w.rank

\* The phases of a request.
PhaseInv ==
  \A h \in Handlers :
    /\ phase[h] = "idle" => pend[h] = {}
    /\ phase[h] # "writing" => lock # h
    /\ phase[h] = "edited" => \A w \in pend[h] : w.rank = 4 /\ w.row # SpaceRow

\* What is ahead of its row is there.
LooseThere == \A r \in Loose : mem[r] # 0

\* The inductive invariant behind Durable and NumbersAhead.
StoreInv ==
  /\ TypeOK /\ PhaseInv /\ PendingCurrent /\ Covered /\ NumbersAhead /\ LooseThere
  /\ db[SpaceRow] <= mem[SpaceRow]

\* Every request is answered, whoever holds the lock.
Answered == \A h \in Handlers : phase[h] # "idle" ~> phase[h] = "idle"

\* One request at a time, the store is written through.
WT == INSTANCE WriteThrough
        WITH Rows <- Row, view <- mem, disk <- db, loose <- Loose,
             busy <- \E h \in Handlers : phase[h] # "idle"

WrittenThrough == WT!Spec

=============================================================================
