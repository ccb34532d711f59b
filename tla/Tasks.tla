------------------------------- MODULE Tasks -------------------------------
(***************************************************************************)
(* The tasks of a space: numbers, parents and subtasks, owners, and the    *)
(* notice an agent gets of a task.  A request edits the task in one        *)
(* critical section of Server.mu and tells the agent in a later one, when  *)
(* the task may have another owner or be gone.                             *)
(***************************************************************************)
EXTENDS Integers, FiniteSets, Sequences

CONSTANTS
  Agents,      \* agent names, as resolveAgentName makes them
  NoAgent,     \* AssignedTo is empty
  Handlers,    \* requests, and goroutines that a request leaves behind
  MaxTasks,    \* bound: tasks created in a behaviour
  NoticeCap    \* maxNotifications

ASSUME NoAgentAssumption == NoAgent \notin Agents
ASSUME TaskBounds == MaxTasks \in Nat /\ NoticeCap \in Nat \ {0}

VARIABLES
  seq,      \* NextTaskSeq
  tasks,    \* the keys of KnowledgeSpace.Tasks
  status, owner, parent, subs,   \* Status, AssignedTo, ParentTask (0: none), Subtasks
  records,  \* the agents that have a record with a Status
  notices,  \* Notifications of each agent, in the order of the slice: which are read
  job,      \* what each request has yet to do
  told      \* history: <<t, a>> when a was told since it became the owner of t

taskVars == <<seq, tasks, status, owner, parent, subs>>
noticeVars == <<records, notices, told>>
vars == <<taskVars, noticeVars, job>>

Ids == 1 .. MaxTasks

\* "done" stands for backlog, review and blocked, too: only closeAgentTasks looks
\* at a status, and it looks for in_progress.
Statuses == {"in_progress", "done"}

Idle == [phase |-> "idle"]
Telling(t, a) == [phase |-> "telling", task |-> t, agent |-> a]
Commenting(t, a) == [phase |-> "commenting", task |-> t, agent |-> a]
Adding(t) == [phase |-> "adding", task |-> t]
Closing(a) == [phase |-> "closing", agent |-> a]

Jobs ==
  {Idle} \cup {Telling(t, a) : t \in Ids, a \in Agents}
         \cup {Commenting(t, a) : t \in Ids, a \in Agents}
         \cup {Adding(t) : t \in Ids} \cup {Closing(a) : a \in Agents}

TypeOK ==
  /\ seq \in 0 .. MaxTasks /\ tasks \subseteq 1 .. seq
  /\ status \in [Ids -> Statuses] /\ owner \in [Ids -> Agents \cup {NoAgent}]
  /\ parent \in [Ids -> 0 .. MaxTasks] /\ subs \in [Ids -> SUBSET Ids]
  /\ records \subseteq Agents /\ DOMAIN notices = Agents
  /\ job \in [Handlers -> Jobs] /\ told \subseteq Ids \X Agents

Init ==
  /\ seq = 0 /\ tasks = {}
  /\ status = [t \in Ids |-> "done"] /\ owner = [t \in Ids |-> NoAgent]
  /\ parent = [t \in Ids |-> 0] /\ subs = [t \in Ids |-> {}]
  /\ records = {} /\ notices = [a \in Agents |-> <<>>]
  /\ job = [h \in Handlers |-> Idle] /\ told = {}

-----------------------------------------------------------------------------
(* Tasks.                                                                  *)

NewIdByCount ==    \* mutant: numbers the tasks that exist
  Cardinality(tasks) + 1

NewId == seq + 1

\* The owner is told after the save, unless there is none or it stays the same.
TellAfter(h, t, old, new) ==
  LET due == new # NoAgent /\ new # old
  IN /\ job' = [job EXCEPT ![h] = IF due THEN Telling(t, new) ELSE Idle]
     /\ told' = IF new = old THEN told ELSE told \ ({t} \X Agents)
     /\ UNCHANGED <<records, notices>>

\* A task is in the map before its parent is looked up, so it may be its own.
Add(h, p, s, a) ==
  /\ NewId \in Ids
  /\ seq' = NewId
  /\ tasks' = tasks \cup {NewId}
  /\ status' = [status EXCEPT ![NewId] = s]
  /\ owner' = [owner EXCEPT ![NewId] = a]
  /\ parent' = [parent EXCEPT ![NewId] = p]
  /\ subs' = IF p \in tasks' THEN [subs EXCEPT ![p] = @ \cup {NewId}] ELSE subs
  /\ TellAfter(h, NewId, NoAgent, a)

\* POST /tasks and the MCP tool create_task take any parent.
CreateTask(h, p, s, a) == job[h] = Idle /\ Add(h, p, s, a)

\* POST /tasks/{p}/subtasks looks for the parent before it reads the body.
FindParent(h, p) ==
  /\ job[h] = Idle /\ p \in tasks
  /\ job' = [job EXCEPT ![h] = Adding(p)]
  /\ UNCHANGED <<taskVars, noticeVars>>

CreateSubtask(h, a) ==
  /\ job[h].phase = "adding"
  /\ Add(h, job[h].task, "done", a)

\* PUT /tasks/{t}, the MCP tool update_task, assign, and a spawn with a task:
\* only PUT changes the status with it, the tool and a spawn never unassign.
Update(h, t, s, a) ==
  /\ job[h] = Idle /\ t \in tasks
  /\ status' = [status EXCEPT ![t] = s]
  /\ owner' = [owner EXCEPT ![t] = a]
  /\ TellAfter(h, t, owner[t], a)
  /\ UNCHANGED <<seq, tasks, parent, subs>>

\* POST /tasks/{t}/move and the MCP tool move_task.
Move(h, t, s) ==
  /\ job[h] = Idle /\ t \in tasks
  /\ status' = [status EXCEPT ![t] = s]
  /\ UNCHANGED <<seq, tasks, owner, parent, subs, job, noticeVars>>

\* The lists and parents of other tasks keep the number.
DeleteTask(h, t) ==
  /\ job[h] = Idle /\ t \in tasks
  /\ tasks' = tasks \ {t}
  /\ status' = [status EXCEPT ![t] = "done"]
  /\ owner' = [owner EXCEPT ![t] = NoAgent]
  /\ parent' = [parent EXCEPT ![t] = 0]
  /\ subs' = [subs EXCEPT ![t] = {}]
  /\ told' = told \ ({t} \X Agents)
  /\ UNCHANGED <<seq, records, notices, job>>

\* A comment of somebody else; the goroutine outlives the request.
Comment(h, t) ==
  /\ job[h] = Idle /\ t \in tasks /\ owner[t] # NoAgent
  /\ job' = [job EXCEPT ![h] = Commenting(t, owner[t])]
  /\ UNCHANGED <<taskVars, noticeVars>>

-----------------------------------------------------------------------------
(* Notices.                                                                *)

Unread(l) == Cardinality({i \in DOMAIN l : ~l[i]})

PruneKeepsRead(l) ==    \* mutant: read ones take the places first
  LET read == Len(l) - Unread(l)
  IN IF Len(l) <= NoticeCap THEN l ELSE [i \in 1 .. NoticeCap |-> i > NoticeCap - read]

\* pruneNotifications: the unread ones move to the front, at most NoticeCap of
\* them, and read ones take the places that are left.
Prune(l) ==
  IF Len(l) <= NoticeCap THEN l ELSE [i \in 1 .. NoticeCap |-> i > Unread(l)]

Notify(a) == notices' = [notices EXCEPT ![a] = Prune(Append(@, FALSE))]

TellKnown(h) ==    \* mutant: an agent without a record is not told
  /\ job[h].phase = "telling"
  /\ IF job[h].agent \in records
       THEN Notify(job[h].agent) /\ told' = told \cup {<<job[h].task, job[h].agent>>}
       ELSE UNCHANGED <<notices, told>>
  /\ job' = [job EXCEPT ![h] = Idle]
  /\ UNCHANGED <<taskVars, records>>

\* notifyTaskAssigned makes a record for an agent that has none.
Tell(h) ==
  /\ job[h].phase = "telling"
  /\ Notify(job[h].agent)
  /\ records' = records \cup {job[h].agent}
  /\ told' = IF owner[job[h].task] = job[h].agent
               THEN told \cup {<<job[h].task, job[h].agent>>} ELSE told
  /\ job' = [job EXCEPT ![h] = Idle]
  /\ UNCHANGED taskVars

\* notifyTaskComment drops the notice instead.
TellComment(h) ==
  /\ job[h].phase = "commenting"
  /\ IF job[h].agent \in records THEN Notify(job[h].agent) ELSE UNCHANGED notices
  /\ job' = [job EXCEPT ![h] = Idle]
  /\ UNCHANGED <<taskVars, records, told>>

\* A message for a has a notice, too.
Message(a) ==
  /\ Notify(a)
  /\ records' = records \cup {a}
  /\ UNCHANGED <<taskVars, told, job>>

ReadAll(l) == [i \in DOMAIN l |-> TRUE]

\* A status post of a reads its notices; one that says done may close tasks.
Post(h, a, close) ==
  /\ job[h] = Idle
  /\ records' = records \cup {a}
  /\ notices' = [notices EXCEPT ![a] = Prune(ReadAll(@))]
  /\ job' = [job EXCEPT ![h] = IF close THEN Closing(a) ELSE Idle]
  /\ UNCHANGED <<taskVars, told>>

\* closeAgentTasks, in a critical section of its own.
CloseTasks(h) ==
  /\ job[h].phase = "closing"
  /\ status' = [t \in Ids |-> IF owner[t] = job[h].agent /\ status[t] = "in_progress"
                                THEN "done" ELSE status[t]]
  /\ job' = [job EXCEPT ![h] = Idle]
  /\ UNCHANGED <<seq, tasks, owner, parent, subs, noticeVars>>

\* DELETE of an agent leaves its tasks alone.
DeleteAgent(a) ==
  /\ a \in records
  /\ records' = records \ {a}
  /\ notices' = [notices EXCEPT ![a] = <<>>]
  /\ UNCHANGED <<taskVars, told, job>>

-----------------------------------------------------------------------------
Begin(h) ==
  \/ \E p \in 0 .. MaxTasks, s \in Statuses, a \in Agents \cup {NoAgent} : CreateTask(h, p, s, a)
  \/ \E t \in Ids :
       \/ FindParent(h, t) \/ DeleteTask(h, t) \/ Comment(h, t)
       \/ \E s \in Statuses : Move(h, t, s) \/ \E a \in Agents \cup {NoAgent} : Update(h, t, s, a)
  \/ \E a \in Agents, close \in BOOLEAN : Post(h, a, close)

Finish(h) ==
  \/ \E a \in Agents \cup {NoAgent} : CreateSubtask(h, a)
  \/ Tell(h) \/ TellComment(h) \/ CloseTasks(h)

Next ==
  \/ \E h \in Handlers : Begin(h) \/ Finish(h)
  \/ \E a \in Agents : Message(a) \/ DeleteAgent(a)

Spec == Init /\ [][Next]_vars

-----------------------------------------------------------------------------
(* Properties.                                                             *)

\* What collects subtasks may trust the lists: a task in the list of another
\* has it as its parent, or is deleted, whatever was deleted and created
\* since; and it is younger, so the lists form no cycle but a task that was
\* made its own parent.
ListedAreChildren ==
  \A p \in tasks : \A t \in subs[p] :
    p <= t /\ t <= seq /\ (t \in tasks => parent[t] = p)

\* A task whose parent exists is in its list, unless it named a number that
\* was still to be given out.
ChildrenAreListed ==
  \A t \in tasks : parent[t] \in tasks /\ parent[t] <= t => t \in subs[parent[t]]

SubtaskLinks == ListedAreChildren /\ ChildrenAreListed

\* The owner of a task has been told of it since it became the owner, or the
\* request that made it the owner is about to tell it.
AssigneeTold ==
  \A t \in tasks : owner[t] # NoAgent =>
    <<t, owner[t]>> \in told \/ \E h \in Handlers : job[h] = Telling(t, owner[t])

\* Blank entries of tasks that do not exist.
Blank ==
  \A t \in Ids \ tasks : parent[t] = 0 /\ subs[t] = {} /\ owner[t] = NoAgent

\* The inductive invariant behind the two.
TasksInv == TypeOK /\ Blank /\ SubtaskLinks /\ AssigneeTold

\* Unread notices go away only by a post of their agent or with its record;
\* a new one makes the unread ones one more, up to the cap, whatever read ones
\* are in the slice and wherever they stand.
UnreadNoticeKept ==
  [][\A a \in Agents : notices'[a] # notices[a] =>
       \/ a \notin records' \/ Unread(notices'[a]) = 0
       \/ Unread(notices'[a]) = Unread(notices[a]) + 1
       \/ Unread(notices'[a]) = NoticeCap]_vars

=============================================================================
