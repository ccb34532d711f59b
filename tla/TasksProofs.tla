---------------------------- MODULE TasksProofs ----------------------------
(* Proofs about Tasks, for any agents, requests and numbers of tasks.      *)
EXTENDS Tasks, FiniteSetTheorems, SequenceTheorems, TLAPS

USE NoAgentAssumption, TaskBounds

\* A job that is no notice of an assignment.
Silent(j) == \A t \in Ids, a \in Agents : j # Telling(t, a)

LEMMA IdleIsSilent == Silent(Idle)
  BY DEF Silent, Idle, Telling

LEMMA PhaseSilent == ASSUME NEW j, j.phase # "telling" PROVE Silent(j)
  BY DEF Silent, Telling

\* The notices in progress survive a step of h that had none.
LEMMA OthersKeep ==
  ASSUME TypeOK, NEW h \in Handlers, Silent(job[h]), NEW j, job' = [job EXCEPT ![h] = j],
         NEW t \in Ids, NEW a \in Agents, \E k \in Handlers : job[k] = Telling(t, a)
  PROVE \E k \in Handlers : job'[k] = Telling(t, a)
  BY DEF TypeOK, Silent

\* A step that leaves the tasks alone, gives h no notice to forget and takes
\* nothing out of told.
LEMMA TasksUntouched ==
  ASSUME TasksInv, UNCHANGED <<seq, tasks, owner, parent, subs>>,
         status' \in [Ids -> Statuses], records' \subseteq Agents, DOMAIN notices' = Agents,
         told \subseteq told', told' \subseteq Ids \X Agents,
         job' \in [Handlers -> Jobs],
         \A t \in Ids, a \in Agents : (\E k \in Handlers : job[k] = Telling(t, a)) =>
           \/ \E k \in Handlers : job'[k] = Telling(t, a)
           \/ <<t, a>> \in told' \/ owner[t] # a
  PROVE TasksInv'
<1>1. TypeOK' /\ Blank' /\ SubtaskLinks'
  BY DEF TasksInv, TypeOK, Blank, SubtaskLinks, ListedAreChildren, ChildrenAreListed
<1>2. AssigneeTold'
  <2> SUFFICES ASSUME NEW t \in tasks, owner[t] # NoAgent
               PROVE <<t, owner[t]>> \in told' \/ \E k \in Handlers : job'[k] = Telling(t, owner[t])
    BY DEF AssigneeTold
  <2>1. t \in Ids /\ owner[t] \in Agents
    BY DEF TasksInv, TypeOK, Ids
  <2>2. QED
    BY <2>1 DEF TasksInv, AssigneeTold
<1>3. QED
  BY <1>1, <1>2 DEF TasksInv

\* A change of the owner of t, from old to new, under TellAfter.
LEMMA ToldAfter ==
  ASSUME TasksInv, NEW h \in Handlers, Silent(job[h]), NEW t \in Ids,
         NEW old \in Agents \cup {NoAgent}, NEW new \in Agents \cup {NoAgent},
         t \in tasks => old = owner[t], t \notin tasks => old = NoAgent,
         owner' = [owner EXCEPT ![t] = new], tasks' \subseteq tasks \cup {t},
         TellAfter(h, t, old, new)
  PROVE AssigneeTold'
<1> SUFFICES ASSUME NEW u \in tasks', owner'[u] # NoAgent
             PROVE <<u, owner'[u]>> \in told' \/ \E k \in Handlers : job'[k] = Telling(u, owner'[u])
  BY DEF AssigneeTold
<1> DEFINE j == IF new # NoAgent /\ new # old THEN Telling(t, new) ELSE Idle
<1>0. job' = [job EXCEPT ![h] = j] /\ u \in Ids
  BY DEF TellAfter, TasksInv, TypeOK, Ids
<1> HIDE DEF j
<1>01. \A v \in Ids, b \in Agents : (\E k \in Handlers : job[k] = Telling(v, b)) =>
         \E k \in Handlers : job'[k] = Telling(v, b)
  BY <1>0 DEF TasksInv, TypeOK, Silent
<1>1. CASE u # t
  <2>1. owner'[u] = owner[u] /\ u \in tasks /\ owner[u] \in Agents
    BY <1>1, <1>0 DEF TasksInv, TypeOK
  <2>2. CASE <<u, owner[u]>> \in told
    BY <2>1, <2>2, <1>1 DEF TellAfter
  <2>3. CASE \E k \in Handlers : job[k] = Telling(u, owner[u])
    BY <2>1, <2>3, <1>0, <1>01
  <2>4. QED
    BY <2>1, <2>2, <2>3 DEF TasksInv, AssigneeTold
<1>2. CASE u = t /\ new # old
  <2>1. owner'[u] = new /\ new # NoAgent
    BY <1>2 DEF TasksInv, TypeOK
  <2>2. job'[h] = Telling(t, new)
    BY <1>0, <1>2, <2>1 DEF TasksInv, TypeOK, j
  <2>3. QED
    BY <2>1, <2>2, <1>2
<1>3. CASE u = t /\ new = old
  <2>1. owner'[u] = new /\ new # NoAgent /\ told' = told
    BY <1>3 DEF TasksInv, TypeOK, TellAfter
  <2>2. t \in tasks /\ new = owner[t] /\ owner[t] \in Agents
    BY <2>1, <1>3 DEF TasksInv, TypeOK
  <2>3. CASE <<t, new>> \in told
    BY <2>1, <2>3, <1>3
  <2>4. CASE \E k \in Handlers : job[k] = Telling(t, new)
    BY <2>1, <2>2, <2>4, <1>0, <1>3, <1>01
  <2>5. QED
    BY <2>1, <2>2, <2>3, <2>4 DEF TasksInv, AssigneeTold
<1>4. QED
  BY <1>1, <1>2, <1>3

LEMMA TellAfterTypes ==
  ASSUME TypeOK, NEW h \in Handlers, NEW t \in Ids, NEW old,
         NEW new \in Agents \cup {NoAgent}, TellAfter(h, t, old, new)
  PROVE /\ job' \in [Handlers -> Jobs] /\ told' \subseteq Ids \X Agents
        /\ records' \subseteq Agents /\ DOMAIN notices' = Agents
<1>1. Idle \in Jobs /\ (new # NoAgent => Telling(t, new) \in Jobs)
  BY DEF Jobs
<1>2. QED
  BY <1>1 DEF TypeOK, TellAfter

\* Adding a task: its number is above all that were given out.
LEMMA AddTasks ==
  ASSUME TasksInv, NEW h \in Handlers, Silent(job[h]), NEW p \in 0 .. MaxTasks,
         NEW s \in Statuses, NEW a \in Agents \cup {NoAgent}, Add(h, p, s, a)
  PROVE TasksInv'
<1> DEFINE n == seq + 1
<1>0. n \in Ids /\ n \notin tasks /\ seq' = n /\ tasks' = tasks \cup {n} /\ NewId = n
  BY DEF Add, NewId, TasksInv, TypeOK, Ids
<1>1. /\ parent' = [parent EXCEPT ![n] = p] /\ owner' = [owner EXCEPT ![n] = a]
      /\ status' = [status EXCEPT ![n] = s]
      /\ subs' = IF p \in tasks' THEN [subs EXCEPT ![p] = @ \cup {n}] ELSE subs
      /\ TellAfter(h, n, NoAgent, a)
  BY <1>0 DEF Add
<1> HIDE DEF n
<1>2. \A t \in tasks : t \in Ids /\ t < n
  BY DEF n, TasksInv, TypeOK, Ids
<1>3. TypeOK'
  <2>1. tasks' \subseteq 1 .. seq' /\ seq' \in 0 .. MaxTasks
    BY <1>0, <1>2 DEF Ids, n, TasksInv, TypeOK
  <2>2. subs' \in [Ids -> SUBSET Ids]
    BY <1>0, <1>1 DEF TasksInv, TypeOK
  <2>3. QED
    BY <2>1, <2>2, <1>0, <1>1, TellAfterTypes DEF TasksInv, TypeOK
<1>4. Blank'
  <2>1. \A t \in Ids \ tasks' : (t # n /\ t # p) \/ (t # n /\ subs' = subs)
    BY <1>0, <1>1
  <2>2. QED
    BY <2>1, <1>0, <1>1 DEF TasksInv, TypeOK, Blank
<1>5. ListedAreChildren'
  <2> SUFFICES ASSUME NEW q \in tasks', NEW t \in subs'[q]
               PROVE q <= t /\ t <= seq' /\ (t \in tasks' => parent'[t] = q)
    BY DEF ListedAreChildren
  <2>0. q \in Ids /\ t \in Ids /\ n \in Nat
    BY <1>0, <1>2, <1>3 DEF TypeOK, Ids
  <2>1. CASE t = n
    <3>1. n \notin subs[q]
      <4>1. CASE q \in tasks
        BY <4>1 DEF n, TasksInv, TypeOK, SubtaskLinks, ListedAreChildren, Ids
      <4>2. CASE q \notin tasks
        BY <4>2, <2>0 DEF TasksInv, Blank
      <4>3. QED
        BY <4>1, <4>2
    <3>2. p = q
      BY <3>1, <2>1, <1>1, <2>0 DEF TasksInv, TypeOK
    <3>3. parent'[n] = p
      BY <1>0, <1>1 DEF TasksInv, TypeOK
    <3>4. q <= n
      BY <1>0, <1>2, <2>0 DEF Ids
    <3>5. QED
      BY <3>2, <3>3, <3>4, <2>1, <1>0, <2>0
  <2>2. CASE t # n
    <3>1. t \in subs[q]
      BY <2>2, <1>1, <2>0 DEF TasksInv, TypeOK
    <3>2. q \in tasks
      BY <3>1, <2>0 DEF TasksInv, Blank
    <3>3. q <= t /\ t <= seq /\ (t \in tasks => parent[t] = q)
      BY <3>1, <3>2 DEF TasksInv, SubtaskLinks, ListedAreChildren
    <3>4. parent'[t] = parent[t]
      BY <2>2, <1>1, <2>0 DEF TasksInv, TypeOK
    <3>5. seq \in Nat /\ seq' = seq + 1
      BY <1>0 DEF n, TasksInv, TypeOK
    <3>6. QED
      BY <3>3, <3>4, <3>5, <2>2, <2>0, <1>0 DEF Ids
  <2>3. QED
    BY <2>1, <2>2
<1>6. ChildrenAreListed'
  <2> SUFFICES ASSUME NEW t \in tasks', parent'[t] \in tasks', parent'[t] <= t
               PROVE t \in subs'[parent'[t]]
    BY DEF ChildrenAreListed
  <2>1. CASE t = n
    <3>1. parent'[t] = p
      BY <2>1, <1>0, <1>1 DEF TasksInv, TypeOK
    <3>2. p \in Ids
      BY <3>1, <1>0, <1>2
    <3>3. QED
      BY <3>1, <3>2, <2>1, <1>1 DEF TasksInv, TypeOK
  <2>2. CASE t # n
    <3>1. t \in tasks /\ parent'[t] = parent[t]
      BY <2>2, <1>0, <1>1, <1>2 DEF TasksInv, TypeOK
    <3>2. parent[t] \in tasks
      BY <3>1, <1>0, <1>2 DEF n, TasksInv, TypeOK, Ids
    <3>3. t \in subs[parent[t]] /\ parent[t] \in Ids
      BY <3>1, <3>2, <1>2 DEF TasksInv, SubtaskLinks, ChildrenAreListed
    <3>4. QED
      BY <3>1, <3>3, <1>1 DEF TasksInv, TypeOK
  <2>3. QED
    BY <2>1, <2>2
<1>7. AssigneeTold'
  BY <1>0, <1>1, ToldAfter
<1>8. QED
  BY <1>3, <1>4, <1>5, <1>6, <1>7 DEF TasksInv, SubtaskLinks

LEMMA UpdateTasks ==
  ASSUME TasksInv, NEW h \in Handlers, NEW t \in Ids, NEW s \in Statuses,
         NEW a \in Agents \cup {NoAgent}, Update(h, t, s, a)
  PROVE TasksInv'
<1>1. AssigneeTold'
  <2>1. owner[t] \in Agents \cup {NoAgent} /\ tasks' \subseteq tasks \cup {t}
    BY DEF Update, TasksInv, TypeOK
  <2>2. Silent(job[h]) /\ TellAfter(h, t, owner[t], a) /\ t \in tasks
        /\ owner' = [owner EXCEPT ![t] = a]
    BY IdleIsSilent DEF Update
  <2>3. QED
    BY <2>1, <2>2, ToldAfter
<1>2. TypeOK'
  <2>1. TellAfter(h, t, owner[t], a)
    BY DEF Update
  <2>2. QED
    BY <2>1, TellAfterTypes DEF Update, TasksInv, TypeOK
<1>3. Blank' /\ SubtaskLinks'
  BY DEF Update, TasksInv, TypeOK, Blank, SubtaskLinks, ListedAreChildren, ChildrenAreListed
<1>4. QED
  BY <1>1, <1>2, <1>3 DEF TasksInv

LEMMA DeleteTasks ==
  ASSUME TasksInv, NEW h \in Handlers, NEW t \in Ids, DeleteTask(h, t)
  PROVE TasksInv'
<1>1. TypeOK'
  <2>1. tasks' \subseteq 1 .. seq' /\ seq' \in 0 .. MaxTasks
    BY DEF DeleteTask, TasksInv, TypeOK
  <2>2. /\ status' \in [Ids -> Statuses] /\ owner' \in [Ids -> Agents \cup {NoAgent}]
        /\ parent' \in [Ids -> 0 .. MaxTasks] /\ subs' \in [Ids -> SUBSET Ids]
    BY DEF DeleteTask, TasksInv, TypeOK, Statuses
  <2>3. told' \subseteq Ids \X Agents
    BY DEF DeleteTask, TasksInv, TypeOK
  <2>4. QED
    BY <2>1, <2>2, <2>3 DEF DeleteTask, TasksInv, TypeOK
<1>2. Blank'
  BY DEF DeleteTask, TasksInv, TypeOK, Blank
<1>3. SubtaskLinks'
  <2>1. \A u \in tasks' : u \in tasks /\ parent'[u] = parent[u] /\ subs'[u] = subs[u]
    BY DEF DeleteTask, TasksInv, TypeOK, Ids
  <2>2. tasks' \subseteq tasks /\ seq' = seq
    BY DEF DeleteTask
  <2>3. QED
    BY <2>1, <2>2 DEF TasksInv, SubtaskLinks, ListedAreChildren, ChildrenAreListed
<1>4. AssigneeTold'
  <2> SUFFICES ASSUME NEW u \in tasks \ {t}, owner'[u] # NoAgent
               PROVE <<u, owner'[u]>> \in told' \/ \E k \in Handlers : job'[k] = Telling(u, owner'[u])
    BY DEF AssigneeTold, DeleteTask
  <2>1. owner'[u] = owner[u] /\ job' = job /\ (<<u, owner[u]>> \in told => <<u, owner[u]>> \in told')
    BY DEF DeleteTask, TasksInv, TypeOK, Ids
  <2>2. QED
    BY <2>1 DEF TasksInv, AssigneeTold
<1>5. QED
  BY <1>1, <1>2, <1>3, <1>4 DEF TasksInv

\* h takes up a job that is no notice, or drops one.
LEMMA JobTasks ==
  ASSUME TasksInv, NEW h \in Handlers, Silent(job[h]), NEW j \in Jobs,
         job' = [job EXCEPT ![h] = j], UNCHANGED <<seq, tasks, owner, parent, subs, told>>,
         status' \in [Ids -> Statuses], records' \subseteq Agents, DOMAIN notices' = Agents
  PROVE TasksInv'
<1>1. \A t \in Ids, a \in Agents : (\E k \in Handlers : job[k] = Telling(t, a)) =>
        \E k \in Handlers : job'[k] = Telling(t, a)
  BY OthersKeep DEF TasksInv
<1>2. QED
  BY <1>1, TasksUntouched DEF TasksInv, TypeOK

LEMMA BeginTasks == ASSUME TasksInv, NEW h \in Handlers, Begin(h) PROVE TasksInv'
<1>1. ASSUME NEW p \in 0 .. MaxTasks, NEW s \in Statuses, NEW a \in Agents \cup {NoAgent},
             CreateTask(h, p, s, a)
      PROVE TasksInv'
  BY <1>1, IdleIsSilent, AddTasks DEF CreateTask
<1>2. ASSUME NEW t \in Ids, FindParent(h, t) \/ Comment(h, t) PROVE TasksInv'
  <2>1. CASE FindParent(h, t)
    <3>1. Adding(t) \in Jobs
      BY DEF Jobs
    <3>2. QED
      BY <2>1, <3>1, IdleIsSilent, JobTasks DEF FindParent, TasksInv, TypeOK, taskVars, noticeVars
  <2>2. CASE Comment(h, t)
    <3>1. Commenting(t, owner[t]) \in Jobs
      BY <2>2 DEF Comment, Jobs, TasksInv, TypeOK
    <3>2. QED
      BY <2>2, <3>1, IdleIsSilent, JobTasks DEF Comment, TasksInv, TypeOK, taskVars, noticeVars
  <2>3. QED
    BY <1>2, <2>1, <2>2
<1>3. ASSUME NEW t \in Ids, DeleteTask(h, t) PROVE TasksInv'
  BY <1>3, DeleteTasks
<1>4. ASSUME NEW t \in Ids, NEW s \in Statuses, Move(h, t, s) PROVE TasksInv'
  BY <1>4, TasksUntouched DEF Move, TasksInv, TypeOK, noticeVars
<1>5. ASSUME NEW t \in Ids, NEW s \in Statuses, NEW a \in Agents \cup {NoAgent}, Update(h, t, s, a)
      PROVE TasksInv'
  BY <1>5, UpdateTasks
<1>6. ASSUME NEW a \in Agents, NEW close \in BOOLEAN, Post(h, a, close) PROVE TasksInv'
  <2>1. (IF close THEN Closing(a) ELSE Idle) \in Jobs
    BY DEF Jobs
  <2>2. QED
    BY <1>6, <2>1, IdleIsSilent, JobTasks DEF Post, TasksInv, TypeOK, taskVars
<1>7. QED
  BY <1>1, <1>2, <1>3, <1>4, <1>5, <1>6 DEF Begin

LEMMA TellTasks == ASSUME TasksInv, NEW h \in Handlers, Tell(h) PROVE TasksInv'
<1>0. PICK t \in Ids, a \in Agents : job[h] = Telling(t, a)
  BY DEF Tell, TasksInv, TypeOK, Jobs, Idle, Commenting, Adding, Closing
<1>1. job[h].task = t /\ job[h].agent = a
  BY <1>0 DEF Telling
<1>2. told' = IF owner[t] = a THEN told \cup {<<t, a>>} ELSE told
  BY <1>1 DEF Tell
<1>3. \A u \in Ids, b \in Agents : Telling(u, b) = Telling(t, a) => u = t /\ b = a
  BY DEF Telling
<1>4. \A u \in Ids, b \in Agents : (\E k \in Handlers : job[k] = Telling(u, b)) =>
        \/ \E k \in Handlers : job'[k] = Telling(u, b)
        \/ <<u, b>> \in told' \/ owner[u] # b
  <2> SUFFICES ASSUME NEW u \in Ids, NEW b \in Agents, NEW k \in Handlers, job[k] = Telling(u, b)
               PROVE \/ \E i \in Handlers : job'[i] = Telling(u, b)
                     \/ <<u, b>> \in told' \/ owner[u] # b
    OBVIOUS
  <2>1. CASE k = h
    BY <2>1, <1>0, <1>2, <1>3
  <2>2. CASE k # h
    BY <2>2 DEF Tell, TasksInv, TypeOK
  <2>3. QED
    BY <2>1, <2>2
<1>5. job' \in [Handlers -> Jobs]
  BY DEF Tell, TasksInv, TypeOK, Jobs
<1>6. QED
  BY <1>1, <1>2, <1>4, <1>5, TasksUntouched DEF Tell, Notify, TasksInv, TypeOK, taskVars

LEMMA FinishTasks == ASSUME TasksInv, NEW h \in Handlers, Finish(h) PROVE TasksInv'
<1>0. Idle \in Jobs /\ "done" \in Statuses
  BY DEF Jobs, Statuses
<1>1. ASSUME NEW a \in Agents \cup {NoAgent}, CreateSubtask(h, a) PROVE TasksInv'
  <2>1. PICK p \in Ids : job[h] = Adding(p)
    BY <1>1 DEF CreateSubtask, TasksInv, TypeOK, Jobs, Idle, Commenting, Telling, Closing
  <2>2. Silent(job[h]) /\ p \in 0 .. MaxTasks
    BY <2>1, PhaseSilent DEF Adding, Ids
  <2>3. Add(h, p, "done", a)
    BY <1>1, <2>1 DEF CreateSubtask, Adding
  <2>4. QED
    BY <1>0, <2>2, <2>3, AddTasks
<1>2. CASE Tell(h)
  BY <1>2, TellTasks
<1>3. CASE TellComment(h)
  <2>1. Silent(job[h])
    BY <1>3, PhaseSilent DEF TellComment
  <2>2. DOMAIN notices' = Agents
    BY <1>3 DEF TellComment, Notify, TasksInv, TypeOK
  <2>3. QED
    BY <1>0, <1>3, <2>1, <2>2, JobTasks DEF TellComment, TasksInv, TypeOK, taskVars
<1>4. CASE CloseTasks(h)
  <2>1. Silent(job[h])
    BY <1>4, PhaseSilent DEF CloseTasks
  <2>2. status' \in [Ids -> Statuses]
    BY <1>0, <1>4 DEF CloseTasks, TasksInv, TypeOK
  <2>3. QED
    BY <1>0, <1>4, <2>1, <2>2, JobTasks DEF CloseTasks, TasksInv, TypeOK, noticeVars
<1>5. QED
  BY <1>1, <1>2, <1>3, <1>4 DEF Finish

LEMMA StepTasks == TasksInv /\ [Next]_vars => TasksInv'
<1> SUFFICES ASSUME TasksInv, [Next]_vars PROVE TasksInv'
  OBVIOUS
<1>1. ASSUME NEW h \in Handlers, Begin(h) \/ Finish(h) PROVE TasksInv'
  BY <1>1, BeginTasks, FinishTasks
<1>2. ASSUME NEW a \in Agents, Message(a) \/ DeleteAgent(a) PROVE TasksInv'
  BY <1>2, TasksUntouched DEF Message, DeleteAgent, Notify, TasksInv, TypeOK, taskVars
<1>3. CASE UNCHANGED vars
  BY <1>3, TasksUntouched DEF vars, taskVars, noticeVars, TasksInv, TypeOK
<1>4. QED
  BY <1>1, <1>2, <1>3 DEF Next

LEMMA InitTasks == Init => TasksInv
  BY DEF Init, TasksInv, TypeOK, Blank, SubtaskLinks, ListedAreChildren, ChildrenAreListed,
         AssigneeTold, Statuses, Jobs, Ids

-----------------------------------------------------------------------------
\* The inductive invariant of the tasks: whatever requests overlap, numbers only
\* grow, links agree and owners are told.
THEOREM TasksInvariant == Spec => []TasksInv
  BY InitTasks, StepTasks, PTL DEF Spec

\* Subtask lists and parents agree after every sequence of creations and
\* deletions (handlers_task.go:140, :786, :374).
THEOREM SubtasksAgree == Spec => []SubtaskLinks
<1>1. TasksInv => SubtaskLinks
  BY DEF TasksInv
<1>2. QED
  BY <1>1, TasksInvariant, PTL

\* Every owner is told or about to be, whoever reassigns the task meanwhile
\* (handlers_task.go:352, :504, :846).
THEOREM OwnersTold == Spec => []AssigneeTold
<1>1. TasksInv => AssigneeTold
  BY DEF TasksInv
<1>2. QED
  BY <1>1, TasksInvariant, PTL

-----------------------------------------------------------------------------
(* Notices.                                                                *)

NoticesOK == notices \in [Agents -> Seq(BOOLEAN)]

\* The first u of n places are unread.
LEMMA UnreadFirst ==
  ASSUME NEW n \in Nat, NEW u \in 0 .. n
  PROVE  /\ [i \in 1 .. n |-> i > u] \in Seq(BOOLEAN)
         /\ Unread([i \in 1 .. n |-> i > u]) = u
<1> DEFINE l == [i \in 1 .. n |-> i > u]
<1>1. \A i \in 1 .. n : l[i] = (i > u)
  OBVIOUS
<1>2. \A i \in 1 .. n : (i > u) \in BOOLEAN
  OBVIOUS
<1>3. l \in [1 .. n -> BOOLEAN]
  BY <1>2, Zenon
<1>4. \A i \in 1 .. n : ~l[i] <=> ~(i > u)
  BY <1>1, Zenon
<1> HIDE DEF l
<1>5. {i \in DOMAIN l : ~l[i]} = 1 .. u
  BY <1>3, <1>4
<1>6. Cardinality(1 .. u) = u
  BY FS_Interval
<1>7. l \in Seq(BOOLEAN)
  BY <1>3, SeqDef
<1>8. Unread(l) = u
  BY <1>5, <1>6 DEF Unread
<1> QED
  BY <1>7, <1>8 DEF l

LEMMA UnreadType ==
  ASSUME NEW l \in Seq(BOOLEAN)
  PROVE  /\ Unread(l) \in 0 .. Len(l)
         /\ IsFiniteSet({i \in DOMAIN l : ~l[i]})
<1> DEFINE U == {i \in DOMAIN l : ~l[i]}
<1>1. Len(l) \in Nat /\ U \subseteq 1 .. Len(l)
  OBVIOUS
<1>2. IsFiniteSet(1 .. Len(l)) /\ Cardinality(1 .. Len(l)) = Len(l)
  BY <1>1, FS_Interval, SMTT(40)
<1> HIDE DEF U
<1>3. IsFiniteSet(U) /\ Cardinality(U) <= Len(l) /\ Cardinality(U) \in Nat
  BY <1>1, <1>2, FS_Subset, FS_CardinalityType
<1> QED
  BY <1>1, <1>3 DEF Unread, U

\* Pruning loses an unread notice only when they alone exceed the cap.
LEMMA PruneKeepsUnread ==
  ASSUME NEW l \in Seq(BOOLEAN)
  PROVE  /\ Prune(l) \in Seq(BOOLEAN)
         /\ \/ Unread(Prune(l)) = Unread(l)
            \/ Unread(l) > NoticeCap /\ Unread(Prune(l)) = NoticeCap
<1>1. Unread(l) \in 0 .. Len(l) /\ NoticeCap \in Nat
  BY UnreadType, TaskBounds
<1>2. CASE Len(l) <= NoticeCap
  BY <1>2 DEF Prune
<1>3. CASE ~(Len(l) <= NoticeCap) /\ Unread(l) <= NoticeCap
  BY <1>1, <1>3, UnreadFirst DEF Prune
<1>4. CASE ~(Len(l) <= NoticeCap) /\ ~(Unread(l) <= NoticeCap)
  <2>1. Prune(l) = [i \in 1 .. NoticeCap |-> i > NoticeCap]
    BY <1>1, <1>4 DEF Prune
  <2> QED
    BY <1>1, <1>4, <2>1, UnreadFirst
<1> QED
  BY <1>2, <1>3, <1>4

\* A notice that arrives is unread.
LEMMA OneMoreUnread ==
  ASSUME NEW l \in Seq(BOOLEAN)
  PROVE  Append(l, FALSE) \in Seq(BOOLEAN) /\ Unread(Append(l, FALSE)) = Unread(l) + 1
<1> DEFINE U == {i \in DOMAIN l : ~l[i]}
           V == {i \in DOMAIN Append(l, FALSE) : ~Append(l, FALSE)[i]}
<1>1. V = U \cup {Len(l) + 1} /\ Len(l) + 1 \notin U
  OBVIOUS
<1>2. IsFiniteSet(U)
  BY UnreadType
<1> HIDE DEF U, V
<1>3. Cardinality(V) = Cardinality(U) + 1
  BY <1>1, <1>2, FS_AddElement
<1>4. Append(l, FALSE) \in Seq(BOOLEAN)
  OBVIOUS
<1>5. Unread(Append(l, FALSE)) = Unread(l) + 1
  BY <1>3, Zenon DEF Unread, U, V
<1> QED
  BY <1>4, <1>5

\* What a notice does to the slice of its agent.
LEMMA NotifyFacts ==
  ASSUME NoticesOK, NEW a \in Agents, Notify(a)
  PROVE  /\ NoticesOK'
         /\ \A b \in Agents \ {a} : notices'[b] = notices[b]
         /\ \/ Unread(notices'[a]) = Unread(notices[a]) + 1
            \/ Unread(notices'[a]) = NoticeCap
<1> DEFINE l == Append(notices[a], FALSE)
<1>1. notices[a] \in Seq(BOOLEAN) /\ notices' = [notices EXCEPT ![a] = Prune(l)]
  BY DEF NoticesOK, Notify
<1>2. l \in Seq(BOOLEAN) /\ Unread(l) = Unread(notices[a]) + 1
  BY <1>1, OneMoreUnread
<1> HIDE DEF l
<1>3. Prune(l) \in Seq(BOOLEAN) /\ (Unread(Prune(l)) = Unread(l) \/ Unread(Prune(l)) = NoticeCap)
  BY <1>2, PruneKeepsUnread
<1>4. notices'[a] = Prune(l) /\ \A b \in Agents \ {a} : notices'[b] = notices[b]
  BY <1>1 DEF NoticesOK
<1> QED
  BY <1>1, <1>2, <1>3, <1>4 DEF NoticesOK

\* After a post of a, its notices are read.
LEMMA PostReads ==
  ASSUME NEW l \in Seq(BOOLEAN)
  PROVE  Prune(ReadAll(l)) \in Seq(BOOLEAN) /\ Unread(Prune(ReadAll(l))) = 0
<1>1. ReadAll(l) \in Seq(BOOLEAN)
  <2>1. DOMAIN l = 1 .. Len(l) /\ Len(l) \in Nat
    OBVIOUS
  <2>2. ReadAll(l) \in [DOMAIN l -> BOOLEAN]
    BY DEF ReadAll
  <2> QED
    BY <2>1, <2>2, SeqDef
<1>2. {i \in DOMAIN ReadAll(l) : ~ReadAll(l)[i]} = {}
  BY DEF ReadAll
<1>3. Unread(ReadAll(l)) = 0
  BY <1>2, FS_EmptySet DEF Unread
<1> HIDE DEF ReadAll
<1> QED
  BY <1>1, <1>3, PruneKeepsUnread, TaskBounds

\* What a step may do to the notices of an agent.
NoticeStep ==
  \A a \in Agents : notices'[a] # notices[a] =>
    \/ a \notin records' \/ Unread(notices'[a]) = 0
    \/ Unread(notices'[a]) = Unread(notices[a]) + 1
    \/ Unread(notices'[a]) = NoticeCap

LEMMA NoticesStep ==
  ASSUME NoticesOK, TypeOK, Next
  PROVE  NoticesOK' /\ NoticeStep
<1>1. ASSUME NEW a \in Agents, Notify(a) PROVE NoticesOK' /\ NoticeStep
  BY <1>1, NotifyFacts DEF NoticeStep
<1>2. ASSUME notices' = notices PROVE NoticesOK' /\ NoticeStep
  BY <1>2 DEF NoticesOK, NoticeStep
<1>3. ASSUME NEW h \in Handlers, NEW a \in Agents, NEW close \in BOOLEAN, Post(h, a, close)
      PROVE  NoticesOK' /\ NoticeStep
  <2>1. notices[a] \in Seq(BOOLEAN)
    BY DEF NoticesOK
  <2>2. Prune(ReadAll(notices[a])) \in Seq(BOOLEAN) /\ Unread(Prune(ReadAll(notices[a]))) = 0
    BY <2>1, PostReads
  <2>3. notices' = [notices EXCEPT ![a] = Prune(ReadAll(notices[a]))]
    BY <1>3 DEF Post
  <2>4. notices'[a] = Prune(ReadAll(notices[a])) /\ \A b \in Agents \ {a} : notices'[b] = notices[b]
    BY <2>3 DEF NoticesOK
  <2> QED
    BY <2>2, <2>3, <2>4 DEF NoticesOK, NoticeStep
<1>4. ASSUME NEW h \in Handlers, Begin(h) PROVE NoticesOK' /\ NoticeStep
  <2>1. (\E a \in Agents, close \in BOOLEAN : Post(h, a, close)) \/ notices' = notices
    BY <1>4 DEF Begin, CreateTask, Add, TellAfter, FindParent, DeleteTask, Comment, Move, Update,
                noticeVars
  <2> QED
    BY <1>2, <1>3, <2>1
<1>5. ASSUME NEW h \in Handlers, Finish(h) PROVE NoticesOK' /\ NoticeStep
  <2>1. job[h] \in Jobs
    BY DEF TypeOK
  <2>2. job[h].phase \in {"telling", "commenting"} => job[h].agent \in Agents
    BY <2>1 DEF Jobs, Idle, Telling, Commenting, Adding, Closing
  <2>3. notices' = notices \/ (Notify(job[h].agent) /\ job[h].agent \in Agents)
    BY <1>5, <2>2 DEF Finish, CreateSubtask, Add, TellAfter, Tell, TellComment, CloseTasks, noticeVars
  <2> QED
    BY <1>1, <1>2, <2>3
<1>6. ASSUME NEW a \in Agents, DeleteAgent(a) PROVE NoticesOK' /\ NoticeStep
  <2>1. /\ records' = records \ {a}
        /\ notices' = [notices EXCEPT ![a] = <<>>]
    BY <1>6 DEF DeleteAgent
  <2>2. \A b \in Agents \ {a} : notices'[b] = notices[b]
    BY <2>1 DEF NoticesOK
  <2> QED
    BY <2>1, <2>2 DEF NoticesOK, NoticeStep
<1>7. ASSUME NEW a \in Agents, Message(a) PROVE NoticesOK' /\ NoticeStep
  BY <1>1, <1>7 DEF Message
<1> QED
  BY <1>4, <1>5, <1>6, <1>7 DEF Next

\* Whatever messages, assignments and comments bring, and however the slice is
\* pruned, no unread notice gives way to a read one: only a post of the agent,
\* its deletion or the cap makes them fewer (helpers.go:161-189).
THEOREM UnreadNoticesKept == Spec => UnreadNoticeKept
<1>1. Init => NoticesOK
  BY DEF Init, NoticesOK
<1>2. TasksInv /\ NoticesOK /\ [Next]_vars => NoticesOK'
  BY NoticesStep DEF TasksInv, NoticesOK, vars, noticeVars
<1>3. TasksInv /\ NoticesOK /\ [Next]_vars
        => [\A a \in Agents : notices'[a] # notices[a] =>
              \/ a \notin records' \/ Unread(notices'[a]) = 0
              \/ Unread(notices'[a]) = Unread(notices[a]) + 1
              \/ Unread(notices'[a]) = NoticeCap]_vars
  BY NoticesStep DEF TasksInv, NoticeStep
<1> QED
  BY <1>1, <1>2, <1>3, TasksInvariant, PTL DEF Spec, UnreadNoticeKept
=============================================================================
