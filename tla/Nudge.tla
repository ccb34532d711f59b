------------------------------- MODULE Nudge -------------------------------
(***************************************************************************)
(* How an agent learns of a message: the delivering request leaves a mark  *)
(* in nudgePending, the liveness loop looks at every session once a second *)
(* and starts a check-in for a marked agent that is idle, gone, or without *)
(* a session, and the check-in types a prompt into the session.            *)
(***************************************************************************)
EXTENDS Integers, FiniteSets

CONSTANTS
  Agents,      \* the agents of the space
  Nudgers,     \* the goroutines that can run executeNudge
  AutoResume,  \* the agents whose backend restarts a missing session
  MaxMail      \* bound: messages delivered in a behaviour

ASSUME AgentsAssumption == IsFiniteSet(Agents)
ASSUME NudgersAssumption ==
  IsFiniteSet(Nudgers) /\ Cardinality(Nudgers) >= Cardinality(Agents)
ASSUME AutoResumeAssumption == AutoResume \subseteq Agents
ASSUME MaxMailAssumption == MaxMail \in Nat

VARIABLES
  session,   \* what the record names, and what its backend says of it
  mail,      \* messages delivered so far
  waking,    \* goroutines that have delivered and not yet marked, per agent
  pending,   \* nudgePending
  inFlight,  \* nudgeInFlight
  loop,      \* the tick of checkAllSessionLiveness
  job,       \* the nudges that run
  fresh      \* history: agents with a message newer than their last nudge

vars == <<session, mail, waking, pending, inFlight, loop, job, fresh>>

\* "none": SessionID is empty.  "gone": named, but the backend does not have it.
\* "away": its backend is unavailable or unknown.
Sessions == {"none", "gone", "away", "busy", "idle"}

Free == [phase |-> "free"]
Phases == {"started", "resolved", "typing", "waiting", "ended"}
Job == [phase : Phases, agent : Agents]
Quiet == [phase |-> "waiting", probes |-> {}, left |-> {}, ripe |-> {}]

TypeOK ==
  /\ session \in [Agents -> Sessions]
  /\ mail \in 0 .. MaxMail
  /\ waking \in [Agents -> Nat]
  /\ pending \subseteq Agents /\ inFlight \subseteq Agents /\ fresh \subseteq Agents
  /\ loop \in [phase : {"waiting", "probing", "acting"}, probes : SUBSET Agents,
               left : SUBSET Agents, ripe : SUBSET Agents]
  /\ job \in [Nudgers -> Job \cup {Free}]

Init ==
  /\ session \in [Agents -> {"none", "busy"}]
  /\ mail = 0 /\ waking = [a \in Agents |-> 0]
  /\ pending = {} /\ inFlight = {} /\ fresh = {}
  /\ loop = Quiet /\ job = [j \in Nudgers |-> Free]

-----------------------------------------------------------------------------
(* Messages. *)

\* The message is in the inbox and saved; a goroutine is started.  The notice of a
\* task comment and an internal message start none and leave no mark: they are no
\* message here.
Deliver(a) ==
  /\ mail < MaxMail
  /\ mail' = mail + 1
  /\ waking' = [waking EXCEPT ![a] = @ + 1]
  /\ fresh' = fresh \cup {a}
  /\ UNCHANGED <<session, pending, inFlight, loop, job>>

\* The goroutine broadcasts, hands the message to the webhook, and marks.
Mark(a) ==
  /\ waking[a] > 0
  /\ waking' = [waking EXCEPT ![a] = @ - 1]
  /\ pending' = pending \cup {a}
  /\ UNCHANGED <<session, mail, inFlight, loop, job, fresh>>

-----------------------------------------------------------------------------
(* The liveness loop. *)

\* RLock: the agents with a session.
Tick ==
  /\ loop.phase = "waiting"
  /\ LET named == {a \in Agents : session[a] # "none"}
     IN loop' = [phase |-> "probing", probes |-> named, left |-> named, ripe |-> {}]
  /\ UNCHANGED <<session, mail, waking, pending, inFlight, job, fresh>>

\* Without the lock: ask the backend.  A session the record dropped since the
\* snapshot is asked for all the same, and is gone.
Probe(a) ==
  /\ loop.phase = "probing" /\ a \in loop.left
  /\ loop' = [loop EXCEPT
       !.left = @ \ {a},
       !.ripe = IF session[a] \in {"idle", "gone", "none"} THEN @ \cup {a} ELSE @]
  /\ UNCHANGED <<session, mail, waking, pending, inFlight, job, fresh>>

Probed ==
  /\ loop.phase = "probing" /\ loop.left = {}
  /\ loop' = [loop EXCEPT !.phase = "acting"]
  /\ UNCHANGED <<session, mail, waking, pending, inFlight, job, fresh>>

CanNudgeMarked(a) ==    \* mutant: looks at the mark only
  a \in pending

CanNudge(a) == a \in pending /\ a \notin inFlight

\* Goroutines that are free for the agents of A, one each.
Starts(A) == {f \in [A -> {j \in Nudgers : job[j] = Free}] :
                \A a, b \in A : f[a] = f[b] => a = b}

\* The mark is taken before the check-in starts.
Fire(A) ==
  /\ Starts(A) # {}
  /\ inFlight' = inFlight \cup A
  /\ pending' = pending \ A
  /\ fresh' = fresh \ A
  /\ LET start == CHOOSE f \in Starts(A) : TRUE
     IN job' = [j \in Nudgers |->
          IF \E a \in A : start[a] = j
            THEN [phase |-> "started", agent |-> CHOOSE a \in A : start[a] = j]
            ELSE job[j]]

\* nudgeMu: one entry of the tick.
Act(a) ==
  /\ loop.phase = "acting" /\ a \in loop.ripe
  /\ loop' = [loop EXCEPT !.ripe = @ \ {a}]
  /\ Fire(IF CanNudge(a) THEN {a} ELSE {})
  /\ UNCHANGED <<session, mail, waking>>

\* nudgeMu: every marked agent that was not in the snapshot.
Sweep ==
  /\ loop.phase = "acting" /\ loop.ripe = {}
  /\ loop' = Quiet
  /\ Fire({a \in Agents \ loop.probes : CanNudge(a)})
  /\ UNCHANGED <<session, mail, waking>>

-----------------------------------------------------------------------------
(* executeNudge, a check-in of one agent. *)

Goes(j, phase) ==
  /\ job' = [job EXCEPT ![j].phase = phase]
  /\ UNCHANGED <<mail, waking, pending, inFlight, loop, fresh>>

ResolveKeepsFlag(j) ==    \* mutant: only the check-in that waited for its post clears the flag
  /\ job[j].phase = "started"
  /\ IF session[job[j].agent] \in {"none", "away"}
       THEN job' = [job EXCEPT ![j] = Free]
       ELSE job' = [job EXCEPT ![j].phase = "resolved"]
  /\ UNCHANGED <<session, mail, waking, pending, inFlight, loop, fresh>>

ResolveUnflags(j) ==    \* mutant: a failed check-in clears the flag, and again at its end
  /\ job[j].phase = "started"
  /\ IF session[job[j].agent] \in {"none", "away"}
       THEN /\ job' = [job EXCEPT ![j].phase = "ended"]
            /\ inFlight' = inFlight \ {job[j].agent}
       ELSE /\ job' = [job EXCEPT ![j].phase = "resolved"]
            /\ UNCHANGED inFlight
  /\ UNCHANGED <<session, mail, waking, pending, loop, fresh>>

\* RLock: no session, or no backend, is an error.
Resolve(j) ==
  /\ job[j].phase = "started"
  /\ Goes(j, IF session[job[j].agent] \in {"none", "away"} THEN "ended" ELSE "resolved")
  /\ UNCHANGED session

\* A missing session is restarted if its backend does that, which may fail.
Resume(a) ==
  IF session[a] = "gone" /\ a \in AutoResume
    THEN \E s \in Sessions \ {"away"} : session' = [session EXCEPT ![a] = s]
    ELSE UNCHANGED session

\* An agent whose session is missing or busy is skipped.
Look(j) ==
  /\ job[j].phase = "resolved"
  /\ Resume(job[j].agent)
  /\ Goes(j, IF session'[job[j].agent] = "idle" THEN "typing" ELSE "ended")

\* SendInput: the prompt makes an idle agent busy; a busy one finds it later.
Type(j) ==
  /\ job[j].phase = "typing"
  /\ IF session[job[j].agent] \in {"idle", "busy"}
       THEN /\ session' = [session EXCEPT ![job[j].agent] = "busy"]
            /\ Goes(j, "waiting")
       ELSE UNCHANGED session /\ Goes(j, "ended")

\* The agent posts, or boardPollTimeout passes.
Posted(j) == job[j].phase = "waiting" /\ Goes(j, "ended") /\ UNCHANGED session

EndUnmarks(j) ==    \* mutant: takes the mark off when the check-in is over
  /\ job[j].phase = "ended"
  /\ inFlight' = inFlight \ {job[j].agent}
  /\ pending' = pending \ {job[j].agent}
  /\ job' = [job EXCEPT ![j] = Free]
  /\ UNCHANGED <<session, mail, waking, loop, fresh>>

\* The deferred function of executeNudge; the mark is not set again when the
\* check-in was skipped or failed.
End(j) ==
  /\ job[j].phase = "ended"
  /\ inFlight' = inFlight \ {job[j].agent}
  /\ job' = [job EXCEPT ![j] = Free]
  /\ UNCHANGED <<session, mail, waking, pending, loop, fresh>>

CheckIn(j) == Resolve(j) \/ Look(j) \/ Type(j) \/ Posted(j) \/ End(j)

-----------------------------------------------------------------------------
\* An agent works and rests, also on prompts that the dashboard sends past
\* nudgeInFlight; its session ends, its backend comes and goes, a spawn or a
\* stop sets or clears the record.
Change(a) ==
  /\ \E s \in Sessions \ {session[a]} : session' = [session EXCEPT ![a] = s]
  /\ UNCHANGED <<mail, waking, pending, inFlight, loop, job, fresh>>

Loop == Tick \/ (\E a \in Agents : Probe(a)) \/ Probed \/ (\E a \in Agents : Act(a)) \/ Sweep

Next ==
  \/ \E a \in Agents : Deliver(a)
  \/ \E a \in Agents : Mark(a)
  \/ Loop
  \/ \E j \in Nudgers : CheckIn(j)
  \/ \E a \in Agents : Change(a)

Spec == Init /\ [][Next]_vars

\* Goroutines are scheduled, and every call they make returns or times out.
Fairness ==
  /\ WF_vars(Loop)
  /\ \A a \in Agents : WF_vars(Mark(a))
  /\ \A j \in Nudgers : WF_vars(CheckIn(j))

FairSpec == Spec /\ Fairness

-----------------------------------------------------------------------------
\* No agent has two nudges at work.
OneNudge ==
  \A j, k \in Nudgers :
    job[j] # Free /\ job[k] # Free /\ job[j].agent = job[k].agent => j = k

\* No wake-up is lost before a check-in starts: a message that came after the
\* last nudge began is still marked, or its goroutine will mark it.
NoLostWakeUp == \A a \in fresh : a \in pending \/ waking[a] > 0

\* Every nudge at work is in nudgeInFlight.
Flagged == \A j \in Nudgers : job[j] # Free => job[j].agent \in inFlight

\* The inductive invariant behind the two: from its start to its end, a check-in
\* keeps its agent in nudgeInFlight, where no other can remove it.
NudgeInv == TypeOK /\ Flagged /\ OneNudge /\ NoLostWakeUp

\* An agent that the loop finds idle or gone again and again, or that stays
\* without a session, gets a nudge for every message.
Nudged ==
  \A a \in Agents :
    []<>(a \in loop.ripe) \/ <>[](session[a] = "none")
      => (a \in fresh ~> a \notin fresh)

=============================================================================
