----------------------------- MODULE Approvals -----------------------------
(***************************************************************************)
(* The interrupt ledger and the approval tracking of the liveness loop.    *)
(* The loop asks the backend of every named session whether it waits for   *)
(* an approval, and acts on the answers after it has them all: a first     *)
(* sighting is recorded and tracked, the end of one is recorded as a row   *)
(* of its own.  Meanwhile people approve, answer interrupts and remove     *)
(* agents, and the server restarts.  Decisions are rows of the same ledger *)
(* that nothing tracks; they are left out.                                 *)
(***************************************************************************)
EXTENDS Integers, Sequences, FiniteSets

CONSTANTS
  Watched,    \* the agents of the space
  Answerers,  \* the requests at work that approve or answer
  MaxWaits,   \* bound: approvals that an agent asks for
  MaxRows,    \* bound: rows before the last approval, answer or outage
  MaxRuns     \* bound: runs of the server

VARIABLES
  screen,     \* the session that the record names, and what it shows
  link,       \* whether the backend finds and reads the session
  wait,       \* how many approvals the agent has asked for
  scan,       \* the tick of checkAllSessionLiveness
  since,      \* approvalTracked: the wait it was set for, 0 when there is no entry
  rows,       \* the interrupt rows, in the order of their IDs
  answer,     \* the requests at work
  run,        \* the run of the server
  calm,       \* history: the last wait that was over when the loop saw no prompt
  dropped     \* history: waits whose entry was dropped before the loop saw their end

approvalVars == <<screen, link, wait, scan, since, rows, answer, run, calm, dropped>>

\* "none": no session is named.  "gone": the backend does not have it.
Screens == {"none", "gone", "quiet", "asking"}

\* "away": the backend is unavailable.  "blind": it is available, and listing
\* the sessions or capturing the screen fails.
Links == {"up", "blind", "away"}

Nobody == "nobody"
NoCall == [phase |-> "idle"]
Waiting == [left |-> {}, found |-> {}, noted |-> {}]

ApprovalsInit ==
  /\ link = [a \in Watched |-> "up"]
  /\ screen \in [Watched -> {"none", "quiet"}]
  /\ wait = [a \in Watched |-> 0] /\ scan = Waiting /\ since = [a \in Watched |-> 0]
  /\ rows = <<>> /\ answer = [h \in Answerers |-> NoCall] /\ run = 1
  /\ calm = [a \in Watched |-> 0] /\ dropped = {}

\* Record and RecordResolved: a new row each.
AddRow(a, w, by) == rows' = Append(rows, [agent |-> a, wait |-> w, by |-> by])

-----------------------------------------------------------------------------
(* The liveness loop. *)

\* RLock: the agents with a session.
ScanBegin ==
  /\ scan = Waiting
  /\ scan' = [scan EXCEPT !.left = {a \in Watched : screen[a] # "none"}]
  /\ UNCHANGED <<screen, link, wait, since, rows, answer, run, calm, dropped>>

\* What the loop keeps of an agent: the wait it asks for, or the last one over.
Sighting(a, asks) ==
  [agent |-> a, asks |-> asks, failed |-> link[a] = "blind",
   wait |-> IF screen[a] = "asking" /\ ~asks THEN wait[a] - 1 ELSE wait[a]]

SawAway(a) ==    \* mutant: an unavailable backend counts as a session without a prompt
  {Sighting(a, screen[a] = "asking" /\ link[a] = "up")}

\* An unavailable backend says nothing of the agent; a lookup that fails is
\* taken for a session without a prompt.
Saw(a) ==
  IF link[a] = "away" THEN {}
    ELSE {Sighting(a, screen[a] = "asking" /\ link[a] = "up")}

\* Without the lock, one agent after the other.
Inspect(a) ==
  /\ a \in scan.left
  /\ scan' = [scan EXCEPT !.left = @ \ {a}, !.found = @ \cup Saw(a)]
  /\ UNCHANGED <<screen, link, wait, since, rows, answer, run, calm, dropped>>

\* The answers are looked at when all are there, one after the other.
Entry(e) == scan.left = {} /\ scan.noted = {} /\ e \in scan.found

\* A prompt that is not tracked is written to the ledger ...
Note(e) ==
  /\ Entry(e) /\ e.asks /\ since[e.agent] = 0
  /\ AddRow(e.agent, e.wait, Nobody)
  /\ scan' = [scan EXCEPT !.found = @ \ {e}, !.noted = {e}]
  /\ UNCHANGED <<screen, link, wait, since, answer, run, calm, dropped>>

\* ... and then tracked.
Track(e) ==
  /\ e \in scan.noted
  /\ since' = [since EXCEPT ![e.agent] = e.wait]
  /\ scan' = [scan EXCEPT !.noted = {}]
  /\ UNCHANGED <<screen, link, wait, rows, answer, run, calm, dropped>>

ClearKeeps(e) ==    \* mutant: the end is written and the entry stays
  /\ Entry(e) /\ ~e.asks
  /\ calm' = [calm EXCEPT ![e.agent] = e.wait]
  /\ IF since[e.agent] > 0 THEN AddRow(e.agent, 0, "auto") ELSE UNCHANGED rows
  /\ scan' = [scan EXCEPT !.found = @ \ {e}]
  /\ UNCHANGED <<screen, link, wait, since, answer, run, dropped>>

\* The end of a wait is a row of its own; the row of its start stays pending.
\* A failed lookup ends a wait that is not over.
Clear(e) ==
  /\ Entry(e) /\ ~e.asks
  /\ calm' = [calm EXCEPT ![e.agent] = e.wait]
  /\ since' = [since EXCEPT ![e.agent] = 0]
  /\ dropped' = IF e.failed /\ since[e.agent] > e.wait
                  THEN dropped \cup {<<e.agent, since[e.agent]>>} ELSE dropped
  /\ IF since[e.agent] > 0 THEN AddRow(e.agent, 0, "auto") ELSE UNCHANGED rows
  /\ scan' = [scan EXCEPT !.found = @ \ {e}]
  /\ UNCHANGED <<screen, link, wait, answer, run>>

\* A prompt that is tracked.
Pass(e) ==
  /\ Entry(e) /\ e.asks /\ since[e.agent] > 0
  /\ scan' = [scan EXCEPT !.found = @ \ {e}]
  /\ UNCHANGED <<screen, link, wait, since, rows, answer, run, calm, dropped>>

Scan ==
  \/ ScanBegin
  \/ \E a \in Watched : Inspect(a)
  \/ \E e \in scan.found : Note(e) \/ Clear(e) \/ Pass(e)
  \/ \E e \in scan.noted : Track(e)

-----------------------------------------------------------------------------
(* Requests. *)

\* What takes entries of A out of approvalTracked besides the loop.
Drop(A) ==
  /\ since' = [a \in Watched |-> IF a \in A THEN 0 ELSE since[a]]
  /\ dropped' = dropped \cup {<<a, since[a]>> : a \in A}

\* handleApproveAgent presses the key, whatever the screen shows ...
Approve(h, a) ==
  /\ Len(rows) < MaxRows
  /\ answer[h] = NoCall /\ screen[a] \in {"quiet", "asking"} /\ link[a] # "away"
  /\ answer' = [answer EXCEPT ![h] = [phase |-> "pressed", agent |-> a]]
  /\ \E s \in {"quiet", screen[a]} : screen' = [screen EXCEPT ![a] = s]
  /\ UNCHANGED <<link, wait, scan, since, rows, run, calm, dropped>>

\* ... and then drops the entry and writes a row of its own.
Approved(h) ==
  /\ answer[h].phase = "pressed"
  /\ Drop({answer[h].agent})
  /\ AddRow(answer[h].agent, 0, "human")
  /\ answer' = [answer EXCEPT ![h] = NoCall]
  /\ UNCHANGED <<screen, link, wait, scan, run, calm>>

\* ResolveInterrupt reads the row; one that is resolved is an error.
ReadRow(h, i) ==
  /\ Len(rows) < MaxRows
  /\ answer[h] = NoCall /\ i \in DOMAIN rows /\ rows[i].by = Nobody
  /\ answer' = [answer EXCEPT ![h] = [phase |-> "read", row |-> i]]
  /\ UNCHANGED <<screen, link, wait, scan, since, rows, run, calm, dropped>>

\* Then it updates the row, whatever was written in between.
ResolveRow(h) ==
  /\ answer[h].phase = "read"
  /\ rows' = [rows EXCEPT ![answer[h].row].by = "human"]
  /\ answer' = [answer EXCEPT ![h] = NoCall]
  /\ UNCHANGED <<screen, link, wait, scan, since, run, calm, dropped>>

\* DELETE of the agent.
RemoveAgent(a) ==
  /\ Drop({a})
  /\ screen' = [screen EXCEPT ![a] = "none"]
  /\ UNCHANGED <<link, wait, scan, rows, answer, run, calm>>

\* The rows are all that a restart finds.
RestartServer ==
  /\ run < MaxRuns
  /\ run' = run + 1
  /\ since' = [a \in Watched |-> 0]
  /\ dropped' = dropped \cup {<<a, since[a]>> : a \in Watched}
                        \cup {<<e.agent, e.wait>> : e \in scan.noted}
  /\ scan' = Waiting /\ answer' = [h \in Answerers |-> NoCall]
  /\ UNCHANGED <<screen, link, wait, rows, calm>>

-----------------------------------------------------------------------------
\* An agent shows a prompt.
Ask(a) ==
  /\ screen[a] = "quiet" /\ wait[a] < MaxWaits
  /\ screen' = [screen EXCEPT ![a] = "asking"]
  /\ wait' = [wait EXCEPT ![a] = @ + 1]
  /\ UNCHANGED <<link, scan, since, rows, answer, run, calm, dropped>>

\* A prompt is answered in the terminal; sessions start and end.
ChangeScreen(a) ==
  /\ \E s \in Screens \ {screen[a], "asking"} : screen' = [screen EXCEPT ![a] = s]
  /\ UNCHANGED <<link, wait, scan, since, rows, answer, run, calm, dropped>>

\* A backend becomes unavailable, its lookups fail, or it works again.
Flap(a) ==
  /\ \E l \in Links \ {link[a]} :
       /\ l # "up" => Len(rows) < MaxRows
       /\ link' = [link EXCEPT ![a] = l]
  /\ UNCHANGED <<screen, wait, scan, since, rows, answer, run, calm, dropped>>

ApprovalsNext ==
  \/ Scan \/ RestartServer
  \/ \E a \in Watched : RemoveAgent(a) \/ Ask(a) \/ ChangeScreen(a) \/ Flap(a)
  \/ \E h \in Answerers : Approved(h) \/ ResolveRow(h) \/ (\E a \in Watched : Approve(h, a))
  \/ \E h \in Answerers, i \in DOMAIN rows : ReadRow(h, i)

ApprovalsSpec == ApprovalsInit /\ [][ApprovalsNext]_approvalVars

-----------------------------------------------------------------------------
\* A wait is recorded once, however often and however late the loop sees it,
\* unless an approval, a removal, a restart or a lookup that failed while the
\* agent was still waiting dropped its entry in between.
OneRowPerWait ==
  \A i, j \in DOMAIN rows :
    /\ i < j /\ rows[i].agent = rows[j].agent
    /\ rows[i].wait = rows[j].wait /\ rows[i].wait > 0
    => <<rows[i].agent, rows[i].wait>> \in dropped

\* An agent that keeps asking, on a backend that finds and reads it, has, in the end,
\* a row that is newer than the last time the loop saw it without a prompt: the
\* operator learns of it.
Listed ==
  \A a \in Watched :
    <>[](screen[a] = "asking" /\ link[a] = "up")
      => <>[](\E i \in DOMAIN rows : rows[i].agent = a /\ rows[i].wait > calm[a])

=============================================================================
