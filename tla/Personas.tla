------------------------------ MODULE Personas ------------------------------
(***************************************************************************)
(* One persona: its row and the versions kept in SQLite, the version an    *)
(* agent's config is pinned to, and the prompt its session was started     *)
(* with.  No request holds a lock from the row it reads to the row it      *)
(* writes, and pins, sessions and prompts change in steps of their own.    *)
(***************************************************************************)
EXTENDS Integers

CONSTANTS
  Staff,        \* the agents of all spaces
  Requests,     \* requests about the persona
  Prompts,      \* what a prompt can say
  MaxVersion,   \* bound: versions of the persona
  Overlap       \* whether a request edits while another one does

VARIABLES
  row,      \* the persona's row; version 0: there is none
  kept,     \* the rows of its history: <<version, prompt>>
  said,     \* history: the prompt each version has had last
  todo,     \* what each request has yet to do
  pin,      \* PinnedVersion in the config of an agent; NoRef: persona not assigned
  session,  \* of an agent, see Sessions
  ran,      \* history: the version in the text the session was given; 0: none
  repinned, \* history: the agents pinned anew while their session went on
  lost      \* history: the agents whose persona was deleted under them

store == <<row, kept, said>>
agentVars == <<pin, session, ran, repinned, lost>>
personaVars == <<store, todo, agentVars>>

Versions == 1 .. MaxVersion
NoRef == -1
NoRow(p) == [version |-> 0, prompt |-> p]

\* A restart kills, starts a session without a pin, and pins; a session is then
\* to be told who it is.
Sessions == {"none", "killed", "unpinned", "igniting", "up"}
HasSession == {"unpinned", "igniting", "up"}

Idle == [phase |-> "idle"]
Updating(v, p, q) == [phase |-> "updating", version |-> v, prompt |-> p, new |-> q]
Reverting(v, p, t) == [phase |-> "reverting", version |-> v, prompt |-> p, target |-> t]
Saving(v, q) == [phase |-> "saving", version |-> v, new |-> q]
Deleting == [phase |-> "deleting"]
Listing(v) == [phase |-> "listing", version |-> v]
Restarting(S) == [phase |-> "restarting", agents |-> S]
Killing(S, a) == [phase |-> "killing", agents |-> S, agent |-> a]

Todos ==
  {Idle, Deleting}
    \cup {Updating(v, p, q) : v \in Versions, p \in Prompts, q \in Prompts}
    \cup {Reverting(v, p, t) : v \in Versions, p \in Prompts, t \in Versions}
    \cup {Saving(v, q) : v \in Versions, q \in Prompts}
    \cup {Listing(v) : v \in Versions}
    \cup {Restarting(S) : S \in SUBSET Staff}
    \cup {Killing(S, a) : S \in SUBSET Staff, a \in Staff}

PersonasOK ==
  /\ row \in [version : 0 .. MaxVersion, prompt : Prompts]
  /\ kept \subseteq Versions \X Prompts /\ said \in [Versions -> Prompts]
  /\ todo \in [Requests -> Todos]
  /\ pin \in [Staff -> {NoRef} \cup 0 .. MaxVersion]
  /\ session \in [Staff -> Sessions] /\ ran \in [Staff -> 0 .. MaxVersion]
  /\ repinned \subseteq Staff /\ lost \subseteq Staff

PersonasInit ==
  /\ \E p \in Prompts : row = NoRow(p) /\ said = [v \in Versions |-> p]
  /\ kept = {} /\ todo = [r \in Requests |-> Idle]
  /\ pin = [a \in Staff |-> NoRef] /\ session = [a \in Staff |-> "none"]
  /\ ran = [a \in Staff |-> 0] /\ repinned = {} /\ lost = {}

-----------------------------------------------------------------------------
(* The persona.                                                            *)

Becomes(r, j) == todo' = [todo EXCEPT ![r] = j]

Editing(r) == todo[r].phase \in {"updating", "reverting", "saving", "deleting"}
MayEdit(r) == todo[r] = Idle /\ (Overlap \/ \A o \in Requests : ~Editing(o))

PutRow(v, p) ==
  /\ row' = [version |-> v, prompt |-> p]
  /\ said' = [said EXCEPT ![v] = p]

\* POST /personas; the key of the table stops a second one.
Create(r, p) ==
  /\ MayEdit(r) /\ row.version = 0
  /\ PutRow(1, p)
  /\ UNCHANGED <<kept, todo, agentVars>>

\* PUT /personas/{id}; an edit of the name keeps the prompt.
Update(r, q) ==
  /\ MayEdit(r) /\ row.version \in 1 .. MaxVersion - 1
  /\ Becomes(r, Updating(row.version, row.prompt, q))
  /\ UNCHANGED <<store, agentVars>>

Revert(r, t) ==
  /\ MayEdit(r) /\ row.version \in 1 .. MaxVersion - 1
  /\ Becomes(r, Reverting(row.version, row.prompt, t))
  /\ UNCHANGED <<store, agentVars>>

SnapshotNot(r) ==    \* mutant: the current prompt is not kept
  /\ todo[r].phase = "updating"
  /\ Becomes(r, Saving(todo[r].version + 1, todo[r].new))
  /\ UNCHANGED <<store, agentVars>>

Snapshot(r) ==
  /\ todo[r].phase = "updating"
  /\ kept' = kept \cup {<<todo[r].version, todo[r].prompt>>}
  /\ Becomes(r, Saving(todo[r].version + 1, todo[r].new))
  /\ UNCHANGED <<row, said, agentVars>>

\* The first row with the number wins; rows of one number can differ.
SnapshotTarget(r) ==
  /\ todo[r].phase = "reverting"
  /\ \E q \in Prompts :
       /\ <<todo[r].target, q>> \in kept
       /\ kept' = kept \cup {<<todo[r].version, todo[r].prompt>>}
       /\ Becomes(r, Saving(todo[r].version + 1, q))
  /\ UNCHANGED <<row, said, agentVars>>

\* The version is not in the history.
RevertUnknown(r) ==
  /\ todo[r].phase = "reverting" /\ \A q \in Prompts : <<todo[r].target, q>> \notin kept
  /\ Becomes(r, Idle)
  /\ UNCHANGED <<store, agentVars>>

\* SavePersona writes the row whether there is one or not.
Save(r) ==
  /\ todo[r].phase = "saving"
  /\ PutRow(todo[r].version, todo[r].new)
  /\ Becomes(r, Idle)
  /\ UNCHANGED <<kept, agentVars>>

\* The statement fails, or the server stops before it.
SaveFails(r) ==
  /\ todo[r].phase = "saving"
  /\ Becomes(r, Idle)
  /\ UNCHANGED <<store, agentVars>>

\* DELETE /personas/{id} looks for agents first.
Delete(r) ==
  /\ MayEdit(r) /\ \A a \in Staff : pin[a] = NoRef
  /\ Becomes(r, Deleting)
  /\ UNCHANGED <<store, agentVars>>

DropPersona(r) ==
  /\ todo[r].phase = "deleting"
  /\ row' = [row EXCEPT !.version = 0]
  /\ kept' = {}
  /\ lost' = lost \cup {a \in Staff : pin[a] # NoRef}
  /\ Becomes(r, Idle)
  /\ UNCHANGED <<said, pin, session, ran, repinned>>

-----------------------------------------------------------------------------
(* The agents.                                                             *)

\* resolvePersonaRefs pins the version of now: 0 for a persona that is not there.
Pinned(a) ==
  /\ pin' = [pin EXCEPT ![a] = row.version]
  /\ lost' = lost \ {a}

Kept(a) == repinned' = IF session[a] \in HasSession THEN repinned \cup {a} ELSE repinned

\* PATCH of the config, with the persona or without.
Assign(a) == Pinned(a) /\ Kept(a) /\ UNCHANGED <<store, todo, session, ran>>

Unassign(a) ==
  /\ pin' = [pin EXCEPT ![a] = NoRef]
  /\ lost' = lost \ {a}
  /\ UNCHANGED <<store, todo, session, ran, repinned>>

\* A spawn does not pin.
Spawn(a) ==
  /\ session[a] = "none"
  /\ session' = [session EXCEPT ![a] = "igniting"]
  /\ ran' = [ran EXCEPT ![a] = 0]
  /\ repinned' = repinned \ {a}
  /\ UNCHANGED <<store, todo, pin, lost>>

RestartKill(a) ==
  /\ session[a] \in {"none", "up"}
  /\ session' = [session EXCEPT ![a] = "killed"]
  /\ ran' = [ran EXCEPT ![a] = 0]
  /\ UNCHANGED <<store, todo, pin, repinned, lost>>

RestartLaunchTold(a) ==    \* mutant: the text goes with the command, before the new pin
  /\ session[a] = "killed"
  /\ session' = [session EXCEPT ![a] = "unpinned"]
  /\ ran' = [ran EXCEPT ![a] = IF pin[a] = NoRef THEN 0 ELSE row.version]
  /\ repinned' = repinned \ {a}
  /\ UNCHANGED <<store, todo, pin, lost>>

RestartLaunch(a) ==
  /\ session[a] = "killed"
  /\ session' = [session EXCEPT ![a] = "unpinned"]
  /\ repinned' = repinned \ {a}
  /\ UNCHANGED <<store, todo, pin, ran, lost>>

RestartRecord(a) ==
  /\ session[a] = "unpinned"
  /\ IF pin[a] = NoRef THEN UNCHANGED <<pin, lost>> ELSE Pinned(a)
  /\ session' = [session EXCEPT ![a] = "igniting"]
  /\ UNCHANGED <<store, todo, ran, repinned>>

\* The text of the session holds the prompt of the moment, not of the pin;
\* GET /ignition hands out the same to an agent that asks.
Ignite(a) ==
  /\ session[a] \in {"igniting", "up"}
  /\ ran' = [ran EXCEPT ![a] = IF pin[a] = NoRef THEN 0 ELSE row.version]
  /\ session' = [session EXCEPT ![a] = "up"]
  /\ repinned' = repinned \ {a}
  /\ UNCHANGED <<store, todo, pin, lost>>

IgniteFails(a) ==
  /\ session[a] = "igniting"
  /\ session' = [session EXCEPT ![a] = "up"]
  /\ UNCHANGED <<store, todo, pin, ran, repinned, lost>>

SessionEnds(a) ==
  /\ session[a] = "up"
  /\ session' = [session EXCEPT ![a] = "none"]
  /\ ran' = [ran EXCEPT ![a] = 0]
  /\ UNCHANGED <<store, todo, pin, repinned, lost>>

-----------------------------------------------------------------------------
(* POST /personas/{id}/restart-outdated.                                   *)

RestartOutdated(r) ==
  /\ todo[r] = Idle /\ row.version > 0
  /\ Becomes(r, Listing(row.version))
  /\ UNCHANGED <<store, agentVars>>

\* Those without a session are reported, and left alone.
FindOutdated(r) ==
  /\ todo[r].phase = "listing"
  /\ Becomes(r, Restarting({a \in Staff : /\ pin[a] \in 0 .. todo[r].version - 1
                                          /\ session[a] \in HasSession}))
  /\ UNCHANGED <<store, agentVars>>

\* The new pin comes before the kill.
Repin(r, a) ==
  /\ todo[r].phase = "restarting" /\ a \in todo[r].agents
  /\ IF pin[a] = NoRef THEN UNCHANGED <<pin, lost, repinned>> ELSE Pinned(a) /\ Kept(a)
  /\ Becomes(r, Killing(todo[r].agents \ {a}, a))
  /\ UNCHANGED <<store, session, ran>>

\* KillSession ends the session that was listed, or fails; nothing starts another.
Kill(r) ==
  /\ todo[r].phase = "killing"
  /\ \/ UNCHANGED <<session, ran>>
     \/ /\ session[todo[r].agent] \in HasSession
        /\ session' = [session EXCEPT ![todo[r].agent] = "none"]
        /\ ran' = [ran EXCEPT ![todo[r].agent] = 0]
  /\ Becomes(r, Restarting(todo[r].agents))
  /\ UNCHANGED <<store, pin, repinned, lost>>

RestartDone(r) ==
  /\ todo[r] = Restarting({})
  /\ Becomes(r, Idle)
  /\ UNCHANGED <<store, agentVars>>

-----------------------------------------------------------------------------
Edit(r) ==
  \/ \E p \in Prompts : Create(r, p) \/ Update(r, p)
  \/ \E t \in Versions : Revert(r, t)
  \/ Snapshot(r) \/ SnapshotTarget(r) \/ RevertUnknown(r) \/ Save(r) \/ SaveFails(r)
  \/ Delete(r) \/ DropPersona(r)

Rollout(r) ==
  \/ RestartOutdated(r) \/ FindOutdated(r) \/ Kill(r) \/ RestartDone(r)
  \/ \E a \in Staff : Repin(r, a)

AgentStep(a) ==
  \/ Assign(a) \/ Unassign(a) \/ Spawn(a) \/ Ignite(a) \/ IgniteFails(a) \/ SessionEnds(a)
  \/ RestartKill(a) \/ RestartLaunch(a) \/ RestartRecord(a)

PersonasNext == (\E r \in Requests : Edit(r) \/ Rollout(r)) \/ \E a \in Staff : AgentStep(a)

PersonasSpec == PersonasInit /\ [][PersonasNext]_personaVars

-----------------------------------------------------------------------------
(* Properties.                                                             *)

\* Every version below the current one can be read and reverted to, once, with
\* the prompt it had, whichever edits failed half-way; edits do not overlap.
HistoryKept ==
  row.version > 0 =>
    \A v \in 1 .. row.version - 1 : {e \in kept : e[1] = v} = {<<v, said[v]>>}

\* An agent whose session was given an older version is shown as outdated, so
\* that a restart of the outdated reaches it; unless it was pinned anew while
\* the session went on, by PATCH or a restart whose kill failed, or has lost
\* the persona to a deletion.
OutdatedShown ==
  \A a \in Staff \ (repinned \cup lost) :
    (pin[a] # NoRef /\ ran[a] \in 1 .. row.version - 1) => pin[a] < row.version

\* One editor or deletion at a time, and what it read is what is there.
OneEdits == \A r, o \in Requests : Editing(r) /\ Editing(o) => r = o

EditsCurrent ==
  \A r \in Requests :
    /\ todo[r].phase \in {"updating", "reverting"} =>
         /\ row = [version |-> todo[r].version, prompt |-> todo[r].prompt]
         /\ row.version \in 1 .. MaxVersion - 1
    /\ todo[r].phase = "saving" =>
         /\ row.version > 0 /\ todo[r].version = row.version + 1
         /\ <<row.version, row.prompt>> \in kept

KeptAsSaid ==
  /\ row.version = 0 => kept = {}
  /\ row.version > 0 => said[row.version] = row.prompt
  /\ \A e \in kept : e[1] <= row.version /\ said[e[1]] = e[2]
  /\ \A v \in 1 .. row.version - 1 : <<v, said[v]>> \in kept

\* Nobody is pinned to a version that is still to come, nor ahead of the text
\* it was given.
PinsBehind ==
  \A a \in Staff :
    /\ session[a] \notin {"igniting", "up"} => ran[a] = 0
    /\ pin[a] # NoRef /\ a \notin lost => pin[a] <= row.version
    /\ pin[a] # NoRef /\ ran[a] > 0 /\ a \notin repinned \cup lost => pin[a] <= ran[a]

\* The inductive invariant behind them.
PersonasInv == PersonasOK /\ OneEdits /\ EditsCurrent /\ KeptAsSaid /\ PinsBehind
=============================================================================
