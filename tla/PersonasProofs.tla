--------------------------- MODULE PersonasProofs ---------------------------
(* Proofs about what an agent's session was started with.  One persona     *)
(* whose edits do not overlap: its history is complete, and agents that    *)
(* run an old version are shown as outdated.  The token: a session's own   *)
(* is accepted until it has lost it.                                       *)
EXTENDS Personas, Tokens, TLAPS

-----------------------------------------------------------------------------
(* Typing, in the parts that actions change together. *)

StoreOK ==
  /\ row \in [version : 0 .. MaxVersion, prompt : Prompts]
  /\ kept \subseteq Versions \X Prompts /\ said \in [Versions -> Prompts]

TodoOK == todo \in [Requests -> Todos]

AgentsOK ==
  /\ pin \in [Staff -> {NoRef} \cup 0 .. MaxVersion]
  /\ session \in [Staff -> Sessions] /\ ran \in [Staff -> 0 .. MaxVersion]
  /\ repinned \subseteq Staff /\ lost \subseteq Staff

LEMMA TypeParts == PersonasOK <=> StoreOK /\ TodoOK /\ AgentsOK
  BY DEF PersonasOK, StoreOK, TodoOK, AgentsOK

\* What the state says of the edits at work.
EditsInv == OneEdits /\ EditsCurrent

LEMMA InvParts ==
  PersonasInv <=> StoreOK /\ TodoOK /\ AgentsOK /\ EditsInv /\ KeptAsSaid /\ PinsBehind
  BY TypeParts DEF PersonasInv, EditsInv

LEMMA TodoTypes ==
  /\ Idle \in Todos /\ Deleting \in Todos
  /\ \A v \in Versions, p \in Prompts, q \in Prompts : Updating(v, p, q) \in Todos
  /\ \A v \in Versions, p \in Prompts, t \in Versions : Reverting(v, p, t) \in Todos
  /\ \A v \in Versions, q \in Prompts : Saving(v, q) \in Todos
  /\ \A v \in Versions : Listing(v) \in Todos
  /\ \A S \in SUBSET Staff : Restarting(S) \in Todos
  /\ \A S \in SUBSET Staff : \A a \in Staff : Killing(S, a) \in Todos
  BY DEF Todos

\* What a request is at tells what it remembers.
LEMMA TodoShapes ==
  ASSUME NEW j \in Todos
  PROVE  /\ j.phase = "updating" => j.version \in Versions /\ j.prompt \in Prompts /\ j.new \in Prompts
         /\ j.phase = "reverting" => j.version \in Versions /\ j.prompt \in Prompts /\ j.target \in Versions
         /\ j.phase = "saving" => j.version \in Versions /\ j.new \in Prompts
         /\ j.phase = "restarting" => j.agents \subseteq Staff
         /\ j.phase = "killing" => j.agents \subseteq Staff /\ j.agent \in Staff
  <1>1. CASE j \in {Idle, Deleting}  BY <1>1 DEF Idle, Deleting
  <1>2. CASE j \in {Updating(v, p, q) : v \in Versions, p \in Prompts, q \in Prompts}
    BY <1>2 DEF Updating
  <1>3. CASE j \in {Reverting(v, p, t) : v \in Versions, p \in Prompts, t \in Versions}
    BY <1>3 DEF Reverting
  <1>4. CASE j \in {Saving(v, q) : v \in Versions, q \in Prompts}  BY <1>4 DEF Saving
  <1>5. CASE j \in {Listing(v) : v \in Versions}  BY <1>5 DEF Listing
  <1>6. CASE j \in {Restarting(S) : S \in SUBSET Staff}  BY <1>6 DEF Restarting
  <1>7. CASE j \in {Killing(S, a) : S \in SUBSET Staff, a \in Staff}  BY <1>7 DEF Killing
  <1> QED BY <1>1, <1>2, <1>3, <1>4, <1>5, <1>6, <1>7 DEF Todos

-----------------------------------------------------------------------------
(* The agents. *)

LEMMA AgentsKeep ==
  ASSUME StoreOK, AgentsOK, PinsBehind, NEW a \in Staff, AgentStep(a), MaxVersion \in Nat
  PROVE  AgentsOK' /\ PinsBehind' /\ UNCHANGED <<store, todo>>
  <1> USE DEF StoreOK, AgentsOK, PinsBehind, NoRef, Sessions, HasSession, store
  <1>1. CASE Assign(a)  BY <1>1 DEF Assign, Pinned, Kept
  <1>2. CASE Unassign(a)  BY <1>2 DEF Unassign
  <1>3. CASE Spawn(a)  BY <1>3 DEF Spawn
  <1>4. CASE Ignite(a)  BY <1>4 DEF Ignite
  <1>5. CASE IgniteFails(a)  BY <1>5 DEF IgniteFails
  <1>6. CASE SessionEnds(a)  BY <1>6 DEF SessionEnds
  <1>7. CASE RestartKill(a)  BY <1>7 DEF RestartKill
  <1>8. CASE RestartLaunch(a)  BY <1>8 DEF RestartLaunch
  <1>9. CASE RestartRecord(a)  BY <1>9 DEF RestartRecord, Pinned
  <1> QED BY <1>1, <1>2, <1>3, <1>4, <1>5, <1>6, <1>7, <1>8, <1>9 DEF AgentStep

-----------------------------------------------------------------------------
(* restart-outdated. *)

\* A request that edits nothing takes up something that edits nothing.
LEMMA NobodyEdits ==
  ASSUME EditsInv, TodoOK, UNCHANGED store, NEW r \in Requests, ~Editing(r),
         NEW j \in Todos, Becomes(r, j),
         j.phase \notin {"updating", "reverting", "saving", "deleting"}
  PROVE  EditsInv' /\ TodoOK'
  <1>1. /\ todo'[r] = j
        /\ \A o \in Requests \ {r} : todo'[o] = todo[o]
        /\ TodoOK'
    BY DEF TodoOK, Becomes
  <1>2. OneEdits'  BY <1>1 DEF EditsInv, OneEdits, Editing
  <1>3. EditsCurrent'  BY <1>1 DEF EditsInv, EditsCurrent, store
  <1> QED BY <1>1, <1>2, <1>3 DEF EditsInv

LEMMA RolloutKeeps ==
  ASSUME PersonasInv, NEW r \in Requests, Rollout(r), MaxVersion \in Nat
  PROVE  PersonasInv'
  <1>0. StoreOK /\ TodoOK /\ AgentsOK /\ EditsInv /\ KeptAsSaid /\ PinsBehind
    BY InvParts
  <1>1. todo[r] \in Todos  BY <1>0 DEF TodoOK
  <1>2. UNCHANGED store
    BY DEF Rollout, RestartOutdated, FindOutdated, Kill, RestartDone, Repin
  <1>3. StoreOK' /\ KeptAsSaid'  BY <1>0, <1>2 DEF StoreOK, KeptAsSaid, store
  <1>4. ASSUME NEW j \in Todos, Becomes(r, j),
               j.phase \in {"idle", "listing", "restarting", "killing"},
               todo[r].phase \in {"idle", "listing", "restarting", "killing"},
               AgentsOK', PinsBehind'
        PROVE  PersonasInv'
    <2>1. ~Editing(r)  BY <1>4 DEF Editing
    <2>2. EditsInv' /\ TodoOK'  BY <1>0, <1>2, <1>4, <2>1, NobodyEdits
    <2> QED BY <1>3, <1>4, <2>2 DEF PersonasInv, PersonasOK, StoreOK, TodoOK, AgentsOK, EditsInv
  <1>5. ASSUME UNCHANGED agentVars PROVE AgentsOK' /\ PinsBehind'
    BY <1>0, <1>2, <1>5 DEF AgentsOK, PinsBehind, agentVars, store
  <1>6. CASE RestartOutdated(r)
    <2>1. row.version \in Versions  BY <1>0, <1>6 DEF RestartOutdated, StoreOK, Versions
    <2>2. Listing(row.version) \in Todos /\ Listing(row.version).phase = "listing"
      BY <2>1, TodoTypes DEF Listing
    <2> QED BY <1>4, <1>5, <1>6, <2>2 DEF RestartOutdated, Idle
  <1>7. CASE FindOutdated(r)
    <2> DEFINE S == {a \in Staff : pin[a] \in 0 .. todo[r].version - 1 /\ session[a] \in HasSession}
    <2>1. Restarting(S) \in Todos /\ Restarting(S).phase = "restarting"
      BY TodoTypes DEF Restarting
    <2> QED BY <1>4, <1>5, <1>7, <2>1 DEF FindOutdated
  <1>8. CASE Kill(r)
    <2>1. todo[r].agents \subseteq Staff /\ todo[r].agent \in Staff
      BY <1>1, <1>8, TodoShapes DEF Kill
    <2>2. Restarting(todo[r].agents) \in Todos
      BY <2>1, TodoTypes
    <2>3. Restarting(todo[r].agents).phase = "restarting"  BY DEF Restarting
    <2>4. AgentsOK' /\ PinsBehind'
      BY <1>0, <1>2, <1>8, <2>1 DEF AgentsOK, PinsBehind, Kill, store, Sessions, HasSession
    <2> QED BY <1>4, <1>8, <2>2, <2>3, <2>4 DEF Kill
  <1>9. CASE RestartDone(r)
    <2>1. todo[r].phase = "restarting"  BY <1>9 DEF RestartDone, Restarting
    <2> QED BY <1>4, <1>5, <1>9, <2>1, TodoTypes DEF RestartDone, Idle
  <1>10. CASE \E a \in Staff : Repin(r, a)
    <2> PICK a \in Staff : Repin(r, a)  BY <1>10
    <2>1. todo[r].agents \subseteq Staff
      BY <1>1, TodoShapes DEF Repin
    <2>2. Killing(todo[r].agents \ {a}, a) \in Todos
      BY <2>1, TodoTypes
    <2>3. Killing(todo[r].agents \ {a}, a).phase = "killing"  BY DEF Killing
    <2>4. AgentsOK' /\ PinsBehind'
      BY <1>0, <1>2 DEF AgentsOK, PinsBehind, Repin, Pinned, Kept, store, StoreOK, NoRef, Sessions, HasSession
    <2> QED BY <1>4, <2>2, <2>3, <2>4 DEF Repin
  <1> QED BY <1>6, <1>7, <1>8, <1>9, <1>10 DEF Rollout

-----------------------------------------------------------------------------
(* Edits. *)

\* The request that edits is the only one, so the others are at nothing that
\* the row matters to.
LEMMA OthersIdle ==
  ASSUME PersonasInv, NEW r \in Requests, Editing(r)
  PROVE  \A o \in Requests \ {r} : ~Editing(o)
  BY DEF PersonasInv, OneEdits

LEMMA FreeToEdit ==
  ASSUME Overlap = FALSE, NEW r \in Requests, MayEdit(r)
  PROVE  \A o \in Requests : ~Editing(o)
  BY DEF MayEdit

\* When only r can be at an edit, the invariants are about r.
LEMMA OnlyEditor ==
  ASSUME TodoOK, NEW r \in Requests, \A o \in Requests \ {r} : ~Editing(o),
         NEW j \in Todos, Becomes(r, j),
         j.phase \in {"updating", "reverting"} =>
           /\ row' = [version |-> j.version, prompt |-> j.prompt]
           /\ row'.version \in 1 .. MaxVersion - 1,
         j.phase = "saving" =>
           /\ row'.version > 0 /\ j.version = row'.version + 1
           /\ <<row'.version, row'.prompt>> \in kept'
  PROVE  TodoOK' /\ EditsInv'
  <1>1. /\ todo'[r] = j
        /\ \A o \in Requests \ {r} : todo'[o] = todo[o]
        /\ TodoOK'
    BY DEF TodoOK, Becomes
  <1>2. OneEdits'  BY <1>1 DEF OneEdits, Editing
  <1>3. EditsCurrent'  BY <1>1 DEF EditsCurrent, Editing
  <1> QED BY <1>1, <1>2, <1>3 DEF EditsInv

LEMMA EditKeeps ==
  ASSUME PersonasInv, NEW r \in Requests, Edit(r), MaxVersion \in Nat \ {0}, Overlap = FALSE
  PROVE  PersonasInv'
  <1>0. StoreOK /\ TodoOK /\ AgentsOK /\ EditsInv /\ KeptAsSaid /\ PinsBehind
    BY InvParts
  <1>1. todo[r] \in Todos  BY <1>0 DEF TodoOK
  <1>2. ASSUME StoreOK', TodoOK', AgentsOK', EditsInv', KeptAsSaid', PinsBehind'
        PROVE  PersonasInv'
    BY <1>2 DEF PersonasInv, PersonasOK, StoreOK, TodoOK, AgentsOK, EditsInv
  <1>3. ASSUME UNCHANGED agentVars, row'.version \in Int, row'.version >= row.version
        PROVE  AgentsOK' /\ PinsBehind'
    BY <1>0, <1>3 DEF AgentsOK, PinsBehind, agentVars, StoreOK, NoRef
  <1>4. ASSUME UNCHANGED store, UNCHANGED agentVars
        PROVE  StoreOK' /\ KeptAsSaid' /\ AgentsOK' /\ PinsBehind'
    BY <1>0, <1>4 DEF AgentsOK, PinsBehind, agentVars, StoreOK, KeptAsSaid, store
  <1>5. CASE \E p \in Prompts : Create(r, p)
    <2> PICK p \in Prompts : Create(r, p)  BY <1>5
    <2>1. \A o \in Requests : ~Editing(o)  BY FreeToEdit DEF Create
    <2>2. TodoOK' /\ EditsInv'
      BY <1>0, <2>1 DEF TodoOK, EditsInv, OneEdits, EditsCurrent, Editing, Create
    <2>3. StoreOK' /\ KeptAsSaid'
      BY <1>0 DEF StoreOK, KeptAsSaid, Create, PutRow, Versions
    <2>4. AgentsOK' /\ PinsBehind'  BY <1>0, <1>3 DEF Create, PutRow, StoreOK
    <2> QED BY <1>2, <2>2, <2>3, <2>4
  <1>6. CASE \E q \in Prompts : Update(r, q)
    <2> PICK q \in Prompts : Update(r, q)  BY <1>6
    <2>1. \A o \in Requests : ~Editing(o)  BY FreeToEdit DEF Update
    <2> DEFINE j == Updating(row.version, row.prompt, q)
    <2>2. row.version \in Versions /\ row.prompt \in Prompts /\ row = [version |-> row.version, prompt |-> row.prompt]
      BY <1>0 DEF StoreOK, Update, Versions
    <2>3. j \in Todos  BY <2>2, TodoTypes
    <2>4. j.phase = "updating" /\ j.version = row.version /\ j.prompt = row.prompt
      BY DEF Updating
    <2>5. UNCHANGED store /\ UNCHANGED agentVars /\ Becomes(r, j) /\ row.version \in 1 .. MaxVersion - 1
      BY DEF Update
    <2> HIDE DEF j
    <2>6. row' = [version |-> j.version, prompt |-> j.prompt] /\ row'.version \in 1 .. MaxVersion - 1
      BY <2>2, <2>4, <2>5 DEF store
    <2>7. TodoOK' /\ EditsInv'  BY <1>0, <2>1, <2>3, <2>4, <2>5, <2>6, OnlyEditor
    <2> QED BY <1>2, <1>4, <2>5, <2>7
  <1>7. CASE \E t \in Versions : Revert(r, t)
    <2> PICK t \in Versions : Revert(r, t)  BY <1>7
    <2>1. \A o \in Requests : ~Editing(o)  BY FreeToEdit DEF Revert
    <2> DEFINE j == Reverting(row.version, row.prompt, t)
    <2>2. row.version \in Versions /\ row.prompt \in Prompts /\ row = [version |-> row.version, prompt |-> row.prompt]
      BY <1>0 DEF StoreOK, Revert, Versions
    <2>3. j \in Todos  BY <2>2, TodoTypes
    <2>4. j.phase = "reverting" /\ j.version = row.version /\ j.prompt = row.prompt
      BY DEF Reverting
    <2>5. UNCHANGED store /\ UNCHANGED agentVars /\ Becomes(r, j) /\ row.version \in 1 .. MaxVersion - 1
      BY DEF Revert
    <2> HIDE DEF j
    <2>6. row' = [version |-> j.version, prompt |-> j.prompt] /\ row'.version \in 1 .. MaxVersion - 1
      BY <2>2, <2>4, <2>5 DEF store
    <2>7. TodoOK' /\ EditsInv'  BY <1>0, <2>1, <2>3, <2>4, <2>5, <2>6, OnlyEditor
    <2> QED BY <1>2, <1>4, <2>5, <2>7
  <1>8. CASE Snapshot(r) \/ SnapshotTarget(r)
    <2>1. Editing(r)  BY <1>8 DEF Snapshot, SnapshotTarget, Editing
    <2>2. \A o \in Requests \ {r} : ~Editing(o)  BY <2>1, OthersIdle
    <2>3. /\ row = [version |-> todo[r].version, prompt |-> todo[r].prompt]
          /\ row.version \in 1 .. MaxVersion - 1
      BY <1>0, <1>8 DEF EditsInv, EditsCurrent, Snapshot, SnapshotTarget
    <2>4. PICK q \in Prompts : Becomes(r, Saving(todo[r].version + 1, q))
      <3>1. CASE Snapshot(r)  BY <1>1, <3>1, TodoShapes DEF Snapshot
      <3>2. CASE SnapshotTarget(r)  BY <3>2 DEF SnapshotTarget
      <3> QED BY <1>8, <3>1, <3>2
    <2> DEFINE j == Saving(todo[r].version + 1, q)
    <2>5. UNCHANGED <<row, said, agentVars>> /\ kept' = kept \cup {<<row.version, row.prompt>>}
      BY <1>8, <2>3 DEF Snapshot, SnapshotTarget
    <2>6. row.version + 1 \in Versions /\ row.version = todo[r].version
      BY <2>3 DEF Versions
    <2>7. j \in Todos /\ j.phase = "saving" /\ j.version = row.version + 1
      BY <2>6, TodoTypes DEF Saving
    <2>8. Becomes(r, j)  BY <2>4
    <2> HIDE DEF j
    <2>9. row'.version > 0 /\ j.version = row'.version + 1 /\ <<row'.version, row'.prompt>> \in kept'
      BY <2>3, <2>5, <2>7
    <2>10. TodoOK' /\ EditsInv'  BY <1>0, <2>2, <2>7, <2>8, <2>9, OnlyEditor
    <2>11. StoreOK' /\ KeptAsSaid'
      BY <1>0, <2>3, <2>5 DEF StoreOK, KeptAsSaid, Versions
    <2>12. AgentsOK' /\ PinsBehind'
      BY <1>0, <1>3, <2>5 DEF StoreOK
    <2> QED BY <1>2, <2>10, <2>11, <2>12
  <1>9. CASE RevertUnknown(r) \/ SaveFails(r)
    <2>1. Editing(r)  BY <1>9 DEF RevertUnknown, SaveFails, Editing
    <2>2. \A o \in Requests \ {r} : ~Editing(o)  BY <2>1, OthersIdle
    <2>3. UNCHANGED store /\ UNCHANGED agentVars /\ Becomes(r, Idle)
      BY <1>9 DEF RevertUnknown, SaveFails
    <2>4. Idle \in Todos /\ Idle.phase = "idle"  BY TodoTypes DEF Idle
    <2>5. TodoOK' /\ EditsInv'  BY <1>0, <2>2, <2>3, <2>4, OnlyEditor
    <2> QED BY <1>2, <1>4, <2>3, <2>5
  <1>10. CASE Save(r)
    <2>1. Editing(r)  BY <1>10 DEF Save, Editing
    <2>2. \A o \in Requests \ {r} : ~Editing(o)  BY <2>1, OthersIdle
    <2>3. /\ row.version > 0 /\ todo[r].version = row.version + 1
          /\ <<row.version, row.prompt>> \in kept
      BY <1>0, <1>10 DEF EditsInv, EditsCurrent, Save
    <2>4. todo[r].version \in Versions /\ todo[r].new \in Prompts
      BY <1>1, <1>10, TodoShapes DEF Save
    <2> DEFINE v == todo[r].version   p == todo[r].new
    <2>5. /\ row' = [version |-> v, prompt |-> p] /\ said' = [said EXCEPT ![v] = p]
          /\ kept' = kept /\ UNCHANGED agentVars /\ Becomes(r, Idle)
      BY <1>10 DEF Save, PutRow
    <2>6. v \in Versions /\ p \in Prompts /\ v = row.version + 1  BY <2>3, <2>4
    <2> HIDE DEF v, p
    <2>7. StoreOK'  BY <1>0, <2>5, <2>6 DEF StoreOK, Versions
    <2>8. KeptAsSaid'
      <3>1. row'.version = v /\ row'.prompt = p /\ row.version \in Nat /\ v \in Nat
        BY <1>0, <2>5, <2>6 DEF StoreOK, Versions
      <3>2. said'[v] = p /\ \A w \in Versions \ {v} : said'[w] = said[w]
        BY <1>0, <2>5, <2>6 DEF StoreOK
      <3>3. \A e \in kept : e[1] \in Versions /\ e[1] <= row.version /\ said[e[1]] = e[2]
        BY <1>0 DEF StoreOK, KeptAsSaid
      <3>4. \A e \in kept : e[1] <= v /\ said'[e[1]] = e[2]
        BY <2>6, <3>1, <3>2, <3>3 DEF Versions
      <3>5. <<row.version, said[row.version]>> \in kept
        BY <1>0, <2>3 DEF KeptAsSaid
      <3>6. \A w \in 1 .. row.version : <<w, said[w]>> \in kept
        BY <1>0, <3>1, <3>5 DEF KeptAsSaid
      <3>7. \A w \in 1 .. v - 1 : w \in 1 .. row.version /\ w \in Versions /\ w # v
        BY <2>6, <3>1 DEF Versions
      <3>8. \A w \in 1 .. v - 1 : <<w, said'[w]>> \in kept
        BY <3>2, <3>6, <3>7
      <3> QED BY <2>3, <2>5, <2>6, <3>1, <3>2, <3>4, <3>8 DEF KeptAsSaid
    <2>9. AgentsOK' /\ PinsBehind'  BY <1>0, <1>3, <2>5, <2>6 DEF StoreOK
    <2>10. Idle \in Todos /\ Idle.phase = "idle"  BY TodoTypes DEF Idle
    <2>11. TodoOK' /\ EditsInv'  BY <1>0, <2>2, <2>5, <2>10, OnlyEditor
    <2> QED BY <1>2, <2>7, <2>8, <2>9, <2>11
  <1>11. CASE Delete(r)
    <2>1. \A o \in Requests : ~Editing(o)  BY <1>11, FreeToEdit DEF Delete
    <2>2. Deleting \in Todos /\ Deleting.phase = "deleting"  BY TodoTypes DEF Deleting
    <2>3. UNCHANGED store /\ UNCHANGED agentVars /\ Becomes(r, Deleting)  BY <1>11 DEF Delete
    <2>4. TodoOK' /\ EditsInv'  BY <1>0, <2>1, <2>2, <2>3, OnlyEditor
    <2> QED BY <1>2, <1>4, <2>3, <2>4
  <1>12. CASE DropPersona(r)
    <2>1. Editing(r)  BY <1>12 DEF DropPersona, Editing
    <2>2. \A o \in Requests \ {r} : ~Editing(o)  BY <2>1, OthersIdle
    <2>3. Idle \in Todos /\ Idle.phase = "idle"  BY TodoTypes DEF Idle
    <2>4. TodoOK' /\ EditsInv'  BY <1>0, <1>12, <2>2, <2>3, OnlyEditor DEF DropPersona
    <2>5. StoreOK' /\ row'.version = 0 /\ kept' = {}
      BY <1>0, <1>12 DEF StoreOK, DropPersona
    <2>6. KeptAsSaid'  BY <2>5 DEF KeptAsSaid
    <2>7. AgentsOK' /\ PinsBehind'
      BY <1>0, <1>12, <2>5 DEF AgentsOK, PinsBehind, DropPersona, NoRef
    <2> QED BY <1>2, <2>4, <2>5, <2>6, <2>7
  <1> QED BY <1>5, <1>6, <1>7, <1>8, <1>9, <1>10, <1>11, <1>12 DEF Edit

-----------------------------------------------------------------------------
LEMMA StepKeeps ==
  ASSUME MaxVersion \in Nat \ {0}, Overlap = FALSE
  PROVE  PersonasInv /\ [PersonasNext]_personaVars => PersonasInv'
  <1> SUFFICES ASSUME PersonasInv, [PersonasNext]_personaVars PROVE PersonasInv'
    OBVIOUS
  <1>1. ASSUME NEW a \in Staff, AgentStep(a) PROVE PersonasInv'
    <2>1. AgentsOK' /\ PinsBehind' /\ UNCHANGED <<store, todo>>
      BY <1>1, InvParts, AgentsKeep
    <2> QED BY <2>1 DEF PersonasInv, PersonasOK, OneEdits, EditsCurrent, Editing, KeptAsSaid,
              AgentsOK, store
  <1>2. CASE UNCHANGED personaVars
    BY <1>2 DEF personaVars, store, agentVars, PersonasInv, PersonasOK, OneEdits, EditsCurrent, Editing,
         KeptAsSaid, PinsBehind
  <1> QED BY <1>1, <1>2, RolloutKeeps, EditKeeps DEF PersonasNext

LEMMA InitPersonas ==
  ASSUME MaxVersion \in Nat \ {0} PROVE PersonasInit => PersonasInv
  <1> SUFFICES ASSUME PersonasInit PROVE PersonasInv
    OBVIOUS
  <1>1. StoreOK /\ KeptAsSaid  BY DEF PersonasInit, StoreOK, KeptAsSaid, NoRow
  <1>2. TodoOK /\ EditsInv
    BY TodoTypes DEF PersonasInit, TodoOK, EditsInv, OneEdits, EditsCurrent, Editing, Idle
  <1>3. AgentsOK /\ PinsBehind
    BY DEF PersonasInit, AgentsOK, PinsBehind, Sessions, NoRef
  <1> QED BY <1>1, <1>2, <1>3, InvParts

\* The inductive invariant of a persona holds for any agents, requests and
\* prompts, when its edits do not overlap (personas.go).
THEOREM PersonasInvariant ==
  ASSUME MaxVersion \in Nat \ {0}, Overlap = FALSE
  PROVE  PersonasSpec => []PersonasInv
  BY InitPersonas, StepKeeps, PTL DEF PersonasSpec

\* No version is lost or kept twice, whichever updates and reverts failed
\* between their two statements, while edits come one at a time.
THEOREM HistoryComplete ==
  ASSUME MaxVersion \in Nat \ {0}, Overlap = FALSE
  PROVE  PersonasSpec => []HistoryKept
  <1>1. PersonasInv => HistoryKept
    <2> SUFFICES ASSUME PersonasInv, row.version > 0, NEW v \in 1 .. row.version - 1
                 PROVE  {e \in kept : e[1] = v} = {<<v, said[v]>>}
      BY DEF HistoryKept
    <2>1. <<v, said[v]>> \in kept  BY DEF PersonasInv, KeptAsSaid
    <2>2. ASSUME NEW e \in kept, e[1] = v PROVE e = <<v, said[v]>>
      <3>1. e \in Versions \X Prompts  BY DEF PersonasInv, PersonasOK
      <3>2. e[2] = said[v]  BY <2>2 DEF PersonasInv, KeptAsSaid
      <3> QED BY <2>2, <3>1, <3>2
    <2> QED BY <2>1, <2>2
  <1> QED BY <1>1, PersonasInvariant, PTL

\* While edits come one at a time (Overlap = FALSE), an agent that was given an
\* older version is shown as outdated, but for the exceptions that OutdatedShown
\* names.  Two edits that cross give one number to two texts, and an agent that
\* runs the one that is gone is not shown.
THEOREM OldPromptsShown ==
  ASSUME MaxVersion \in Nat \ {0}, Overlap = FALSE
  PROVE  PersonasSpec => []OutdatedShown
  <1>1. PersonasInv => OutdatedShown
    BY DEF PersonasInv, PersonasOK, PinsBehind, OutdatedShown, NoRef
  <1> QED BY <1>1, PersonasInvariant, PTL

-----------------------------------------------------------------------------
(* Tokens. *)

Starts == [at : {"saved", "ready", "launched"}, kind : {"spawn", "create", "restart"},
           agent : Bearers, token : Nat \cup {Workspace}, kept : BOOLEAN, alone : BOOLEAN]
Lookups == [at : {"read"}, agent : Bearers, hash : Nat \ {NoToken}]

TokenTypes ==
  /\ minted \in Nat /\ hash \in [Bearers -> Nat]
  /\ start \in [Starters -> {NoJob} \cup Starts]
  /\ check \in [Checks -> {NoJob} \cup Lookups]
  /\ DOMAIN cache = Bearers /\ DOMAIN held = Bearers
  /\ \A a \in Bearers : a \notin recorded => hash[a] = NoToken

\* One that mints a token and was not crossed has it where posts are checked, and
\* is the only one.
AloneMints(a) ==
  \A o \in Minting(a) : start[o].alone =>
    /\ Minting(a) = {o}
    /\ start[o].token # Workspace =>
         /\ start[o].token # NoToken
         /\ hash[a] \in {start[o].token, NoToken}
         /\ start[o].kept => hash[a] = start[o].token
         /\ At(o, {"ready"}) => cache[a] = start[o].token

\* A session with a token of its own that it has not lost.
Own(a) == a \notin cutOff /\ held[a] \notin {NoToken, Workspace}

\* The cache has the token of the session, or the row has it and so has whoever
\* is about to fill the cache; and nobody is about to replace it.
OwnHeard(a) ==
  Own(a) =>
    /\ hash[a] \in {held[a], NoToken}
    /\ a \notin unrecorded => hash[a] = held[a]
    /\ cache[a] = held[a] \/ (cache[a] = NoToken /\ hash[a] = held[a])
    /\ \A o \in Busy(a) : ~At(o, {"saved"})
    /\ \A v \in Checks : check[v] # NoJob /\ check[v].agent = a /\ cache[a] = NoToken
                           => check[v].hash = hash[a]

\* The inductive invariant of the tokens.
TokensInv == TokenTypes /\ \A a \in Bearers : AloneMints(a) /\ OwnHeard(a)

LEMMA InitTokens == TokensInit => TokensInv
<1> SUFFICES ASSUME TokensInit PROVE TokensInv
  OBVIOUS
<1>1. TokenTypes
  BY DEF TokensInit, TokenTypes, NoToken
<1>2. \A a \in Bearers : Busy(a) = {} /\ Minting(a) = {} /\ held[a] = NoToken
  BY DEF TokensInit, Busy, Minting
<1> QED
  BY <1>1, <1>2 DEF TokensInv, AloneMints, OwnHeard, Own

\* An agent whose jobs, token and row stay as they are.
LEMMA Untouched ==
  ASSUME NEW b \in Bearers, AloneMints(b), OwnHeard(b),
         hash'[b] = hash[b], cache'[b] = cache[b], held'[b] = held[b],
         b \in cutOff => b \in cutOff', b \in unrecorded => b \in unrecorded',
         Busy(b)' = Busy(b), \A o \in Busy(b) : start'[o] = start[o],
         \A v \in Checks : check'[v] # NoJob /\ check'[v].agent = b => check'[v] = check[v]
  PROVE  AloneMints(b)' /\ OwnHeard(b)'
<1>1. \A o \in Busy(b), S \in {{"saved", "ready"}, {"ready"}, {"saved"}} : At(o, S)' = At(o, S)
  BY DEF At
<1>2. Minting(b)' = Minting(b) /\ Minting(b) \subseteq Busy(b)
  BY <1>1 DEF Minting
<1>3. AloneMints(b)'
  BY <1>1, <1>2 DEF AloneMints
<1>4. OwnHeard(b)'
  BY <1>1 DEF OwnHeard, Own
<1> QED
  BY <1>3, <1>4

LEMMA BusyFacts ==
  ASSUME TokenTypes, NEW a \in Bearers, NEW o \in Busy(a)
  PROVE  /\ o \in Starters /\ start[o] # NoJob /\ start[o] \in Starts /\ start[o].agent = a
         /\ o \in Minting(a) <=> start[o].at \in {"saved", "ready"}
         /\ \A b \in Bearers : b # a => o \notin Busy(b)
<1>1. o \in Starters /\ start[o] # NoJob /\ start[o].agent = a
  BY DEF Busy
<1>2. start[o] \in Starts
  BY <1>1 DEF TokenTypes
<1> QED
  BY <1>1, <1>2 DEF Busy, Minting, At

\* Starts that are no longer alone are what they were otherwise.
LEMMA CrossedFacts ==
  ASSUME TokenTypes, NEW a \in Bearers
  PROVE  /\ Crossed(Minting(a)) \in [Starters -> {NoJob} \cup Starts]
         /\ \A o \in Starters : o \notin Minting(a) => Crossed(Minting(a))[o] = start[o]
         /\ \A o \in Minting(a) :
              /\ Crossed(Minting(a))[o] \in Starts /\ Crossed(Minting(a))[o] # NoJob
              /\ Crossed(Minting(a))[o].alone = FALSE
              /\ Crossed(Minting(a))[o].at = start[o].at
              /\ Crossed(Minting(a))[o].agent = a
<1> DEFINE x == Crossed(Minting(a))
<1>1. ASSUME NEW o \in Minting(a)
      PROVE  /\ o \in Starters /\ x[o] \in Starts /\ x[o] # NoJob /\ x[o].alone = FALSE
             /\ x[o].at = start[o].at /\ x[o].agent = a
  <2>1. o \in Starters /\ start[o] \in Starts /\ start[o].agent = a
    BY BusyFacts DEF Minting
  <2>2. x[o] = [start[o] EXCEPT !.alone = FALSE]
    BY <2>1 DEF Crossed
  <2>3. ASSUME NEW r \in Starts
        PROVE  /\ [r EXCEPT !.alone = FALSE] \in Starts
               /\ [r EXCEPT !.alone = FALSE].alone = FALSE
               /\ [r EXCEPT !.alone = FALSE].at = r.at
               /\ [r EXCEPT !.alone = FALSE].agent = r.agent
    BY DEF Starts
  <2>4. \A r \in Starts : r # NoJob
    BY DEF Starts, NoJob
  <2> QED
    BY <2>1, <2>2, <2>3, <2>4
<1>2. \A o \in Starters : o \notin Minting(a) => x[o] = start[o]
  BY DEF Crossed
<1>3. x \in [Starters -> {NoJob} \cup Starts]
  <2>1. \A o \in Starters : x[o] \in {NoJob} \cup Starts
    BY <1>1, <1>2 DEF TokenTypes
  <2> HIDE DEF x
  <2>2. x = [o \in Starters |-> x[o]]
    BY DEF x, Crossed
  <2> QED
    BY <2>1, <2>2
<1> QED
  BY <1>1, <1>2, <1>3

\* A start that begins crosses those that mint for the same agent.
LEMMA Begun ==
  ASSUME TokenTypes, NEW a \in Bearers, NEW o \in Starters, start[o] = NoJob,
         NEW job \in Starts, job.agent = a, job.at \in {"saved", "ready"},
         start' = [Crossed(Minting(a)) EXCEPT ![o] = job]
  PROVE  /\ start' \in [Starters -> {NoJob} \cup Starts] /\ start'[o] = job
         /\ Busy(a)' = Busy(a) \cup {o} /\ Minting(a)' = Minting(a) \cup {o} /\ o \notin Busy(a)
         /\ \A p \in Minting(a) : start'[p].alone = FALSE
         /\ \A p \in Busy(a) : start'[p].at = start[p].at
         /\ \A b \in Bearers : b # a =>
              Busy(b)' = Busy(b) /\ \A p \in Busy(b) : start'[p] = start[p]
<1>1. /\ Crossed(Minting(a)) \in [Starters -> {NoJob} \cup Starts]
      /\ \A p \in Starters : p \notin Minting(a) => Crossed(Minting(a))[p] = start[p]
      /\ \A p \in Minting(a) :
           /\ Crossed(Minting(a))[p] \in Starts /\ Crossed(Minting(a))[p] # NoJob
           /\ Crossed(Minting(a))[p].alone = FALSE
           /\ Crossed(Minting(a))[p].at = start[p].at
           /\ Crossed(Minting(a))[p].agent = a
  BY CrossedFacts
<1>2. /\ start' \in [Starters -> {NoJob} \cup Starts] /\ start'[o] = job
      /\ \A p \in Starters : p # o => start'[p] = Crossed(Minting(a))[p]
  BY <1>1
<1>3. job # NoJob /\ o \notin Busy(a) /\ Minting(a) \subseteq Busy(a) /\ Busy(a) \subseteq Starters
  BY DEF NoJob, Starts, Busy, Minting
<1>4. \A p \in Minting(a) : p # o /\ start'[p] # NoJob /\ start'[p].agent = a /\ start'[p].at = start[p].at
                            /\ start'[p].alone = FALSE
  BY <1>1, <1>2, <1>3
<1>5. \A p \in Starters : p # o /\ p \notin Minting(a) => start'[p] = start[p]
  BY <1>1, <1>2
<1>6. Busy(a)' = Busy(a) \cup {o}
  BY <1>2, <1>3, <1>4, <1>5 DEF Busy
<1>7. \A p \in Busy(a) : p # o /\ start'[p].at = start[p].at
  BY <1>3, <1>4, <1>5
<1>8. Minting(a)' = Minting(a) \cup {o}
  BY <1>2, <1>6, <1>7 DEF Minting, At
<1>9. ASSUME NEW b \in Bearers, b # a
      PROVE  Busy(b)' = Busy(b) /\ \A p \in Busy(b) : start'[p] = start[p]
  <2>1. \A p \in Busy(b) : p \in Starters /\ p # o /\ p \notin Minting(a)
    BY <1>9, <1>3 DEF Busy
  <2>2. \A p \in Minting(a) : start'[p].agent # b
    BY <1>4, <1>9
  <2>3. start'[o].agent # b
    BY <1>2, <1>9
  <2>4. Busy(b)' = Busy(b)
    BY <1>5, <2>1, <2>2, <2>3 DEF Busy
  <2> QED
    BY <1>5, <2>1, <2>4
<1> QED
  BY <1>2, <1>3, <1>4, <1>6, <1>7, <1>8, <1>9

LEMMA MintSteps ==
  ASSUME TokensInv, NEW o \in Starters, NEW a \in Bearers, NEW kind \in {"spawn", "create", "restart"},
         Mint(o, kind, a) \/ MintFails(o, kind, a)
  PROVE  TokensInv'
<1>t. /\ TokenTypes /\ \A b \in Bearers : AloneMints(b) /\ OwnHeard(b)
      /\ minted \in Nat /\ hash \in [Bearers -> Nat] /\ start[o] = NoJob
  BY DEF TokensInv, TokenTypes, Mint, MintFails
<1>1. CASE Mint(o, kind, a)
  <2> DEFINE job == [at |-> "saved", kind |-> kind, agent |-> a, token |-> minted',
                     kept |-> a \in recorded, alone |-> Minting(a) = {}]
  <2>1. /\ minted' = minted + 1
        /\ hash' = IF a \in recorded THEN [hash EXCEPT ![a] = minted'] ELSE hash
        /\ start' = [Crossed(Minting(a)) EXCEPT ![o] = job]
        /\ cutOff' = IF held[a] = NoToken THEN cutOff ELSE cutOff \cup {a}
        /\ UNCHANGED <<recorded, cache, held, check, unrecorded>>
    BY <1>1 DEF Mint
  <2>2. /\ job \in Starts /\ job.agent = a /\ job.at = "saved" /\ job.token = minted'
        /\ minted' \in Nat /\ minted' # NoToken
    BY <1>t, <2>1 DEF Starts, NoToken
  <2>3. (job.kept <=> a \in recorded) /\ (job.alone <=> Minting(a) = {})
    BY Zenon
  <2> HIDE DEF job
  <2>4. /\ start' \in [Starters -> {NoJob} \cup Starts] /\ start'[o] = job
        /\ Busy(a)' = Busy(a) \cup {o} /\ Minting(a)' = Minting(a) \cup {o} /\ o \notin Busy(a)
        /\ \A p \in Minting(a) : start'[p].alone = FALSE
        /\ \A b \in Bearers : b # a =>
             Busy(b)' = Busy(b) /\ \A p \in Busy(b) : start'[p] = start[p]
    BY <1>t, <2>1, <2>2, Begun, ZenonT(40)
  <2>5. /\ hash' \in [Bearers -> Nat] /\ hash'[a] = IF a \in recorded THEN minted' ELSE NoToken
        /\ \A b \in Bearers : b # a => hash'[b] = hash[b]
        /\ \A b \in Bearers : b \notin recorded => hash'[b] = NoToken
    BY <1>t, <2>1, <2>2 DEF TokenTypes
  <2>6. TokenTypes'
    BY <1>t, <2>1, <2>2, <2>4, <2>5 DEF TokenTypes
  <2>7. AloneMints(a)'
    <3>1. ASSUME NEW p \in Minting(a)', start'[p].alone PROVE p = o /\ Minting(a)' = {o}
      <4>1. p \notin Minting(a)
        BY <2>4, <3>1
      <4> QED
        BY <2>3, <2>4, <3>1, <4>1
    <3>2. /\ start'[o].token # NoToken /\ hash'[a] \in {start'[o].token, NoToken}
          /\ start'[o].kept => hash'[a] = start'[o].token
          /\ ~At(o, {"ready"})'
      BY <2>2, <2>3, <2>4, <2>5 DEF At
    <3> QED
      BY <3>1, <3>2 DEF AloneMints
  <2>8. OwnHeard(a)'
    BY <2>1 DEF OwnHeard, Own
  <2>9. ASSUME NEW b \in Bearers, b # a PROVE AloneMints(b)' /\ OwnHeard(b)'
    BY <1>t, <2>1, <2>4, <2>5, <2>9, Untouched
  <2> QED
    BY <2>6, <2>7, <2>8, <2>9 DEF TokensInv
<1>2. CASE MintFails(o, kind, a)
  <2> DEFINE job == [at |-> "ready", kind |-> kind, agent |-> a, token |-> Workspace,
                     kept |-> TRUE, alone |-> Minting(a) = {}]
  <2>1. /\ start' = [Crossed(Minting(a)) EXCEPT ![o] = job]
        /\ UNCHANGED <<recorded, hash, cache, held, minted, check, unrecorded, cutOff>>
    BY <1>2 DEF MintFails
  <2>2. job \in Starts /\ job.agent = a /\ job.at = "ready" /\ job.token = Workspace
    BY DEF Starts
  <2>3. job.alone <=> Minting(a) = {}
    BY Zenon
  <2> HIDE DEF job
  <2>4. /\ start' \in [Starters -> {NoJob} \cup Starts] /\ start'[o] = job
        /\ Busy(a)' = Busy(a) \cup {o} /\ Minting(a)' = Minting(a) \cup {o} /\ o \notin Busy(a)
        /\ \A p \in Minting(a) : start'[p].alone = FALSE
        /\ \A p \in Busy(a) : start'[p].at = start[p].at
        /\ \A b \in Bearers : b # a =>
             Busy(b)' = Busy(b) /\ \A p \in Busy(b) : start'[p] = start[p]
    BY <1>t, <2>1, <2>2, Begun
  <2>5. TokenTypes'
    BY <1>t, <2>1, <2>4 DEF TokenTypes
  <2>6. AloneMints(a)'
    <3>1. ASSUME NEW p \in Minting(a)', start'[p].alone PROVE p = o /\ Minting(a)' = {o}
      <4>1. p \notin Minting(a)
        BY <2>4, <3>1
      <4> QED
        BY <2>3, <2>4, <3>1, <4>1
    <3>2. start'[o].token = Workspace
      BY <2>2, <2>4
    <3> QED
      BY <3>1, <3>2 DEF AloneMints
  <2>7. OwnHeard(a)'
    <3>1. \A p \in Busy(a)' : At(p, {"saved"})' => p \in Busy(a) /\ At(p, {"saved"})
      BY <2>2, <2>4 DEF At
    <3> QED
      BY <1>t, <2>1, <3>1 DEF OwnHeard, Own
  <2>8. ASSUME NEW b \in Bearers, b # a PROVE AloneMints(b)' /\ OwnHeard(b)'
    BY <1>t, <2>1, <2>4, <2>8, Untouched
  <2> QED
    BY <2>5, <2>6, <2>7, <2>8 DEF TokensInv
<1> QED
  BY <1>1, <1>2

\* A start that goes on.
LEMMA Moved ==
  ASSUME TokenTypes, NEW o \in Starters, start[o] # NoJob, NEW x \in {"ready", "launched"},
         start' = [start EXCEPT ![o].at = x]
  PROVE  /\ start[o] \in Starts /\ start[o].agent \in Bearers
         /\ start' \in [Starters -> {NoJob} \cup Starts]
         /\ start'[o].at = x /\ start'[o].token = start[o].token
         /\ start'[o].kept = start[o].kept /\ start'[o].alone = start[o].alone
         /\ \A p \in Starters : p # o => start'[p] = start[p]
         /\ \A b \in Bearers : Busy(b)' = Busy(b)
<1>1. start[o] \in Starts /\ start[o].agent \in Bearers
  BY DEF TokenTypes, Starts
<1>2. ASSUME NEW r \in Starts
      PROVE  /\ [r EXCEPT !.at = x] \in Starts /\ [r EXCEPT !.at = x].at = x
             /\ [r EXCEPT !.at = x].agent = r.agent /\ [r EXCEPT !.at = x].token = r.token
             /\ [r EXCEPT !.at = x].kept = r.kept /\ [r EXCEPT !.at = x].alone = r.alone
  BY DEF Starts
<1>3. \A r \in Starts : r # NoJob
  BY DEF Starts, NoJob
<1>4. /\ start'[o] = [start[o] EXCEPT !.at = x]
      /\ \A p \in Starters : p # o => start'[p] = start[p]
  BY DEF TokenTypes
<1>5. /\ start'[o] \in Starts /\ start'[o] # NoJob /\ start'[o].agent = start[o].agent
      /\ start'[o].at = x /\ start'[o].token = start[o].token
      /\ start'[o].kept = start[o].kept /\ start'[o].alone = start[o].alone
  BY <1>1, <1>2, <1>3, <1>4, ZenonT(40)
<1>6. start' \in [Starters -> {NoJob} \cup Starts]
  <2> DEFINE r == [start[o] EXCEPT !.at = x]
  <2>1. start' = [start EXCEPT ![o] = r] /\ r \in Starts
    BY <1>4, <1>5
  <2> HIDE DEF r
  <2> QED
    BY <2>1 DEF TokenTypes
<1>7. \A b \in Bearers : Busy(b)' = Busy(b)
  BY <1>4, <1>5 DEF Busy
<1> QED
  BY <1>1, <1>4, <1>5, <1>6, <1>7

LEMMA PublishStep == ASSUME TokensInv, NEW o \in Starters, Publish(o) PROVE TokensInv'
<1>t. TokenTypes /\ \A b \in Bearers : AloneMints(b) /\ OwnHeard(b)
  BY DEF TokensInv
<1>0. /\ start[o] # NoJob /\ start[o].at = "saved"
      /\ start' = [start EXCEPT ![o].at = "ready"]
      /\ UNCHANGED <<recorded, hash, held, minted, check, unrecorded, cutOff>>
  BY DEF Publish, At, NoJob
<1>1. /\ start[o] \in Starts /\ start[o].agent \in Bearers
      /\ start' \in [Starters -> {NoJob} \cup Starts]
      /\ start'[o].at = "ready" /\ start'[o].token = start[o].token
      /\ start'[o].kept = start[o].kept /\ start'[o].alone = start[o].alone
      /\ \A p \in Starters : p # o => start'[p] = start[p]
      /\ \A b \in Bearers : Busy(b)' = Busy(b)
  BY <1>t, <1>0, Moved
<1>a. PICK a \in Bearers : a = start[o].agent
  BY <1>1
<1>2. /\ DOMAIN cache' = Bearers /\ cache'[a] = start[o].token
      /\ \A b \in Bearers : b # a => cache'[b] = cache[b]
  BY <1>t, <1>a DEF TokenTypes, Publish
<1>3. o \in Busy(a) /\ \A b \in Bearers : b # a => o \notin Busy(b)
  BY <1>0, <1>a DEF Busy
<1>4. TokenTypes'
  BY <1>t, <1>0, <1>1, <1>2 DEF TokenTypes
<1>5. Minting(a)' = Minting(a) /\ o \in Minting(a)
  <2>1. \A p \in Busy(a) : At(p, {"saved", "ready"})' = At(p, {"saved", "ready"})
    BY <1>0, <1>1 DEF At, Busy
  <2> QED
    BY <1>0, <1>1, <1>3, <2>1 DEF Minting, At
<1>6. AloneMints(a)'
  <2>1. ASSUME NEW p \in Minting(a), start'[p].alone, start'[p].token # Workspace
        PROVE  /\ start'[p].token # NoToken /\ hash[a] \in {start'[p].token, NoToken}
               /\ start'[p].kept => hash[a] = start'[p].token
               /\ p = o /\ Minting(a) = {o} /\ cache'[a] = start'[p].token
    <3>1. p \in Starters /\ start[p].alone /\ start[p].token # Workspace
      BY <1>1, <2>1 DEF Minting, Busy
    <3>2. Minting(a) = {p}
      BY <1>t, <3>1, <2>1 DEF AloneMints
    <3>3. p = o
      BY <1>5, <3>2
    <3> QED
      BY <1>t, <1>1, <1>2, <2>1, <3>1, <3>2, <3>3 DEF AloneMints
  <2>2. \A p \in Minting(a) : start'[p].alone => Minting(a) = {p}
    BY <1>t, <1>1 DEF AloneMints, Minting, Busy
  <2> QED
    BY <1>0, <1>5, <2>1, <2>2 DEF AloneMints
<1>7. OwnHeard(a)'
  <2>1. At(o, {"saved"})
    BY <1>0 DEF At
  <2>2. ~Own(a)
    BY <1>t, <1>3, <2>1 DEF OwnHeard
  <2> QED
    BY <1>0, <2>2 DEF OwnHeard, Own
<1>8. ASSUME NEW b \in Bearers, b # a PROVE AloneMints(b)' /\ OwnHeard(b)'
  <2>1. \A p \in Busy(b) : start'[p] = start[p]
    BY <1>1, <1>3, <1>8 DEF Busy
  <2> QED
    BY <1>t, <1>0, <1>1, <1>2, <1>8, <2>1, Untouched
<1> QED
  BY <1>4, <1>6, <1>7, <1>8 DEF TokensInv

LEMMA LaunchStep == ASSUME TokensInv, NEW o \in Starters, Launch(o) PROVE TokensInv'
<1>t. TokenTypes /\ \A b \in Bearers : AloneMints(b) /\ OwnHeard(b)
  BY DEF TokensInv
<1>0. /\ start[o] # NoJob /\ start[o].at = "ready"
      /\ start' = [start EXCEPT ![o].at = "launched"]
      /\ UNCHANGED <<recorded, hash, cache, minted, check>>
  BY DEF Launch, At, NoJob
<1>1. /\ start[o] \in Starts /\ start[o].agent \in Bearers
      /\ start' \in [Starters -> {NoJob} \cup Starts]
      /\ start'[o].at = "launched"
      /\ \A p \in Starters : p # o => start'[p] = start[p]
      /\ \A b \in Bearers : Busy(b)' = Busy(b)
  BY <1>t, <1>0, Moved
<1>a. PICK a \in Bearers : a = start[o].agent
  BY <1>1
<1>2. /\ DOMAIN held' = Bearers /\ held'[a] = start[o].token
      /\ \A b \in Bearers : b # a => held'[b] = held[b]
      /\ a \notin unrecorded' => start[o].kept
      /\ a \notin cutOff' => start[o].alone
      /\ \A b \in Bearers : b # a => /\ b \in unrecorded => b \in unrecorded'
                                     /\ b \in cutOff => b \in cutOff'
  BY <1>t, <1>a DEF TokenTypes, Launch
<1>3. o \in Busy(a) /\ o \in Minting(a) /\ \A b \in Bearers : b # a => o \notin Busy(b)
  BY <1>0, <1>a DEF Busy, Minting, At
<1>4. TokenTypes'
  BY <1>t, <1>0, <1>1, <1>2 DEF TokenTypes
<1>5. Minting(a)' = Minting(a) \ {o}
  <2>1. \A p \in Busy(a) : p # o => At(p, {"saved", "ready"})' = At(p, {"saved", "ready"})
    BY <1>1 DEF At, Busy
  <2>2. ~At(o, {"saved", "ready"})'
    BY <1>1 DEF At
  <2> QED
    BY <1>1, <2>1, <2>2 DEF Minting
<1>6. AloneMints(a)'
  <2>1. ASSUME NEW p \in Minting(a), p # o PROVE ~start'[p].alone
    <3>1. Minting(a) # {p} /\ start'[p] = start[p]
      BY <1>1, <1>3, <2>1 DEF Minting, Busy
    <3> QED
      BY <1>t, <2>1, <3>1 DEF AloneMints
  <2> QED
    BY <1>5, <2>1 DEF AloneMints
<1>7. OwnHeard(a)'
  <2> SUFFICES ASSUME Own(a)'
               PROVE  /\ hash[a] \in {held'[a], NoToken}
                      /\ a \notin unrecorded' => hash[a] = held'[a]
                      /\ cache[a] = held'[a] /\ held'[a] # NoToken
                      /\ \A p \in Busy(a) : ~At(p, {"saved"})'
    BY <1>0, <1>1 DEF OwnHeard
  <2>1. start[o].alone /\ start[o].token \notin {NoToken, Workspace}
    BY <1>2 DEF Own
  <2>2. At(o, {"ready"})
    BY <1>0 DEF At
  <2>3. /\ Minting(a) = {o} /\ hash[a] \in {start[o].token, NoToken}
        /\ start[o].kept => hash[a] = start[o].token
        /\ cache[a] = start[o].token
    BY <1>t, <1>3, <2>1, <2>2 DEF AloneMints
  <2>4. ASSUME NEW p \in Busy(a) PROVE ~At(p, {"saved"})'
    <3>1. CASE p = o
      BY <1>1, <3>1 DEF At
    <3>2. CASE p # o
      BY <1>1, <2>3, <3>2 DEF Minting, At, Busy
    <3> QED
      BY <3>1, <3>2
  <2> QED
    BY <1>2, <2>1, <2>3, <2>4
<1>8. ASSUME NEW b \in Bearers, b # a PROVE AloneMints(b)' /\ OwnHeard(b)'
  <2>1. \A p \in Busy(b) : start'[p] = start[p]
    BY <1>1, <1>3, <1>8 DEF Busy
  <2> QED
    BY <1>t, <1>0, <1>1, <1>2, <1>8, <2>1, Untouched
<1> QED
  BY <1>4, <1>6, <1>7, <1>8 DEF TokensInv

\* A start that ends leaves everything else as it is.
LEMMA EndSteps ==
  ASSUME TokensInv, NEW o \in Starters, LaunchFails(o) \/ Record(o)
  PROVE  TokensInv'
<1>t. TokenTypes /\ \A b \in Bearers : AloneMints(b) /\ OwnHeard(b)
  BY DEF TokensInv
<1>0. /\ start' = [start EXCEPT ![o] = NoJob] /\ recorded \subseteq recorded'
      /\ UNCHANGED <<hash, cache, held, minted, check, unrecorded, cutOff>>
  BY DEF LaunchFails, Record
<1>1. /\ start' \in [Starters -> {NoJob} \cup Starts] /\ start'[o] = NoJob
      /\ \A p \in Starters : p # o => start'[p] = start[p]
  BY <1>t, <1>0 DEF TokenTypes
<1>2. TokenTypes'
  BY <1>t, <1>0, <1>1 DEF TokenTypes
<1>3. ASSUME NEW b \in Bearers PROVE AloneMints(b)' /\ OwnHeard(b)'
  <2>1. Busy(b)' = Busy(b) \ {o}
    BY <1>1 DEF Busy
  <2>2. \A p \in Busy(b) \ {o} : start'[p] = start[p]
    BY <1>1 DEF Busy
  <2>3. \A p \in Busy(b) \ {o}, S \in {{"saved", "ready"}, {"ready"}, {"saved"}} : At(p, S)' = At(p, S)
    BY <2>2 DEF At
  <2>4. Minting(b)' = Minting(b) \ {o} /\ Minting(b) \subseteq Busy(b)
    BY <2>1, <2>3 DEF Minting
  <2>5. AloneMints(b)'
    BY <1>t, <1>0, <2>2, <2>3, <2>4 DEF AloneMints
  <2>6. OwnHeard(b)'
    BY <1>t, <1>0, <2>1, <2>3 DEF OwnHeard, Own
  <2> QED
    BY <2>5, <2>6
<1> QED
  BY <1>2, <1>3 DEF TokensInv

LEMMA LookStep == ASSUME TokensInv, NEW v \in Checks, NEW a \in Bearers, Look(v, a) PROVE TokensInv'
<1>t. TokenTypes /\ \A b \in Bearers : AloneMints(b) /\ OwnHeard(b)
  BY DEF TokensInv
<1> DEFINE job == [at |-> "read", agent |-> a, hash |-> hash[a]]
<1>0. /\ check' = [check EXCEPT ![v] = job] /\ cache[a] = NoToken /\ hash[a] # NoToken
      /\ UNCHANGED <<recorded, hash, cache, held, minted, start, unrecorded, cutOff>>
  BY DEF Look
<1>1. job \in Lookups /\ job.agent = a /\ job.hash = hash[a]
  BY <1>t, <1>0 DEF TokenTypes, Lookups, NoToken
<1> HIDE DEF job
<1>2. /\ check' \in [Checks -> {NoJob} \cup Lookups] /\ check'[v] = job
      /\ \A w \in Checks : w # v => check'[w] = check[w]
  BY <1>t, <1>0, <1>1 DEF TokenTypes
<1>3. TokenTypes'
  BY <1>t, <1>0, <1>2 DEF TokenTypes
<1>4. ASSUME NEW b \in Bearers PROVE AloneMints(b)' /\ OwnHeard(b)'
  <2>1. AloneMints(b)'
    BY <1>t, <1>0 DEF AloneMints, Minting, Busy, At
  <2>2. \A o \in Busy(b)' : o \in Busy(b) /\ At(o, {"saved"})' = At(o, {"saved"})
    BY <1>0 DEF Busy, At
  <2>3. OwnHeard(b)'
    BY <1>t, <1>0, <1>1, <1>2, <2>2 DEF OwnHeard, Own
  <2> QED
    BY <2>1, <2>3
<1> QED
  BY <1>3, <1>4 DEF TokensInv

\* A late fill takes the cache from the session and from every start under way;
\* any other caches what the row has, or replaces nothing.
LEMMA FillStep == ASSUME TokensInv, NEW v \in Checks, Fill(v) PROVE TokensInv'
<1>t. TokenTypes /\ \A b \in Bearers : AloneMints(b) /\ OwnHeard(b)
  BY DEF TokensInv
<1>0. /\ check[v] \in Lookups /\ check[v] # NoJob /\ check' = [check EXCEPT ![v] = NoJob]
      /\ UNCHANGED <<recorded, hash, held, minted, unrecorded>>
  BY <1>t DEF TokenTypes, Fill, NoJob
<1>a. PICK a \in Bearers : a = check[v].agent
  BY <1>0 DEF Lookups
<1>h. PICK h \in Nat \ {NoToken} : h = check[v].hash
  BY <1>0 DEF Lookups
<1>1. /\ DOMAIN cache' = Bearers /\ cache'[a] = h
      /\ \A b \in Bearers : b # a => cache'[b] = cache[b]
  BY <1>t, <1>a, <1>h DEF TokenTypes, Fill
<1>2. /\ check' \in [Checks -> {NoJob} \cup Lookups] /\ check'[v] = NoJob
      /\ \A w \in Checks : w # v => check'[w] = check[w]
  BY <1>t, <1>0 DEF TokenTypes
<1>l. \A o \in Starters : start[o] \in Starts => start[o] # NoJob
  BY DEF Starts, NoJob
<1>3. CASE h # hash[a] /\ cache[a] # NoToken
  <2>1. start' = Crossed(Minting(a)) /\ cutOff' = cutOff \cup {a}
    BY <1>3, <1>a, <1>h DEF Fill
  <2>2. /\ start' \in [Starters -> {NoJob} \cup Starts]
        /\ \A o \in Starters : o \notin Minting(a) => start'[o] = start[o]
        /\ \A o \in Minting(a) : /\ start'[o] # NoJob /\ start'[o].alone = FALSE
                                 /\ start'[o].at = start[o].at /\ start'[o].agent = a
    <3>1. /\ Crossed(Minting(a)) \in [Starters -> {NoJob} \cup Starts]
          /\ \A o \in Starters : o \notin Minting(a) => Crossed(Minting(a))[o] = start[o]
          /\ \A o \in Minting(a) :
               /\ Crossed(Minting(a))[o] \in Starts /\ Crossed(Minting(a))[o] # NoJob
               /\ Crossed(Minting(a))[o].alone = FALSE
               /\ Crossed(Minting(a))[o].at = start[o].at
               /\ Crossed(Minting(a))[o].agent = a
      BY <1>t, CrossedFacts
    <3> QED
      BY <2>1, <3>1
  <2>3. TokenTypes'
    BY <1>t, <1>0, <1>1, <1>2, <2>2 DEF TokenTypes
  <2>4. \A o \in Minting(a) : o \in Starters /\ start[o] # NoJob /\ start[o].agent = a
    BY DEF Minting, Busy
  <2>5. \A b \in Bearers : Busy(b)' = Busy(b)
    BY <2>2, <2>4 DEF Busy
  <2>6. Minting(a)' = Minting(a)
    <3>1. \A o \in Busy(a) : At(o, {"saved", "ready"})' = At(o, {"saved", "ready"})
      <4>1. \A o \in Busy(a) : o \in Starters
        BY DEF Busy
      <4> QED
        BY <2>2, <4>1 DEF At
    <3> QED
      BY <2>5, <3>1 DEF Minting
  <2>7. AloneMints(a)'
    BY <2>2, <2>6 DEF AloneMints
  <2>8. OwnHeard(a)'
    BY <2>1 DEF OwnHeard, Own
  <2>9. ASSUME NEW b \in Bearers, b # a PROVE AloneMints(b)' /\ OwnHeard(b)'
    <3>1. \A o \in Busy(b) : start'[o] = start[o]
      BY <2>2, <2>4, <2>9 DEF Busy
    <3>2. \A w \in Checks : check'[w] # NoJob /\ check'[w].agent = b => check'[w] = check[w]
      BY <1>2
    <3>3. hash'[b] = hash[b] /\ cache'[b] = cache[b] /\ held'[b] = held[b]
          /\ (b \in cutOff => b \in cutOff') /\ (b \in unrecorded => b \in unrecorded')
      BY <1>0, <1>1, <2>1, <2>9
    <3> QED
      BY <1>t, <2>5, <2>9, <3>1, <3>2, <3>3, Untouched
  <2> QED
    BY <2>3, <2>7, <2>8, <2>9 DEF TokensInv
<1>4. CASE ~(h # hash[a] /\ cache[a] # NoToken)
  <2>1. start' = start /\ cutOff' = cutOff
    BY <1>4, <1>a, <1>h DEF Fill
  <2>2. TokenTypes'
    BY <1>t, <1>0, <1>1, <1>2, <2>1 DEF TokenTypes
  <2>3. \A b \in Bearers : Busy(b)' = Busy(b) /\ Minting(b)' = Minting(b)
    BY <2>1 DEF Busy, Minting, At
  <2>4. \A o \in Starters, S \in {{"saved", "ready"}, {"ready"}, {"saved"}} : At(o, S)' = At(o, S)
    BY <2>1 DEF At
  <2>5. AloneMints(a)'
    <3>1. \A o \in Minting(a) : o \in Starters
      BY DEF Minting, Busy
    <3>2. ASSUME NEW o \in Minting(a), start[o].alone, start[o].token # Workspace, At(o, {"ready"})
          PROVE  h = start[o].token
      BY <1>t, <1>4, <3>2 DEF AloneMints
    <3> QED
      BY <1>t, <1>0, <1>1, <2>1, <2>3, <2>4, <3>1, <3>2 DEF AloneMints
  <2>6. OwnHeard(a)'
    <3> SUFFICES ASSUME Own(a) PROVE OwnHeard(a)'
      BY <1>0, <2>1 DEF OwnHeard, Own
    <3>1. h = held[a]
      BY <1>t, <1>0, <1>4, <1>a, <1>h DEF OwnHeard
    <3>2. held[a] # NoToken /\ \A o \in Busy(a) : ~At(o, {"saved"})
      BY <1>t DEF OwnHeard, Own
    <3>3. \A o \in Busy(a) : o \in Starters
      BY DEF Busy
    <3> QED
      BY <1>t, <1>0, <1>1, <2>3, <2>4, <3>1, <3>2, <3>3 DEF OwnHeard
  <2>7. ASSUME NEW b \in Bearers, b # a PROVE AloneMints(b)' /\ OwnHeard(b)'
    <3>1. \A o \in Busy(b) : start'[o] = start[o]
      BY <2>1
    <3>2. \A w \in Checks : check'[w] # NoJob /\ check'[w].agent = b => check'[w] = check[w]
      BY <1>2
    <3>3. hash'[b] = hash[b] /\ cache'[b] = cache[b] /\ held'[b] = held[b]
          /\ (b \in cutOff => b \in cutOff') /\ (b \in unrecorded => b \in unrecorded')
      BY <1>0, <1>1, <2>1, <2>7
    <3> QED
      BY <1>t, <2>3, <2>7, <3>1, <3>2, <3>3, Untouched
  <2> QED
    BY <2>2, <2>5, <2>6, <2>7 DEF TokensInv
<1> QED
  BY <1>3, <1>4

\* What is erased leaves no hash, and nobody counts on one.
LEMMA EraseStep == ASSUME TokensInv, NEW a \in Bearers, Erase(a) PROVE TokensInv'
<1>t. TokenTypes /\ \A b \in Bearers : AloneMints(b) /\ OwnHeard(b)
  BY DEF TokensInv
<1>0. /\ recorded' = recorded \ {a} /\ hash' = [hash EXCEPT ![a] = NoToken]
      /\ start' = [o \in Starters |-> IF o \in Busy(a) THEN [start[o] EXCEPT !.kept = FALSE] ELSE start[o]]
      /\ cutOff' = cutOff \cup {a} /\ UNCHANGED <<cache, held, minted, check, unrecorded>>
  BY DEF Erase
<1>1. /\ hash' \in [Bearers -> Nat] /\ hash'[a] = NoToken
      /\ \A b \in Bearers : b # a => hash'[b] = hash[b]
      /\ \A b \in Bearers : b \notin recorded' => hash'[b] = NoToken
  BY <1>t, <1>0 DEF TokenTypes, NoToken
<1>2. ASSUME NEW o \in Busy(a)
      PROVE  /\ o \in Starters /\ start'[o] \in Starts /\ start'[o] # NoJob /\ start'[o].agent = a
             /\ start'[o].at = start[o].at /\ start'[o].token = start[o].token
             /\ start'[o].alone = start[o].alone /\ start'[o].kept = FALSE
  <2>1. o \in Starters /\ start[o] \in Starts /\ start[o].agent = a
    BY <1>t, BusyFacts
  <2>2. start'[o] = [start[o] EXCEPT !.kept = FALSE]
    BY <1>0, <2>1
  <2>3. ASSUME NEW r \in Starts
        PROVE  /\ [r EXCEPT !.kept = FALSE] \in Starts
               /\ [r EXCEPT !.kept = FALSE].at = r.at /\ [r EXCEPT !.kept = FALSE].agent = r.agent
               /\ [r EXCEPT !.kept = FALSE].token = r.token /\ [r EXCEPT !.kept = FALSE].alone = r.alone
               /\ [r EXCEPT !.kept = FALSE].kept = FALSE
    BY DEF Starts
  <2>4. \A r \in Starts : r # NoJob
    BY DEF Starts, NoJob
  <2> QED
    BY <2>1, <2>2, <2>3, <2>4
<1>3. \A o \in Starters : o \notin Busy(a) => start'[o] = start[o]
  BY <1>0
<1>4. start' \in [Starters -> {NoJob} \cup Starts]
  <2>1. \A o \in Starters : start'[o] \in {NoJob} \cup Starts
    BY <1>t, <1>2, <1>3 DEF TokenTypes
  <2>2. start' = [o \in Starters |-> start'[o]]
    BY <1>0
  <2> QED
    BY <2>1, <2>2
<1>5. TokenTypes'
  BY <1>t, <1>0, <1>1, <1>4 DEF TokenTypes
<1>6. \A b \in Bearers : Busy(b)' = Busy(b)
  <2>1. \A o \in Busy(a) : start[o] # NoJob /\ start[o].agent = a
    BY DEF Busy
  <2>2. \A o \in Starters : /\ start'[o] # NoJob <=> start[o] # NoJob
                            /\ start[o] # NoJob => start'[o].agent = start[o].agent
    BY <1>2, <1>3, <2>1
  <2> QED
    BY <2>2 DEF Busy
<1>7. Minting(a)' = Minting(a) /\ Minting(a) \subseteq Busy(a)
  BY <1>2, <1>6 DEF Minting, At
<1>8. AloneMints(a)'
  <2>1. ASSUME NEW o \in Minting(a)
        PROVE  /\ start'[o].token = start[o].token /\ start'[o].alone = start[o].alone
               /\ ~start'[o].kept /\ At(o, {"ready"})' = At(o, {"ready"})
    BY <1>2, <1>7 DEF At
  <2>2. ASSUME NEW o \in Minting(a), start'[o].alone
        PROVE  /\ Minting(a) = {o}
               /\ start'[o].token # Workspace =>
                    /\ start'[o].token # NoToken
                    /\ At(o, {"ready"})' => cache[a] = start'[o].token
    BY <1>t, <2>1, <2>2 DEF AloneMints
  <2> QED
    BY <1>0, <1>1, <1>7, <2>1, <2>2 DEF AloneMints
<1>9. OwnHeard(a)'
  BY <1>0 DEF OwnHeard, Own
<1>10. ASSUME NEW b \in Bearers, b # a PROVE AloneMints(b)' /\ OwnHeard(b)'
  <2>1. \A o \in Busy(b) : start'[o] = start[o]
    BY <1>3, <1>10 DEF Busy
  <2>2. \A v \in Checks : check'[v] # NoJob /\ check'[v].agent = b => check'[v] = check[v]
    BY <1>0
  <2> QED
    BY <1>t, <1>0, <1>1, <1>6, <1>10, <2>1, <2>2, Untouched
<1> QED
  BY <1>5, <1>8, <1>9, <1>10 DEF TokensInv

LEMMA SaveSteps ==
  ASSUME TokensInv, NEW a \in Bearers, SaveAgent(a) \/ SessionOver(a)
  PROVE  TokensInv'
<1>t. TokenTypes /\ \A b \in Bearers : AloneMints(b) /\ OwnHeard(b)
  BY DEF TokensInv
<1>0. /\ recorded \subseteq recorded' /\ UNCHANGED <<hash, cache, minted, start, check, unrecorded, cutOff>>
      /\ DOMAIN held' = Bearers
      /\ \A b \in Bearers : held'[b] \in {held[b], NoToken}
  BY <1>t DEF SaveAgent, SessionOver, TokenTypes
<1>1. TokenTypes'
  BY <1>t, <1>0 DEF TokenTypes
<1>2. ASSUME NEW b \in Bearers PROVE AloneMints(b)' /\ OwnHeard(b)'
  <2>1. Busy(b)' = Busy(b) /\ Minting(b)' = Minting(b)
    BY <1>0 DEF Busy, Minting, At
  <2>2. \A o, S : At(o, S)' = At(o, S)
    BY <1>0 DEF At
  <2>3. AloneMints(b)'
    BY <1>t, <1>0, <2>1, <2>2 DEF AloneMints
  <2>4. Own(b)' => Own(b) /\ held'[b] = held[b]
    BY <1>0 DEF Own
  <2>5. OwnHeard(b)'
    BY <1>t, <1>0, <2>1, <2>2, <2>4 DEF OwnHeard
  <2> QED
    BY <2>3, <2>5
<1> QED
  BY <1>1, <1>2 DEF TokensInv

\* The cache is lost; what was minted with a row is still in the row.
LEMMA RebootStep == ASSUME TokensInv, Reboot PROVE TokensInv'
<1>t. TokenTypes /\ \A b \in Bearers : OwnHeard(b)
  BY DEF TokensInv
<1>1. TokenTypes'
  BY <1>t DEF Reboot, TokenTypes
<1>2. ASSUME NEW b \in Bearers PROVE AloneMints(b)' /\ OwnHeard(b)'
  <2>1. Busy(b)' = {} /\ Minting(b)' = {} /\ cache'[b] = NoToken /\ \A v \in Checks : check'[v] = NoJob
    BY DEF Reboot, Busy, Minting
  <2>2. AloneMints(b)'
    BY <2>1 DEF AloneMints
  <2>3. /\ UNCHANGED <<hash, held, unrecorded>>
        /\ Own(b)' => Own(b) /\ b \notin unrecorded
    BY DEF Reboot, Own
  <2>4. OwnHeard(b)'
    BY <1>t, <2>1, <2>3 DEF OwnHeard
  <2> QED
    BY <2>2, <2>4
<1> QED
  BY <1>1, <1>2 DEF TokensInv

LEMMA StepTokens == TokensInv /\ [TokensNext]_tokenVars => TokensInv'
<1> SUFFICES ASSUME TokensInv, [TokensNext]_tokenVars PROVE TokensInv'
  OBVIOUS
<1>1. ASSUME NEW o \in Starters, NEW a \in Bearers, NEW kind \in {"spawn", "create", "restart"},
             Mint(o, kind, a) \/ MintFails(o, kind, a)
      PROVE  TokensInv'
  BY <1>1, MintSteps
<1>2. ASSUME NEW o \in Starters, Publish(o) \/ Launch(o) \/ LaunchFails(o) \/ Record(o)
      PROVE  TokensInv'
  BY <1>2, PublishStep, LaunchStep, EndSteps
<1>3. ASSUME NEW v \in Checks, NEW a \in Bearers, Look(v, a) PROVE TokensInv'
  BY <1>3, LookStep
<1>4. ASSUME NEW v \in Checks, Fill(v) PROVE TokensInv'
  BY <1>4, FillStep
<1>5. ASSUME NEW a \in Bearers, SaveAgent(a) \/ Erase(a) \/ SessionOver(a) PROVE TokensInv'
  BY <1>5, SaveSteps, EraseStep
<1>6. CASE UNCHANGED tokenVars
  <2>1. UNCHANGED <<recorded, hash, cache, held, minted, start, check, unrecorded, cutOff>>
    BY <1>6 DEF tokenVars
  <2>2. \A b \in Bearers : Busy(b)' = Busy(b) /\ Minting(b)' = Minting(b)
    BY <2>1 DEF Busy, Minting, At
  <2>3. \A o, S : At(o, S)' = At(o, S)
    BY <2>1 DEF At
  <2>4. TokenTypes'
    BY <2>1 DEF TokensInv, TokenTypes
  <2>5. \A b \in Bearers : AloneMints(b)'
    BY <2>1, <2>2, <2>3 DEF TokensInv, AloneMints
  <2>6. \A b \in Bearers : OwnHeard(b)'
    BY <2>1, <2>2, <2>3 DEF TokensInv, OwnHeard, Own
  <2> QED
    BY <2>4, <2>5, <2>6 DEF TokensInv
<1> QED
  BY <1>1, <1>2, <1>3, <1>4, <1>5, <1>6, RebootStep DEF TokensNext

\* The inductive invariant holds whatever the number of agents, starts and posts.
THEOREM TokensInvariant == TokensSpec => []TokensInv
  BY InitTokens, StepTokens, PTL DEF TokensSpec

\* The token a session was started with is accepted, but for the agents whose
\* session lost it, however starts, posts, deletes and reboots interleave.
THEOREM OwnTokenAccepted == TokensSpec => []SessionHeard
<1>1. TokensInv => SessionHeard
  <2> SUFFICES ASSUME TokensInv, NEW a \in Bearers \ cutOff, held[a] # NoToken
               PROVE  Accepted(a, held[a])
    BY DEF SessionHeard
  <2>1. CASE held[a] = Workspace
    BY <2>1 DEF Accepted
  <2>2. CASE held[a] # Workspace
    <3>1. Own(a) /\ OwnHeard(a)
      BY <2>2 DEF Own, TokensInv
    <3> QED
      BY <3>1 DEF OwnHeard, Own, Accepted
  <2> QED
    BY <2>1, <2>2
<1> QED
  BY <1>1, TokensInvariant, PTL

=============================================================================
