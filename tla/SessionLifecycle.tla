-------------------------- MODULE SessionLifecycle --------------------------
(***************************************************************************)
(* One agent and the sessions it runs in (lifecycle.go, handlers_agent.go, *)
(* tmux.go, session_backend_tmux.go, session_backend_ambient.go).          *)
(*                                                                         *)
(* A request that starts, stops or replaces a session calls the backend    *)
(* without holding Server.mu, between two critical sections.  In the first *)
(* it captures the pointer to the record and the session it names, in the  *)
(* last one it writes through that pointer.  Meanwhile a status post may   *)
(* have put another object in the place of the record, and another request *)
(* may have changed the session.  Only spawns exclude each other.          *)
(*                                                                         *)
(* A backend may answer wrongly: a lookup that fails reads as a missing    *)
(* session, and a call that ends in an error may have made one.            *)
(***************************************************************************)
EXTENDS FiniteSets, Naturals

CONSTANTS
  Handlers,       \* requests that can be in progress at once
  Ops,            \* the kinds of request made in this instance
  Backends,       \* the backends configured: "tmux", "ambient"
  DefaultBackend,
  Default,        \* tmux name made of the space and the agent
  Alternate,      \* the same with "-new" appended
  OwnNames,       \* tmux names that a spawn can ask for instead
  AmbientIds,     \* names the ambient backend can generate (a bound)
  Objects,        \* identities of records (a bound, see ObjectsSuffice)
  None            \* no session, no record, no backend, no handler

Kinds == {"spawn", "create", "stop", "restart", "restartall", "delete",
          "status", "ignite", "discover"}

TmuxNames == {Default, Alternate} \cup OwnNames

Sessions == TmuxNames \cup AmbientIds

ASSUME LifecycleAssumption ==
  /\ Ops \subseteq Kinds
  /\ Backends \subseteq {"tmux", "ambient"} /\ DefaultBackend \in Backends
  /\ Default # Alternate /\ TmuxNames \cap AmbientIds = {}
  /\ None \notin Sessions \cup Objects \cup Handlers \cup Backends \cup Kinds

\* Every request holds one object, the space another, and a post adds one.
ASSUME ObjectsSuffice ==
  /\ IsFiniteSet(Handlers) /\ IsFiniteSet(Objects)
  /\ Cardinality(Objects) >= Cardinality(Handlers) + 2

VARIABLES
  live,    \* the sessions that exist in the backends
  rec,     \* the object that KnowledgeSpace.Agents holds for the agent
  heap,    \* heap[o]: SessionID and BackendType of object o
  guard,   \* the spawn that holds the entry of spawnInProgress
  req,     \* req[h]: the request h is serving, how far it is, and its locals
  leaked   \* history: the running sessions that requests let go of

vars == <<live, rec, heap, guard, req, leaked>>

Record == [sess : Sessions \cup {None}, backend : Backends \cup {None}]

Stages == {"idle", "probe", "kill", "clear", "launch", "register"}

Request == [op : Kinds \cup {None}, at : Stages, obj : Objects \cup {None},
            sess : Sessions \cup {None}, backend : Backends \cup {None},
            name : TmuxNames \cup {None}]

TypeOK ==
  /\ live \subseteq Sessions
  /\ rec \in Objects \cup {None}
  /\ heap \in [Objects -> Record]
  /\ guard \in Handlers \cup {None}
  /\ req \in [Handlers -> Request]
  /\ leaked \subseteq Sessions

Blank == [sess |-> None, backend |-> None]

Idle == [op |-> None, at |-> "idle", obj |-> None, sess |-> None, backend |-> None,
         name |-> None]

Init ==
  /\ live = {}
  /\ rec = None
  /\ heap = [o \in Objects |-> Blank]
  /\ guard = None
  /\ req = [h \in Handlers |-> Idle]
  /\ leaked = {}

-----------------------------------------------------------------------------
(* Helpers.                                                                *)

Starts(h, op) == req[h].at = "idle" /\ op \in Ops

At(h, op, at) == req[h].op = op /\ req[h].at = at

Named == IF rec = None THEN None ELSE heap[rec].sess

\* backendFor, and backendByName of a BackendType that may be empty.
BackendOr(b) == IF b = None THEN DefaultBackend ELSE b

OwnedBy(b) == IF b = "tmux" THEN TmuxNames ELSE AmbientIds

Exists(b, s) == s \in live /\ s \in OwnedBy(b)

\* The sessions that the record names, or that a request is about to name or kill.
Known == {Named} \cup {req[h].sess : h \in {h \in Handlers : req[h].op # "discover"}}

\* What CreateSession can start: the tmux name asked for, unless it exists, or
\* any new name of the ambient backend.
Startable(b, name) ==
  IF b = "tmux" THEN {name} \ live
                ELSE AmbientIds \ (live \cup Known \cup {heap[o].sess : o \in Objects})

NewObject == CHOOSE o \in Objects : o # rec /\ \A h \in Handlers : o # req[h].obj

\* An object is put in the place of the record; the garbage is blanked.
Put(r) ==
  LET o == NewObject IN
    /\ rec' = o
    /\ heap' = [p \in Objects |->
                  IF p = o THEN r
                  ELSE IF \E h \in Handlers : req[h].obj = p THEN heap[p] ELSE Blank]

SetSession(o, s) == heap' = [heap EXCEPT ![o] = [sess |-> s, backend |-> heap[o].backend]]

Answer(h) == req' = [req EXCEPT ![h] = Idle]

Step(h, at, s) == req' = [req EXCEPT ![h].at = at, ![h].sess = s]

Capture(h, op, at) ==
  req' = [req EXCEPT ![h] = [Idle EXCEPT !.op = op, !.at = at, !.obj = rec, !.sess = Named,
                                         !.backend = heap[rec].backend]]

ReleaseGuard(h) == guard' = IF guard = h THEN None ELSE guard

\* KillSession of an existing session, with success.
Killed(s) == live' = live \ {s} /\ leaked' = leaked \ {s}

\* A session that is not killed, because that fails or because it is not found, is
\* let go of if it runs.
NotKilled(s) == leaked' = leaked \cup ({s} \cap live) /\ UNCHANGED live

\* The record comes to name s and lets go of the session it named.
Names(s) == leaked' = (leaked \cup ({Named} \cap live)) \ {s}

\* The ambient backend may answer without a name.
Nameless(b) == IF b = "ambient" THEN {None} ELSE {}

\* CreateSession answers with an error.  A session of S may have been made.
CreateFails(S) ==
  \E T \in {{}} \cup {{s} : s \in S} : live' = live \cup T /\ leaked' = leaked \cup T

-----------------------------------------------------------------------------
(* Spawn and create.                                                       *)

SpawnBeginUnguarded(h, b, n) ==    \* mutant: does not look for another's entry
  /\ Starts(h, "spawn")
  /\ guard' = h
  /\ req' = [req EXCEPT ![h] = [Idle EXCEPT !.op = "spawn", !.at = "probe",
                                            !.backend = b, !.name = n]]
  /\ UNCHANGED <<live, rec, heap, leaked>>

\* LoadOrStore of the entry in spawnInProgress; another spawn's refuses with 409.
\* The caller may name the session.
SpawnBegin(h, b, n) ==
  /\ Starts(h, "spawn")
  /\ guard = None
  /\ guard' = h
  /\ req' = [req EXCEPT ![h] = [Idle EXCEPT !.op = "spawn", !.at = "probe",
                                            !.backend = b, !.name = n]]
  /\ UNCHANGED <<live, rec, heap, leaked>>

SpawnProbeKeepsGuard(h) ==    \* mutant: refuses without deleting the entry
  /\ At(h, "spawn", "probe")
  /\ \/ Exists("tmux", req[h].name) /\ req[h].backend = "tmux" /\ Answer(h)
     \/ Step(h, "launch", None)
  /\ UNCHANGED <<live, rec, heap, guard, leaked>>

\* A tmux session of that name is refused with 409, if the lookup finds it.
SpawnProbe(h) ==
  /\ At(h, "spawn", "probe")
  /\ \/ /\ Exists("tmux", req[h].name) /\ req[h].backend = "tmux"
        /\ Answer(h) /\ ReleaseGuard(h)
     \/ Step(h, "launch", None) /\ UNCHANGED guard
  /\ UNCHANGED <<live, rec, heap, leaked>>

\* CreateSession; a name that is empty is refused like an error.
SpawnLaunch(h) ==
  LET S == Startable(req[h].backend, req[h].name) IN
  /\ At(h, "spawn", "launch")
  /\ \/ \E s \in S :
          live' = live \cup {s} /\ Step(h, "register", s) /\ UNCHANGED <<guard, leaked>>
     \/ Answer(h) /\ ReleaseGuard(h) /\ CreateFails(S)
  /\ UNCHANGED <<rec, heap>>

\* POST /agents: no guard and no probe, and an empty name is taken for a session.
CreateLaunch(h, b) ==
  /\ Starts(h, "create")
  /\ \E s \in Startable(b, Default) :
       /\ live' = live \cup {s}
       /\ \/ leaked' = leaked \cup {s} /\ UNCHANGED req
          \/ \E n \in {s} \cup Nameless(b) :
               /\ req' = [req EXCEPT ![h] = [Idle EXCEPT !.op = "create", !.at = "register",
                                                         !.sess = n, !.backend = b]]
               /\ leaked' = leaked \cup ({s} \ {n})
  /\ UNCHANGED <<rec, heap, guard>>

\* The session is written to the record, which is made if there is none.
Register(h) ==
  /\ req[h].at = "register" /\ req[h].op \in {"spawn", "create"}
  /\ LET r == [sess |-> req[h].sess, backend |-> req[h].backend] IN
       IF rec = None THEN Put(r) ELSE heap' = [heap EXCEPT ![rec] = r] /\ UNCHANGED rec
  /\ Names(req[h].sess)
  /\ Answer(h) /\ ReleaseGuard(h)
  /\ UNCHANGED live

-----------------------------------------------------------------------------
(* Stop, restart, restart-all and delete.                                  *)

StopBegin(h) ==
  /\ Starts(h, "stop") /\ Named # None
  /\ Capture(h, "stop", "kill")
  /\ UNCHANGED <<live, rec, heap, guard, leaked>>

\* A session that is missing (404) or cannot be killed (500) ends the request.
StopKill(h) ==
  LET s == req[h].sess  b == BackendOr(heap[req[h].obj].backend) IN
  /\ At(h, "stop", "kill")
  /\ \/ Exists(b, s) /\ Killed(s) /\ Step(h, "clear", None)
     \/ Answer(h) /\ UNCHANGED <<live, leaked>>
  /\ UNCHANGED <<rec, heap, guard>>

StopRecord(h) ==
  /\ At(h, "stop", "clear")
  /\ SetSession(req[h].obj, None)
  /\ Answer(h)
  /\ UNCHANGED <<live, rec, guard, leaked>>

RestartBegin(h) ==
  /\ Starts(h, "restart") /\ Named # None
  /\ Capture(h, "restart", "kill")
  /\ UNCHANGED <<live, rec, heap, guard, leaked>>

\* A session that is not found is no error here; one that cannot be killed is (500).
RestartKill(h) ==
  LET s == req[h].sess
      b == BackendOr(heap[req[h].obj].backend)
      Go == req' = [req EXCEPT ![h].at = "clear", ![h].sess = None, ![h].backend = b]
  IN
  /\ At(h, "restart", "kill")
  /\ \/ Exists(b, s) /\ Killed(s) /\ Go
     \/ Exists(b, s) /\ Answer(h) /\ UNCHANGED <<live, leaked>>
     \/ Go /\ NotKilled(s)
  /\ UNCHANGED <<rec, heap, guard>>

RestartClear(h) ==
  /\ At(h, "restart", "clear")
  /\ SetSession(req[h].obj, None)
  /\ Step(h, "launch", None)
  /\ UNCHANGED <<live, rec, guard, leaked>>

\* For each agent that names a session, restart-all re-reads the record, ...
RestartAllBegin(h) ==
  /\ Starts(h, "restartall") /\ Named # None
  /\ req' = [req EXCEPT ![h] = [Idle EXCEPT !.op = "restartall", !.at = "kill", !.obj = rec,
                                            !.backend = BackendOr(heap[rec].backend)]]
  /\ UNCHANGED <<live, rec, heap, guard, leaked>>

\* ... kills what it names now, whatever comes of that, and starts another.
RestartAllKill(h) ==
  LET s == heap[req[h].obj].sess IN
  /\ At(h, "restartall", "kill")
  /\ Step(h, "launch", None)
  /\ \/ Exists(req[h].backend, s) /\ Killed(s)
     \/ NotKilled(s)
  /\ UNCHANGED <<rec, heap, guard>>

\* A lookup of Default that fails leads to a CreateSession that fails.
RestartLaunch(h) ==
  LET b == req[h].backend
      S == Startable(b, IF Default \in live THEN Alternate ELSE Default)
  IN
  /\ At(h, "restart", "launch") \/ At(h, "restartall", "launch")
  /\ \/ \E s \in S : \E n \in {s} \cup Nameless(b) :
          /\ live' = live \cup {s} /\ leaked' = leaked \cup ({s} \ {n})
          /\ Step(h, "register", n)
     \/ Answer(h) /\ CreateFails(S)
  /\ UNCHANGED <<rec, heap, guard>>

RestartRecord(h) ==
  /\ At(h, "restart", "register") \/ At(h, "restartall", "register")
  /\ SetSession(req[h].obj, req[h].sess)
  /\ Answer(h)
  /\ UNCHANGED <<live, rec, guard, leaked>>

DeleteRecordForgets(h) ==    \* mutant: reads the session of the record it removed
  /\ Starts(h, "delete") /\ rec # None
  /\ rec' = None
  /\ UNCHANGED <<live, heap, guard, leaked, req>>

DeleteRecord(h) ==
  /\ Starts(h, "delete") /\ rec # None
  /\ rec' = None
  /\ IF Named = None THEN UNCHANGED req ELSE Capture(h, "delete", "kill")
  /\ UNCHANGED <<live, heap, guard, leaked>>

\* Errors are logged only.
DeleteKill(h) ==
  LET s == req[h].sess  b == BackendOr(req[h].backend) IN
  /\ At(h, "delete", "kill")
  /\ Answer(h)
  /\ \/ Exists(b, s) /\ Killed(s)
     \/ NotKilled(s)
  /\ UNCHANGED <<rec, heap, guard>>

-----------------------------------------------------------------------------
(* What agents and the clock do.                                           *)

\* A report names any session, or none.
Reported == Sessions \cup {None}

\* A status post stores a new object: SessionID is sticky, BackendType is not.
PostStatus(h, s) ==
  /\ Starts(h, "status")
  /\ Put([sess |-> IF s = None THEN Named ELSE s, backend |-> None])
  /\ Names(IF s = None THEN Named ELSE s)
  /\ UNCHANGED <<live, guard, req>>

\* GET /ignition with session_id.
Ignite(h, s) ==
  /\ Starts(h, "ignite") /\ s # None
  /\ IF rec = None THEN Put([sess |-> s, backend |-> None])
                   ELSE SetSession(rec, s) /\ UNCHANGED rec
  /\ Names(s)
  /\ UNCHANGED <<live, guard, req>>

\* AutoDiscoverAll lists the labelled sessions, then takes the lock.
DiscoverList(h) ==
  /\ Starts(h, "discover") /\ rec # None /\ "ambient" \in Backends
  /\ \E s \in live \cap AmbientIds :
       req' = [req EXCEPT ![h] = [Idle EXCEPT !.op = "discover", !.at = "register",
                                              !.sess = s, !.backend = "ambient"]]
  /\ UNCHANGED <<live, rec, heap, guard, leaked>>

DiscoverAssign(h) ==
  /\ At(h, "discover", "register")
  /\ IF rec # None /\ Named = None
     THEN /\ heap' = [heap EXCEPT ![rec] = [sess |-> req[h].sess, backend |-> "ambient"]]
          /\ Names(req[h].sess)
     ELSE UNCHANGED <<heap, leaked>>
  /\ Answer(h)
  /\ UNCHANGED <<live, rec, guard>>

SessionExit(s) ==
  /\ s \in live
  /\ Killed(s)
  /\ UNCHANGED <<rec, heap, guard, req>>

-----------------------------------------------------------------------------
Begin(h) ==
  \/ \E b \in Backends :
       (\E n \in TmuxNames : SpawnBegin(h, b, n)) \/ CreateLaunch(h, b)
  \/ StopBegin(h) \/ RestartBegin(h) \/ RestartAllBegin(h)
  \/ DeleteRecord(h) \/ DiscoverList(h)

Reports(h) == \E s \in Reported : PostStatus(h, s) \/ Ignite(h, s)

Proceed(h) ==
  \/ SpawnProbe(h) \/ SpawnLaunch(h) \/ Register(h)
  \/ StopKill(h) \/ StopRecord(h)
  \/ RestartKill(h) \/ RestartClear(h) \/ RestartAllKill(h)
  \/ RestartLaunch(h) \/ RestartRecord(h)
  \/ DeleteKill(h) \/ DiscoverAssign(h)

Next ==
  \/ \E h \in Handlers : Begin(h) \/ Reports(h) \/ Proceed(h)
  \/ \E s \in Sessions : SessionExit(s)

Spec == Init /\ [][Next]_vars

\* The backends answer: no request waits in one for ever.
FairSpec == Spec /\ \A h \in Handlers : WF_vars(Proceed(h))

-----------------------------------------------------------------------------
(* A session nobody can stop any more is the hazard of this code: its      *)
(* agent goes on working while a second one takes its place.               *)

\* Every session that runs is named by the record or is in the hands of a request,
\* unless one let go of it: it failed to kill it, or did not find it; its creation
\* ended in an error or without a name; or the record was given another session in
\* its place, by a spawn, a create or a report (lifecycle.go:422, 601, 870,
\* handlers_agent.go:130, 273, 755, 1587-1606).
Tracked == live \subseteq Known \cup leaked

\* What a request holds: nothing before it begins, and no session while it looks
\* for one or starts one.
Holds(r) ==
  /\ r.at = "idle" => r = Idle
  /\ r.at \in {"probe", "clear", "launch"} => r.sess = None
  /\ r.at = "probe" => r.op = "spawn"
  /\ r.op = "restartall" /\ r.at = "kill" => r.sess = None
  /\ r.op = "discover" => r.at = "register" /\ "ambient" \in Backends

\* The inductive invariant behind Tracked when nobody stops or restarts; it holds for
\* all requests, one at a time.
TrackedInv == TypeOK /\ Tracked /\ \A h \in Handlers : Holds(req[h])

\* An agent has one spawn under way at most, and its entry in spawnInProgress is
\* there exactly as long: no end of a spawn, whatever fails, leaves it behind, and
\* no other request takes it away (lifecycle.go:289-299).
SpawnsExclude == \A h \in Handlers : guard = h <=> req[h].op = "spawn"

\* A stop that succeeds has marked its agent as done, as the tool promises
\* (mcp_tools.go:1165): the object it writes to is the agent's, if that is there.
StopMarksDone ==
  [][\A h \in Handlers : StopRecord(h) => rec \in {req[h].obj, None}]_vars

\* The entry of a spawn in spawnInProgress goes away, whatever happens, so that
\* the agent can be spawned again (lifecycle.go:299).
SpawnFreed == \A h \in Handlers : guard = h ~> guard # h
=============================================================================
