----------------------- MODULE SessionLifecycleProofs -----------------------
(***************************************************************************)
(* For any requests on any server, whatever the backends answer: spawns    *)
(* exclude each other.  For any number of overlapping requests that do not *)
(* stop or restart, and for one request at a time of any kind: a session   *)
(* that runs is tracked, unless a request let go of it.                    *)
(***************************************************************************)
EXTENDS SessionLifecycle, FiniteSetTheorems, TLAPS

\* There is always an object that neither the space nor a request holds, so a
\* post can store one of its own (handlers_agent.go:171).
LEMMA FreshObject ==
  ASSUME TypeOK
  PROVE  /\ NewObject \in Objects
         /\ NewObject # rec
<1> DEFINE f == [h \in Handlers |-> req[h].obj]
           T == {f[h] : h \in Handlers}
           Held == T \cup {rec}
<1>1. IsFiniteSet(Handlers) /\ IsFiniteSet(Objects)
  BY ObjectsSuffice
<1>2. f \in Surjection(Handlers, T)
  BY DEF Surjection
<1>3. IsFiniteSet(T) /\ Cardinality(T) <= Cardinality(Handlers)
  <2> HIDE DEF f, T
  <2> QED BY <1>1, <1>2, FS_Surjection
<1>4. IsFiniteSet(Held) /\ Cardinality(Held) <= Cardinality(T) + 1
  <2> HIDE DEF T
  <2>1. Cardinality(T) \in Nat
    BY <1>3, FS_CardinalityType
  <2>2. /\ IsFiniteSet(T \cup {rec})
        /\ Cardinality(T \cup {rec}) = IF rec \in T THEN Cardinality(T) ELSE Cardinality(T) + 1
    BY <1>3, FS_AddElement
  <2> QED BY <2>1, <2>2
<1>5. Cardinality(Held) < Cardinality(Objects)
  <2> HIDE DEF Held, T
  <2> QED BY <1>1, <1>3, <1>4, ObjectsSuffice, FS_CardinalityType
<1>6. ~(Objects \subseteq Held)
  <2> HIDE DEF Held
  <2> QED BY <1>1, <1>4, <1>5, FS_Subset, FS_CardinalityType
<1>7. PICK o \in Objects : o \notin Held
  BY <1>6
<1>8. o # rec /\ \A h \in Handlers : o # req[h].obj
  BY <1>7
<1> QED
  BY <1>7, <1>8 DEF NewObject

\* After Put(r) the record is r, whatever the objects that requests hold.
LEMMA PutFacts ==
  ASSUME TypeOK, NEW r \in Record, Put(r)
  PROVE  /\ rec' \in Objects
         /\ heap' \in [Objects -> Record]
         /\ Named' = r.sess
<1>1. NewObject \in Objects
  BY FreshObject
<1>2. rec' = NewObject
  BY DEF Put
<1>3. heap' = [p \in Objects |->
                 IF p = NewObject THEN r
                 ELSE IF \E h \in Handlers : req[h].obj = p THEN heap[p] ELSE Blank]
  BY DEF Put
<1>4. Blank \in Record
  BY DEF Blank, Record
<1>5. heap' \in [Objects -> Record]
  BY <1>3, <1>4 DEF TypeOK
<1>6. heap'[rec'] = r
  BY <1>1, <1>2, <1>3
<1>7. rec' # None
  BY <1>1, <1>2, LifecycleAssumption
<1> QED
  BY <1>1, <1>2, <1>5, <1>6, <1>7 DEF Named

\* SetSession of the record changes the session it names.
LEMMA SetFacts ==
  ASSUME TypeOK, rec # None, NEW s \in Sessions \cup {None}, SetSession(rec, s), rec' = rec
  PROVE  heap' \in [Objects -> Record] /\ Named' = s
<1>1. rec \in Objects
  BY DEF TypeOK
<1>2. heap' \in [Objects -> Record]
  BY <1>1 DEF SetSession, TypeOK, Record
<1>3. heap'[rec].sess = s
  BY <1>1 DEF SetSession, TypeOK
<1> QED
  BY <1>2, <1>3 DEF Named

\* SetSession writes any object, or nothing when there is none.
LEMMA SetTypes ==
  ASSUME TypeOK, NEW o, NEW s \in Sessions \cup {None}, SetSession(o, s)
  PROVE  heap' \in [Objects -> Record]
<1>1. CASE o \in Objects
  BY <1>1 DEF SetSession, TypeOK, Record
<1>2. CASE o \notin Objects
  BY <1>2 DEF SetSession, TypeOK
<1> QED
  BY <1>1, <1>2

-----------------------------------------------------------------------------
(* Any requests that overlap in any way, on any server.                    *)

\* What is true of every request: its kind is allowed, a spawn has a name for its
\* session, and a restart has a record in hand.
Served(r) ==
  /\ r \in Request /\ Holds(r)
  /\ r.op \in Ops \cup {None}
  /\ r.op = "spawn" => r.name \in TmuxNames
  /\ r.op = "restart" => r.obj \in Objects

SpawnInv == TypeOK /\ SpawnsExclude /\ \A h \in Handlers : Served(req[h])

LEMMA IdleServed == Served(Idle) /\ Idle.op # "spawn" /\ Idle \in Request
BY LifecycleAssumption DEF Served, Idle, Request, Stages, Kinds, Holds

\* What a step of request h has to establish: it becomes r.
LEMMA GuardStep ==
  ASSUME SpawnInv, NEW h \in Handlers, NEW r, Served(r),
         req' = [req EXCEPT ![h] = r],
         \/ guard' = guard /\ (r.op = "spawn" <=> guard = h)
         \/ guard' = h /\ guard = None /\ r.op = "spawn"
         \/ guard' = None /\ guard = h /\ r.op # "spawn",
         rec' \in Objects \cup {None}, heap' \in [Objects -> Record],
         leaked' \subseteq Sessions, live' \subseteq Sessions
  PROVE  SpawnInv'
<1> USE LifecycleAssumption
<1>1. /\ req' \in [Handlers -> Request] /\ req'[h] = r
      /\ \A g \in Handlers \ {h} : req'[g] = req[g]
  BY DEF SpawnInv, TypeOK, Served
<1>2. TypeOK'
  BY <1>1 DEF SpawnInv, TypeOK
<1>3. \A g \in Handlers : Served(req'[g])
  BY <1>1 DEF SpawnInv
<1>4. ASSUME NEW g \in Handlers PROVE guard' = g <=> req'[g].op = "spawn"
  <2>1. guard = g <=> req[g].op = "spawn"
    BY DEF SpawnInv, SpawnsExclude
  <2>2. CASE g = h
    BY <1>1, <2>2
  <2>3. CASE g # h
    BY <1>1, <2>1, <2>3
  <2> QED
    BY <2>2, <2>3
<1> QED
  BY <1>2, <1>3, <1>4 DEF SpawnInv, SpawnsExclude, Served

\* A step that answers request h, and releases the entry if it is its own.
LEMMA GuardAnswer ==
  ASSUME SpawnInv, NEW h \in Handlers, Answer(h),
         ReleaseGuard(h) \/ (guard' = guard /\ req[h].op # "spawn"),
         rec' \in Objects \cup {None}, heap' \in [Objects -> Record],
         leaked' \subseteq Sessions, live' \subseteq Sessions
  PROVE  SpawnInv'
<1>1. Served(Idle) /\ Idle.op # "spawn"
  BY IdleServed
<1>2. \/ guard' = guard /\ guard # h
      \/ guard' = None /\ guard = h
  BY DEF ReleaseGuard, SpawnInv, SpawnsExclude
<1> QED
  BY <1>1, <1>2, GuardStep DEF Answer

\* A step that goes on with request h and leaves the entry alone.
LEMMA GuardGoesOn ==
  ASSUME SpawnInv, NEW h \in Handlers, NEW at \in Stages \ {"idle", "probe"},
         NEW s \in Sessions \cup {None}, NEW b \in Backends \cup {None},
         at # "register" => s = None /\ req[h].op # "discover",
         req' = [req EXCEPT ![h].at = at, ![h].sess = s, ![h].backend = b],
         UNCHANGED guard,
         rec' \in Objects \cup {None}, heap' \in [Objects -> Record],
         leaked' \subseteq Sessions, live' \subseteq Sessions
  PROVE  SpawnInv'
<1> DEFINE r == [req[h] EXCEPT !.at = at, !.sess = s, !.backend = b]
<1>1. Served(req[h]) /\ (guard = h <=> req[h].op = "spawn")
  BY DEF SpawnInv, SpawnsExclude
<1>2. Served(r) /\ r.op = req[h].op
  BY <1>1 DEF Served, Request, Holds
<1>3. req' = [req EXCEPT ![h] = r]
  BY <1>1 DEF SpawnInv, TypeOK, Request
<1> HIDE DEF r
<1> QED
  BY <1>1, <1>2, <1>3, GuardStep

\* Step leaves the backend of the request alone.
LEMMA GuardSteps ==
  ASSUME SpawnInv, NEW h \in Handlers, NEW at \in Stages \ {"idle", "probe"},
         NEW s \in Sessions \cup {None}, Step(h, at, s), UNCHANGED guard,
         at # "register" => s = None /\ req[h].op # "discover",
         rec' \in Objects \cup {None}, heap' \in [Objects -> Record],
         leaked' \subseteq Sessions, live' \subseteq Sessions
  PROVE  SpawnInv'
<1>1. req[h] \in Request /\ req[h].backend \in Backends \cup {None}
  BY DEF SpawnInv, Served, Request
<1>2. req' = [req EXCEPT ![h].at = at, ![h].sess = s, ![h].backend = req[h].backend]
  BY <1>1 DEF Step, SpawnInv, TypeOK, Request
<1> QED
  BY <1>1, <1>2, GuardGoesOn

\* What CreateSession can start is a session, if it is asked for one.
LEMMA StartableType ==
  ASSUME NEW b, NEW n \in TmuxNames
  PROVE  Startable(b, n) \subseteq Sessions
BY DEF Startable, Sessions

\* What the backends and the names do to the sessions keeps their types.
LEMMA SessionTypes ==
  ASSUME TypeOK
  PROVE  /\ Named \in Sessions \cup {None}
         /\ \A s : Killed(s) => live' \subseteq Sessions /\ leaked' \subseteq Sessions
         /\ \A s : NotKilled(s) => live' \subseteq Sessions /\ leaked' \subseteq Sessions
         /\ \A s : Names(s) => leaked' \subseteq Sessions
         /\ \A S \in SUBSET Sessions :
              CreateFails(S) => live' \subseteq Sessions /\ leaked' \subseteq Sessions
<1>1. live \subseteq Sessions /\ leaked \subseteq Sessions
  BY DEF TypeOK
<1>2. Named \in Sessions \cup {None}
  BY DEF TypeOK, Named, Record
<1>3. ASSUME NEW S \in SUBSET Sessions, CreateFails(S)
      PROVE  live' \subseteq Sessions /\ leaked' \subseteq Sessions
  BY <1>1, <1>3 DEF CreateFails
<1> QED
  BY <1>1, <1>2, <1>3 DEF Killed, NotKilled, Names

\* What any state with the invariant says of the record and of a request.
LEMMA GuardFacts ==
  ASSUME SpawnInv, NEW h \in Handlers
  PROVE  /\ TypeOK /\ Served(req[h]) /\ (guard = h <=> req[h].op = "spawn")
         /\ Named \in Sessions \cup {None}
         /\ Named # None => rec \in Objects
         /\ \A o \in Objects : heap[o].backend \in Backends \cup {None}
         /\ \A op : Starts(h, op) => req[h] = Idle /\ guard # h /\ op \in Ops
<1>1. TypeOK /\ Served(req[h]) /\ (guard = h <=> req[h].op = "spawn")
  BY DEF SpawnInv, SpawnsExclude
<1>2. ASSUME NEW op, Starts(h, op) PROVE req[h] = Idle /\ guard # h /\ op \in Ops
  BY <1>1, <1>2, IdleServed DEF Starts, Served, Holds
<1> QED
  BY <1>1, <1>2 DEF TypeOK, Named, Record

\* A request that begins takes the entry if it is a spawn.
LEMMA GuardBegins ==
  ASSUME SpawnInv, NEW h \in Handlers, Begin(h)
  PROVE  SpawnInv'
<1> USE LifecycleAssumption
<1>f. /\ TypeOK /\ Served(req[h]) /\ (guard = h <=> req[h].op = "spawn")
      /\ Named \in Sessions \cup {None}
      /\ Named # None => rec \in Objects
      /\ \A o \in Objects : heap[o].backend \in Backends \cup {None}
      /\ \A op : Starts(h, op) => req[h] = Idle /\ guard # h /\ op \in Ops
  BY GuardFacts
<1>t. /\ rec \in Objects \cup {None} /\ heap \in [Objects -> Record]
      /\ leaked \subseteq Sessions /\ live \subseteq Sessions /\ req \in [Handlers -> Request]
  BY <1>f DEF TypeOK
<1>1. ASSUME NEW b \in Backends, NEW n \in TmuxNames, SpawnBegin(h, b, n) PROVE SpawnInv'
  <2> DEFINE r == [Idle EXCEPT !.op = "spawn", !.at = "probe", !.backend = b, !.name = n]
  <2>1. "spawn" \in Ops /\ req' = [req EXCEPT ![h] = r] /\ guard = None /\ guard' = h
    BY <1>1, <1>f DEF SpawnBegin
  <2>2. Served(r) /\ r.op = "spawn"
    BY <2>1, IdleServed DEF Served, Kinds, Stages, Request, Holds, Idle
  <2> HIDE DEF r
  <2> QED
    BY <1>1, <1>t, <2>1, <2>2, GuardStep DEF SpawnBegin
<1>2. ASSUME NEW b \in Backends, CreateLaunch(h, b) PROVE SpawnInv'
  <2>1. PICK s \in Startable(b, Default) :
          /\ live' = live \cup {s}
          /\ \/ leaked' = leaked \cup {s} /\ UNCHANGED req
             \/ \E n \in {s} \cup Nameless(b) :
                  /\ req' = [req EXCEPT ![h] = [Idle EXCEPT !.op = "create", !.at = "register",
                                                            !.sess = n, !.backend = b]]
                  /\ leaked' = leaked \cup ({s} \ {n})
    BY <1>2 DEF CreateLaunch
  <2>2. s \in Sessions
    BY <2>1, StartableType DEF TmuxNames
  <2>3. "create" \in Ops /\ guard # h /\ UNCHANGED <<rec, heap, guard>>
    BY <1>2, <1>f DEF CreateLaunch
  <2>4. CASE leaked' = leaked \cup {s} /\ UNCHANGED req
    <3>1. TypeOK'
      BY <1>f, <2>1, <2>2, <2>3, <2>4 DEF TypeOK
    <3> QED
      BY <3>1, <2>3, <2>4 DEF SpawnInv, SpawnsExclude
  <2>5. ASSUME NEW n \in {s} \cup Nameless(b),
               req' = [req EXCEPT ![h] = [Idle EXCEPT !.op = "create", !.at = "register",
                                                      !.sess = n, !.backend = b]],
               leaked' = leaked \cup ({s} \ {n})
        PROVE  SpawnInv'
    <3> DEFINE r == [Idle EXCEPT !.op = "create", !.at = "register", !.sess = n, !.backend = b]
    <3>1. n \in Sessions \cup {None}
      BY <2>2 DEF Nameless
    <3>2. Served(r) /\ r.op # "spawn"
      BY <2>3, <3>1, IdleServed DEF Served, Kinds, Stages, Request, Holds, Idle
    <3>3. req' = [req EXCEPT ![h] = r]
      BY <2>5
    <3>4. live' \subseteq Sessions /\ leaked' \subseteq Sessions
      BY <1>t, <2>1, <2>2, <2>5
    <3> HIDE DEF r
    <3> QED
      BY <1>t, <2>3, <3>2, <3>3, <3>4, GuardStep
  <2> QED
    BY <2>1, <2>4, <2>5
<1>3. ASSUME NEW op \in {"stop", "restart", "delete"}, Starts(h, op), Named # None,
             Capture(h, op, "kill"), UNCHANGED <<live, heap, guard, leaked>>,
             rec' \in Objects \cup {None}
      PROVE  SpawnInv'
  <2> DEFINE r == [Idle EXCEPT !.op = op, !.at = "kill", !.obj = rec, !.sess = Named,
                               !.backend = heap[rec].backend]
  <2>1. op \in Ops /\ guard # h /\ rec \in Objects /\ heap[rec].backend \in Backends \cup {None}
    BY <1>3, <1>f
  <2>2. Served(r) /\ r.op # "spawn"
    BY <1>3, <1>f, <2>1, IdleServed DEF Served, Kinds, Stages, Request, Holds, Idle
  <2>3. req' = [req EXCEPT ![h] = r]
    BY <1>3 DEF Capture
  <2> HIDE DEF r
  <2> QED
    BY <1>3, <1>t, <2>1, <2>2, <2>3, GuardStep
<1>4. CASE RestartAllBegin(h)
  <2> DEFINE r == [Idle EXCEPT !.op = "restartall", !.at = "kill", !.obj = rec,
                               !.backend = BackendOr(heap[rec].backend)]
  <2>1. /\ rec \in Objects /\ BackendOr(heap[rec].backend) \in Backends
        /\ "restartall" \in Ops /\ guard # h
    BY <1>4, <1>f DEF RestartAllBegin, BackendOr
  <2>2. Served(r) /\ r.op # "spawn"
    BY <2>1, IdleServed DEF Served, Kinds, Stages, Request, Holds, Idle
  <2>3. req' = [req EXCEPT ![h] = r]
    BY <1>4 DEF RestartAllBegin
  <2> HIDE DEF r
  <2> QED
    BY <1>4, <1>t, <2>1, <2>2, <2>3, GuardStep DEF RestartAllBegin
<1>5. CASE DeleteRecord(h)
  <2>1. CASE Named = None
    <3>1. rec' = None /\ UNCHANGED <<live, heap, guard, leaked, req>>
      BY <1>5, <2>1 DEF DeleteRecord
    <3> QED
      BY <1>f, <3>1 DEF SpawnInv, SpawnsExclude, TypeOK
  <2>2. CASE Named # None
    BY <1>5, <1>3, <2>2 DEF DeleteRecord
  <2> QED
    BY <2>1, <2>2
<1>6. CASE DiscoverList(h)
  <2>1. PICK s \in live \cap AmbientIds :
          req' = [req EXCEPT ![h] = [Idle EXCEPT !.op = "discover", !.at = "register",
                                                 !.sess = s, !.backend = "ambient"]]
    BY <1>6 DEF DiscoverList
  <2> DEFINE r == [Idle EXCEPT !.op = "discover", !.at = "register", !.sess = s,
                               !.backend = "ambient"]
  <2>2. "discover" \in Ops /\ "ambient" \in Backends /\ guard # h
    BY <1>6, <1>f DEF DiscoverList
  <2>3. Served(r) /\ r.op # "spawn"
    BY <2>1, <2>2, IdleServed DEF Served, Kinds, Stages, Sessions, Request, Holds, Idle
  <2>4. req' = [req EXCEPT ![h] = r]
    BY <2>1
  <2> HIDE DEF r
  <2> QED
    BY <1>6, <1>t, <2>2, <2>3, <2>4, GuardStep DEF DiscoverList
<1> QED
  BY <1>1, <1>2, <1>3, <1>4, <1>5, <1>6, <1>t
  DEF Begin, StopBegin, RestartBegin

\* A request that proceeds releases the entry exactly when a spawn ends.
LEMMA GuardProceeds ==
  ASSUME SpawnInv, NEW h \in Handlers, Proceed(h)
  PROVE  SpawnInv'
<1> USE LifecycleAssumption
<1>f. /\ TypeOK /\ Served(req[h]) /\ (guard = h <=> req[h].op = "spawn")
      /\ Named \in Sessions \cup {None}
      /\ \A o \in Objects : heap[o].backend \in Backends \cup {None}
  BY GuardFacts
<1>t. /\ rec \in Objects \cup {None} /\ heap \in [Objects -> Record]
      /\ leaked \subseteq Sessions /\ live \subseteq Sessions
      /\ req[h].sess \in Sessions \cup {None} /\ req[h].backend \in Backends \cup {None}
  BY <1>f DEF TypeOK, Served, Request
<1>k. /\ \A s : Killed(s) => live' \subseteq Sessions /\ leaked' \subseteq Sessions
      /\ \A s : NotKilled(s) => live' \subseteq Sessions /\ leaked' \subseteq Sessions
      /\ \A s : Names(s) => leaked' \subseteq Sessions
      /\ \A S \in SUBSET Sessions :
           CreateFails(S) => live' \subseteq Sessions /\ leaked' \subseteq Sessions
  BY <1>f, SessionTypes
<1>s. {"kill", "clear", "launch", "register"} \subseteq Stages \ {"idle", "probe"}
  BY DEF Stages
<1>1. CASE SpawnProbe(h)
  <2>1. CASE Answer(h) /\ ReleaseGuard(h)
    BY <1>1, <1>t, <2>1, GuardAnswer DEF SpawnProbe
  <2>2. CASE Step(h, "launch", None) /\ UNCHANGED guard
    BY <1>1, <1>s, <1>t, <2>2, GuardSteps DEF SpawnProbe, At
  <2> QED
    BY <1>1, <2>1, <2>2 DEF SpawnProbe
<1>2. CASE SpawnLaunch(h)
  <2> DEFINE S == Startable(req[h].backend, req[h].name)
  <2>1. S \subseteq Sessions /\ UNCHANGED <<rec, heap>>
    BY <1>2, <1>f, StartableType DEF SpawnLaunch, At, Served
  <2>2. CASE Answer(h) /\ ReleaseGuard(h) /\ CreateFails(S)
    <3> HIDE DEF S
    <3>1. live' \subseteq Sessions /\ leaked' \subseteq Sessions
      BY <1>k, <2>1, <2>2
    <3> QED
      BY <1>t, <2>1, <2>2, <3>1, GuardAnswer
  <2>3. ASSUME NEW s \in S, live' = live \cup {s},
               Step(h, "register", s), UNCHANGED <<guard, leaked>>
        PROVE  SpawnInv'
    <3> HIDE DEF S
    <3> QED
      BY <1>s, <1>t, <2>1, <2>3, GuardSteps
  <2> QED
    BY <1>2, <2>2, <2>3 DEF SpawnLaunch
<1>3. CASE Register(h)
  <2> DEFINE r == [sess |-> req[h].sess, backend |-> req[h].backend]
  <2>1. r \in Record
    BY <1>t DEF Record
  <2>2. rec' \in Objects \cup {None} /\ heap' \in [Objects -> Record]
    <3>1. CASE rec = None
      BY <1>3, <1>f, <2>1, <3>1, PutFacts DEF Register
    <3>2. CASE rec # None
      BY <1>3, <1>t, <2>1, <3>2 DEF Register
    <3> QED
      BY <3>1, <3>2
  <2>3. Answer(h) /\ ReleaseGuard(h) /\ live' \subseteq Sessions /\ leaked' \subseteq Sessions
    BY <1>3, <1>k, <1>t DEF Register
  <2> QED
    BY <2>2, <2>3, GuardAnswer
<1>4. CASE StopKill(h)
  <2>1. /\ live' \subseteq Sessions /\ leaked' \subseteq Sessions
        /\ UNCHANGED <<rec, heap, guard>> /\ req[h].op = "stop"
        /\ Answer(h) \/ Step(h, "clear", None)
    BY <1>4, <1>k, <1>t DEF StopKill, At
  <2> QED
    BY <1>s, <1>t, <2>1, GuardAnswer, GuardSteps
<1>5. CASE StopRecord(h)
  BY <1>5, <1>f, <1>t, SetTypes, GuardAnswer DEF StopRecord, At
<1>6. CASE RestartKill(h)
  <2> DEFINE b == BackendOr(heap[req[h].obj].backend)
             Go == req' = [req EXCEPT ![h].at = "clear", ![h].sess = None, ![h].backend = b]
  <2>1. b \in Backends
    BY <1>6, <1>f DEF RestartKill, At, Served, BackendOr
  <2>2. UNCHANGED <<rec, heap, guard>> /\ req[h].op = "restart"
    BY <1>6 DEF RestartKill, At
  <2>3. live' \subseteq Sessions /\ leaked' \subseteq Sessions /\ (Answer(h) \/ Go)
    BY <1>6, <1>k, <1>t DEF RestartKill
  <2>4. CASE Go
    <3> HIDE DEF b
    <3> QED BY <1>s, <1>t, <2>1, <2>2, <2>3, <2>4, GuardGoesOn
  <2> QED
    BY <1>t, <2>2, <2>3, <2>4, GuardAnswer
<1>7. CASE RestartClear(h)
  <2>1. /\ heap' \in [Objects -> Record] /\ Step(h, "launch", None) /\ req[h].op = "restart"
        /\ UNCHANGED <<live, rec, guard, leaked>>
    BY <1>7, <1>f, SetTypes DEF RestartClear, At
  <2> QED
    BY <1>s, <1>t, <2>1, GuardSteps
<1>8. CASE RestartAllKill(h)
  <2>1. /\ live' \subseteq Sessions /\ leaked' \subseteq Sessions
        /\ Step(h, "launch", None) /\ req[h].op = "restartall" /\ UNCHANGED <<rec, heap, guard>>
    BY <1>8, <1>k DEF RestartAllKill, At
  <2> QED
    BY <1>s, <1>t, <2>1, GuardSteps
<1>9. CASE RestartLaunch(h)
  <2> DEFINE S == Startable(req[h].backend, IF Default \in live THEN Alternate ELSE Default)
  <2>1. S \subseteq Sessions
    BY StartableType DEF TmuxNames
  <2>2. UNCHANGED <<rec, heap, guard>> /\ req[h].op \in {"restart", "restartall"}
    BY <1>9 DEF RestartLaunch, At
  <2>3. CASE Answer(h) /\ CreateFails(S)
    <3> HIDE DEF S
    <3>1. live' \subseteq Sessions /\ leaked' \subseteq Sessions
      BY <1>k, <2>1, <2>3
    <3> QED
      BY <1>t, <2>2, <2>3, <3>1, GuardAnswer
  <2>4. ASSUME NEW s \in S, NEW n \in {s} \cup Nameless(req[h].backend),
               live' = live \cup {s}, leaked' = leaked \cup ({s} \ {n}), Step(h, "register", n)
        PROVE  SpawnInv'
    <3> HIDE DEF S
    <3>1. n \in Sessions \cup {None}
      BY <2>1, <2>4 DEF Nameless
    <3> QED
      BY <1>s, <1>t, <2>1, <2>2, <2>4, <3>1, GuardSteps
  <2> QED
    BY <1>9, <2>3, <2>4 DEF RestartLaunch
<1>10. CASE RestartRecord(h)
  BY <1>10, <1>f, <1>t, SetTypes, GuardAnswer DEF RestartRecord, At
<1>11. CASE DeleteKill(h)
  BY <1>11, <1>k, <1>t, GuardAnswer DEF DeleteKill, At
<1>12. CASE DiscoverAssign(h)
  <2>1. heap' \in [Objects -> Record]
    <3>1. CASE heap' = heap
      BY <1>t, <3>1
    <3>2. CASE heap' # heap
      <4>1. [sess |-> req[h].sess, backend |-> "ambient"] \in Record
        BY <1>12, <1>f, <1>t DEF DiscoverAssign, At, Served, Holds, Record
      <4> QED
        BY <1>12, <1>t, <3>2, <4>1 DEF DiscoverAssign
    <3> QED
      BY <3>1, <3>2
  <2>2. leaked' \subseteq Sessions
    BY <1>12, <1>k, <1>t DEF DiscoverAssign
  <2> QED
    BY <1>12, <1>t, <2>1, <2>2, GuardAnswer DEF DiscoverAssign, At
<1> QED
  BY <1>1, <1>2, <1>3, <1>4, <1>5, <1>6, <1>7, <1>8, <1>9, <1>10, <1>11, <1>12 DEF Proceed

\* Posts and ignitions change the record only.
LEMMA GuardReports ==
  ASSUME SpawnInv, NEW h \in Handlers, Reports(h)
  PROVE  SpawnInv'
<1> USE LifecycleAssumption
<1>f. TypeOK /\ Named \in Sessions \cup {None}
  BY GuardFacts
<1>1. PICK s \in Reported : PostStatus(h, s) \/ Ignite(h, s)
  BY DEF Reports
<1>2. s \in Sessions \cup {None}
  BY DEF Reported
<1>3. \A t \in Sessions \cup {None} : [sess |-> t, backend |-> None] \in Record
  BY DEF Record
<1>4. rec' \in Objects \cup {None} /\ heap' \in [Objects -> Record]
  <2>1. CASE PostStatus(h, s)
    <3> DEFINE t == IF s = None THEN Named ELSE s
    <3>1. t \in Sessions \cup {None}
      BY <1>2, <1>f
    <3> QED
      BY <1>3, <1>f, <2>1, <3>1, PutFacts DEF PostStatus
  <2>2. CASE Ignite(h, s) /\ rec = None
    BY <1>2, <1>3, <1>f, <2>2, PutFacts DEF Ignite
  <2>3. CASE Ignite(h, s) /\ rec # None
    BY <1>2, <1>f, <2>3, SetTypes DEF Ignite, TypeOK
  <2> QED
    BY <1>1, <2>1, <2>2, <2>3
<1>5. UNCHANGED <<live, guard, req>> /\ leaked' \subseteq Sessions
  BY <1>1, <1>f, SessionTypes DEF PostStatus, Ignite
<1> QED
  BY <1>4, <1>5 DEF SpawnInv, SpawnsExclude, TypeOK

LEMMA ServedInit == Init => SpawnInv
<1> SUFFICES ASSUME Init PROVE SpawnInv
  OBVIOUS
<1>1. TypeOK
  BY IdleServed, LifecycleAssumption DEF Init, TypeOK, Blank, Record
<1>2. \A h \in Handlers : req[h] = Idle /\ guard # h
  BY LifecycleAssumption DEF Init
<1> QED
  BY <1>1, <1>2, IdleServed DEF SpawnInv, SpawnsExclude

LEMMA ServedNext == SpawnInv /\ [Next]_vars => SpawnInv'
<1> SUFFICES ASSUME SpawnInv, [Next]_vars PROVE SpawnInv'
  OBVIOUS
<1>1. ASSUME NEW s \in Sessions, SessionExit(s) PROVE SpawnInv'
  BY <1>1 DEF SessionExit, Killed, SpawnInv, SpawnsExclude, TypeOK
<1>2. CASE UNCHANGED vars
  BY <1>2 DEF vars, SpawnInv, SpawnsExclude, TypeOK
<1> QED
  BY <1>1, <1>2, GuardBegins, GuardProceeds, GuardReports DEF Next

\* Whatever requests overlap and whatever the backends answer, an agent has at
\* most one spawn under way, and its entry in spawnInProgress is gone when that
\* spawn is over: a second spawn is refused then and only then
\* (lifecycle.go:289-299).
THEOREM OneSpawnAtATime == Spec => []SpawnsExclude
<1>1. SpawnInv => SpawnsExclude
  BY DEF SpawnInv
<1> QED
  BY <1>1, ServedInit, ServedNext, PTL DEF Spec

-----------------------------------------------------------------------------
(* Overlapping requests that do not stop or restart.                       *)

\* The requests that replace a session in place are not made.
NoReplacement == Ops \cap {"stop", "restart", "restartall"} = {}

\* What a step in which request h becomes r has to establish: a session that runs
\* afterwards is let go of, named, in the hands of h, or was none of its business.
LEMMA TrackStep ==
  ASSUME TypeOK, Tracked, NEW h \in Handlers, NEW r, req' = [req EXCEPT ![h] = r],
         \A s \in live' :
           \/ s \in leaked' \/ s = Named' \/ (s = r.sess /\ r.op # "discover")
           \/ /\ s \in live /\ s \notin leaked /\ s # Named
              /\ s # req[h].sess \/ req[h].op = "discover"
  PROVE  Tracked'
<1> SUFFICES ASSUME NEW s \in live', s \notin leaked', s # Named',
                    s # r.sess \/ r.op = "discover"
             PROVE  \E g \in Handlers : req'[g].op # "discover" /\ s = req'[g].sess
  <2>1. req'[h] = r
    BY DEF TypeOK
  <2> QED
    BY <2>1 DEF Tracked, Known
<1>1. /\ s \in live /\ s \notin leaked /\ s # Named
      /\ s # req[h].sess \/ req[h].op = "discover"
  OBVIOUS
<1>2. PICK g \in Handlers : req[g].op # "discover" /\ s = req[g].sess
  BY <1>1 DEF Tracked, Known
<1>3. g # h
  BY <1>1, <1>2
<1>4. req'[g] = req[g]
  BY <1>3 DEF TypeOK
<1> QED
  BY <1>2, <1>4

\* A step that leaves the sessions and the name alone, while h holds no session or
\* keeps the one it holds.
LEMMA TrackCalm ==
  ASSUME SpawnInv, Tracked, NEW h \in Handlers, NEW r, req' = [req EXCEPT ![h] = r],
         Named' = Named, UNCHANGED <<live, leaked>>,
         req[h].sess \in {None, Named, r.sess} \/ req[h].op = "discover",
         req[h].sess = r.sess => r.op # "discover"
  PROVE  Tracked'
<1>1. TypeOK /\ None \notin live
  BY LifecycleAssumption DEF SpawnInv, TypeOK
<1>2. ASSUME NEW s \in live'
      PROVE  \/ s \in leaked' \/ s = Named' \/ (s = r.sess /\ r.op # "discover")
             \/ /\ s \in live /\ s \notin leaked /\ s # Named
                /\ s # req[h].sess \/ req[h].op = "discover"
  BY <1>1
<1> QED
  BY <1>1, <1>2, TrackStep

\* What a session is started for holds it, or lets go of it.
LEMMA TrackStart ==
  ASSUME SpawnInv, Tracked, NEW h \in Handlers, NEW r, req' = [req EXCEPT ![h] = r],
         r.op # "discover", req[h].sess = None, Named' = Named,
         NEW T, live' = live \cup T, leaked \subseteq leaked',
         \A s \in T : s \in leaked' \/ s = r.sess
  PROVE  Tracked'
<1>1. TypeOK /\ None \notin live
  BY LifecycleAssumption DEF SpawnInv, TypeOK
<1>2. ASSUME NEW s \in live'
      PROVE  \/ s \in leaked' \/ s = Named' \/ (s = r.sess /\ r.op # "discover")
             \/ /\ s \in live /\ s \notin leaked /\ s # Named
                /\ s # req[h].sess \/ req[h].op = "discover"
  BY <1>1
<1> QED
  BY <1>1, <1>2, TrackStep

\* When the record comes to name what h held, the rest is let go of.
LEMMA TrackNames ==
  ASSUME SpawnInv, Tracked, NEW h \in Handlers, NEW r, req' = [req EXCEPT ![h] = r],
         NEW t, Named' = t, Names(t), UNCHANGED live,
         req[h].sess \in {None, t}
  PROVE  Tracked'
<1>1. TypeOK /\ None \notin live
  BY LifecycleAssumption DEF SpawnInv, TypeOK
<1>2. ASSUME NEW s \in live'
      PROVE  \/ s \in leaked' \/ s = Named' \/ (s = r.sess /\ r.op # "discover")
             \/ /\ s \in live /\ s \notin leaked /\ s # Named
                /\ s # req[h].sess \/ req[h].op = "discover"
  BY <1>1 DEF Names
<1> QED
  BY <1>1, <1>2, TrackStep

\* A spawn or a create holds the session it starts until the record names it.
LEMMA StartsTracked ==
  ASSUME SpawnInv, Tracked, NEW h \in Handlers,
         \/ \E b \in Backends : (\E n \in TmuxNames : SpawnBegin(h, b, n)) \/ CreateLaunch(h, b)
         \/ SpawnProbe(h) \/ SpawnLaunch(h) \/ Register(h)
  PROVE  Tracked'
<1> USE LifecycleAssumption
<1>f. /\ TypeOK /\ Served(req[h])
      /\ \A op : Starts(h, op) => req[h] = Idle
  BY GuardFacts
<1>t. req \in [Handlers -> Request] /\ req[h] \in Request /\ rec \in Objects \cup {None}
  BY <1>f DEF TypeOK
<1>i. Idle.sess = None /\ Idle.op = None /\ None # "discover"
  BY DEF Idle, Kinds
<1>1. ASSUME NEW b \in Backends, NEW n \in TmuxNames, SpawnBegin(h, b, n) PROVE Tracked'
  <2> DEFINE r == [Idle EXCEPT !.op = "spawn", !.at = "probe", !.backend = b, !.name = n]
  <2>1. req' = [req EXCEPT ![h] = r] /\ req[h].sess = None /\ r.op # "discover"
    BY <1>1, <1>f, <1>i DEF SpawnBegin, Idle
  <2>2. Named' = Named /\ UNCHANGED <<live, leaked>>
    BY <1>1 DEF SpawnBegin, Named
  <2> HIDE DEF r
  <2> QED
    BY <2>1, <2>2, TrackCalm
<1>2. ASSUME NEW b \in Backends, CreateLaunch(h, b) PROVE Tracked'
  <2>1. PICK s \in Startable(b, Default) :
          /\ live' = live \cup {s}
          /\ \/ leaked' = leaked \cup {s} /\ UNCHANGED req
             \/ \E n \in {s} \cup Nameless(b) :
                  /\ req' = [req EXCEPT ![h] = [Idle EXCEPT !.op = "create", !.at = "register",
                                                            !.sess = n, !.backend = b]]
                  /\ leaked' = leaked \cup ({s} \ {n})
    BY <1>2 DEF CreateLaunch
  <2>2. req[h] = Idle /\ Named' = Named
    BY <1>2, <1>f DEF CreateLaunch, Named
  <2>3. CASE leaked' = leaked \cup {s} /\ UNCHANGED req
    <3>1. req' = [req EXCEPT ![h] = Idle]
      BY <2>2, <2>3, <1>t
    <3> QED
      BY <1>i, <2>1, <2>2, <2>3, <3>1, TrackStart
  <2>4. ASSUME NEW n \in {s} \cup Nameless(b),
               req' = [req EXCEPT ![h] = [Idle EXCEPT !.op = "create", !.at = "register",
                                                      !.sess = n, !.backend = b]],
               leaked' = leaked \cup ({s} \ {n})
        PROVE  Tracked'
    <3> DEFINE r == [Idle EXCEPT !.op = "create", !.at = "register", !.sess = n, !.backend = b]
    <3>1. req' = [req EXCEPT ![h] = r] /\ r.op # "discover" /\ r.sess = n
      BY <2>4 DEF Idle
    <3> HIDE DEF r
    <3> QED
      BY <1>i, <2>1, <2>2, <2>4, <3>1, TrackStart
  <2> QED
    BY <2>1, <2>3, <2>4
<1>3. CASE SpawnProbe(h)
  <2>1. req[h].sess = None /\ Named' = Named /\ UNCHANGED <<live, leaked>> /\ req[h].op = "spawn"
    BY <1>3, <1>f DEF SpawnProbe, At, Served, Holds, Named
  <2>2. CASE Answer(h)
    BY <1>i, <2>1, <2>2, TrackCalm DEF Answer
  <2>3. CASE Step(h, "launch", None)
    <3> DEFINE r == [req[h] EXCEPT !.at = "launch", !.sess = None]
    <3>1. req' = [req EXCEPT ![h] = r] /\ r.op # "discover"
      BY <1>t, <2>1, <2>3 DEF Step, Request
    <3> HIDE DEF r
    <3> QED
      BY <2>1, <3>1, TrackCalm
  <2> QED
    BY <1>3, <2>2, <2>3 DEF SpawnProbe
<1>4. CASE SpawnLaunch(h)
  <2> DEFINE S == Startable(req[h].backend, req[h].name)
  <2>1. req[h].sess = None /\ Named' = Named /\ req[h].op = "spawn"
    BY <1>4, <1>f DEF SpawnLaunch, At, Served, Holds, Named
  <2>2. CASE Answer(h) /\ CreateFails(S)
    <3> HIDE DEF S
    <3>1. PICK T \in {{}} \cup {{s} : s \in S} : live' = live \cup T /\ leaked' = leaked \cup T
      BY <2>2 DEF CreateFails
    <3> QED
      BY <1>i, <2>1, <2>2, <3>1, TrackStart DEF Answer
  <2>3. ASSUME NEW s \in S, live' = live \cup {s}, Step(h, "register", s), UNCHANGED leaked
        PROVE  Tracked'
    <3> DEFINE r == [req[h] EXCEPT !.at = "register", !.sess = s]
    <3>1. req' = [req EXCEPT ![h] = r] /\ r.op # "discover" /\ r.sess = s
      BY <1>t, <2>1, <2>3 DEF Step, Request
    <3> HIDE DEF r, S
    <3> QED
      BY <2>1, <2>3, <3>1, TrackStart
  <2> QED
    BY <1>4, <2>2, <2>3 DEF SpawnLaunch
<1>5. CASE Register(h)
  <2> DEFINE r == [sess |-> req[h].sess, backend |-> req[h].backend]
  <2>1. r \in Record /\ r.sess = req[h].sess
    BY <1>t DEF Record, Request
  <2>2. Named' = req[h].sess
    <3>1. CASE rec = None
      BY <1>5, <1>f, <2>1, <3>1, PutFacts DEF Register
    <3>2. CASE rec # None
      BY <1>5, <1>f, <2>1, <3>2 DEF Register, Named, TypeOK
    <3> QED
      BY <3>1, <3>2
  <2> QED
    BY <1>5, <2>2, TrackNames DEF Register, Answer
<1> QED
  BY <1>1, <1>2, <1>3, <1>4, <1>5

\* A delete holds the session of the record it removed until it is killed or let go
\* of, and discovery names a session where there was none.
LEMMA OthersTracked ==
  ASSUME SpawnInv, Tracked, NEW h \in Handlers,
         DeleteRecord(h) \/ DeleteKill(h) \/ DiscoverList(h) \/ DiscoverAssign(h)
  PROVE  Tracked'
<1> USE LifecycleAssumption
<1>f. /\ TypeOK /\ Served(req[h])
      /\ \A op : Starts(h, op) => req[h] = Idle
  BY GuardFacts
<1>t. /\ req \in [Handlers -> Request] /\ req[h] \in Request /\ rec \in Objects \cup {None}
      /\ None \notin live
  BY <1>f DEF TypeOK
<1>i. Idle.sess = None /\ Idle.op = None /\ None # "discover"
  BY DEF Idle, Kinds
<1>1. CASE DeleteRecord(h)
  <2>1. req[h] = Idle /\ Named' = None /\ UNCHANGED <<live, leaked>>
    BY <1>1, <1>f DEF DeleteRecord, Named
  <2>2. CASE Named = None
    <3>1. req' = [req EXCEPT ![h] = Idle]
      BY <1>1, <1>t, <2>1, <2>2 DEF DeleteRecord
    <3> QED
      BY <1>i, <2>1, <2>2, <3>1, TrackCalm
  <2>3. CASE Named # None
    <3> DEFINE r == [Idle EXCEPT !.op = "delete", !.at = "kill", !.obj = rec, !.sess = Named,
                                 !.backend = heap[rec].backend]
    <3>1. req' = [req EXCEPT ![h] = r] /\ r.op # "discover" /\ r.sess = Named
      BY <1>1, <2>3 DEF DeleteRecord, Capture, Idle
    <3> HIDE DEF r
    <3>2. ASSUME NEW s \in live'
          PROVE  \/ s \in leaked' \/ s = Named' \/ (s = r.sess /\ r.op # "discover")
                 \/ /\ s \in live /\ s \notin leaked /\ s # Named
                    /\ s # req[h].sess \/ req[h].op = "discover"
      BY <1>i, <1>t, <2>1, <3>1
    <3> QED
      BY <1>f, <3>1, <3>2, TrackStep
  <2> QED
    BY <2>2, <2>3
<1>2. CASE DeleteKill(h)
  <2>1. Answer(h) /\ Named' = Named
    BY <1>2 DEF DeleteKill, Named
  <2>2. Killed(req[h].sess) \/ NotKilled(req[h].sess)
    BY <1>2 DEF DeleteKill
  <2>3. ASSUME NEW s \in live'
        PROVE  \/ s \in leaked' \/ s = Named'
               \/ s \in live /\ s \notin leaked /\ s # Named /\ s # req[h].sess
    BY <2>1, <2>2 DEF Killed, NotKilled
  <2> QED
    BY <1>f, <2>1, <2>3, TrackStep DEF Answer
<1>3. CASE DiscoverList(h)
  <2>1. PICK s \in live \cap AmbientIds :
          req' = [req EXCEPT ![h] = [Idle EXCEPT !.op = "discover", !.at = "register",
                                                 !.sess = s, !.backend = "ambient"]]
    BY <1>3 DEF DiscoverList
  <2> DEFINE r == [Idle EXCEPT !.op = "discover", !.at = "register", !.sess = s,
                               !.backend = "ambient"]
  <2>2. /\ req' = [req EXCEPT ![h] = r] /\ r.sess # None /\ req[h].sess = None
        /\ Named' = Named /\ UNCHANGED <<live, leaked>>
    BY <1>3, <1>f, <1>i, <1>t, <2>1 DEF DiscoverList, Idle, Named
  <2> HIDE DEF r
  <2> QED
    BY <2>2, TrackCalm
<1>4. CASE DiscoverAssign(h)
  <2>1. Answer(h) /\ UNCHANGED live /\ req[h].op = "discover"
    BY <1>4 DEF DiscoverAssign, At
  <2>2. CASE rec # None /\ Named = None
    <3>1. Named' = req[h].sess /\ Names(req[h].sess)
      BY <1>4, <1>f, <2>2 DEF DiscoverAssign, Named, TypeOK
    <3> QED
      BY <2>1, <3>1, TrackNames DEF Answer
  <2>3. CASE ~(rec # None /\ Named = None)
    <3>1. Named' = Named /\ UNCHANGED leaked
      BY <1>4, <2>3 DEF DiscoverAssign, Named
    <3> QED
      BY <1>i, <2>1, <3>1, TrackCalm DEF Answer
  <2> QED
    BY <2>2, <2>3
<1> QED
  BY <1>1, <1>2, <1>3, <1>4

\* A report that names another session lets go of the one that was named.
LEMMA ReportsTracked ==
  ASSUME SpawnInv, Tracked, NEW h \in Handlers, Reports(h)
  PROVE  Tracked'
<1> USE LifecycleAssumption
<1>f. /\ TypeOK /\ Named \in Sessions \cup {None}
      /\ \A op : Starts(h, op) => req[h] = Idle
  BY GuardFacts
<1>1. PICK s \in Reported : PostStatus(h, s) \/ Ignite(h, s)
  BY DEF Reports
<1>2. s \in Sessions \cup {None}
  BY DEF Reported
<1>3. \A t \in Sessions \cup {None} : [sess |-> t, backend |-> None] \in Record
  BY DEF Record
<1>4. req' = [req EXCEPT ![h] = req[h]] /\ req[h].sess = None /\ UNCHANGED live
  BY <1>1, <1>f DEF PostStatus, Ignite, Idle, TypeOK
<1>5. CASE PostStatus(h, s)
  <2> DEFINE t == IF s = None THEN Named ELSE s
  <2>1. t \in Sessions \cup {None}
    BY <1>2, <1>f
  <2>2. Named' = t /\ Names(t)
    BY <1>3, <1>5, <1>f, <2>1, PutFacts DEF PostStatus
  <2> HIDE DEF t
  <2> QED
    BY <1>4, <2>2, TrackNames
<1>6. CASE Ignite(h, s)
  <2>1. Named' = s /\ Names(s)
    <3>1. CASE rec = None
      BY <1>2, <1>3, <1>6, <1>f, <3>1, PutFacts DEF Ignite
    <3>2. CASE rec # None
      BY <1>2, <1>6, <1>f, <3>2, SetFacts DEF Ignite
    <3> QED
      BY <3>1, <3>2
  <2> QED
    BY <1>4, <2>1, TrackNames
<1> QED
  BY <1>1, <1>5, <1>6

LEMMA ExitsTracked ==
  ASSUME Tracked, NEW s, SessionExit(s)
  PROVE  Tracked'
BY DEF SessionExit, Killed, Tracked, Known, Named

\* Without replacements no request is a stop or a restart.
LEMMA NoneReplaced ==
  ASSUME NoReplacement, SpawnInv, NEW h \in Handlers
  PROVE  /\ ~StopBegin(h) /\ ~RestartBegin(h) /\ ~RestartAllBegin(h)
         /\ ~StopKill(h) /\ ~StopRecord(h) /\ ~RestartKill(h) /\ ~RestartClear(h)
         /\ ~RestartAllKill(h) /\ ~RestartLaunch(h) /\ ~RestartRecord(h)
<1>1. req[h].op \in Ops \cup {None}
  BY DEF SpawnInv, Served
<1>2. req[h].op \notin {"stop", "restart", "restartall"}
  BY <1>1, LifecycleAssumption DEF NoReplacement, Kinds
<1>3. "stop" \notin Ops /\ "restart" \notin Ops /\ "restartall" \notin Ops
  BY DEF NoReplacement
<1>4. ~StopBegin(h) /\ ~RestartBegin(h) /\ ~RestartAllBegin(h)
  BY <1>3 DEF StopBegin, RestartBegin, RestartAllBegin, Starts
<1>5. ~StopKill(h) /\ ~StopRecord(h) /\ ~RestartKill(h) /\ ~RestartClear(h)
  BY <1>2 DEF StopKill, StopRecord, RestartKill, RestartClear, At
<1>6. ~RestartAllKill(h) /\ ~RestartLaunch(h) /\ ~RestartRecord(h)
  BY <1>2 DEF RestartAllKill, RestartLaunch, RestartRecord, At
<1> QED
  BY <1>4, <1>5, <1>6

LEMMA InitTracked == Init => Tracked
BY DEF Init, Tracked

\* Any number of requests that start, delete, report and discover sessions can
\* overlap, on any backends and with session names of their own: every session
\* that runs is named by the record or in the hands of a request, unless one let go
\* of it (lifecycle.go:340-423, handlers_agent.go:240-285, 1587-1606).
THEOREM SpawnsKeepTrack ==
  ASSUME NoReplacement
  PROVE  Spec => []TrackedInv
<1>1. SpawnInv /\ Tracked /\ [Next]_vars => Tracked'
  <2> SUFFICES ASSUME SpawnInv, Tracked, [Next]_vars PROVE Tracked'
    OBVIOUS
  <2>1. CASE \E h \in Handlers : Begin(h) \/ Reports(h) \/ Proceed(h)
    <3>1. PICK h \in Handlers : Begin(h) \/ Reports(h) \/ Proceed(h)
      BY <2>1
    <3>2. CASE Begin(h)
      BY <3>2, NoneReplaced, StartsTracked, OthersTracked DEF Begin
    <3>3. CASE Reports(h)
      BY <3>3, ReportsTracked
    <3>4. CASE Proceed(h)
      BY <3>4, NoneReplaced, StartsTracked, OthersTracked DEF Proceed
    <3> QED
      BY <3>1, <3>2, <3>3, <3>4
  <2>2. CASE \E s \in Sessions : SessionExit(s)
    BY <2>2, ExitsTracked
  <2>3. CASE UNCHANGED vars
    BY <2>3 DEF vars, Tracked, Known, Named
  <2> QED
    BY <2>1, <2>2, <2>3 DEF Next
<1>2. SpawnInv /\ Tracked => TrackedInv
  BY DEF SpawnInv, Served, TrackedInv
<1> QED
  BY <1>1, <1>2, InitTracked, ServedInit, ServedNext, PTL DEF Spec

-----------------------------------------------------------------------------
(* One request at a time, of every kind, with any backends.                *)

OneRequest == \E h : Handlers = {h}

\* What a stop or a restart r knows of the record o, the objects hp, the sessions lv
\* that run and the ones lk that were let go of: it has the record in hand, and once
\* it is past the kill, the session the record names runs no more, is let go of, or
\* is the one it starts.
Agrees(r, o, hp, lv, lk) ==
  r.op \in {"stop", "restart", "restartall"} =>
    /\ o # None /\ r.obj = o
    /\ r.op # "restartall" /\ r.at = "kill" => r.sess = hp[o].sess
    /\ r.at \in {"clear", "launch", "register"} =>
         (hp[o].sess \in lv \ lk => hp[o].sess = r.sess)

OneInv ==
  SpawnInv /\ Tracked /\ \A h \in Handlers : Agrees(req[h], rec, heap, live, leaked)

\* With one handler, what its request becomes is all there is to show.
LEMMA OneAgrees ==
  ASSUME NEW h, Handlers = {h}, TypeOK, NEW r, req' = [req EXCEPT ![h] = r],
         Agrees(r, rec', heap', live', leaked')
  PROVE  \A g \in Handlers : Agrees(req'[g], rec', heap', live', leaked')
BY DEF TypeOK

\* A stop or a restart that begins captures the record and what it names.
LEMMA ReplaceBegins ==
  ASSUME OneInv, NEW h, Handlers = {h},
         StopBegin(h) \/ RestartBegin(h) \/ RestartAllBegin(h)
  PROVE  Tracked' /\ \A g \in Handlers : Agrees(req'[g], rec', heap', live', leaked')
<1> USE LifecycleAssumption
<1>f. SpawnInv /\ Tracked /\ TypeOK /\ h \in Handlers
  BY DEF OneInv, SpawnInv
<1>i. \A op : Starts(h, op) => req[h] = Idle
  BY <1>f, GuardFacts
<1>u. Named # None /\ rec # None /\ UNCHANGED <<live, rec, heap, leaked>> /\ Named' = Named
  BY DEF StopBegin, RestartBegin, RestartAllBegin, Named
<1>1. ASSUME NEW op \in {"stop", "restart"}, Starts(h, op), Capture(h, op, "kill")
      PROVE  Tracked' /\ \A g \in Handlers : Agrees(req'[g], rec', heap', live', leaked')
  <2> DEFINE r == [Idle EXCEPT !.op = op, !.at = "kill", !.obj = rec, !.sess = Named,
                               !.backend = heap[rec].backend]
  <2>1. req' = [req EXCEPT ![h] = r] /\ req[h].sess = None
    BY <1>1, <1>i DEF Capture, Idle
  <2>2. r.op # "discover" /\ Agrees(r, rec', heap', live', leaked')
    BY <1>u DEF Agrees, Idle, Named
  <2> HIDE DEF r
  <2> QED
    BY <1>f, <1>u, <2>1, <2>2, TrackCalm, OneAgrees
<1>2. CASE RestartAllBegin(h)
  <2> DEFINE r == [Idle EXCEPT !.op = "restartall", !.at = "kill", !.obj = rec,
                               !.backend = BackendOr(heap[rec].backend)]
  <2>1. req' = [req EXCEPT ![h] = r] /\ req[h].sess = None
    BY <1>2, <1>i DEF RestartAllBegin, Idle
  <2>2. r.op # "discover" /\ Agrees(r, rec', heap', live', leaked')
    BY <1>u DEF Agrees, Idle
  <2> HIDE DEF r
  <2> QED
    BY <1>f, <1>u, <2>1, <2>2, TrackCalm, OneAgrees
<1> QED
  BY <1>1, <1>2 DEF StopBegin, RestartBegin

\* One that kills leaves the session dead, let go of, or named as before.
LEMMA ReplaceKills ==
  ASSUME OneInv, NEW h, Handlers = {h},
         StopKill(h) \/ RestartKill(h) \/ RestartAllKill(h)
  PROVE  Tracked' /\ \A g \in Handlers : Agrees(req'[g], rec', heap', live', leaked')
<1> USE LifecycleAssumption
<1>f. SpawnInv /\ Tracked /\ TypeOK /\ h \in Handlers /\ Served(req[h])
  BY DEF OneInv, SpawnInv
<1>a. Agrees(req[h], rec, heap, live, leaked)
  BY DEF OneInv
<1>t. req[h] \in Request /\ rec \in Objects \cup {None} /\ None \notin live
  BY <1>f DEF TypeOK
<1> DEFINE s0 == heap[rec].sess
<1>u. /\ UNCHANGED <<rec, heap>> /\ Named' = Named
      /\ rec # None /\ req[h].obj = rec /\ Named = s0
      /\ req[h].sess \in {None, s0}
      /\ req[h].op \in {"stop", "restart", "restartall"}
      /\ req[h].op # "restartall" => req[h].sess = s0
  BY <1>a, <1>f DEF StopKill, RestartKill, RestartAllKill, At, Agrees, Named, Served, Holds
<1>1. ASSUME NEW r, req' = [req EXCEPT ![h] = r], r.op = req[h].op, r.obj = rec,
             r.at \in {"clear", "launch"}, Killed(s0) \/ NotKilled(s0)
      PROVE  Tracked' /\ \A g \in Handlers : Agrees(req'[g], rec', heap', live', leaked')
  <2>1. s0 \notin live' \ leaked'
    BY <1>1 DEF Killed, NotKilled
  <2>2. Agrees(r, rec', heap', live', leaked')
    <3> HIDE DEF s0
    <3>1. heap'[rec'].sess = s0
      BY <1>u DEF s0
    <3> QED
      BY <1>1, <1>u, <2>1, <3>1 DEF Agrees
  <2>3. ASSUME NEW s \in live'
        PROVE  \/ s \in leaked' \/ s = Named'
               \/ s \in live /\ s \notin leaked /\ s # Named /\ s # req[h].sess
    <3> HIDE DEF s0
    <3> QED BY <1>1, <1>t, <1>u DEF Killed, NotKilled
  <2> QED
    BY <1>1, <1>f, <2>2, <2>3, TrackStep, OneAgrees
<1>2. ASSUME Answer(h), UNCHANGED <<live, leaked>>
      PROVE  Tracked' /\ \A g \in Handlers : Agrees(req'[g], rec', heap', live', leaked')
  <2>1. Idle.op \notin {"stop", "restart", "restartall", "discover"}
    BY DEF Idle, Kinds
  <2>2. Agrees(Idle, rec', heap', live', leaked')
    BY <2>1 DEF Agrees
  <2>3. req[h].sess \in {None, Named}
    BY <1>u
  <2> QED
    BY <1>2, <1>f, <1>u, <2>1, <2>2, <2>3, TrackCalm, OneAgrees DEF Answer
<1>3. ASSUME NEW at \in {"clear", "launch"}, Step(h, at, None), Killed(s0) \/ NotKilled(s0)
      PROVE  Tracked' /\ \A g \in Handlers : Agrees(req'[g], rec', heap', live', leaked')
  <2> DEFINE r == [req[h] EXCEPT !.at = at, !.sess = None]
  <2>1. req' = [req EXCEPT ![h] = r] /\ r.op = req[h].op /\ r.obj = rec /\ r.at = at
    BY <1>3, <1>f, <1>t, <1>u DEF Step, Request, TypeOK
  <2> HIDE DEF r
  <2> QED
    BY <1>1, <1>3, <2>1
<1>4. CASE StopKill(h)
  <2>1. req[h].sess = s0
    BY <1>4, <1>u DEF StopKill, At
  <2> HIDE DEF s0
  <2> QED
    BY <1>2, <1>3, <1>4, <2>1 DEF StopKill
<1>5. CASE RestartKill(h)
  <2>1. req[h].sess = s0
    BY <1>5, <1>u DEF RestartKill, At
  <2> DEFINE r == [req[h] EXCEPT !.at = "clear", !.sess = None,
                                 !.backend = BackendOr(heap[req[h].obj].backend)]
  <2>2. CASE Answer(h) /\ UNCHANGED <<live, leaked>>
    BY <1>2, <2>2
  <2>3. CASE req' = [req EXCEPT ![h].at = "clear", ![h].sess = None,
                                ![h].backend = BackendOr(heap[req[h].obj].backend)]
             /\ (Killed(s0) \/ NotKilled(s0))
    <3>1. req' = [req EXCEPT ![h] = r] /\ r.op = req[h].op /\ r.obj = rec /\ r.at = "clear"
      BY <2>3, <1>f, <1>t, <1>u DEF Request, TypeOK
    <3> HIDE DEF r, s0
    <3> QED
      BY <1>1, <2>3, <3>1
  <2> HIDE DEF s0
  <2> QED
    BY <1>5, <2>1, <2>2, <2>3 DEF RestartKill
<1>6. CASE RestartAllKill(h)
  <2>1. heap[req[h].obj].sess = s0
    BY <1>u
  <2> HIDE DEF s0
  <2> QED
    BY <1>3, <1>6, <2>1 DEF RestartAllKill
<1> QED
  BY <1>4, <1>5, <1>6

\* One that writes the record overwrites the name of a dead session, of one let go
\* of, or of the one it started.
LEMMA ReplaceWrites ==
  ASSUME OneInv, NEW h, Handlers = {h},
         StopRecord(h) \/ RestartClear(h) \/ RestartLaunch(h) \/ RestartRecord(h)
  PROVE  Tracked' /\ \A g \in Handlers : Agrees(req'[g], rec', heap', live', leaked')
<1> USE LifecycleAssumption
<1>f. SpawnInv /\ Tracked /\ TypeOK /\ h \in Handlers /\ Served(req[h])
  BY DEF OneInv, SpawnInv
<1>a. Agrees(req[h], rec, heap, live, leaked)
  BY DEF OneInv
<1>t. req[h] \in Request /\ rec \in Objects \cup {None} /\ None \notin live
  BY <1>f DEF TypeOK
<1>u. /\ rec # None /\ req[h].obj = rec /\ Named = heap[rec].sess /\ rec' = rec
      /\ Named \in live \ leaked => Named = req[h].sess
      /\ req[h].op \in {"stop", "restart", "restartall"}
      /\ req[h].at \in {"clear", "launch"} => req[h].sess = None
  BY <1>a, <1>f DEF StopRecord, RestartClear, RestartLaunch, RestartRecord, At, Agrees, Named,
                    Served, Holds
<1>i. Idle.op \notin {"stop", "restart", "restartall", "discover"}
  BY DEF Idle, Kinds
<1>1. ASSUME NEW s \in Sessions \cup {None}, s \in {None, req[h].sess},
             s = None => req[h].sess = None, SetSession(rec, s),
             NEW r, req' = [req EXCEPT ![h] = r], UNCHANGED <<live, leaked>>
      PROVE  Tracked' /\ Named' = s
  <2>1. Named' = s
    BY <1>1, <1>f, <1>u, SetFacts
  <2>2. ASSUME NEW x \in live'
        PROVE  \/ x \in leaked' \/ x = Named'
               \/ x \in live /\ x \notin leaked /\ x # Named /\ x # req[h].sess
    BY <1>1, <1>t, <1>u, <2>1
  <2> QED
    BY <1>1, <1>f, <2>1, <2>2, TrackStep
<1>2. CASE StopRecord(h)
  <2>1. req[h].sess = None /\ SetSession(rec, None) /\ UNCHANGED <<live, leaked>>
        /\ req' = [req EXCEPT ![h] = Idle]
    BY <1>2, <1>u DEF StopRecord, At, Answer
  <2>2. Agrees(Idle, rec', heap', live', leaked')
    BY <1>i DEF Agrees
  <2> QED
    BY <1>1, <1>f, <2>1, <2>2, OneAgrees
<1>3. CASE RestartClear(h)
  <2> DEFINE r == [req[h] EXCEPT !.at = "launch", !.sess = None]
  <2>1. req[h].sess = None /\ SetSession(rec, None) /\ UNCHANGED <<live, leaked>>
        /\ req' = [req EXCEPT ![h] = r]
    BY <1>3, <1>f, <1>t, <1>u DEF RestartClear, At, Step, Request, TypeOK
  <2>2. r.op = req[h].op /\ r.obj = rec /\ r.at = "launch"
    BY <1>t, <1>u DEF Request
  <2> HIDE DEF r
  <2>3. Tracked' /\ Named' = None
    BY <1>1, <2>1
  <2>4. heap'[rec'].sess = None
    BY <1>u, <2>3 DEF Named
  <2>5. Agrees(r, rec', heap', live', leaked')
    BY <1>t, <1>u, <2>1, <2>2, <2>4 DEF Agrees
  <2> QED
    BY <1>f, <2>1, <2>3, <2>5, OneAgrees
<1>4. CASE RestartLaunch(h)
  <2> DEFINE S == Startable(req[h].backend, IF Default \in live THEN Alternate ELSE Default)
  <2>1. req[h].sess = None /\ Named' = Named /\ UNCHANGED heap
    BY <1>4, <1>u DEF RestartLaunch, At, Named
  <2>2. CASE Answer(h) /\ CreateFails(S)
    <3> HIDE DEF S
    <3>1. PICK T \in {{}} \cup {{s} : s \in S} : live' = live \cup T /\ leaked' = leaked \cup T
      BY <2>2 DEF CreateFails
    <3>2. Agrees(Idle, rec', heap', live', leaked')
      BY <1>i DEF Agrees
    <3> QED
      BY <1>f, <1>i, <2>1, <2>2, <3>1, <3>2, TrackStart, OneAgrees DEF Answer
  <2>3. ASSUME NEW s \in S, NEW n \in {s} \cup Nameless(req[h].backend),
               live' = live \cup {s}, leaked' = leaked \cup ({s} \ {n}), Step(h, "register", n)
        PROVE  Tracked' /\ \A g \in Handlers : Agrees(req'[g], rec', heap', live', leaked')
    <3> HIDE DEF S
    <3> DEFINE r == [req[h] EXCEPT !.at = "register", !.sess = n]
    <3>1. /\ req' = [req EXCEPT ![h] = r] /\ r.op = req[h].op /\ r.obj = rec
          /\ r.at = "register" /\ r.sess = n
      BY <2>3, <1>f, <1>t, <1>u DEF Step, Request, TypeOK
    <3> HIDE DEF r
    <3>2. heap'[rec'].sess \in live' \ leaked' => heap'[rec'].sess = n
      BY <1>t, <1>u, <2>1, <2>3
    <3>3. Agrees(r, rec', heap', live', leaked')
      BY <1>u, <3>1, <3>2 DEF Agrees
    <3> QED
      BY <1>f, <1>u, <2>1, <2>3, <3>1, <3>3, TrackStart, OneAgrees
  <2> QED
    BY <1>4, <2>2, <2>3 DEF RestartLaunch
<1>5. CASE RestartRecord(h)
  <2>1. SetSession(rec, req[h].sess) /\ UNCHANGED <<live, leaked>>
        /\ req' = [req EXCEPT ![h] = Idle]
    BY <1>5, <1>u DEF RestartRecord, At, Answer
  <2>2. Agrees(Idle, rec', heap', live', leaked')
    BY <1>i DEF Agrees
  <2>3. req[h].sess \in Sessions \cup {None}
    BY <1>t DEF Request
  <2> QED
    BY <1>1, <1>f, <2>1, <2>2, <2>3, OneAgrees
<1> QED
  BY <1>2, <1>3, <1>4, <1>5

\* After a step of any other kind the only request is no stop and no restart, or
\* a session has exited.
LEMMA OthersAgree ==
  ASSUME OneInv, NEW h, Handlers = {h},
         \/ \E b \in Backends : (\E n \in TmuxNames : SpawnBegin(h, b, n)) \/ CreateLaunch(h, b)
         \/ SpawnProbe(h) \/ SpawnLaunch(h) \/ Register(h)
         \/ DeleteRecord(h) \/ DeleteKill(h) \/ DiscoverList(h) \/ DiscoverAssign(h)
         \/ Reports(h)
  PROVE  req'[h].op \notin {"stop", "restart", "restartall"}
<1> USE LifecycleAssumption
<1>f. TypeOK /\ req \in [Handlers -> Request] /\ \A op : Starts(h, op) => req[h] = Idle
  BY GuardFacts DEF OneInv, SpawnInv, TypeOK
<1>i. Idle.op \notin {"stop", "restart", "restartall"}
  BY DEF Idle, Kinds
<1>a. Answer(h) => req'[h] = Idle
  BY <1>f DEF Answer
<1>s. \A at, s : Step(h, at, s) => req'[h].op = req[h].op
  BY <1>f DEF Step, Request
<1>1. ASSUME NEW b \in Backends, NEW n \in TmuxNames, SpawnBegin(h, b, n)
      PROVE  req'[h].op \notin {"stop", "restart", "restartall"}
  BY <1>1, <1>f DEF SpawnBegin, Idle
<1>2. ASSUME NEW b \in Backends, CreateLaunch(h, b)
      PROVE  req'[h].op \notin {"stop", "restart", "restartall"}
  <2>1. CASE UNCHANGED req
    BY <1>2, <1>f, <1>i, <2>1 DEF CreateLaunch
  <2>2. ASSUME NEW n,
               req' = [req EXCEPT ![h] = [Idle EXCEPT !.op = "create", !.at = "register",
                                                      !.sess = n, !.backend = b]]
        PROVE  req'[h].op = "create"
    BY <1>f, <2>2 DEF Idle
  <2> QED
    BY <1>2, <2>1, <2>2 DEF CreateLaunch
<1>3. CASE SpawnProbe(h) \/ SpawnLaunch(h) \/ Register(h)
  <2>1. CASE Answer(h)
    BY <1>a, <1>i, <2>1
  <2>2. CASE ~Answer(h)
    BY <1>3, <1>s, <2>2 DEF SpawnProbe, SpawnLaunch, Register, At
  <2> QED
    BY <2>1, <2>2
<1>4. CASE DeleteRecord(h)
  <2>1. CASE Named = None
    BY <1>4, <1>f, <1>i, <2>1 DEF DeleteRecord
  <2>2. CASE Named # None
    <3>1. req'[h].op = "delete"
      BY <1>4, <1>f, <2>2 DEF DeleteRecord, Capture, Idle
    <3> QED
      BY <3>1
  <2> QED
    BY <2>1, <2>2
<1>5. CASE DiscoverList(h)
  BY <1>5, <1>f DEF DiscoverList, Idle
<1>6. CASE DeleteKill(h) \/ DiscoverAssign(h)
  BY <1>6, <1>a, <1>i DEF DeleteKill, DiscoverAssign
<1>7. CASE Reports(h)
  BY <1>7, <1>f, <1>i DEF Reports, PostStatus, Ignite
<1> QED
  BY <1>1, <1>2, <1>3, <1>4, <1>5, <1>6, <1>7

\* One request at a time, of any kind and on any backends, whatever they answer:
\* every session that runs is named by the record or in the hands of the request,
\* unless a request let go of it (lifecycle.go:522-543, 596-665, 868-925).
THEOREM OneRequestKeepsTrack ==
  ASSUME OneRequest
  PROVE  Spec => []TrackedInv
<1>h. PICK h : Handlers = {h}
  BY DEF OneRequest
<1>1. Init => OneInv
  <2> SUFFICES ASSUME Init PROVE OneInv
    OBVIOUS
  <2>1. \A g \in Handlers : req[g] = Idle
    BY DEF Init
  <2>2. Idle.op \notin {"stop", "restart", "restartall"}
    BY LifecycleAssumption DEF Idle, Kinds
  <2> QED
    BY <2>1, <2>2, ServedInit, InitTracked DEF OneInv, Agrees
<1>2. OneInv /\ [Next]_vars => OneInv'
  <2> SUFFICES ASSUME OneInv, [Next]_vars PROVE OneInv'
    OBVIOUS
  <2>1. SpawnInv /\ Tracked /\ SpawnInv'
    BY ServedNext DEF OneInv
  <2>2. CASE Begin(h) \/ Reports(h) \/ Proceed(h)
    <3>1. CASE \/ StopBegin(h) \/ RestartBegin(h) \/ RestartAllBegin(h)
               \/ StopKill(h) \/ RestartKill(h) \/ RestartAllKill(h)
               \/ StopRecord(h) \/ RestartClear(h) \/ RestartLaunch(h) \/ RestartRecord(h)
      <4>1. Tracked' /\ \A g \in Handlers : Agrees(req'[g], rec', heap', live', leaked')
        BY <1>h, <3>1, ReplaceBegins, ReplaceKills, ReplaceWrites
      <4> QED
        BY <2>1, <4>1 DEF OneInv
    <3>2. CASE \/ \E b \in Backends : (\E n \in TmuxNames : SpawnBegin(h, b, n)) \/ CreateLaunch(h, b)
               \/ SpawnProbe(h) \/ SpawnLaunch(h) \/ Register(h)
               \/ DeleteRecord(h) \/ DeleteKill(h) \/ DiscoverList(h) \/ DiscoverAssign(h)
               \/ Reports(h)
      <4>1. req'[h].op \notin {"stop", "restart", "restartall"}
        BY <1>h, <3>2, OthersAgree
      <4>2. \A g \in Handlers : Agrees(req'[g], rec', heap', live', leaked')
        BY <1>h, <4>1 DEF Agrees
      <4>3. h \in Handlers
        BY <1>h
      <4>4. Tracked'
        BY <2>1, <3>2, <4>3, StartsTracked, OthersTracked, ReportsTracked
      <4> QED
        BY <2>1, <4>2, <4>4 DEF OneInv
    <3> QED
      BY <2>2, <3>1, <3>2 DEF Begin, Proceed
  <2>3. ASSUME NEW s \in Sessions, SessionExit(s) PROVE OneInv'
    <3>1. Tracked'
      BY <2>1, <2>3, ExitsTracked
    <3>2. \A g \in Handlers : Agrees(req'[g], rec', heap', live', leaked')
      BY <2>3 DEF SessionExit, Killed, OneInv, Agrees
    <3> QED
      BY <2>1, <3>1, <3>2 DEF OneInv
  <2>4. CASE UNCHANGED vars
    <3>1. Tracked'
      BY <2>1, <2>4 DEF vars, Tracked, Known, Named
    <3> QED
      BY <2>1, <2>4, <3>1 DEF vars, OneInv
  <2> QED
    BY <1>h, <2>2, <2>3, <2>4 DEF Next
<1>3. OneInv => TrackedInv
  BY DEF OneInv, SpawnInv, Served, TrackedInv
<1> QED
  BY <1>1, <1>2, <1>3, PTL DEF Spec

=============================================================================
