--------------------------- MODULE LivenessProofs ---------------------------
(* Proofs about how the server keeps track of its agents: the record of an *)
(* agent and its registration agree on whether it is stale, for any agents *)
(* and any number of calls at work; and its nudges exclude each other and  *)
(* are not lost, for any agents, goroutines and messages.                  *)
EXTENDS Nudge, Presence, TLAPS

-----------------------------------------------------------------------------
(* Presence.                                                               *)

Records == [there : BOOLEAN, declared : BOOLEAN, stale : BOOLEAN]

Jobs == {Idle} \cup [phase : {"registering", "beating"}, agent : Staff]

PresenceOK ==
  /\ reg \in [Staff -> Entries]
  /\ rec \in [Staff -> Records] /\ saved \in [Staff -> Records]
  /\ silent \subseteq Staff /\ call \in [Calls -> Jobs]
  /\ marked \subseteq Staff /\ crossed \subseteq Staff

\* A record that is made later starts without a mark.
FreshUnmarked ==
  \A a \in Staff : (~rec[a].there => ~rec[a].stale) /\ (~saved[a].there => ~saved[a].stale)

\* A mark is copied, or about to be cleared, or about to be copied.
Pending(a) == a \in marked \/ \E h \in Calls : call[h] # Idle /\ call[h].agent = a

Agree(a) == rec[a].stale <=> reg[a] = "stale"

AgreeOrPending ==
  \A a \in Staff \ crossed :
    rec[a].there /\ reg[a] # "none" => Agree(a) \/ Pending(a)

\* The inductive invariant behind MarksAgree.
PresenceInv == PresenceOK /\ FreshUnmarked /\ AgreeOrPending

PresenceSpec == PresenceInit /\ [][PresenceNext]_presenceVars

-----------------------------------------------------------------------------
\* A call that ends is at work until then, for its agent alone.
LEMMA JobShape ==
  ASSUME NEW j \in Jobs, j # Idle
  PROVE  j.agent \in Staff
  BY DEF Jobs, Idle

LEMMA InitPresence == PresenceInit => PresenceInv
  <1> SUFFICES ASSUME PresenceInit PROVE PresenceInv
    OBVIOUS
  <1>1. Absent \in Records /\ ~Absent.there /\ ~Absent.stale  BY DEF Absent, Records
  <1>2. \A a \in Staff : rec[a] = Absent /\ saved[a] = Absent  BY DEF PresenceInit
  <1>3. PresenceOK  BY <1>1 DEF PresenceInit, PresenceOK, Jobs, Entries
  <1>4. FreshUnmarked /\ AgreeOrPending
    BY <1>1, <1>2 DEF FreshUnmarked, AgreeOrPending
  <1> QED BY <1>3, <1>4 DEF PresenceInv

\* What a step may do to the record of one agent.
Changed(a, q) == rec' = [rec EXCEPT ![a] = q]

LEMMA RecordMade ==
  ASSUME PresenceInv, NEW a \in Staff, NEW q \in Records, Changed(a, q), q.there,
         q.stale = rec[a].stale, crossed' = Created(a),
         UNCHANGED <<reg, marked>>,
         \A b \in Staff : Pending(b) => Pending(b)',
         saved' \in {saved, rec'}
  PROVE  /\ rec' \in [Staff -> Records] /\ saved' \in [Staff -> Records]
         /\ crossed' \subseteq Staff
         /\ FreshUnmarked' /\ AgreeOrPending'
  <1>1. /\ rec'[a] = q
        /\ \A b \in Staff \ {a} : rec'[b] = rec[b]
        /\ rec' \in [Staff -> Records]
    BY DEF PresenceInv, PresenceOK, Changed
  <1>2. saved' \in [Staff -> Records] /\ crossed' \subseteq Staff
    BY <1>1 DEF PresenceInv, PresenceOK, Created
  <1>3. \A b \in Staff : ~rec'[b].there => ~rec'[b].stale
    BY <1>1 DEF PresenceInv, FreshUnmarked
  <1>4. FreshUnmarked'
    BY <1>3 DEF PresenceInv, FreshUnmarked
  <1>5. ASSUME NEW b \in Staff \ crossed', rec'[b].there, reg'[b] # "none"
        PROVE  Agree(b)' \/ Pending(b)'
    <2>1. b \notin crossed  BY <1>5 DEF Created
    <2>2. CASE rec[b].there
      <3>1. Agree(b) \/ Pending(b)
        BY <1>5, <2>1, <2>2 DEF PresenceInv, AgreeOrPending
      <3>2. rec'[b].stale = rec[b].stale  BY <1>1
      <3> QED BY <3>1, <3>2 DEF Agree
    <2>3. CASE ~rec[b].there
      <3>1. b = a  BY <1>1, <1>5, <2>3
      <3>2. reg[a] # "stale"  BY <1>5, <2>3, <3>1 DEF Created
      <3>3. ~rec[a].stale  BY <2>3, <3>1 DEF PresenceInv, FreshUnmarked
      <3> QED BY <1>1, <3>1, <3>2, <3>3 DEF Agree
    <2> QED BY <2>2, <2>3
  <1> QED BY <1>1, <1>2, <1>4, <1>5 DEF AgreeOrPending

LEMMA RegisterKeeps ==
  ASSUME PresenceInv, NEW h \in Calls, NEW a \in Staff, Register(h, a)
  PROVE  PresenceInv'
  <1> DEFINE q == [rec[a] EXCEPT !.there = TRUE, !.declared = TRUE]
             j == [phase |-> "registering", agent |-> a]
  <1>1. q \in Records /\ q.there /\ q.stale = rec[a].stale
    BY DEF PresenceInv, PresenceOK, Records
  <1>2. j \in Jobs /\ j # Idle  BY DEF Jobs, Idle
  <1>3. call' = [call EXCEPT ![h] = j] /\ call[h] = Idle  BY DEF Register
  <1>4. Changed(a, q) /\ saved' = rec'
    BY DEF PresenceInv, PresenceOK, Register, Save, Changed
  <1> HIDE DEF q, j
  <1>5. call' \in [Calls -> Jobs] /\ \A b \in Staff : Pending(b) => Pending(b)'
    BY <1>2, <1>3 DEF PresenceInv, PresenceOK, Pending, Register
  <1>6. /\ rec' \in [Staff -> Records] /\ saved' \in [Staff -> Records]
        /\ crossed' \subseteq Staff /\ FreshUnmarked' /\ AgreeOrPending'
    BY <1>1, <1>4, <1>5, RecordMade DEF Register
  <1> QED BY <1>5, <1>6 DEF PresenceInv, PresenceOK, Register

LEMMA RefuseKeeps ==
  ASSUME PresenceInv, NEW a \in Staff, Refuse(a)
  PROVE  PresenceInv'
  <1> DEFINE q == [rec[a] EXCEPT !.there = TRUE, !.declared = TRUE]
  <1>1. q \in Records /\ q.there /\ q.stale = rec[a].stale
    BY DEF PresenceInv, PresenceOK, Records
  <1>2. Changed(a, q) /\ saved' = saved
    BY DEF PresenceInv, PresenceOK, Refuse, Changed
  <1> HIDE DEF q
  <1>3. \A b \in Staff : Pending(b) => Pending(b)'  BY DEF Pending, Refuse
  <1>4. /\ rec' \in [Staff -> Records] /\ saved' \in [Staff -> Records]
        /\ crossed' \subseteq Staff /\ FreshUnmarked' /\ AgreeOrPending'
    BY <1>1, <1>2, <1>3, RecordMade DEF Refuse
  <1> QED BY <1>4 DEF PresenceInv, PresenceOK, Refuse

LEMMA PostKeeps ==
  ASSUME PresenceInv, NEW a \in Staff, Post(a)
  PROVE  PresenceInv'
  <1> DEFINE q == [rec[a] EXCEPT !.there = TRUE]
  <1>1. q \in Records /\ q.there /\ q.stale = rec[a].stale
    BY DEF PresenceInv, PresenceOK, Records
  <1>2. Changed(a, q) /\ saved' = rec'
    BY DEF PresenceInv, PresenceOK, Post, Save, Changed
  <1> HIDE DEF q
  <1>3. \A b \in Staff : Pending(b) => Pending(b)'  BY DEF Pending, Post
  <1>4. /\ rec' \in [Staff -> Records] /\ saved' \in [Staff -> Records]
        /\ crossed' \subseteq Staff /\ FreshUnmarked' /\ AgreeOrPending'
    BY <1>1, <1>2, <1>3, RecordMade DEF Post
  <1> QED BY <1>4 DEF PresenceInv, PresenceOK, Post

-----------------------------------------------------------------------------
\* The end of a call: its agent is as the call leaves it, the others as they were.
LEMMA CallEnds ==
  ASSUME PresenceInv, NEW h \in Calls, NEW a \in Staff, call[h] # Idle, a = call[h].agent,
         call' = [call EXCEPT ![h] = Idle], marked' = marked,
         FreshUnmarked',
         \A b \in Staff \ {a} :
           /\ rec'[b] = rec[b] /\ reg'[b] = reg[b] /\ (b \in crossed <=> b \in crossed'),
         a \notin crossed' /\ rec'[a].there => Agree(a)'
  PROVE  call' \in [Calls -> Jobs] /\ FreshUnmarked' /\ AgreeOrPending'
  <1>1. call' \in [Calls -> Jobs]  BY DEF PresenceInv, PresenceOK, Jobs
  <1>3. ASSUME NEW b \in Staff \ crossed', rec'[b].there, reg'[b] # "none"
        PROVE  Agree(b)' \/ Pending(b)'
    <2>1. CASE b = a  BY <1>3, <2>1
    <2>2. CASE b # a
      <3>1. Agree(b) \/ Pending(b)
        BY <1>3, <2>2 DEF PresenceInv, AgreeOrPending
      <3>2. ASSUME NEW g \in Calls, call[g] # Idle, call[g].agent = b
            PROVE  call'[g] # Idle /\ call'[g].agent = b
        BY <2>2, <3>2 DEF PresenceInv, PresenceOK
      <3>3. CASE Agree(b)  BY <1>3, <2>2, <3>3 DEF Agree
      <3>4. CASE Pending(b)
        <4>1. Pending(b)'  BY <3>2, <3>4 DEF Pending
        <4> QED BY <4>1
      <3> QED BY <3>1, <3>3, <3>4
    <2> QED BY <2>1, <2>2
  <1> QED BY <1>1, <1>3 DEF AgreeOrPending

LEMMA RegisteredKeeps ==
  ASSUME PresenceInv, NEW h \in Calls, Registered(h)
  PROVE  PresenceInv'
  <1>1. call[h] # Idle  BY DEF Registered, Idle
  <1>2. PICK a \in Staff : a = call[h].agent  BY <1>1, JobShape DEF PresenceInv, PresenceOK
  <1>3. PICK e \in {"untimed", "alive"} : reg' = [reg EXCEPT ![a] = e]  BY <1>2 DEF Registered
  <1>4. /\ UNCHANGED <<rec, saved, marked>> /\ call' = [call EXCEPT ![h] = Idle]
        /\ silent' = silent \ {a}
        /\ crossed' = IF rec[a].stale THEN crossed \cup {a} ELSE crossed
    BY <1>2 DEF Registered
  <1>5. reg' \in [Staff -> Entries] /\ reg'[a] # "stale"
    BY <1>2, <1>3 DEF PresenceInv, PresenceOK, Entries
  <1>6. \A b \in Staff \ {a} : reg'[b] = reg[b]
    BY <1>3 DEF PresenceInv, PresenceOK
  <1>7. a \notin crossed' => Agree(a)'
    <2>1. CASE rec[a].stale  BY <1>4, <2>1
    <2>2. CASE ~rec[a].stale  BY <1>4, <1>5, <2>2 DEF Agree
    <2> QED BY <2>1, <2>2
  <1>8. FreshUnmarked'  BY <1>4 DEF PresenceInv, FreshUnmarked
  <1>9. \A b \in Staff \ {a} : b \in crossed <=> b \in crossed'  BY <1>4
  <1>10. call' \in [Calls -> Jobs] /\ AgreeOrPending'
    BY <1>1, <1>2, <1>4, <1>6, <1>7, <1>8, <1>9, CallEnds
  <1> QED BY <1>2, <1>4, <1>5, <1>8, <1>10 DEF PresenceInv, PresenceOK

LEMMA BeatenKeepsInv ==
  ASSUME PresenceInv, NEW h \in Calls, Beaten(h)
  PROVE  PresenceInv'
  <1>1. call[h] # Idle  BY DEF Beaten, Idle
  <1>2. PICK a \in Staff : a = call[h].agent  BY <1>1, JobShape DEF PresenceInv, PresenceOK
  <1> DEFINE q == [rec[a] EXCEPT !.stale = FALSE]
  <1>3. /\ UNCHANGED <<reg, silent, marked>> /\ call' = [call EXCEPT ![h] = Idle]
        /\ crossed' = IF reg[a] = "stale" THEN crossed \cup {a} ELSE crossed \ {a}
    BY <1>2 DEF Beaten
  <1>4. q \in Records /\ ~q.stale
    <2>1. rec[a] \in Records  BY DEF PresenceInv, PresenceOK
    <2>2. q.stale = FALSE  BY <2>1 DEF Records
    <2>3. q \in Records  BY <2>1 DEF Records
    <2> QED BY <2>2, <2>3
  <1>5. \/ rec[a].there /\ rec' = [rec EXCEPT ![a] = q] /\ saved' = rec'
        \/ ~rec[a].there /\ UNCHANGED <<rec, saved>>
    BY <1>2 DEF Beaten, Save, PresenceInv, PresenceOK
  <1> HIDE DEF q
  <1>6. /\ rec' \in [Staff -> Records] /\ saved' \in [Staff -> Records]
        /\ rec'[a].there => ~rec'[a].stale
        /\ \A b \in Staff \ {a} : rec'[b] = rec[b]
    BY <1>2, <1>4, <1>5 DEF PresenceInv, PresenceOK
  <1>7. FreshUnmarked'
    BY <1>2, <1>4, <1>5 DEF PresenceInv, PresenceOK, FreshUnmarked
  <1>8. a \notin crossed' /\ rec'[a].there => Agree(a)'
    <2>1. CASE reg[a] = "stale"  BY <1>3, <2>1
    <2>2. CASE reg[a] # "stale"  BY <1>3, <1>6, <2>2 DEF Agree
    <2> QED BY <2>1, <2>2
  <1>9. \A b \in Staff \ {a} : reg'[b] = reg[b] /\ (b \in crossed <=> b \in crossed')
    BY <1>3
  <1>10. call' \in [Calls -> Jobs] /\ AgreeOrPending'
    BY <1>1, <1>2, <1>3, <1>6, <1>7, <1>8, <1>9, CallEnds
  <1>11. crossed' \subseteq Staff  BY <1>2, <1>3 DEF PresenceInv, PresenceOK
  <1> QED BY <1>3, <1>6, <1>7, <1>10, <1>11 DEF PresenceInv, PresenceOK

LEMMA BeatKeeps ==
  ASSUME PresenceInv, NEW h \in Calls, NEW a \in Staff, Beat(h, a)
  PROVE  PresenceInv'
  <1> DEFINE j == [phase |-> "beating", agent |-> a]
  <1>1. j \in Jobs /\ j # Idle /\ j.agent = a  BY DEF Jobs, Idle
  <1>2. call' = [call EXCEPT ![h] = j] /\ call[h] = Idle  BY DEF Beat
  <1> HIDE DEF j
  <1>3. /\ UNCHANGED <<rec, saved, marked, crossed>> /\ silent' \subseteq Staff
        /\ reg' \in [Staff -> Entries]
        /\ \A b \in Staff \ {a} : reg'[b] = reg[b]
    BY DEF Beat, PresenceInv, PresenceOK, Entries
  <1>4. call' \in [Calls -> Jobs] /\ Pending(a)' /\ \A b \in Staff : Pending(b) => Pending(b)'
    BY <1>1, <1>2, <1>3 DEF PresenceInv, PresenceOK, Pending
  <1>5. AgreeOrPending'
    BY <1>3, <1>4 DEF PresenceInv, AgreeOrPending, Agree
  <1> QED BY <1>3, <1>4, <1>5 DEF PresenceInv, PresenceOK, FreshUnmarked

LEMMA CheckKeeps ==
  ASSUME PresenceInv, Check
  PROVE  PresenceInv'
  <1>1. /\ UNCHANGED <<rec, saved, silent, call, crossed>> /\ marked = {}
        /\ marked' \subseteq Staff /\ reg' \in [Staff -> Entries]
        /\ \A b \in Staff \ marked' : reg'[b] = reg[b]
    BY DEF Check, PresenceInv, PresenceOK, Entries
  <1>2. AgreeOrPending'
    BY <1>1 DEF PresenceInv, AgreeOrPending, Agree, Pending
  <1> QED BY <1>1, <1>2 DEF PresenceInv, PresenceOK, FreshUnmarked

LEMMA CopyKeeps ==
  ASSUME PresenceInv, Copy
  PROVE  PresenceInv'
  <1> DEFINE Q(b) == IF b \in marked /\ rec[b].there
                       THEN [rec[b] EXCEPT !.stale = TRUE] ELSE rec[b]
  <1>1. /\ UNCHANGED <<reg, silent, call>> /\ saved' = rec' /\ marked' = {}
        /\ crossed' = (crossed \ marked) \cup {b \in marked : reg[b] # "stale"}
        /\ rec' = [b \in Staff |-> Q(b)]
    BY DEF Copy, Save
  <1>2. ASSUME NEW b \in Staff
        PROVE  /\ Q(b) \in Records /\ Q(b).there = rec[b].there
               /\ b \in marked /\ rec[b].there => Q(b).stale
               /\ b \notin marked \/ ~rec[b].there => Q(b) = rec[b]
    BY DEF PresenceInv, PresenceOK, Records
  <1> HIDE DEF Q
  <1>3. /\ rec' \in [Staff -> Records] /\ crossed' \subseteq Staff
        /\ \A b \in Staff : rec'[b] = Q(b)
    BY <1>1, <1>2 DEF PresenceInv, PresenceOK
  <1>4. \A b \in Staff : ~rec'[b].there => ~rec'[b].stale
    BY <1>2, <1>3 DEF PresenceInv, FreshUnmarked
  <1>5. FreshUnmarked'  BY <1>1, <1>4 DEF FreshUnmarked
  <1>6. ASSUME NEW b \in Staff \ crossed', rec'[b].there, reg'[b] # "none"
        PROVE  Agree(b)' \/ Pending(b)'
    <2>1. CASE b \in marked
      BY <1>1, <1>2, <1>3, <1>6, <2>1 DEF Agree
    <2>2. CASE b \notin marked
      <3>1. Agree(b) \/ Pending(b)
        BY <1>1, <1>2, <1>3, <1>6, <2>2 DEF PresenceInv, AgreeOrPending
      <3>2. Pending(b) => Pending(b)'  BY <1>1, <2>2 DEF Pending
      <3> QED BY <1>1, <1>2, <1>3, <2>2, <3>1, <3>2 DEF Agree
    <2> QED BY <2>1, <2>2
  <1>7. AgreeOrPending'  BY <1>6 DEF AgreeOrPending
  <1> QED BY <1>1, <1>3, <1>5, <1>7 DEF PresenceInv, PresenceOK

LEMMA RemoveKeeps ==
  ASSUME PresenceInv, NEW a \in Staff, RemoveRecord(a)
  PROVE  PresenceInv'
  <1>1. Absent \in Records /\ ~Absent.there /\ ~Absent.stale  BY DEF Absent, Records
  <1>2. /\ UNCHANGED <<reg, silent, call, marked, crossed>> /\ saved' = rec'
        /\ rec' = [rec EXCEPT ![a] = Absent]
    BY DEF RemoveRecord, Save
  <1>3. rec' \in [Staff -> Records] /\ rec'[a] = Absent /\ \A b \in Staff \ {a} : rec'[b] = rec[b]
    BY <1>1, <1>2 DEF PresenceInv, PresenceOK
  <1>4. FreshUnmarked'  BY <1>1, <1>2, <1>3 DEF PresenceInv, FreshUnmarked
  <1>5. AgreeOrPending'
    BY <1>1, <1>2, <1>3 DEF PresenceInv, AgreeOrPending, Agree, Pending
  <1> QED BY <1>2, <1>3, <1>4, <1>5 DEF PresenceInv, PresenceOK

LEMMA RestartKeeps ==
  ASSUME PresenceInv, Restart
  PROVE  PresenceInv'
  <1>1. reg' \in [Staff -> Entries] /\ \A b \in Staff : reg'[b] = "none"
    BY DEF Restart, Entries
  <1>2. call' \in [Calls -> Jobs]  BY DEF Restart, Jobs
  <1>3. AgreeOrPending'  BY <1>1 DEF AgreeOrPending
  <1> QED BY <1>1, <1>2, <1>3 DEF Restart, PresenceInv, PresenceOK, FreshUnmarked

LEMMA LapseKeeps ==
  ASSUME PresenceInv, NEW a \in Staff, Lapse(a)
  PROVE  PresenceInv'
  BY DEF Lapse, PresenceInv, PresenceOK, FreshUnmarked, AgreeOrPending, Agree, Pending

LEMMA StepPresence == PresenceInv /\ [PresenceNext]_presenceVars => PresenceInv'
  <1> SUFFICES ASSUME PresenceInv, [PresenceNext]_presenceVars PROVE PresenceInv'
    OBVIOUS
  <1>1. CASE UNCHANGED presenceVars
    BY <1>1 DEF presenceVars, PresenceInv, PresenceOK, FreshUnmarked, AgreeOrPending, Agree, Pending
  <1> QED BY <1>1, CheckKeeps, CopyKeeps, RestartKeeps, RegisteredKeeps, BeatenKeepsInv, RefuseKeeps,
            PostKeeps, RemoveKeeps, LapseKeeps, RegisterKeeps, BeatKeeps DEF PresenceNext

-----------------------------------------------------------------------------
\* The mark that the dashboard shows and the one that the checks use agree,
\* whenever no call and no check is between its two locks, but for the
\* crossings that MarksAgree names (protocol.go).
THEOREM RecordsAgree == PresenceSpec => []MarksAgree
  <1>1. PresenceInv => MarksAgree
    <2> SUFFICES ASSUME PresenceInv, Settled, NEW a \in Staff,
                        rec[a].there, reg[a] # "none", a \notin crossed
                 PROVE  Agree(a)
      BY DEF MarksAgree, Agree
    <2>1. ~Pending(a)  BY DEF Settled, Pending
    <2> QED BY <2>1 DEF PresenceInv, AgreeOrPending
  <1> QED BY <1>1, InitPresence, StepPresence, PTL DEF PresenceSpec

-----------------------------------------------------------------------------
(* Nudge.                                                                  *)

USE MaxMailAssumption

LEMMA FreeIsNoJob == Free \notin Job
  BY DEF Free, Job, Phases

LEMMA InitNudge == Init => NudgeInv
  BY DEF Init, NudgeInv, TypeOK, Flagged, OneNudge, NoLostWakeUp, Quiet, Sessions, Free

LEMMA DeliverNudge == ASSUME NudgeInv, NEW a \in Agents, Deliver(a) PROVE NudgeInv'
  BY DEF NudgeInv, TypeOK, Flagged, OneNudge, NoLostWakeUp, Deliver

LEMMA MarkNudge == ASSUME NudgeInv, NEW a \in Agents, Mark(a) PROVE NudgeInv'
  BY DEF NudgeInv, TypeOK, Flagged, OneNudge, NoLostWakeUp, Mark

\* The agents that are fired had no nudge at work, and each gets one.
LEMMA FireNudge ==
  ASSUME NudgeInv, NEW A \in SUBSET Agents, A \cap inFlight = {}, Fire(A),
         UNCHANGED <<session, mail, waking>>, loop' \in [phase : {"waiting", "probing", "acting"},
           probes : SUBSET Agents, left : SUBSET Agents, ripe : SUBSET Agents]
  PROVE NudgeInv'
<1> DEFINE start == CHOOSE f \in Starts(A) : TRUE
<1>1. start \in Starts(A)
  BY DEF Fire
<1>2. \A a \in A : start[a] \in Nudgers /\ job[start[a]] = Free
  BY <1>1 DEF Starts
<1>3. \A j \in Nudgers : job'[j] =
        IF \E a \in A : start[a] = j
          THEN [phase |-> "started", agent |-> CHOOSE a \in A : start[a] = j]
          ELSE job[j]
  BY DEF Fire
<1> HIDE DEF start
<1>4. ASSUME NEW j \in Nudgers, \E a \in A : start[a] = j
      PROVE job'[j] \in Job /\ job'[j].agent \in A /\ start[job'[j].agent] = j
  <2> DEFINE who == CHOOSE b \in A : start[b] = j
  <2>1. who \in A /\ start[who] = j
    BY <1>4
  <2>2. job'[j] = [phase |-> "started", agent |-> who]
    BY <1>3, <1>4
  <2> HIDE DEF who
  <2>3. job'[j].agent = who /\ who \in Agents
    BY <2>1, <2>2
  <2>4. QED
    BY <2>1, <2>2, <2>3 DEF Job, Phases
<1>5. ASSUME NEW j \in Nudgers, ~\E a \in A : start[a] = j
      PROVE job'[j] = job[j]
  BY <1>3, <1>5
<1>6. TypeOK'
  <2>1. job' \in [Nudgers -> Job \cup {Free}]
    <3>1. job' = [j \in Nudgers |-> job'[j]]
      BY DEF Fire
    <3>2. \A j \in Nudgers : job'[j] \in Job \cup {Free}
      BY <1>4, <1>5 DEF NudgeInv, TypeOK
    <3>3. QED
      BY <3>1, <3>2
  <2>2. QED
    BY <2>1 DEF NudgeInv, TypeOK, Fire
<1>7. Flagged'
  BY <1>4, <1>5 DEF NudgeInv, Flagged, Fire
<1>8. OneNudge'
  <2> SUFFICES ASSUME NEW j \in Nudgers, NEW k \in Nudgers,
                      job'[j] # Free, job'[k] # Free, job'[j].agent = job'[k].agent
               PROVE j = k
    BY DEF OneNudge, Free
  <2>1. CASE (\E a \in A : start[a] = j) /\ (\E a \in A : start[a] = k)
    BY <1>4, <2>1
  <2>2. CASE (\E a \in A : start[a] = j) /\ ~(\E a \in A : start[a] = k)
    BY <1>4, <1>5, <2>2 DEF NudgeInv, Flagged
  <2>3. CASE ~(\E a \in A : start[a] = j) /\ (\E a \in A : start[a] = k)
    BY <1>4, <1>5, <2>3 DEF NudgeInv, Flagged
  <2>4. CASE ~(\E a \in A : start[a] = j) /\ ~(\E a \in A : start[a] = k)
    BY <1>5, <2>4 DEF NudgeInv, OneNudge
  <2>5. QED
    BY <2>1, <2>2, <2>3, <2>4
<1>9. NoLostWakeUp'
  BY DEF NudgeInv, NoLostWakeUp, Fire
<1>10. QED
  BY <1>6, <1>7, <1>8, <1>9 DEF NudgeInv

LEMMA LoopNudge == ASSUME NudgeInv, Loop PROVE NudgeInv'
<1>1. CASE Tick
  BY <1>1 DEF NudgeInv, TypeOK, Flagged, OneNudge, NoLostWakeUp, Tick
<1>2. ASSUME NEW a \in Agents, Probe(a) PROVE NudgeInv'
  BY <1>2 DEF NudgeInv, TypeOK, Flagged, OneNudge, NoLostWakeUp, Probe
<1>3. CASE Probed
  BY <1>3 DEF NudgeInv, TypeOK, Flagged, OneNudge, NoLostWakeUp, Probed
<1>4. ASSUME NEW a \in Agents, Act(a) PROVE NudgeInv'
  <2> DEFINE A == IF CanNudge(a) THEN {a} ELSE {}
  <2>1. A \in SUBSET Agents /\ A \cap inFlight = {}
    BY DEF CanNudge
  <2>2. loop' \in [phase : {"waiting", "probing", "acting"}, probes : SUBSET Agents,
                   left : SUBSET Agents, ripe : SUBSET Agents]
    BY <1>4 DEF Act, NudgeInv, TypeOK
  <2>3. Fire(A) /\ UNCHANGED <<session, mail, waking>>
    BY <1>4 DEF Act
  <2> HIDE DEF A
  <2>4. QED
    BY <2>1, <2>2, <2>3, FireNudge
<1>5. CASE Sweep
  <2> DEFINE A == {a \in Agents \ loop.probes : CanNudge(a)}
  <2>1. A \in SUBSET Agents /\ A \cap inFlight = {}
    BY DEF CanNudge
  <2>2. loop' \in [phase : {"waiting", "probing", "acting"}, probes : SUBSET Agents,
                   left : SUBSET Agents, ripe : SUBSET Agents]
    BY <1>5 DEF Sweep, Quiet
  <2>3. Fire(A) /\ UNCHANGED <<session, mail, waking>>
    BY <1>5 DEF Sweep
  <2> HIDE DEF A
  <2>4. QED
    BY <2>1, <2>2, <2>3, FireNudge
<1>6. QED
  BY <1>1, <1>2, <1>3, <1>4, <1>5 DEF Loop

\* A check-in that goes on keeps its agent.
LEMMA GoesNudge ==
  ASSUME NudgeInv, NEW j \in Nudgers, job[j] # Free, NEW phase \in Phases,
         Goes(j, phase), session' \in [Agents -> Sessions]
  PROVE NudgeInv'
<1>1. job[j] \in Job
  BY DEF NudgeInv, TypeOK
<1>2. /\ job' = [job EXCEPT ![j] = [job[j] EXCEPT !.phase = phase]]
      /\ [job[j] EXCEPT !.phase = phase] \in Job
      /\ [job[j] EXCEPT !.phase = phase].agent = job[j].agent
  BY <1>1 DEF Goes, Job
<1>3. TypeOK'
  BY <1>2 DEF NudgeInv, TypeOK, Goes
<1>4. \A k \in Nudgers : /\ job'[k] # Free => job[k] # Free
                         /\ job[k] # Free => job'[k].agent = job[k].agent
  BY <1>2 DEF NudgeInv, TypeOK
<1>5. Flagged' /\ OneNudge' /\ NoLostWakeUp'
  BY <1>4 DEF NudgeInv, Flagged, OneNudge, NoLostWakeUp, Goes, Free
<1>6. QED
  BY <1>3, <1>5 DEF NudgeInv

LEMMA CheckInNudge == ASSUME NudgeInv, NEW j \in Nudgers, CheckIn(j) PROVE NudgeInv'
<1>1. CASE End(j)
  <2>1. job' = [job EXCEPT ![j] = Free] /\ inFlight' = inFlight \ {job[j].agent}
    BY <1>1 DEF End
  <2>2. job[j] # Free
    BY <1>1 DEF End, Free
  <2>3. \A k \in Nudgers : job'[k] # Free => job[k] # Free /\ k # j /\ job'[k] = job[k]
    BY <2>1 DEF NudgeInv, TypeOK
  <2>4. TypeOK'
    BY <1>1, <2>1 DEF NudgeInv, TypeOK, End
  <2>5. Flagged'
    BY <2>1, <2>2, <2>3 DEF NudgeInv, Flagged, OneNudge
  <2>6. OneNudge'
    BY <2>3 DEF NudgeInv, OneNudge, Free
  <2>7. NoLostWakeUp'
    BY <1>1 DEF NudgeInv, NoLostWakeUp, End
  <2>8. QED
    BY <2>4, <2>5, <2>6, <2>7 DEF NudgeInv
<1>2. CASE Resolve(j) \/ Look(j) \/ Type(j) \/ Posted(j)
  <2>1. job[j] # Free
    BY <1>2 DEF Resolve, Look, Type, Posted, Free
  <2>2. session' \in [Agents -> Sessions]
    BY <1>2 DEF NudgeInv, TypeOK, Resolve, Look, Resume, Type, Posted, Sessions
  <2>3. \E phase \in Phases : Goes(j, phase)
    BY <1>2 DEF Resolve, Look, Type, Posted, Phases
  <2>4. QED
    BY <2>1, <2>2, <2>3, GoesNudge
<1>3. QED
  BY <1>1, <1>2 DEF CheckIn

LEMMA ChangeNudge == ASSUME NudgeInv, NEW a \in Agents, Change(a) PROVE NudgeInv'
  BY DEF NudgeInv, TypeOK, Flagged, OneNudge, NoLostWakeUp, Change

\* For any agents, goroutines and messages, the types, the flags and the marks
\* of the nudges stay consistent.
THEOREM NudgeInvariant == Spec => []NudgeInv
<1>1. Init => NudgeInv
  BY InitNudge
<1>2. NudgeInv /\ [Next]_vars => NudgeInv'
  <2>1. ASSUME NudgeInv, UNCHANGED vars PROVE NudgeInv'
    BY <2>1 DEF NudgeInv, TypeOK, Flagged, OneNudge, NoLostWakeUp, vars, Free
  <2>2. ASSUME NudgeInv, Next PROVE NudgeInv'
    BY <2>2, DeliverNudge, MarkNudge, LoopNudge, CheckInNudge, ChangeNudge DEF Next
  <2>3. QED
    BY <2>1, <2>2
<1>3. QED
  BY <1>1, <1>2, PTL DEF Spec

\* An agent never has two nudges at work, as nudgeInFlight is there to ensure.
THEOREM NudgesExclusive == Spec => []OneNudge
<1>1. NudgeInv => OneNudge
  BY DEF NudgeInv
<1>2. QED
  BY <1>1, NudgeInvariant, PTL

\* A message that came after the last nudge of its agent began is marked or
\* will be.
THEOREM WakeUpsKept == Spec => []NoLostWakeUp
<1>1. NudgeInv => NoLostWakeUp
  BY DEF NudgeInv
<1>2. QED
  BY <1>1, NudgeInvariant, PTL

=============================================================================
