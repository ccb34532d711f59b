------------------------------ MODULE Presence ------------------------------
(***************************************************************************)
(* Registrations and heartbeats.  An agent that registers and beats is     *)
(* known twice: in registrations, which a restart forgets, under regMu;    *)
(* and on its record, which is saved, under Server.mu.  Registering,       *)
(* beating and the check of the liveness loop take the two locks one after *)
(* the other, so what they write can cross.                                *)
(***************************************************************************)
EXTENDS Integers, FiniteSets

CONSTANTS
  Staff,   \* the agents of the space
  Calls    \* the registrations and heartbeats at work

VARIABLES
  reg,      \* registrations: what the entry of an agent says of it
  rec,      \* the agent's record
  saved,    \* its row
  silent,   \* the agents that are past twice their interval
  call,     \* the requests at work
  marked,   \* the changes of checkHeartbeatStaleness that are not copied yet
  crossed   \* history: agents whose record missed a mark, or kept an old one

presenceVars == <<reg, rec, saved, silent, call, marked, crossed>>

\* "untimed": no interval was declared, so no heartbeat is expected.
Entries == {"none", "untimed", "alive", "stale"}

\* there: it exists.  declared: Registration is set.  stale: HeartbeatStale.
Absent == [there |-> FALSE, declared |-> FALSE, stale |-> FALSE]
Idle == [phase |-> "idle"]

PresenceInit ==
  /\ reg = [a \in Staff |-> "none"]
  /\ rec = [a \in Staff |-> Absent] /\ saved = rec
  /\ silent = {} /\ call = [h \in Calls |-> Idle] /\ marked = {} /\ crossed = {}

\* saveSpace writes every record.
Save(r) == rec' = r /\ saved' = r

\* A record that is made while the entry says stale starts without the mark.
Created(a) ==
  IF ~rec[a].there /\ reg[a] = "stale" THEN crossed \cup {a} ELSE crossed

-----------------------------------------------------------------------------
\* POST register, Server.mu: the record is made and carries the declaration.
Register(h, a) ==
  /\ call[h] = Idle
  /\ Save([rec EXCEPT ![a] = [@ EXCEPT !.there = TRUE, !.declared = TRUE]])
  /\ call' = [call EXCEPT ![h] = [phase |-> "registering", agent |-> a]]
  /\ crossed' = Created(a)
  /\ UNCHANGED <<reg, silent, marked>>

\* A parent that would close a cycle is refused after the declaration is on the
\* record, and without a save.
Refuse(a) ==
  /\ rec' = [rec EXCEPT ![a] = [@ EXCEPT !.there = TRUE, !.declared = TRUE]]
  /\ crossed' = Created(a)
  /\ UNCHANGED <<reg, saved, silent, call, marked>>

\* regMu: a new entry, not stale, whatever mark the record has.
Registered(h) ==
  LET a == call[h].agent
  IN /\ call[h].phase = "registering"
     /\ \E e \in {"untimed", "alive"} : reg' = [reg EXCEPT ![a] = e]
     /\ silent' = silent \ {a}
     /\ crossed' = IF rec[a].stale THEN crossed \cup {a} ELSE crossed
     /\ call' = [call EXCEPT ![h] = Idle]
     /\ UNCHANGED <<rec, saved, marked>>

\* POST heartbeat, regMu: without an entry the agent is told to register.
Beat(h, a) ==
  /\ call[h] = Idle /\ reg[a] # "none"
  /\ reg' = [reg EXCEPT ![a] = IF @ = "stale" THEN "alive" ELSE @]
  /\ silent' = silent \ {a}
  /\ call' = [call EXCEPT ![h] = [phase |-> "beating", agent |-> a]]
  /\ UNCHANGED <<rec, saved, marked, crossed>>

BeatenKeeps(h) ==    \* mutant: only the entry is cleared
  LET a == call[h].agent
  IN /\ call[h].phase = "beating"
     /\ IF rec[a].there THEN Save(rec) ELSE UNCHANGED <<rec, saved>>
     /\ crossed' = IF reg[a] = "stale" THEN crossed \cup {a} ELSE crossed \ {a}
     /\ call' = [call EXCEPT ![h] = Idle]
     /\ UNCHANGED <<reg, silent, marked>>

\* Server.mu: the mark on the record goes.
Beaten(h) ==
  LET a == call[h].agent
  IN /\ call[h].phase = "beating"
     /\ IF rec[a].there THEN Save([rec EXCEPT ![a] = [@ EXCEPT !.stale = FALSE]])
                        ELSE UNCHANGED <<rec, saved>>
     /\ crossed' = IF reg[a] = "stale" THEN crossed \cup {a} ELSE crossed \ {a}
     /\ call' = [call EXCEPT ![h] = Idle]
     /\ UNCHANGED <<reg, silent, marked>>

-----------------------------------------------------------------------------
\* checkHeartbeatStaleness, regMu: entries past their deadline are marked, and
\* only those that were not marked before are remembered.
Check ==
  /\ marked = {}
  /\ marked' = {a \in silent : reg[a] = "alive"}
  /\ reg' = [a \in Staff |-> IF a \in marked' THEN "stale" ELSE reg[a]]
  /\ UNCHANGED <<rec, saved, silent, call, crossed>>

\* Server.mu: they are copied to the records, whatever the entries say by now.
Copy ==
  /\ marked # {}
  /\ Save([a \in Staff |-> IF a \in marked /\ rec[a].there
                             THEN [rec[a] EXCEPT !.stale = TRUE] ELSE rec[a]])
  /\ crossed' = (crossed \ marked) \cup {a \in marked : reg[a] # "stale"}
  /\ marked' = {}
  /\ UNCHANGED <<reg, silent, call>>

-----------------------------------------------------------------------------
\* A status post, a message or a spawn for a new name makes the record; on one
\* that exists, a status post keeps declaration and mark.
Post(a) ==
  /\ Save([rec EXCEPT ![a] = [@ EXCEPT !.there = TRUE]])
  /\ crossed' = Created(a)
  /\ UNCHANGED <<reg, silent, call, marked>>

\* DELETE removes the record and its row; the entry stays.
RemoveRecord(a) ==
  /\ Save([rec EXCEPT ![a] = Absent])
  /\ UNCHANGED <<reg, silent, call, marked, crossed>>

\* Rows survive a restart, entries do not.
Restart ==
  /\ reg' = [a \in Staff |-> "none"]
  /\ rec' = saved
  /\ call' = [h \in Calls |-> Idle] /\ marked' = {}
  /\ UNCHANGED <<saved, silent, crossed>>

\* Time passes.
Lapse(a) ==
  /\ reg[a] # "none" /\ silent' = silent \cup {a}
  /\ UNCHANGED <<reg, rec, saved, call, marked, crossed>>

PresenceNext ==
  \/ Check \/ Copy \/ Restart
  \/ \E h \in Calls : Registered(h) \/ Beaten(h)
  \/ \E a \in Staff : Refuse(a) \/ Post(a) \/ RemoveRecord(a) \/ Lapse(a)
  \/ \E h \in Calls, a \in Staff : Register(h, a) \/ Beat(h, a)

-----------------------------------------------------------------------------
\* Nothing is between its two locks.
Settled == marked = {} /\ \A h \in Calls : call[h] = Idle

\* The record that the dashboard shows and the entry that webhooks and checks use
\* say the same of an agent, except after a heartbeat or a registration crossed
\* with a check, a registration of an agent that was marked, or the removal of a
\* marked one; and the next heartbeat ends the exception.
MarksAgree ==
  Settled =>
    \A a \in Staff :
      rec[a].there /\ reg[a] # "none" /\ a \notin crossed
        => (rec[a].stale <=> reg[a] = "stale")

=============================================================================
