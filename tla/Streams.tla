------------------------------ MODULE Streams ------------------------------
(***************************************************************************)
(* The event stream of one agent.  A broadcast takes the ID of its event   *)
(* from the clock, then puts it into the agent's ring and into the channel *)
(* of a client that is connected, if there is room.  A client that comes   *)
(* back names the last ID it received, is sent what the ring has above it, *)
(* and is registered for new events after that.                            *)
(***************************************************************************)
EXTENDS Integers, Sequences, FiniteSets, SequencesExt

CONSTANTS
  Senders,    \* the handlers that can broadcast
  RingCap,    \* SSEBufCap
  ChanCap,    \* the capacity of a client's channel
  MaxEvents   \* bound: events

ASSUME StreamBounds == RingCap \in Nat /\ ChanCap \in Nat /\ MaxEvents \in Nat

VARIABLES
  stamp,   \* the last ID taken from the clock
  holds,   \* the ID that a handler has taken and not yet broadcast, 0 for none
  ring,    \* agentSSEBuf
  client,  \* "new", "off", "joining" (between replay and registration) or "live"
  chan,    \* the channel of the client
  last,    \* what the client would send as Last-Event-ID, 0 for nothing
  seen,    \* history: the IDs the client received
  log,     \* history: the IDs in the order they were broadcast
  lost     \* history: the IDs the client has no way to get

streamVars == <<stamp, holds, ring, client, chan, last, seen, log, lost>>

StreamInit ==
  /\ stamp = 0 /\ holds = [s \in Senders |-> 0]
  /\ ring = <<>> /\ client = "new" /\ chan = <<>> /\ last = 0
  /\ seen = {} /\ log = <<>> /\ lost = {}

Newest(s, n) == IF Len(s) <= n THEN s ELSE SubSeq(s, Len(s) - n + 1, Len(s))

-----------------------------------------------------------------------------
\* The ID is taken before sseMu.
Stamp(s) ==
  /\ holds[s] = 0 /\ stamp < MaxEvents
  /\ stamp' = stamp + 1
  /\ holds' = [holds EXCEPT ![s] = stamp + 1]
  /\ UNCHANGED <<ring, client, chan, last, seen, log, lost>>

BufferAbsent(id) ==    \* mutant: an event that a client takes is not buffered
  IF client = "live" THEN ring ELSE Newest(Append(ring, id), RingCap)

Buffer(id) == Newest(Append(ring, id), RingCap)

\* sseMu: the ring takes every event, a channel only what it has room for, and
\* a client that is not registered nothing.
Broadcast(s) ==
  LET id == holds[s]
      fits == client = "live" /\ Len(chan) < ChanCap
  IN /\ id > 0
     /\ holds' = [holds EXCEPT ![s] = 0]
     /\ ring' = Buffer(id)
     /\ log' = Append(log, id)
     /\ chan' = IF fits THEN Append(chan, id) ELSE chan
     /\ lost' = IF client = "new" \/ client = "joining" \/ (client = "live" /\ ~fits)
                  THEN lost \cup {id} ELSE lost
     /\ UNCHANGED <<stamp, client, last, seen>>

-----------------------------------------------------------------------------
\* handleAgentSSE without Last-Event-ID: a first connection, or one of a client
\* that has not received an event yet.
Connect ==
  /\ client \in {"new", "off"} /\ last = 0
  /\ client' = "joining"
  /\ lost' = lost \cup ToSet(log)
  /\ UNCHANGED <<stamp, holds, ring, chan, last, seen, log>>

\* Where the ring has what is sent to a client that has received id.
Missed(id) == {i \in DOMAIN ring : ring[i] > id}

\* What a replay cannot send: events that RingCap others have pushed out, and
\* events that were broadcast after one with a larger ID.
Beyond(id) == ToSet(log) \ {e \in ToSet(Newest(log, RingCap)) : e > id}

\* sseMu: the missed events are copied, then written one by one; the connection
\* may break on the way.
Replay ==
  /\ client = "off" /\ last > 0
  /\ lost' = lost \cup Beyond(last)
  /\ \E k \in 0 .. Len(ring) :
       LET sent == {i \in Missed(last) : i <= k}
       IN /\ seen' = seen \cup {ring[i] : i \in sent}
          /\ last' = IF sent = {} THEN last ELSE ring[Max(sent)]
          /\ client' \in IF sent = Missed(last) THEN {"joining", "off"} ELSE {"off"}
  /\ UNCHANGED <<stamp, holds, ring, chan, log>>

\* sseMu again: a new channel.
Join ==
  /\ client = "joining"
  /\ client' = "live" /\ chan' = <<>>
  /\ UNCHANGED <<stamp, holds, ring, last, seen, log, lost>>

Receive ==
  /\ client = "live" /\ chan # <<>>
  /\ seen' = seen \cup {Head(chan)} /\ last' = Head(chan) /\ chan' = Tail(chan)
  /\ UNCHANGED <<stamp, holds, ring, client, log, lost>>

\* What is in the channel goes with it.
Leave ==
  /\ client \in {"joining", "live"}
  /\ client' = "off" /\ chan' = <<>>
  /\ UNCHANGED <<stamp, holds, ring, last, seen, log, lost>>

\* The ring is not saved.
RestartStreams ==
  /\ client # "new" /\ stamp < MaxEvents /\ log # <<>>
  /\ ring' = <<>> /\ chan' = <<>> /\ client' = "off"
  /\ holds' = [s \in Senders |-> 0]
  /\ lost' = lost \cup ToSet(log)
  /\ UNCHANGED <<stamp, last, seen, log>>

StreamNext ==
  \/ \E s \in Senders : Stamp(s) \/ Broadcast(s)
  \/ Connect \/ Replay \/ Join \/ Receive \/ Leave \/ RestartStreams

StreamSpec == StreamInit /\ [][StreamNext]_streamVars

-----------------------------------------------------------------------------
\* A client that is connected has received, or will find in its channel, every
\* event of its agent, but for those broadcast before it first received one or
\* between a replay and the registration after it, those its channel had no room
\* for, those the ring no longer had, and those overtaken by a larger ID.
NothingMissed ==
  client = "live" => ToSet(log) \subseteq seen \cup ToSet(chan) \cup lost

=============================================================================
