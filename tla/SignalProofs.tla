---------------------------- MODULE SignalProofs ----------------------------
(***************************************************************************)
(* Proofs about Streams, Journal and Approvals: what reaches a client, the *)
(* dashboard and the ledger, for any handlers, agents and limits.          *)
(***************************************************************************)
EXTENDS Approvals, Streams, Journal, FiniteSetTheorems, SequenceTheorems, TLAPS

USE StreamBounds, JournalBounds

-----------------------------------------------------------------------------
(* Event streams.                                                          *)

StreamTypes ==
  /\ stamp \in Nat /\ holds \in [Senders -> Nat]
  /\ ring \in Seq(Nat) /\ chan \in Seq(Nat) /\ log \in Seq(Nat)
  /\ client \in {"new", "off", "joining", "live"}

\* The ring is the end of the log, and what is before it was pushed out or is
\* lost to the client.
RingEndsLog ==
  /\ Len(ring) <= Len(log)
  /\ \A i \in 1 .. Len(ring) : ring[i] = log[Len(log) - Len(ring) + i]
  /\ Len(ring) >= RingCap \/ \A k \in 1 .. Len(log) - Len(ring) : log[k] \in lost

\* From the replay on, every event is received, on its way or lost.
Caught == client \in {"joining", "live"} => ToSet(log) \subseteq seen \cup ToSet(chan) \cup lost

\* The inductive invariant of a stream.
StreamInv ==
  /\ StreamTypes /\ RingEndsLog /\ Caught
  /\ client # "live" => chan = <<>>

LEMMA NewestFacts ==
  ASSUME NEW s \in Seq(Nat), NEW n \in Nat
  PROVE  /\ Newest(s, n) \in Seq(Nat)
         /\ Len(Newest(s, n)) = IF Len(s) <= n THEN Len(s) ELSE n
         /\ \A i \in 1 .. Len(Newest(s, n)) : Newest(s, n)[i] = s[Len(s) - Len(Newest(s, n)) + i]
<1>1. CASE Len(s) <= n
  BY <1>1 DEF Newest
<1>2. CASE ~(Len(s) <= n)
  <2>1. Newest(s, n) = SubSeq(s, Len(s) - n + 1, Len(s))
    BY <1>2 DEF Newest
  <2>2. /\ SubSeq(s, Len(s) - n + 1, Len(s)) \in Seq(Nat)
        /\ Len(SubSeq(s, Len(s) - n + 1, Len(s))) = n
        /\ \A i \in 1 .. n : SubSeq(s, Len(s) - n + 1, Len(s))[i] = s[Len(s) - n + i]
    BY <1>2
  <2> QED
    BY <1>2, <2>1, <2>2
<1> QED
  BY <1>1, <1>2

LEMMA ToSetAppend ==
  ASSUME NEW s \in Seq(Nat), NEW e \in Nat
  PROVE  ToSet(Append(s, e)) = ToSet(s) \cup {e}
<1>1. /\ Len(Append(s, e)) = Len(s) + 1 /\ Append(s, e)[Len(s) + 1] = e
      /\ \A i \in 1 .. Len(s) : Append(s, e)[i] = s[i]
  OBVIOUS
<1>2. /\ DOMAIN Append(s, e) = 1 .. Len(s) + 1 /\ DOMAIN s = 1 .. Len(s) /\ Len(s) \in Nat
  OBVIOUS
<1> QED
  BY <1>1, <1>2 DEF ToSet

LEMMA ToSetHeadTail ==
  ASSUME NEW s \in Seq(Nat), s # <<>>
  PROVE  /\ Head(s) \in Nat /\ Tail(s) \in Seq(Nat)
         /\ ToSet(s) = ToSet(Tail(s)) \cup {Head(s)}
<1>1. /\ Len(Tail(s)) = Len(s) - 1 /\ Head(s) = s[1] /\ Len(s) \in Nat /\ Len(s) > 0
      /\ \A i \in 1 .. Len(s) - 1 : Tail(s)[i] = s[i + 1]
  OBVIOUS
<1>2. DOMAIN Tail(s) = 1 .. Len(s) - 1 /\ DOMAIN s = 1 .. Len(s)
  OBVIOUS
<1>3. ASSUME NEW i \in 1 .. Len(s), i # 1 PROVE s[i] \in ToSet(Tail(s))
  <2>1. i - 1 \in 1 .. Len(s) - 1 /\ Tail(s)[i - 1] = s[i]
    BY <1>1, <1>3
  <2> QED
    BY <1>2, <2>1 DEF ToSet
<1>4. ASSUME NEW i \in 1 .. Len(s) - 1 PROVE Tail(s)[i] \in ToSet(s)
  BY <1>1, <1>2, <1>4 DEF ToSet
<1>5. Head(s) \in ToSet(s)
  BY <1>1, <1>2 DEF ToSet
<1>6. ToSet(s) \subseteq ToSet(Tail(s)) \cup {Head(s)}
  BY <1>1, <1>2, <1>3 DEF ToSet
<1>7. ToSet(Tail(s)) \subseteq ToSet(s)
  BY <1>2, <1>4 DEF ToSet
<1> QED
  BY <1>5, <1>6, <1>7

LEMMA InitStream == StreamInit => StreamInv
<1> SUFFICES ASSUME StreamInit PROVE StreamInv
  OBVIOUS
<1>1. StreamTypes
  BY DEF StreamInit, StreamTypes
<1>2. RingEndsLog
  BY DEF StreamInit, RingEndsLog
<1> QED
  BY <1>1, <1>2 DEF StreamInit, StreamInv, Caught

\* Ring and log grow by the same event.
LEMMA BroadcastStream ==
  ASSUME StreamInv, NEW s \in Senders, Broadcast(s)
  PROVE  StreamInv'
<1> DEFINE id == holds[s]
           grown == Append(ring, id)
<1>t. /\ id \in Nat /\ ring \in Seq(Nat) /\ chan \in Seq(Nat) /\ log \in Seq(Nat)
      /\ client \in {"new", "off", "joining", "live"} /\ RingEndsLog
  BY DEF StreamInv, StreamTypes
<1>1. /\ ring' = Newest(grown, RingCap) /\ log' = Append(log, id)
      /\ holds' = [holds EXCEPT ![s] = 0] /\ UNCHANGED <<stamp, client, seen>>
      /\ lost \subseteq lost'
      /\ \/ chan' = chan /\ (client \in {"new", "joining", "live"} => id \in lost')
         \/ client = "live" /\ chan' = Append(chan, id)
  BY <1>t DEF Broadcast, Buffer
<1> HIDE DEF id
<1>2. /\ grown \in Seq(Nat) /\ Len(grown) = Len(ring) + 1
      /\ \A i \in 1 .. Len(ring) + 1 : grown[i] = IF i = Len(ring) + 1 THEN id ELSE ring[i]
  BY <1>t
<1>3. /\ log' \in Seq(Nat) /\ Len(log') = Len(log) + 1
      /\ \A i \in 1 .. Len(log) + 1 : log'[i] = IF i = Len(log) + 1 THEN id ELSE log[i]
  <2>1. log' = Append(log, id) /\ log \in Seq(Nat) /\ id \in Nat
    BY <1>1, <1>t
  <2> QED
    BY <2>1
<1>4. /\ Len(ring) \in Nat /\ Len(log) \in Nat /\ Len(ring) <= Len(log)
      /\ \A i \in 1 .. Len(ring) : ring[i] = log[Len(log) - Len(ring) + i]
      /\ (Len(ring) >= RingCap \/ \A k \in 1 .. Len(log) - Len(ring) : log[k] \in lost)
  BY <1>t DEF RingEndsLog
<1> HIDE DEF grown
<1>5. /\ ring' \in Seq(Nat)
      /\ Len(ring') = IF Len(grown) <= RingCap THEN Len(grown) ELSE RingCap
      /\ \A i \in 1 .. Len(ring') : ring'[i] = grown[Len(grown) - Len(ring') + i]
  BY <1>1, <1>2, NewestFacts
<1>6. ASSUME NEW i \in 1 .. Len(grown) PROVE grown[i] = log'[Len(log') - Len(grown) + i]
  <2>1. Len(log') - Len(grown) + i = Len(log) - Len(ring) + i
    BY <1>2, <1>3, <1>4
  <2>2. CASE i = Len(ring) + 1
    <3>1. Len(log) - Len(ring) + i = Len(log) + 1 /\ Len(log) + 1 \in 1 .. Len(log) + 1
      BY <1>4, <2>2
    <3> QED
      BY <1>2, <1>3, <2>1, <2>2, <3>1
  <2>3. CASE i \in 1 .. Len(ring)
    <3> DEFINE n == Len(log) - Len(ring) + i
    <3>1. n \in 1 .. Len(log) + 1 /\ n # Len(log) + 1 /\ ring[i] = log[n]
      BY <1>4, <2>3
    <3>2. log'[n] = log[n]
      BY <1>3, <3>1
    <3>3. grown[i] = ring[i]
      BY <1>2, <1>4, <2>3
    <3> QED
      BY <2>1, <3>1, <3>2, <3>3
  <2>4. i = Len(ring) + 1 \/ i \in 1 .. Len(ring)
    BY <1>2, <1>4
  <2> QED
    BY <2>2, <2>3, <2>4
<1>7. RingEndsLog'
  <2>1. Len(ring') \in Nat /\ Len(ring') <= Len(grown) /\ Len(grown) <= Len(log')
    BY <1>2, <1>3, <1>4, <1>5
  <2>2. ASSUME NEW i \in 1 .. Len(ring') PROVE ring'[i] = log'[Len(log') - Len(ring') + i]
    <3>1. Len(grown) - Len(ring') + i \in 1 .. Len(grown) /\ Len(grown) \in Nat /\ Len(log') \in Nat
      BY <1>2, <1>3, <1>4, <2>1
    <3>2. Len(log') - Len(grown) + (Len(grown) - Len(ring') + i) = Len(log') - Len(ring') + i
      BY <2>1, <3>1
    <3>3. grown[Len(grown) - Len(ring') + i] = log'[Len(log') - Len(grown) + (Len(grown) - Len(ring') + i)]
      BY <1>6, <3>1
    <3> QED
      BY <1>5, <3>2, <3>3
  <2>3. Len(ring') >= RingCap \/ \A k \in 1 .. Len(log') - Len(ring') : log'[k] \in lost'
    <3>1. CASE Len(grown) <= RingCap /\ Len(ring) < RingCap
      <4>1. \A k \in 1 .. Len(log) - Len(ring) : log[k] \in lost' /\ log'[k] = log[k]
        BY <1>1, <1>3, <1>4, <3>1
      <4>2. Len(log') - Len(ring') = Len(log) - Len(ring)
        BY <1>2, <1>3, <1>4, <1>5, <3>1
      <4> QED
        BY <4>1, <4>2
    <3>2. CASE ~(Len(grown) <= RingCap /\ Len(ring) < RingCap)
      BY <1>2, <1>4, <1>5, <3>2
    <3> QED
      BY <3>1, <3>2
  <2> QED
    BY <2>1, <2>2, <2>3, <1>3, <1>4 DEF RingEndsLog
<1>8. chan' \in Seq(Nat) /\ (client # "live" => chan' = <<>>)
  <2>1. CASE chan' = chan
    BY <1>t, <2>1 DEF StreamInv
  <2>2. CASE client = "live" /\ chan' = Append(chan, id)
    BY <1>t, <2>2
  <2> QED
    BY <1>1, <2>1, <2>2
<1>9. Caught'
  <2>1. ToSet(log') = ToSet(log) \cup {id}
    BY <1>1, <1>t, ToSetAppend
  <2>2. ToSet(chan') = ToSet(chan) \/ ToSet(chan') = ToSet(chan) \cup {id}
    BY <1>1, <1>t, ToSetAppend
  <2>3. client \in {"joining", "live"} => id \in ToSet(chan') \cup lost'
    <3>1. CASE client = "live" /\ chan' = Append(chan, id)
      BY <1>t, <3>1, ToSetAppend
    <3>2. CASE client \in {"new", "joining", "live"} => id \in lost'
      BY <3>2
    <3> QED
      BY <1>1, <3>1, <3>2
  <2> QED
    BY <1>1, <2>1, <2>2, <2>3 DEF StreamInv, Caught
<1>10. StreamTypes'
  BY <1>1, <1>3, <1>5, <1>8 DEF StreamInv, StreamTypes
<1> QED
  BY <1>1, <1>7, <1>8, <1>9, <1>10 DEF StreamInv

\* A replay that comes to its end sends all that the client can still get.
LEMMA ReplayStream == ASSUME StreamInv, Replay PROVE StreamInv'
<1>t. /\ ring \in Seq(Nat) /\ log \in Seq(Nat) /\ RingEndsLog /\ chan = <<>>
      /\ Len(ring) \in Nat /\ Len(log) \in Nat
  BY DEF StreamInv, StreamTypes, Replay
<1>1. /\ client = "off" /\ lost' = lost \cup Beyond(last)
      /\ UNCHANGED <<stamp, holds, ring, chan, log>>
  BY DEF Replay
<1>2. PICK k \in 0 .. Len(ring) :
        /\ seen' = seen \cup {ring[i] : i \in {j \in Missed(last) : j <= k}}
        /\ client' \in IF {j \in Missed(last) : j <= k} = Missed(last)
                          THEN {"joining", "off"} ELSE {"off"}
  BY DEF Replay
<1> DEFINE sent == {j \in Missed(last) : j <= k}
<1>4. ASSUME client' = "joining", NEW e \in ToSet(log) PROVE e \in seen' \cup lost'
  <2>1. sent = Missed(last) /\ seen' = seen \cup {ring[i] : i \in Missed(last)}
    BY <1>2, <1>4
  <2>2. CASE e \in Beyond(last)
    BY <1>1, <2>2
  <2>3. CASE e \notin Beyond(last)
    <3>1. e \in ToSet(Newest(log, RingCap)) /\ e > last
      BY <1>4, <2>3 DEF Beyond
    <3> DEFINE new == Newest(log, RingCap)
    <3>2. /\ new \in Seq(Nat) /\ Len(new) = IF Len(log) <= RingCap THEN Len(log) ELSE RingCap
          /\ \A i \in 1 .. Len(new) : new[i] = log[Len(log) - Len(new) + i]
      BY <1>t, NewestFacts
    <3>3. PICK i \in 1 .. Len(new) : e = new[i]
      BY <3>1, <3>2 DEF ToSet
    <3> HIDE DEF new
    <3> DEFINE n == Len(log) - Len(new) + i
    <3>4. n \in 1 .. Len(log) /\ e = log[n] /\ (n > Len(log) - RingCap \/ Len(log) <= RingCap)
      <4>1. Len(new) \in Nat /\ Len(new) <= Len(log) /\ (Len(log) <= RingCap \/ Len(new) = RingCap)
        BY <1>t, <3>2
      <4>2. n \in 1 .. Len(log)
        BY <1>t, <4>1
      <4>3. e = log[n]
        BY <3>2, <3>3
      <4>4. Len(new) = RingCap => n > Len(log) - RingCap
        BY <1>t, <4>1
      <4> QED
        BY <4>1, <4>2, <4>3, <4>4
    <3> HIDE DEF n
    <3>5. CASE n <= Len(log) - Len(ring)
      <4>1. log[n] \in lost
        BY <1>t, <3>4, <3>5 DEF RingEndsLog
      <4> QED
        BY <1>1, <3>4, <4>1
    <3>6. CASE ~(n <= Len(log) - Len(ring))
      <4> DEFINE m == n - (Len(log) - Len(ring))
      <4>1. m \in 1 .. Len(ring) /\ Len(log) - Len(ring) + m = n
        <5>1. PICK a, b \in Nat : a = Len(log) /\ b = Len(ring) /\ b <= a
          BY <1>t DEF RingEndsLog
        <5>2. n \in 1 .. a /\ ~(n <= a - b) /\ m = n - (a - b)
          BY <3>4, <3>6, <5>1
        <5>3. m \in 1 .. b /\ a - b + m = n
          BY <5>2
        <5> QED
          BY <5>1, <5>3
      <4> HIDE DEF m
      <4>2. ring[m] = e
        BY <1>t, <3>4, <4>1 DEF RingEndsLog
      <4>3. m \in Missed(last)
        BY <1>t, <3>1, <4>1, <4>2 DEF Missed
      <4> QED
        BY <2>1, <4>2, <4>3
    <3> QED
      BY <3>5, <3>6
  <2> QED
    BY <2>2, <2>3
<1>5. client' \in {"joining", "off"}
  BY <1>2
<1>6. Caught'
  BY <1>1, <1>4, <1>5 DEF Caught
<1>7. RingEndsLog'
  BY <1>1 DEF StreamInv, RingEndsLog
<1> QED
  BY <1>1, <1>t, <1>5, <1>6, <1>7 DEF StreamInv, StreamTypes

\* The steps that neither buffer nor log an event.
LEMMA ClientSteps ==
  ASSUME StreamInv, Connect \/ Join \/ Receive \/ Leave \/ RestartStreams
  PROVE  StreamInv'
<1>t. /\ ring \in Seq(Nat) /\ log \in Seq(Nat) /\ chan \in Seq(Nat) /\ RingEndsLog /\ Caught
      /\ Len(log) \in Nat
  BY DEF StreamInv, StreamTypes
<1>r. ASSUME ring' = ring, log' = log, lost \subseteq lost' PROVE RingEndsLog'
  BY <1>t, <1>r DEF RingEndsLog
<1>1. CASE Connect
  <2>1. RingEndsLog'
    BY <1>1, <1>r DEF Connect
  <2>2. StreamTypes' /\ Caught' /\ (client' # "live" => chan' = <<>>)
    BY <1>1 DEF Connect, StreamInv, StreamTypes, Caught
  <2> QED
    BY <2>1, <2>2 DEF StreamInv
<1>2. CASE Join
  <2>1. RingEndsLog'
    BY <1>2, <1>r DEF Join
  <2>2. StreamTypes' /\ client' = "live" /\ chan = chan'
    BY <1>2 DEF Join, StreamInv, StreamTypes
  <2>3. Caught'
    BY <1>2, <1>t, <2>2 DEF Join, Caught
  <2> QED
    BY <2>1, <2>2, <2>3 DEF StreamInv
<1>3. CASE Receive
  <2>1. RingEndsLog'
    BY <1>3, <1>r DEF Receive
  <2>2. Head(chan) \in Nat /\ chan' \in Seq(Nat) /\ ToSet(chan) = ToSet(chan') \cup {Head(chan)}
    BY <1>3, <1>t, ToSetHeadTail DEF Receive
  <2>3. Caught'
    BY <1>3, <1>t, <2>2 DEF Receive, Caught
  <2> QED
    BY <1>3, <2>1, <2>2, <2>3 DEF Receive, StreamInv, StreamTypes
<1>4. CASE Leave
  <2>1. RingEndsLog'
    BY <1>4, <1>r DEF Leave
  <2> QED
    BY <1>4, <2>1 DEF Leave, StreamInv, StreamTypes, Caught
<1>5. CASE RestartStreams
  <2>1. \A k \in 1 .. Len(log) : log[k] \in lost'
    BY <1>5, <1>t DEF RestartStreams, ToSet
  <2>2. RingEndsLog'
    BY <1>5, <1>t, <2>1 DEF RestartStreams, RingEndsLog
  <2> QED
    BY <1>5, <2>2 DEF RestartStreams, StreamInv, StreamTypes, Caught
<1> QED
  BY <1>1, <1>2, <1>3, <1>4, <1>5

LEMMA StepStream == ASSUME StreamInv, [StreamNext]_streamVars PROVE StreamInv'
<1>1. ASSUME NEW s \in Senders, Stamp(s) PROVE StreamInv'
  BY <1>1 DEF Stamp, StreamInv, StreamTypes, RingEndsLog, Caught
<1>2. CASE UNCHANGED streamVars
  BY <1>2 DEF streamVars, StreamInv, StreamTypes, RingEndsLog, Caught
<1> QED
  BY <1>1, <1>2, BroadcastStream, ReplayStream, ClientSteps DEF StreamNext

\* A client that is connected misses no event but those the stream gives up by
\* design, for any number of senders, any ring and any channel.
THEOREM ClientMissesNothing == StreamSpec => []NothingMissed
<1>1. StreamInv => NothingMissed
  BY DEF StreamInv, Caught, NothingMissed
<1> QED
  BY InitStream, StepStream, <1>1, PTL DEF StreamSpec

-----------------------------------------------------------------------------
(* Approvals.                                                              *)

Sightings == [agent : Watched, asks : BOOLEAN, wait : Nat, failed : BOOLEAN]
Rows == [agent : Watched, wait : Nat, by : {Nobody, "auto", "human"}]

ApprovalTypes ==
  /\ screen \in [Watched -> Screens] /\ link \in [Watched -> Links]
  /\ wait \in [Watched -> Nat] /\ since \in [Watched -> Nat] /\ calm \in [Watched -> Nat]
  /\ scan \in [left : SUBSET Watched, found : SUBSET Sightings, noted : SUBSET Sightings]
  /\ rows \in Seq(Rows)
  /\ \A h \in Answerers : answer[h].phase = "pressed" => answer[h].agent \in Watched

\* One agent is looked at once in a tick, and nothing tracks what is noted.
OneSighting ==
  /\ \A e \in scan.found \cup scan.noted : e.agent \notin scan.left
  /\ \A e, f \in scan.found : e.agent = f.agent => e = f
  /\ \A e \in scan.noted :
       /\ scan.left = {} /\ since[e.agent] = 0 /\ scan.noted = {e}
       /\ \A f \in scan.found : f.agent # e.agent

\* What an agent has asked for is no older than what the loop tracks, what it saw
\* and what it saw the end of; what it tracks is no newer than what it saw, but
\* for a lookup that failed.
WaitOrder ==
  /\ \A a \in Watched :
       /\ since[a] <= wait[a] /\ calm[a] <= wait[a]
       /\ screen[a] = "asking" => calm[a] < wait[a]
  /\ \A e \in scan.found :
       /\ e.failed \/ since[e.agent] <= e.wait
       /\ calm[e.agent] <= e.wait /\ e.wait <= wait[e.agent]
       /\ e.asks => calm[e.agent] < e.wait
       /\ ~e.asks => e.wait < wait[e.agent] \/ screen[e.agent] # "asking"
  /\ \A e \in scan.noted : e.wait <= wait[e.agent]

\* A wait with a row is tracked, or about to be, or over, or its entry was dropped.
Accounted(a, w) ==
  \/ since[a] = w
  \/ \E e \in scan.noted : e.agent = a /\ e.wait = w
  \/ <<a, w>> \in dropped
  \/ w <= calm[a]

RowsAccounted == \A i \in DOMAIN rows : rows[i].wait > 0 => Accounted(rows[i].agent, rows[i].wait)

\* The inductive invariant of the approvals.
ApprovalInv == ApprovalTypes /\ OneSighting /\ WaitOrder /\ RowsAccounted /\ OneRowPerWait

LEMMA InitApprovals == ApprovalsInit => ApprovalInv
<1> SUFFICES ASSUME ApprovalsInit PROVE ApprovalInv
  OBVIOUS
<1>1. ApprovalTypes
  BY DEF ApprovalsInit, ApprovalTypes, Screens, Links, Waiting, NoCall
<1>2. OneSighting
  BY DEF ApprovalsInit, OneSighting, Waiting
<1>3. WaitOrder
  BY DEF ApprovalsInit, WaitOrder, Waiting
<1>4. RowsAccounted /\ OneRowPerWait
  BY DEF ApprovalsInit, RowsAccounted, OneRowPerWait
<1> QED
  BY <1>1, <1>2, <1>3, <1>4 DEF ApprovalInv

LEMMA RowTypes ==
  ASSUME rows \in Seq(Rows), NEW i \in DOMAIN rows
  PROVE  rows[i].agent \in Watched /\ rows[i].wait \in Nat
<1>1. rows[i] \in Rows
  OBVIOUS
<1> QED
  BY <1>1 DEF Rows

\* What a new row leaves as it was.
LEMMA RowAdded ==
  ASSUME rows \in Seq(Rows), NEW a \in Watched, NEW w \in Nat,
         NEW by \in {Nobody, "auto", "human"}, AddRow(a, w, by)
  PROVE  /\ rows' \in Seq(Rows) /\ DOMAIN rows' = 1 .. Len(rows) + 1
         /\ DOMAIN rows = 1 .. Len(rows) /\ Len(rows) \in Nat
         /\ \A i \in 1 .. Len(rows) : rows'[i] = rows[i]
         /\ rows'[Len(rows) + 1].agent = a /\ rows'[Len(rows) + 1].wait = w
<1> DEFINE r == [agent |-> a, wait |-> w, by |-> by]
<1>1. r \in Rows /\ r.agent = a /\ r.wait = w
  BY DEF Rows
<1>2. rows' = Append(rows, r)
  BY DEF AddRow
<1> HIDE DEF r
<1>3. /\ Append(rows, r) \in Seq(Rows) /\ Len(Append(rows, r)) = Len(rows) + 1
      /\ \A i \in 1 .. Len(rows) : Append(rows, r)[i] = rows[i]
      /\ Append(rows, r)[Len(rows) + 1] = r
  BY <1>1
<1> QED
  BY <1>1, <1>2, <1>3

\* A row of no wait takes nothing from what is proved of the others.
LEMMA OtherRow ==
  ASSUME ApprovalInv, NEW a \in Watched, NEW by \in {Nobody, "auto", "human"}, AddRow(a, 0, by),
         dropped \subseteq dropped',
         \A b \in Watched, w \in Nat : w > 0 /\ Accounted(b, w) => Accounted(b, w)'
  PROVE  rows' \in Seq(Rows) /\ RowsAccounted' /\ OneRowPerWait'
<1>1. /\ rows' \in Seq(Rows) /\ DOMAIN rows' = 1 .. Len(rows) + 1
      /\ DOMAIN rows = 1 .. Len(rows) /\ Len(rows) \in Nat
      /\ \A i \in 1 .. Len(rows) : rows'[i] = rows[i]
      /\ rows'[Len(rows) + 1].wait = 0
  BY RowAdded DEF ApprovalInv, ApprovalTypes
<1>2. \A i \in DOMAIN rows : rows[i].agent \in Watched /\ rows[i].wait \in Nat
  BY RowTypes DEF ApprovalInv, ApprovalTypes
<1>3. \A i \in DOMAIN rows' : i # Len(rows) + 1 => i \in DOMAIN rows /\ rows'[i] = rows[i]
  BY <1>1
<1>4. ASSUME NEW i \in DOMAIN rows', rows'[i].wait > 0
      PROVE  i \in DOMAIN rows /\ rows'[i] = rows[i]
  BY <1>1, <1>3, <1>4
<1>5. RowsAccounted'
  BY <1>2, <1>4 DEF ApprovalInv, RowsAccounted
<1>6. OneRowPerWait'
  BY <1>4 DEF ApprovalInv, OneRowPerWait
<1> QED
  BY <1>1, <1>5, <1>6

\* Without a new row, the rows stay accounted for as long as the waits do.
LEMMA SameRows ==
  ASSUME ApprovalInv, DOMAIN rows' = DOMAIN rows,
         \A i \in DOMAIN rows : rows'[i].agent = rows[i].agent /\ rows'[i].wait = rows[i].wait,
         dropped \subseteq dropped',
         \A b \in Watched, w \in Nat : w > 0 /\ Accounted(b, w) => Accounted(b, w)'
  PROVE  RowsAccounted' /\ OneRowPerWait'
<1>1. \A i \in DOMAIN rows : rows[i].agent \in Watched /\ rows[i].wait \in Nat
  BY RowTypes DEF ApprovalInv, ApprovalTypes
<1>2. RowsAccounted'
  BY <1>1 DEF ApprovalInv, RowsAccounted
<1>3. OneRowPerWait'
  BY <1>1 DEF ApprovalInv, OneRowPerWait
<1> QED
  BY <1>2, <1>3

LEMMA LookSteps ==
  ASSUME ApprovalInv, ScanBegin \/ \E a \in Watched : Inspect(a)
  PROVE  ApprovalInv'
<1>t. ApprovalTypes /\ OneSighting /\ WaitOrder
  BY DEF ApprovalInv
<1>s. /\ scan.left \subseteq Watched /\ scan.found \subseteq Sightings /\ scan.noted \subseteq Sightings
      /\ UNCHANGED <<screen, link, wait, since, rows, answer, run, calm, dropped>>
      /\ scan'.noted = scan.noted
  BY <1>t DEF ApprovalTypes, ScanBegin, Inspect
<1>1. RowsAccounted' /\ OneRowPerWait'
  BY <1>s, SameRows DEF Accounted
<1>2. CASE ScanBegin
  <2>1. /\ scan = Waiting /\ scan' = [left |-> {a \in Watched : screen[a] # "none"}, found |-> {}, noted |-> {}]
    BY <1>2 DEF ScanBegin, Waiting
  <2>2. ApprovalTypes'
    BY <1>t, <1>s, <2>1 DEF ApprovalTypes
  <2>3. OneSighting' /\ WaitOrder'
    BY <1>t, <1>s, <2>1 DEF OneSighting, WaitOrder, Waiting
  <2> QED
    BY <1>1, <2>2, <2>3 DEF ApprovalInv
<1>3. ASSUME NEW a \in Watched, Inspect(a) PROVE ApprovalInv'
  <2>1. /\ a \in scan.left /\ scan'.left = scan.left \ {a} /\ scan'.found = scan.found \cup Saw(a)
        /\ scan' = [left |-> scan.left \ {a}, found |-> scan.found \cup Saw(a), noted |-> scan.noted]
    BY <1>t, <1>3 DEF ApprovalTypes, Inspect
  <2>2. /\ Saw(a) \subseteq Sightings
        /\ \A e \in Saw(a) :
             /\ e.agent = a
             /\ e.failed \/ since[a] <= e.wait
             /\ calm[a] <= e.wait /\ e.wait <= wait[a]
             /\ e.asks => calm[a] < e.wait
             /\ ~e.asks => e.wait < wait[a] \/ screen[a] # "asking"
        /\ \A e, f \in Saw(a) : e = f
    <3> DEFINE p == screen[a] = "asking" /\ link[a] = "up"
               k == link[a] = "blind"
               w == IF screen[a] = "asking" /\ ~p THEN wait[a] - 1 ELSE wait[a]
               r == [agent |-> a, asks |-> p, failed |-> k, wait |-> w]
    <3>1. /\ since[a] \in Nat /\ calm[a] \in Nat /\ wait[a] \in Nat
          /\ since[a] <= wait[a] /\ calm[a] <= wait[a]
          /\ screen[a] = "asking" => calm[a] < wait[a]
      BY <1>t DEF ApprovalTypes, WaitOrder
    <3>2. Saw(a) = {} \/ (Saw(a) = {r} /\ link[a] # "away")
      <4>1. Saw(a) = IF link[a] = "away" THEN {} ELSE {Sighting(a, p)}
        BY Zenon DEF Saw
      <4>2. Sighting(a, p) = r
        BY Zenon DEF Sighting
      <4> HIDE DEF p, r
      <4> QED
        BY <4>1, <4>2, Zenon
    <3>3. p \in BOOLEAN /\ k \in BOOLEAN /\ (p <=> screen[a] = "asking" /\ link[a] = "up")
      OBVIOUS
    <3>4. /\ w \in Nat /\ calm[a] <= w /\ w <= wait[a]
          /\ p => calm[a] < w
          /\ ~p => w < wait[a] \/ screen[a] # "asking"
      BY <3>1
    <3>5. link[a] \in {"up", "blind", "away"}
      BY <1>t DEF ApprovalTypes, Links
    <3>6. link[a] # "away" => k \/ since[a] <= w
      BY <3>1, <3>5
    <3> HIDE DEF p, k, w
    <3>7. /\ r \in Sightings /\ r.agent = a /\ r.wait = w
      BY <3>3, <3>4 DEF Sightings
    <3>8. r.asks = p /\ r.failed = k
      BY Zenon
    <3> HIDE DEF r
    <3>9. CASE Saw(a) = {}
      BY <3>9
    <3>10. CASE Saw(a) = {r} /\ link[a] # "away"
      <4>1. \A e \in Saw(a) : e = r
        BY <3>10
      <4>2. k \/ since[a] <= r.wait
        BY <3>6, <3>7, <3>10, Zenon
      <4>3. r.failed \/ since[a] <= r.wait
        BY <3>8, <4>2, Zenon
      <4>4. r.asks => calm[a] < r.wait
        BY <3>4, <3>7, <3>8, Zenon
      <4>5. ~r.asks => r.wait < wait[a] \/ screen[a] # "asking"
        BY <3>4, <3>7, <3>8, Zenon
      <4>6. calm[a] <= r.wait /\ r.wait <= wait[a]
        BY <3>4, <3>7, Zenon
      <4> QED
        BY <3>7, <3>10, <4>1, <4>3, <4>4, <4>5, <4>6, Zenon
    <3> QED
      BY <3>2, <3>9, <3>10, Zenon
  <2>3. ApprovalTypes'
    BY <1>t, <1>s, <2>1, <2>2 DEF ApprovalTypes
  <2>4. OneSighting'
    BY <1>t, <1>s, <2>1, <2>2 DEF OneSighting
  <2>5. WaitOrder'
    <3>1. \A e \in Saw(a) :
            /\ e.failed \/ since[e.agent] <= e.wait
            /\ calm[e.agent] <= e.wait /\ e.wait <= wait[e.agent]
            /\ e.asks => calm[e.agent] < e.wait
            /\ ~e.asks => e.wait < wait[e.agent] \/ screen[e.agent] # "asking"
      BY <1>t, <2>2 DEF WaitOrder, ApprovalTypes
    <3> QED
      BY <1>t, <1>s, <2>1, <3>1 DEF WaitOrder
  <2> QED
    BY <1>1, <2>3, <2>4, <2>5 DEF ApprovalInv
<1> QED
  BY <1>2, <1>3

LEMMA EntryFacts ==
  ASSUME ApprovalInv, NEW e \in scan.found
  PROVE  /\ e \in Sightings /\ e.agent \in Watched /\ e.asks \in BOOLEAN /\ e.wait \in Nat
         /\ \A f \in scan.found \ {e} : f.agent # e.agent
  BY DEF ApprovalInv, ApprovalTypes, Sightings, OneSighting

\* A row for a wait that has none.
LEMMA NoteStep ==
  ASSUME ApprovalInv, NEW e \in scan.found, Note(e)
  PROVE  ApprovalInv'
<1>t. ApprovalTypes /\ OneSighting /\ WaitOrder /\ RowsAccounted /\ OneRowPerWait
  BY DEF ApprovalInv
<1>e. /\ e \in Sightings /\ e.agent \in Watched /\ e.wait \in Nat /\ e.asks
      /\ \A f \in scan.found \ {e} : f.agent # e.agent
  BY EntryFacts DEF Note
<1>s. /\ scan.left = {} /\ scan.noted = {} /\ since[e.agent] = 0
      /\ scan.found \subseteq Sightings
      /\ scan' = [left |-> scan.left, found |-> scan.found \ {e}, noted |-> {e}]
      /\ AddRow(e.agent, e.wait, Nobody)
      /\ UNCHANGED <<screen, link, wait, since, answer, run, calm, dropped>>
  BY <1>t DEF ApprovalTypes, Note, Entry
<1>r. /\ rows' \in Seq(Rows) /\ DOMAIN rows' = 1 .. Len(rows) + 1
      /\ DOMAIN rows = 1 .. Len(rows) /\ Len(rows) \in Nat
      /\ \A i \in 1 .. Len(rows) : rows'[i] = rows[i]
      /\ rows'[Len(rows) + 1].agent = e.agent /\ rows'[Len(rows) + 1].wait = e.wait
  BY <1>t, <1>e, <1>s, RowAdded DEF ApprovalTypes
<1>n. \A i \in DOMAIN rows : rows[i].agent \in Watched /\ rows[i].wait \in Nat
  BY <1>t, RowTypes DEF ApprovalTypes
<1>1. ApprovalTypes'
  BY <1>t, <1>e, <1>s, <1>r DEF ApprovalTypes
<1>2. OneSighting'
  BY <1>t, <1>e, <1>s DEF OneSighting
<1>3. WaitOrder'
  BY <1>t, <1>e, <1>s DEF WaitOrder
<1>4. RowsAccounted'
  <2>1. \A b \in Watched, w \in Nat : Accounted(b, w) => Accounted(b, w)'
    BY <1>s DEF Accounted
  <2>2. Accounted(e.agent, e.wait)'
    BY <1>s DEF Accounted
  <2>3. \A i \in DOMAIN rows' : i \in DOMAIN rows \/ i = Len(rows) + 1
    BY <1>r
  <2>4. \A i \in DOMAIN rows : rows[i].wait > 0 =>
          \A b \in Watched, w \in Nat : b = rows[i].agent /\ w = rows[i].wait => Accounted(b, w)'
    BY <1>t, <2>1 DEF RowsAccounted
  <2>5. \A i \in DOMAIN rows' : rows'[i].wait > 0 =>
          \A b \in Watched, w \in Nat : b = rows'[i].agent /\ w = rows'[i].wait => Accounted(b, w)'
    BY <1>r, <2>2, <2>3, <2>4
  <2>6. \A i \in DOMAIN rows' : rows'[i].agent \in Watched /\ rows'[i].wait \in Nat
    BY <1>e, <1>n, <1>r, <2>3
  <2> QED
    BY <2>5, <2>6 DEF RowsAccounted
<1>5. OneRowPerWait'
  <2>1. ASSUME NEW i \in 1 .. Len(rows), rows[i].agent = e.agent, rows[i].wait = e.wait, e.wait > 0
        PROVE  <<e.agent, e.wait>> \in dropped
    <3>1. Accounted(e.agent, e.wait)
      BY <1>t, <1>r, <2>1 DEF RowsAccounted
    <3>2. calm[e.agent] \in Nat /\ calm[e.agent] < e.wait
      BY <1>t, <1>e DEF WaitOrder, ApprovalTypes
    <3> QED
      BY <1>s, <1>e, <2>1, <3>1, <3>2 DEF Accounted
  <2>2. \A i, j \in DOMAIN rows' : i < j =>
          i \in 1 .. Len(rows) /\ (j \in 1 .. Len(rows) \/ j = Len(rows) + 1)
    BY <1>r
  <2> QED
    BY <1>t, <1>s, <1>r, <2>1, <2>2, ZenonT(40) DEF OneRowPerWait
<1> QED
  BY <1>1, <1>2, <1>3, <1>4, <1>5 DEF ApprovalInv

LEMMA TrackStep ==
  ASSUME ApprovalInv, NEW e \in scan.noted, Track(e)
  PROVE  ApprovalInv'
<1>t. ApprovalTypes /\ OneSighting /\ WaitOrder
  BY DEF ApprovalInv
<1>e. /\ e \in Sightings /\ e.agent \in Watched /\ e.wait \in Nat /\ since[e.agent] = 0
      /\ scan.left = {} /\ \A f \in scan.found : f.agent # e.agent
      /\ e.wait <= wait[e.agent]
  BY <1>t DEF ApprovalTypes, Sightings, OneSighting, WaitOrder
<1>s. /\ scan' = [left |-> {}, found |-> scan.found, noted |-> {}]
      /\ since' = [since EXCEPT ![e.agent] = e.wait]
      /\ UNCHANGED <<screen, link, wait, rows, answer, run, calm, dropped>>
  BY <1>t, <1>e DEF ApprovalTypes, Track
<1>f. /\ since' \in [Watched -> Nat] /\ since'[e.agent] = e.wait
      /\ \A a \in Watched : a # e.agent => since'[a] = since[a]
      /\ scan.found \subseteq Sightings
  BY <1>t, <1>e, <1>s DEF ApprovalTypes
<1>1. ApprovalTypes'
  BY <1>t, <1>s, <1>f DEF ApprovalTypes
<1>2. OneSighting'
  BY <1>t, <1>s DEF OneSighting
<1>3. WaitOrder'
  <2>1. \A f \in scan.found : f.agent \in Watched /\ f.agent # e.agent
    BY <1>e, <1>f DEF Sightings
  <2> QED
    BY <1>t, <1>e, <1>s, <1>f, <2>1 DEF WaitOrder
<1>4. \A b \in Watched, w \in Nat : w > 0 /\ Accounted(b, w) => Accounted(b, w)'
  <2>1. ASSUME NEW b \in Watched, NEW w \in Nat, w > 0, Accounted(b, w) PROVE Accounted(b, w)'
    <3>1. CASE since[b] = w
      BY <1>e, <1>f, <2>1, <3>1 DEF Accounted
    <3>2. ASSUME NEW f \in scan.noted, f.agent = b, f.wait = w PROVE Accounted(b, w)'
      <4>1. f = e
        BY <1>t, <3>2 DEF OneSighting
      <4> QED
        BY <1>f, <3>2, <4>1 DEF Accounted
    <3> QED
      BY <1>s, <2>1, <3>1, <3>2 DEF Accounted
  <2> QED
    BY <2>1
<1>5. RowsAccounted' /\ OneRowPerWait'
  BY <1>s, <1>4, SameRows
<1> QED
  BY <1>1, <1>2, <1>3, <1>5 DEF ApprovalInv

LEMMA ClearStep ==
  ASSUME ApprovalInv, NEW e \in scan.found, Clear(e)
  PROVE  ApprovalInv'
<1>t. ApprovalTypes /\ OneSighting /\ WaitOrder
  BY DEF ApprovalInv
<1>e. /\ e \in Sightings /\ e.agent \in Watched /\ e.wait \in Nat /\ ~e.asks
      /\ \A f \in scan.found \ {e} : f.agent # e.agent
      /\ e.failed \/ since[e.agent] <= e.wait
      /\ calm[e.agent] <= e.wait /\ e.wait <= wait[e.agent]
      /\ (e.wait < wait[e.agent] \/ screen[e.agent] # "asking")
  BY <1>t, EntryFacts DEF WaitOrder, Clear
<1>s. /\ scan.left = {} /\ scan.noted = {} /\ scan.found \subseteq Sightings
      /\ scan' = [left |-> {}, found |-> scan.found \ {e}, noted |-> {}]
      /\ since' = [since EXCEPT ![e.agent] = 0] /\ calm' = [calm EXCEPT ![e.agent] = e.wait]
      /\ AddRow(e.agent, 0, "auto") \/ UNCHANGED rows
      /\ dropped' = IF e.failed /\ since[e.agent] > e.wait
                      THEN dropped \cup {<<e.agent, since[e.agent]>>} ELSE dropped
      /\ UNCHANGED <<screen, link, wait, answer, run>>
  BY <1>t DEF ApprovalTypes, Clear, Entry
<1>f. /\ since' \in [Watched -> Nat] /\ since'[e.agent] = 0
      /\ calm' \in [Watched -> Nat] /\ calm'[e.agent] = e.wait
      /\ \A a \in Watched : a # e.agent => since'[a] = since[a] /\ calm'[a] = calm[a]
      /\ \A a \in Watched : since[a] \in Nat /\ calm[a] \in Nat /\ wait[a] \in Nat
  BY <1>t, <1>e, <1>s DEF ApprovalTypes
<1>1. OneSighting'
  BY <1>t, <1>s DEF OneSighting
<1>2. WaitOrder'
  <2>1. \A f \in scan.found \ {e} : f.agent \in Watched /\ f.agent # e.agent
    BY <1>e, <1>s DEF Sightings
  <2>2. \A a \in Watched :
          /\ since'[a] <= wait[a] /\ calm'[a] <= wait[a]
          /\ screen[a] = "asking" => calm'[a] < wait[a]
    BY <1>t, <1>e, <1>f DEF WaitOrder
  <2> QED
    BY <1>t, <1>s, <1>f, <2>1, <2>2 DEF WaitOrder
<1>d. dropped \subseteq dropped'
  BY <1>s
<1>3. \A b \in Watched, w \in Nat : w > 0 /\ Accounted(b, w) => Accounted(b, w)'
  <2> TAKE b \in Watched, w \in Nat
  <2> HAVE w > 0 /\ Accounted(b, w)
  <2>1. CASE since[b] = w /\ b = e.agent
    <3>1. since[e.agent] <= e.wait => w <= calm'[b]
      BY <1>f, <2>1
    <3>2. ~(since[e.agent] <= e.wait) => <<b, w>> \in dropped'
      BY <1>e, <1>f, <1>s, <2>1
    <3> QED
      BY <3>1, <3>2 DEF Accounted
  <2>2. CASE since[b] = w /\ b # e.agent
    BY <1>f, <2>2 DEF Accounted
  <2>3. CASE <<b, w>> \in dropped
    BY <1>d, <2>3 DEF Accounted
  <2>4. CASE w <= calm[b]
    BY <1>e, <1>f, <2>4 DEF Accounted
  <2> QED
    BY <1>s, <2>1, <2>2, <2>3, <2>4 DEF Accounted
<1>4. rows' \in Seq(Rows) /\ RowsAccounted' /\ OneRowPerWait'
  <2>1. CASE AddRow(e.agent, 0, "auto")
    BY <1>e, <1>d, <1>3, <2>1, OtherRow
  <2>2. CASE UNCHANGED rows
    BY <1>t, <1>d, <1>3, <2>2, SameRows DEF ApprovalTypes
  <2> QED
    BY <1>s, <2>1, <2>2
<1>5. ApprovalTypes'
  BY <1>t, <1>s, <1>f, <1>4 DEF ApprovalTypes
<1> QED
  BY <1>1, <1>2, <1>4, <1>5 DEF ApprovalInv

LEMMA PassStep ==
  ASSUME ApprovalInv, NEW e \in scan.found, Pass(e)
  PROVE  ApprovalInv'
<1>t. ApprovalTypes /\ OneSighting /\ WaitOrder
  BY DEF ApprovalInv
<1>s. /\ scan.left = {} /\ scan.noted = {} /\ scan.found \subseteq Sightings
      /\ scan' = [left |-> {}, found |-> scan.found \ {e}, noted |-> {}]
      /\ UNCHANGED <<screen, link, wait, since, rows, answer, run, calm, dropped>>
  BY <1>t DEF ApprovalTypes, Pass, Entry
<1>1. ApprovalTypes' /\ OneSighting' /\ WaitOrder'
  BY <1>t, <1>s DEF ApprovalTypes, OneSighting, WaitOrder
<1>2. RowsAccounted' /\ OneRowPerWait'
  BY <1>s, SameRows DEF Accounted
<1> QED
  BY <1>1, <1>2 DEF ApprovalInv

\* What drops entries keeps their waits accounted for.
LEMMA DropFacts ==
  ASSUME ApprovalInv, NEW A \in SUBSET Watched, Drop(A), UNCHANGED <<scan, calm>>
  PROVE  /\ since' \in [Watched -> Nat] /\ dropped \subseteq dropped'
         /\ \A a \in Watched : since'[a] = 0 \/ since'[a] = since[a]
         /\ \A a \in Watched, w \in Nat : w > 0 /\ Accounted(a, w) => Accounted(a, w)'
<1>1. /\ since \in [Watched -> Nat] /\ since' \in [Watched -> Nat]
      /\ \A a \in Watched : since'[a] = IF a \in A THEN 0 ELSE since[a]
      /\ dropped' = dropped \cup {<<a, since[a]>> : a \in A}
  BY DEF Drop, ApprovalInv, ApprovalTypes
<1> QED
  BY <1>1 DEF Accounted

LEMMA RequestSteps ==
  ASSUME ApprovalInv,
         \/ \E h \in Answerers : Approved(h) \/ ResolveRow(h) \/ (\E a \in Watched : Approve(h, a))
         \/ \E h \in Answerers, i \in DOMAIN rows : ReadRow(h, i)
         \/ \E a \in Watched : RemoveAgent(a)
  PROVE  ApprovalInv'
<1>t. ApprovalTypes /\ OneSighting /\ WaitOrder
  BY DEF ApprovalInv
<1>n. /\ \A a \in Watched : since[a] \in Nat /\ calm[a] \in Nat /\ wait[a] \in Nat
      /\ scan.left \subseteq Watched /\ scan.found \subseteq Sightings /\ scan.noted \subseteq Sightings
      /\ \A e \in Sightings : e.agent \in Watched /\ e.wait \in Nat
  BY <1>t DEF ApprovalTypes, Sightings
<1>w. ASSUME UNCHANGED <<scan, wait, calm>>, screen' \in [Watched -> Screens],
             \A a \in Watched : since'[a] = 0 \/ since'[a] = since[a],
             \A a \in Watched : screen'[a] = "asking" => screen[a] = "asking"
      PROVE  OneSighting' /\ WaitOrder'
  BY <1>t, <1>n, <1>w DEF OneSighting, WaitOrder
<1>1. ASSUME NEW h \in Answerers, Approved(h) PROVE ApprovalInv'
  <2>1. /\ answer[h].agent \in Watched /\ Drop({answer[h].agent}) /\ AddRow(answer[h].agent, 0, "human")
        /\ UNCHANGED <<screen, link, wait, scan, run, calm>>
        /\ \A g \in Answerers : answer'[g].phase = "pressed" => answer'[g].agent \in Watched
    <3>1. answer[h].agent \in Watched
      BY <1>t, <1>1 DEF ApprovalTypes, Approved
    <3>2. \A g \in Answerers : answer'[g] = NoCall \/ answer'[g] = answer[g]
      BY <1>1 DEF Approved
    <3>3. NoCall.phase # "pressed"
      BY DEF NoCall
    <3> QED
      BY <1>t, <1>1, <3>1, <3>2, <3>3 DEF ApprovalTypes, Approved
  <2>2. /\ since' \in [Watched -> Nat] /\ dropped \subseteq dropped'
        /\ \A a \in Watched : since'[a] = 0 \/ since'[a] = since[a]
        /\ \A a \in Watched, w \in Nat : w > 0 /\ Accounted(a, w) => Accounted(a, w)'
    BY <2>1, DropFacts
  <2>3. rows' \in Seq(Rows) /\ RowsAccounted' /\ OneRowPerWait'
    BY <2>1, <2>2, OtherRow
  <2>4. OneSighting' /\ WaitOrder'
    BY <1>t, <1>w, <2>1, <2>2 DEF ApprovalTypes
  <2>5. ApprovalTypes'
    BY <1>t, <2>1, <2>2, <2>3 DEF ApprovalTypes
  <2> QED
    BY <2>3, <2>4, <2>5 DEF ApprovalInv
<1>2. ASSUME NEW a \in Watched, RemoveAgent(a) PROVE ApprovalInv'
  <2>1. /\ Drop({a}) /\ UNCHANGED <<link, wait, scan, rows, answer, run, calm>>
        /\ screen' \in [Watched -> Screens]
        /\ \A b \in Watched : screen'[b] = "asking" => screen[b] = "asking"
    BY <1>t, <1>2 DEF RemoveAgent, ApprovalTypes, Screens
  <2>2. /\ since' \in [Watched -> Nat] /\ dropped \subseteq dropped'
        /\ \A b \in Watched : since'[b] = 0 \/ since'[b] = since[b]
        /\ \A b \in Watched, w \in Nat : w > 0 /\ Accounted(b, w) => Accounted(b, w)'
    BY <2>1, DropFacts
  <2>3. RowsAccounted' /\ OneRowPerWait'
    BY <2>1, <2>2, SameRows
  <2>4. OneSighting' /\ WaitOrder'
    BY <1>w, <2>1, <2>2
  <2>5. ApprovalTypes'
    BY <1>t, <2>1, <2>2 DEF ApprovalTypes
  <2> QED
    BY <2>3, <2>4, <2>5 DEF ApprovalInv
<1>3. ASSUME NEW h \in Answerers, ResolveRow(h) PROVE ApprovalInv'
  <2>1. /\ rows' = [rows EXCEPT ![answer[h].row].by = "human"]
        /\ UNCHANGED <<screen, link, wait, scan, since, run, calm, dropped>>
        /\ \A g \in Answerers : answer'[g] = NoCall \/ answer'[g] = answer[g]
    BY <1>3 DEF ResolveRow
  <2>2. /\ rows' \in Seq(Rows) /\ DOMAIN rows' = DOMAIN rows
        /\ \A i \in DOMAIN rows : rows'[i].agent = rows[i].agent /\ rows'[i].wait = rows[i].wait
    <3> DEFINE k == answer[h].row
    <3>1. /\ Len(rows) \in Nat /\ DOMAIN rows = 1 .. Len(rows)
          /\ \A i \in DOMAIN rows : rows[i] \in Rows
      BY <1>t DEF ApprovalTypes
    <3>2. ASSUME NEW r \in Rows
          PROVE  /\ [r EXCEPT !.by = "human"] \in Rows
                 /\ [r EXCEPT !.by = "human"].agent = r.agent
                 /\ [r EXCEPT !.by = "human"].wait = r.wait
      BY DEF Rows
    <3>3. rows' = [i \in DOMAIN rows |-> IF i = k THEN [rows[k] EXCEPT !.by = "human"] ELSE rows[i]]
      BY <2>1, <3>1
    <3> HIDE DEF k
    <3>4. /\ DOMAIN rows' = DOMAIN rows
          /\ \A i \in DOMAIN rows : rows'[i] \in Rows
          /\ \A i \in DOMAIN rows : rows'[i].agent = rows[i].agent /\ rows'[i].wait = rows[i].wait
      BY <3>1, <3>2, <3>3
    <3>5. rows' \in [1 .. Len(rows) -> Rows]
      BY <3>1, <3>3, <3>4
    <3> QED
      BY <3>1, <3>4, <3>5, SeqDef
  <2>3. RowsAccounted' /\ OneRowPerWait'
    BY <2>1, <2>2, SameRows DEF Accounted
  <2>4. OneSighting' /\ WaitOrder'
    BY <1>t, <2>1 DEF OneSighting, WaitOrder
  <2>5. ApprovalTypes'
    <3>1. NoCall.phase # "pressed"
      BY DEF NoCall
    <3> QED
      BY <1>t, <2>1, <2>2, <3>1 DEF ApprovalTypes
  <2> QED
    BY <2>3, <2>4, <2>5 DEF ApprovalInv
<1>4. ASSUME NEW h \in Answerers, NEW a \in Watched, Approve(h, a) PROVE ApprovalInv'
  <2>1. /\ UNCHANGED <<link, wait, scan, since, rows, run, calm, dropped>>
        /\ \A g \in Answerers : answer'[g] = answer[g] \/ answer'[g].agent = a
        /\ screen' \in [Watched -> Screens]
        /\ \A b \in Watched : screen'[b] = "asking" => screen[b] = "asking"
    BY <1>t, <1>4 DEF Approve, ApprovalTypes, Screens
  <2>2. RowsAccounted' /\ OneRowPerWait'
    BY <2>1, SameRows DEF Accounted
  <2>3. OneSighting' /\ WaitOrder'
    BY <1>w, <2>1
  <2>4. ApprovalTypes'
    BY <1>t, <2>1 DEF ApprovalTypes
  <2> QED
    BY <2>2, <2>3, <2>4 DEF ApprovalInv
<1>5. ASSUME NEW h \in Answerers, NEW i \in DOMAIN rows, ReadRow(h, i) PROVE ApprovalInv'
  <2>1. /\ UNCHANGED <<screen, link, wait, scan, since, rows, run, calm, dropped>>
        /\ \A g \in Answerers : answer'[g] = answer[g] \/ answer'[g].phase = "read"
    BY <1>5 DEF ReadRow
  <2>2. RowsAccounted' /\ OneRowPerWait'
    BY <2>1, SameRows DEF Accounted
  <2>3. OneSighting' /\ WaitOrder'
    BY <1>t, <2>1 DEF OneSighting, WaitOrder
  <2>4. ApprovalTypes'
    BY <1>t, <2>1 DEF ApprovalTypes
  <2> QED
    BY <2>2, <2>3, <2>4 DEF ApprovalInv
<1> QED
  BY <1>1, <1>2, <1>3, <1>4, <1>5

LEMMA ServerRestartStep == ASSUME ApprovalInv, RestartServer PROVE ApprovalInv'
<1>t. ApprovalTypes /\ OneSighting /\ WaitOrder
  BY DEF ApprovalInv
<1>s. /\ since' = [a \in Watched |-> 0] /\ scan' = Waiting /\ answer' = [h \in Answerers |-> NoCall]
      /\ dropped' = dropped \cup {<<a, since[a]>> : a \in Watched}
                            \cup {<<e.agent, e.wait>> : e \in scan.noted}
      /\ UNCHANGED <<screen, link, wait, rows, calm>>
  BY DEF RestartServer
<1>1. ApprovalTypes'
  BY <1>t, <1>s DEF ApprovalTypes, Waiting, NoCall
<1>2. OneSighting'
  BY <1>s DEF OneSighting, Waiting
<1>3. WaitOrder'
  <2>1. \A a \in Watched : since'[a] = 0 /\ wait[a] \in Nat
    BY <1>t, <1>s DEF ApprovalTypes
  <2> QED
    BY <1>t, <1>s, <2>1 DEF WaitOrder, Waiting
<1>4. \A b \in Watched, w \in Nat : w > 0 /\ Accounted(b, w) => Accounted(b, w)'
  BY <1>s DEF Accounted
<1>5. RowsAccounted' /\ OneRowPerWait'
  BY <1>s, <1>4, SameRows
<1> QED
  BY <1>1, <1>2, <1>3, <1>5 DEF ApprovalInv

LEMMA TerminalSteps ==
  ASSUME ApprovalInv, NEW a \in Watched, Ask(a) \/ ChangeScreen(a) \/ Flap(a)
  PROVE  ApprovalInv'
<1>t. ApprovalTypes /\ OneSighting /\ WaitOrder
  BY DEF ApprovalInv
<1>s. UNCHANGED <<scan, since, rows, answer, run, calm, dropped>>
  BY DEF Ask, ChangeScreen, Flap
<1>n. /\ \A b \in Watched : since[b] \in Nat /\ calm[b] \in Nat /\ wait[b] \in Nat
      /\ scan.found \subseteq Sightings /\ scan.noted \subseteq Sightings
      /\ \A e \in Sightings : e.agent \in Watched /\ e.wait \in Nat
  BY <1>t DEF ApprovalTypes, Sightings
<1>1. /\ screen' \in [Watched -> Screens] /\ link' \in [Watched -> Links]
      /\ wait' \in [Watched -> Nat]
      /\ \A b \in Watched :
           \/ wait'[b] = wait[b] /\ (screen'[b] = "asking" => screen[b] = "asking")
           \/ wait'[b] = wait[b] + 1
  <2>1. CASE Ask(a)
    BY <1>t, <2>1 DEF ApprovalTypes, Screens, Ask
  <2>2. CASE ChangeScreen(a)
    BY <1>t, <2>2 DEF ApprovalTypes, Screens, ChangeScreen
  <2>3. CASE Flap(a)
    BY <1>t, <2>3 DEF ApprovalTypes, Flap, Links
  <2> QED
    BY <2>1, <2>2, <2>3
<1>2. ApprovalTypes' /\ OneSighting'
  BY <1>t, <1>s, <1>1 DEF ApprovalTypes, OneSighting
<1>3. WaitOrder'
  <2>1. \A b \in Watched :
          /\ since[b] <= wait'[b] /\ calm[b] <= wait'[b]
          /\ screen'[b] = "asking" => calm[b] < wait'[b]
    BY <1>t, <1>n, <1>1 DEF WaitOrder
  <2>2. ASSUME NEW e \in scan.found
        PROVE  /\ e.failed \/ since[e.agent] <= e.wait
               /\ calm[e.agent] <= e.wait /\ e.wait <= wait'[e.agent]
               /\ e.asks => calm[e.agent] < e.wait
               /\ ~e.asks => e.wait < wait'[e.agent] \/ screen'[e.agent] # "asking"
    <3>1. e.agent \in Watched /\ e.wait \in Nat /\ wait[e.agent] \in Nat
      BY <1>n
    <3> QED
      BY <1>t, <1>1, <3>1 DEF WaitOrder
  <2>3. \A e \in scan.noted : e.wait <= wait'[e.agent]
    BY <1>t, <1>n, <1>1 DEF WaitOrder
  <2> QED
    BY <1>s, <2>1, <2>2, <2>3 DEF WaitOrder
<1>4. RowsAccounted' /\ OneRowPerWait'
  BY <1>s, SameRows DEF Accounted
<1> QED
  BY <1>2, <1>3, <1>4 DEF ApprovalInv

LEMMA StepApprovals == ASSUME ApprovalInv, [ApprovalsNext]_approvalVars PROVE ApprovalInv'
<1>1. CASE Scan
  BY <1>1, LookSteps, NoteStep, ClearStep, PassStep, TrackStep DEF Scan
<1>2. CASE UNCHANGED approvalVars
  BY <1>2 DEF approvalVars, ApprovalInv, ApprovalTypes, OneSighting, WaitOrder, RowsAccounted,
              Accounted, OneRowPerWait
<1> QED
  BY <1>1, <1>2, RequestSteps, ServerRestartStep, TerminalSteps DEF ApprovalsNext

\* The ledger has one row for a wait, for any agents, requests and restarts, but
\* for the waits whose entry was dropped.
THEOREM WaitsRecordedOnce == ApprovalsSpec => []OneRowPerWait
<1>1. ApprovalInv => OneRowPerWait
  BY DEF ApprovalInv
<1> QED
  BY InitApprovals, StepApprovals, <1>1, PTL DEF ApprovalsSpec

-----------------------------------------------------------------------------
(* The event feed.                                                         *)

JournalTypes ==
  /\ time \in Nat
  /\ writer \in [Writers -> {Resting} \cup [phase : {"stamped", "entered"}, event : Nat]]
  /\ feed \in Seq(Nat) /\ order \in Seq(Nat)
  /\ table \subseteq ToSet(order) /\ written \subseteq ToSet(order) /\ ToSet(feed) \subseteq ToSet(order)

\* A timestamp is taken once and enters the feed once.
StampedOnce ==
  /\ \A e \in ToSet(order) : e <= time
  /\ \A w \in Writers :
       /\ writer[w].phase = "stamped" => writer[w].event <= time /\ writer[w].event \notin ToSet(order)
       /\ writer[w].phase = "entered" => writer[w].event \in ToSet(order)
  /\ \A v, w \in Writers :
       v # w /\ writer[v].phase = "stamped" /\ writer[w].phase = "stamped"
         => writer[v].event # writer[w].event

\* Each event in the feed is later than those before it.
FeedOrdered ==
  \A i, j \in DOMAIN feed : i < j => feed[i] # feed[j] /\ feed[j] \in Later(feed[i])

Above(e) == {f \in ToSet(order) : f > e}

\* What the table no longer has was pruned after a window of later events.
RowKept == \A e \in written : e \in table \/ Cardinality(Above(e)) >= Window

Shown(e) == e \in ToSet(feed) \/ Cardinality(Later(e)) >= FeedCap

EventKept ==
  /\ \A e \in written : Shown(e)
  /\ \A w \in Writers : writer[w].phase = "entered" => Shown(writer[w].event)

\* The inductive invariant of the journal.
JournalInv == JournalTypes /\ StampedOnce /\ FeedOrdered /\ RowKept /\ EventKept

LEMMA OrderFinite ==
  ASSUME JournalTypes, StampedOnce
  PROVE  IsFiniteSet(ToSet(order)) /\ ToSet(order) \subseteq Nat
<1>1. ToSet(order) \subseteq Nat
  BY DEF JournalTypes, ToSet
<1> QED
  BY <1>1, FS_BoundedSetOfNaturals DEF JournalTypes, StampedOnce

LEMMA AtLeast ==
  ASSUME NEW T, IsFiniteSet(T), NEW S \in SUBSET T, NEW n \in Nat, Cardinality(S) >= n
  PROVE  Cardinality(T) >= n
<1>1. Cardinality(S) <= Cardinality(T) /\ IsFiniteSet(S)
  BY FS_Subset
<1>2. Cardinality(S) \in Nat /\ Cardinality(T) \in Nat
  BY <1>1, FS_CardinalityType
<1> QED
  BY <1>1, <1>2

\* An event that comes in is later than those before it, and nothing gets less late.
LEMMA LaterGrows ==
  ASSUME order \in Seq(Nat), NEW id \in Nat, order' = Append(order, id)
  PROVE  /\ order' \in Seq(Nat) /\ ToSet(order') = ToSet(order) \cup {id}
         /\ \A e : Later(e) \subseteq Later(e)' /\ Above(e) \subseteq Above(e)'
         /\ \A e \in ToSet(order) : id \in Later(e)'
<1>1. /\ order' \in Seq(Nat) /\ ToSet(order') = ToSet(order) \cup {id}
      /\ DOMAIN order = 1 .. Len(order) /\ DOMAIN order' = 1 .. Len(order) + 1 /\ Len(order) \in Nat
      /\ order'[Len(order) + 1] = id /\ \A i \in 1 .. Len(order) : order'[i] = order[i]
  BY ToSetAppend
<1>2. ASSUME NEW e, NEW f \in Later(e) PROVE f \in Later(e)'
  <2>1. f \in ToSet(order) /\ f \in ToSet(order')
    BY <1>1, <1>2 DEF Later
  <2>2. CASE f > e
    BY <2>1, <2>2 DEF Later
  <2>3. ASSUME NEW i \in DOMAIN order, NEW j \in DOMAIN order, i < j, order[i] = e, order[j] = f
        PROVE  f \in Later(e)'
    <3>1. i \in DOMAIN order' /\ j \in DOMAIN order' /\ order'[i] = e /\ order'[j] = f
      BY <1>1, <2>3
    <3> QED
      BY <2>1, <2>3, <3>1 DEF Later
  <2> QED
    BY <1>2, <2>2, <2>3 DEF Later
<1>3. \A e : Above(e) \subseteq Above(e)'
  BY <1>1 DEF Above
<1>4. ASSUME NEW e \in ToSet(order) PROVE id \in Later(e)'
  <2>1. PICK i \in DOMAIN order : order[i] = e
    BY <1>4 DEF ToSet
  <2>2. /\ i \in DOMAIN order' /\ Len(order) + 1 \in DOMAIN order' /\ i < Len(order) + 1
        /\ order'[i] = e /\ id \in ToSet(order')
    BY <1>1, <2>1
  <2> QED
    BY <1>1, <2>2 DEF Later
<1> QED
  BY <1>1, <1>2, <1>3, <1>4

LEMMA InitJournal == JournalInit => JournalInv
<1> SUFFICES ASSUME JournalInit PROVE JournalInv
  OBVIOUS
<1>1. JournalTypes
  BY DEF JournalInit, JournalTypes, ToSet
<1>2. StampedOnce
  BY DEF JournalInit, StampedOnce, ToSet, Resting
<1>3. FeedOrdered /\ RowKept /\ EventKept
  BY DEF JournalInit, FeedOrdered, RowKept, EventKept, Resting
<1> QED
  BY <1>1, <1>2, <1>3 DEF JournalInv

LEMMA BeginStep == ASSUME JournalInv, NEW w \in Writers, Begin(w) PROVE JournalInv'
<1>1. /\ time' = time + 1 /\ time \in Nat /\ ToSet(order) \subseteq Nat
      /\ writer' = [writer EXCEPT ![w] = [phase |-> "stamped", event |-> time + 1]]
      /\ UNCHANGED <<feed, table, written, order>>
  BY OrderFinite DEF JournalInv, JournalTypes, Begin
<1>2. JournalTypes'
  BY <1>1 DEF JournalInv, JournalTypes
<1>3. /\ writer'[w].phase = "stamped" /\ writer'[w].event = time + 1
      /\ \A v \in Writers : v # w => writer'[v] = writer[v]
      /\ \A v \in Writers : writer[v].phase = "stamped" => writer[v].event \in Nat
  BY <1>1 DEF JournalInv, JournalTypes, Resting
<1>4. StampedOnce'
  BY <1>1, <1>3 DEF JournalInv, StampedOnce
<1>5. FeedOrdered' /\ RowKept' /\ EventKept'
  BY <1>1, <1>3 DEF JournalInv, FeedOrdered, RowKept, EventKept, Later, Above, Shown
<1> QED
  BY <1>2, <1>4, <1>5 DEF JournalInv

\* A writer that is done, its row written or not.
LEMMA InsertStep ==
  ASSUME JournalInv, NEW w \in Writers, Insert(w) \/ InsertFails(w)
  PROVE  JournalInv'
<1> DEFINE e == writer[w].event
           rows0 == table \cup {e}
<1>t. /\ IsFiniteSet(ToSet(order)) /\ ToSet(order) \subseteq Nat
      /\ JournalTypes /\ StampedOnce /\ FeedOrdered /\ RowKept /\ EventKept
  BY OrderFinite DEF JournalInv
<1>1. /\ writer[w].phase = "entered" /\ writer' = [writer EXCEPT ![w] = Resting]
      /\ UNCHANGED <<time, feed, order>>
      /\ \/ UNCHANGED <<table, written>>
         \/ /\ written' = written \cup {e}
            /\ table' \in {rows0, Latest(rows0, Window)}
  BY DEF Insert, InsertFails, Pruned
<1>2. e \in ToSet(order) /\ Shown(e)
  BY <1>t, <1>1 DEF StampedOnce, EventKept
<1> HIDE DEF e
<1>3. /\ table' \subseteq ToSet(order) /\ written' \subseteq ToSet(order) /\ written' \subseteq written \cup {e}
  BY <1>t, <1>1, <1>2 DEF JournalTypes, Latest
<1>4. JournalTypes'
  BY <1>t, <1>1, <1>3 DEF JournalTypes
<1>5. /\ writer'[w].phase = "resting" /\ \A v \in Writers : v # w => writer'[v] = writer[v]
  BY <1>t, <1>1 DEF JournalTypes, Resting
<1>6. StampedOnce'
  BY <1>t, <1>1, <1>5 DEF StampedOnce
<1>7. FeedOrdered'
  BY <1>t, <1>1 DEF FeedOrdered, Later
<1>8. EventKept'
  <2>1. \A f : Shown(f) => Shown(f)'
    BY <1>1 DEF Shown, Later
  <2> QED
    BY <1>t, <1>2, <1>3, <1>5, <2>1 DEF EventKept
<1>9. RowKept'
  <2>1. \A f : Above(f)' = Above(f)
    BY <1>1 DEF Above
  <2>2. CASE UNCHANGED <<table, written>>
    BY <1>t, <2>1, <2>2 DEF RowKept
  <2>3. CASE written' = written \cup {e} /\ table' = rows0
    BY <1>t, <2>1, <2>3 DEF RowKept
  <2>4. CASE written' = written \cup {e} /\ table' = Latest(rows0, Window)
    <3>1. ASSUME NEW f \in rows0, f \notin table' PROVE Cardinality(Above(f)) >= Window
      <4>1. Cardinality({g \in rows0 : g > f}) >= Window
        <5>1. ~(Cardinality({g \in rows0 : g > f}) < Window)
          BY <2>4, <3>1 DEF Latest
        <5>2. rows0 \subseteq ToSet(order)
          BY <1>t, <1>2 DEF JournalTypes
        <5>3. IsFiniteSet({g \in rows0 : g > f})
          BY <1>t, <5>2, FS_Subset
        <5> QED
          BY <5>1, <5>3, FS_CardinalityType
      <4>2. {g \in rows0 : g > f} \subseteq Above(f) /\ Above(f) \subseteq ToSet(order)
        BY <1>t, <1>2 DEF JournalTypes, Above
      <4>3. IsFiniteSet(Above(f))
        BY <1>t, <4>2, FS_Subset
      <4> QED
        BY <4>1, <4>2, <4>3, AtLeast
    <3> QED
      BY <1>t, <2>1, <2>4, <3>1 DEF RowKept
  <2> QED
    BY <1>1, <2>2, <2>3, <2>4
<1> QED
  BY <1>4, <1>6, <1>7, <1>8, <1>9 DEF JournalInv

LEMMA EnterStep == ASSUME JournalInv, NEW w \in Writers, Enter(w) PROVE JournalInv'
<1>t. /\ JournalTypes /\ StampedOnce /\ FeedOrdered /\ RowKept /\ EventKept
      /\ feed \in Seq(Nat) /\ order \in Seq(Nat) /\ Len(feed) \in Nat /\ DOMAIN feed = 1 .. Len(feed)
      /\ IsFiniteSet(ToSet(order)) /\ ToSet(order) \subseteq Nat
  BY OrderFinite DEF JournalInv, JournalTypes
<1>e. writer[w].event \in Nat /\ writer[w] = [phase |-> "stamped", event |-> writer[w].event]
  <2>1. writer[w] \in {Resting} \cup [phase : {"stamped", "entered"}, event : Nat]
    BY <1>t DEF JournalTypes
  <2>2. writer[w] # Resting /\ writer[w].phase = "stamped"
    BY DEF Enter, Resting
  <2> QED
    BY <2>1, <2>2
<1>p. PICK id \in Nat : id = writer[w].event
  BY <1>e, Zenon
<1>a. Append(feed, id) \in Seq(Nat)
  BY <1>t
<1>g. PICK grown \in Seq(Nat) : grown = Append(feed, id)
  BY <1>a, Zenon
<1>1. /\ writer[w].phase = "stamped" /\ id <= time /\ id \notin ToSet(order)
      /\ feed' = Newest(grown, FeedCap) /\ order' = Append(order, id)
      /\ writer' = [writer EXCEPT ![w].phase = "entered"]
      /\ UNCHANGED <<time, table, written>>
  BY <1>t, <1>p, <1>g DEF Enter, Capped, Newest, StampedOnce
<1>2. /\ writer'[w] = [phase |-> "entered", event |-> id]
      /\ \A v \in Writers : v # w => writer'[v] = writer[v]
      /\ writer' \in [Writers -> {Resting} \cup [phase : {"stamped", "entered"}, event : Nat]]
  <2> DEFINE r == [phase |-> "entered", event |-> id]
  <2>1. [writer[w] EXCEPT !.phase = "entered"] = r
    BY <1>e, <1>p
  <2>2. r \in [phase : {"stamped", "entered"}, event : Nat]
    OBVIOUS
  <2> HIDE DEF r
  <2>3. writer' = [writer EXCEPT ![w] = r]
    BY <1>1, <2>1
  <2>4. writer'[w] = r /\ \A v \in Writers : v # w => writer'[v] = writer[v]
    BY <1>t, <2>3 DEF JournalTypes
  <2>5. writer' \in [Writers -> {Resting} \cup [phase : {"stamped", "entered"}, event : Nat]]
    BY <1>t, <2>2, <2>3 DEF JournalTypes
  <2> QED
    BY <2>4, <2>5 DEF r
<1>3. /\ order' \in Seq(Nat) /\ ToSet(order') = ToSet(order) \cup {id}
      /\ \A e : Later(e) \subseteq Later(e)' /\ Above(e) \subseteq Above(e)'
      /\ \A e \in ToSet(order) : id \in Later(e)'
  BY <1>t, <1>1, LaterGrows
<1>4. /\ Len(grown) = Len(feed) + 1 /\ grown[Len(feed) + 1] = id
      /\ \A i \in 1 .. Len(feed) : grown[i] = feed[i]
  BY <1>t, <1>g
<1>k. PICK kept \in Seq(Nat) : kept = feed'
  BY <1>1, NewestFacts
<1>5. /\ DOMAIN kept = 1 .. Len(kept)
      /\ Len(kept) = IF Len(grown) <= FeedCap THEN Len(grown) ELSE FeedCap
      /\ \A i \in 1 .. Len(kept) : kept[i] = grown[Len(grown) - Len(kept) + i]
  <2>1. /\ kept = Newest(grown, FeedCap) /\ FeedCap \in Nat
    BY <1>1, <1>k
  <2>2. DOMAIN kept = 1 .. Len(kept)
    OBVIOUS
  <2> QED
    BY <2>1, <2>2, NewestFacts, ZenonT(40)
<1>n. Len(grown) \in Nat /\ Len(kept) \in Nat /\ Len(kept) <= Len(grown) /\ Len(kept) <= FeedCap
  BY <1>t, <1>4, <1>5
<1>6. \A i \in 1 .. Len(feed) : feed[i] \in ToSet(order)
  BY <1>t DEF JournalTypes, ToSet
<1>7. ASSUME NEW i \in 1 .. Len(grown), NEW j \in 1 .. Len(grown), i < j
      PROVE  grown[i] # grown[j] /\ grown[j] \in Later(grown[i])' /\ grown[i] \in ToSet(order)
  <2>1. i \in 1 .. Len(feed) /\ grown[i] = feed[i] /\ feed[i] \in ToSet(order)
    BY <1>t, <1>4, <1>6, <1>7, SMTT(40)
  <2>2. CASE j = Len(feed) + 1
    BY <1>1, <1>3, <1>4, <2>1, <2>2
  <2>3. CASE j \in 1 .. Len(feed)
    <3>1. feed[i] # feed[j] /\ feed[j] \in Later(feed[i])
      BY <1>t, <1>7, <2>1, <2>3 DEF FeedOrdered
    <3> QED
      BY <1>3, <1>4, <2>1, <2>3, <3>1
  <2>4. j = Len(feed) + 1 \/ j \in 1 .. Len(feed)
    BY <1>t, <1>4
  <2> QED
    BY <2>2, <2>3, <2>4
<1>8. JournalTypes'
  <2>1. ToSet(kept) \subseteq ToSet(order')
    <3>1. ASSUME NEW i \in 1 .. Len(kept) PROVE kept[i] \in ToSet(order')
      <4>1. Len(grown) - Len(kept) + i \in 1 .. Len(grown)
        BY <1>n
      <4>2. \A n \in 1 .. Len(grown) : grown[n] \in ToSet(order')
        <5>1. \A n \in 1 .. Len(grown) : n = Len(feed) + 1 \/ n \in 1 .. Len(feed)
          BY <1>t, <1>4
        <5> QED
          BY <1>3, <1>4, <1>6, <5>1
      <4> QED
        BY <1>5, <4>1, <4>2
    <3> QED
      BY <1>5, <3>1 DEF ToSet
  <2> QED
    BY <1>t, <1>1, <1>2, <1>3, <1>k, <2>1 DEF JournalTypes
<1>9. StampedOnce'
  <2>1. \A e \in ToSet(order') : e <= time'
    BY <1>t, <1>1, <1>3 DEF StampedOnce
  <2>2. writer'[w].phase = "entered" /\ writer'[w].event = id
    BY <1>2
  <2>3. ASSUME NEW v \in Writers
        PROVE  /\ writer'[v].phase = "stamped" => writer'[v].event <= time' /\ writer'[v].event \notin ToSet(order')
               /\ writer'[v].phase = "entered" => writer'[v].event \in ToSet(order')
    <3>1. CASE v = w
      BY <1>3, <2>2, <3>1
    <3>2. CASE v # w
      BY <1>t, <1>p, <1>1, <1>2, <1>3, <3>2 DEF StampedOnce
    <3> QED
      BY <3>1, <3>2
  <2>4. \A u, v \in Writers :
          u # v /\ writer'[u].phase = "stamped" /\ writer'[v].phase = "stamped"
            => writer'[u].event # writer'[v].event
    BY <1>t, <1>2, <2>2, ZenonT(40) DEF StampedOnce
  <2> QED
    BY <2>1, <2>3, <2>4 DEF StampedOnce
<1>10. FeedOrdered'
  <2> SUFFICES ASSUME NEW i \in 1 .. Len(kept), NEW j \in 1 .. Len(kept), i < j
               PROVE  kept[i] # kept[j] /\ kept[j] \in Later(kept[i])'
    BY <1>5, <1>k DEF FeedOrdered
  <2> DEFINE a == Len(grown) - Len(kept) + i
             b == Len(grown) - Len(kept) + j
  <2>1. a \in 1 .. Len(grown) /\ b \in 1 .. Len(grown) /\ a < b
    BY <1>n
  <2>2. kept[i] = grown[a] /\ kept[j] = grown[b]
    BY <1>5
  <2> HIDE DEF a, b
  <2> QED
    BY <1>7, <2>1, <2>2
<1>f. IsFiniteSet(ToSet(order')) /\ \A e : IsFiniteSet(Later(e)') /\ IsFiniteSet(Above(e)')
  <2>1. IsFiniteSet(ToSet(order'))
    BY <1>t, <1>3, FS_AddElement
  <2>2. ASSUME NEW e PROVE Later(e)' \subseteq ToSet(order') /\ Above(e)' \subseteq ToSet(order')
    BY DEF Later, Above
  <2> QED
    BY <2>1, <2>2, FS_Subset
<1>11. RowKept'
  <2>1. \A e : Cardinality(Above(e)) >= Window => Cardinality(Above(e)') >= Window
    BY <1>3, <1>f, AtLeast
  <2> QED
    BY <1>t, <1>1, <2>1 DEF RowKept
\* An event that is pushed out has the whole new feed after it.
<1>12. ASSUME NEW i \in 1 .. Len(grown)
       PROVE  grown[i] \in ToSet(kept) \/ Cardinality(Later(grown[i])') >= FeedCap
  <2>1. CASE i > Len(grown) - Len(kept)
    <3> DEFINE k == i - (Len(grown) - Len(kept))
    <3>1. k \in 1 .. Len(kept) /\ Len(grown) - Len(kept) + k = i
      BY <1>n, <2>1
    <3> HIDE DEF k
    <3>2. kept[k] = grown[i]
      BY <1>5, <3>1
    <3> QED
      BY <1>5, <3>1, <3>2 DEF ToSet
  <2>2. CASE ~(i > Len(grown) - Len(kept))
    <3>1. Len(kept) = FeedCap
      BY <1>5, <1>n, <2>2
    <3>2. ASSUME NEW k \in 1 .. Len(kept) PROVE kept[k] \in Later(grown[i])'
      <4>1. Len(grown) - Len(kept) + k \in 1 .. Len(grown) /\ i < Len(grown) - Len(kept) + k
        BY <1>n, <2>2
      <4> QED
        BY <1>5, <1>7, <4>1
    <3>3. ASSUME NEW k \in 1 .. Len(kept), NEW n \in 1 .. Len(kept), kept[k] = kept[n] PROVE k = n
      <4>1. k < n \/ n < k \/ k = n
        BY <1>n
      <4> QED
        BY <1>5, <1>10, <1>k, <3>3, <4>1 DEF FeedOrdered
    <3>4. kept \in Injection(1 .. Len(kept), Later(grown[i])')
      BY <1>5, <3>2, <3>3 DEF Injection, IsInjective
    <3>5. Cardinality(1 .. Len(kept)) <= Cardinality(Later(grown[i])')
      BY <1>f, <3>4, FS_Injection
    <3>6. Cardinality(1 .. Len(kept)) = FeedCap
      BY <1>n, <3>1, FS_Interval
    <3>7. Cardinality(Later(grown[i])') \in Nat
      BY <1>f, FS_CardinalityType
    <3> QED
      BY <3>5, <3>6, <3>7
  <2> QED
    BY <2>1, <2>2
<1>13. EventKept'
  <2>1. ASSUME NEW e, Shown(e) PROVE Shown(e)'
    <3>1. CASE e \in ToSet(feed)
      <4>1. PICK i \in 1 .. Len(feed) : e = feed[i]
        BY <1>t, <3>1 DEF ToSet
      <4>2. i \in 1 .. Len(grown) /\ e = grown[i]
        BY <1>t, <1>4, <4>1
      <4> QED
        BY <1>12, <1>k, <4>2 DEF Shown
    <3>2. CASE Cardinality(Later(e)) >= FeedCap
      BY <1>3, <1>f, <3>2, AtLeast DEF Shown
    <3> QED
      BY <2>1, <3>1, <3>2 DEF Shown
  <2>2. Shown(id)' /\ writer'[w].event = id
    <3>1. Len(feed) + 1 \in 1 .. Len(grown) /\ id = grown[Len(feed) + 1]
      BY <1>t, <1>4
    <3> QED
      BY <1>2, <1>12, <1>k, <3>1 DEF Shown
  <2>3. ASSUME NEW v \in Writers, writer'[v].phase = "entered" PROVE Shown(writer[v].event)'
    <3>1. CASE v = w
      BY <2>2, <3>1
    <3>2. CASE v # w
      BY <1>t, <1>2, <2>1, <2>3, <3>2 DEF EventKept
    <3> QED
      BY <3>1, <3>2
  <2> QED
    BY <1>t, <1>1, <2>1, <2>3 DEF EventKept
<1> QED
  BY <1>8, <1>9, <1>10, <1>11, <1>13 DEF JournalInv

\* What a start loads has all of the window that the feed can show.
LEMMA ReloadStep == ASSUME JournalInv, Reload PROVE JournalInv'
<1>t. /\ JournalTypes /\ StampedOnce /\ FeedOrdered /\ RowKept /\ EventKept
      /\ IsFiniteSet(ToSet(order)) /\ ToSet(order) \subseteq Nat /\ table \subseteq ToSet(order)
  BY OrderFinite DEF JournalInv, JournalTypes
<1>1. /\ writer' = [w \in Writers |-> Resting]
      /\ UNCHANGED <<time, table, written, order>>
  BY DEF Reload
<1>s. PICK s \in [1 .. Cardinality(Latest(table, FeedCap)) -> Latest(table, FeedCap)] :
        /\ ToSet(s) = Latest(table, FeedCap) /\ feed' = s
        /\ \A i, j \in DOMAIN s : i < j => s[i] < s[j]
  BY DEF Reload
<1>2. Latest(table, FeedCap) \subseteq table /\ Latest(table, FeedCap) \subseteq Nat
  BY <1>t DEF Latest
<1>3. Cardinality(Latest(table, FeedCap)) \in Nat
  BY <1>t, <1>2, FS_Subset, FS_CardinalityType
<1>4. s \in Seq(Nat)
  <2>1. s \in [1 .. Cardinality(Latest(table, FeedCap)) -> Nat]
    BY <1>2
  <2> QED
    BY <1>3, <2>1, SeqDef
<1>5. JournalTypes'
  BY <1>t, <1>1, <1>s, <1>2, <1>4 DEF JournalTypes
<1>6. StampedOnce'
  BY <1>t, <1>1 DEF StampedOnce, Resting
<1>7. FeedOrdered'
  <2>1. ASSUME NEW i \in DOMAIN s, NEW j \in DOMAIN s, i < j
        PROVE  s[i] # s[j] /\ s[j] \in Later(s[i])'
    <3>1. s[i] \in Nat /\ s[j] \in ToSet(order) /\ s[i] < s[j] /\ s[j] \in Nat
      BY <1>t, <1>s, <1>2, <2>1
    <3> QED
      BY <1>1, <3>1 DEF Later
  <2> QED
    BY <1>s, <2>1 DEF FeedOrdered
<1>8. RowKept'
  BY <1>t, <1>1 DEF RowKept, Above
<1>9. EventKept'
  <2>1. ASSUME NEW e \in written PROVE Shown(e)'
    <3>1. IsFiniteSet(Later(e)) /\ Above(e) \subseteq Later(e)
      <4>1. Later(e) \subseteq ToSet(order) /\ Above(e) \subseteq Later(e)
        BY DEF Later, Above
      <4> QED
        BY <1>t, <4>1, FS_Subset
    <3>2. CASE e \in table /\ e \in Latest(table, FeedCap)
      BY <1>s, <3>2 DEF Shown
    <3>3. CASE e \in table /\ e \notin Latest(table, FeedCap)
      <4>1. ~(Cardinality({f \in table : f > e}) < FeedCap)
        BY <3>3 DEF Latest
      <4>2. {f \in table : f > e} \subseteq Above(e) /\ {f \in table : f > e} \subseteq ToSet(order)
        BY <1>t DEF Above
      <4>3. Cardinality({f \in table : f > e}) \in Nat
        BY <1>t, <4>2, FS_Subset, FS_CardinalityType
      <4>4. Cardinality(Later(e)) >= FeedCap
        BY <3>1, <4>1, <4>2, <4>3, AtLeast
      <4> QED
        BY <1>1, <4>4 DEF Shown, Later
    <3>4. CASE e \notin table
      <4>1. Cardinality(Above(e)) >= Window
        BY <1>t, <3>4 DEF RowKept
      <4>2. Cardinality(Above(e)) \in Nat
        BY <3>1, FS_Subset, FS_CardinalityType
      <4>3. Cardinality(Later(e)) >= FeedCap
        BY <3>1, <4>1, <4>2, AtLeast
      <4> QED
        BY <1>1, <4>3 DEF Shown, Later
    <3> QED
      BY <3>2, <3>3, <3>4
  <2> QED
    BY <1>1, <2>1 DEF EventKept, Resting
<1> QED
  BY <1>5, <1>6, <1>7, <1>8, <1>9 DEF JournalInv

LEMMA StepJournal == ASSUME JournalInv, [JournalNext]_journalVars PROVE JournalInv'
<1>1. CASE UNCHANGED journalVars
  BY <1>1 DEF journalVars, JournalInv, JournalTypes, StampedOnce, FeedOrdered, RowKept, EventKept,
              Later, Above, Shown
<1> QED
  BY <1>1, BeginStep, EnterStep, InsertStep, ReloadStep DEF JournalNext

\* An event that was appended stays in the feed until the feed is full of later
\* ones, for any writers, caps and restarts, if the table keeps at least a feed.
THEOREM AppendedEventsShown == JournalSpec => []FeedKept
<1>1. JournalInv => FeedKept
  BY DEF JournalInv, EventKept, Shown, FeedKept
<1> QED
  BY InitJournal, StepJournal, <1>1, PTL DEF JournalSpec
=============================================================================
