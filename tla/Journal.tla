------------------------------ MODULE Journal ------------------------------
(***************************************************************************)
(* The event feed of one space: a ring in memory that the dashboard reads  *)
(* and a table behind it.  An event is stamped, put into the ring under    *)
(* the journal's lock, and written to the table after the unlock; a start  *)
(* of the server fills the ring from the table.                            *)
(***************************************************************************)
EXTENDS Integers, Sequences, FiniteSets, SequencesExt

CONSTANTS
  Writers,     \* the handlers that can append
  FeedCap,     \* ringBufferCap
  Window,      \* EventLogWindowSize
  MaxStamps    \* bound: events

\* Both caps are 500 (journal.go:52, db/repository.go:388): the table never keeps
\* fewer events than the feed shows.
ASSUME JournalBounds ==
  FeedCap \in Nat /\ Window \in Nat /\ FeedCap <= Window /\ MaxStamps \in Nat

VARIABLES
  time,      \* the last timestamp
  writer,    \* the appends at work
  feed,      \* ringBuf
  table,     \* space_event_log
  written,   \* history: events whose append is over and whose row was written
  order      \* history: events in the order they entered the ring

journalVars == <<time, writer, feed, table, written, order>>

Resting == [phase |-> "resting"]

JournalInit ==
  /\ time = 0 /\ writer = [w \in Writers |-> Resting]
  /\ feed = <<>> /\ table = {} /\ written = {} /\ order = <<>>

Capped(s) == IF Len(s) <= FeedCap THEN s ELSE SubSeq(s, Len(s) - FeedCap + 1, Len(s))

\* Append: ID and timestamp, before the lock.
Begin(w) ==
  /\ writer[w] = Resting /\ time < MaxStamps
  /\ time' = time + 1
  /\ writer' = [writer EXCEPT ![w] = [phase |-> "stamped", event |-> time + 1]]
  /\ UNCHANGED <<feed, table, written, order>>

\* write, under the journal's lock.
Enter(w) ==
  /\ writer[w].phase = "stamped"
  /\ feed' = Capped(Append(feed, writer[w].event))
  /\ order' = Append(order, writer[w].event)
  /\ writer' = [writer EXCEPT ![w].phase = "entered"]
  /\ UNCHANGED <<time, table, written>>

Latest(rows, n) == {e \in rows : Cardinality({f \in rows : f > e}) < n}

PrunedByAge(rows, e) ==    \* mutant: keeps the oldest rows
  rows \ {f \in rows : Cardinality({g \in rows : g < f}) >= Window}

Pruned(rows, e) == Latest(rows, Window)

\* AppendSpaceEvent, after the unlock: the row, then the pruning, which may fail.
Insert(w) ==
  LET rows == table \cup {writer[w].event}
  IN /\ writer[w].phase = "entered"
     /\ table' \in {rows, Pruned(rows, writer[w].event)}
     /\ written' = written \cup {writer[w].event}
     /\ writer' = [writer EXCEPT ![w] = Resting]
     /\ UNCHANGED <<time, feed, order>>

\* A failing insert is dropped without a word.
InsertFails(w) ==
  /\ writer[w].phase = "entered"
  /\ writer' = [writer EXCEPT ![w] = Resting]
  /\ UNCHANGED <<time, feed, table, written, order>>

\* loadEventRingFromDB: the rows by timestamp, through the same cap, which keeps
\* the latest.
Reload ==
  /\ time < MaxStamps
  /\ LET loaded == Latest(table, FeedCap)
     IN \E s \in [1 .. Cardinality(loaded) -> loaded] :
          /\ ToSet(s) = loaded /\ \A i, j \in DOMAIN s : i < j => s[i] < s[j]
          /\ feed' = s
  /\ writer' = [w \in Writers |-> Resting]
  /\ UNCHANGED <<time, table, written, order>>

JournalNext ==
  \/ Reload
  \/ \E w \in Writers : Begin(w) \/ Enter(w) \/ Insert(w) \/ InsertFails(w)

JournalSpec == JournalInit /\ [][JournalNext]_journalVars

-----------------------------------------------------------------------------
\* The events that are later than e by timestamp, or came into the ring later.
Later(e) ==
  {f \in ToSet(order) :
     \/ f > e
     \/ \E i, j \in DOMAIN order : i < j /\ order[i] = e /\ order[j] = f}

\* An event whose append is over is in the feed, over any number of restarts,
\* until FeedCap later ones have come.
FeedKept ==
  \A e \in written : e \in ToSet(feed) \/ Cardinality(Later(e)) >= FeedCap

=============================================================================
