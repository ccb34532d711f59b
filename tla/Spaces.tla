-------------------------------- MODULE Spaces --------------------------------
(***************************************************************************)
(* The spaces of the server as wholes: the import of the files of earlier  *)
(* versions when the database is empty, the load from the database,        *)
(* creation by the first request that names a space, and deletion, which   *)
(* takes the space out of memory, then removes its files, then its rows    *)
(* (storage.go, db_adapter.go, handlers_space.go, journal.go).             *)
(***************************************************************************)
EXTENDS FiniteSets

CONSTANTS
  Names,     \* names of spaces
  Requests   \* requests that work on a space at once

\* Where what is known of a space comes from, as far as its row goes; the rows of
\* agents and tasks that a skipped or half-deleted space left are not told apart.
\* "part": only the row of the space itself was written, not those of its agents
\* and tasks.
Contents == {"none", "json", "journal", "fresh", "part"}

VARIABLES
  json,      \* the JSON file of a space: "none", "good", "bad" (cannot be read)
  events,    \* the spaces with an .events.jsonl file
  served,    \* Server.spaces
  rows,      \* what the database has of a space
  boot,      \* "down", "importing", "up"
  left,      \* importing: the spaces still to be written
  request,   \* the space a request holds a pointer to
  dropping,  \* the spaces out of memory whose rows are still to be removed
  alive,     \* history: the spaces that were imported or created, and not deleted
  unsaved,   \* history: the spaces whose last save failed, or that had none
  excused    \* history: see SpacesTrue

spacesVars == <<json, events, served, rows, boot, left, request, dropping, alive, unsaved, excused>>

Idle == [at |-> "idle"]
None == [s \in Names |-> "none"]

SpacesInit ==
  /\ json \in [Names -> {"none", "good", "bad"}] /\ events \in SUBSET Names
  /\ served = None /\ rows = None /\ boot = "down" /\ left = {}
  /\ request = [h \in Requests |-> Idle]
  /\ dropping = {} /\ unsaved = {} /\ excused = {}
  /\ alive = {s \in Names : \/ json[s] = "good"
                            \/ json[s] = "none" /\ s \in events}

Known(c) == {s \in Names : c[s] # "none"}

Holding(s) == {h \in Requests : request[h] # Idle /\ request[h].space = s}

-----------------------------------------------------------------------------
\* What ReplayInto finds.  By the time the files are read the journal is a ring
\* in memory, which starts empty and is filled after the spaces are loaded.
Replayed(s) == "none"

\* loadSpaceWithJournal: the journal, else the JSON file, else an empty space.
FromFiles(s) ==
  IF s \in events /\ Replayed(s) # "none" THEN Replayed(s)
  ELSE IF json[s] = "good" THEN "json"
  ELSE IF json[s] = "none" /\ s \in events THEN "fresh" ELSE "none"

\* An empty database is filled from the files.
Import ==
  /\ boot = "down" /\ Known(rows) = {}
  /\ served' = [s \in Names |-> FromFiles(s)]
  /\ left' = Known(served') /\ boot' = "importing"
  /\ UNCHANGED <<json, events, rows, request, dropping, alive, unsaved, excused>>

\* The spaces are written one after the other, in any order.
Reached(s) == boot = "importing" /\ s \in left /\ \A t \in left : rows[t] = "none"

\* persistSpaceToDB: the row of the space, then the rest.
ImportRow(s) ==
  /\ Reached(s)
  /\ rows' = [rows EXCEPT ![s] = "part"]
  /\ UNCHANGED <<json, events, served, boot, left, request, dropping, alive, unsaved, excused>>

ImportRest(s) ==
  /\ boot = "importing" /\ s \in left /\ rows[s] = "part"
  /\ rows' = [rows EXCEPT ![s] = served[s]] /\ left' = left \ {s}
  /\ UNCHANGED <<json, events, served, boot, request, dropping, alive, unsaved, excused>>

\* A row that cannot be written is logged, and the rest is left out.
ImportFails(s) ==
  /\ Reached(s)
  /\ left' = left \ {s} /\ unsaved' = unsaved \cup {s}
  /\ UNCHANGED <<json, events, served, rows, boot, request, dropping, alive, excused>>

Imported ==
  /\ boot = "importing" /\ left = {} /\ boot' = "up"
  /\ UNCHANGED <<json, events, served, rows, left, request, dropping, alive, unsaved, excused>>

\* Otherwise the files are not looked at.  A space that cannot be read is skipped.
Load ==
  /\ boot = "down" /\ Known(rows) # {} /\ boot' = "up"
  /\ \E F \in SUBSET Known(rows) :
       /\ served' = [s \in Names |-> IF s \in F THEN "none" ELSE rows[s]]
       /\ excused' = excused \cup F
  /\ UNCHANGED <<json, events, rows, left, request, dropping, alive, unsaved>>

\* A crash in the import loses the spaces it had not reached, for the database is
\* not empty any more; later it loses those whose rows could not be written.
Crash ==
  /\ boot # "down" /\ boot' = "down"
  /\ served' = None /\ left' = {} /\ dropping' = {}
  /\ request' = [h \in Requests |-> Idle]
  /\ excused' = excused \cup {s \in unsaved : rows[s] = "none"}
                        \cup (IF Known(rows) = {} THEN {} ELSE left)
  /\ UNCHANGED <<json, events, rows, alive, unsaved>>

-----------------------------------------------------------------------------
\* getOrCreateSpace: the request keeps the pointer after the unlock.  A space that
\* was skipped is made again, empty.
Open(h, s) ==
  /\ boot = "up" /\ request[h] = Idle
  /\ served' = [served EXCEPT ![s] = IF @ = "none" THEN "fresh" ELSE @]
  /\ request' = [request EXCEPT ![h] = [at |-> "open", space |-> s, stale |-> FALSE, is |-> served'[s]]]
  /\ UNCHANGED <<json, events, rows, boot, left, dropping, alive, unsaved, excused>>

\* saveSpace writes the object it was given, in the map or not.  A space that is
\* saved undisturbed is as it should be again.
Save(h) ==
  LET s == request[h].space
  IN /\ request[h].at = "open"
     /\ rows' = [rows EXCEPT ![s] = request[h].is]
     /\ IF request[h].stale
          THEN excused' = excused \cup {s} /\ UNCHANGED alive
          ELSE /\ alive' = alive \cup {s}
               /\ excused' = IF Holding(s) = {h} /\ s \notin dropping
                               THEN excused \ {s} ELSE excused
     /\ unsaved' = unsaved \ {s}
     /\ request' = [request EXCEPT ![h] = Idle]
     /\ UNCHANGED <<json, events, served, boot, left, dropping>>

\* A failing save is answered like one that worked.
SaveFails(h) ==
  LET s == request[h].space
  IN /\ request[h].at = "open"
     /\ IF request[h].stale THEN UNCHANGED <<alive, unsaved>>
        ELSE alive' = alive \cup {s} /\ unsaved' = unsaved \cup {s}
     /\ request' = [request EXCEPT ![h] = Idle]
     /\ UNCHANGED <<json, events, served, rows, boot, left, dropping, excused>>

\* saveSpaceByName looks the space up again: it may find none, or another.
SaveSpaceByName(h) ==
  LET s == request[h].space
  IN /\ request[h].at = "open" /\ request' = [request EXCEPT ![h] = Idle]
     /\ IF served[s] = "none" THEN UNCHANGED <<rows, alive, unsaved>>
        ELSE /\ rows' = [rows EXCEPT ![s] = served[s]]
             /\ alive' = alive \cup {s} /\ unsaved' = unsaved \ {s}
     /\ UNCHANGED <<json, events, served, boot, left, dropping, excused>>

\* A request that is refused after it got its space: a registration as "parent", an
\* ignition or a status post with a parent that closes a cycle.
NoSave(h) ==
  LET s == request[h].space
  IN /\ request[h].at = "open" /\ request' = [request EXCEPT ![h] = Idle]
     /\ IF request[h].stale \/ s \in alive THEN UNCHANGED <<alive, unsaved>>
        ELSE alive' = alive \cup {s} /\ unsaved' = unsaved \cup {s}
     /\ UNCHANGED <<json, events, served, rows, boot, left, dropping, excused>>

\* DELETE, under the lock: out of the map, whoever still has the pointer.
\* Bound: a space is deleted again only after its first deletion is through.
Delete(s) ==
  /\ boot = "up" /\ served[s] # "none" /\ s \notin dropping
  /\ served' = [served EXCEPT ![s] = "none"] /\ dropping' = dropping \cup {s}
  /\ request' = [h \in Requests |->
                   IF h \in Holding(s) THEN [request[h] EXCEPT !.stale = TRUE] ELSE request[h]]
  /\ UNCHANGED <<json, events, rows, boot, left, alive, unsaved, excused>>

\* What is left of the space is removed with it, even if it was made again since.
Removed(s) ==
  /\ s \in dropping /\ dropping' = dropping \ {s}
  /\ alive' = alive \ {s} /\ unsaved' = unsaved \ {s}
  /\ UNCHANGED <<served, boot, left, request>>

DropRowsOnly(s) ==    \* mutant: the files stay
  /\ Removed(s)
  /\ rows' = [rows EXCEPT ![s] = "none"]
  /\ excused' = IF served[s] # "none" THEN excused \cup {s} ELSE excused
  /\ UNCHANGED <<json, events>>

DropSpace(s) ==
  /\ Removed(s)
  /\ json' = [json EXCEPT ![s] = "none"] /\ events' = events \ {s}
  /\ rows' = [rows EXCEPT ![s] = "none"]
  /\ excused' = IF served[s] # "none" THEN excused \cup {s} ELSE excused

\* The transaction fails, which is logged only.
DropFails(s) ==
  /\ Removed(s)
  /\ json' = [json EXCEPT ![s] = "none"] /\ events' = events \ {s}
  /\ excused' = excused \cup {s}
  /\ UNCHANGED rows

SpacesNext ==
  \/ Import \/ Imported \/ Load \/ Crash
  \/ \E s \in Names :
       \/ ImportRow(s) \/ ImportRest(s) \/ ImportFails(s)
       \/ Delete(s) \/ DropSpace(s) \/ DropFails(s)
  \/ \E h \in Requests, s \in Names : Open(h, s)
  \/ \E h \in Requests : Save(h) \/ SaveFails(h) \/ SaveSpaceByName(h) \/ NoSave(h)

SpacesSpec == SpacesInit /\ [][SpacesNext]_spacesVars

-----------------------------------------------------------------------------
Quiet == boot = "up" /\ dropping = {} /\ \A h \in Requests : request[h] = Idle

\* When nothing is at work the server has exactly the spaces that were imported
\* or created and not deleted, whatever it was stopped in the middle of, but for:
\* those an import did not reach before a crash; after a restart, those that could
\* not be written, that were made for requests that were all refused, or that could
\* not be read; and those that a deletion crossed with a request that had the space
\* or made it again, or whose rows could not be removed.
SpacesTrue ==
  Quiet => \A s \in Names \ excused : (served[s] # "none") <=> (s \in alive)

=============================================================================
