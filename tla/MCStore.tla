------------------------------ MODULE MCStore ------------------------------
(* What is kept in SQLite and in memory: the store with one request at a   *)
(* time and crashes, the store with overlapping requests in one run of the *)
(* server, and the spaces as wholes.  The three share no state, so a       *)
(* behaviour is one of them, while the others stand still.                 *)
EXTENDS SpaceStore, Spaces, TLC

CONSTANTS
  PairAgents, Pair, PairSpellings, PairEdits  \* the agents, requests, spellings and edits of the overlap

VARIABLES mem2, db2, pend2, phase2, lock2, edits2, bare2, unwritten2,
          part

pairVars == <<mem2, db2, pend2, phase2, lock2, edits2, bare2, unwritten2>>

O == INSTANCE SpaceStore
       WITH Agents <- PairAgents, Handlers <- Pair, Spellings <- PairSpellings,
            MaxEdits <- PairEdits, mem <- mem2, db <- db2, pend <- pend2,
            phase <- phase2, lock <- lock2, edits <- edits2,
            bare <- bare2, unwritten <- unwritten2

\* The parts that stand still do so in one state.
MCInit ==
  /\ part \in {"one", "overlap", "spaces"}
  /\ Init /\ O!Init
  /\ SpacesInit /\ (part # "spaces" => events = {} /\ json = [s \in Names |-> "none"])

MCNext ==
  /\ UNCHANGED part
  /\ \/ part = "one" /\ Next /\ UNCHANGED <<pairVars, spacesVars>>
     \/ part = "overlap" /\ O!Serve /\ UNCHANGED <<vars, spacesVars>>
     \/ part = "spaces" /\ SpacesNext /\ UNCHANGED <<vars, pairVars>>

\* Statements return, and the mutex is fair: a request that waits for the
\* lock gets it when it is freed again and again.
MCFairness ==
  /\ \A h \in Pair : SF_pairVars(part = "overlap" /\ O!TakeSnapshot(h))
  /\ \A h \in Pair : WF_pairVars(part = "overlap" /\ O!WriteRow(h))
  /\ \A h \in Pair : WF_pairVars(part = "overlap" /\ O!Unlock(h))
  /\ \A h \in Pair : WF_pairVars(part = "overlap" /\ O!Answer(h))

MCSpec ==
  /\ MCInit
  /\ [][MCNext]_<<vars, pairVars, spacesVars, part>>
  /\ MCFairness


=============================================================================
