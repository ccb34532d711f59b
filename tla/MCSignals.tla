----------------------------- MODULE MCSignals -----------------------------
(* How the server notices its agents and reaches them: nudges, heartbeats, *)
(* event streams and the event feed.  The four share no state, so a        *)
(* behaviour is one of them, while the others stand still.                 *)
EXTENDS Nudge, Presence, Streams, Journal

VARIABLE part

Parts == {"nudges", "presence", "streams", "journal"}

\* The parts that stand still do so in one state.
MCInit ==
  /\ part \in Parts
  /\ Init /\ (part # "nudges" => session = [a \in Agents |-> "none"])
  /\ PresenceInit /\ StreamInit /\ JournalInit

MCNext ==
  /\ UNCHANGED part
  /\ \/ part = "nudges" /\ Next /\ UNCHANGED <<presenceVars, streamVars, journalVars>>
     \/ part = "presence" /\ PresenceNext /\ UNCHANGED <<vars, streamVars, journalVars>>
     \/ part = "streams" /\ StreamNext /\ UNCHANGED <<vars, presenceVars, journalVars>>
     \/ part = "journal" /\ JournalNext /\ UNCHANGED <<vars, presenceVars, streamVars>>

MCFairness ==
  /\ WF_vars(part = "nudges" /\ Loop)
  /\ \A a \in Agents : WF_vars(part = "nudges" /\ Mark(a))
  /\ \A j \in Nudgers : WF_vars(part = "nudges" /\ CheckIn(j))

MCSpec ==
  /\ MCInit
  /\ [][MCNext]_<<vars, presenceVars, streamVars, journalVars, part>>
  /\ MCFairness

=============================================================================
