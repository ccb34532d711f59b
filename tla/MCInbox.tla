------------------------------ MODULE MCInbox ------------------------------
(* What the server hands to an agent: its messages, the prompt of its      *)
(* persona with the text of its session, and the token it posts with.      *)
(* In Inbox there are two agents, a2 below a1: a1 can be addressed alone   *)
(* and with its subtree.  The parts share no state, so a behaviour is one  *)
(* of them, while the others stand still.  Handlers that save after their  *)
(* unlock run in behaviours of their own, with at most MaxCopied messages  *)
(* and no polls, which change neither inboxes nor rows.                    *)
EXTENDS Inbox, Personas, Tokens

CONSTANTS a1, a2, MaxCopied

VARIABLE part

MCTargets == {{a1}, {a1, a2}}

\* The parts that stand still do so in one state.
MCInit ==
  /\ part \in {"messages", "copies", "persona", "token"}
  /\ Init /\ PersonasInit /\ TokensInit
  /\ part # "persona" => row.prompt = CHOOSE p \in Prompts : TRUE

MCNext ==
  \/ /\ part = "messages" /\ Next /\ UNCHANGED <<late, saving, personaVars, tokenVars, part>>
  \/ /\ part = "copies" /\ Next /\ clock' <= MaxCopied
     /\ UNCHANGED <<cursor, asking, personaVars, tokenVars, part>>
  \/ part = "persona" /\ PersonasNext /\ UNCHANGED <<vars, tokenVars, part>>
  \/ part = "token" /\ TokensNext /\ UNCHANGED <<vars, personaVars, part>>

MCSpec == MCInit /\ [][MCNext]_<<vars, personaVars, tokenVars, part>>

=============================================================================
