-------------------------------- MODULE Tokens --------------------------------
(***************************************************************************)
(* The token of an agent: minted for each session that is started, kept as *)
(* a hash in the agent's row and in a cache, and compared with what the    *)
(* session presents with its posts (middleware.go, lifecycle.go).  The row *)
(* and the cache are written one after the other, the session is started   *)
(* after both, and a post fills the cache from a row it read before.       *)
(* Tokens are numbered in the order they are minted.                       *)
(***************************************************************************)
EXTENDS Naturals

CONSTANTS
  Bearers,     \* the agents of the space
  Starters,    \* requests that start a session at once
  Checks,      \* posts whose token is looked up at once
  MaxTokens    \* bound on the tokens minted

NoToken == 0
Workspace == MaxTokens + 1    \* the operator's token, good for everyone

VARIABLES
  recorded,    \* agents with a row
  hash,        \* the hash in the row
  cache,       \* agentTokenCache
  held,        \* the token of the session an agent runs in
  minted,      \* tokens minted so far
  start,       \* the requests that start sessions
  check,       \* the posts that read a hash and have yet to cache it
  unrecorded,  \* history: agents whose token was minted without a row
  cutOff       \* history: agents whose session lost its token, see SessionHeard

tokenVars == <<recorded, hash, cache, held, minted, start, check, unrecorded, cutOff>>

NoJob == [at |-> "idle"]

TokensInit ==
  /\ recorded = {} /\ minted = 0 /\ unrecorded = {} /\ cutOff = {}
  /\ hash = [a \in Bearers |-> NoToken] /\ cache = hash /\ held = hash
  /\ start = [o \in Starters |-> NoJob] /\ check = [v \in Checks |-> NoJob]

At(o, stages) == start[o].at \in stages

Busy(a) == {o \in Starters : start[o] # NoJob /\ start[o].agent = a}

\* Those that have still to put their token to use.
Minting(a) == {o \in Busy(a) : At(o, {"saved", "ready"})}

\* They are no longer alone: something crossed them.
Crossed(jobs) == [o \in Starters |-> IF o \in jobs THEN [start[o] EXCEPT !.alone = FALSE] ELSE start[o]]

-----------------------------------------------------------------------------
\* Spawn asks for a free name and excludes other spawns; restart asks for the
\* agent; create asks for nothing and finds out when the session is made.
MayMint(kind, a) ==
  /\ kind = "spawn" => held[a] = NoToken /\ \A o \in Busy(a) : start[o].kind # "spawn"
  /\ kind = "restart" => a \in recorded

\* generateAgentToken: an update of the row, if there is one.
Mint(o, kind, a) ==
  /\ start[o] = NoJob /\ minted < MaxTokens /\ MayMint(kind, a)
  /\ minted' = minted + 1
  /\ hash' = IF a \in recorded THEN [hash EXCEPT ![a] = minted'] ELSE hash
  /\ start' = [Crossed(Minting(a)) EXCEPT ![o] =
                 [at |-> "saved", kind |-> kind, agent |-> a, token |-> minted',
                  kept |-> a \in recorded, alone |-> Minting(a) = {}]]
  /\ cutOff' = IF held[a] = NoToken THEN cutOff ELSE cutOff \cup {a}
  /\ UNCHANGED <<recorded, cache, held, check, unrecorded>>

\* When the row cannot be written the session gets the operator's token.
MintFails(o, kind, a) ==
  /\ start[o] = NoJob /\ MayMint(kind, a)
  /\ start' = [Crossed(Minting(a)) EXCEPT ![o] =
                 [at |-> "ready", kind |-> kind, agent |-> a, token |-> Workspace,
                  kept |-> TRUE, alone |-> Minting(a) = {}]]
  /\ UNCHANGED <<recorded, hash, cache, held, minted, check, unrecorded, cutOff>>

PublishLate(o) ==    \* mutant: an entry of the cache is not replaced
  /\ At(o, {"saved"})
  /\ LET a == start[o].agent
     IN cache' = [cache EXCEPT ![a] = IF @ = NoToken THEN start[o].token ELSE @]
  /\ start' = [start EXCEPT ![o].at = "ready"]
  /\ UNCHANGED <<recorded, hash, held, minted, check, unrecorded, cutOff>>

Publish(o) ==
  /\ At(o, {"saved"})
  /\ cache' = [cache EXCEPT ![start[o].agent] = start[o].token]
  /\ start' = [start EXCEPT ![o].at = "ready"]
  /\ UNCHANGED <<recorded, hash, held, minted, check, unrecorded, cutOff>>

\* CreateSession: a name that is taken is an error, but restart has a second one.
Launch(o) ==
  LET a == start[o].agent
  IN /\ At(o, {"ready"})
     /\ held[a] = NoToken \/ start[o].kind = "restart"
     /\ held' = [held EXCEPT ![a] = start[o].token]
     /\ start' = [start EXCEPT ![o].at = "launched"]
     /\ unrecorded' = IF start[o].kept THEN unrecorded \ {a} ELSE unrecorded \cup {a}
     /\ cutOff' = IF start[o].alone THEN cutOff \ {a} ELSE cutOff \cup {a}
     /\ UNCHANGED <<recorded, hash, cache, minted, check>>

LaunchFails(o) ==
  /\ At(o, {"ready"}) /\ start' = [start EXCEPT ![o] = NoJob]
  /\ UNCHANGED <<recorded, hash, cache, held, minted, check, unrecorded, cutOff>>

\* The record is made if there is none, and saved: UpsertAgent leaves the hash.
Record(o) ==
  /\ At(o, {"launched"})
  /\ recorded' = recorded \cup {start[o].agent} /\ start' = [start EXCEPT ![o] = NoJob]
  /\ UNCHANGED <<hash, cache, held, minted, check, unrecorded, cutOff>>

-----------------------------------------------------------------------------
\* verifyAgentToken, for a post that finds the cache empty.
Look(v, a) ==
  /\ check[v] = NoJob /\ cache[a] = NoToken /\ hash[a] # NoToken
  /\ check' = [check EXCEPT ![v] = [at |-> "read", agent |-> a, hash |-> hash[a]]]
  /\ UNCHANGED <<recorded, hash, cache, held, minted, start, unrecorded, cutOff>>

\* It caches what it read, whatever was minted since.
Fill(v) ==
  LET a == check[v].agent
      late == check[v].hash # hash[a] /\ cache[a] # NoToken
  IN /\ check[v].at = "read"
     /\ cache' = [cache EXCEPT ![a] = check[v].hash]
     /\ check' = [check EXCEPT ![v] = NoJob]
     /\ cutOff' = IF late THEN cutOff \cup {a} ELSE cutOff
     /\ start' = IF late THEN Crossed(Minting(a)) ELSE start
     /\ UNCHANGED <<recorded, hash, held, minted, unrecorded>>

\* Whether a post with token t is taken for the agent's own.
Accepted(a, t) ==
  \/ t = Workspace
  \/ t = IF cache[a] # NoToken THEN cache[a] ELSE hash[a]

-----------------------------------------------------------------------------
\* Every save of the space writes the agent's row, but not the hash.
SaveAgent(a) ==
  /\ recorded' = recorded \cup {a}
  /\ UNCHANGED <<hash, cache, held, minted, start, check, unrecorded, cutOff>>

\* DELETE removes the row with its hash; the cache keeps its entry, and the
\* session is killed afterwards.
Erase(a) ==
  /\ recorded' = recorded \ {a} /\ hash' = [hash EXCEPT ![a] = NoToken]
  /\ start' = [o \in Starters |-> IF o \in Busy(a) THEN [start[o] EXCEPT !.kept = FALSE] ELSE start[o]]
  /\ cutOff' = cutOff \cup {a}
  /\ UNCHANGED <<cache, held, minted, check, unrecorded>>

\* Stop, the kill of a restart or of DELETE, or the end of the session itself.
SessionOver(a) ==
  /\ held' = [held EXCEPT ![a] = NoToken]
  /\ UNCHANGED <<recorded, hash, cache, minted, start, check, unrecorded, cutOff>>

\* Sessions and rows outlive the server.
Reboot ==
  /\ cache' = [a \in Bearers |-> NoToken]
  /\ start' = [o \in Starters |-> NoJob] /\ check' = [v \in Checks |-> NoJob]
  /\ cutOff' = cutOff \cup unrecorded
  /\ UNCHANGED <<recorded, hash, held, minted, unrecorded>>

TokensNext ==
  \/ \E o \in Starters, a \in Bearers, kind \in {"spawn", "create", "restart"} :
       Mint(o, kind, a) \/ MintFails(o, kind, a)
  \/ \E o \in Starters : Publish(o) \/ Launch(o) \/ LaunchFails(o) \/ Record(o)
  \/ \E v \in Checks, a \in Bearers : Look(v, a)
  \/ \E v \in Checks : Fill(v)
  \/ \E a \in Bearers : SaveAgent(a) \/ Erase(a) \/ SessionOver(a)
  \/ Reboot

TokensSpec == TokensInit /\ [][TokensNext]_tokenVars

-----------------------------------------------------------------------------
\* The token a session was started with is the one its agent's posts are checked
\* against, through saves, stops, restarts and reboots, until: another start
\* mints a token while the session runs (a create that then fails, a restart),
\* two starts or a late fill of the cache cross, the agent is deleted, or the
\* server reboots and the token was minted before the agent had a row.
SessionHeard ==
  \A a \in Bearers \ cutOff : held[a] # NoToken => Accepted(a, held[a])

=============================================================================
