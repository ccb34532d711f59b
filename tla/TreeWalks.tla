------------------------------ MODULE TreeWalks ------------------------------
(***************************************************************************)
(* The loops of hasCycle and collectSubtree (types.go), one iteration per  *)
(* step: the climb over all parents, with cycles, self references and      *)
(* dangling ones, the descent over the lists that rebuildChildren makes of *)
(* any parents, cyclic ones included, or that lack some agents, as stale   *)
(* ones do.  They are compared with the set definitions Chain and Subtree  *)
(* that AgentHierarchy uses for them.                                      *)
(***************************************************************************)
EXTENDS AgentHierarchy, Naturals, FiniteSets, Sequences, SequencesExt

CONSTANT
  Cap          \* subtreeCap of handleAgentMessage

ASSUME WalksAssumption == IsFiniteSet(Agents) /\ Cap \in Nat \ {0}

VARIABLES
  walk,        \* the loop that runs, and then that it has returned
  from, to,    \* the arguments; to is unused by collectSubtree
  current,     \* hasCycle: the name about to be looked at
  visited,
  queue,       \* collectSubtree
  result       \* hasCycle: a boolean; collectSubtree: a sequence

\* What a walk inspects stays as it is.
tree == <<rec, parent, children, mu, from, to>>
walkVars == <<tree, walk, current, visited, queue, result>>

InitCycle ==
  /\ walk = "cycle"
  /\ rec \in [Agents -> {"none", "live"}]
  /\ parent \in {p \in [Agents -> Agents \cup {NoAgent}] :
                   \A a \in Agents : rec[a] = "none" => p[a] = NoAgent}
  /\ children = [a \in Agents |-> {}]
  /\ to \in Agents
  /\ current = from
  /\ visited = {}
  /\ queue = <<>>
  /\ result = FALSE

InitSubtree ==
  /\ walk = "subtree"
  /\ rec = [a \in Agents |-> "live"]
  /\ parent \in [Agents -> Agents \cup {NoAgent}]
  /\ \E listed \in SUBSET Agents :
       children = [a \in Agents |-> ListsOf(rec, parent)[a] \cap listed]
  /\ to = NoAgent
  /\ current = NoAgent
  /\ visited = {from}
  /\ queue = <<from>>
  /\ result = <<>>

WalksInit ==
  /\ mu = "free"
  /\ from \in Agents
  /\ InitCycle \/ InitSubtree

-----------------------------------------------------------------------------
Return(value) ==
  /\ walk' = IF walk = "cycle" THEN "cycleDone" ELSE "subtreeDone"
  /\ result' = value
  /\ UNCHANGED <<tree, current, visited, queue>>

\* The four ways an iteration of hasCycle ends.
CycleHit == walk = "cycle" /\ current = to /\ Return(TRUE)

CycleEndsFirst ==    \* mutant: looks the record up before comparing the name
  /\ walk = "cycle"
  /\ current \in {NoAgent} \cup visited \cup {a \in Agents : rec[a] # "live"}
  /\ Return(FALSE)

CycleEnds ==
  /\ walk = "cycle"
  /\ current # to
  /\ current \in {NoAgent} \cup visited \cup {a \in Agents : rec[a] # "live"}
  /\ Return(FALSE)

CycleClimbsUnmarked ==    \* mutant: forgets where it has been
  /\ walk = "cycle"
  /\ current \notin {to, NoAgent}
  /\ rec[current] = "live"
  /\ current' = parent[current]
  /\ UNCHANGED <<tree, walk, visited, queue, result>>

CycleClimbs ==
  /\ walk = "cycle"
  /\ current \notin visited \cup {to, NoAgent}
  /\ rec[current] = "live"
  /\ visited' = visited \cup {current}
  /\ current' = parent[current]
  /\ UNCHANGED <<tree, walk, queue, result>>

TakeHeadDeep ==    \* mutant: a stack instead of a queue
  /\ walk = "subtree"
  /\ queue # <<>>
  /\ LET fresh == children[Head(queue)] \ visited
     IN  /\ visited' = visited \cup fresh
         /\ \E order \in SetToSeqs(fresh) : queue' = order \o Tail(queue)
         /\ result' = Append(result, Head(queue))
  /\ UNCHANGED <<tree, walk, current>>

\* An iteration of collectSubtree: the children not seen before join the queue
\* in the order of the list, which here is any order.
TakeHead ==
  /\ walk = "subtree"
  /\ queue # <<>>
  /\ LET fresh == children[Head(queue)] \ visited
     IN  /\ visited' = visited \cup fresh
         /\ \E order \in SetToSeqs(fresh) : queue' = Tail(queue) \o order
         /\ result' = Append(result, Head(queue))
  /\ UNCHANGED <<tree, walk, current>>

QueueEmpty ==
  /\ walk = "subtree"
  /\ queue = <<>>
  /\ Return(result)

\* The recipients of a message to the subtree: the walk, cut at the cap.
Recipients == SubSeq(result, 1, IF Len(result) > Cap THEN Cap ELSE Len(result))

WalksNext == CycleHit \/ CycleEnds \/ CycleClimbs \/ TakeHead \/ QueueEmpty

\* A goroutine inside either loop keeps running: it holds Server.mu and waits
\* for nothing.
WalksSpec == WalksInit /\ [][WalksNext]_walkVars /\ WF_walkVars(WalksNext)

-----------------------------------------------------------------------------
(* Properties.                                                             *)

\* The loop of hasCycle answers whether the agent is on the way up from the
\* proposed parent, also in a tree that already has a cycle elsewhere; and
\* collectSubtree returns every agent the lists lead to, each one once.
WalksAgree ==
  /\ walk = "cycleDone" => result = HasCycle(to, from)
  /\ walk = "subtreeDone" =>
       IsInjective(result) /\ ToSet(result) = Subtree(from)

\* Agents at most n lists away from the addressed one.
Within[n \in 0..Cardinality(Agents)] ==
  IF n = 0 THEN {from}
           ELSE Within[n - 1] \cup UNION {children[a] : a \in Within[n - 1]}

\* The cap drops the farthest agents: no one left out is nearer to the
\* addressed agent than one who gets the message.
CapKeepsNearest ==
  walk = "subtreeDone" =>
    \A n \in 0..Cardinality(Agents) :
      \A kept \in ToSet(Recipients), dropped \in ToSet(result) \ ToSet(Recipients) :
        dropped \in Within[n] => kept \in Within[n]

\* Both loops end, on every tree.
WalksEnd == <>(walk \in {"cycleDone", "subtreeDone"})

=============================================================================
