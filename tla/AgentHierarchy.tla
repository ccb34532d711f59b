--------------------------- MODULE AgentHierarchy ---------------------------
(***************************************************************************)
(* The agent tree of one space, as internal/coordinator keeps it in        *)
(* KnowledgeSpace.Agents.  Every record holds the parent its agent         *)
(* declared and a derived Children list; hasCycle guards some of the       *)
(* writes of Parent, rebuildChildren recomputes the lists, and message     *)
(* fan-out walks the lists with collectSubtree.                            *)
(*                                                                         *)
(* Each action is one critical section of Server.mu: the handlers read,    *)
(* check and write the tree under one Lock, so no step of another handler  *)
(* comes in between.  Names are taken modulo case (resolveAgentName maps   *)
(* every spelling to the stored one).  A request that is rejected without  *)
(* a write is a stuttering step.                                           *)
(***************************************************************************)

CONSTANTS
  Agents,     \* the agent names used in the space
  NoAgent     \* the empty Parent field

ASSUME NoAgentAssumption == NoAgent \notin Agents

VARIABLES
  rec,        \* rec[a]: no record, a record with Config only, or one with a Status
  parent,     \* parent[a]: Status.Parent, possibly naming an agent without record
  children,   \* children[a]: Status.Children, as a set
  mu          \* whether Server.mu can be taken, or a handler panicked holding it

vars == <<rec, parent, children, mu>>

RecordState == {"none", "config", "live"}

TypeOK ==
  /\ rec \in [Agents -> RecordState]
  /\ parent \in [Agents -> Agents \cup {NoAgent}]
  /\ children \in [Agents -> SUBSET Agents]
  /\ mu \in {"free", "panicked"}

-----------------------------------------------------------------------------
(* The three walks of types.go.                                            *)

\* rebuildChildren: every list is emptied, then each Parent field of a live
\* record is inverted; a parent without a live record gets no list.
ListsOf(r, p) ==
  [a \in Agents |-> {c \in Agents : r[a] = "live" /\ r[c] = "live" /\ p[c] = a}]

\* One step of the walk towards the root; it ends at a root and at a
\* reference to an agent that has no live record.
Up(a) == IF rec[a] = "live" /\ parent[a] # NoAgent THEN {parent[a]} ELSE {}

ClosedUp(S) == \A a \in S : Up(a) \subseteq S

\* The names hasCycle visits when it starts at p.
Chain(p) ==
  {a \in Agents : \A S \in SUBSET Agents : p \in S /\ ClosedUp(S) => a \in S}

HasCycleOneLevel(a, p) ==    \* mutant: looks no further than the parent's parent
  p # NoAgent /\ (p = a \/ parent[p] = a)

HasCycle(a, p) == p # NoAgent /\ a \in Chain(p)

ClosedDown(S) == \A a \in S : children[a] \subseteq S

\* collectSubtree: a and what its Children lists lead to.
Subtree(a) ==
  {b \in Agents : \A S \in SUBSET Agents : a \in S /\ ClosedDown(S) => b \in S}

-----------------------------------------------------------------------------
Init ==
  /\ rec = [a \in Agents |-> "none"]
  /\ parent = [a \in Agents |-> NoAgent]
  /\ children = [a \in Agents |-> {}]
  /\ mu = "free"

\* What the creating handlers do once the record exists: the field is sticky,
\* so a parent is taken only when none is set, and then the lists are rebuilt.
AdoptParent(a, p) ==
  /\ rec' = [rec EXCEPT ![a] = "live"]
  /\ IF p # NoAgent /\ parent[a] = NoAgent
       THEN /\ parent' = [parent EXCEPT ![a] = p]
            /\ children' = ListsOf(rec', parent')
       ELSE UNCHANGED <<parent, children>>
  /\ UNCHANGED mu

PostStatusNoRebuild(a, p) ==    \* mutant: a changed parent rebuilds nothing
  /\ mu = "free"
  /\ rec[a] # "config"
  /\ ~HasCycle(a, p)
  /\ rec' = [rec EXCEPT ![a] = "live"]
  /\ parent' = [parent EXCEPT ![a] = IF p = NoAgent THEN @ ELSE p]
  /\ children' = [children EXCEPT ![a] = {}]
  /\ UNCHANGED mu

PostStatusNotSticky(a, p) ==    \* mutant: an omitted parent is stored as none
  /\ mu = "free"
  /\ rec[a] # "config"
  /\ ~HasCycle(a, p)
  /\ rec' = [rec EXCEPT ![a] = "live"]
  /\ parent' = [parent EXCEPT ![a] = p]
  /\ children' = ListsOf(rec', parent')
  /\ UNCHANGED mu

\* POST /spaces/{space}/agent/{a}.  The new status starts with no Children; an
\* omitted parent keeps the old one; the lists are rebuilt only when the
\* parent differs from the stored one.
PostStatus(a, p) ==
  /\ mu = "free"
  /\ rec[a] # "config"
  /\ ~HasCycle(a, p)
  /\ rec' = [rec EXCEPT ![a] = "live"]
  /\ parent' = [parent EXCEPT ![a] = IF p = NoAgent THEN @ ELSE p]
  /\ children' = IF parent'[a] # parent[a]
                   THEN ListsOf(rec', parent')
                   ELSE [children EXCEPT ![a] = {}]
  /\ UNCHANGED mu

\* The same handler when the record has no Status: the merge with the existing
\* status dereferences nil between Lock and Unlock.
PostStatusPanics(a, p) ==
  /\ mu = "free"
  /\ rec[a] = "config"
  /\ ~HasCycle(a, p)
  /\ mu' = "panicked"
  /\ UNCHANGED <<rec, parent, children>>

\* The MCP tool post_status: the same merge, and it offers no parent argument.
McpPostStatus(a) == PostStatus(a, NoAgent)

McpPostStatusPanics(a) == PostStatusPanics(a, NoAgent)

RegisterAppends(a, p) ==    \* mutant: adds to the new list, forgets the old one
  /\ mu = "free"
  /\ ~HasCycle(a, p)
  /\ rec' = [rec EXCEPT ![a] = "live"]
  /\ IF p # NoAgent
       THEN /\ parent' = [parent EXCEPT ![a] = p]
            /\ children' = [children EXCEPT ![p] = @ \cup {a}]
       ELSE UNCHANGED <<parent, children>>
  /\ UNCHANGED mu

\* POST .../agent/{a}/register.  The record is created first; then a parent
\* overwrites the stored one unless it closes a cycle.
Register(a, p) ==
  /\ mu = "free"
  /\ ~HasCycle(a, p)
  /\ rec' = [rec EXCEPT ![a] = "live"]
  /\ IF p # NoAgent
       THEN /\ parent' = [parent EXCEPT ![a] = p]
            /\ children' = ListsOf(rec', parent')
       ELSE UNCHANGED <<parent, children>>
  /\ UNCHANGED mu

\* The same handler rejecting a parent: the record it created stays.
RegisterRejected(a, p) ==
  /\ mu = "free"
  /\ HasCycle(a, p)
  /\ rec' = [rec EXCEPT ![a] = "live"]
  /\ UNCHANGED <<parent, children, mu>>

\* GET .../ignition/{a}?session_id=&parent=: guarded, and checked before any write.
Ignite(a, p) ==
  /\ mu = "free"
  /\ p # a
  /\ ~HasCycle(a, p)
  /\ AdoptParent(a, p)

\* POST .../agents: the requested parent is adopted without a check.
CreateAgent(a, p) ==
  /\ mu = "free"
  /\ AdoptParent(a, p)

\* Spawning, by POST .../spawn or by the MCP tool: the spawner becomes the
\* parent, again without a check other than that it is not the agent itself.
Spawn(a, spawner) ==
  /\ mu = "free"
  /\ AdoptParent(a, IF spawner = a THEN NoAgent ELSE spawner)

\* POST .../agent/{src}/duplicate with new_name a.  No lists are rebuilt.
Duplicate(a) ==
  /\ mu = "free"
  /\ rec[a] = "none"
  /\ rec' = [rec EXCEPT ![a] = "live"]
  /\ UNCHANGED <<parent, children, mu>>

\* PATCH .../agent/{a}/config makes a record without a Status when none exists.
PatchConfig(a) ==
  /\ mu = "free"
  /\ rec[a] = "none"
  /\ rec' = [rec EXCEPT ![a] = "config"]
  /\ UNCHANGED <<parent, children, mu>>

\* A message to a name without a status makes a stub for it.  Fan-out over a
\* subtree makes at most this one: listed children have a status.
DeliverStub(a) ==
  /\ mu = "free"
  /\ rec[a] # "live"
  /\ rec' = [rec EXCEPT ![a] = "live"]
  /\ UNCHANGED <<parent, children, mu>>

DeleteAgentNoRebuild(a) ==    \* mutant: leaves the name in its parent's list
  /\ mu = "free"
  /\ rec' = [rec EXCEPT ![a] = "none"]
  /\ parent' = [b \in Agents |->
                  IF b = a \/ parent[b] = a THEN NoAgent ELSE parent[b]]
  /\ children' = [children EXCEPT ![a] = {}]
  /\ UNCHANGED mu

\* DELETE .../agent/{a}: references to the name are cleared, even when it has
\* no record, and the lists are rebuilt.
DeleteAgent(a) ==
  /\ mu = "free"
  /\ rec' = [rec EXCEPT ![a] = "none"]
  /\ parent' = [b \in Agents |->
                  IF b = a \/ parent[b] = a THEN NoAgent ELSE parent[b]]
  /\ children' = ListsOf(rec', parent')
  /\ UNCHANGED mu

-----------------------------------------------------------------------------
\* The steps that leave the parents alone or ask hasCycle first.
GuardedNext ==
  \E a \in Agents :
    \/ \E p \in Agents \cup {NoAgent} :
         \/ PostStatus(a, p)
         \/ PostStatusPanics(a, p)
         \/ Register(a, p)
         \/ RegisterRejected(a, p)
         \/ Ignite(a, p)
    \/ McpPostStatus(a)
    \/ McpPostStatusPanics(a)
    \/ Duplicate(a)
    \/ PatchConfig(a)
    \/ DeliverStub(a)
    \/ DeleteAgent(a)

\* The two that set a parent without asking.
UnguardedNext ==
  \E a \in Agents, p \in Agents \cup {NoAgent} :
    \/ CreateAgent(a, p)
    \/ Spawn(a, p)

Next == GuardedNext \/ UnguardedNext

Spec == Init /\ [][Next]_vars

\* A space whose agents join by status, registration and ignition only.
GuardedSpec == Init /\ [][GuardedNext]_vars

-----------------------------------------------------------------------------
(* Properties.                                                             *)

\* A Children list names only agents that declare this parent: a list is
\* never left over from a parent an agent has since changed or from an agent
\* that was deleted, although most handlers do not rebuild the lists.
ChildrenSound ==
  \A a \in Agents : children[a] \subseteq ListsOf(rec, parent)[a]

\* A name without a status has neither a parent nor children.
BlankUnlessLive ==
  \A a \in Agents :
    rec[a] # "live" => parent[a] = NoAgent /\ children[a] = {}

\* The inductive invariant behind the two properties above and below.
TreeInv == TypeOK /\ BlankUnlessLive /\ ChildrenSound

\* Fan-out with scope=subtree reaches nobody outside the subtree: whoever
\* collectSubtree returns has the addressed agent above it.
FanoutSound ==
  \A a \in Agents : \A b \in Subtree(a) : a \in Chain(b)

\* The parent relation has no cycle: every non-empty set of agents has one
\* whose parent is outside the set.
Acyclic ==
  \A S \in SUBSET Agents : S # {} => \E a \in S : parent[a] \notin S

\* A post, a registration or an ignition never closes a cycle, nor does any
\* other step that does not set a parent unasked (handlers_agent.go:121,
\* 738, protocol.go:101).
GuardsKeepForest == [][Acyclic /\ ~Acyclic' => ~GuardedNext]_vars

\* Children is exactly the inverse of Parent.
ChildrenCurrent == children = ListsOf(rec, parent)

\* A step that changes any parent leaves every list exact, so what earlier
\* posts dropped from the lists is repaired by the next reparenting.
ReparentRepairs == [][parent' # parent => ChildrenCurrent']_vars

\* Parent is sticky: an agent that stays loses its parent only in the step
\* that deletes that name from the space.
ParentSticky ==
  [][\A a \in Agents :
       parent[a] # NoAgent /\ rec'[a] # "none" /\ parent'[a] = NoAgent
         => rec'[parent[a]] = "none"]_vars

\* No handler gives up Server.mu without unlocking it.
MutexReleased == mu = "free"

=============================================================================
