------------------------ MODULE AgentHierarchyProofs ------------------------
(***************************************************************************)
(* Theorems about the agent tree, for every set of agent names.  TreeInv   *)
(* is inductive for all handlers, guarded or not; from it follow the       *)
(* soundness of the Children lists and of fan-out.  Acyclic is inductive   *)
(* together with TreeInv for the handlers that ask hasCycle.  The loops of *)
(* the walks compute what AgentHierarchy takes them to, and the import of  *)
(* a fleet file gives it the tree that the file describes.                 *)
(***************************************************************************)
EXTENDS TreeWalks, Fleet, FiniteSetTheorems, SequenceTheorems, TLAPS

(* The lists rebuildChildren computes are typed.                           *)
LEMMA ListsType ==
  ASSUME NEW r, NEW p
  PROVE  ListsOf(r, p) \in [Agents -> SUBSET Agents]
BY DEF ListsOf

(* The initial space satisfies the inductive invariant.                    *)
LEMMA InitTreeInv == Init => TreeInv
BY DEF Init, TreeInv, TypeOK, RecordState, BlankUnlessLive, ChildrenSound, ListsOf

(* The helper of ignition, creation and spawning preserves it.             *)
LEMMA AdoptParentTreeInv ==
  ASSUME TreeInv, NEW a \in Agents, NEW p \in Agents \cup {NoAgent},
         AdoptParent(a, p)
  PROVE  TreeInv'
BY ListsType
   DEF TreeInv, TypeOK, RecordState, BlankUnlessLive, ChildrenSound, ListsOf, AdoptParent

(* Every handler preserves the inductive invariant.                        *)
LEMMA NextTreeInv ==
  ASSUME TreeInv, [Next]_vars
  PROVE  TreeInv'
<1> USE ListsType DEF TreeInv, TypeOK, RecordState, BlankUnlessLive, ChildrenSound, ListsOf
<1>1. ASSUME NEW a \in Agents, NEW p \in Agents \cup {NoAgent}, PostStatus(a, p)
      PROVE  TreeInv'
  <2>1. CASE parent'[a] # parent[a]
    BY <1>1, <2>1 DEF PostStatus
  <2>2. CASE parent'[a] = parent[a]
    BY <1>1, <2>2 DEF PostStatus
  <2>3. QED
    BY <2>1, <2>2
<1>2. ASSUME NEW a \in Agents, NEW p \in Agents \cup {NoAgent}, PostStatusPanics(a, p)
      PROVE  TreeInv'
  BY <1>2 DEF PostStatusPanics
<1>3. ASSUME NEW a \in Agents, NEW p \in Agents \cup {NoAgent}, Register(a, p)
      PROVE  TreeInv'
  BY <1>3 DEF Register
<1>4. ASSUME NEW a \in Agents, NEW p \in Agents \cup {NoAgent}, RegisterRejected(a, p)
      PROVE  TreeInv'
  BY <1>4 DEF RegisterRejected
<1>5. ASSUME NEW a \in Agents, NEW p \in Agents \cup {NoAgent}, Ignite(a, p)
      PROVE  TreeInv'
  BY <1>5, AdoptParentTreeInv DEF Ignite
<1>6. ASSUME NEW a \in Agents, NEW p \in Agents \cup {NoAgent}, CreateAgent(a, p)
      PROVE  TreeInv'
  BY <1>6, AdoptParentTreeInv DEF CreateAgent
<1>7. ASSUME NEW a \in Agents, NEW p \in Agents \cup {NoAgent}, Spawn(a, p)
      PROVE  TreeInv'
  BY <1>7, AdoptParentTreeInv DEF Spawn
<1>8. ASSUME NEW a \in Agents, Duplicate(a) \/ PatchConfig(a) \/ DeliverStub(a)
      PROVE  TreeInv'
  BY <1>8 DEF Duplicate, PatchConfig, DeliverStub
<1>9. ASSUME NEW a \in Agents, DeleteAgent(a)
      PROVE  TreeInv'
  BY <1>9 DEF DeleteAgent
<1>10. CASE UNCHANGED vars
  BY <1>10 DEF vars
<1>11. QED
  BY <1>1, <1>2, <1>3, <1>4, <1>5, <1>6, <1>7, <1>8, <1>9, <1>10
     DEF Next, GuardedNext, UnguardedNext, McpPostStatus, McpPostStatusPanics

(* The inductive invariant holds throughout, whichever handlers run.       *)
THEOREM TreeInvariant == Spec => []TreeInv
BY InitTreeInv, NextTreeInv, PTL DEF Spec

(* Type correctness of the tree.                                           *)
THEOREM TypeCorrect == Spec => []TypeOK
<1>1. TreeInv => TypeOK
  BY DEF TreeInv
<1>2. QED
  BY <1>1, TreeInvariant, PTL

(* No Children list is ever stale, although few handlers rebuild them.     *)
THEOREM ChildrenAreSound == Spec => []ChildrenSound
<1>1. TreeInv => ChildrenSound
  BY DEF TreeInv
<1>2. QED
  BY <1>1, TreeInvariant, PTL

-----------------------------------------------------------------------------
(* Facts about the two walks.                                              *)

(* The walk of hasCycle visits its start and follows every Up step.        *)
LEMMA ChainFacts ==
  ASSUME NEW p \in Agents, TypeOK
  PROVE  p \in Chain(p) /\ ClosedUp(Chain(p))
BY DEF Chain, ClosedUp, Up, TypeOK

(* collectSubtree returns a subset of any closed set holding its start.    *)
LEMMA SubtreeLeast ==
  ASSUME NEW a \in Agents, NEW S \in SUBSET Agents, a \in S, ClosedDown(S)
  PROVE  Subtree(a) \subseteq S
BY DEF Subtree

(* Sound lists keep fan-out inside the subtree: the agents that have a in  *)
(* their chain contain a and are closed under the lists.                   *)
LEMMA SoundFanout == TreeInv => FanoutSound
<1> SUFFICES ASSUME TreeInv, NEW a \in Agents
             PROVE  \A b \in Subtree(a) : a \in Chain(b)
  BY DEF FanoutSound
<1> DEFINE Below == {b \in Agents : a \in Chain(b)}
<1>1. a \in Below
  BY ChainFacts DEF TreeInv
<1>2. ASSUME NEW b \in Below, NEW c \in children[b]
      PROVE  c \in Below
  <2>1. c \in Agents /\ Up(c) = {b}
    BY NoAgentAssumption DEF TreeInv, TypeOK, ChildrenSound, ListsOf, Up
  <2>2. ASSUME NEW S \in SUBSET Agents, c \in S, ClosedUp(S)
        PROVE  a \in S
    <3>1. b \in S
      BY <2>1, <2>2 DEF ClosedUp
    <3>2. QED
      BY <2>2, <3>1 DEF Chain
  <2>3. QED
    BY <2>1, <2>2 DEF Chain
<1>3. ClosedDown(Below)
  BY <1>2 DEF ClosedDown
<1>4. QED
  BY <1>1, <1>3, SubtreeLeast

(* A message to a subtree reaches nobody outside it.                       *)
THEOREM FanoutStaysInside == Spec => []FanoutSound
BY TreeInvariant, SoundFanout, PTL

-----------------------------------------------------------------------------
(* The cycle guard.                                                        *)

(* Dropping parents, or leaving them alone, makes no cycle.                *)
LEMMA DropKeepsAcyclic ==
  ASSUME TypeOK, Acyclic,
         \A b \in Agents : parent'[b] = parent[b] \/ parent'[b] = NoAgent
  PROVE  Acyclic'
<1> SUFFICES ASSUME NEW S \in SUBSET Agents, S # {}
             PROVE  \E b \in S : parent'[b] \notin S
  BY DEF Acyclic
<1>1. PICK b \in S : parent[b] \notin S
  BY DEF Acyclic
<1>2. parent'[b] \notin S
  BY <1>1, NoAgentAssumption
<1>3. QED
  BY <1>2

(* A parent hasCycle accepts makes no cycle: a set closed under the new    *)
(* parents would meet the chain of p in a set closed under the old ones.   *)
LEMMA GuardKeepsAcyclic ==
  ASSUME TreeInv, Acyclic, NEW a \in Agents, NEW p \in Agents,
         ~HasCycle(a, p), parent' = [parent EXCEPT ![a] = p]
  PROVE  Acyclic'
<1> SUFFICES ASSUME NEW S \in SUBSET Agents, S # {},
                    \A b \in S : parent'[b] \in S
             PROVE  FALSE
  BY DEF Acyclic
<1> DEFINE C == S \cap Chain(p)
<1>1. a \notin Chain(p) /\ p \in Chain(p) /\ ClosedUp(Chain(p))
  BY ChainFacts, NoAgentAssumption DEF HasCycle, TreeInv
<1>2. CASE a \notin S
  <2>1. \A b \in S : parent'[b] = parent[b]
    BY <1>2 DEF TreeInv, TypeOK
  <2>2. QED
    BY <2>1 DEF Acyclic
<1>3. CASE a \in S
  <2>1. p \in C
    BY <1>1, <1>3 DEF TreeInv, TypeOK
  <2>2. ASSUME NEW b \in C
        PROVE  parent[b] \in C
    <3>1. parent[b] = parent'[b]
      BY <1>1 DEF TreeInv, TypeOK
    <3>2. parent[b] \in S
      BY <3>1
    <3>3. parent[b] \in Up(b)
      BY <3>2, NoAgentAssumption DEF Up, TreeInv, BlankUnlessLive
    <3>4. QED
      BY <1>1, <3>2, <3>3 DEF ClosedUp
  <2>3. C \in SUBSET Agents /\ C # {}
    BY <2>1
  <2>4. QED
    BY <2>2, <2>3 DEF Acyclic
<1>4. QED
  BY <1>2, <1>3

(* Every handler that asks hasCycle, or sets no parent, keeps the forest.  *)
LEMMA GuardedNextAcyclic ==
  ASSUME TreeInv, Acyclic, [GuardedNext]_vars
  PROVE  Acyclic'
<1>1. ASSUME NEW a \in Agents, NEW p \in Agents \cup {NoAgent},
             PostStatus(a, p) \/ Register(a, p) \/ Ignite(a, p)
      PROVE  Acyclic'
  <2>1. ~HasCycle(a, p)
    BY <1>1 DEF PostStatus, Register, Ignite
  <2>2. parent' = parent \/ (p \in Agents /\ parent' = [parent EXCEPT ![a] = p])
    BY <1>1 DEF PostStatus, Register, Ignite, AdoptParent, TreeInv, TypeOK
  <2>3. QED
    BY <2>1, <2>2, GuardKeepsAcyclic, DropKeepsAcyclic DEF TreeInv
<1>2. ASSUME NEW a \in Agents, DeleteAgent(a)
      PROVE  Acyclic'
  <2>1. \A b \in Agents : parent'[b] = parent[b] \/ parent'[b] = NoAgent
    BY <1>2 DEF DeleteAgent
  <2>2. QED
    BY <2>1, DropKeepsAcyclic DEF TreeInv
<1>3. CASE UNCHANGED parent
  BY <1>3 DEF Acyclic
<1>4. QED
  <2>1. \/ UNCHANGED parent
        \/ \E a \in Agents : DeleteAgent(a)
        \/ \E a \in Agents, p \in Agents \cup {NoAgent} :
             PostStatus(a, p) \/ Register(a, p) \/ Ignite(a, p)
    BY DEF GuardedNext, vars, PostStatusPanics, RegisterRejected, McpPostStatus,
           McpPostStatusPanics, Duplicate, PatchConfig, DeliverStub
  <2>2. QED
    BY <1>1, <1>2, <1>3, <2>1

(* While agents join by status, registration and ignition, the hierarchy   *)
(* stays a forest.                                                         *)
THEOREM GuardedAcyclic == GuardedSpec => []Acyclic
<1>1. Init => TreeInv /\ Acyclic
  <2>1. Init => Acyclic
    BY NoAgentAssumption DEF Init, Acyclic
  <2>2. QED
    BY <2>1, InitTreeInv
<1>2. TreeInv /\ Acyclic /\ [GuardedNext]_vars => (TreeInv /\ Acyclic)'
  BY NextTreeInv, GuardedNextAcyclic DEF Next
<1>3. QED
  BY <1>1, <1>2, PTL DEF GuardedSpec

-----------------------------------------------------------------------------
(* Action properties.                                                      *)

(* In any space, only a create or a spawn can close a cycle.               *)
THEOREM GuardsKeepTheForest == Spec => GuardsKeepForest
<1>1. TreeInv /\ [Next]_vars => [Acyclic /\ ~Acyclic' => ~GuardedNext]_vars
  BY GuardedNextAcyclic
<1>2. QED
  BY <1>1, TreeInvariant, PTL DEF Spec, GuardsKeepForest

(* The step that changes a parent, whichever handler takes it, leaves      *)
(* every Children list exact.                                              *)
THEOREM ReparentingRepairs == Spec => ReparentRepairs
<1>1. TreeInv /\ [Next]_vars => [parent' # parent => ChildrenCurrent']_vars
  <2> SUFFICES ASSUME TreeInv, Next, parent' # parent
               PROVE  ChildrenCurrent'
    OBVIOUS
  <2>1. ASSUME NEW a \in Agents, NEW p \in Agents \cup {NoAgent}, PostStatus(a, p)
        PROVE  ChildrenCurrent'
    BY <2>1 DEF PostStatus, ChildrenCurrent, TreeInv, TypeOK
  <2>2. ASSUME NEW a \in Agents, NEW p \in Agents \cup {NoAgent},
               Register(a, p) \/ Ignite(a, p) \/ CreateAgent(a, p) \/ Spawn(a, p)
        PROVE  ChildrenCurrent'
    BY <2>2 DEF Register, Ignite, CreateAgent, Spawn, AdoptParent, ChildrenCurrent
  <2>3. ASSUME NEW a \in Agents, DeleteAgent(a)
        PROVE  ChildrenCurrent'
    BY <2>3 DEF DeleteAgent, ChildrenCurrent
  <2>4. QED
    BY <2>1, <2>2, <2>3
       DEF Next, GuardedNext, UnguardedNext, PostStatusPanics, RegisterRejected,
           McpPostStatus, McpPostStatusPanics, Duplicate, PatchConfig, DeliverStub
<1>2. QED
  BY <1>1, TreeInvariant, PTL DEF Spec, ReparentRepairs

(* An agent loses its parent only together with the parent.                *)
THEOREM ParentIsSticky == Spec => ParentSticky
<1> DEFINE Lost(a) == parent[a] # NoAgent /\ rec'[a] # "none" /\ parent'[a] = NoAgent
<1>1. TreeInv /\ [Next]_vars
        => [\A a \in Agents : Lost(a) => rec'[parent[a]] = "none"]_vars
  <2> SUFFICES ASSUME TreeInv, Next, NEW b \in Agents, Lost(b)
               PROVE  rec'[parent[b]] = "none"
    OBVIOUS
  <2>1. ASSUME NEW a \in Agents, NEW p \in Agents \cup {NoAgent},
               \/ PostStatus(a, p) \/ Register(a, p) \/ Ignite(a, p)
               \/ CreateAgent(a, p) \/ Spawn(a, p)
        PROVE  FALSE
    BY <2>1, NoAgentAssumption
       DEF PostStatus, Register, Ignite, CreateAgent, Spawn, AdoptParent, TreeInv, TypeOK
  <2>2. ASSUME NEW a \in Agents, DeleteAgent(a)
        PROVE  rec'[parent[b]] = "none"
    <3>1. parent[b] = a
      BY <2>2 DEF DeleteAgent, TreeInv, TypeOK, RecordState
    <3>2. QED
      BY <2>2, <3>1 DEF DeleteAgent, TreeInv, TypeOK
  <2>3. QED
    BY <2>1, <2>2
       DEF Next, GuardedNext, UnguardedNext, PostStatusPanics, RegisterRejected,
           McpPostStatus, McpPostStatusPanics, Duplicate, PatchConfig, DeliverStub
<1>2. QED
  BY <1>1, TreeInvariant, PTL DEF Spec, ParentSticky

-----------------------------------------------------------------------------
(* The loops of the walks.                                                 *)

\* hasCycle: what it has visited leads to where it is about to look, is on the
\* way up, and is not the agent it looks for.
CycleInv ==
  walk = "cycle" =>
    /\ to \in Agents \ visited /\ from \in visited \cup {current}
    /\ \A a \in visited : Up(a) \subseteq visited \cup {current}
    /\ visited \cup ({current} \ {NoAgent}) \subseteq Chain(from)

\* collectSubtree: the agents it has found, in the order it found them.
Found == result \o queue

\* They are the visited ones, each once, and the lists of those it has taken from
\* the queue lead to no others.
FoundInv ==
  /\ result \in Seq(Agents) /\ queue \in Seq(Agents)
  /\ IsInjective(Found) /\ visited = ToSet(Found)
  /\ from \in visited /\ visited \subseteq Subtree(from)
  /\ \A a \in ToSet(result) : children[a] \subseteq visited

Dist == 0 .. Cardinality(Agents)

\* Nobody was found before an agent that is nearer.
NearestFirst ==
  \A n \in Dist : \A i, j \in DOMAIN Found :
    i <= j /\ Found[j] \in Within[n] => Found[i] \in Within[n]

\* Those in the queue are at most one list farther than its head.
OneListAhead ==
  \A n \in Dist \ {0} :
    queue # <<>> /\ Head(queue) \in Within[n - 1] => ToSet(Found) \subseteq Within[n]

SubtreeInv ==
  walk \in {"subtree", "subtreeDone"} =>
    FoundInv /\ NearestFirst /\ (walk = "subtree" => OneListAhead)

\* The inductive invariant of the walks.
WalksInv ==
  /\ TypeOK /\ from \in Agents /\ visited \subseteq Agents /\ current \in Agents \cup {NoAgent}
  /\ walk \in {"cycle", "cycleDone", "subtree", "subtreeDone"}
  /\ CycleInv /\ SubtreeInv /\ WalksAgree
  /\ walk = "subtreeDone" => queue = <<>>

LEMMA LeastNumber ==
  ASSUME NEW T \in SUBSET Nat, T # {}
  PROVE  \E n \in T : \A k \in T : n <= k
<1> DEFINE R == {p \in Nat \X Nat : p[1] < p[2]}
<1>1. IsWellFoundedOn(R, Nat)
  BY NatLessThanWellFounded DEF OpToRel
<1>2. \A n, k \in T : <<k, n>> \notin R => n <= k
  OBVIOUS
<1> HIDE DEF R
<1>3. \E n \in T : \A k \in T : <<k, n>> \notin R
  BY <1>1, WFMin
<1>4. QED
  BY <1>2, <1>3

\* The distances are computed one from the other.
LEMMA WithinSteps ==
  /\ 0 \in Dist /\ Within[0] = {from}
  /\ \A n \in Dist \ {0} :
       /\ n - 1 \in Dist
       /\ Within[n] = Within[n - 1] \cup UNION {children[a] : a \in Within[n - 1]}
<1> DEFINE Layer(g, n) == IF n = 0 THEN {from} ELSE g[n - 1] \cup UNION {children[a] : a \in g[n - 1]}
           Upto(g, k) == g = [n \in 0 .. k |-> Layer(g, n)]
<1>1. Cardinality(Agents) \in Nat
  BY WalksAssumption, FS_CardinalityType
<1>2. \A k \in Nat : \E g : Upto(g, k)
  <2> DEFINE T == {k \in Nat : ~ \E g : Upto(g, k)}
  <2> SUFFICES ASSUME T # {} PROVE FALSE
    OBVIOUS
  <2>1. PICK k \in T : \A j \in T : k <= j
    <3> HIDE DEF Upto
    <3> QED
      BY LeastNumber
  <2>2. k # 0
    <3> DEFINE h == [n \in 0 .. 0 |-> {from}]
    <3>1. Upto(h, 0)
      OBVIOUS
    <3> QED
      BY <3>1
  <2>3. k \in Nat /\ k - 1 \in Nat /\ k - 1 \notin T
    <3> HIDE DEF Upto
    <3> QED
      BY <2>1, <2>2
  <2>4. PICK f : Upto(f, k - 1)
    BY <2>3
  <2> DEFINE h == [n \in 0 .. k |-> Layer(f, n)]
  <2>5. \A n \in 0 .. k : n # 0 => h[n - 1] = f[n - 1]
    <3> SUFFICES ASSUME NEW n \in 0 .. k, n # 0 PROVE h[n - 1] = f[n - 1]
      OBVIOUS
    <3>1. n - 1 \in 0 .. k /\ n - 1 \in 0 .. k - 1
      BY <2>3
    <3>2. h[n - 1] = Layer(f, n - 1) /\ f[n - 1] = Layer(f, n - 1)
      <4> HIDE DEF Layer
      <4> QED
        BY <2>4, <3>1
    <3> QED
      BY <3>2
  <2>6. \A n \in 0 .. k : Layer(h, n) = Layer(f, n)
    <3> HIDE DEF h
    <3> QED
      BY <2>5
  <2>7. Upto(h, k)
    <3> HIDE DEF Layer
    <3> QED
      BY <2>6
  <2> QED
    BY <2>1, <2>7
<1>3. Upto(Within, Cardinality(Agents))
  <2>1. PICK f : Upto(f, Cardinality(Agents))
    BY <1>1, <1>2
  <2>2. Within = CHOOSE h : Upto(h, Cardinality(Agents))
    BY DEF Within
  <2> HIDE DEF Upto
  <2> QED
    BY <2>1, <2>2
<1>4. \A n \in Dist : Within[n] = Layer(Within, n)
  <2> HIDE DEF Layer
  <2> QED
    BY <1>3 DEF Dist
<1>5. 0 \in Dist /\ \A n \in Dist \ {0} : n - 1 \in Dist
  BY <1>1 DEF Dist
<1> QED
  BY <1>4, <1>5

\* The walks leave what they inspect alone.
LEMMA TreeStays ==
  ASSUME UNCHANGED tree
  PROVE  /\ TypeOK' = TypeOK /\ \A a : Up(a)' = Up(a)
         /\ Chain(from)' = Chain(from) /\ HasCycle(to, from)' = HasCycle(to, from)
         /\ Subtree(from)' = Subtree(from) /\ Within' = Within
<1>1. UNCHANGED <<rec, parent, children, mu, from, to>>
  BY DEF tree
<1>2. TypeOK' = TypeOK
  BY <1>1 DEF TypeOK
<1>3. \A a : Up(a)' = Up(a)
  BY <1>1 DEF Up
<1>4. Chain(from)' = Chain(from)
  BY <1>1 DEF Chain, ClosedUp, Up
<1>5. HasCycle(to, from)' = HasCycle(to, from)
  BY <1>1, <1>4 DEF HasCycle
<1>6. Subtree(from)' = Subtree(from)
  BY <1>1 DEF Subtree, ClosedDown
<1>7. Within' = Within
  BY <1>1 DEF Within
<1> QED
  BY <1>2, <1>3, <1>4, <1>5, <1>6, <1>7

LEMMA InitWalks == WalksInit => WalksInv
<1> SUFFICES ASSUME WalksInit PROVE WalksInv
  OBVIOUS
<1>1. CASE InitCycle
  BY <1>1, NoAgentAssumption, ChainFacts
     DEF WalksInit, InitCycle, WalksInv, TypeOK, RecordState, CycleInv, SubtreeInv, WalksAgree
<1>2. CASE InitSubtree
  <2>1. /\ TypeOK /\ from \in Agents /\ visited = {from} /\ queue = <<from>> /\ result = <<>>
        /\ walk = "subtree" /\ current = NoAgent
    BY <1>2 DEF WalksInit, InitSubtree, TypeOK, RecordState
  <2>2. /\ result \in Seq(Agents) /\ queue \in Seq(Agents) /\ queue # <<>> /\ Head(queue) = from
        /\ Found = <<from>>
    BY <2>1 DEF Found
  <2>3. DOMAIN Found = {1} /\ Found[1] = from /\ ToSet(result) = {} /\ ToSet(Found) = {from}
    BY <2>1, <2>2 DEF ToSet
  <2>4. FoundInv
    BY <2>1, <2>2, <2>3 DEF FoundInv, IsInjective, Subtree
  <2>5. NearestFirst
    BY <2>3 DEF NearestFirst
  <2>6. OneListAhead
    BY <2>2, <2>3, WithinSteps DEF OneListAhead
  <2> QED
    BY <2>1, <2>4, <2>5, <2>6 DEF WalksInv, CycleInv, SubtreeInv, WalksAgree
<1> QED
  BY <1>1, <1>2 DEF WalksInit

\* Before hasCycle returns, what it has visited leads nowhere else.
LEMMA CycleSteps ==
  ASSUME WalksInv, CycleHit \/ CycleEnds \/ CycleClimbs
  PROVE  WalksInv'
<1>1. UNCHANGED <<tree, queue>> /\ walk = "cycle" /\ to \in Agents
  BY DEF CycleHit, CycleEnds, CycleClimbs, Return, WalksInv, CycleInv
<1>2. /\ TypeOK' = TypeOK /\ \A a : Up(a)' = Up(a)
      /\ Chain(from)' = Chain(from) /\ HasCycle(to, from)' = HasCycle(to, from)
  BY <1>1, TreeStays
<1>3. /\ TypeOK /\ from \in Agents /\ visited \subseteq Agents /\ current \in Agents \cup {NoAgent}
      /\ to \in Agents \ visited /\ from \in visited \cup {current}
      /\ \A a \in visited : Up(a) \subseteq visited \cup {current}
      /\ visited \cup ({current} \ {NoAgent}) \subseteq Chain(from)
      /\ from # NoAgent
  BY <1>1, NoAgentAssumption DEF WalksInv, CycleInv
<1>4. from' = from /\ to' = to
  BY <1>1 DEF tree
<1>5. ASSUME NEW answer, answer = HasCycle(to, from), Return(answer) PROVE WalksInv'
  BY <1>1, <1>2, <1>3, <1>4, <1>5 DEF Return, WalksInv, CycleInv, SubtreeInv, WalksAgree
<1>6. CASE CycleHit
  <2>1. HasCycle(to, from) = TRUE
    BY <1>1, <1>3, <1>6, NoAgentAssumption DEF CycleHit, HasCycle
  <2> QED
    BY <1>5, <1>6, <2>1 DEF CycleHit
<1>7. CASE CycleEnds
  <2> DEFINE S == visited \cup ({current} \ {NoAgent})
  <2>1. S \in SUBSET Agents /\ from \in S /\ to \notin S
    BY <1>3, <1>7 DEF CycleEnds
  <2>2. \A a \in S : Up(a) \subseteq S
    <3>1. \A a \in Agents : Up(a) \subseteq Agents
      BY <1>3 DEF Up, TypeOK
    <3>2. \A a \in visited : Up(a) \subseteq S
      BY <1>3, <3>1, NoAgentAssumption
    <3>3. current \in visited \/ Up(current) = {} \/ current = NoAgent
      BY <1>7 DEF CycleEnds, Up
    <3> QED
      BY <3>2, <3>3
  <2>3. to \notin Chain(from)
    BY <2>1, <2>2 DEF Chain, ClosedUp
  <2>4. HasCycle(to, from) = FALSE
    BY <2>3 DEF HasCycle
  <2> QED
    BY <1>5, <1>7, <2>4 DEF CycleEnds
<1>8. CASE CycleClimbs
  <2>1. /\ current \in Agents \ visited /\ current # to /\ rec[current] = "live"
        /\ visited' = visited \cup {current} /\ current' = parent[current]
        /\ UNCHANGED <<tree, walk, queue, result>>
    BY <1>3, <1>8 DEF CycleClimbs
  <2>2. current' \in Agents \cup {NoAgent} /\ Up(current) = {current'} \ {NoAgent}
    BY <1>3, <2>1 DEF TypeOK, Up
  <2>3. current \in Chain(from) /\ Up(current) \subseteq Chain(from)
    BY <1>3, <2>1, NoAgentAssumption, ChainFacts DEF ClosedUp
  <2>4. CycleInv'
    BY <1>2, <1>3, <1>4, <2>1, <2>2, <2>3 DEF CycleInv
  <2> QED
    BY <1>1, <1>2, <1>3, <1>4, <2>1, <2>2, <2>4 DEF WalksInv, SubtreeInv, WalksAgree
<1> QED
  BY <1>6, <1>7, <1>8

\* When the queue is empty, every list leads back into what was found.
LEMMA EmptyStep == ASSUME WalksInv, QueueEmpty PROVE WalksInv'
<1>1. /\ UNCHANGED <<tree, current, visited, queue>> /\ walk = "subtree" /\ queue = <<>>
      /\ walk' = "subtreeDone" /\ result' = result
  BY DEF QueueEmpty, Return
<1>2. TypeOK' = TypeOK /\ Subtree(from)' = Subtree(from) /\ Within' = Within
  BY <1>1, TreeStays
<1>3. from' = from /\ children' = children
  BY <1>1 DEF tree
<1>4. FoundInv /\ NearestFirst
  BY <1>1 DEF WalksInv, SubtreeInv
<1>5. Found = result /\ Found' = Found
  BY <1>1, <1>4, ConcatEmptySeq DEF Found, FoundInv
<1>6. FoundInv'
  BY <1>1, <1>2, <1>3, <1>4, <1>5 DEF FoundInv
<1>7. NearestFirst'
  <2> HIDE DEF Found
  <2> QED
    BY <1>2, <1>4, <1>5 DEF NearestFirst, Dist
<1>8. ToSet(result) = Subtree(from) /\ IsInjective(result)
  <2>1. visited = ToSet(result) /\ ClosedDown(visited) /\ visited \in SUBSET Agents
    BY <1>4, <1>5 DEF FoundInv, ClosedDown, WalksInv
  <2>2. Subtree(from) \subseteq visited
    BY <1>4, <2>1, SubtreeLeast DEF FoundInv, WalksInv
  <2> QED
    BY <1>4, <1>5, <2>1, <2>2 DEF FoundInv
<1> QED
  BY <1>1, <1>2, <1>3, <1>6, <1>7, <1>8 DEF WalksInv, CycleInv, SubtreeInv, WalksAgree

LEMMA FoundFacts ==
  ASSUME result \in Seq(Agents), queue \in Seq(Agents)
  PROVE  /\ Found \in Seq(Agents) /\ Len(result) \in Nat /\ Len(queue) \in Nat
         /\ Len(Found) = Len(result) + Len(queue) /\ DOMAIN Found = 1 .. Len(result) + Len(queue)
         /\ \A i \in 1 .. Len(result) : Found[i] = result[i]
         /\ queue # <<>> => /\ Len(result) + 1 \in DOMAIN Found
                            /\ Found[Len(result) + 1] = Head(queue)
<1>1. /\ Found \in Seq(Agents) /\ Len(result) \in Nat /\ Len(queue) \in Nat
      /\ Len(Found) = Len(result) + Len(queue) /\ DOMAIN Found = 1 .. Len(Found)
      /\ \A i \in 1 .. Len(result) + Len(queue) :
           Found[i] = IF i <= Len(result) THEN result[i] ELSE queue[i - Len(result)]
  BY ConcatProperties DEF Found
<1> HIDE DEF Found
<1>2. ASSUME queue # <<>>
      PROVE  Len(result) + 1 \in DOMAIN Found /\ Found[Len(result) + 1] = Head(queue)
  <2>1. Len(queue) > 0 /\ Head(queue) = queue[1]
    BY <1>2
  <2>2. /\ Len(result) + 1 \in 1 .. Len(result) + Len(queue)
        /\ ~(Len(result) + 1 <= Len(result)) /\ Len(result) + 1 - Len(result) = 1
    BY <1>1, <2>1
  <2> QED
    BY <1>1, <2>1, <2>2
<1> QED
  BY <1>1, <1>2

\* A child that was not seen yet is farther than the head of the queue: by the
\* least distance at which it would not be.
LEMMA HeadNearer ==
  ASSUME FoundInv, NearestFirst, children \in [Agents -> SUBSET Agents], queue # <<>>,
         NEW n \in Dist, NEW c \in Within[n], c \notin visited
  PROVE  n # 0 /\ Head(queue) \in Within[n - 1]
<1> DEFINE Far(k) == Within[k] \subseteq visited \/ (k # 0 /\ Head(queue) \in Within[k - 1])
           T == {k \in Dist : ~Far(k)}
<1> SUFFICES ASSUME T # {} PROVE FALSE
  OBVIOUS
<1>1. PICK k \in T : \A j \in T : k <= j
  <2>1. T \in SUBSET Nat
    BY DEF Dist
  <2> HIDE DEF T
  <2> QED
    BY <2>1, LeastNumber
<1>2. k \in Dist /\ ~(Within[k] \subseteq visited) /\ (k = 0 \/ Head(queue) \notin Within[k - 1])
  OBVIOUS
<1>3. k # 0
  BY <1>2, WithinSteps DEF FoundInv
<1>4. k - 1 \in Dist /\ Within[k] = Within[k - 1] \cup UNION {children[a] : a \in Within[k - 1]}
  BY <1>2, <1>3, WithinSteps
<1>5. Far(k - 1)
  BY <1>1, <1>4 DEF Dist
<1>6. ASSUME k - 1 # 0, Head(queue) \in Within[k - 1 - 1] PROVE FALSE
  <2>1. Within[k - 1 - 1] \subseteq Within[k - 1]
    BY <1>4, <1>6, WithinSteps
  <2> QED
    BY <1>2, <1>3, <1>6, <2>1
<1>7. Within[k - 1] \subseteq visited
  BY <1>5, <1>6
<1>8. PICK x \in Within[k - 1] : ~(children[x] \subseteq visited)
  BY <1>2, <1>4, <1>7
<1>9. x \in ToSet(Found) /\ x \notin ToSet(result)
  BY <1>7, <1>8 DEF FoundInv
<1>10. /\ Len(result) \in Nat /\ DOMAIN Found = 1 .. Len(result) + Len(queue) /\ Len(queue) \in Nat
       /\ \A i \in 1 .. Len(result) : Found[i] = result[i]
       /\ Len(result) + 1 \in DOMAIN Found /\ Found[Len(result) + 1] = Head(queue)
  BY FoundFacts DEF FoundInv
<1> HIDE DEF Found
<1>11. PICK j \in DOMAIN Found : x = Found[j]
  BY <1>9 DEF ToSet
<1>12. j \notin 1 .. Len(result)
  BY <1>9, <1>10, <1>11 DEF ToSet, FoundInv
<1>13. Len(result) + 1 <= j
  BY <1>10, <1>11, <1>12
<1>14. Head(queue) \in Within[k - 1]
  BY <1>4, <1>8, <1>10, <1>11, <1>13 DEF NearestFirst
<1> QED
  BY <1>2, <1>3, <1>14

LEMMA HeadMoved ==
  ASSUME NEW order \in Seq(Agents), result \in Seq(Agents), queue \in Seq(Agents), queue # <<>>
  PROVE  Append(result, Head(queue)) \o (Tail(queue) \o order) = (result \o queue) \o order
  BY SMTT(40)

\* What is taken from the queue stays in its place, and its fresh children come last.
LEMMA TakenFacts ==
  ASSUME FoundInv, queue # <<>>, NEW fresh \in SUBSET Agents, NEW order \in SetToSeqs(fresh),
         queue' = Tail(queue) \o order, result' = Append(result, Head(queue))
  PROVE  /\ order \in Seq(Agents) /\ result' \in Seq(Agents) /\ queue' \in Seq(Agents)
         /\ Found' = Found \o order /\ ToSet(order) = fresh /\ IsInjective(order)
         /\ ToSet(result') = ToSet(result) \cup {Head(queue)}
<1>1. result \in Seq(Agents) /\ queue \in Seq(Agents)
  BY DEF FoundInv
<1>2. IsFiniteSet(fresh) /\ Cardinality(fresh) \in Nat
  BY WalksAssumption, FS_Subset, FS_CardinalityType
<1>3. PICK n \in Nat : n = Cardinality(fresh)
  BY <1>2
<1>4. order \in [1 .. n -> fresh] /\ \A i, j \in 1 .. n : i # j => order[i] # order[j]
  BY <1>3 DEF SetToSeqs
<1>5. order \in Seq(Agents) /\ DOMAIN order = 1 .. n
  BY <1>4, SeqDef
<1>6. IsInjective(order)
  BY <1>4, <1>5 DEF IsInjective
<1>7. ToSet(order) = fresh
  <2> DEFINE f == [i \in 1 .. n |-> order[i]]
  <2>1. order \in Injection(1 .. n, fresh)
    BY <1>4 DEF Injection, IsInjective
  <2>2. IsFiniteSet(1 .. n) /\ Cardinality(1 .. n) = n
    BY FS_Interval
  <2>3. order \in Surjection(1 .. n, fresh)
    BY <1>2, <1>3, <2>1, <2>2, FS_Injection
  <2> QED
    BY <1>4, <2>3 DEF Surjection, ToSet
<1>8. /\ Head(queue) \in Agents /\ Tail(queue) \in Seq(Agents)
      /\ result' \in Seq(Agents) /\ queue' \in Seq(Agents)
  BY <1>1, <1>5, HeadTailProperties, AppendProperties, ConcatProperties
<1>9. Found' = Found \o order
  <2>1. Append(result, Head(queue)) \o (Tail(queue) \o order) = (result \o queue) \o order
    BY <1>1, <1>5, HeadMoved, Zenon
  <2> QED
    BY <2>1 DEF Found
<1>10. ToSet(result') = ToSet(result) \cup {Head(queue)}
  <2>1. /\ DOMAIN result' = 1 .. Len(result) + 1 /\ DOMAIN result = 1 .. Len(result)
        /\ Len(result) \in Nat /\ result'[Len(result) + 1] = Head(queue)
        /\ \A i \in 1 .. Len(result) : result'[i] = result[i]
    BY <1>1, <1>8, AppendProperties
  <2>2. DOMAIN result' = DOMAIN result \cup {Len(result) + 1}
    BY <2>1
  <2> QED
    BY <2>1, <2>2 DEF ToSet
<1> QED
  BY <1>5, <1>6, <1>7, <1>8, <1>9, <1>10

\* The walk is by distance.
LEMMA HeadStep == ASSUME WalksInv, TakeHead PROVE WalksInv'
<1> DEFINE fresh == children[Head(queue)] \ visited
<1>1. /\ walk = "subtree" /\ queue # <<>> /\ UNCHANGED <<tree, walk, current>>
      /\ visited' = visited \cup fresh /\ result' = Append(result, Head(queue))
      /\ \E order \in SetToSeqs(fresh) : queue' = Tail(queue) \o order
  BY DEF TakeHead
<1>2. PICK order \in SetToSeqs(fresh) : queue' = Tail(queue) \o order
  BY <1>1
<1>3. /\ TypeOK /\ from \in Agents /\ children \in [Agents -> SUBSET Agents] /\ visited \subseteq Agents
      /\ FoundInv /\ NearestFirst /\ OneListAhead
  BY <1>1 DEF WalksInv, TypeOK, SubtreeInv
<1>4. TypeOK' = TypeOK /\ Subtree(from)' = Subtree(from) /\ Within' = Within
  BY <1>1, TreeStays
<1>5. from' = from /\ children' = children
  BY <1>1 DEF tree
<1>6. /\ Found \in Seq(Agents) /\ Len(result) \in Nat /\ Len(queue) \in Nat
      /\ DOMAIN Found = 1 .. Len(result) + Len(queue) /\ Len(Found) = Len(result) + Len(queue)
      /\ Len(result) + 1 \in DOMAIN Found /\ Found[Len(result) + 1] = Head(queue)
  BY <1>1, <1>3, FoundFacts DEF FoundInv
<1>7. Head(queue) \in Agents /\ Head(queue) \in visited /\ fresh \in SUBSET Agents
  BY <1>3, <1>6 DEF FoundInv, ToSet
<1> HIDE DEF fresh
<1>8. /\ order \in Seq(Agents) /\ result' \in Seq(Agents) /\ queue' \in Seq(Agents)
      /\ Found' = Found \o order /\ ToSet(order) = fresh /\ IsInjective(order)
      /\ ToSet(result') = ToSet(result) \cup {Head(queue)}
  BY <1>1, <1>2, <1>3, <1>7, TakenFacts
<1>9. PICK m \in Nat : m = Len(Found)
  BY <1>6
<1> HIDE DEF Found
<1>10. /\ Found' \in Seq(Agents) /\ DOMAIN Found = 1 .. m
       /\ \A i \in 1 .. m : i \in DOMAIN Found' /\ Found'[i] = Found[i]
       /\ \A i \in DOMAIN Found' : i \in Nat /\ (i \notin 1 .. m => /\ i > m /\ i - m \in DOMAIN order
                                                                   /\ Found'[i] = order[i - m])
       /\ \A j \in DOMAIN order : j \in Nat /\ m + j \in DOMAIN Found' /\ Found'[m + j] = order[j]
  <2>1. /\ Len(order) \in Nat /\ DOMAIN order = 1 .. Len(order)
        /\ Found' \in Seq(Agents) /\ DOMAIN Found' = 1 .. m + Len(order)
        /\ \A i \in 1 .. m + Len(order) : Found'[i] = IF i <= m THEN Found[i] ELSE order[i - m]
    <3>1. Len(order) \in Nat /\ DOMAIN order = 1 .. Len(order)
      BY <1>8
    <3>2. /\ Found \o order \in Seq(Agents) /\ Len(Found \o order) = Len(Found) + Len(order)
          /\ \A i \in 1 .. Len(Found) + Len(order) :
               (Found \o order)[i] = IF i <= Len(Found) THEN Found[i] ELSE order[i - Len(Found)]
      <4>1. Found \in Seq(Agents) /\ order \in Seq(Agents)
        BY <1>6, <1>8
      <4> QED
        BY <4>1, ConcatProperties
    <3>3. DOMAIN (Found \o order) = 1 .. Len(Found) + Len(order)
      BY <3>2
    <3> QED
      BY <1>8, <1>9, <3>1, <3>2, <3>3
  <2> QED
    BY <1>6, <1>9, <2>1, SMTT(40)
<1>11. ToSet(Found') = ToSet(Found) \cup fresh
  <2>1. ASSUME NEW i \in DOMAIN Found' PROVE Found'[i] \in ToSet(Found) \cup ToSet(order)
    BY <1>10 DEF ToSet
  <2>2. ASSUME NEW i \in DOMAIN Found PROVE Found[i] \in ToSet(Found')
    BY <1>10 DEF ToSet
  <2>3. ASSUME NEW i \in DOMAIN order PROVE order[i] \in ToSet(Found')
    BY <1>10 DEF ToSet
  <2>4. ToSet(Found') \subseteq ToSet(Found) \cup ToSet(order)
    BY <2>1 DEF ToSet
  <2>5. ToSet(Found) \subseteq ToSet(Found') /\ ToSet(order) \subseteq ToSet(Found')
    BY <2>2, <2>3 DEF ToSet
  <2> QED
    BY <1>8, <2>4, <2>5
<1>12. \A i \in DOMAIN Found' : i \notin 1 .. m => Found'[i] \in fresh
  BY <1>8, <1>10 DEF ToSet
<1>13. visited = ToSet(Found) /\ visited' = ToSet(Found')
  BY <1>1, <1>3, <1>11 DEF FoundInv
<1>14. FoundInv'
  <2>1. IsInjective(Found')
    <3>1. ASSUME NEW i \in DOMAIN Found', NEW j \in DOMAIN Found', Found'[i] = Found'[j],
                 i \in 1 .. m, j \notin 1 .. m
          PROVE  FALSE
      <4>1. Found'[i] \in ToSet(Found)
        BY <1>10, <3>1 DEF ToSet
      <4>2. Found'[j] \in fresh
        BY <1>12, <3>1
      <4> QED
        BY <1>13, <3>1, <4>1, <4>2 DEF fresh
    <3>2. ASSUME NEW i \in DOMAIN Found', NEW j \in DOMAIN Found', Found'[i] = Found'[j],
                 i \in 1 .. m, j \in 1 .. m
          PROVE  i = j
      BY <1>3, <1>10, <3>2 DEF FoundInv, IsInjective
    <3>3. ASSUME NEW i \in DOMAIN Found', NEW j \in DOMAIN Found', Found'[i] = Found'[j],
                 i \notin 1 .. m, j \notin 1 .. m
          PROVE  i = j
      <4>1. i - m = j - m
        BY <1>8, <1>10, <3>3 DEF IsInjective
      <4> QED
        BY <1>10, <4>1
    <3> QED
      BY <3>1, <3>2, <3>3 DEF IsInjective
  <2>2. children[Head(queue)] \subseteq visited'
    BY <1>1 DEF fresh
  <2>3. \A a \in ToSet(result) : children[a] \subseteq visited'
    BY <1>1, <1>3 DEF FoundInv
  <2>4. visited' \subseteq Subtree(from)
    <3>1. Head(queue) \in Subtree(from)
      BY <1>3, <1>7 DEF FoundInv
    <3>2. \A S \in SUBSET Agents : from \in S /\ ClosedDown(S) => children[Head(queue)] \subseteq S
      BY <3>1 DEF Subtree, ClosedDown
    <3>3. fresh \subseteq Subtree(from)
      BY <1>7, <3>2 DEF Subtree, fresh
    <3> QED
      BY <1>1, <1>3, <3>3 DEF FoundInv
  <2>5. from \in visited'
    BY <1>1, <1>3 DEF FoundInv
  <2> QED
    BY <1>4, <1>5, <1>8, <1>13, <2>1, <2>2, <2>3, <2>4, <2>5 DEF FoundInv
<1>15. ASSUME NEW n \in Dist, NEW c \in fresh, c \in Within[n]
       PROVE  n # 0 /\ n - 1 \in Dist /\ Head(queue) \in Within[n - 1]
  <2>1. c \notin visited
    BY DEF fresh
  <2>2. n # 0 /\ Head(queue) \in Within[n - 1]
    BY <1>1, <1>3, <1>15, <2>1, HeadNearer
  <2> QED
    BY <2>2, WithinSteps
\* Whoever was found is at most one list farther than the head.
<1>16. ASSUME NEW n \in Dist, n # 0, Head(queue) \in Within[n - 1]
       PROVE  ToSet(Found') \subseteq Within[n]
  <2>1. ToSet(Found) \subseteq Within[n]
    BY <1>1, <1>3, <1>16 DEF OneListAhead
  <2>2. fresh \subseteq Within[n]
    BY <1>16, WithinSteps DEF fresh
  <2> QED
    BY <1>11, <2>1, <2>2
<1>17. NearestFirst'
  <2> SUFFICES ASSUME NEW n \in Dist, NEW i \in DOMAIN Found', NEW j \in DOMAIN Found',
                      i <= j, Found'[j] \in Within[n]
               PROVE  Found'[i] \in Within[n]
    BY <1>4 DEF NearestFirst, Dist
  <2>1. CASE j \in 1 .. m
    <3>1. i \in 1 .. m
      BY <1>10, <2>1
    <3> QED
      BY <1>3, <1>10, <2>1, <3>1 DEF NearestFirst
  <2>2. CASE j \notin 1 .. m
    <3>1. Found'[j] \in fresh
      BY <1>12, <2>2
    <3>2. ToSet(Found') \subseteq Within[n]
      BY <1>15, <1>16, <3>1
    <3> QED
      BY <3>2 DEF ToSet
  <2> QED
    BY <2>1, <2>2
<1>18. OneListAhead'
  <2> SUFFICES ASSUME NEW n \in Dist \ {0}, queue' # <<>>, Head(queue') \in Within[n - 1]
               PROVE  ToSet(Found') \subseteq Within[n]
    BY <1>4 DEF OneListAhead, Dist
  <2>1. n - 1 \in Dist
    BY WithinSteps
  <2>2. PICK k \in Nat : k = Len(result) + 1
    BY <1>6
  <2>3. k + 1 \in DOMAIN Found' /\ Found'[k + 1] = Head(queue') /\ k \in 1 .. m /\ Found[k] = Head(queue)
    <3>1. Len(result') = k
      BY <1>1, <1>3, <1>7, <2>2, AppendProperties DEF FoundInv
    <3>2. Len(result') + 1 \in DOMAIN Found' /\ Found'[Len(result') + 1] = Head(queue')
      <4>1. Len(result') \in Nat /\ Len(queue') \in Nat /\ Len(queue') > 0 /\ Head(queue') = queue'[1]
        BY <1>8
      <4>2. /\ DOMAIN Found' = 1 .. Len(result') + Len(queue')
            /\ \A i \in 1 .. Len(result') + Len(queue') :
                 Found'[i] = IF i <= Len(result') THEN result'[i] ELSE queue'[i - Len(result')]
        BY <1>8, ConcatProperties, SMTT(40) DEF Found
      <4>3. /\ Len(result') + 1 \in 1 .. Len(result') + Len(queue')
            /\ ~(Len(result') + 1 <= Len(result')) /\ Len(result') + 1 - Len(result') = 1
        BY <4>1
      <4> QED
        BY <4>1, <4>2, <4>3
    <3> QED
      BY <1>6, <1>9, <2>2, <3>1, <3>2
  <2>4. Head(queue) \in Within[n - 1]
    <3>1. CASE k + 1 \in 1 .. m
      <4>1. Found[k + 1] \in Within[n - 1]
        BY <1>10, <2>3, <3>1
      <4> QED
        BY <1>3, <1>10, <2>1, <2>3, <3>1, <4>1 DEF NearestFirst
    <3>2. CASE k + 1 \notin 1 .. m
      <4>1. Found'[k + 1] \in fresh
        BY <1>12, <2>3, <3>2
      <4>2. n - 1 # 0 /\ Head(queue) \in Within[n - 1 - 1]
        BY <1>15, <2>1, <2>3, <4>1
      <4>3. Within[n - 1 - 1] \subseteq Within[n - 1]
        BY <2>1, <4>2, WithinSteps
      <4> QED
        BY <4>2, <4>3
    <3> QED
      BY <3>1, <3>2
  <2> QED
    BY <1>16, <2>4
<1>19. visited' \subseteq Agents
  BY <1>1, <1>3, <1>7
<1> QED
  BY <1>1, <1>3, <1>4, <1>5, <1>14, <1>17, <1>18, <1>19 DEF WalksInv, CycleInv, SubtreeInv, WalksAgree

LEMMA StepWalks == WalksInv /\ [WalksNext]_walkVars => WalksInv'
<1> SUFFICES ASSUME WalksInv, [WalksNext]_walkVars PROVE WalksInv'
  OBVIOUS
<1>1. CASE UNCHANGED walkVars
  <2>1. UNCHANGED <<tree, walk, current, visited, queue, result>>
    BY <1>1 DEF walkVars
  <2>2. /\ TypeOK' = TypeOK /\ \A a : Up(a)' = Up(a)
        /\ Chain(from)' = Chain(from) /\ HasCycle(to, from)' = HasCycle(to, from)
        /\ Subtree(from)' = Subtree(from) /\ Within' = Within
    BY <2>1, TreeStays
  <2>3. from' = from /\ to' = to /\ children' = children /\ Found' = Found
    BY <2>1 DEF tree, Found
  <2>4. CycleInv' = CycleInv
    BY <2>1, <2>2, <2>3 DEF CycleInv
  <2>5. FoundInv' = FoundInv
    BY <2>1, <2>2, <2>3 DEF FoundInv
  <2>6. NearestFirst' = NearestFirst /\ OneListAhead' = OneListAhead
    BY <2>1, <2>2, <2>3 DEF NearestFirst, OneListAhead, Dist
  <2> QED
    BY <2>1, <2>2, <2>3, <2>4, <2>5, <2>6 DEF WalksInv, SubtreeInv, WalksAgree
<1> QED
  BY <1>1, CycleSteps, HeadStep, EmptyStep DEF WalksNext

\* The inductive invariant of the walks, for every finite set of agents.
THEOREM WalksInvariant == WalksSpec => []WalksInv
  BY InitWalks, StepWalks, PTL DEF WalksSpec

\* The loops of hasCycle and collectSubtree return what the handlers are modelled
\* to get from them, on every tree of any size, cyclic and malformed ones included.
THEOREM LoopsAgree == WalksSpec => []WalksAgree
<1>1. WalksInv => WalksAgree
  BY DEF WalksInv
<1> QED
  BY <1>1, WalksInvariant, PTL

\* The cap on the recipients drops the farthest agents, whatever it is.
THEOREM CapDropsFarthest == WalksSpec => []CapKeepsNearest
<1>1. WalksInv => CapKeepsNearest
  <2> SUFFICES ASSUME WalksInv, walk = "subtreeDone", NEW n \in Dist,
                      NEW near \in ToSet(Recipients), NEW dropped \in ToSet(result) \ ToSet(Recipients),
                      dropped \in Within[n]
               PROVE  near \in Within[n]
    BY DEF CapKeepsNearest, Dist
  <2>1. result \in Seq(Agents) /\ queue = <<>> /\ NearestFirst
    BY DEF WalksInv, SubtreeInv, FoundInv
  <2>2. Found = result
    BY <2>1, ConcatEmptySeq DEF Found
  <2>3. PICK k \in Nat : k = Len(result) /\ DOMAIN result = 1 .. k
    BY <2>1
  <2>4. PICK m \in 0 .. k : Recipients = SubSeq(result, 1, m)
    <3>1. Cap \in Nat
      BY WalksAssumption
    <3>2. (IF k > Cap THEN Cap ELSE k) \in 0 .. k
      BY <3>1
    <3> QED
      BY <2>3, <3>2 DEF Recipients
  <2>5. DOMAIN Recipients = 1 .. m /\ \A i \in 1 .. m : Recipients[i] = result[i]
    BY <2>1, <2>3, <2>4
  <2>6. PICK i \in 1 .. m : near = result[i]
    BY <2>5 DEF ToSet
  <2>7. PICK j \in 1 .. k : dropped = result[j] /\ j \notin 1 .. m
    BY <2>3, <2>5 DEF ToSet
  <2>8. i \in 1 .. k /\ i <= j
    BY <2>6, <2>7
  <2> QED
    BY <2>1, <2>2, <2>3, <2>6, <2>7, <2>8 DEF NearestFirst
<1> QED
  BY <1>1, WalksInvariant, PTL

-----------------------------------------------------------------------------
(* The import of a fleet file.                                             *)

Places == Names \cup {Nowhere}

FleetTypes ==
  /\ File \subseteq Names /\ want \in [File -> Places]
  /\ known \subseteq Names /\ up \in [Names -> Places] /\ doomed \subseteq known \ File
  /\ stack \in Seq(File) /\ sorted \in Seq(File) /\ posted \in 0 .. Len(sorted)
  /\ phase \in {"sort", "cyclic", "apply", "failed", "prune", "done"}

\* Each once, and after its parent if the file has that.
ParentsFirst ==
  /\ IsInjective(sorted)
  /\ \A i \in DOMAIN sorted : want[sorted[i]] \in File =>
       \E j \in DOMAIN sorted : j < i /\ sorted[j] = want[sorted[i]]

\* The calls under way climb the file, each called for the one before it.
CallsClimb ==
  /\ IsInjective(stack) /\ ToSet(stack) \cap ToSet(sorted) = {}
  /\ \A i \in DOMAIN stack : i + 1 \in DOMAIN stack => stack[i] = want[stack[i + 1]]
  /\ \A i, j \in DOMAIN stack : i <= j => stack[i] \in Climb(want, File, stack[j])

\* Nothing is posted before everything is sorted.
PhasesInOrder ==
  /\ phase \in {"sort", "cyclic"} => posted = 0
  /\ phase \notin {"sort", "cyclic"} => stack = <<>> /\ File \subseteq ToSet(sorted)
  /\ phase \in {"prune", "done"} => posted = Len(sorted)

\* What has been posted is in the space, below the parent the file gives it.
PostedInPlace ==
  \A i \in 1 .. posted :
    /\ sorted[i] \in known
    /\ want[sorted[i]] \in known => up[sorted[i]] = want[sorted[i]]
    /\ phase \in {"sort", "apply"} /\ want[sorted[i]] # Nowhere => up[sorted[i]] = want[sorted[i]]

\* The inductive invariant of the import.
FleetInv ==
  /\ FleetTypes /\ ParentsFirst /\ CallsClimb /\ PhasesInOrder /\ PostedInPlace
  /\ phase = "cyclic" => \E a \in File : a \in Climb(want, File, want[a])
  /\ phase = "failed" => Tangled

\* A climb has its start and the parent of each of its members, and nothing else.
LEMMA ClimbFacts ==
  ASSUME NEW A \in SUBSET Names, NEW t, \A c \in A : t[c] \in Places, NEW a \in Places
  PROVE  /\ Climb(t, A, a) \subseteq Places /\ a \in Climb(t, A, a)
         /\ \A c \in A : c \in Climb(t, A, a) => t[c] \in Climb(t, A, a)
         /\ \A S \in SUBSET Places :
              a \in S /\ (\A c \in S \cap A : t[c] \in S) => Climb(t, A, a) \subseteq S
  BY DEF Climb, Places

LEMMA InitFleet == FleetInit => FleetInv
<1> SUFFICES ASSUME FleetInit PROVE FleetInv
  OBVIOUS
<1>1. /\ phase = "sort" /\ stack = <<>> /\ sorted = <<>> /\ posted = 0 /\ doomed = {}
      /\ known \subseteq Names /\ up \in [Names -> Places]
  BY DEF FleetInit, Places
<1>2. File \subseteq Names /\ want \in [File -> Places]
  <2>1. PICK A \in SUBSET Names : want \in [A -> Names \cup {Nowhere}]
    BY DEF FleetInit
  <2> QED
    BY <2>1 DEF File, Places
<1>3. /\ stack \in Seq(File) /\ sorted \in Seq(File) /\ posted \in 0 .. Len(sorted)
      /\ DOMAIN stack = {} /\ DOMAIN sorted = {} /\ 1 .. posted = {}
  BY <1>1
<1>4. ToSet(stack) = {}
  BY <1>3 DEF ToSet
<1> QED
  BY <1>1, <1>2, <1>3, <1>4
     DEF FleetInv, FleetTypes, ParentsFirst, CallsClimb, PhasesInOrder, PostedInPlace, IsInjective

\* The sort leaves the file and the space alone.
LEMMA SpaceStays ==
  ASSUME UNCHANGED Space
  PROVE  UNCHANGED <<want, known, up, busy, forced, posted, doomed>> /\ File' = File
  BY DEF Space, File

\* While it sorts, nothing has been posted.
LEMMA SortingFacts ==
  ASSUME FleetInv, phase = "sort"
  PROVE  posted = 0 /\ 1 .. posted = {}
<1>1. posted = 0
  BY DEF FleetInv, PhasesInOrder
<1> QED
  BY <1>1

LEMMA VisitStep == ASSUME FleetInv, NEW a \in Names, Visit(a) PROVE FleetInv'
<1>1. /\ phase = "sort" /\ stack = <<>> /\ a \in File \ ToSet(sorted) /\ stack' = <<a>>
      /\ UNCHANGED <<phase, sorted>>
      /\ UNCHANGED <<want, known, up, busy, forced, posted, doomed>> /\ File' = File
  BY SpaceStays DEF Visit
<1>2. FleetTypes /\ ParentsFirst /\ posted = 0 /\ 1 .. posted = {}
  BY <1>1, SortingFacts DEF FleetInv
<1>3. stack' \in Seq(File) /\ DOMAIN stack' = {1} /\ stack'[1] = a
  BY <1>1
<1>4. ToSet(stack') = {a}
  BY <1>3 DEF ToSet
<1>5. a \in Climb(want, File, a)
  BY <1>1, <1>2, ClimbFacts DEF FleetTypes, Places
<1>6. FleetTypes' /\ ParentsFirst' /\ PhasesInOrder' /\ PostedInPlace'
  BY <1>1, <1>2, <1>3 DEF FleetTypes, ParentsFirst, PhasesInOrder, PostedInPlace
<1>7. CallsClimb'
  BY <1>1, <1>3, <1>4, <1>5 DEF CallsClimb, IsInjective
<1> QED
  BY <1>1, <1>6, <1>7 DEF FleetInv

\* A call for the parent climbs on; a call for one that is under way closes a cycle.
LEMMA VisitParentStep == ASSUME FleetInv, VisitParent PROVE FleetInv'
<1>1. /\ phase = "sort" /\ stack # <<>> /\ UNCHANGED sorted
      /\ UNCHANGED <<want, known, up, busy, forced, posted, doomed>> /\ File' = File
  BY SpaceStays DEF VisitParent
<1>2. FleetTypes /\ ParentsFirst /\ CallsClimb /\ posted = 0 /\ 1 .. posted = {}
  BY <1>1, SortingFacts DEF FleetInv
<1>3. PICK p \in Above(Head(stack)) :
        IF p \in ToSet(stack) THEN phase' = "cyclic" /\ UNCHANGED stack
                              ELSE stack' = <<p>> \o stack /\ UNCHANGED phase
  BY DEF VisitParent
<1>4. p = want[Head(stack)] /\ p \in File /\ p \notin ToSet(sorted)
  BY <1>3 DEF Above
<1>5. PICK n \in Nat : n = Len(stack) /\ n > 0 /\ DOMAIN stack = 1 .. n /\ Head(stack) = stack[1]
  BY <1>1, <1>2 DEF FleetTypes
<1>6. /\ \A i \in 1 .. n : stack[i] \in File
      /\ \A c \in File : c \in Names /\ c \in Places /\ want[c] \in Places
  BY <1>2, <1>5 DEF FleetTypes, Places
<1>7. \A x \in Places : x \in Climb(want, File, x)
                        /\ \A c \in File : c \in Climb(want, File, x) => want[c] \in Climb(want, File, x)
  <2>1. File \in SUBSET Names /\ \A c \in File : want[c] \in Places
    BY <1>6
  <2> QED
    BY <2>1, ClimbFacts
<1>8. CASE p \in ToSet(stack)
  <2>1. phase' = "cyclic" /\ UNCHANGED stack
    BY <1>3, <1>8
  <2>2. PICK k \in 1 .. n : p = stack[k]
    BY <1>5, <1>8 DEF ToSet
  <2>3. p \in Climb(want, File, want[p])
    <3>1. CASE k = 1
      BY <1>4, <1>5, <1>6, <1>7, <2>2, <3>1
    <3>2. CASE k # 1
      <4>1. k - 1 \in 1 .. n /\ k - 1 + 1 = k /\ k \in 1 .. n /\ 1 <= k - 1 /\ 1 \in 1 .. n
        BY <1>5, <3>2
      <4>2. stack[k - 1] = want[p]
        BY <1>2, <1>5, <2>2, <4>1 DEF CallsClimb
      <4>3. stack[1] \in Climb(want, File, stack[k - 1])
        BY <1>2, <1>5, <4>1 DEF CallsClimb
      <4> QED
        BY <1>4, <1>5, <1>6, <1>7, <4>1, <4>2, <4>3
    <3> QED
      BY <3>1, <3>2
  <2>4. FleetTypes' /\ ParentsFirst' /\ CallsClimb' /\ PhasesInOrder' /\ PostedInPlace'
    BY <1>1, <1>2, <2>1 DEF FleetTypes, ParentsFirst, CallsClimb, PhasesInOrder, PostedInPlace
  <2> QED
    BY <1>1, <1>4, <2>1, <2>3, <2>4 DEF FleetInv
<1>9. CASE p \notin ToSet(stack)
  <2>1. stack' = <<p>> \o stack /\ phase' = phase
    BY <1>3, <1>9
  <2>2. /\ stack' \in Seq(File) /\ DOMAIN stack' = 1 .. n + 1 /\ stack'[1] = p
        /\ \A i \in 2 .. n + 1 : i - 1 \in 1 .. n /\ stack'[i] = stack[i - 1]
    <3>1. stack \in Seq(File) /\ <<p>> \in Seq(File) /\ Len(<<p>>) = 1 /\ <<p>>[1] = p
      BY <1>2, <1>4 DEF FleetTypes
    <3>2. /\ stack' \in Seq(File) /\ Len(stack') = 1 + n
          /\ \A i \in 1 .. 1 + n : stack'[i] = IF i <= 1 THEN p ELSE stack[i - 1]
      BY <1>5, <2>1, <3>1, ConcatProperties
    <3> QED
      BY <3>2
  <2>3. \A i \in 1 .. n + 1 : i = 1 \/ i \in 2 .. n + 1
    OBVIOUS
  <2>4. \A i \in 1 .. n : stack[i] # p /\ stack[i] \notin ToSet(sorted)
    BY <1>2, <1>5, <1>9 DEF CallsClimb, ToSet
  <2>5. IsInjective(stack')
    <3>1. \A i, j \in 1 .. n : stack[i] = stack[j] => i = j
      BY <1>2, <1>5 DEF CallsClimb, IsInjective
    <3>2. \A i, j \in 2 .. n + 1 : stack'[i] = stack'[j] => i = j
      BY <2>2, <3>1
    <3> QED
      BY <2>2, <2>3, <2>4, <3>2 DEF IsInjective
  <2>6. \A i \in DOMAIN stack' : stack'[i] \notin ToSet(sorted)
    BY <1>4, <2>2, <2>3, <2>4
  <2>7. ASSUME NEW i \in DOMAIN stack', i + 1 \in DOMAIN stack'
        PROVE  stack'[i] = want[stack'[i + 1]]
    <3>1. CASE i = 1
      BY <1>4, <1>5, <2>2, <2>7, <3>1
    <3>2. CASE i # 1
      <4>1. i - 1 \in 1 .. n /\ i - 1 + 1 = i /\ i \in 1 .. n /\ i \in 2 .. n + 1 /\ i + 1 \in 2 .. n + 1
        BY <2>2, <2>7, <3>2
      <4>2. stack[i - 1] = want[stack[i]]
        BY <1>2, <1>5, <4>1 DEF CallsClimb
      <4>3. stack'[i] = stack[i - 1] /\ stack'[i + 1] = stack[i]
        BY <2>2, <4>1
      <4> QED
        BY <4>2, <4>3
    <3> QED
      BY <3>1, <3>2
  <2>8. ASSUME NEW i \in DOMAIN stack', NEW j \in DOMAIN stack', i <= j
        PROVE  stack'[i] \in Climb(want, File, stack'[j])
    <3>1. CASE j = 1
      BY <1>4, <1>6, <1>7, <2>2, <2>8, <3>1
    <3>2. CASE i = 1 /\ j # 1
      <4>1. j - 1 \in 1 .. n /\ 1 \in 1 .. n /\ 1 <= j - 1 /\ stack'[j] = stack[j - 1]
        BY <1>5, <2>2, <3>2
      <4>2. stack[1] \in Climb(want, File, stack[j - 1])
        BY <1>2, <1>5, <4>1 DEF CallsClimb
      <4> QED
        BY <1>4, <1>5, <1>6, <1>7, <2>2, <3>2, <4>1, <4>2
    <3>3. CASE i # 1 /\ j # 1
      <4>1. /\ i - 1 \in 1 .. n /\ j - 1 \in 1 .. n /\ i - 1 <= j - 1
            /\ stack'[i] = stack[i - 1] /\ stack'[j] = stack[j - 1]
        BY <2>2, <2>8, <3>3
      <4> QED
        BY <1>2, <1>5, <4>1 DEF CallsClimb
    <3> QED
      BY <2>2, <2>8, <3>1, <3>2, <3>3
  <2>9. CallsClimb'
    BY <1>1, <2>5, <2>6, <2>7, <2>8 DEF CallsClimb, ToSet
  <2>10. FleetTypes' /\ ParentsFirst' /\ PhasesInOrder' /\ PostedInPlace'
    BY <1>1, <1>2, <2>1, <2>2 DEF FleetTypes, ParentsFirst, PhasesInOrder, PostedInPlace
  <2> QED
    BY <1>1, <2>1, <2>9, <2>10 DEF FleetInv
<1> QED
  BY <1>8, <1>9

\* A call that returns puts its agent after the parent it was called with.
LEMMA VisitReturnsStep == ASSUME FleetInv, VisitReturns PROVE FleetInv'
<1>1. /\ phase = "sort" /\ stack # <<>> /\ Above(Head(stack)) = {}
      /\ sorted' = Append(sorted, Head(stack)) /\ stack' = Tail(stack) /\ UNCHANGED phase
      /\ UNCHANGED <<want, known, up, busy, forced, posted, doomed>> /\ File' = File
  BY SpaceStays DEF VisitReturns, Visited
<1>2. FleetTypes /\ ParentsFirst /\ CallsClimb /\ posted = 0 /\ 1 .. posted = {}
  BY <1>1, SortingFacts DEF FleetInv
<1>3. PICK n \in Nat : n = Len(stack) /\ n > 0 /\ DOMAIN stack = 1 .. n /\ Head(stack) = stack[1]
  BY <1>1, <1>2 DEF FleetTypes
<1>4. PICK m \in Nat : m = Len(sorted) /\ DOMAIN sorted = 1 .. m
  BY <1>2 DEF FleetTypes
<1>5. PICK a \in File : a = stack[1] /\ a = Head(stack) /\ a \notin ToSet(sorted)
  <2>1. stack[1] \in File
    BY <1>2, <1>3 DEF FleetTypes
  <2>2. stack[1] \in ToSet(stack)
    BY <1>3 DEF ToSet
  <2> QED
    BY <1>2, <1>3, <2>1, <2>2 DEF CallsClimb
<1>6. /\ sorted' \in Seq(File) /\ Len(sorted') = m + 1 /\ DOMAIN sorted' = 1 .. m + 1
      /\ sorted'[m + 1] = a /\ \A i \in 1 .. m : sorted'[i] = sorted[i]
  <2>1. sorted \in Seq(File)
    BY <1>2 DEF FleetTypes
  <2> QED
    BY <1>1, <1>4, <1>5, <2>1, AppendProperties
<1>7. /\ stack' \in Seq(File) /\ DOMAIN stack' = 1 .. n - 1
      /\ \A i \in 1 .. n - 1 : i + 1 \in 1 .. n /\ stack'[i] = stack[i + 1]
  <2>1. stack \in Seq(File)
    BY <1>2 DEF FleetTypes
  <2>2. /\ stack' \in Seq(File) /\ Len(stack') = n - 1
        /\ \A i \in 1 .. n - 1 : stack'[i] = stack[i + 1]
    BY <1>1, <1>3, <2>1, HeadTailProperties
  <2> QED
    BY <1>3, <2>2
<1>8. /\ \A i \in 1 .. m : sorted[i] # a
      /\ \A i, j \in 1 .. m : sorted[i] = sorted[j] => i = j
      /\ \A i, j \in 1 .. n : stack[i] = stack[j] => i = j
      /\ \A i \in 1 .. n : \A j \in 1 .. m : stack[i] # sorted[j]
  BY <1>2, <1>3, <1>4, <1>5, SMTT(40) DEF ParentsFirst, CallsClimb, IsInjective, ToSet
<1>9. \A i \in 1 .. m + 1 : i \in 1 .. m \/ i = m + 1
  BY <1>4
<1>10. ParentsFirst'
  <2>1. IsInjective(sorted')
    BY <1>6, <1>8, <1>9 DEF IsInjective
  <2>2. ASSUME NEW i \in 1 .. m + 1, want[sorted'[i]] \in File
        PROVE  \E j \in 1 .. m + 1 : j < i /\ sorted'[j] = want[sorted'[i]]
    <3>1. CASE i \in 1 .. m
      <4>1. PICK j \in 1 .. m : j < i /\ sorted[j] = want[sorted[i]]
        BY <1>2, <1>4, <1>6, <2>2, <3>1 DEF ParentsFirst
      <4>2. j \in 1 .. m + 1
        BY <1>4
      <4> QED
        BY <1>6, <3>1, <4>1, <4>2
    <3>2. CASE i = m + 1
      <4>1. want[a] \in ToSet(sorted)
        BY <1>1, <1>5, <1>6, <2>2, <3>2 DEF Above
      <4>2. PICK j \in 1 .. m : sorted[j] = want[a]
        BY <1>4, <4>1 DEF ToSet
      <4>3. j \in 1 .. m + 1 /\ j < m + 1
        BY <1>4
      <4> QED
        BY <1>6, <3>2, <4>2, <4>3
    <3> QED
      BY <1>9, <3>1, <3>2
  <2> QED
    BY <1>1, <1>6, <2>1, <2>2 DEF ParentsFirst
<1>11. CallsClimb'
  <2>1. IsInjective(stack')
    <3>1. ASSUME NEW i \in 1 .. n - 1, NEW j \in 1 .. n - 1, stack'[i] = stack'[j] PROVE i = j
      <4>1. i + 1 = j + 1
        BY <1>7, <1>8, <3>1
      <4> QED
        BY <4>1
    <3> QED
      BY <1>7, <3>1 DEF IsInjective
  <2>2. ToSet(stack') \cap ToSet(sorted') = {}
    <3>1. ASSUME NEW i \in 1 .. n - 1, NEW j \in 1 .. m + 1 PROVE stack'[i] # sorted'[j]
      <4>1. i + 1 \in 1 .. n /\ 1 \in 1 .. n /\ i + 1 # 1 /\ stack'[i] = stack[i + 1]
        BY <1>3, <1>7
      <4> QED
        BY <1>5, <1>6, <1>8, <1>9, <4>1
    <3> QED
      BY <1>6, <1>7, <3>1 DEF ToSet
  <2>3. ASSUME NEW i \in 1 .. n - 1, i + 1 \in 1 .. n - 1
        PROVE  stack'[i] = want[stack'[i + 1]]
    <3>1. i + 1 \in 1 .. n /\ i + 1 + 1 \in 1 .. n
      BY <1>7, <2>3
    <3> QED
      BY <1>2, <1>3, <1>7, <2>3, <3>1 DEF CallsClimb
  <2>4. ASSUME NEW i \in 1 .. n - 1, NEW j \in 1 .. n - 1, i <= j
        PROVE  stack'[i] \in Climb(want, File, stack'[j])
    <3>1. i + 1 \in 1 .. n /\ j + 1 \in 1 .. n /\ i + 1 <= j + 1
      BY <1>7, <2>4
    <3> QED
      BY <1>2, <1>3, <1>7, <2>4, <3>1 DEF CallsClimb
  <2> QED
    BY <1>1, <1>7, <2>1, <2>2, <2>3, <2>4 DEF CallsClimb
<1>12. FleetTypes' /\ PhasesInOrder' /\ PostedInPlace'
  <2>1. posted' \in 0 .. Len(sorted')
    BY <1>1, <1>2, <1>4, <1>6
  <2> QED
    BY <1>1, <1>2, <1>6, <1>7, <2>1 DEF FleetTypes, PhasesInOrder, PostedInPlace
<1> QED
  BY <1>1, <1>10, <1>11, <1>12 DEF FleetInv

LEMMA SortedStep == ASSUME FleetInv, Sorted PROVE FleetInv'
<1>1. /\ phase = "sort" /\ stack = <<>> /\ File \subseteq ToSet(sorted) /\ phase' = "apply"
      /\ UNCHANGED <<want, known, up, busy, forced, posted, doomed, stack, sorted>> /\ File' = File
  BY SpaceStays DEF Sorted
<1>2. FleetTypes /\ ParentsFirst /\ CallsClimb /\ posted = 0 /\ 1 .. posted = {}
  BY <1>1, SortingFacts DEF FleetInv
<1>3. FleetTypes' /\ PhasesInOrder' /\ PostedInPlace'
  BY <1>1, <1>2 DEF FleetTypes, PhasesInOrder, PostedInPlace
<1>4. ParentsFirst' /\ CallsClimb'
  BY <1>1, <1>2 DEF ParentsFirst, CallsClimb
<1> QED
  BY <1>1, <1>3, <1>4 DEF FleetInv

\* Once the order is complete, no agent of the file is above itself in it.
LEMMA NoneAboveItself ==
  ASSUME FleetInv, phase \notin {"sort", "cyclic"}, NEW i \in DOMAIN sorted
  PROVE  sorted[i] \notin Climb(want, File, want[sorted[i]])
<1> DEFINE S == {c \in Places : \A j \in DOMAIN sorted : i <= j => c # sorted[j]}
<1>1. FleetTypes /\ ParentsFirst /\ File \subseteq ToSet(sorted)
  BY DEF FleetInv, PhasesInOrder
<1>2. PICK m \in Nat : DOMAIN sorted = 1 .. m
  BY <1>1 DEF FleetTypes
<1>3. /\ \A j \in 1 .. m : sorted[j] \in File
      /\ File \in SUBSET Names /\ \A c \in File : want[c] \in Places
  BY <1>1, <1>2 DEF FleetTypes
<1>4. \A j, k \in 1 .. m : sorted[j] = sorted[k] => j = k
  BY <1>1, <1>2 DEF ParentsFirst, IsInjective
<1>5. ASSUME NEW l \in 1 .. m, l <= i PROVE want[sorted[l]] \in S
  <2>1. want[sorted[l]] \in Places
    BY <1>3
  <2>2. ASSUME NEW j \in 1 .. m, i <= j, want[sorted[l]] = sorted[j] PROVE FALSE
    <3>1. PICK k \in 1 .. m : k < l /\ sorted[k] = want[sorted[l]]
      BY <1>1, <1>2, <1>3, <2>2 DEF ParentsFirst
    <3>2. k = j
      BY <1>4, <2>2, <3>1
    <3> QED
      BY <1>2, <1>5, <2>2, <3>1, <3>2
  <2> QED
    BY <1>2, <2>1, <2>2
<1>6. ASSUME NEW c \in S \cap File PROVE want[c] \in S
  <2>1. PICK l \in 1 .. m : c = sorted[l]
    BY <1>1, <1>2 DEF ToSet
  <2>2. ~ i <= l
    BY <1>2, <2>1
  <2> QED
    BY <1>2, <1>5, <2>1, <2>2
<1>7. want[sorted[i]] \in S /\ want[sorted[i]] \in Places
  BY <1>2, <1>3, <1>5
<1>8. S \in SUBSET Places /\ sorted[i] \notin S
  BY <1>2
<1> HIDE DEF S
<1>9. Climb(want, File, want[sorted[i]]) \subseteq S
  BY <1>3, <1>6, <1>7, <1>8, ClimbFacts
<1> QED
  BY <1>8, <1>9

LEMMA OrderStays ==
  ASSUME FleetInv, UNCHANGED <<want, stack, sorted>>
  PROVE  ParentsFirst' /\ CallsClimb' /\ File' = File /\ FleetTypes /\ PhasesInOrder /\ PostedInPlace
<1>1. FleetTypes /\ ParentsFirst /\ CallsClimb /\ PhasesInOrder /\ PostedInPlace /\ File' = File
  BY DEF FleetInv, File
<1> QED
  BY <1>1 DEF ParentsFirst, CallsClimb

\* A post is refused only below a root of the file that hangs below the file: else
\* what has been posted and what is above its roots is closed under parents.
LEMMA RefusedTangled ==
  ASSUME FleetInv, phase = "apply", posted < Len(sorted),
         want[sorted[posted + 1]] # Nowhere,
         sorted[posted + 1] \in Climb(up, known, want[sorted[posted + 1]])
  PROVE  Tangled
<1>1. FleetTypes /\ ParentsFirst /\ PhasesInOrder /\ PostedInPlace
  BY DEF FleetInv
<1>2. PICK m \in Nat : m = Len(sorted) /\ DOMAIN sorted = 1 .. m
  BY <1>1 DEF FleetTypes
<1>3. PICK n \in 0 .. m : n = posted
  BY <1>1, <1>2 DEF FleetTypes
<1>4. n + 1 \in 1 .. m /\ \A i \in 1 .. n : i \in 1 .. m /\ i < n + 1
  BY <1>2, <1>3
<1>5. PICK a \in File : a = sorted[n + 1]
  BY <1>1, <1>2, <1>4 DEF FleetTypes
<1> DEFINE p == want[a]
<1>6. p # Nowhere /\ a \in Climb(up, known, p)
  BY <1>3, <1>5
<1>7. /\ File \subseteq Names /\ known \in SUBSET Names /\ Nowhere \notin Names
      /\ \A c \in known : up[c] \in Places
      /\ \A c \in Names : c \in Places /\ up[c] \in Places
      /\ \A c \in File : want[c] \in Places
  BY <1>1, FleetAssumption DEF FleetTypes, Places
<1>8. known \in SUBSET Names /\ \A c \in known : up[c] \in Places
  BY <1>7
<1>9. \A x \in Places :
        /\ x \in Climb(up, known, x)
        /\ \A c \in known : c \in Climb(up, known, x) => up[c] \in Climb(up, known, x)
        /\ \A T \in SUBSET Places :
             x \in T /\ (\A c \in T \cap known : up[c] \in T) => Climb(up, known, x) \subseteq T
  BY <1>8, ClimbFacts
<1>10. CASE p \notin File
  BY <1>5, <1>6, <1>10 DEF Tangled
<1>11. CASE p \in File
  <2> DEFINE Q == {sorted[i] : i \in 1 .. n}
             Root(r) == r \in Q /\ want[r] \notin File
             S == Q \cup {c \in Places : \E r \in Q : Root(r) /\ c \in Climb(up, known, up[r])}
  <2>1. Q \subseteq File /\ a \notin Q
    <3>1. ASSUME NEW i \in 1 .. n PROVE sorted[i] \in File /\ sorted[i] # a
      <4>1. i \in 1 .. m /\ i # n + 1
        BY <1>4
      <4>2. sorted[i] \in File
        BY <1>1, <1>2, <4>1 DEF FleetTypes
      <4>3. sorted[i] # sorted[n + 1]
        BY <1>1, <1>2, <1>4, <4>1 DEF ParentsFirst, IsInjective
      <4> QED
        BY <1>5, <4>2, <4>3
    <3> QED
      BY <3>1
  <2>2. \A r \in Q : want[r] # Nowhere => up[r] = want[r]
    <3>1. \A i \in 1 .. n : want[sorted[i]] # Nowhere => up[sorted[i]] = want[sorted[i]]
      BY <1>1, <1>3 DEF PostedInPlace
    <3> QED
      BY <3>1
  <2>3. ASSUME NEW i \in 1 .. n + 1, want[sorted[i]] \in File PROVE want[sorted[i]] \in Q
    <3>1. i \in 1 .. m
      BY <1>3, <1>4
    <3>2. PICK j \in 1 .. m : j < i /\ sorted[j] = want[sorted[i]]
      BY <1>1, <1>2, <2>3, <3>1 DEF ParentsFirst
    <3>3. j \in 1 .. n
      BY <1>3, <3>2
    <3> QED
      BY <3>2, <3>3
  <2>4. p \in Q
    <3>1. n + 1 \in 1 .. n + 1
      BY <1>3
    <3> QED
      BY <1>5, <1>11, <2>3, <3>1
  <2>5. \A r \in Q : want[r] \in File => want[r] \in Q
    <3>1. \A i \in 1 .. n : i \in 1 .. n + 1
      BY <1>3
    <3> QED
      BY <2>3, <3>1
  <2> HIDE DEF Q
  <2>6. ASSUME NEW r \in Q PROVE up[r] \in Places /\ up[r] \in Climb(up, known, up[r])
    <3>1. up[r] \in Places
      BY <1>7, <2>1
    <3> QED
      BY <1>9, <3>1
  <2>7. ASSUME NEW c \in S \cap known PROVE up[c] \in S
    <3>1. CASE c \in Q /\ want[c] \in File
      BY <1>7, <2>2, <2>5, <3>1
    <3>2. CASE c \in Q /\ want[c] \notin File
      BY <2>6, <3>2
    <3>3. CASE c \notin Q
      <4>1. PICK r \in Q : Root(r) /\ c \in Climb(up, known, up[r])
        BY <3>3
      <4>2. up[c] \in Climb(up, known, up[r]) /\ up[c] \in Places
        BY <1>7, <1>9, <2>6, <4>1
      <4> QED
        BY <4>1, <4>2
    <3> QED
      BY <3>1, <3>2, <3>3
  <2>8. S \in SUBSET Places /\ p \in S /\ p \in Places
    BY <1>7, <2>1, <2>4
  <2>9. a \in S
    <3> HIDE DEF S
    <3>1. Climb(up, known, p) \subseteq S
      BY <1>9, <2>7, <2>8
    <3> QED
      BY <1>6, <3>1
  <2>10. PICK r \in Q : Root(r) /\ a \in Climb(up, known, up[r])
    BY <2>1, <2>9
  <2>11. r \in File /\ want[r] \notin File /\ up[r] = IF want[r] = Nowhere THEN up[r] ELSE want[r]
    BY <2>1, <2>2, <2>10
  <2>12. a \in Climb(up, known, IF want[r] = Nowhere THEN up[r] ELSE want[r]) \cap File
    BY <1>5, <2>10, <2>11
  <2> QED
    BY <2>11, <2>12 DEF Tangled
<1> QED
  BY <1>10, <1>11

LEMMA ApplyStep == ASSUME FleetInv, Apply PROVE FleetInv'
<1>1. /\ phase = "apply" /\ posted < Len(sorted)
      /\ UNCHANGED <<want, busy, forced, stack, sorted, doomed>> /\ File' = File
  BY DEF Apply, File
<1>2. /\ ParentsFirst' /\ CallsClimb' /\ FleetTypes /\ PhasesInOrder /\ PostedInPlace
      /\ ParentsFirst
  BY <1>1, OrderStays DEF FleetInv
<1>3. PICK m \in Nat : m = Len(sorted) /\ DOMAIN sorted = 1 .. m
  BY <1>2 DEF FleetTypes
<1>4. PICK n \in 0 .. m : n = posted /\ n + 1 \in 1 .. m
  BY <1>1, <1>2, <1>3 DEF FleetTypes
<1>5. PICK a \in File : a = sorted[posted + 1] /\ a = sorted[n + 1]
  BY <1>2, <1>3, <1>4 DEF FleetTypes
<1>6. CASE want[a] # Nowhere /\ a \in Climb(up, known, want[a])
  <2>1. phase' = "failed" /\ UNCHANGED <<known, up, posted>>
    BY <1>5, <1>6 DEF Apply
  <2>2. Tangled
    BY <1>1, <1>5, <1>6, RefusedTangled
  <2>3. Tangled'
    BY <1>1, <2>1, <2>2 DEF Tangled, Climb
  <2>4. FleetTypes' /\ PhasesInOrder' /\ PostedInPlace'
    BY <1>1, <1>2, <2>1 DEF FleetTypes, PhasesInOrder, PostedInPlace
  <2> QED
    BY <1>2, <2>1, <2>3, <2>4 DEF FleetInv
<1>7. CASE ~ (want[a] # Nowhere /\ a \in Climb(up, known, want[a]))
  <2>1. /\ known' = known \cup {a} /\ posted' = n + 1 /\ phase' = phase
        /\ up' = IF want[a] = Nowhere THEN up ELSE [up EXCEPT ![a] = want[a]]
    BY <1>4, <1>5, <1>7 DEF Apply
  <2>2. /\ a \in Names /\ want[a] \in Places /\ known \subseteq Names /\ Nowhere \notin Names
        /\ up \in [Names -> Places]
    BY <1>2, FleetAssumption DEF FleetTypes
  <2>3. FleetTypes'
    <3>1. posted' \in 0 .. Len(sorted')
      BY <1>1, <1>3, <1>4, <2>1
    <3>2. known' \subseteq Names /\ up' \in [Names -> Places] /\ doomed' \subseteq known' \ File'
      BY <1>1, <1>2, <2>1, <2>2 DEF FleetTypes
    <3> QED
      BY <1>1, <1>2, <2>1, <3>1, <3>2 DEF FleetTypes
  <2>4. PhasesInOrder'
    BY <1>1, <1>2, <2>1 DEF PhasesInOrder
  <2>5. ASSUME NEW i \in 1 .. n + 1
        PROVE  /\ sorted[i] \in known'
               /\ want[sorted[i]] # Nowhere => up'[sorted[i]] = want[sorted[i]]
    <3>1. CASE i = n + 1
      BY <1>5, <2>1, <2>2, <3>1
    <3>2. CASE i \in 1 .. n
      <4>1. i \in 1 .. m /\ i # n + 1
        BY <1>3, <1>4, <3>2
      <4>2. sorted[i] # a
        BY <1>2, <1>3, <1>4, <1>5, <4>1 DEF ParentsFirst, IsInjective
      <4>3. /\ sorted[i] \in known
            /\ want[sorted[i]] # Nowhere => up[sorted[i]] = want[sorted[i]]
        BY <1>1, <1>2, <1>4, <3>2 DEF PostedInPlace
      <4> QED
        BY <2>1, <2>2, <4>2, <4>3
    <3> QED
      BY <1>4, <3>1, <3>2
  <2>6. Nowhere \notin known'
    BY <2>1, <2>2
  <2>7. PostedInPlace'
    BY <1>1, <2>1, <2>5, <2>6 DEF PostedInPlace
  <2> QED
    BY <1>1, <1>2, <2>1, <2>3, <2>4, <2>7 DEF FleetInv
<1> QED
  BY <1>6, <1>7

LEMMA PruneStep == ASSUME FleetInv, Prune PROVE FleetInv'
<1>1. /\ phase = "apply" /\ posted = Len(sorted) /\ phase' = "prune"
      /\ doomed' \subseteq known \ File /\ File' = File
      /\ UNCHANGED <<want, known, up, busy, forced, stack, sorted, posted>>
  BY DEF Prune, File
<1>2. ParentsFirst' /\ CallsClimb' /\ FleetTypes /\ PhasesInOrder /\ PostedInPlace
  BY <1>1, OrderStays
<1>3. FleetTypes' /\ PhasesInOrder' /\ PostedInPlace'
  BY <1>1, <1>2 DEF FleetTypes, PhasesInOrder, PostedInPlace
<1> QED
  BY <1>1, <1>2, <1>3 DEF FleetInv

\* A deletion takes its parent only from the children of what the file does not have.
LEMMA DeleteStep == ASSUME FleetInv, NEW a \in Names, Delete(a) PROVE FleetInv'
<1>1. /\ phase = "prune" /\ a \in doomed /\ doomed' = doomed \ {a} /\ known' = known \ {a}
      /\ up' = [c \in Names |-> IF c = a \/ up[c] = a THEN Nowhere ELSE up[c]]
      /\ UNCHANGED <<want, forced, phase, stack, sorted, posted>> /\ File' = File
  BY DEF Delete, File
<1>2. ParentsFirst' /\ CallsClimb' /\ FleetTypes /\ PhasesInOrder /\ PostedInPlace
  BY <1>1, OrderStays
<1>3. FleetTypes' /\ PhasesInOrder'
  <2>1. up' \in [Names -> Places]
    BY <1>1, <1>2 DEF FleetTypes, Places
  <2> QED
    BY <1>1, <1>2, <2>1 DEF FleetTypes, PhasesInOrder
<1>4. PostedInPlace'
  <2>1. ASSUME NEW i \in 1 .. posted
        PROVE  /\ sorted[i] \in known'
               /\ want[sorted[i]] \in known' => up'[sorted[i]] = want[sorted[i]]
    <3>1. i \in DOMAIN sorted
      BY <1>2 DEF FleetTypes
    <3>2. sorted[i] \in File /\ sorted[i] \in Names /\ sorted[i] # a
      BY <1>1, <1>2, <3>1 DEF FleetTypes
    <3>3. sorted[i] \in known /\ (want[sorted[i]] \in known => up[sorted[i]] = want[sorted[i]])
      BY <1>2 DEF PostedInPlace
    <3> QED
      BY <1>1, <3>2, <3>3
  <2> QED
    BY <1>1, <2>1 DEF PostedInPlace
<1> QED
  BY <1>1, <1>2, <1>3, <1>4 DEF FleetInv

LEMMA DoneStep == ASSUME FleetInv, Done PROVE FleetInv'
<1>1. /\ phase \in {"apply", "prune"} /\ posted = Len(sorted) /\ phase' = "done"
      /\ UNCHANGED <<want, known, up, busy, forced, posted, doomed, stack, sorted>> /\ File' = File
  BY SpaceStays DEF Done
<1>2. ParentsFirst' /\ CallsClimb' /\ FleetTypes /\ PhasesInOrder /\ PostedInPlace
  BY <1>1, OrderStays
<1>3. FleetTypes' /\ PhasesInOrder' /\ PostedInPlace'
  BY <1>1, <1>2 DEF FleetTypes, PhasesInOrder, PostedInPlace
<1> QED
  BY <1>1, <1>2, <1>3 DEF FleetInv

LEMMA StepFleet == FleetInv /\ [FleetNext]_fleetVars => FleetInv'
<1> SUFFICES ASSUME FleetInv, [FleetNext]_fleetVars PROVE FleetInv'
  OBVIOUS
<1>1. CASE UNCHANGED fleetVars
  <2>1. UNCHANGED <<want, known, up, busy, forced, phase, stack, sorted, posted, doomed>>
    BY <1>1 DEF fleetVars
  <2> QED
    BY <2>1 DEF FleetInv, FleetTypes, ParentsFirst, CallsClimb, PhasesInOrder, PostedInPlace,
                Tangled, File, Climb
<1>2. CASE FleetNext
  BY <1>2, VisitStep, VisitParentStep, VisitReturnsStep, SortedStep, ApplyStep, PruneStep,
     DeleteStep, DoneStep
     DEF FleetNext
<1> QED
  BY <1>1, <1>2

\* The inductive invariant of the import, for files and spaces of every size.
THEOREM FleetInvariant == FleetSpec => []FleetInv
<1>1. FleetInit => FleetInv
  BY InitFleet
<1>2. FleetInv /\ [FleetNext]_fleetVars => FleetInv'
  BY StepFleet
<1> QED
  BY <1>1, <1>2, PTL DEF FleetSpec

\* odis import stops before its first request exactly when the file has a cycle, and
\* halfway only if a root of the file hangs below the file in the space; a finished
\* import has put every agent of the file where the file has it, however the space
\* was arranged before.
THEOREM ImportsSound == FleetSpec => []ImportSound
<1>1. FleetInv => ImportSound
  <2> SUFFICES ASSUME FleetInv PROVE ImportSound
    OBVIOUS
  <2>1. FleetTypes /\ PhasesInOrder /\ PostedInPlace
    BY DEF FleetInv
  <2>2. phase = "cyclic" => posted = 0 /\ \E a \in File : a \in Climb(want, File, want[a])
    BY <2>1 DEF FleetInv, PhasesInOrder
  <2>3. ASSUME phase = "apply", NEW a \in File PROVE a \notin Climb(want, File, want[a])
    <3>1. PICK i \in DOMAIN sorted : a = sorted[i]
      BY <2>1, <2>3 DEF PhasesInOrder, ToSet
    <3> QED
      BY <2>3, <3>1, NoneAboveItself
  <2>4. phase = "failed" => Tangled
    BY DEF FleetInv
  <2>5. ASSUME phase = "done", NEW a \in File
        PROVE  a \in known /\ (want[a] \in known => up[a] = want[a])
    <3>1. PICK i \in DOMAIN sorted : a = sorted[i]
      BY <2>1, <2>5 DEF PhasesInOrder, ToSet
    <3>2. i \in 1 .. posted
      BY <2>1, <2>5, <3>1 DEF PhasesInOrder, FleetTypes
    <3> QED
      BY <2>1, <3>1, <3>2 DEF PostedInPlace
  <2> QED
    BY <2>2, <2>3, <2>4, <2>5 DEF ImportSound
<1> QED
  BY <1>1, FleetInvariant, PTL

=============================================================================
