------------------------------ MODULE MCTrees ------------------------------
(* The requests on the agent tree, the walks over it, and the import of a  *)
(* fleet file, which walks its own tree and then one post after the other  *)
(* over the space's.  A behaviour is one of the three.                     *)
EXTENDS TreeWalks, Fleet

VARIABLE part

\* The agents are alike, so the walks from one of them stand for all.
Start == CHOOSE a \in Agents : TRUE

\* A part that stands still does so in one state.
NoWalk ==
  /\ walk = "none" /\ from = NoAgent /\ to = NoAgent /\ current = NoAgent
  /\ visited = {} /\ queue = <<>> /\ result = <<>>

NoImport ==
  /\ want = [a \in Names |-> Nowhere] /\ known = {} /\ busy = {} /\ forced = FALSE
  /\ up = [a \in Names |-> Nowhere]
  /\ phase = "sort" /\ stack = <<>> /\ sorted = <<>> /\ posted = 0 /\ doomed = {}

MCInit ==
  \/ part = "requests" /\ Init /\ NoWalk /\ NoImport
  \/ part = "walks" /\ WalksInit /\ NoImport /\ from = Start
  \/ part = "import" /\ FleetInit /\ Init /\ NoWalk

MCNext ==
  /\ UNCHANGED part
  /\ \/ /\ part = "requests" /\ Next
        /\ UNCHANGED <<from, to, walk, current, visited, queue, result, fleetVars>>
     \/ part = "walks" /\ WalksNext /\ UNCHANGED fleetVars
     \/ part = "import" /\ FleetNext /\ UNCHANGED walkVars

MCSpec ==
  /\ MCInit /\ [][MCNext]_<<walkVars, fleetVars, part>>
  /\ WF_walkVars(part = "walks" /\ WalksNext)

\* Every walk ends: the loops of hasCycle and collectSubtree return on every tree.
WalksReturn == part = "walks" => WalksEnd

=============================================================================
