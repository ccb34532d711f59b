------------------------------- MODULE Fleet -------------------------------
(***************************************************************************)
(* odis import: a fleet file is sorted so that parents come before their   *)
(* children, then its agents are posted to the space one request at a      *)
(* time, each checked for cycles against the tree as it is by then; with   *)
(* --prune, agents that the file does not have are deleted at the end.     *)
(***************************************************************************)
EXTENDS Naturals, FiniteSets, Sequences, SequencesExt

CONSTANTS
  Names,     \* the names of agents, in the file or in the space
  Nowhere    \* an empty parent

ASSUME FleetAssumption == Nowhere \notin Names

VARIABLES
  want,      \* the file: a parent or Nowhere for each of its agents
  known,     \* the agents of the space
  up,        \* their parents
  busy,      \* those outside the file that have a session
  forced,    \* --force
  phase,     \* what the command is doing
  stack,     \* the calls of visit that have not returned
  sorted,    \* the order so far
  posted,    \* how many of the order have been posted
  doomed     \* what --prune found to delete

fleetVars == <<want, known, up, busy, forced, phase, stack, sorted, posted, doomed>>

File == DOMAIN want

\* a and the parents above it, in a tree t with the records of A: what every set
\* has that has a and the parents of its members.
Climb(t, A, a) ==
  {b \in Names \cup {Nowhere} :
     \A S \in SUBSET (Names \cup {Nowhere}) :
       a \in S /\ (\A c \in S \cap A : t[c] \in S) => b \in S}

CycleFree(t, A) == \A a \in A : a \notin Climb(t, A, t[a])

\* Any file, and any tree that requests have kept free of cycles.
FleetInit ==
  /\ \E A \in SUBSET Names \ {{}} : want \in [A -> Names \cup {Nowhere}]
  /\ known \in SUBSET Names /\ busy \in SUBSET (known \ File)
  /\ up \in {t \in [Names -> Names \cup {Nowhere}] :
               (\A a \in Names \ known : t[a] = Nowhere) /\ CycleFree(t, known)}
  /\ forced \in BOOLEAN
  /\ phase = "sort" /\ stack = <<>> /\ sorted = <<>> /\ posted = 0 /\ doomed = {}

-----------------------------------------------------------------------------
(* TopoSortAgents. *)

Space == <<want, known, up, busy, forced, posted, doomed>>

\* The loop over the names, in some order: those that are done return at once.
Visit(a) ==
  /\ phase = "sort" /\ stack = <<>> /\ a \in File \ ToSet(sorted)
  /\ stack' = <<a>>
  /\ UNCHANGED <<Space, phase, sorted>>

\* A parent that the file has is visited first.
Above(a) == {want[a]} \cap (File \ ToSet(sorted))

VisitParent ==
  /\ phase = "sort" /\ stack # <<>>
  /\ \E p \in Above(Head(stack)) :
       IF p \in ToSet(stack) THEN phase' = "cyclic" /\ UNCHANGED stack
                             ELSE stack' = <<p>> \o stack /\ UNCHANGED phase
  /\ UNCHANGED <<Space, sorted>>

VisitedLast(a) == <<a>> \o sorted    \* mutant: children come before their parents

Visited(a) == Append(sorted, a)

VisitReturns ==
  /\ phase = "sort" /\ stack # <<>> /\ Above(Head(stack)) = {}
  /\ sorted' = Visited(Head(stack))
  /\ stack' = Tail(stack)
  /\ UNCHANGED <<Space, phase>>

Sorted ==
  /\ phase = "sort" /\ stack = <<>> /\ File \subseteq ToSet(sorted)
  /\ phase' = "apply"
  /\ UNCHANGED <<Space, stack, sorted>>

-----------------------------------------------------------------------------
(* fleetApply and fleetPrune, one request at a time. *)

\* The status post: hasCycle against the tree as it is now; an empty parent
\* leaves the one that is there.
Apply ==
  /\ phase = "apply" /\ posted < Len(sorted)
  /\ LET a == sorted[posted + 1]
         p == want[a]
     IN IF p # Nowhere /\ a \in Climb(up, known, p)
          THEN phase' = "failed" /\ UNCHANGED <<known, up, posted>>
          ELSE /\ known' = known \cup {a}
               /\ up' = IF p = Nowhere THEN up ELSE [up EXCEPT ![a] = p]
               /\ posted' = posted + 1
               /\ UNCHANGED phase
  /\ UNCHANGED <<want, busy, forced, stack, sorted, doomed>>

\* What the space has and the file does not; without --force, agents whose record
\* names a session are spared.
Prune ==
  /\ phase = "apply" /\ posted = Len(sorted)
  /\ doomed' = {a \in known \ File : forced \/ a \notin busy}
  /\ phase' = "prune"
  /\ UNCHANGED <<want, known, up, busy, forced, stack, sorted, posted>>

\* The deletion makes roots of the children.
Delete(a) ==
  /\ phase = "prune" /\ a \in doomed
  /\ doomed' = doomed \ {a}
  /\ known' = known \ {a} /\ busy' = busy \ {a}
  /\ up' = [c \in Names |-> IF c = a \/ up[c] = a THEN Nowhere ELSE up[c]]
  /\ UNCHANGED <<want, forced, phase, stack, sorted, posted>>

\* Without --prune, the command ends after the last post.
Done ==
  /\ phase \in {"apply", "prune"} /\ posted = Len(sorted) /\ doomed = {}
  /\ phase' = "done"
  /\ UNCHANGED <<Space, stack, sorted>>

FleetNext ==
  \/ VisitParent \/ VisitReturns \/ Sorted \/ Apply \/ Prune \/ Done
  \/ \E a \in Names : Visit(a) \/ Delete(a)

FleetSpec == FleetInit /\ [][FleetNext]_fleetVars

-----------------------------------------------------------------------------
\* An agent of the file that hangs below the file in the space: it has no parent
\* in the file, and the one it keeps or is given there leads back into the file.
Tangled ==
  \E a \in File :
    /\ want[a] \notin File
    /\ Climb(up, known, IF want[a] = Nowhere THEN up[a] ELSE want[a]) \cap File # {}

\* An import stops before its first request exactly when the file has a cycle;
\* it stops halfway only if a root of the file hangs below the file in the space,
\* however the space was arranged before; and when it is done, every agent of the
\* file exists and has the parent the file gives it, if the space still has that.
ImportSound ==
  /\ phase = "cyclic" => posted = 0 /\ \E a \in File : a \in Climb(want, File, want[a])
  /\ phase = "apply" => \A a \in File : a \notin Climb(want, File, want[a])
  /\ phase = "failed" => Tangled
  /\ phase = "done" =>
       \A a \in File :
         a \in known /\ (want[a] \in known => up[a] = want[a])

=============================================================================
