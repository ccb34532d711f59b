------------------------------ MODULE MCTasks ------------------------------
(* An instance of Tasks: requests are alike, and so are agents.            *)
EXTENDS Tasks, TLC

Symmetry == Permutations(Agents) \cup Permutations(Handlers)

=============================================================================
