---------------------------- MODULE MCLifecycle ----------------------------
(* The sessions of agents, in three kinds of behaviour: one request at a   *)
(* time on one agent, of every kind, on a server with both backends;       *)
(* requests that overlap, on tmux, none of which stops or replaces a       *)
(* running session; and the approvals that sessions ask for.               *)
EXTENDS SessionLifecycle, Approvals

CONSTANT Lone    \* the request that is made where there is one at a time

VARIABLE part

\* A part that stands still does so in one state.
MCInit ==
  /\ part \in {"one", "overlap", "approvals"}
  /\ Init
  /\ ApprovalsInit /\ (part # "approvals" => screen = [a \in Watched |-> "none"])

\* The requests that may overlap, and the names they use.
Overlapping(r) ==
  r.op \notin {"stop", "restart", "restartall", "discover"}
    /\ r.backend # "ambient" /\ r.name \notin OwnNames

Requests ==
  /\ UNCHANGED <<approvalVars, part>>
  /\ \/ part = "one" /\ (Begin(Lone) \/ Reports(Lone) \/ Proceed(Lone))
     \/ /\ part = "overlap"
        /\ \E h \in Handlers :
             (Begin(h) \/ Reports(h) \/ Proceed(h)) /\ Overlapping(req'[h])
        /\ live' \cup {Named'} \subseteq {Default, Alternate, None}
     \/ part # "approvals" /\ \E s \in Sessions : SessionExit(s)

MCNext ==
  \/ Requests
  \/ part = "approvals" /\ ApprovalsNext /\ UNCHANGED <<vars, part>>

\* The backends answer: no request waits in one for ever.  The liveness loop goes on.
MCSpec ==
  /\ MCInit /\ [][MCNext]_<<vars, approvalVars, part>>
  /\ \A h \in Handlers : WF_vars(part # "approvals" /\ Proceed(h))
  /\ WF_approvalVars(part = "approvals" /\ Scan)

=============================================================================
