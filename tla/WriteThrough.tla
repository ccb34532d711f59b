---------------------------- MODULE WriteThrough ----------------------------
(***************************************************************************)
(* What a client may expect of a space that is written through to disk: a  *)
(* request changes what everybody sees, its rows reach the disk one by     *)
(* one, and it is answered when disk and view agree.  A crash shows each   *)
(* row as the last answered request left it, or as the request in progress *)
(* meant it to be.                                                         *)
(*                                                                         *)
(* Some rows are loose: the view may be ahead of the disk.  A request that *)
(* is refused may leave the one row it worked on loose, and one that is    *)
(* answered only the row it made.  No other request loosens a row.         *)
(***************************************************************************)
EXTENDS Naturals

CONSTANT Rows

VARIABLES
  view,    \* what requests read
  disk,    \* what a restart reads
  loose,   \* the rows whose view the disk may not have
  busy     \* whether a request is in progress

Init ==
  /\ view = [r \in Rows |-> 0]
  /\ disk = view
  /\ loose = {}
  /\ busy = FALSE

\* The row a request makes, if it makes one.
Makes == {{}} \cup {{r} : r \in {r \in Rows : view[r] = 0}}

Request ==
  /\ ~busy
  /\ view' \in [Rows -> Nat]
  /\ \E N \in Makes : loose' \in SUBSET (loose \cup N)
  /\ busy' = TRUE
  /\ UNCHANGED disk

Refuse(r) ==
  /\ ~busy
  /\ view' \in [Rows -> Nat]
  /\ \A q \in Rows \ {r} : view'[q] = view[q]
  /\ loose' = loose \cup {r}
  /\ UNCHANGED <<disk, busy>>

Harden(r) ==
  /\ busy
  /\ disk' \in [Rows -> Nat]
  /\ disk'[r] = view[r] \/ r \in loose
  /\ \A q \in Rows \ {r} : disk'[q] = disk[q]
  /\ UNCHANGED <<view, loose, busy>>

Reply ==
  /\ busy
  /\ \A r \in Rows \ loose : disk[r] = view[r]
  /\ busy' = FALSE
  /\ UNCHANGED <<view, disk, loose>>

Crash ==
  /\ view' = disk
  /\ loose' = {}
  /\ busy' = FALSE
  /\ UNCHANGED disk

Next ==
  \/ Request \/ Reply \/ Crash
  \/ \E r \in Rows : Harden(r) \/ Refuse(r)

Spec == Init /\ [][Next]_<<view, disk, loose, busy>>

=============================================================================
