-------------------------- MODULE SessionLifecycle ---------------------------
(***************************************************************************)
(* What the monitor promises about its sessions: the two durable states of *)
(* session/lifecycle.go, the two ways of not being in the store, and the   *)
(* only moves between them, each announced by one lifecycle event.  A poll *)
(* may move several sessions at once, each of them by one move.            *)
(*                                                                         *)
(* Module Monitor is shown to implement this one twice: once for what is   *)
(* committed to the store, once for what the sink is told.                 *)
(***************************************************************************)
CONSTANT Sessions

VARIABLES
  state,   \* where each session is: its LifecycleState, or outside the store
  event    \* the LifecycleEventType of each session's last move

States == {"untracked", "active", "terminal", "removed"}

Events ==
  {"none", "discovered", "updated", "resumed", "terminal", "stale", "removed"}

Init ==
  /\ state = [s \in Sessions |-> "untracked"]
  /\ event = [s \in Sessions |-> "none"]

\* Session s goes from a state in from to the state to, announced by ev.
Move(s, from, to, ev) ==
  /\ state[s] \in from
  /\ state'[s] = to
  /\ event'[s] = ev

Discovered(s) == Move(s, {"untracked"}, "active", "discovered")
Updated(s)    == Move(s, {"active"}, "active", "updated")
Ended(s)      == Move(s, {"active"}, "terminal", "terminal")
WentStale(s)  == Move(s, {"active"}, "terminal", "stale")
Resumed(s)    == Move(s, {"terminal", "removed"}, "active", "resumed")
Expired(s)    == Move(s, {"terminal"}, "removed", "removed")

Stays(s) == state'[s] = state[s] /\ event'[s] = event[s]

Moves(s) ==
  Discovered(s) \/ Updated(s) \/ Ended(s) \/ WentStale(s) \/ Resumed(s) \/ Expired(s)

Next ==
  /\ state' \in [Sessions -> States]
  /\ event' \in [Sessions -> Events]
  /\ \A s \in Sessions : Stays(s) \/ Moves(s)

Spec == Init /\ [][Next]_<<state, event>>
=============================================================================
