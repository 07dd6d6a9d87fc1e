-------------------------- MODULE SessionLifecycle --------------------------
(***************************************************************************)
(* What a client of the API may rely on about research sessions: the       *)
(* status of a session moves forward once along queued, running and        *)
(* completed or failed; the report appears in the same instant as the      *)
(* status completed; and the status events of the live feed announce the   *)
(* status the row already has, each one once.                              *)
(***************************************************************************)
CONSTANT Session

VARIABLES
  status,     \* what GET /sessions/{id} answers
  reported,   \* whether GET /sessions/{id}/report answers 200
  announced   \* status events published for the session

vars == <<status, reported, announced>>

Init ==
  /\ status = [s \in Session |-> "absent"]
  /\ reported = [s \in Session |-> FALSE]
  /\ announced = [s \in Session |-> {}]

Moves(s, from, to) ==
  /\ status[s] = from
  /\ status' = [status EXCEPT ![s] = to]

Create(s) == Moves(s, "absent", "queued") /\ UNCHANGED <<reported, announced>>

Remove(s) == Moves(s, "queued", "deleted") /\ UNCHANGED <<reported, announced>>

Start(s) == Moves(s, "queued", "running") /\ UNCHANGED <<reported, announced>>

Fail(s) == Moves(s, "running", "failed") /\ UNCHANGED <<reported, announced>>

Complete(s) ==
  /\ Moves(s, "running", "completed")
  /\ reported' = [reported EXCEPT ![s] = TRUE]
  /\ UNCHANGED announced

Announce(s) ==
  /\ status[s] \in {"running", "completed", "failed"}
  /\ status[s] \notin announced[s]
  /\ announced' = [announced EXCEPT ![s] = @ \cup {status[s]}]
  /\ UNCHANGED <<status, reported>>

Next ==
  \E s \in Session :
    Create(s) \/ Remove(s) \/ Start(s) \/ Fail(s) \/ Complete(s) \/ Announce(s)

Spec == Init /\ [][Next]_vars
=============================================================================
