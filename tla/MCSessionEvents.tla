-------------------------- MODULE MCSessionEvents --------------------------
(* Instances of SessionEvents for TLC. *)
EXTENDS SessionEvents

MCRunLengths == {2}
MCRevisions == {0}

\* Failures after which a session at the broker still settles.
MCSettlingFaults == {"node", "delete"}
MCNoFaults == {}
=============================================================================
