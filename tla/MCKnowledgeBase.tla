-------------------------- MODULE MCKnowledgeBase --------------------------
(* Instances of KnowledgeBase for TLC. *)
EXTENDS KnowledgeBase

CONSTANTS d1, d2

MCChunkCounts == {2}

\* One document meets every failure but a second delivery, the other is
\* delivered twice and may be rejected or raise.
MCMixedFaults == (d1 :> AllFaults \ {"duplicate"}) @@ (d2 :> {"duplicate", "provider"})

MCDatabaseError == [d \in Document |-> {"database"}]
=============================================================================
