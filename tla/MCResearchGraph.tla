--------------------------- MODULE MCResearchGraph ---------------------------
(* Small instances of ResearchGraph for TLC.                               *)
EXTENDS Evaluation

\* A reply without a number, one in range, one above the range ("85").
MCScoreReplies == {-1, 7, 85}

\* A new session, and a session run again after a run that stored two
\* rejections or used up the cap.
MCStartCounts == {0, 2, 6}

\* Markers 0 to 3, and a word that is none.
MCTextWords == {-1, 0, 1, 2, 3}
=============================================================================
