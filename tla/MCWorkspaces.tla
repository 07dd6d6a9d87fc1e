---------------------------- MODULE MCWorkspaces ----------------------------
EXTENDS Workspaces, TLC

CONSTANTS ann, ben, annsTab, bensTab

MCAccount == (annsTab :> ann) @@ (bensTab :> ben)

\* Documents are alike, projects are alike, and so are the two users once each
\* takes the other's tab along.
Exchange == (ann :> ben) @@ (ben :> ann) @@ (annsTab :> bensTab) @@ (bensTab :> annsTab)
Symmetry == Permutations(Document) \cup Permutations(Project) \cup {Exchange}
=============================================================================
