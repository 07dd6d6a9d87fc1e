---------------------------- MODULE MCApiClient ----------------------------
(* Instances of ApiClient for TLC. *)
EXTENDS ApiClient, TLC

CONSTANTS t1, t2, c1, c2, c3

MCRequest == Call \X {"main", "refresh"}

\* Two calls of one tab, and any operation in another.
MCTabOf == c1 :> t1 @@ c2 :> t1 @@ c3 :> t2
MCPurpose ==
  c1 :> {"api"} @@ c2 :> {"api", "register", "oauth"}
    @@ c3 :> {"api", "register", "login", "oauth", "logout"}

\* Any failure in the other tab, a failing refresh in the first.
MCFaults ==
  [r \in MCRequest |->
     CASE r[1] = c3 -> AllFaults
       [] r = Refresh(c1) -> {"answer"}
       [] OTHER -> {}]

\* Nothing but expired access tokens.
MCNoFaults == [r \in MCRequest |-> {}]
MCApiOnly == [c \in Call |-> {"api"}]
=============================================================================
