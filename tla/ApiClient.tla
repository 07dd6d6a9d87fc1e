------------------------------ MODULE ApiClient ------------------------------
(***************************************************************************)
(* The browser's side of authentication: lib/api-client.ts, lib/auth.ts    *)
(* and the login, register and logout mutations of hooks/use-auth.ts, in   *)
(* tabs that share one localStorage, against the endpoints of              *)
(* TokenRotation.                                                          *)
(*                                                                         *)
(* A call is one use of request().  Each action is a stretch of a tab's    *)
(* event loop with the promise continuations it triggers.                  *)
(***************************************************************************)
EXTENDS TokenRotation

CONSTANTS
  Tab, Call,
  TabOf,     \* the tab that makes a call
  Purpose,   \* what it may be for: "api", "register", "login", "oauth" or "logout"
  Closing    \* tabs the user may close at any time

\* The request of a call itself, and the refresh it may start.
Main(c)    == <<c, "main">>
Refresh(c) == <<c, "refresh">>

ASSUME ApiClientAssumption ==
  /\ Request = {Main(c) : c \in Call} \cup {Refresh(c) : c \in Call}
  /\ TabOf \in [Call -> Tab]
  /\ Purpose \in [Call -> SUBSET (Operations \ {"refresh"})]
  /\ Closing \subseteq Tab

VARIABLES
  stored,           \* the pair in localStorage; 0: none
  call,             \* how far each call is, and whether it may still retry
  refreshInFlight   \* in each tab, the call whose refresh is shared

vars == <<accounts, tokens, handler, stored, call, refreshInFlight>>

Init ==
  /\ TokenInit
  /\ stored = issued
  /\ call = [c \in Call |-> [stage |-> "idle", allowRetry |-> TRUE]]
  /\ refreshInFlight = [t \in Tab |-> {}]

Calls(t) == {c \in Call : TabOf[c] = t}

Stage(c, stage) == call' = [call EXCEPT ![c].stage = stage]

\* fetch with the stored access token, or for a logout with the refresh token;
\* without one the logout has nothing to send.
Send(c) ==
  /\ call[c].stage = "idle"
  /\ \E operation \in Purpose[c] :
       IF operation = "logout" /\ stored = 0
         THEN Stage(c, "done") /\ UNCHANGED handler
         ELSE /\ Stage(c, "sent")
              /\ handler' = [handler EXCEPT ![Main(c)] = Asked(operation, stored)]
  /\ UNCHANGED <<accounts, tokens, stored, refreshInFlight>>

Asks(c, operation) == handler[Main(c)].operation = operation

Answered(c, stage) == call[c].stage = "sent" /\ handler[Main(c)].stage = stage

\* Mutant: every call that is refused sends a refresh of its own.
TryRefreshAlone(c) ==
  /\ Answered(c, "unauthorized")
  /\ call[c].allowRetry /\ stored # 0
  /\ Stage(c, "waiting")
  /\ refreshInFlight' = [refreshInFlight EXCEPT ![TabOf[c]] = @ \cup {c}]
  /\ handler' = [handler EXCEPT ![Refresh(c)] = Asked("refresh", stored)]
  /\ UNCHANGED <<accounts, tokens, stored>>

\* A 401 that may be retried: start a refresh or wait for the tab's.
TryRefresh(c) ==
  /\ Answered(c, "unauthorized")
  /\ call[c].allowRetry /\ stored # 0
  /\ Stage(c, "waiting")
  /\ IF refreshInFlight[TabOf[c]] = {}
       THEN /\ refreshInFlight' = [refreshInFlight EXCEPT ![TabOf[c]] = {c}]
            /\ handler' = [handler EXCEPT ![Refresh(c)] = Asked("refresh", stored)]
       ELSE UNCHANGED <<refreshInFlight, handler>>
  /\ UNCHANGED <<accounts, tokens, stored>>

\* Any other refusal is the caller's; a logout clears the tokens even so.
GivesUp(c) ==
  /\ \/ Answered(c, "unauthorized") /\ (~call[c].allowRetry \/ stored = 0)
     \/ Answered(c, "error")
  /\ Stage(c, "failed")
  /\ stored' = IF Asks(c, "logout") THEN 0 ELSE stored
  /\ UNCHANGED <<accounts, tokens, handler, refreshInFlight>>

\* The provider's callback is a page of its own: nothing stores that pair.
Succeeds(c) ==
  /\ Answered(c, "ok")
  /\ ~Asks(c, "register")
  /\ Stage(c, "done")
  /\ stored' = CASE Asks(c, "login") -> handler[Main(c)].got
                 [] Asks(c, "logout") -> 0
                 [] OTHER -> stored
  /\ UNCHANGED <<accounts, tokens, handler, refreshInFlight>>

\* A registration goes straight on to a login.
RegisterThenLogin(c) ==
  /\ Answered(c, "ok")
  /\ Asks(c, "register")
  /\ handler' = [handler EXCEPT ![Main(c)] = Asked("login", stored)]
  /\ UNCHANGED <<accounts, tokens, stored, call, refreshInFlight>>

Waiting(t) == {c \in Calls(t) : call[c].stage = "waiting"}

\* The calls that go on when the shared promise answers: sent again, once, with
\* the new access token, or refused.
Resume(callers, ok, token) ==
  /\ call' = [c \in Call |->
       IF c \notin callers THEN call[c]
       ELSE IF ok THEN [stage |-> "sent", allowRetry |-> FALSE]
       ELSE [stage |-> "failed", allowRetry |-> call[c].allowRetry]]
  /\ handler' = [r \in Request |->
       IF ok /\ \E c \in callers : r = Main(c)
         THEN Asked(handler[r].operation, token)
         ELSE handler[r]]

\* Mutant: only the call that started the refresh goes on.
RefreshSettlesForOne(t) ==
  \E c \in refreshInFlight[t] :
    LET answer == handler[Refresh(c)] IN
      /\ answer.stage \in Answers
      /\ stored' = IF answer.stage = "ok" THEN answer.got ELSE 0
      /\ refreshInFlight' = [refreshInFlight EXCEPT ![t] = {}]
      /\ Resume({c}, answer.stage = "ok", answer.got)
      /\ UNCHANGED <<accounts, tokens>>

\* Mutant: only the access token of the new pair is kept.
RefreshSettlesByHalf(t) ==
  \E c \in refreshInFlight[t] :
    LET answer == handler[Refresh(c)] IN
      /\ answer.stage \in Answers
      /\ stored' = IF answer.stage = "ok" THEN stored ELSE 0
      /\ refreshInFlight' = [refreshInFlight EXCEPT ![t] = {}]
      /\ Resume(Waiting(t), answer.stage = "ok", answer.got)
      /\ UNCHANGED <<accounts, tokens>>

\* The refresh answers: its pair is stored, or what is stored by then is cleared.
RefreshSettles(t) ==
  \E c \in refreshInFlight[t] :
    LET answer == handler[Refresh(c)] IN
      /\ answer.stage \in Answers
      /\ stored' = IF answer.stage = "ok" THEN answer.got ELSE 0
      /\ refreshInFlight' = [refreshInFlight EXCEPT ![t] = {}]
      /\ Resume(Waiting(t), answer.stage = "ok", answer.got)
      /\ UNCHANGED <<accounts, tokens>>

\* The tab is closed or loaded anew: nobody hears the answers.
CloseTab(t) ==
  /\ t \in Closing
  /\ \E c \in Calls(t) : call[c].stage \in {"sent", "waiting"}
  /\ call' = [c \in Call |-> IF c \in Calls(t) THEN [call[c] EXCEPT !.stage = "closed"] ELSE call[c]]
  /\ refreshInFlight' = [refreshInFlight EXCEPT ![t] = {}]
  /\ UNCHANGED <<accounts, tokens, handler, stored>>

Continues(c) == TryRefresh(c) \/ GivesUp(c) \/ Succeeds(c) \/ RegisterThenLogin(c)

\* Somebody waits for the answer to request r.
Awaited(r) ==
  \E c \in Call :
    \/ r = Main(c) /\ call[c].stage = "sent"
    \/ r = Refresh(c) /\ c \in refreshInFlight[TabOf[c]]

Server(r) ==
  /\ Serves(r) \/ (Awaited(r) /\ AnswerFails(r))
  /\ UNCHANGED <<stored, call, refreshInFlight>>

Done ==
  /\ \A c \in Call : call[c].stage \in {"done", "failed", "closed"}
  /\ UNCHANGED vars

Next ==
  \/ \E c \in Call : Send(c) \/ Continues(c)
  \/ \E t \in Tab : RefreshSettles(t) \/ CloseTab(t)
  \/ \E r \in Request : Server(r)
  \/ StrangerSignsIn /\ UNCHANGED <<stored, call, refreshInFlight>>
  \/ Done

Works ==
  \/ \E c \in Call : Continues(c)
  \/ \E t \in Tab : RefreshSettles(t)
  \/ \E r \in Request : Serves(r) /\ UNCHANGED <<stored, call, refreshInFlight>>

\* The server and the tabs' event loops do not all stand still while one of them
\* has something to do.
Fairness == WF_vars(Works)

Spec == Init /\ [][Next]_vars /\ Fairness
-----------------------------------------------------------------------------
(* Properties.                                                             *)

\* Every variable has its type.
TypeOK ==
  /\ TokenTypeOK
  /\ stored \in 0..issued
  /\ call \in [Call -> [stage : {"idle", "sent", "waiting", "done", "failed", "closed"},
                        allowRetry : BOOLEAN]]
  /\ refreshInFlight \in [Tab -> SUBSET Call]

\* "Concurrent requests that all 401 at once must share one refresh call": a
\* refresh is refused only because another tab presented the same token, the
\* user logged out or the token was too old, never because of a call of the tab
\* itself.
RefusalsHaveAReason ==
  \A c \in Call :
    LET refresh == handler[Refresh(c)] IN
      refresh.stage = "unauthorized" =>
        \/ refresh.token \in loggedOut \cup expired
        \/ \E d \in Call : TabOf[d] # TabOf[c] /\ handler[Refresh(d)].token = refresh.token

\* What the browser stores is of use: the stored refresh token is revoked only
\* while the tab that presented it waits for its successor, or was closed, or
\* while a logout is under way.
StoredTokenIsLive ==
  stored \in revoked =>
    \/ \E t \in Tab, c \in Call :
         c \in refreshInFlight[t] /\ handler[Refresh(c)].token = stored
    \/ \E c \in Call :
         /\ \/ call[c].stage = "closed"
            \/ Asks(c, "logout") /\ call[c].stage = "sent"
         /\ stored \in {handler[Main(c)].token, handler[Refresh(c)].token}

\* Whatever refresh a call waits for, it comes back with an answer or an error:
\* again and again no call is pending.
CallsSettle == []<>(\A c \in Call : call[c].stage \notin {"sent", "waiting"})
=============================================================================
