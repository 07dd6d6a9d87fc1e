--------------------------- MODULE ApiClientProofs ---------------------------
(***************************************************************************)
(* For any tabs, calls, purposes and failures: one person has one account, *)
(* a refresh is refused only for a reason outside the tab, and the stored  *)
(* refresh token is of use.                                                *)
(*                                                                         *)
(* The heart of it is that a pair is known to nobody until its answer is   *)
(* taken, and is stored at most once: so a token that a tab has exchanged  *)
(* is never the stored one again.                                          *)
(***************************************************************************)
EXTENDS ApiClient, FiniteSetTheorems, TLAPS

\* An address has one account at most, only a profile without an address leads
\* to another's, and analytics knows how the person's came about.
AccountInv ==
  /\ \A q, r \in users : q = r
  /\ \A q, r \in strays : q = r
  /\ noEmail = {} => oauthUsers \subseteq users
  /\ registered = {r \in users : r = Existing \/ handler[r].operation # "oauth"}
  /\ \A r \in users : r # Existing => handler[r].operation \in {"register", "login", "oauth"}

\* Where the rows come from: the part of the type invariant that a change of the
\* accounts can break.
AccountTypes ==
  /\ users \subseteq Request \cup {Existing}
  /\ strays \subseteq Request \cup {Stranger}
  /\ oauthUsers \subseteq users \cup strays
  /\ noEmail \subseteq Request

\* Nobody else has got, stored or presented the pair of an answer still awaited.
PairInv ==
  /\ \A r \in Request : handler[r].token \in 0..issued /\ handler[r].got \in 0..issued
  /\ \A q, r \in Request : handler[q].got = handler[r].got /\ handler[q].got # 0 => q = r
  /\ \A r \in Request : Awaited(r) /\ handler[r].got # 0 =>
       /\ handler[r].got # stored
       /\ \A q \in Request : handler[q].token # handler[r].got

Presented(c) == handler[Refresh(c)].operation = "refresh"

\* A call starts one refresh at most, and not the one another call of its tab
\* started; what was exchanged is no longer stored, unless the tab was closed.
RefreshInv ==
  /\ \A c \in Call : ~Presented(c) => handler[Refresh(c)] = NotAsked
  /\ \A c \in Call : Presented(c) =>
       /\ handler[Refresh(c)].token # 0
       /\ call[c].stage \in {"waiting", "failed", "closed"} \/ ~call[c].allowRetry
       /\ \/ c \in refreshInFlight[TabOf[c]]
          \/ call[c].stage = "closed"
          \/ handler[Refresh(c)].token # stored
  /\ \A c, d \in Call :
       /\ Presented(c) /\ Presented(d) /\ TabOf[c] = TabOf[d]
       /\ handler[Refresh(c)].token = handler[Refresh(d)].token
       => c = d
  /\ \A t \in Tab : \A c \in refreshInFlight[t] : TabOf[c] = t

\* The request itself of a call, and the calls of a closed tab.
MainInv ==
  /\ \A c \in Call : handler[Main(c)].operation # "refresh"
  /\ \A c \in Call : call[c].stage = "idle" => handler[Main(c)] = NotAsked
  /\ \A c, d \in Call : TabOf[c] = TabOf[d] /\ call[c].stage = "closed" => call[d].stage = "closed"

\* A logout that is over leaves its token stored no more.
LogoutInv ==
  \A c \in Call : Asks(c, "logout") =>
    /\ handler[Main(c)].token # 0
    /\ handler[Main(c)].stage # "unauthorized"
    /\ call[c].stage # "waiting"
    /\ call[c].stage \in {"sent", "closed"} \/ handler[Main(c)].token # stored

Past == {"authenticated", "ok", "error"}

\* Who has revoked a token.
RevokedInv ==
  /\ \A token \in revoked \ loggedOut :
       \E c \in Call : /\ Presented(c) /\ handler[Refresh(c)].token = token
                       /\ handler[Refresh(c)].stage \in Past
  /\ \A token \in loggedOut : \E c \in Call : Asks(c, "logout") /\ handler[Main(c)].token = token

IInv ==
  /\ TypeOK
  /\ AccountInv
  /\ PairInv
  /\ RefreshInv
  /\ MainInv
  /\ LogoutInv
  /\ RevokedInv
  /\ RefusalsHaveAReason
-----------------------------------------------------------------------------
(* Requests.                                                               *)

\* Every request is the main one or the refresh of one call.
LEMMA Requests ==
  /\ \A c \in Call : Main(c) \in Request /\ Refresh(c) \in Request
  /\ \A c, d \in Call : Main(c) = Main(d) => c = d
  /\ \A c, d \in Call : Refresh(c) = Refresh(d) => c = d
  /\ \A c, d \in Call : Main(c) # Refresh(d)
  /\ \A r \in Request : \E c \in Call : r = Main(c) \/ r = Refresh(c)
  BY ApiClientAssumption DEF Main, Refresh

\* What a step of the server leaves of a request, and of everything else.
Served(r) ==
  /\ UNCHANGED <<stored, call, refreshInFlight>>
  /\ handler' \in [Request -> Handlers]
  /\ \A q \in Request : q # r => handler'[q] = handler[q]
  /\ handler'[r].operation = handler[r].operation
  /\ handler'[r].token = handler[r].token
  /\ handler[r].stage # "none"
  /\ \/ issued' = issued /\ handler'[r].got = handler[r].got
     \/ issued' = issued + 1 /\ handler'[r].got = issued + 1
  /\ handler[r].stage \in Past => handler'[r].stage \in Past
  /\ expired \subseteq expired'

\* What it does to the tokens.
RevokesNothing == UNCHANGED <<revoked, loggedOut>>
RevokesPresented(r) ==
  /\ handler[r].operation = "refresh"
  /\ revoked' = revoked \cup {handler[r].token}
  /\ handler'[r].stage \in Past
  /\ UNCHANGED <<issued, loggedOut>>
RevokesLoggedOut(r) ==
  /\ handler[r].operation = "logout"
  /\ revoked' = revoked \cup {handler[r].token}
  /\ loggedOut' = loggedOut \cup {handler[r].token}
  /\ UNCHANGED issued

\* Why it refuses a refresh or a logout.
Refuses(r) ==
  handler'[r].stage = "unauthorized" =>
    \/ handler[r].stage = "unauthorized"
    \/ handler[r].operation \in {"api", "login"}
    \/ /\ handler[r].operation = "refresh" /\ handler[r].stage = "received"
       /\ handler[r].token \in revoked \cup expired' \/ handler[r].token \notin 1..issued

\* A step of one statement: the stage alone.
LEMMA GoesOn ==
  ASSUME TypeOK, NEW r \in Request, NEW stage, Goes(r, stage),
         stage \in Answers \cup {"received", "checked", "unknown", "new", "authenticated", "loaded"}
  PROVE  /\ handler' \in [Request -> Handlers]
         /\ \A q \in Request : q # r => handler'[q] = handler[q]
         /\ handler'[r].operation = handler[r].operation
         /\ handler'[r].token = handler[r].token
         /\ handler'[r].got = handler[r].got
         /\ handler'[r].stage = stage
  <1>1. handler \in [Request -> Handlers] /\ handler[r] \in Handlers
    BY DEF TypeOK, TokenTypeOK
  <1>2. [handler[r] EXCEPT !.stage = stage] \in Handlers
    BY <1>1 DEF Handlers
  <1>3. handler' = [handler EXCEPT ![r] = [handler[r] EXCEPT !.stage = stage]]
    BY <1>1 DEF Goes
  <1> QED BY <1>1, <1>2, <1>3 DEF Handlers

\* The shape of every step of the server.
LEMMA ServerShape ==
  ASSUME TypeOK, NEW r \in Request, Server(r)
  PROVE  /\ Served(r) /\ Refuses(r)
         /\ RevokesNothing \/ RevokesPresented(r) \/ RevokesLoggedOut(r)
  <1> USE DEF accounts, tokens, At, Past, Answers
  <1>0. UNCHANGED <<stored, call, refreshInFlight>>
    BY DEF Server
  <1>1. CASE GetCurrentUser(r)
    <2>1. PICK stage \in {"unauthorized", "ok"} : Goes(r, stage)
      BY <1>1 DEF GetCurrentUser
    <2> QED BY <1>0, <1>1, <2>1, GoesOn DEF GetCurrentUser, Served, Refuses, RevokesNothing
  <1>2. CASE RegisterChecks(r) \/ RegisterInserts(r)
    <2>1. PICK stage \in {"checked", "ok", "error"} : Goes(r, stage)
      BY <1>2 DEF RegisterChecks, RegisterInserts
    <2> QED BY <1>0, <1>2, <2>1, GoesOn
            DEF RegisterChecks, RegisterInserts, Served, Refuses, RevokesNothing
  <1>3. CASE OAuthFails(r) \/ OAuthFinds(r) \/ OAuthMisses(r)
    <2>1. PICK stage \in {"authenticated", "unknown", "error"} : Goes(r, stage)
      BY <1>3 DEF OAuthFails, OAuthFinds, OAuthMisses
    <2> QED BY <1>0, <1>3, <2>1, GoesOn
            DEF OAuthFails, OAuthFinds, OAuthMisses, Served, Refuses, RevokesNothing
  <1>11. CASE OAuthLinks(r) \/ OAuthMissesEmail(r) \/ OAuthCreates(r)
    <2>1. PICK stage \in {"authenticated", "new", "error"} : Goes(r, stage)
      BY <1>11 DEF OAuthLinks, OAuthMissesEmail, OAuthCreates
    <2> QED BY <1>0, <1>11, <2>1, GoesOn
            DEF OAuthLinks, OAuthMissesEmail, OAuthCreates, Served, Refuses, RevokesNothing
  <1>4. CASE Authenticate(r)
    <2>1. PICK stage \in {"authenticated", "unauthorized"} : Goes(r, stage)
      BY <1>4 DEF Authenticate
    <2> QED BY <1>0, <1>4, <2>1, GoesOn DEF Authenticate, Served, Refuses, RevokesNothing
  <1>5. CASE IssueTokenPair(r)
    <2>1. handler \in [Request -> Handlers] /\ handler[r] \in Handlers /\ issued \in Nat
      BY DEF TypeOK, TokenTypeOK
    <2> DEFINE h == [handler[r] EXCEPT !.stage = "ok", !.got = issued + 1]
    <2>2. handler' = [handler EXCEPT ![r] = h]
      BY <1>5, <2>1 DEF IssueTokenPair
    <2>3. h \in Handlers
      <3>1. [handler[r] EXCEPT !.stage = "ok"] \in Handlers
        BY <2>1 DEF Handlers
      <3>2. \A k \in Handlers : [k EXCEPT !.got = issued + 1] \in Handlers
        BY <2>1 DEF Handlers
      <3> QED BY <3>1, <3>2
    <2>4. /\ handler' \in [Request -> Handlers]
          /\ \A q \in Request : q # r => handler'[q] = handler[q]
          /\ handler'[r] = h
      BY <2>1, <2>2, <2>3
    <2>5. /\ h.operation = handler[r].operation /\ h.token = handler[r].token
          /\ h.got = issued + 1 /\ h.stage = "ok"
      BY <2>1 DEF Handlers
    <2> QED BY <1>0, <1>5, <2>4, <2>5 DEF IssueTokenPair, Served, Refuses, RevokesNothing
  <1>6. CASE RefreshLoads(r) \/ RefreshFindsExpired(r)
    <2>1. PICK stage \in {"loaded", "unauthorized"} : Goes(r, stage)
      BY <1>6 DEF RefreshLoads, RefreshFindsExpired
    <2> QED BY <1>0, <1>6, <2>1, GoesOn
            DEF RefreshLoads, RefreshFindsExpired, Usable, Served, Refuses, RevokesNothing
  <1>7. CASE RefreshRevokes(r)
    <2>1. Goes(r, "authenticated")
      BY <1>7 DEF RefreshRevokes
    <2> QED BY <1>0, <1>7, <2>1, GoesOn DEF RefreshRevokes, Served, Refuses, RevokesPresented
  <1>8. CASE LogoutLoads(r)
    <2>1. PICK stage \in {"loaded", "ok"} : Goes(r, stage)
      BY <1>8 DEF LogoutLoads
    <2> QED BY <1>0, <1>8, <2>1, GoesOn DEF LogoutLoads, Served, Refuses, RevokesNothing
  <1>9. CASE LogoutRevokes(r)
    <2>1. Goes(r, "ok")
      BY <1>9 DEF LogoutRevokes
    <2> QED BY <1>0, <1>9, <2>1, GoesOn DEF LogoutRevokes, Served, Refuses, RevokesLoggedOut
  <1>10. CASE AnswerFails(r)
    <2>1. Goes(r, "error")
      BY <1>10 DEF AnswerFails
    <2> QED BY <1>0, <1>10, <2>1, GoesOn DEF AnswerFails, Served, Refuses, RevokesNothing
  <1> QED BY <1>1, <1>2, <1>3, <1>4, <1>5, <1>6, <1>7, <1>8, <1>9, <1>10, <1>11
       DEF Server, Serves

-----------------------------------------------------------------------------
(* Steps of the server.                                                    *)

\* It leaves presented tokens as they are, and what the tabs make of them.
LEMMA ServerKeepsClients ==
  ASSUME IInv, NEW r \in Request, Served(r)
  PROVE  RefreshInv' /\ MainInv'
  <1>1. \A q \in Request : /\ handler'[q].operation = handler[q].operation
                           /\ handler'[q].token = handler[q].token
                           /\ handler[q] = NotAsked => handler'[q] = NotAsked
    BY DEF Served, NotAsked
  <1>2. UNCHANGED <<stored, call, refreshInFlight>>
    BY DEF Served
  <1>3. \A c \in Call : Presented(c)' <=> Presented(c)
    BY <1>1, Requests DEF Presented
  <1>4. RefreshInv'
    BY <1>1, <1>2, <1>3, Requests DEF IInv, RefreshInv
  <1>5. MainInv'
    BY <1>1, <1>2, Requests DEF IInv, MainInv
  <1> QED BY <1>4, <1>5

\* A pair it issues has a number of its own.
LEMMA ServerKeepsPairs ==
  ASSUME IInv, NEW r \in Request, Served(r)
  PROVE  PairInv'
  <1>0. issued \in Nat /\ stored \in 0..issued /\ issued' \in {issued, issued + 1}
    BY DEF IInv, TypeOK, TokenTypeOK, Served
  <1>1. \A q \in Request : /\ handler[q].token \in 0..issued /\ handler[q].got \in 0..issued
                           /\ handler'[q].token = handler[q].token
                           /\ q # r => handler'[q].got = handler[q].got
    BY DEF IInv, PairInv, Served
  <1>2. \/ issued' = issued /\ handler'[r].got = handler[r].got
        \/ issued' = issued + 1 /\ handler'[r].got = issued + 1
    BY DEF Served
  <1>3. stored' = stored /\ \A q \in Request : Awaited(q)' <=> Awaited(q)
    BY DEF Served, Awaited
  <1>4. \A q \in Request : handler'[q].token \in 0..issued' /\ handler'[q].got \in 0..issued'
    BY <1>0, <1>1, <1>2
  <1>5. \A p, q \in Request : handler'[p].got = handler'[q].got /\ handler'[p].got # 0 => p = q
    BY <1>0, <1>1, <1>2 DEF IInv, PairInv
  <1>6. ASSUME NEW q \in Request, Awaited(q)', handler'[q].got # 0
        PROVE  /\ handler'[q].got # stored'
               /\ \A p \in Request : handler'[p].token # handler'[q].got
    BY <1>0, <1>1, <1>2, <1>3, <1>6 DEF IInv, PairInv
  <1> QED BY <1>4, <1>5, <1>6 DEF PairInv

\* A logout is never unauthorized.
LEMMA ServerKeepsLogouts ==
  ASSUME IInv, NEW r \in Request, Served(r), Refuses(r)
  PROVE  LogoutInv'
  <1>1. UNCHANGED <<stored, call>>
    BY DEF Served
  <1>2. ASSUME NEW c \in Call, Asks(c, "logout")'
        PROVE  /\ handler'[Main(c)].token # 0
               /\ handler'[Main(c)].stage # "unauthorized"
               /\ call'[c].stage # "waiting"
               /\ call'[c].stage \in {"sent", "closed"} \/ handler'[Main(c)].token # stored'
    <2>1. /\ Main(c) \in Request /\ Asks(c, "logout")
          /\ handler'[Main(c)].token = handler[Main(c)].token
      BY <1>2, Requests DEF Served, Asks
    <2>2. handler[Main(c)].token # 0 /\ handler[Main(c)].stage # "unauthorized"
          /\ call[c].stage # "waiting"
          /\ (call[c].stage \in {"sent", "closed"} \/ handler[Main(c)].token # stored)
      BY <2>1 DEF IInv, LogoutInv
    <2>3. handler'[Main(c)].stage # "unauthorized"
      BY <2>1, <2>2 DEF Served, Refuses, Asks
    <2> QED BY <1>1, <2>1, <2>2, <2>3
  <1> QED BY <1>2 DEF LogoutInv

\* Whatever is revoked was presented or logged out.
LEMMA ServerKeepsRevoked ==
  ASSUME IInv, NEW r \in Request, Served(r),
         RevokesNothing \/ RevokesPresented(r) \/ RevokesLoggedOut(r)
  PROVE  RevokedInv'
  <1>1. \A q \in Request : /\ handler'[q].operation = handler[q].operation
                           /\ handler'[q].token = handler[q].token
                           /\ handler[q].stage \in Past => handler'[q].stage \in Past
    BY DEF Served
  <1>2. ASSUME NEW token \in (revoked \ loggedOut)'
        PROVE  \E c \in Call : /\ Presented(c)' /\ handler'[Refresh(c)].token = token
                               /\ handler'[Refresh(c)].stage \in Past
    <2>1. CASE token \in revoked \ loggedOut
      <3>1. PICK c \in Call : /\ Presented(c) /\ handler[Refresh(c)].token = token
                              /\ handler[Refresh(c)].stage \in Past
        BY <2>1 DEF IInv, RevokedInv
      <3> QED BY <1>1, <3>1, Requests DEF Presented
    <2>2. CASE token \notin revoked \ loggedOut
      <3>1. RevokesPresented(r) /\ token = handler[r].token
        BY <1>2, <2>2 DEF RevokesNothing, RevokesPresented, RevokesLoggedOut
      <3>2. PICK c \in Call : r = Refresh(c)
        BY <3>1, Requests DEF IInv, MainInv, RevokesPresented
      <3> QED BY <1>1, <3>1, <3>2, Requests DEF Presented, RevokesPresented
    <2> QED BY <2>1, <2>2
  <1>3. ASSUME NEW token \in loggedOut'
        PROVE  \E c \in Call : Asks(c, "logout")' /\ handler'[Main(c)].token = token
    <2>1. CASE token \in loggedOut
      <3>1. PICK c \in Call : Asks(c, "logout") /\ handler[Main(c)].token = token
        BY <2>1 DEF IInv, RevokedInv
      <3> QED BY <1>1, <3>1, Requests DEF Asks
    <2>2. CASE token \notin loggedOut
      <3>1. RevokesLoggedOut(r) /\ token = handler[r].token
        BY <1>3, <2>2 DEF RevokesNothing, RevokesPresented, RevokesLoggedOut
      <3>2. PICK c \in Call : r = Main(c)
        <4>1. \A c \in Call : handler[Refresh(c)].operation \in {"api", "refresh"}
          BY DEF IInv, RefreshInv, Presented, NotAsked
        <4> QED BY <3>1, <4>1, Requests DEF RevokesLoggedOut
      <3> QED BY <1>1, <3>1, <3>2, Requests DEF Asks, RevokesLoggedOut
    <2> QED BY <2>1, <2>2
  <1> QED BY <1>2, <1>3 DEF RevokedInv

\* A refresh it refuses was presented by another tab, logged out or too old.
LEMMA ServerRefusesForAReason ==
  ASSUME IInv, NEW r \in Request, Served(r), Refuses(r),
         RevokesNothing \/ RevokesPresented(r) \/ RevokesLoggedOut(r)
  PROVE  RefusalsHaveAReason'
  <1>1. \A q \in Request : handler'[q].token = handler[q].token
    BY DEF Served
  <1>2. loggedOut \subseteq loggedOut' /\ expired \subseteq expired'
    BY DEF Served, RevokesNothing, RevokesPresented, RevokesLoggedOut
  <1>3. ASSUME NEW c \in Call, handler'[Refresh(c)].stage = "unauthorized"
        PROVE  \/ handler'[Refresh(c)].token \in loggedOut' \cup expired'
               \/ \E d \in Call : /\ TabOf[d] # TabOf[c]
                                  /\ handler'[Refresh(d)].token = handler'[Refresh(c)].token
    <2> DEFINE token == handler[Refresh(c)].token
    <2>1. CASE handler[Refresh(c)].stage = "unauthorized"
      <3>1. \/ token \in loggedOut \cup expired
            \/ \E d \in Call : TabOf[d] # TabOf[c] /\ handler[Refresh(d)].token = token
        BY <2>1 DEF IInv, RefusalsHaveAReason
      <3> QED BY <1>1, <1>2, <3>1, Requests
    <2>2. CASE handler[Refresh(c)].stage # "unauthorized"
      <3>1. r = Refresh(c)
        BY <1>3, <2>2, Requests DEF Served
      <3>2. Presented(c)
        BY <1>3, <3>1 DEF Served, IInv, RefreshInv, NotAsked
      <3>3. /\ handler[Refresh(c)].stage = "received"
            /\ token \in revoked \cup expired' \/ token \notin 1..issued
        BY <1>3, <2>2, <3>1, <3>2 DEF Refuses, Presented
      <3>4. token \in 1..issued
        <4>1. token \in 0..issued /\ token # 0 /\ issued \in Nat
          BY <3>2, Requests DEF IInv, PairInv, RefreshInv, TypeOK, TokenTypeOK
        <4> QED BY <4>1
      <3>5. CASE token \in revoked \ loggedOut
        <4>1. PICK d \in Call : /\ Presented(d) /\ handler[Refresh(d)].token = token
                                /\ handler[Refresh(d)].stage \in Past
          BY <3>5 DEF IInv, RevokedInv
        <4>2. d # c
          BY <3>3, <4>1 DEF Past
        <4>3. TabOf[d] # TabOf[c]
          BY <3>2, <4>1, <4>2 DEF IInv, RefreshInv
        <4> QED BY <1>1, <4>1, <4>3, Requests
      <3> QED BY <1>1, <1>2, <3>3, <3>4, <3>5, Requests
    <2> QED BY <2>1, <2>2
  <1> QED BY <1>3 DEF RefusalsHaveAReason

\* The row of an address is inserted at most once.
LEMMA ServerKeepsAccounts ==
  ASSUME IInv, NEW r \in Request, Server(r), Served(r)
  PROVE  AccountInv' /\ AccountTypes'
  <1> USE DEF accounts, tokens, At
  <1>0. /\ AccountTypes /\ AccountInv
        /\ registered \subseteq users /\ Existing \notin Request
    BY TokenRotationAssumption DEF IInv, TypeOK, TokenTypeOK, AccountTypes
  <1>1. \A q \in Request : handler'[q].operation = handler[q].operation
    BY DEF Served
  <1>2. ASSUME UNCHANGED <<users, registered>>,
               strays' = strays \/ (strays = {} /\ strays' = {r}),
               oauthUsers' \subseteq users \cup strays',
               noEmail' = noEmail \/ noEmail' = noEmail \cup {r},
               noEmail' = {} => oauthUsers' \subseteq users
        PROVE  AccountInv' /\ AccountTypes'
    <2>1. {q \in users : q = Existing \/ handler'[q].operation # "oauth"} =
            {q \in users : q = Existing \/ handler[q].operation # "oauth"}
      BY <1>0, <1>1 DEF AccountTypes
    <2>2. AccountTypes'
      BY <1>0, <1>2 DEF AccountTypes
    <2>3. \A q \in users : q # Existing => handler'[q].operation \in {"register", "login", "oauth"}
      BY <1>0, <1>1 DEF AccountInv, AccountTypes
    <2> QED BY <1>0, <1>2, <2>1, <2>2, <2>3 DEF AccountInv
  <1>3. ASSUME users = {}, users' = {r}, handler[r].operation \in {"register", "oauth"},
               registered' = IF handler[r].operation = "oauth" THEN {} ELSE {r},
               oauthUsers' \subseteq oauthUsers \cup {r}, UNCHANGED <<strays, noEmail>>
        PROVE  AccountInv' /\ AccountTypes'
    <2>1. AccountTypes'
      BY <1>0, <1>3 DEF AccountTypes
    <2>2. noEmail' = {} => oauthUsers' \subseteq users'
      BY <1>0, <1>3 DEF AccountInv
    <2> QED BY <1>0, <1>1, <1>3, <2>1, <2>2 DEF AccountInv
  <1>4. CASE RegisterInserts(r)
    <2>1. CASE users = {}
      <3>1. users' = {r} /\ registered' = {r} /\ UNCHANGED <<strays, oauthUsers, noEmail>>
        BY <1>0, <1>4, <2>1 DEF RegisterInserts, InsertUser
      <3> QED BY <1>3, <1>4, <2>1, <3>1 DEF RegisterInserts
    <2>2. CASE users # {}
      <3>1. UNCHANGED <<users, registered, strays, oauthUsers, noEmail>>
        BY <1>0, <1>4, <2>2 DEF RegisterInserts, InsertUser
      <3> QED BY <1>0, <1>2, <3>1 DEF AccountInv, AccountTypes
    <2> QED BY <2>1, <2>2
  <1>5. CASE OAuthCreates(r)
    <2>0. UNCHANGED <<registered, noEmail>> /\ handler[r].operation = "oauth"
      BY <1>5 DEF OAuthCreates
    <2>1. CASE r \notin noEmail /\ users = {}
      <3>1. users' = {r} /\ UNCHANGED strays /\ oauthUsers' = oauthUsers \cup {r}
        BY <1>5, <2>1 DEF OAuthCreates, InsertUser
      <3>2. registered' = {}
        BY <1>0, <2>0, <2>1
      <3> QED BY <1>3, <2>0, <2>1, <3>1, <3>2
    <2>2. CASE r \notin noEmail /\ users # {}
      <3>1. UNCHANGED <<users, strays, oauthUsers>>
        BY <1>5, <2>2 DEF OAuthCreates, InsertUser
      <3> QED BY <1>0, <1>2, <2>0, <3>1 DEF AccountInv, AccountTypes
    <2>3. CASE r \in noEmail
      <3>1. /\ UNCHANGED users
            /\ strays' = strays \/ (strays = {} /\ strays' = {r})
            /\ oauthUsers' = oauthUsers \cup (strays' \ strays)
        BY <1>5, <2>3 DEF OAuthCreates, InsertUser
      <3>2. oauthUsers' \subseteq users \cup strays'
        BY <1>0, <3>1 DEF AccountTypes
      <3> QED BY <1>2, <2>0, <2>3, <3>1, <3>2
    <2> QED BY <2>1, <2>2, <2>3
  <1>6. CASE OAuthLinks(r)
    <2>1. UNCHANGED <<users, strays, registered, noEmail>> /\ oauthUsers' = oauthUsers \cup WithEmail(r)
      BY <1>6 DEF OAuthLinks
    <2>2. WithEmail(r) \subseteq users \cup strays /\ (noEmail = {} => WithEmail(r) = users)
      BY DEF WithEmail
    <2> QED BY <1>0, <1>2, <2>1, <2>2 DEF AccountInv, AccountTypes
  <1>7. CASE OAuthMisses(r)
    <2>1. /\ UNCHANGED <<users, strays, oauthUsers, registered>> /\ oauthUsers = {}
          /\ noEmail' = noEmail \/ noEmail' = noEmail \cup {r}
      BY <1>7 DEF OAuthMisses
    <2> QED BY <1>2, <2>1
  <1>8. CASE UNCHANGED accounts
    BY <1>0, <1>2, <1>8 DEF AccountInv, AccountTypes
  <1>9. \/ RegisterInserts(r) \/ OAuthCreates(r) \/ OAuthLinks(r) \/ OAuthMisses(r)
        \/ UNCHANGED accounts
    BY DEF Server, Serves, GetCurrentUser, RegisterChecks, OAuthFails, OAuthFinds,
       OAuthMissesEmail, Authenticate, IssueTokenPair, RefreshLoads, RefreshFindsExpired,
       RefreshRevokes, LogoutLoads, LogoutRevokes, AnswerFails
  <1> QED BY <1>4, <1>5, <1>6, <1>7, <1>8, <1>9

\* The types.
LEMMA ServerKeepsTypes ==
  ASSUME IInv, NEW r \in Request, Server(r), Served(r), AccountInv',
         AccountTypes',
         RevokesNothing \/ RevokesPresented(r) \/ RevokesLoggedOut(r)
  PROVE  TypeOK'
  <1> USE DEF accounts, tokens, At
  <1>0. TypeOK /\ TokenTypeOK /\ issued \in Nat
    BY DEF IInv, TypeOK, TokenTypeOK
  <1>1. issued' \in Nat /\ 0..issued \subseteq 0..issued' /\ 1..issued \subseteq 1..issued'
    BY <1>0 DEF Served
  <1>2. handler[r].operation \in {"refresh", "logout"} => handler[r].token \in 1..issued
    <2>1. handler[r].token \in 0..issued
      BY DEF IInv, PairInv
    <2>2. PICK c \in Call : r = Main(c) \/ r = Refresh(c)
      BY Requests
    <2>3. handler[r].operation \in {"refresh", "logout"} => handler[r].token # 0
      BY <2>2 DEF IInv, RefreshInv, MainInv, LogoutInv, Presented, NotAsked, Asks
    <2> QED BY <1>0, <2>1, <2>3
  <1>3. revoked' \subseteq 1..issued' /\ loggedOut' \subseteq revoked'
    BY <1>0, <1>1, <1>2 DEF TokenTypeOK, RevokesNothing, RevokesPresented, RevokesLoggedOut
  <1>4. expired' \subseteq 1..issued'
    <2>1. CASE RefreshFindsExpired(r)
      BY <1>0, <1>1, <2>1 DEF RefreshFindsExpired, TokenTypeOK
    <2>2. CASE ~RefreshFindsExpired(r)
      <3>1. expired' = expired
        BY <2>2 DEF Server, Serves, GetCurrentUser, RegisterChecks, RegisterInserts, OAuthFails,
           OAuthFinds, OAuthMisses, OAuthLinks, OAuthMissesEmail, OAuthCreates, Authenticate, IssueTokenPair, RefreshLoads,
           RefreshRevokes, LogoutLoads, LogoutRevokes, AnswerFails
      <3> QED BY <1>0, <1>1, <3>1 DEF TokenTypeOK
    <2> QED BY <2>1, <2>2
  <1>5. registered' \subseteq users'
    BY DEF AccountInv
  <1>6. TokenTypeOK'
    BY <1>1, <1>3, <1>4, <1>5 DEF TokenTypeOK, AccountTypes, Served
  <1>7. stored' \in 0..issued'
    BY <1>0, <1>1 DEF TypeOK, Served
  <1> QED BY <1>0, <1>6, <1>7 DEF TypeOK, Served

\* A step of the server keeps the invariant.
LEMMA ServerKeeps ==
  ASSUME IInv, NEW r \in Request, Server(r)
  PROVE  IInv'
  <1>1. /\ TypeOK /\ Served(r) /\ Refuses(r)
        /\ RevokesNothing \/ RevokesPresented(r) \/ RevokesLoggedOut(r)
    BY ServerShape DEF IInv
  <1>2. AccountInv' /\ AccountTypes'
    BY <1>1, ServerKeepsAccounts
  <1>3. TypeOK'
    BY <1>1, <1>2, ServerKeepsTypes
  <1> QED BY <1>1, <1>2, <1>3, ServerKeepsClients, ServerKeepsPairs, ServerKeepsLogouts,
           ServerKeepsRevoked, ServerRefusesForAReason DEF IInv

\* The stranger's callback changes no row but the one at the address "None".
LEMMA StrangerKeeps ==
  ASSUME IInv, StrangerSignsIn, UNCHANGED <<stored, call, refreshInFlight>>
  PROVE  IInv'
  <1>1. UNCHANGED <<users, registered, noEmail, tokens, handler, stored, call, refreshInFlight>>
    BY DEF StrangerSignsIn
  <1>2. /\ strays' \subseteq strays \cup {Stranger} /\ strays \subseteq strays'
        /\ \A q, s \in strays' : q = s
        /\ oauthUsers' \subseteq oauthUsers
    BY DEF StrangerSignsIn, InsertUser, IInv, AccountInv
  <1>3. TypeOK'
    BY <1>1, <1>2 DEF tokens, IInv, TypeOK, TokenTypeOK
  <1>4. AccountInv'
    BY <1>1, <1>2 DEF IInv, AccountInv
  <1>5. PairInv' /\ RefreshInv' /\ MainInv' /\ LogoutInv' /\ RevokedInv' /\ RefusalsHaveAReason'
    BY <1>1 DEF tokens, IInv, PairInv, Awaited, RefreshInv, Presented, MainInv, LogoutInv,
       RevokedInv, RefusalsHaveAReason, Asks
  <1> QED BY <1>3, <1>4, <1>5 DEF IInv

-----------------------------------------------------------------------------
(* Steps of the tabs.                                                      *)

\* A request that is made is well-formed.
LEMMA AskedType ==
  ASSUME NEW operation \in Operations, NEW token \in Nat
  PROVE  /\ Asked(operation, token) \in Handlers
         /\ Asked(operation, token).operation = operation
         /\ Asked(operation, token).stage = "received"
         /\ Asked(operation, token).token = token
         /\ Asked(operation, token).got = 0
  BY DEF Asked, Handlers

\* The server's tables are none of a tab's business.
LEMMA TabsKeepTypes ==
  ASSUME IInv, UNCHANGED <<accounts, tokens>>, stored' \in 0..issued,
         handler' \in [Request -> Handlers],
         call' \in [Call -> [stage : {"idle", "sent", "waiting", "done", "failed", "closed"},
                             allowRetry : BOOLEAN]],
         refreshInFlight' \in [Tab -> SUBSET Call]
  PROVE  TypeOK'
  BY DEF IInv, TypeOK, TokenTypeOK, accounts, tokens

\* A step that touches no record of the server but those it makes anew, of
\* requests that have no account, keeps what the server knows.
LEMMA TabsKeepServer ==
  ASSUME IInv, UNCHANGED <<accounts, tokens>>,
         \A r \in Request :
           \/ handler'[r] = handler[r]
           \/ handler[r] = NotAsked
           \/ /\ \/ handler'[r].operation = handler[r].operation
                 \/ handler[r].operation = "register" /\ handler'[r].operation = "login"
              /\ handler[r].operation \notin {"refresh", "logout"}
              /\ handler'[r].operation \notin {"refresh", "logout"}
  PROVE  AccountInv' /\ RevokedInv'
  <1> USE DEF accounts, tokens
  <1>1. AccountInv'
    <2>1. \A r \in users : r # Existing =>
            /\ r \in Request
            /\ handler'[r].operation \in {"register", "login", "oauth"}
            /\ handler'[r].operation = "oauth" <=> handler[r].operation = "oauth"
      BY DEF IInv, TypeOK, TokenTypeOK, AccountInv, NotAsked
    <2>2. {r \in users : r = Existing \/ handler'[r].operation # "oauth"} =
            {r \in users : r = Existing \/ handler[r].operation # "oauth"}
      BY <2>1
    <2> QED BY <2>1, <2>2 DEF IInv, AccountInv
  <1>2. \A c \in Call : Presented(c) => handler'[Refresh(c)] = handler[Refresh(c)]
    BY Requests DEF Presented, NotAsked
  <1>3. \A c \in Call : Asks(c, "logout") => handler'[Main(c)] = handler[Main(c)]
    BY Requests DEF Asks, NotAsked
  <1>4. RevokedInv'
    BY <1>2, <1>3 DEF IInv, RevokedInv, Presented, Asks
  <1> QED BY <1>1, <1>4

\* fetch.
LEMMA SendKeeps ==
  ASSUME IInv, NEW c \in Call, Send(c)
  PROVE  IInv'
  <1> USE DEF accounts, tokens
  <1>0. /\ TypeOK /\ TokenTypeOK /\ stored \in Nat /\ stored \in 0..issued
        /\ handler \in [Request -> Handlers] /\ Main(c) \in Request
        /\ handler[Main(c)] = NotAsked
    BY Requests DEF IInv, TypeOK, TokenTypeOK, Send, MainInv
  <1>1. PICK operation \in Operations \ {"refresh"} :
          IF operation = "logout" /\ stored = 0
            THEN Stage(c, "done") /\ UNCHANGED handler
            ELSE Stage(c, "sent") /\ handler' = [handler EXCEPT ![Main(c)] = Asked(operation, stored)]
    BY ApiClientAssumption DEF Send
  <1>2. /\ UNCHANGED <<accounts, tokens, stored, refreshInFlight>>
        /\ call[c].stage = "idle"
    BY DEF Send
  <1>3. PICK stage \in {"done", "sent"} : call' = [call EXCEPT ![c].stage = stage]
    BY <1>1 DEF Stage
  <1>4. /\ call' \in [Call -> [stage : {"idle", "sent", "waiting", "done", "failed", "closed"},
                               allowRetry : BOOLEAN]]
        /\ \A d \in Call : d # c => call'[d] = call[d]
        /\ call'[c].stage = stage /\ call'[c].allowRetry = call[c].allowRetry
    BY <1>0, <1>3 DEF TypeOK
  <1>5. /\ handler' \in [Request -> Handlers]
        /\ \A r \in Request : r # Main(c) => handler'[r] = handler[r]
        /\ \/ stage = "done" /\ handler'[Main(c)] = NotAsked
           \/ /\ stage = "sent" /\ handler'[Main(c)] = Asked(operation, stored)
              /\ operation = "logout" => stored # 0
    BY <1>0, <1>1, <1>3, <1>4, AskedType DEF Stage
  <1>6. TypeOK'
    BY <1>0, <1>2, <1>4, <1>5, TabsKeepTypes DEF TypeOK
  <1>7. AccountInv' /\ RevokedInv'
    BY <1>0, <1>2, <1>5, TabsKeepServer
  <1>8. \A d \in Call : handler'[Refresh(d)] = handler[Refresh(d)]
    BY <1>5, Requests
  <1>9. PairInv'
    <2>1. \A r \in Request : Awaited(r)' /\ handler'[r].got # 0 =>
            Awaited(r) /\ r # Main(c) /\ handler'[r] = handler[r]
      BY <1>2, <1>4, <1>5, Requests, AskedType, <1>0 DEF Awaited, NotAsked
    <2>2. \A r \in Request : /\ handler'[r].got \in {0, handler[r].got}
                             /\ handler'[r].token \in {0, stored, handler[r].token}
      BY <1>0, <1>5, AskedType DEF NotAsked
    <2>3. issued' = issued /\ issued \in Nat
      BY <1>0, <1>2 DEF TokenTypeOK
    <2>4. \A r \in Request : handler'[r].token \in 0..issued' /\ handler'[r].got \in 0..issued'
      BY <1>0, <2>2, <2>3 DEF IInv, PairInv
    <2>5. \A q, r \in Request : handler'[q].got = handler'[r].got /\ handler'[q].got # 0 => q = r
      BY <2>2 DEF IInv, PairInv
    <2>6. \A r \in Request : Awaited(r)' /\ handler'[r].got # 0 =>
            /\ handler'[r].got # stored'
            /\ \A q \in Request : handler'[q].token # handler'[r].got
      BY <1>2, <2>1, <2>2 DEF IInv, PairInv
    <2> QED BY <2>4, <2>5, <2>6 DEF PairInv
  <1>10. RefreshInv'
    BY <1>2, <1>4, <1>8 DEF IInv, RefreshInv, Presented
  <1>11. MainInv'
    <2>1. handler'[Main(c)].operation # "refresh"
      BY <1>0, <1>5, AskedType DEF NotAsked
    <2>2. \A d \in Call : d # c => handler'[Main(d)] = handler[Main(d)]
      BY <1>5, Requests
    <2>3. \A d \in Call : handler'[Main(d)].operation # "refresh"
      BY <2>1, <2>2 DEF IInv, MainInv
    <2>4. \A d \in Call : call'[d].stage = "idle" => handler'[Main(d)] = NotAsked
      BY <1>4, <2>2 DEF IInv, MainInv
    <2>5. \A d, e \in Call : TabOf[d] = TabOf[e] /\ call'[d].stage = "closed" =>
            call'[e].stage = "closed"
      BY <1>2, <1>4 DEF IInv, MainInv
    <2> QED BY <2>3, <2>4, <2>5 DEF MainInv
  <1>12. LogoutInv'
    <2> SUFFICES ASSUME NEW d \in Call, Asks(d, "logout")'
                 PROVE  /\ handler'[Main(d)].token # 0 /\ handler'[Main(d)].stage # "unauthorized"
                        /\ call'[d].stage # "waiting"
                        /\ call'[d].stage \in {"sent", "closed"} \/ handler'[Main(d)].token # stored'
      BY DEF LogoutInv
    <2>1. CASE d # c
      <3>1. handler'[Main(d)] = handler[Main(d)] /\ call'[d] = call[d] /\ stored' = stored
        BY <1>2, <1>4, <1>5, <2>1, Requests
      <3> QED BY <3>1 DEF IInv, LogoutInv, Asks
    <2>2. CASE d = c
      <3>1. operation = "logout" /\ stage = "sent" /\ handler'[Main(c)] = Asked(operation, stored)
        BY <1>0, <1>5, <2>2, AskedType DEF Asks, NotAsked
      <3> QED BY <1>0, <1>4, <1>5, <2>2, <3>1, AskedType
    <2> QED BY <2>1, <2>2
  <1>13. RefusalsHaveAReason'
    BY <1>2, <1>8 DEF IInv, RefusalsHaveAReason
  <1> QED BY <1>6, <1>7, <1>9, <1>10, <1>11, <1>12, <1>13 DEF IInv

\* tryRefresh.
LEMMA TryRefreshKeeps ==
  ASSUME IInv, NEW c \in Call, TryRefresh(c)
  PROVE  IInv'
  <1> USE DEF accounts, tokens
  <1> DEFINE t == TabOf[c]
  <1>0. /\ TypeOK /\ TokenTypeOK /\ stored \in Nat /\ stored \in 0..issued /\ stored # 0
        /\ handler \in [Request -> Handlers] /\ Main(c) \in Request /\ Refresh(c) \in Request
        /\ t \in Tab /\ refreshInFlight \in [Tab -> SUBSET Call]
    <2>1. TypeOK /\ TokenTypeOK /\ refreshInFlight \in [Tab -> SUBSET Call]
      BY DEF IInv, TypeOK
    <2>2. stored \in Nat /\ stored \in 0..issued /\ handler \in [Request -> Handlers]
      BY <2>1 DEF TypeOK, TokenTypeOK
    <2>3. Main(c) \in Request /\ Refresh(c) \in Request /\ t \in Tab
      BY Requests, ApiClientAssumption
    <2> QED BY <2>1, <2>2, <2>3 DEF TryRefresh
  <1>1. /\ UNCHANGED <<accounts, tokens, stored>>
        /\ call[c].stage = "sent" /\ call[c].allowRetry
        /\ handler[Main(c)].stage = "unauthorized"
        /\ call' = [call EXCEPT ![c].stage = "waiting"]
    BY DEF TryRefresh, Answered, Stage
  <1>2. /\ call' \in [Call -> [stage : {"idle", "sent", "waiting", "done", "failed", "closed"},
                               allowRetry : BOOLEAN]]
        /\ \A d \in Call : d # c => call'[d] = call[d]
        /\ call'[c].stage = "waiting" /\ call'[c].allowRetry = call[c].allowRetry
    BY <1>0, <1>1 DEF TypeOK
  <1>3. ~Presented(c) /\ handler[Refresh(c)] = NotAsked
    BY <1>1 DEF IInv, RefreshInv
  <1>4. /\ handler' \in [Request -> Handlers]
        /\ \A r \in Request : r # Refresh(c) => handler'[r] = handler[r]
        /\ refreshInFlight' \in [Tab -> SUBSET Call]
        /\ \A u \in Tab : u # t => refreshInFlight'[u] = refreshInFlight[u]
        /\ \/ /\ refreshInFlight'[t] = refreshInFlight[t]
              /\ handler'[Refresh(c)] = NotAsked
           \/ /\ refreshInFlight[t] = {} /\ refreshInFlight'[t] = {c}
              /\ handler'[Refresh(c)] = Asked("refresh", stored)
    <2>1. Asked("refresh", stored) \in Handlers
      BY <1>0, AskedType DEF Operations
    <2> QED BY <1>0, <1>3, <2>1 DEF TryRefresh
  <1>5. /\ Asked("refresh", stored).operation = "refresh" /\ Asked("refresh", stored).got = 0
        /\ Asked("refresh", stored).token = stored /\ Asked("refresh", stored).stage = "received"
    BY <1>0, AskedType DEF Operations
  <1>6. TypeOK'
    BY <1>0, <1>1, <1>2, <1>4, TabsKeepTypes
  <1>7. AccountInv' /\ RevokedInv'
    BY <1>1, <1>3, <1>4, TabsKeepServer
  <1>8. \A d \in Call : /\ handler'[Main(d)] = handler[Main(d)]
                        /\ d # c => handler'[Refresh(d)] = handler[Refresh(d)]
    BY <1>4, Requests
  <1>9. PairInv'
    <2>1. \A r \in Request : Awaited(r)' /\ handler'[r].got # 0 =>
            Awaited(r) /\ r # Refresh(c) /\ handler'[r] = handler[r]
      BY <1>2, <1>3, <1>4, <1>5, Requests, ApiClientAssumption DEF Awaited, NotAsked
    <2>2. \A r \in Request : /\ handler'[r].got \in {0, handler[r].got}
                             /\ handler'[r].token \in {0, stored, handler[r].token}
      BY <1>3, <1>4, <1>5 DEF NotAsked
    <2>3. issued' = issued /\ issued \in Nat
      BY <1>0, <1>1 DEF TokenTypeOK
    <2>4. \A r \in Request : handler'[r].token \in 0..issued' /\ handler'[r].got \in 0..issued'
      BY <1>0, <2>2, <2>3 DEF IInv, PairInv
    <2>5. \A q, r \in Request : handler'[q].got = handler'[r].got /\ handler'[q].got # 0 => q = r
      BY <2>2 DEF IInv, PairInv
    <2>6. \A r \in Request : Awaited(r)' /\ handler'[r].got # 0 =>
            /\ handler'[r].got # stored'
            /\ \A q \in Request : handler'[q].token # handler'[r].got
      BY <1>1, <2>1, <2>2 DEF IInv, PairInv
    <2> QED BY <2>4, <2>5, <2>6 DEF PairInv
  <1>10. RefreshInv'
    <2>1. CASE handler'[Refresh(c)] = NotAsked
      <3>1. UNCHANGED refreshInFlight
        BY <1>0, <1>4, <1>5, <2>1 DEF NotAsked
      <3> QED BY <1>1, <1>2, <1>3, <1>8, <2>1, <3>1 DEF IInv, RefreshInv, Presented
    <2>2. CASE refreshInFlight[t] = {} /\ refreshInFlight'[t] = {c}
               /\ handler'[Refresh(c)] = Asked("refresh", stored)
      <3>1. \A d \in Call : d # c /\ TabOf[d] = t /\ Presented(d) =>
              handler[Refresh(d)].token # stored
        <4>1. \A d \in Call : TabOf[d] = t => call[d].stage # "closed"
          BY <1>1 DEF IInv, MainInv
        <4> QED BY <2>2, <4>1 DEF IInv, RefreshInv
      <3>2. \A d \in Call : d # c => (Presented(d)' <=> Presented(d))
        BY <1>8 DEF Presented
      <3>3. Presented(c)' /\ handler'[Refresh(c)].token = stored
        BY <1>5, <2>2 DEF Presented
      <3>4. \A d \in Call : ~Presented(d)' => handler'[Refresh(d)] = NotAsked
        BY <1>8, <3>2, <3>3 DEF IInv, RefreshInv
      <3>5. ASSUME NEW d \in Call, Presented(d)'
            PROVE  /\ handler'[Refresh(d)].token # 0
                   /\ call'[d].stage \in {"waiting", "failed", "closed"} \/ ~call'[d].allowRetry
                   /\ \/ d \in refreshInFlight'[TabOf[d]]
                      \/ call'[d].stage = "closed"
                      \/ handler'[Refresh(d)].token # stored'
        <4>1. CASE d = c
          BY <1>0, <1>2, <2>2, <3>3, <4>1
        <4>2. CASE d # c
          <5>1. Presented(d) /\ handler'[Refresh(d)] = handler[Refresh(d)] /\ call'[d] = call[d]
            BY <1>2, <1>8, <3>2, <3>5, <4>2
          <5>2. d \in refreshInFlight[TabOf[d]] => d \in refreshInFlight'[TabOf[d]]
            BY <1>4, <2>2, ApiClientAssumption
          <5> QED BY <1>1, <5>1, <5>2 DEF IInv, RefreshInv
        <4> QED BY <4>1, <4>2
      <3>6. ASSUME NEW d \in Call, NEW e \in Call, Presented(d)', Presented(e)', TabOf[d] = TabOf[e],
                   handler'[Refresh(d)].token = handler'[Refresh(e)].token
            PROVE  d = e
        BY <1>8, <3>1, <3>2, <3>3, <3>6 DEF IInv, RefreshInv
      <3>7. \A u \in Tab : \A d \in refreshInFlight'[u] : TabOf[d] = u
        BY <1>4, <2>2 DEF IInv, RefreshInv
      <3> QED BY <3>4, <3>5, <3>6, <3>7 DEF RefreshInv
    <2> QED BY <1>4, <2>1, <2>2
  <1>11. MainInv'
    BY <1>1, <1>2, <1>8 DEF IInv, MainInv
  <1>12. LogoutInv'
    <2>1. ~Asks(c, "logout")
      BY <1>1 DEF IInv, LogoutInv
    <2> QED BY <1>1, <1>2, <1>8, <2>1 DEF IInv, LogoutInv, Asks
  <1>13. RefusalsHaveAReason'
    <2>1. handler'[Refresh(c)].stage # "unauthorized"
      BY <1>4, <1>5 DEF NotAsked
    <2>2. ASSUME NEW e \in Call, e # c, handler[Refresh(e)].stage = "unauthorized",
                 NEW d \in Call, TabOf[d] # TabOf[e],
                 handler[Refresh(d)].token = handler[Refresh(e)].token
          PROVE  handler'[Refresh(d)].token = handler'[Refresh(e)].token
      <3>1. Presented(e)
        BY <2>2 DEF IInv, RefreshInv, NotAsked
      <3>2. d # c
        BY <1>3, <2>2, <3>1 DEF IInv, RefreshInv, NotAsked
      <3> QED BY <1>8, <2>2, <3>2
    <2> QED BY <1>1, <1>8, <2>1, <2>2 DEF IInv, RefusalsHaveAReason
  <1> QED BY <1>6, <1>7, <1>9, <1>10, <1>11, <1>12, <1>13 DEF IInv

\* A step that only changes how far call c is and what is stored.
LEMMA EndsCall ==
  ASSUME IInv, NEW c \in Call, call[c].stage = "sent",
         NEW stage \in {"failed", "done"}, Stage(c, stage),
         UNCHANGED <<accounts, tokens, handler, refreshInFlight>>,
         \/ stored' = 0
         \/ stored' = stored /\ ~Asks(c, "logout")
         \/ stored' = handler[Main(c)].got /\ ~Asks(c, "logout")
  PROVE  IInv'
  <1> USE DEF accounts, tokens
  <1>0. /\ TypeOK /\ TokenTypeOK /\ stored \in Nat /\ stored \in 0..issued /\ issued \in Nat
        /\ handler \in [Request -> Handlers] /\ Main(c) \in Request
        /\ handler[Main(c)].got \in 0..issued
    BY Requests DEF IInv, TypeOK, TokenTypeOK, PairInv
  <1>1. /\ call' \in [Call -> [stage : {"idle", "sent", "waiting", "done", "failed", "closed"},
                               allowRetry : BOOLEAN]]
        /\ \A d \in Call : d # c => call'[d] = call[d]
        /\ call'[c].stage = stage /\ call'[c].allowRetry = call[c].allowRetry
    BY <1>0 DEF TypeOK, Stage
  <1>2. TypeOK'
    <2>1. stored' \in 0..issued
      BY <1>0
    <2> QED BY <1>0, <1>1, <2>1, TabsKeepTypes DEF TypeOK
  <1>3. AccountInv' /\ RevokedInv'
    BY TabsKeepServer
  <1>4. \A r \in Request : Awaited(r)' => Awaited(r) /\ r # Main(c)
    BY <1>1, Requests DEF Awaited
  <1>5. Awaited(Main(c))
    BY DEF Awaited
  <1>6. \A r \in Request : handler[r].token # 0 => stored' = stored \/ handler[r].token # stored'
    BY <1>0, <1>5 DEF IInv, PairInv
  <1>7. PairInv'
    <2>1. ASSUME NEW r \in Request, Awaited(r)', handler[r].got # 0
          PROVE  handler[r].got # stored'
      BY <1>0, <1>4, <2>1 DEF IInv, PairInv
    <2> QED BY <1>4, <2>1 DEF IInv, PairInv
  <1>8. RefreshInv'
    <2>1. ASSUME NEW d \in Call, Presented(d)
          PROVE  /\ call'[d].stage \in {"waiting", "failed", "closed"} \/ ~call'[d].allowRetry
                 /\ \/ d \in refreshInFlight[TabOf[d]]
                    \/ call'[d].stage = "closed"
                    \/ handler[Refresh(d)].token # stored'
      <3>1. /\ Refresh(d) \in Request /\ handler[Refresh(d)].token # 0
            /\ call[d].stage \in {"waiting", "failed", "closed"} \/ ~call[d].allowRetry
            /\ \/ d \in refreshInFlight[TabOf[d]]
               \/ call[d].stage = "closed"
               \/ handler[Refresh(d)].token # stored
        BY <2>1, Requests DEF IInv, RefreshInv
      <3> QED BY <1>1, <1>6, <3>1
    <2> QED BY <2>1 DEF IInv, RefreshInv, Presented
  <1>9. MainInv'
    BY <1>1 DEF IInv, MainInv
  <1>10. LogoutInv'
    <2>1. ASSUME NEW d \in Call, Asks(d, "logout")
          PROVE  /\ call'[d].stage # "waiting"
                 /\ call'[d].stage \in {"sent", "closed"} \/ handler[Main(d)].token # stored'
      <3>1. /\ Main(d) \in Request /\ handler[Main(d)].token # 0
            /\ call[d].stage # "waiting"
            /\ call[d].stage \in {"sent", "closed"} \/ handler[Main(d)].token # stored
        BY <2>1, Requests DEF IInv, LogoutInv
      <3>2. d = c => stored' = 0
        BY <2>1
      <3> QED BY <1>1, <1>6, <3>1, <3>2
    <2> QED BY <2>1 DEF IInv, LogoutInv, Asks
  <1>11. RefusalsHaveAReason'
    BY DEF IInv, RefusalsHaveAReason
  <1> QED BY <1>2, <1>3, <1>7, <1>8, <1>9, <1>10, <1>11 DEF IInv

\* A registration goes on to its login.
LEMMA RegisterThenLoginKeeps ==
  ASSUME IInv, NEW c \in Call, RegisterThenLogin(c)
  PROVE  IInv'
  <1> USE DEF accounts, tokens
  <1>0. /\ TypeOK /\ TokenTypeOK /\ stored \in Nat /\ stored \in 0..issued /\ issued \in Nat
        /\ handler \in [Request -> Handlers] /\ Main(c) \in Request
        /\ handler[Main(c)].operation = "register" /\ call[c].stage = "sent"
    BY Requests DEF IInv, TypeOK, TokenTypeOK, RegisterThenLogin, Asks, Answered
  <1>1. /\ UNCHANGED <<accounts, tokens, stored, call, refreshInFlight>>
        /\ handler' = [handler EXCEPT ![Main(c)] = Asked("login", stored)]
    BY DEF RegisterThenLogin
  <1>2. /\ Asked("login", stored) \in Handlers
        /\ Asked("login", stored).operation = "login" /\ Asked("login", stored).got = 0
        /\ Asked("login", stored).token = stored /\ Asked("login", stored).stage = "received"
    BY <1>0, AskedType DEF Operations
  <1>3. /\ handler' \in [Request -> Handlers]
        /\ \A r \in Request : r # Main(c) => handler'[r] = handler[r]
        /\ handler'[Main(c)] = Asked("login", stored)
    BY <1>0, <1>1, <1>2
  <1>4. TypeOK'
    BY <1>0, <1>1, <1>3, TabsKeepTypes DEF TypeOK
  <1>5. AccountInv' /\ RevokedInv'
    BY <1>0, <1>1, <1>2, <1>3, TabsKeepServer
  <1>6. \A d \in Call : /\ handler'[Refresh(d)] = handler[Refresh(d)]
                        /\ d # c => handler'[Main(d)] = handler[Main(d)]
    BY <1>3, Requests
  <1>7. PairInv'
    <2>1. \A r \in Request : Awaited(r)' <=> Awaited(r)
      BY <1>1 DEF Awaited
    <2>2. \A r \in Request : /\ handler'[r].got \in {0, handler[r].got}
                             /\ handler'[r].token \in {stored, handler[r].token}
      BY <1>2, <1>3
    <2>3. \A r \in Request : handler'[r].token \in 0..issued' /\ handler'[r].got \in 0..issued'
      BY <1>0, <1>1, <2>2 DEF IInv, PairInv
    <2>4. \A q, r \in Request : handler'[q].got = handler'[r].got /\ handler'[q].got # 0 => q = r
      BY <2>2 DEF IInv, PairInv
    <2>5. \A r \in Request : Awaited(r)' /\ handler'[r].got # 0 =>
            /\ handler'[r].got # stored'
            /\ \A q \in Request : handler'[q].token # handler'[r].got
      BY <1>1, <2>1, <2>2 DEF IInv, PairInv
    <2> QED BY <2>3, <2>4, <2>5 DEF PairInv
  <1>8. RefreshInv'
    BY <1>1, <1>6 DEF IInv, RefreshInv, Presented
  <1>9. MainInv'
    BY <1>0, <1>1, <1>2, <1>3, <1>6 DEF IInv, MainInv
  <1>10. LogoutInv'
    BY <1>1, <1>2, <1>3, <1>6 DEF IInv, LogoutInv, Asks
  <1>11. RefusalsHaveAReason'
    BY <1>1, <1>6 DEF IInv, RefusalsHaveAReason
  <1> QED BY <1>4, <1>5, <1>7, <1>8, <1>9, <1>10, <1>11 DEF IInv

\* The shared promise answers.
LEMMA RefreshSettlesKeeps ==
  ASSUME IInv, NEW t \in Tab, RefreshSettles(t)
  PROVE  IInv'
  <1> USE DEF accounts, tokens
  <1>1. PICK c \in refreshInFlight[t] :
          LET answer == handler[Refresh(c)] IN
            /\ stored' = IF answer.stage = "ok" THEN answer.got ELSE 0
            /\ refreshInFlight' = [refreshInFlight EXCEPT ![t] = {}]
            /\ Resume(Waiting(t), answer.stage = "ok", answer.got)
            /\ UNCHANGED <<accounts, tokens>>
    BY DEF RefreshSettles
  <1> DEFINE ok == handler[Refresh(c)].stage = "ok"
             new == handler[Refresh(c)].got
             callers == Waiting(t)
  <1>0. /\ TypeOK /\ TokenTypeOK /\ stored \in Nat /\ stored \in 0..issued /\ issued \in Nat
        /\ handler \in [Request -> Handlers] /\ c \in Call /\ Refresh(c) \in Request
        /\ TabOf[c] = t /\ new \in 0..issued /\ new \in Nat
        /\ refreshInFlight \in [Tab -> SUBSET Call] /\ callers \subseteq Call
        /\ \A d \in callers : TabOf[d] = t /\ call[d].stage = "waiting"
    <2>1. c \in Call /\ TypeOK /\ TokenTypeOK /\ TabOf[c] = t
      BY DEF IInv, TypeOK, RefreshInv
    <2> QED BY <2>1, Requests DEF IInv, TypeOK, TokenTypeOK, PairInv, Waiting, Calls
  <1>2. Awaited(Refresh(c))
    BY <1>0 DEF Awaited
  <1>3. stored' \in {0, new} /\ (ok => stored' = new)
    BY <1>1
  <1>4. /\ refreshInFlight' \in [Tab -> SUBSET Call]
        /\ refreshInFlight'[t] = {}
        /\ \A u \in Tab : u # t => refreshInFlight'[u] = refreshInFlight[u]
    BY <1>0, <1>1
  <1>5. /\ \A d \in Call : d \notin callers => call'[d] = call[d]
        /\ \A d \in callers :
             \/ ok /\ call'[d] = [stage |-> "sent", allowRetry |-> FALSE]
             \/ ~ok /\ call'[d] = [stage |-> "failed", allowRetry |-> call[d].allowRetry]
        /\ call' \in [Call -> [stage : {"idle", "sent", "waiting", "done", "failed", "closed"},
                               allowRetry : BOOLEAN]]
    BY <1>0, <1>1 DEF Resume, TypeOK
  <1>5a. ASSUME NEW d \in callers
         PROVE  \/ ok /\ call'[d].stage = "sent" /\ ~call'[d].allowRetry
                \/ ~ok /\ call'[d].stage = "failed"
    <2> HIDE DEF ok, callers
    <2>1. CASE ok /\ call'[d] = [stage |-> "sent", allowRetry |-> FALSE]
      <3>1. call'[d].stage = "sent"
        BY <2>1
      <3>2. ~call'[d].allowRetry
        <4>1. ~[stage |-> "sent", allowRetry |-> FALSE].allowRetry
          OBVIOUS
        <4> QED BY <2>1, <4>1, Zenon
      <3> QED BY <2>1, <3>1, <3>2, Zenon
    <2>2. CASE ~ok /\ call'[d] = [stage |-> "failed", allowRetry |-> call[d].allowRetry]
      <3>1. call'[d].stage = "failed"
        BY <2>2
      <3> QED BY <2>2, <3>1, Zenon
    <2> QED BY <1>5, <2>1, <2>2, Zenon
  <1>6. /\ \A r \in Request : handler'[r] = IF ok /\ \E d \in callers : r = Main(d)
                                              THEN Asked(handler[r].operation, new)
                                              ELSE handler[r]
        /\ handler' \in [Request -> Handlers]
    <2>1. handler' = [r \in Request |-> IF ok /\ \E d \in callers : r = Main(d)
                                          THEN Asked(handler[r].operation, new)
                                          ELSE handler[r]]
      BY <1>1 DEF Resume
    <2>2. \A r \in Request : handler[r] \in Handlers /\ handler[r].operation \in Operations
      BY <1>0 DEF Handlers
    <2> QED BY <1>0, <2>1, <2>2, AskedType
  <1>7. \A r \in Request :
          /\ Asked(handler[r].operation, new).operation = handler[r].operation
          /\ Asked(handler[r].operation, new).token = new
          /\ Asked(handler[r].operation, new).got = 0
          /\ Asked(handler[r].operation, new).stage = "received"
    <2>1. \A r \in Request : handler[r].operation \in Operations
      BY <1>0 DEF Handlers
    <2> QED BY <1>0, <2>1, AskedType
  <1> HIDE DEF ok, new, callers
  <1>8. \A r \in Request : /\ handler'[r].operation = handler[r].operation
                           /\ handler'[r].got \in {0, handler[r].got}
                           /\ handler'[r].token \in {new, handler[r].token}
    BY <1>6, <1>7
  <1>9. \A d \in Call : /\ handler'[Refresh(d)] = handler[Refresh(d)]
                        /\ d \notin callers => handler'[Main(d)] = handler[Main(d)]
                        /\ d \in callers => handler[Main(d)].operation \notin {"refresh", "logout"}
    BY <1>0, <1>6, Requests DEF IInv, LogoutInv, MainInv, Asks
  <1>10. TypeOK'
    <2>1. stored' \in 0..issued
      BY <1>0, <1>3
    <2> QED BY <1>1, <1>4, <1>5, <1>6, <2>1, TabsKeepTypes
  <1>11. AccountInv' /\ RevokedInv'
    <2>1. ASSUME NEW r \in Request
          PROVE  \/ handler'[r] = handler[r]
                 \/ /\ handler'[r].operation = handler[r].operation
                    /\ handler[r].operation \notin {"refresh", "logout"}
      <3>1. CASE \E d \in callers : r = Main(d)
        BY <1>0, <1>8, <1>9, <3>1
      <3>2. CASE ~\E d \in callers : r = Main(d)
        BY <1>6, <3>2
      <3> QED BY <3>1, <3>2
    <2>2. \A r \in Request :
            \/ handler'[r] = handler[r]
            \/ handler[r] = NotAsked
            \/ /\ \/ handler'[r].operation = handler[r].operation
                  \/ handler[r].operation = "register" /\ handler'[r].operation = "login"
               /\ handler[r].operation \notin {"refresh", "logout"}
               /\ handler'[r].operation \notin {"refresh", "logout"}
      BY <2>1
    <2> QED BY <1>1, <2>2, TabsKeepServer
  <1>12. \A r \in Request : handler[r].token # 0 => handler[r].token # stored'
    BY <1>0, <1>2, <1>3 DEF IInv, PairInv, new
  <1>13. PairInv'
    <2>1. ASSUME NEW r \in Request, Awaited(r)', handler'[r].got # 0
          PROVE  Awaited(r) /\ r # Refresh(c) /\ handler'[r].got = handler[r].got
      <3>1. PICK d \in Call : \/ r = Main(d) /\ call'[d].stage = "sent"
                              \/ r = Refresh(d) /\ d \in refreshInFlight'[TabOf[d]]
        BY <2>1 DEF Awaited
      <3>2. CASE r = Main(d) /\ call'[d].stage = "sent"
        <4>1. d \notin callers
          <5>1. ASSUME d \in callers PROVE FALSE
            <6>1. ok
              BY <1>5a, <3>2, <5>1
            <6> QED BY <1>6, <1>7, <2>1, <3>2, <5>1, <6>1
          <5> QED BY <5>1
        <4> QED BY <1>0, <1>5, <1>9, <3>2, <4>1, Requests DEF Awaited
      <3>3. CASE r = Refresh(d) /\ d \in refreshInFlight'[TabOf[d]]
        <4>1. TabOf[d] # t /\ TabOf[d] \in Tab
          BY <1>4, <3>3, ApiClientAssumption
        <4>2. d # c /\ d \in refreshInFlight[TabOf[d]]
          BY <1>0, <1>4, <3>3, <4>1
        <4> QED BY <1>0, <1>9, <3>3, <4>2, Requests DEF Awaited
      <3> QED BY <3>1, <3>2, <3>3
    <2>2. \A r \in Request : handler'[r].token \in 0..issued' /\ handler'[r].got \in 0..issued'
      BY <1>0, <1>1, <1>8 DEF IInv, PairInv
    <2>3. \A q, r \in Request : handler'[q].got = handler'[r].got /\ handler'[q].got # 0 => q = r
      BY <1>8 DEF IInv, PairInv
    <2>4. ASSUME NEW r \in Request, Awaited(r)', handler'[r].got # 0
          PROVE  /\ handler'[r].got # stored'
                 /\ \A q \in Request : handler'[q].token # handler'[r].got
      <3>1. handler[r].got # new /\ handler[r].got # 0 /\ handler'[r].got = handler[r].got
        BY <1>0, <2>1, <2>4 DEF IInv, PairInv, new
      <3>2. \A q \in Request : handler[q].token # handler[r].got
        BY <2>1, <2>4, <3>1 DEF IInv, PairInv
      <3> QED BY <1>3, <1>8, <3>1, <3>2
    <2> QED BY <2>2, <2>3, <2>4 DEF PairInv
  <1>14. RefreshInv'
    <2>1. \A d \in Call : Presented(d)' <=> Presented(d)
      BY <1>9 DEF Presented
    <2>2. ASSUME NEW d \in Call, Presented(d)
          PROVE  /\ call'[d].stage \in {"waiting", "failed", "closed"} \/ ~call'[d].allowRetry
                 /\ handler[Refresh(d)].token # 0
                 /\ handler[Refresh(d)].token # stored'
      <3>1. handler[Refresh(d)].token # 0
            /\ (call[d].stage \in {"waiting", "failed", "closed"} \/ ~call[d].allowRetry)
        BY <2>2 DEF IInv, RefreshInv
      <3>2. call'[d].stage \in {"waiting", "failed", "closed"} \/ ~call'[d].allowRetry
        <4>1. CASE d \in callers
          BY <1>5a, <4>1
        <4>2. CASE d \notin callers
          BY <1>5, <3>1, <4>2
        <4> QED BY <4>1, <4>2
      <3> QED BY <1>12, <3>1, <3>2, Requests
    <2>3. \A u \in Tab : \A d \in refreshInFlight'[u] : TabOf[d] = u
      BY <1>4 DEF IInv, RefreshInv
    <2>4. \A d \in Call : ~Presented(d)' => handler'[Refresh(d)] = NotAsked
      BY <1>9, <2>1 DEF IInv, RefreshInv
    <2>5. \A d, e \in Call :
            /\ Presented(d)' /\ Presented(e)' /\ TabOf[d] = TabOf[e]
            /\ handler'[Refresh(d)].token = handler'[Refresh(e)].token
            => d = e
      BY <1>9, <2>1 DEF IInv, RefreshInv
    <2> QED BY <1>9, <2>1, <2>2, <2>3, <2>4, <2>5 DEF RefreshInv
  <1>15. MainInv'
    <2>1. \A d \in Call : handler'[Main(d)].operation # "refresh"
      BY <1>8, Requests DEF IInv, MainInv
    <2>2. \A d \in Call : call'[d].stage = "idle" => d \notin callers /\ call[d].stage = "idle"
      BY <1>5, <1>5a
    <2>3. \A d \in Call : call'[d].stage = "closed" <=> call[d].stage = "closed"
      BY <1>0, <1>5, <1>5a
    <2> QED BY <1>9, <2>1, <2>2, <2>3 DEF IInv, MainInv
  <1>16. LogoutInv'
    <2>1. ASSUME NEW d \in Call, Asks(d, "logout")'
          PROVE  /\ handler'[Main(d)].token # 0
                 /\ handler'[Main(d)].stage # "unauthorized"
                 /\ call'[d].stage # "waiting"
                 /\ handler'[Main(d)].token # stored'
      <3>1. Asks(d, "logout") /\ Main(d) \in Request
        BY <1>8, <2>1, Requests DEF Asks
      <3>2. d \notin callers /\ handler[Main(d)].token # 0 /\ handler[Main(d)].stage # "unauthorized"
            /\ call[d].stage # "waiting"
        BY <1>0, <3>1 DEF IInv, LogoutInv
      <3> QED BY <1>5, <1>9, <1>12, <3>1, <3>2
    <2> QED BY <2>1 DEF LogoutInv
  <1>17. RefusalsHaveAReason'
    BY <1>1, <1>9 DEF IInv, RefusalsHaveAReason
  <1> QED BY <1>10, <1>11, <1>13, <1>14, <1>15, <1>16, <1>17 DEF IInv

\* The tab is closed.
LEMMA CloseTabKeeps ==
  ASSUME IInv, NEW t \in Tab, CloseTab(t)
  PROVE  IInv'
  <1> USE DEF accounts, tokens
  <1>0. /\ TypeOK /\ stored \in 0..issued /\ handler \in [Request -> Handlers]
        /\ refreshInFlight \in [Tab -> SUBSET Call]
    BY DEF IInv, TypeOK, TokenTypeOK
  <1>1. /\ UNCHANGED <<accounts, tokens, handler, stored>>
        /\ refreshInFlight' = [refreshInFlight EXCEPT ![t] = {}]
    BY DEF CloseTab
  <1>2. /\ call' \in [Call -> [stage : {"idle", "sent", "waiting", "done", "failed", "closed"},
                               allowRetry : BOOLEAN]]
        /\ \A d \in Call : TabOf[d] # t => call'[d] = call[d]
        /\ \A d \in Call : TabOf[d] = t => call'[d].stage = "closed"
    BY <1>0 DEF CloseTab, Calls, TypeOK
  <1>3. /\ refreshInFlight' \in [Tab -> SUBSET Call]
        /\ \A u \in Tab : u # t => refreshInFlight'[u] = refreshInFlight[u]
        /\ refreshInFlight'[t] = {}
    BY <1>0, <1>1
  <1>4. TypeOK'
    BY <1>0, <1>1, <1>2, <1>3, TabsKeepTypes
  <1>5. AccountInv' /\ RevokedInv'
    BY <1>1, TabsKeepServer
  <1>6. \A r \in Request : Awaited(r)' => Awaited(r)
    <2>1. \A d \in Call : call'[d].stage = "sent" => call[d].stage = "sent"
      BY <1>2
    <2>2. \A d \in Call : d \in refreshInFlight'[TabOf[d]] => d \in refreshInFlight[TabOf[d]]
      BY <1>3, ApiClientAssumption
    <2> QED BY <2>1, <2>2 DEF Awaited
  <1>7. PairInv'
    BY <1>1, <1>6 DEF IInv, PairInv
  <1>8. RefreshInv'
    <2>1. ASSUME NEW d \in Call, Presented(d)
          PROVE  /\ call'[d].stage \in {"waiting", "failed", "closed"} \/ ~call'[d].allowRetry
                 /\ \/ d \in refreshInFlight'[TabOf[d]]
                    \/ call'[d].stage = "closed"
                    \/ handler[Refresh(d)].token # stored
      <3>1. TabOf[d] \in Tab
        BY ApiClientAssumption
      <3> QED BY <1>2, <1>3, <2>1, <3>1 DEF IInv, RefreshInv
    <2>2. \A u \in Tab : \A d \in refreshInFlight'[u] : TabOf[d] = u
      BY <1>3 DEF IInv, RefreshInv
    <2> QED BY <1>1, <2>1, <2>2 DEF IInv, RefreshInv, Presented
  <1>9. MainInv'
    BY <1>1, <1>2 DEF IInv, MainInv
  <1>10. LogoutInv'
    BY <1>1, <1>2 DEF IInv, LogoutInv, Asks
  <1>11. RefusalsHaveAReason'
    BY <1>1 DEF IInv, RefusalsHaveAReason
  <1> QED BY <1>4, <1>5, <1>7, <1>8, <1>9, <1>10, <1>11 DEF IInv

-----------------------------------------------------------------------------
(* The theorems.                                                           *)

\* Every step keeps the invariant.
LEMMA StepKeeps == IInv /\ [Next]_vars => IInv'
  <1> SUFFICES ASSUME IInv, [Next]_vars PROVE IInv'
    OBVIOUS
  <1>1. ASSUME NEW c \in Call, Continues(c) PROVE IInv'
    <2>1. CASE GivesUp(c)
      BY <2>1, EndsCall DEF GivesUp, Answered
    <2>2. CASE Succeeds(c)
      <3>1. /\ call[c].stage = "sent" /\ Stage(c, "done")
            /\ UNCHANGED <<accounts, tokens, handler, refreshInFlight>>
        BY <2>2 DEF Succeeds, Answered
      <3>2. \/ stored' = 0
            \/ stored' = stored /\ ~Asks(c, "logout")
            \/ stored' = handler[Main(c)].got /\ ~Asks(c, "logout")
        BY <2>2 DEF Succeeds, Asks
      <3> QED BY <3>1, <3>2, EndsCall
    <2> QED BY <1>1, <2>1, <2>2, TryRefreshKeeps, RegisterThenLoginKeeps DEF Continues
  <1>2. CASE UNCHANGED vars
    BY <1>2 DEF vars, accounts, tokens, IInv, TypeOK, TokenTypeOK, AccountInv, PairInv, Awaited,
       RefreshInv, Presented, MainInv, LogoutInv, RevokedInv, RefusalsHaveAReason, Asks
  <1> QED BY <1>1, <1>2, SendKeeps, RefreshSettlesKeeps, CloseTabKeeps, ServerKeeps,
           StrangerKeeps DEF Next, Done

\* At first nobody has asked for anything.
LEMMA InitHolds == Init => IInv
  <1> SUFFICES ASSUME Init PROVE IInv
    OBVIOUS
  <1>1. /\ users \in {{}, {Existing}} /\ oauthUsers = {} /\ registered = users
        /\ strays = {} /\ noEmail = {} /\ revoked = {} /\ loggedOut = {} /\ expired = {}
        /\ handler = [r \in Request |-> NotAsked] /\ stored = issued
        /\ call = [c \in Call |-> [stage |-> "idle", allowRetry |-> TRUE]]
        /\ refreshInFlight = [t \in Tab |-> {}]
    BY DEF Init, TokenInit
  <1>2. issued \in Nat
    <2>1. Cardinality({}) = 0 /\ Cardinality({Existing}) = 1
      BY FS_EmptySet, FS_Singleton
    <2> QED BY <1>1, <2>1 DEF Init, TokenInit
  <1>3. \A r \in Request : handler[r] = NotAsked
    BY <1>1
  <1>4. NotAsked \in Handlers /\ NotAsked.operation = "api" /\ NotAsked.stage = "none"
        /\ NotAsked.token = 0 /\ NotAsked.got = 0
    BY DEF NotAsked, Handlers, Operations
  <1>5. TypeOK
    <2>1. call \in [Call -> [stage : {"idle", "sent", "waiting", "done", "failed", "closed"},
                             allowRetry : BOOLEAN]]
      BY <1>1
    <2>2. stored \in 0..issued
      BY <1>1, <1>2
    <2> QED BY <1>1, <1>2, <1>4, <2>1, <2>2 DEF TypeOK, TokenTypeOK
  <1>6. AccountInv
    BY <1>1 DEF AccountInv
  <1>7. PairInv /\ RefreshInv /\ MainInv /\ LogoutInv
    BY <1>1, <1>2, <1>3, <1>4, Requests DEF PairInv, RefreshInv, Presented, MainInv, LogoutInv, Asks
  <1>8. RevokedInv /\ RefusalsHaveAReason
    BY <1>1, <1>3, <1>4, Requests DEF RevokedInv, RefusalsHaveAReason
  <1> QED BY <1>5, <1>6, <1>7, <1>8 DEF IInv

\* The invariant the other theorems rest on.
THEOREM Invariance == Spec => []IInv
  BY InitHolds, StepKeeps, PTL DEF Spec

\* However registrations and provider callbacks interleave, an address has one
\* account; unless a callback's profile lacked the address, nobody signs in to
\* another's; and analytics hears of an account exactly if a registration
\* created it.
THEOREM OnePersonHasOneAccount == Spec => []OnePersonOneAccount
  <1>1. ASSUME NEW rows, \A q, r \in rows : q = r
        PROVE  Cardinality(rows) <= 1
    <2>1. CASE rows = {}
      BY <2>1, FS_EmptySet
    <2>2. CASE rows # {}
      <3>1. PICK r \in rows : TRUE
        BY <2>2
      <3>2. rows = {r}
        BY <1>1, <3>1
      <3>3. Cardinality(rows) = 1
        BY <3>2, FS_Singleton
      <3> QED BY <3>3
    <2> QED BY <2>1, <2>2
  <1>2. IInv => OnePersonOneAccount
    BY <1>1 DEF OnePersonOneAccount, IInv, AccountInv
  <1> QED BY <1>2, Invariance, PTL

\* A refresh is refused only because of another tab, a logout or age, never
\* because of a call of the same tab (the shared promise of api-client.ts).
THEOREM RefusalsAreJustified == Spec => []RefusalsHaveAReason
  BY Invariance, PTL DEF IInv

\* The stored refresh token is revoked only while its successor or a logout is
\* under way, or when a tab was closed in between.
THEOREM StoredTokenStaysLive == Spec => []StoredTokenIsLive
  <1>1. IInv => StoredTokenIsLive
    <2> SUFFICES ASSUME IInv, stored \in revoked PROVE StoredTokenIsLive
      BY DEF StoredTokenIsLive
    <2>1. CASE stored \in loggedOut
      <3>1. PICK c \in Call : Asks(c, "logout") /\ handler[Main(c)].token = stored
        BY <2>1 DEF IInv, RevokedInv
      <3>2. call[c].stage \in {"sent", "closed"}
        BY <3>1 DEF IInv, LogoutInv
      <3> QED BY <3>1, <3>2 DEF StoredTokenIsLive
    <2>2. CASE stored \notin loggedOut
      <3>1. PICK c \in Call : Presented(c) /\ handler[Refresh(c)].token = stored
        BY <2>2 DEF IInv, RevokedInv
      <3>2. c \in refreshInFlight[TabOf[c]] \/ call[c].stage = "closed"
        BY <3>1 DEF IInv, RefreshInv
      <3> QED BY <3>1, <3>2, ApiClientAssumption DEF StoredTokenIsLive
    <2> QED BY <2>1, <2>2
  <1> QED BY <1>1, Invariance, PTL
=============================================================================
