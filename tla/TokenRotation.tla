---------------------------- MODULE TokenRotation ----------------------------
(***************************************************************************)
(* The authentication endpoints (api/v1/auth.py over AuthService): account *)
(* creation, login, refresh-token rotation and logout, and the check every *)
(* other endpoint makes of an access token (get_current_user).             *)
(*                                                                         *)
(* There is one person with one address and one identity at the provider,  *)
(* and a stranger whose profile there has no address.  A token pair is a   *)
(* number; its refresh token is the row of that number, its access token   *)
(* is stateless.  Each action ends at a commit or at the last read before  *)
(* one.                                                                    *)
(***************************************************************************)
EXTENDS Integers, FiniteSets

CONSTANTS
  Request,   \* HTTP requests
  Existing,  \* stands for the request of a person who registered long ago
  Stranger,  \* stands for the requests of somebody else
  Ageing,    \* token pairs whose refresh token may expire
  Faults     \* what may go wrong with each request: subsets of AllFaults

AllFaults == {"answer", "password", "profile", "email"}

ASSUME TokenRotationAssumption ==
  /\ Existing \notin Request
  /\ Stranger \notin Request \cup {Existing}
  /\ Ageing \subseteq Nat
  /\ Faults \in [Request -> SUBSET AllFaults]

VARIABLES
  users,       \* rows of the users table with that address, named by their request
  strays,      \* its rows with the address "None", which is nobody's
  oauthUsers,  \* the rows that carry the person's identity at the provider
  registered,  \* requests whose user.registered event is committed
  noEmail,     \* callbacks whose profile came without an address
  issued,      \* refresh tokens issued so far
  revoked,     \* refresh tokens whose revoked is set
  loggedOut,   \* history: those revoked by a logout
  expired,     \* refresh tokens found past their expires_at
  handler      \* each request: what it asks, how far it is, the pair it got

accounts == <<users, strays, oauthUsers, registered, noEmail>>
tokens   == <<issued, revoked, loggedOut, expired>>

Operations == {"api", "register", "login", "oauth", "refresh", "logout"}
Answers    == {"ok", "unauthorized", "error"}

Asked(operation, token) ==
  [operation |-> operation, stage |-> "received", token |-> token, got |-> 0]

NotAsked == [operation |-> "api", stage |-> "none", token |-> 0, got |-> 0]

\* Either nobody has an account yet or somebody is logged in with pair 1.
TokenInit ==
  /\ users \in {{}, {Existing}}
  /\ strays = {} /\ oauthUsers = {} /\ noEmail = {}
  /\ registered = users
  /\ issued = Cardinality(users)
  /\ revoked = {} /\ loggedOut = {} /\ expired = {}
  /\ handler = [r \in Request |-> NotAsked]

At(r, operation, stage) == handler[r].operation = operation /\ handler[r].stage = stage

Goes(r, stage) == handler' = [handler EXCEPT ![r].stage = stage]

\* get_current_user: a token of ours passes until its few minutes are over.
GetCurrentUser(r) ==
  /\ At(r, "api", "received")
  /\ \/ Goes(r, "unauthorized")
     \/ handler[r].token # 0 /\ Goes(r, "ok")
  /\ UNCHANGED <<accounts, tokens>>

-----------------------------------------------------------------------------
(* Accounts.                                                               *)

RegisterChecks(r) ==
  /\ At(r, "register", "received")
  /\ Goes(r, IF users = {} THEN "checked" ELSE "error")
  /\ UNCHANGED <<accounts, tokens>>

\* Mutant: the users table without its unique index.
InsertWithoutIndex(r, rows) == rows \cup {r}

\* INSERT under the unique index on users.email: a second row is refused.
InsertUser(r, rows) == IF rows = {} THEN {r} ELSE rows

\* The row and its event are one transaction, which the index may refuse.
RegisterInserts(r) ==
  /\ At(r, "register", "checked")
  /\ users' = InsertUser(r, users)
  /\ registered' = registered \cup (users' \ users)
  /\ Goes(r, IF r \in users' THEN "ok" ELSE "error")
  /\ UNCHANGED <<strays, oauthUsers, noEmail, tokens>>

\* The provider answers with an error, without an id, or Google without an
\* address.
OAuthFails(r) ==
  /\ At(r, "oauth", "received")
  /\ "profile" \in Faults[r]
  /\ Goes(r, "error")
  /\ UNCHANGED <<accounts, tokens>>

\* get_by_oauth finds the identity's row; it raises if there are two.
OAuthFinds(r) ==
  /\ At(r, "oauth", "received")
  /\ oauthUsers # {}
  /\ Goes(r, IF Cardinality(oauthUsers) = 1 THEN "authenticated" ELSE "error")
  /\ UNCHANGED <<accounts, tokens>>

\* It finds none.  GitHub may give no primary address: str(None) goes on as the
\* address "None".
OAuthMisses(r) ==
  /\ At(r, "oauth", "received")
  /\ oauthUsers = {}
  /\ \/ UNCHANGED noEmail
     \/ "email" \in Faults[r] /\ noEmail' = noEmail \cup {r}
  /\ Goes(r, "unknown")
  /\ UNCHANGED <<users, strays, oauthUsers, registered, tokens>>

\* What get_by_email finds for the address the profile gave.
WithEmail(r) == IF r \in noEmail THEN strays ELSE users

\* The account with that address gets the identity, whosever it carried.
OAuthLinks(r) ==
  /\ At(r, "oauth", "unknown")
  /\ WithEmail(r) # {}
  /\ oauthUsers' = oauthUsers \cup WithEmail(r)
  /\ Goes(r, "authenticated")
  /\ UNCHANGED <<users, strays, registered, noEmail, tokens>>

OAuthMissesEmail(r) ==
  /\ At(r, "oauth", "unknown")
  /\ WithEmail(r) = {}
  /\ Goes(r, "new")
  /\ UNCHANGED <<accounts, tokens>>

OAuthCreates(r) ==
  /\ At(r, "oauth", "new")
  /\ users' = IF r \in noEmail THEN users ELSE InsertUser(r, users)
  /\ strays' = IF r \in noEmail THEN InsertUser(r, strays) ELSE strays
  /\ oauthUsers' = oauthUsers \cup (users' \ users) \cup (strays' \ strays)
  /\ Goes(r, IF r \in oauthUsers' THEN "authenticated" ELSE "error")
  /\ UNCHANGED <<registered, noEmail, tokens>>

\* The callback of the stranger, from its lookups to its commit: it takes over
\* the account with the address "None", or creates it.  Before the person's first
\* callback nothing reads that row, so it need not come earlier.
StrangerSignsIn ==
  /\ \E r \in Request : handler[r].operation = "oauth"
  /\ strays' = InsertUser(Stranger, strays)
  /\ oauthUsers' = oauthUsers \ strays
  /\ UNCHANGED <<users, registered, noEmail, tokens, handler>>

\* An account the provider created has no password.
Authenticate(r) ==
  /\ At(r, "login", "received")
  /\ \/ users \cap registered # {} /\ Goes(r, "authenticated")
     \/ users \cap registered = {} /\ Goes(r, "unauthorized")
     \/ "password" \in Faults[r] /\ Goes(r, "unauthorized")
  /\ UNCHANGED <<accounts, tokens>>

-----------------------------------------------------------------------------
(* Tokens.                                                                 *)

\* A new row and the answer that carries its token.
IssueTokenPair(r) ==
  /\ handler[r].stage = "authenticated"
  /\ issued' = issued + 1
  /\ handler' = [handler EXCEPT ![r].stage = "ok", ![r].got = issued + 1]
  /\ UNCHANGED <<accounts, revoked, loggedOut, expired>>

Usable(token) == token \in 1..issued /\ token \notin revoked

RefreshLoads(r) ==
  /\ At(r, "refresh", "received")
  /\ Goes(r, IF Usable(handler[r].token) /\ handler[r].token \notin expired
               THEN "loaded" ELSE "unauthorized")
  /\ UNCHANGED <<accounts, tokens>>

\* expires_at is looked at here only, so a token ages when it is presented.
RefreshFindsExpired(r) ==
  /\ At(r, "refresh", "received")
  /\ handler[r].token \in Ageing \cap 1..issued
  /\ expired' = expired \cup {handler[r].token}
  /\ Goes(r, "unauthorized")
  /\ UNCHANGED <<accounts, issued, revoked, loggedOut>>

\* The commit of its own that ends the presented token.
RefreshRevokes(r) ==
  /\ At(r, "refresh", "loaded")
  /\ revoked' = revoked \cup {handler[r].token}
  /\ Goes(r, "authenticated")
  /\ UNCHANGED <<accounts, issued, loggedOut, expired>>

LogoutLoads(r) ==
  /\ At(r, "logout", "received")
  /\ Goes(r, IF Usable(handler[r].token) THEN "loaded" ELSE "ok")
  /\ UNCHANGED <<accounts, tokens>>

LogoutRevokes(r) ==
  /\ At(r, "logout", "loaded")
  /\ revoked' = revoked \cup {handler[r].token}
  /\ loggedOut' = loggedOut \cup {handler[r].token}
  /\ Goes(r, "ok")
  /\ UNCHANGED <<accounts, issued, expired>>

\* The rate limit, a database error, a restart of the process or a lost answer:
\* what was committed stays.
AnswerFails(r) ==
  /\ "answer" \in Faults[r]
  /\ handler[r].stage \notin {"none", "unauthorized", "error"}
  /\ Goes(r, "error")
  /\ UNCHANGED <<accounts, tokens>>

Serves(r) ==
  \/ GetCurrentUser(r)
  \/ RegisterChecks(r) \/ RegisterInserts(r)
  \/ OAuthFails(r) \/ OAuthFinds(r) \/ OAuthMisses(r)
  \/ OAuthLinks(r) \/ OAuthMissesEmail(r) \/ OAuthCreates(r)
  \/ Authenticate(r) \/ IssueTokenPair(r)
  \/ RefreshLoads(r) \/ RefreshFindsExpired(r) \/ RefreshRevokes(r)
  \/ LogoutLoads(r) \/ LogoutRevokes(r)

-----------------------------------------------------------------------------
(* Properties.                                                             *)

Handlers ==
  [operation : Operations,
   stage : Answers \cup {"none", "received", "checked", "unknown", "new", "authenticated", "loaded"},
   token : Nat, got : Nat]

TokenTypeOK ==
  /\ users \subseteq Request \cup {Existing}
  /\ strays \subseteq Request \cup {Stranger}
  /\ oauthUsers \subseteq users \cup strays
  /\ registered \subseteq users
  /\ noEmail \subseteq Request
  /\ issued \in Nat
  /\ loggedOut \subseteq revoked
  /\ revoked \subseteq 1..issued
  /\ expired \subseteq 1..issued
  /\ handler \in [Request -> Handlers]

\* "rather than creating a duplicate identity for the same person": however
\* registrations and callbacks interleave, an address has one account, and while
\* every profile came with its address the person has no other, be it a second
\* one or the stranger's; without it, both happen.  Analytics hears of the
\* person's account exactly if a registration created it.
OnePersonOneAccount ==
  /\ Cardinality(users) <= 1 /\ Cardinality(strays) <= 1
  /\ noEmail = {} => oauthUsers \subseteq users
  /\ registered = {r \in users : r = Existing \/ handler[r].operation # "oauth"}

\* Refreshes that got a new pair for their token.
Exchanges == {r \in Request : handler[r].operation = "refresh" /\ handler[r].got # 0}

\* "the presented token is single-use" (auth_service.py): no token is exchanged
\* for two pairs.
TokensSingleUse ==
  \A r, s \in Exchanges : handler[r].token = handler[s].token => r = s
=============================================================================
