---------------------------- MODULE SessionEvents ----------------------------
(***************************************************************************)
(* Workspace pages that follow sessions live: the WebSocket relay of       *)
(* backend/app/api/ws.py between the Redis channel and a browser, and the  *)
(* hook useSessionEvents that shows what it hears, on top of PipelineRuns, *)
(* which publishes.  A page shows one session at a time.                   *)
(*                                                                         *)
(* Redis sends a message to whoever is subscribed when it is published, in *)
(* order, so a subscription is a position in the feed.                     *)
(***************************************************************************)
EXTENDS PipelineRuns

CONSTANT Page

VARIABLES
  active,    \* the session a page shows, as a set of at most one
  fetching,  \* sessions whose row the page has asked the API for
  cached,    \* status in the page's query cache, "none" if never fetched
  heard,     \* status of the hook's state, "none" for null
  trace,     \* number of node updates in the hook's state
  socket,    \* the page's WebSocket
  joined,    \* history: events published before the relay subscribed
  cursor     \* events published before the next one to relay

view     == <<heard, trace>>
relay    == <<socket, joined, cursor>>
pages    == <<active, fetching, cached, view, relay>>
liveVars == <<vars, pages>>

Sockets == {"none", "opening", "subscribed", "closed"}

LiveInit ==
  /\ Init
  /\ active = [p \in Page |-> {}]
  /\ fetching = [p \in Page |-> {}]
  /\ cached = [p \in Page |-> [s \in Session |-> "none"]]
  /\ heard = [p \in Page |-> "none"]
  /\ trace = [p \in Page |-> 0]
  /\ socket = [p \in Page |-> "none"]
  /\ joined = [p \in Page |-> 0]
  /\ cursor = [p \in Page |-> 0]
-----------------------------------------------------------------------------
(* The page.                                                               *)

\* A first look at a session asks the API for its row; a later look does when
\* the cached row has become stale.
Asks(p, s) ==
  \/ fetching' = [fetching EXCEPT ![p] = @ \cup {s}]
  \/ cached[p][s] # "none" /\ UNCHANGED fetching

Unsubscribed(p) ==
  /\ joined' = [joined EXCEPT ![p] = 0]
  /\ cursor' = [cursor EXCEPT ![p] = 0]

\* The effect of useSessionEvents: the state starts from the cached status, and
\* a socket opens unless that is a terminal one.
OpensFeed(p, s) ==
  /\ heard' = [heard EXCEPT ![p] = cached[p][s]]
  /\ trace' = [trace EXCEPT ![p] = 0]
  /\ Unsubscribed(p)
  /\ socket' = [socket EXCEPT ![p] = IF cached[p][s] \in Settled THEN "none" ELSE "opening"]

\* Mutant: the state of the session shown before is kept.
SelectWithoutReset(p, s) ==
  /\ status[s] \notin {"absent", "deleted"}
  /\ s \notin active[p]
  /\ active' = [active EXCEPT ![p] = {s}]
  /\ Asks(p, s)
  /\ socket' = [socket EXCEPT ![p] = IF cached[p][s] \in Settled THEN "none" ELSE "opening"]
  /\ Unsubscribed(p)
  /\ UNCHANGED <<vars, cached, view>>

\* The user submits a query or clicks a session of the list.
SelectSession(p, s) ==
  /\ status[s] \notin {"absent", "deleted"}
  /\ s \notin active[p]
  /\ active' = [active EXCEPT ![p] = {s}]
  /\ Asks(p, s)
  /\ OpensFeed(p, s)
  /\ UNCHANGED <<vars, cached>>

\* Another project is chosen: no session is active and the socket is torn down.
DeselectSession(p) ==
  /\ active[p] # {}
  /\ active' = [active EXCEPT ![p] = {}]
  /\ heard' = [heard EXCEPT ![p] = "none"]
  /\ trace' = [trace EXCEPT ![p] = 0]
  /\ Unsubscribed(p)
  /\ socket' = [socket EXCEPT ![p] = "none"]
  /\ UNCHANGED <<vars, fetching, cached>>

\* The API's answer; a row that is gone is a 404, which leaves the cache alone.
FetchAnswers(p, s) ==
  /\ s \in fetching[p]
  /\ fetching' = [fetching EXCEPT ![p] = @ \ {s}]
  /\ cached' = [cached EXCEPT ![p][s] = IF status[s] = "deleted" THEN @ ELSE status[s]]
  /\ UNCHANGED <<vars, active, view, relay>>

-----------------------------------------------------------------------------
(* The relay: session_events in ws.py.                                     *)

\* The row exists: the relay accepts and subscribes.
Subscribes(p) ==
  /\ socket[p] = "opening"
  /\ \E s \in active[p] :
       /\ status[s] # "deleted"
       /\ joined' = [joined EXCEPT ![p] = Len(published[s])]
       /\ cursor' = [cursor EXCEPT ![p] = Len(published[s])]
  /\ socket' = [socket EXCEPT ![p] = "subscribed"]
  /\ UNCHANGED <<vars, active, fetching, cached, view>>

Refuses(p) ==
  /\ socket[p] = "opening"
  /\ \E s \in active[p] : status[s] = "deleted"
  /\ socket' = [socket EXCEPT ![p] = "closed"]
  /\ UNCHANGED <<vars, active, fetching, cached, view, joined, cursor>>

\* Mutant: node updates are added to the state of the first render.
HearsIntoStaleState(p, event) ==
  IF event = "node_update"
  THEN trace' = [trace EXCEPT ![p] = 1] /\ UNCHANGED heard
  ELSE heard' = [heard EXCEPT ![p] = event] /\ UNCHANGED trace

\* The hook's onmessage.
Hears(p, event) ==
  IF event = "node_update"
  THEN trace' = [trace EXCEPT ![p] = @ + 1] /\ UNCHANGED heard
  ELSE heard' = [heard EXCEPT ![p] = event] /\ UNCHANGED trace

\* An event reaches the page; after a terminal status the relay closes.
Relays(p) ==
  /\ socket[p] = "subscribed"
  /\ \E s \in active[p] :
       /\ cursor[p] < Len(published[s])
       /\ Hears(p, published[s][cursor[p] + 1])
       /\ socket' = [socket EXCEPT ![p] =
                       IF published[s][cursor[p] + 1] \in Settled THEN "closed" ELSE @]
  /\ cursor' = [cursor EXCEPT ![p] = @ + 1]
  /\ UNCHANGED <<vars, active, fetching, cached, joined>>

\* The connection breaks, the API restarts or the token has expired; the hook
\* does not reconnect.
Drops(p) ==
  /\ socket[p] \in {"opening", "subscribed"}
  /\ socket' = [socket EXCEPT ![p] = "closed"]
  /\ UNCHANGED <<vars, active, fetching, cached, view, joined, cursor>>

PageStep(p) ==
  \/ \E s \in Session : SelectSession(p, s) \/ FetchAnswers(p, s)
  \/ DeselectSession(p)
  \/ Subscribes(p) \/ Refuses(p) \/ Relays(p) \/ Drops(p)

LiveNext ==
  \/ Next /\ UNCHANGED pages
  \/ \E p \in Page : PageStep(p)

\* The relay forwards what it receives.  Users, fetches and the network owe nothing.
LiveSpec ==
  /\ LiveInit /\ [][LiveNext]_liveVars
  /\ Fairness
  /\ \A p \in Page : WF_liveVars(Relays(p))
-----------------------------------------------------------------------------
(* Properties.                                                             *)

Shown(p, s) == IF heard[p] # "none" THEN heard[p] ELSE cached[p][s]

Statuses == {"none", "queued", "running"} \cup Settled

LiveTypeOK ==
  /\ active \in [Page -> SUBSET Session]
  /\ fetching \in [Page -> SUBSET Session]
  /\ cached \in [Page -> [Session -> Statuses]]
  /\ heard \in [Page -> Statuses]
  /\ trace \in [Page -> Nat]
  /\ socket \in [Page -> Sockets]
  /\ joined \in [Page -> Nat]
  /\ cursor \in [Page -> Nat]

\* The status a page shows, pieced together from a fetch, a cache and the feed,
\* is never ahead of the row, and a page that says "Done - view the full report"
\* is right: the outcome is the row's and the report is there.
ShownFollowsRow ==
  \A p \in Page : \A s \in active[p] \cap Once :
    /\ Shown(p, s) = "running" => status[s] \in {"running"} \cup Settled
    /\ Shown(p, s) \in Settled => status[s] = Shown(p, s)
    /\ Shown(p, s) = "completed" => reports[s] # <<>>

\* A page that subscribed before the run began and heard its end has heard of
\* every node that has an agent_runs row.
LiveTraceComplete ==
  \A p \in Page : \A s \in active[p] \cap Once :
    socket[p] = "closed" /\ heard[p] \in Settled /\ joined[p] = 0
      => trace[p] = agentRuns[s]

\* A page subscribed to a session at the broker or at work, before its terminal
\* event, comes to show the outcome, unless the user looks elsewhere, the
\* connection drops or the row is removed.
SubscriberLearns ==
  \A p \in Page, s \in Session :
    active[p] = {s} /\ socket[p] = "subscribed" /\ queue[s] + Len(published[s]) > 0
      /\ ToSet(published[s]) \cap Settled = {}
      ~> \/ heard[p] = status[s] /\ status[s] \in Settled
         \/ active[p] # {s} \/ socket[p] # "subscribed" \/ status[s] = "deleted"

\* use-session-events.ts: "the socket closes itself server-side on a terminal
\* status, so there's nothing to reconnect - only to tear down on unmount".
SocketClosesItself ==
  \A p \in Page, s \in Session :
    active[p] = {s} /\ socket[p] = "subscribed" /\ status[s] \in Settled
      ~> active[p] # {s} \/ socket[p] = "closed"
=============================================================================
