------------------------ MODULE SessionEventsProofs ------------------------
(***************************************************************************)
(* For any pages, sessions and workers: pages do not disturb the runs they *)
(* follow; of a session whose task is delivered once a page shows only     *)
(* what the row has reached; and if publishes do not raise, a page that    *)
(* was there from the beginning has heard of every node.                   *)
(***************************************************************************)
EXTENDS SessionEvents, PipelineRunsProofs

\* A step beside the pages, or of one of them, is a step of the runs or none.
LEMMA LiveStep ==
  ASSUME [LiveNext]_liveVars
  PROVE  /\ [Next]_vars
         /\ \/ UNCHANGED pages
            \/ UNCHANGED vars /\ \E p \in Page : PageStep(p)
  <1>1. CASE Next /\ UNCHANGED pages
    BY <1>1
  <1>2. CASE \E p \in Page : PageStep(p)
    <2>1. UNCHANGED vars
      BY <1>2 DEF PageStep, SelectSession, FetchAnswers, DeselectSession, Subscribes, Refuses,
                  Relays, Drops
    <2> QED BY <1>2, <2>1
  <1>3. CASE UNCHANGED liveVars
    BY <1>3 DEF liveVars
  <1> QED BY <1>1, <1>2, <1>3 DEF LiveNext

\* Pages take nothing from the runs: whatever holds of every behaviour of
\* handlers, broker and workers holds with pages beside them.
THEOREM PagesDoNotInterfere == LiveSpec => Spec
  <1>1. LiveInit => Init
    BY DEF LiveInit
  <1>2. [LiveNext]_liveVars => [Next]_vars
    BY LiveStep
  <1> QED BY <1>1, <1>2, PTL DEF LiveSpec, Spec

\* With pages beside the runs, too, a session shown as running is worked on.
THEOREM NeverStuckLive ==
  ASSUME Faults \cap {"database", "redis", "kill"} = {}
  PROVE  LiveSpec => []NoSessionStuck
  BY PagesDoNotInterfere, NeverStuck, PTL

-----------------------------------------------------------------------------
(* What a page shows.                                                      *)

\* A status claimed for a session that its row has reached.
Backed(s, claim) ==
  /\ claim \in Statuses
  /\ claim = "running" => status[s] \in {"running"} \cup Settled
  /\ claim \in Settled => status[s] = claim

PageInv(p) ==
  /\ active[p] = {} \/ \E s \in Session : active[p] = {s}
  /\ active[p] \cup fetching[p] \subseteq {s \in Session : status[s] # "absent"}
  /\ \A s \in Once : Backed(s, cached[p][s])
  /\ \A s \in active[p] \cap Once : Backed(s, heard[p])

ShownInv ==
  /\ SingleDeliveryInv
  /\ LiveTypeOK
  /\ \A p \in Page : PageInv(p)

\* What was backed stays so.
LEMMA BackedStays ==
  ASSUME SingleDeliveryInv, [Next]_vars, NEW s \in Once, NEW claim, Backed(s, claim)
  PROVE  Backed(s, claim)'
  BY StatusMoves DEF Backed, Settled

\* The feed announces what the row has reached.
LEMMA FeedBacked ==
  ASSUME SingleDeliveryInv, NEW s \in Once, NEW i \in 1..Len(published[s]),
         published[s][i] # "node_update"
  PROVE  Backed(s, published[s][i])
  <1>1. published[s] \in Seq(Events) /\ status[s] \in {"absent", "queued", "running", "deleted"} \cup Settled
    BY DEF SingleDeliveryInv, TypeOK, Once
  <1>2. published[s][i] \in Events
    BY <1>1
  <1>3. RowMatchesFeed(s) /\ FeedTells(s)
    BY DEF SingleDeliveryInv, SessionInv
  <1>4. published[s] # <<>>
    BY <1>1
  <1>5. status[s] \in {"running"} \cup Settled
    BY <1>1, <1>3, <1>4 DEF RowMatchesFeed
  <1>6. published[s][i] \in Settled => published[s][i] = status[s]
    BY <1>3 DEF FeedTells
  <1> QED BY <1>2, <1>5, <1>6 DEF Backed, Events, Statuses, Settled

\* A page that does nothing.
LEMMA OtherPage ==
  ASSUME ShownInv, [Next]_vars, NEW p \in Page,
         active'[p] = active[p], fetching'[p] = fetching[p], cached'[p] = cached[p],
         heard'[p] = heard[p]
  PROVE  PageInv(p)'
  <1>1. PageInv(p) /\ SingleDeliveryInv /\ TypeOK
    BY DEF ShownInv, SingleDeliveryInv
  <1>2. active'[p] \cup fetching'[p] \subseteq {s \in Session : status'[s] # "absent"}
    BY <1>1, RowsMove DEF PageInv, Moved, Settled
  <1>3. \A s \in Once : Backed(s, cached[p][s])'
    <2>1. ASSUME NEW s \in Once PROVE Backed(s, cached[p][s])'
      <3>1. Backed(s, cached[p][s])
        BY <1>1 DEF PageInv
      <3> QED BY <1>1, <3>1, BackedStays
    <2> QED BY <2>1
  <1>4. \A s \in active[p] \cap Once : Backed(s, heard[p])'
    <2>1. ASSUME NEW s \in active[p] \cap Once PROVE Backed(s, heard[p])'
      <3>1. Backed(s, heard[p]) /\ s \in Once
        BY <1>1 DEF PageInv
      <3> QED BY <1>1, <3>1, BackedStays
    <2> QED BY <2>1
  <1> QED BY <1>1, <1>2, <1>3, <1>4 DEF PageInv

\* A step of a page keeps the types and is no business of the others.
LEMMA PageTypes ==
  ASSUME ShownInv, NEW p \in Page, PageStep(p)
  PROVE  /\ LiveTypeOK'
         /\ \A q \in Page \ {p} :
              /\ active'[q] = active[q] /\ fetching'[q] = fetching[q] /\ cached'[q] = cached[q]
              /\ heard'[q] = heard[q] /\ trace'[q] = trace[q] /\ socket'[q] = socket[q]
              /\ joined'[q] = joined[q] /\ cursor'[q] = cursor[q]
  <1> USE DEF LiveTypeOK, view, relay
  <1>0. LiveTypeOK /\ PageInv(p) /\ TypeOK /\ SingleDeliveryInv
    BY DEF ShownInv, SingleDeliveryInv
  <1>1. ASSUME NEW s \in Session, SelectSession(p, s)
        PROVE  /\ LiveTypeOK'
               /\ \A q \in Page \ {p} :
                    /\ active'[q] = active[q] /\ fetching'[q] = fetching[q]
                    /\ cached'[q] = cached[q] /\ heard'[q] = heard[q] /\ trace'[q] = trace[q]
                    /\ socket'[q] = socket[q] /\ joined'[q] = joined[q] /\ cursor'[q] = cursor[q]
    <2>1. fetching' \in [Page -> SUBSET Session] /\ \A q \in Page \ {p} : fetching'[q] = fetching[q]
      BY <1>0, <1>1 DEF SelectSession, Asks
    <2>2. socket' = [socket EXCEPT ![p] = IF cached[p][s] \in Settled THEN "none" ELSE "opening"]
      BY <1>1 DEF SelectSession, OpensFeed
    <2>3. socket' \in [Page -> Sockets] /\ \A q \in Page \ {p} : socket'[q] = socket[q]
      BY <1>0, <2>2 DEF Sockets
    <2>4. /\ active' = [active EXCEPT ![p] = {s}] /\ cached' = cached
          /\ heard' = [heard EXCEPT ![p] = cached[p][s]] /\ trace' = [trace EXCEPT ![p] = 0]
          /\ joined' = [joined EXCEPT ![p] = 0] /\ cursor' = [cursor EXCEPT ![p] = 0]
      BY <1>1 DEF SelectSession, OpensFeed, Unsubscribed
    <2> QED BY <1>0, <2>1, <2>3, <2>4
  <1>2. ASSUME NEW s \in Session, FetchAnswers(p, s)
        PROVE  /\ LiveTypeOK'
               /\ \A q \in Page \ {p} : fetching'[q] = fetching[q] /\ cached'[q] = cached[q]
               /\ UNCHANGED <<active, heard, trace, socket, joined, cursor>>
    <2>1. status[s] # "absent" /\ (status[s] # "deleted" => status[s] \in Statuses)
      BY <1>0, <1>2 DEF FetchAnswers, PageInv, TypeOK, Statuses, Settled
    <2>2. /\ fetching' = [fetching EXCEPT ![p] = @ \ {s}]
          /\ cached' = [cached EXCEPT ![p][s] = IF status[s] = "deleted" THEN @ ELSE status[s]]
          /\ UNCHANGED <<active, heard, trace, socket, joined, cursor>>
      BY <1>2 DEF FetchAnswers
    <2>3. cached' \in [Page -> [Session -> Statuses]]
      BY <1>0, <2>1, <2>2
    <2>4. \A q \in Page \ {p} : fetching'[q] = fetching[q] /\ cached'[q] = cached[q]
      BY <1>0, <2>2
    <2>5. fetching' \in [Page -> SUBSET Session]
      BY <1>0, <2>2
    <2> QED BY <1>0, <2>2, <2>3, <2>4, <2>5
  <1>3. CASE DeselectSession(p)
    BY <1>0, <1>3 DEF DeselectSession, Unsubscribed, Statuses, Sockets
  <1>4. CASE Subscribes(p) \/ Refuses(p) \/ Drops(p)
    <2>1. \A s \in Session : Len(published[s]) \in Nat
      BY <1>0 DEF TypeOK
    <2>2. active[p] \subseteq Session
      BY <1>0
    <2>3. CASE Subscribes(p)
      <3>1. PICK n \in Nat : joined' = [joined EXCEPT ![p] = n] /\ cursor' = [cursor EXCEPT ![p] = n]
        BY <2>1, <2>2, <2>3 DEF Subscribes
      <3>2. /\ socket' = [socket EXCEPT ![p] = "subscribed"]
            /\ UNCHANGED <<active, fetching, cached, heard, trace>>
        BY <2>3 DEF Subscribes
      <3> QED BY <1>0, <3>1, <3>2 DEF Sockets
    <2>4. CASE Refuses(p) \/ Drops(p)
      <3>1. /\ socket' = [socket EXCEPT ![p] = "closed"]
            /\ UNCHANGED <<active, fetching, cached, heard, trace, joined, cursor>>
        BY <2>4 DEF Refuses, Drops
      <3> QED BY <1>0, <3>1 DEF Sockets
    <2> QED BY <1>4, <2>3, <2>4
  <1>5. CASE Relays(p)
    <2>1. PICK s \in active[p] :
            /\ cursor[p] < Len(published[s])
            /\ Hears(p, published[s][cursor[p] + 1])
            /\ socket' = [socket EXCEPT ![p] =
                            IF published[s][cursor[p] + 1] \in Settled THEN "closed" ELSE @]
      BY <1>5 DEF Relays
    <2>2. published[s] \in Seq(Events) /\ cursor[p] + 1 \in 1..Len(published[s])
      BY <1>0, <2>1 DEF TypeOK
    <2>3. published[s][cursor[p] + 1] \in Events
      BY <2>2
    <2>4. /\ heard' \in [Page -> Statuses] /\ trace' \in [Page -> Nat]
          /\ \A q \in Page \ {p} : heard'[q] = heard[q] /\ trace'[q] = trace[q]
      <3>1. CASE published[s][cursor[p] + 1] = "node_update"
        <4>1. trace' = [trace EXCEPT ![p] = @ + 1] /\ heard' = heard
          BY <2>1, <3>1 DEF Hears
        <4> QED BY <1>0, <4>1
      <3>2. CASE published[s][cursor[p] + 1] # "node_update"
        <4>1. heard' = [heard EXCEPT ![p] = published[s][cursor[p] + 1]] /\ trace' = trace
          BY <2>1, <3>2 DEF Hears
        <4>2. published[s][cursor[p] + 1] \in Statuses
          BY <2>3, <3>2 DEF Events, Statuses, Settled
        <4> QED BY <1>0, <4>1, <4>2
      <3> QED BY <3>1, <3>2
    <2>5. socket' \in [Page -> Sockets] /\ \A q \in Page \ {p} : socket'[q] = socket[q]
      BY <1>0, <2>1 DEF Sockets
    <2>6. /\ cursor' = [cursor EXCEPT ![p] = @ + 1]
          /\ UNCHANGED <<active, fetching, cached, joined>>
      BY <1>5 DEF Relays
    <2> QED BY <1>0, <2>4, <2>5, <2>6
  <1>6. ASSUME NEW s \in Session, FetchAnswers(p, s)
        PROVE  /\ LiveTypeOK'
               /\ \A q \in Page \ {p} :
                    /\ active'[q] = active[q] /\ fetching'[q] = fetching[q]
                    /\ cached'[q] = cached[q] /\ heard'[q] = heard[q] /\ trace'[q] = trace[q]
                    /\ socket'[q] = socket[q] /\ joined'[q] = joined[q] /\ cursor'[q] = cursor[q]
    BY <1>2, <1>6
  <1> QED BY <1>1, <1>3, <1>4, <1>5, <1>6 DEF PageStep

\* A step of a page shows nothing that the row has not reached.
LEMMA PageBacked ==
  ASSUME ShownInv, NEW p \in Page, PageStep(p), UNCHANGED vars
  PROVE  PageInv(p)'
  <1>0. LiveTypeOK /\ PageInv(p) /\ TypeOK /\ SingleDeliveryInv
        /\ UNCHANGED <<status, published>> /\ Once \subseteq Session
    BY DEF ShownInv, SingleDeliveryInv, vars, database, row, Once
  <1>n. \A s \in Session : Backed(s, "none")
    BY DEF Backed, Statuses, Settled
  <1>k. \A s, claim : Backed(s, claim)' <=> Backed(s, claim')
    BY <1>0 DEF Backed
  <1>1. ASSUME NEW s \in Session, SelectSession(p, s) PROVE PageInv(p)'
    <2>1. /\ active'[p] = {s} /\ heard'[p] = cached[p][s] /\ cached' = cached
          /\ status[s] # "absent" /\ fetching'[p] \subseteq fetching[p] \cup {s}
      BY <1>0, <1>1 DEF SelectSession, OpensFeed, Asks, LiveTypeOK
    <2> QED BY <1>0, <2>1 DEF PageInv, Backed
  <1>2. ASSUME NEW s \in Session, FetchAnswers(p, s) PROVE PageInv(p)'
    <2>1. /\ active' = active /\ heard' = heard /\ fetching'[p] \subseteq fetching[p]
          /\ cached'[p][s] \in {cached[p][s], status[s]}
          /\ cached'[p][s] = status[s] => status[s] # "deleted" \/ cached[p][s] = status[s]
          /\ \A r \in Session \ {s} : cached'[p][r] = cached[p][r]
          /\ status[s] # "absent"
      BY <1>0, <1>2 DEF FetchAnswers, LiveTypeOK, view, PageInv
    <2>2. status[s] # "deleted" => Backed(s, status[s])
      BY <1>0, <2>1 DEF Backed, TypeOK, Statuses, Settled
    <2>3. s \in Once => Backed(s, cached'[p][s])
      BY <1>0, <2>1, <2>2 DEF PageInv
    <2> QED BY <1>0, <2>1, <2>3 DEF PageInv, Backed
  <1>3. CASE DeselectSession(p)
    <2>1. active'[p] = {} /\ fetching' = fetching /\ cached' = cached
      BY <1>0, <1>3 DEF DeselectSession, LiveTypeOK
    <2> QED BY <1>0, <2>1 DEF PageInv, Backed
  <1>4. CASE Subscribes(p) \/ Refuses(p) \/ Drops(p)
    <2>1. UNCHANGED <<active, fetching, cached, heard>>
      BY <1>4 DEF Subscribes, Refuses, Drops, view
    <2> QED BY <1>0, <2>1 DEF PageInv, Backed
  <1>5. CASE Relays(p)
    <2>1. PICK s \in active[p] :
            /\ cursor[p] < Len(published[s])
            /\ Hears(p, published[s][cursor[p] + 1])
      BY <1>5 DEF Relays
    <2>2. /\ cursor[p] + 1 \in 1..Len(published[s]) /\ s \in Session
          /\ active[p] = {s} /\ UNCHANGED <<active, fetching, cached>>
      <3>1. s \in Session /\ active[p] = {s}
        BY <1>0 DEF LiveTypeOK, PageInv
      <3>2. cursor[p] \in Nat /\ Len(published[s]) \in Nat
        BY <1>0, <3>1 DEF LiveTypeOK, TypeOK
      <3> QED BY <1>5, <2>1, <3>1, <3>2 DEF Relays
    <2>3. heard'[p] = heard[p] \/ (s \in Once => Backed(s, heard'[p]))
      <3>1. CASE published[s][cursor[p] + 1] = "node_update"
        BY <2>1, <3>1 DEF Hears
      <3>2. CASE published[s][cursor[p] + 1] # "node_update"
        <4>1. heard'[p] = published[s][cursor[p] + 1]
          BY <1>0, <2>1, <3>2 DEF Hears, LiveTypeOK
        <4> QED BY <1>0, <2>2, <3>2, <4>1, FeedBacked
      <3> QED BY <3>1, <3>2
    <2>4. s \in Once => Backed(s, heard'[p])
      BY <1>0, <2>2, <2>3 DEF PageInv
    <2> QED BY <1>0, <2>2, <2>4 DEF PageInv, Backed
  <1> QED BY <1>1, <1>2, <1>3, <1>4, <1>5 DEF PageStep

\* Every step.
LEMMA ShownStep ==
  ASSUME ShownInv, [LiveNext]_liveVars
  PROVE  ShownInv'
  <1>1. [Next]_vars /\ SingleDeliveryInv'
    BY LiveStep, SingleStep DEF ShownInv
  <1>2. CASE UNCHANGED pages
    <2>1. UNCHANGED <<active, fetching, cached, heard, trace, socket, joined, cursor>>
      BY <1>2 DEF pages, view, relay
    <2>2. \A p \in Page : PageInv(p)'
      BY <1>1, <2>1, OtherPage
    <2> QED BY <1>1, <2>1, <2>2 DEF ShownInv, LiveTypeOK
  <1>3. ASSUME NEW p \in Page, PageStep(p), UNCHANGED vars PROVE ShownInv'
    <2>1. PageInv(p)' /\ LiveTypeOK'
      BY <1>3, PageBacked, PageTypes
    <2>2. \A q \in Page \ {p} : PageInv(q)'
      BY <1>1, <1>3, PageTypes, OtherPage
    <2> QED BY <1>1, <2>1, <2>2 DEF ShownInv
  <1> QED BY <1>2, <1>3, LiveStep

\* At first no page shows anything.
LEMMA ShownInit == LiveInit => ShownInv
  <1> SUFFICES ASSUME LiveInit PROVE ShownInv
    OBVIOUS
  <1>1. SingleDeliveryInv
    BY SingleInit DEF LiveInit
  <1>2. LiveTypeOK
    BY DEF LiveInit, LiveTypeOK, Statuses, Sockets
  <1>3. \A p \in Page : PageInv(p)
    BY DEF LiveInit, PageInv, Backed, Statuses, Settled, Once
  <1> QED BY <1>1, <1>2, <1>3 DEF ShownInv

\* The invariant of pages and runs.
THEOREM ShownInvariance == LiveSpec => []ShownInv
  <1>1. ShownInv /\ [LiveNext]_liveVars => ShownInv'
    BY ShownStep
  <1> QED BY <1>1, ShownInit, PTL DEF LiveSpec

\* Every variable of a page has its type.
THEOREM LiveTypeCorrect == LiveSpec => []LiveTypeOK
  BY ShownInvariance, PTL DEF ShownInv

\* Whichever of fetch, cache and feed a page learned a status from, its row has
\* reached it, and a run shown as done has its report.
THEOREM ShownIsReached == LiveSpec => []ShownFollowsRow
  <1>1. ShownInv => ShownFollowsRow
    <2> SUFFICES ASSUME ShownInv, NEW p \in Page, NEW s \in active[p] \cap Once
                 PROVE  /\ Shown(p, s) = "running" => status[s] \in {"running"} \cup Settled
                        /\ Shown(p, s) \in Settled => status[s] = Shown(p, s)
                        /\ Shown(p, s) = "completed" => reports[s] # <<>>
      BY DEF ShownFollowsRow
    <2>1. s \in Once /\ PageInv(p)
      BY DEF ShownInv
    <2>2. Backed(s, Shown(p, s))
      BY <2>1 DEF PageInv, Shown
    <2>3. ReportMatches(s)
      BY <2>1 DEF ShownInv, SingleDeliveryInv, SessionInv
    <2> QED BY <2>2, <2>3 DEF Backed, ReportMatches, Settled
  <1> QED BY <1>1, ShownInvariance, PTL

-----------------------------------------------------------------------------
(* What a page has heard of a run.                                         *)

\* The agent_runs rows a session has while a worker is at a place with it.
RunsAt(at, s) ==
  CASE at \in {"loaded", "marked"} -> 0
    [] at = "stepped" -> Len(published[s])
    [] OTHER -> Len(published[s]) - 1

Ended(s) == ToSet(published[s]) \cap Settled # {}

\* The feed has one event for each row, one for the start, and one for the end.
NodesCounted(s) ==
  /\ status[s] \in {"absent", "queued", "deleted"} => agentRuns[s] = 0
  /\ Ended(s) => agentRuns[s] = Len(published[s]) - 2
  /\ \A w \in Worker : Works(w, s) => agentRuns[s] = RunsAt(place[w], s)

\* What the hook has counted since the feed began: everything but the start and
\* the end.
TraceInv(p) ==
  \A s \in active[p] \cap Once :
    /\ cursor[p] <= Len(published[s])
    /\ socket[p] \in {"opening", "subscribed"} => heard[p] \notin Settled
    /\ socket[p] = "opening" => cursor[p] = 0 /\ trace[p] = 0
    /\ joined[p] = 0 =>
         /\ cursor[p] = 0 => trace[p] = 0
         /\ cursor[p] > 0 =>
              trace[p] = cursor[p] - IF published[s][cursor[p]] \in Settled THEN 2 ELSE 1
         /\ socket[p] = "closed" /\ heard[p] \in Settled =>
              cursor[p] > 0 /\ published[s][cursor[p]] \in Settled
         /\ socket[p] = "subscribed" /\ cursor[p] > 0 => published[s][cursor[p]] \notin Settled

HeardInv ==
  /\ ShownInv
  /\ \A s \in Once : NodesCounted(s)
  /\ \A p \in Page : TraceInv(p)

\* The rows at each place.
LEMMA RunsAtPlace ==
  ASSUME NEW s
  PROVE  /\ RunsAt("loaded", s) = 0 /\ RunsAt("marked", s) = 0
         /\ RunsAt("stepped", s) = Len(published[s])
         /\ \A at \in {"streaming", "failing", "failed", "stored"} :
              RunsAt(at, s) = Len(published[s]) - 1
  BY DEF RunsAt

\* A session that a step does not concern keeps its count.
LEMMA CountStays ==
  ASSUME NEW s \in Session, NodesCounted(s),
         status'[s] = status[s] \/ (status[s] \in {"absent", "queued", "deleted"}),
         published'[s] = published[s], agentRuns'[s] = agentRuns[s],
         \A v \in Worker : Works(v, s)' => Works(v, s) /\ place'[v] = place[v]
  PROVE  NodesCounted(s)'
  <1>1. Ended(s)' => agentRuns'[s] = Len(published'[s]) - 2
    BY DEF NodesCounted, Ended
  <1>2. \A v \in Worker : Works(v, s)' => agentRuns'[s] = RunsAt(place[v], s)'
    BY DEF NodesCounted, RunsAt
  <1>3. status'[s] \in {"absent", "queued", "deleted"} => agentRuns'[s] = 0
    BY DEF NodesCounted
  <1> QED BY <1>1, <1>2, <1>3 DEF NodesCounted

\* A step of a running task, seen from its own session.
LEMMA CountStep ==
  ASSUME SingleDeliveryInv, SingleDeliveryInv', NEW w \in Worker, NEW s \in Once,
         NodesCounted(s), Step(w, s) \/ NodeRaises(w, s)
  PROVE  NodesCounted(s)'
  <1> USE DEF row, object, task, database, broker
  <1>0. Works(w, s)
    BY DEF Step, NodeRaises, MarkRunning, PublishRunning, StepNode, PublishNode,
           RecordFailure, PublishFailed, StoreReport, PublishCompleted, Goes
  <1>1. /\ TypeOK /\ status[s] = StatusAt(place[w]) /\ agentRuns[s] = RunsAt(place[w], s)
        /\ agentRuns[s] \in Nat /\ Len(published[s]) \in Nat
        /\ s \in Session /\ \A v \in Worker \ {w} : ~Works(v, s)
    BY <1>0, ServedOnce DEF NodesCounted, TypeOK
  <1>2. status'[s] \notin {"absent", "queued", "deleted"}
    <2>1. status[s] \in {"queued", "running"} \cup Settled /\ status[s] = StatusAt(place[w])
      BY <1>0, <1>1, ServedOnce, StatusAtPlace DEF Places, Settled
    <2>2. MarkRunning(w, s) => status'[s] = "running"
      BY <1>0, <1>1, ServedOnce, StatusAtPlace DEF MarkRunning, Goes, SetsStatus, Flushed, TypeOK
    <2>3. ~MarkRunning(w, s) => place[w] # "loaded"
      BY DEF Step, NodeRaises, MarkRunning, PublishRunning, StepNode, PublishNode,
             RecordFailure, PublishFailed, StoreReport, PublishCompleted, Goes
    <2>4. place[w] # "loaded" => status[s] \in {"running"} \cup Settled
      BY <1>0, <1>1, ServedOnce, StatusAtPlace DEF Places, Settled
    <2>5. [Next]_vars
      BY <1>1 DEF Next
    <2> QED BY <2>2, <2>3, <2>4, <2>5, StatusMoves DEF Settled
  <1>3. \A v \in Worker : Works(v, s)' => v = w
    <2>1. \A v \in Worker \ {w} : serves'[v] = serves[v]
      BY <1>1 DEF Step, NodeRaises, MarkRunning, PublishRunning, StepNode, PublishNode, Leaves,
             RecordFailure, PublishFailed, StoreReport, PublishCompleted, Goes, TypeOK
    <2> QED BY <1>1, <2>1 DEF Works
  <1>4. CASE MarkRunning(w, s) \/ RecordFailure(w, s) \/ StoreReport(w, s) \/ NodeRaises(w, s)
    <2>1. /\ published'[s] = published[s] /\ agentRuns'[s] = agentRuns[s]
          /\ RunsAt(place'[w], s) = RunsAt(place[w], s)
      BY <1>1, <1>4, RunsAtPlace DEF MarkRunning, RecordFailure, StoreReport, NodeRaises, Goes, TypeOK
    <2>2. Ended(s)' <=> Ended(s)
      BY <2>1 DEF Ended
    <2>3. RunsAt(place[w], s)' = RunsAt(place'[w], s)
      BY <2>1 DEF RunsAt
    <2> QED BY <1>1, <1>2, <1>3, <2>1, <2>2, <2>3 DEF NodesCounted
  <1>5. CASE PublishRunning(w, s) \/ PublishNode(w, s)
    <2>1. PICK e \in {"running", "node_update"} :
            /\ Publishes(s, e)
            /\ e = "running" => place[w] = "marked"
            /\ e = "node_update" => place[w] = "stepped"
            /\ place'[w] = "streaming" /\ agentRuns' = agentRuns
      BY <1>1, <1>5 DEF PublishRunning, PublishNode, Goes, TypeOK
    <2>2. /\ Len(published'[s]) = Len(published[s]) + 1
          /\ ToSet(published'[s]) = ToSet(published[s]) \cup {e}
      BY <1>1, <2>1, FeedGrows DEF Events
    <2>3. ~Ended(s)
      BY <1>0, <1>1, <2>1, ServedOnce, StatusAtPlace DEF Ended, SessionInv, RowMatchesFeed
    <2>4. ~Ended(s)'
      BY <2>1, <2>2, <2>3 DEF Ended, Settled
    <2>5. e = "running" => Len(published[s]) = 0
      BY <1>0, <2>1, ServedOnce DEF SessionInv, TaskMatchesRow
    <2>6. agentRuns'[s] = Len(published'[s]) - 1
      BY <1>1, <2>1, <2>2, <2>5, RunsAtPlace
    <2>7. RunsAt(place[w], s)' = Len(published'[s]) - 1
      BY <2>1 DEF RunsAt
    <2> QED BY <1>2, <1>3, <2>4, <2>6, <2>7 DEF NodesCounted
  <1>6. CASE StepNode(w, s)
    <2>1. /\ place[w] = "streaming" /\ place'[w] = "stepped" /\ published' = published
          /\ agentRuns'[s] = agentRuns[s] + 1
      BY <1>1, <1>6 DEF StepNode, Goes, TypeOK
    <2>2. ~Ended(s)' /\ RunsAt(place[w], s)' = Len(published[s])
      BY <1>0, <1>1, <2>1, ServedOnce, StatusAtPlace
      DEF Ended, SessionInv, RowMatchesFeed, RunsAt
    <2> QED BY <1>1, <1>2, <1>3, <2>1, <2>2, RunsAtPlace DEF NodesCounted
  <1>7. CASE PublishFailed(w, s) \/ PublishCompleted(w, s)
    <2>1. PICK e \in Settled : Publishes(s, e) /\ Leaves(w) /\ agentRuns' = agentRuns
                              /\ place[w] \in {"failed", "stored"}
      BY <1>7 DEF PublishFailed, PublishCompleted, Settled
    <2>2. Len(published'[s]) = Len(published[s]) + 1
      BY <1>1, <2>1, FeedGrows DEF Events, Settled
    <2>3. agentRuns'[s] = Len(published'[s]) - 2
      BY <1>1, <2>1, <2>2, RunsAtPlace
    <2>4. ~Works(w, s)'
      BY <1>1, <2>1 DEF Leaves, Works, TypeOK
    <2> QED BY <1>2, <1>3, <2>3, <2>4 DEF NodesCounted
  <1> QED BY <1>4, <1>5, <1>6, <1>7 DEF Step

\* Every step, when publishes do not raise either.
LEMMA CountNext ==
  ASSUME "redis" \notin Faults, SingleDeliveryInv, SingleDeliveryInv', [Next]_vars,
         \A s \in Once : NodesCounted(s), NEW s \in Once
  PROVE  NodesCounted(s)'
  <1> USE DEF row, object, task, database, broker
  <1>0. TypeOK /\ s \in Session /\ \A w \in Worker : ServesOne(w)
    BY DEF SingleDeliveryInv, Once
  <1>1. ASSUME NEW r \in Session, Handler(r) \/ RowRemoved(r) \/ Redelivered(r)
        PROVE  NodesCounted(s)'
    <2>1. UNCHANGED <<published, agentRuns, place, serves>>
      BY <1>1 DEF Handler, CreateSession, SendTask, SendFails, RowRemoved, Redelivered
    <2>2. status'[s] = status[s] \/ status[s] \in {"absent", "queued", "deleted"}
      BY <1>0, <1>1
      DEF Handler, CreateSession, SendTask, SendFails, RowRemoved, Redelivered, TypeOK
    <2> QED BY <1>0, <2>1, <2>2, CountStays DEF Works
  <1>2. ASSUME NEW w \in Worker, NEW r \in Session, Pickup(w, r)
        PROVE  NodesCounted(s)'
    <2>1. /\ UNCHANGED <<published, agentRuns, status>>
          /\ \A v \in Worker \ {w} : place'[v] = place[v] /\ serves'[v] = serves[v]
          /\ \/ place'[w] = place[w] /\ serves'[w] = serves[w]
             \/ place'[w] = "loaded" /\ serves'[w] = {r} /\ status[r] # "deleted"
      BY <1>0, <1>2 DEF Pickup, LoadSession, SessionGone, LoadFails, Takes, TypeOK
    <2>2. CASE Works(w, s)' /\ ~Works(w, s)
      <3>1. s = r /\ place'[w] = "loaded"
        BY <2>1, <2>2 DEF Works
      <3>2. status[s] = "queued"
        BY <1>0, <1>2, <2>1, <2>2, <3>1
        DEF SingleDeliveryInv, SessionInv, OneDelivery, Pickup, LoadSession, SessionGone,
            LoadFails, Takes, Works, TypeOK
      <3>3. agentRuns[s] = 0
        BY <3>2 DEF NodesCounted
      <3>4. RunsAt(place[w], s)' = 0
        BY <3>1 DEF RunsAt
      <3>5. Ended(s)' <=> Ended(s)
        BY <2>1 DEF Ended
      <3>6. \A v \in Worker \ {w} : Works(v, s)' => Works(v, s) /\ RunsAt(place[v], s)' = RunsAt(place[v], s)
        BY <2>1 DEF Works, RunsAt
      <3> QED BY <2>1, <3>3, <3>4, <3>5, <3>6 DEF NodesCounted
    <2>3. CASE Works(w, s)' => Works(w, s)
      <3>1. \A v \in Worker : Works(v, s)' => Works(v, s) /\ place'[v] = place[v]
        <4>1. Works(w, s)' => place'[w] = place[w]
          <5>1. Works(w, s) => place[w] # "idle"
            BY <1>0 DEF ServesOne, Works
          <5>2. place[w] = "idle"
            BY <1>2 DEF Pickup, LoadSession, SessionGone, LoadFails, Takes
          <5> QED BY <2>3, <5>1, <5>2
        <4> QED BY <2>1, <2>3, <4>1 DEF Works
      <3> QED BY <1>0, <2>1, <3>1, CountStays
    <2> QED BY <2>2, <2>3
  <1>3. ASSUME NEW w \in Worker, NEW r \in Session, Step(w, r) \/ NodeRaises(w, r)
        PROVE  NodesCounted(s)'
    <2>1. CASE r = s
      BY <1>3, <2>1, CountStep
    <2>2. CASE r # s
      <3>1. Works(w, r)
        BY <1>3 DEF Step, NodeRaises, MarkRunning, PublishRunning, StepNode, PublishNode,
                    RecordFailure, PublishFailed, StoreReport, PublishCompleted, Goes
      <3>2. SameSession(s)
        BY <1>0, <1>3, <2>2, <3>1, StepElsewhere
      <3>3. agentRuns'[s] = agentRuns[s]
        BY <1>0, <1>3, <2>2 DEF Step, NodeRaises, MarkRunning, PublishRunning, StepNode,
           PublishNode, RecordFailure, PublishFailed, StoreReport, PublishCompleted, TypeOK
      <3> QED BY <1>0, <3>2, <3>3, CountStays DEF SameSession
    <2> QED BY <2>1, <2>2
  <1>4. ASSUME NEW w \in Worker, DatabaseFails(w) \/ PublishRaises(w) \/ Killed(w)
        PROVE  NodesCounted(s)'
    <2>1. /\ Leaves(w) /\ UNCHANGED <<published, agentRuns, status>>
      BY <1>4 DEF DatabaseFails, PublishRaises, Killed
    <2>2. \A v \in Worker : Works(v, s)' => Works(v, s) /\ place'[v] = place[v]
      BY <1>0, <2>1 DEF Leaves, Works, TypeOK
    <2> QED BY <1>0, <2>1, <2>2, CountStays
  <1>5. CASE Done \/ UNCHANGED vars
    <2>1. UNCHANGED <<published, agentRuns, place, serves, status>>
      BY <1>5 DEF Done, vars
    <2> QED BY <1>0, <2>1, CountStays DEF Works
  <1> QED BY <1>1, <1>2, <1>3, <1>4, <1>5 DEF Next

\* A feed only grows at its end.
LEMMA FeedExtends ==
  ASSUME TypeOK, [Next]_vars, NEW s \in Session
  PROVE  /\ Len(published[s]) \in Nat /\ Len(published[s]) <= Len(published'[s])
         /\ \A i \in 1..Len(published[s]) : published'[s][i] = published[s][i]
  <1> USE DEF row, object, task, database, broker
  <1>1. Len(published[s]) \in Nat
    BY DEF TypeOK
  <1>2. published'[s] = published[s] \/ \E e \in Events : Publishes(s, e)
    <2>1. published' = published \/ \E r \in Session, e \in Events : Publishes(r, e)
      <3>1. ASSUME NEW r \in Session, Handler(r) \/ RowRemoved(r) \/ Redelivered(r)
            PROVE  published' = published
        BY <3>1 DEF Handler, CreateSession, SendTask, SendFails, RowRemoved, Redelivered
      <3>2. ASSUME NEW w \in Worker, NEW r \in Session, Pickup(w, r) PROVE published' = published
        BY <3>2 DEF Pickup, LoadSession, SessionGone, LoadFails, Takes
      <3>3. ASSUME NEW w \in Worker, NEW r \in Session, Step(w, r) \/ NodeRaises(w, r)
            PROVE  published' = published \/ \E e \in Events : Publishes(r, e)
        BY <3>3 DEF Step, NodeRaises, MarkRunning, PublishRunning, StepNode, PublishNode,
           RecordFailure, PublishFailed, StoreReport, PublishCompleted, Events
      <3>4. ASSUME NEW w \in Worker, DatabaseFails(w) \/ PublishRaises(w) \/ Killed(w)
            PROVE  published' = published
        BY <3>4 DEF DatabaseFails, PublishRaises, Killed
      <3>5. CASE Done \/ UNCHANGED vars
        BY <3>5 DEF Done, vars
      <3> QED BY <3>1, <3>2, <3>3, <3>4, <3>5 DEF Next
    <2>2. ASSUME NEW r \in Session, NEW e \in Events, Publishes(r, e)
          PROVE  published'[s] = published[s] \/ r = s
      BY <2>2 DEF Publishes, TypeOK
    <2> QED BY <2>1, <2>2
  <1>3. CASE published'[s] = published[s]
    BY <1>1, <1>3
  <1>4. ASSUME NEW e \in Events, Publishes(s, e)
        PROVE  /\ Len(published[s]) <= Len(published'[s])
               /\ \A i \in 1..Len(published[s]) : published'[s][i] = published[s][i]
    BY <1>1, <1>4, FeedGrows
  <1> QED BY <1>1, <1>2, <1>3, <1>4

\* What a page counted stays right while the feed goes on.
LEMMA TraceStays ==
  ASSUME ShownInv, [Next]_vars, NEW p \in Page, TraceInv(p), active'[p] = active[p],
         heard'[p] = heard[p], trace'[p] = trace[p], joined'[p] = joined[p],
         cursor'[p] = cursor[p], socket'[p] = socket[p]
  PROVE  TraceInv(p)'
  <1>1. ASSUME NEW s \in active[p] \cap Once
        PROVE  /\ cursor[p] <= Len(published'[s])
               /\ cursor[p] > 0 => published'[s][cursor[p]] = published[s][cursor[p]]
    <2>1. s \in Session /\ cursor[p] \in Nat /\ TypeOK
      BY DEF ShownInv, LiveTypeOK, SingleDeliveryInv
    <2>2. cursor[p] <= Len(published[s])
      BY <1>1 DEF TraceInv
    <2>3. /\ Len(published[s]) \in Nat /\ Len(published[s]) <= Len(published'[s])
          /\ \A i \in 1..Len(published[s]) : published'[s][i] = published[s][i]
      BY <2>1, FeedExtends
    <2>4. Len(published'[s]) \in Nat
      <3>1. TypeOK'
        BY <2>1, TypeStep
      <3> QED BY <2>1, <3>1 DEF TypeOK
    <2> QED BY <2>1, <2>2, <2>3, <2>4
  <1> QED BY <1>1 DEF TraceInv

\* The hook counts what the relay sends.
LEMMA TraceRelays ==
  ASSUME ShownInv, NEW p \in Page, TraceInv(p), Relays(p), NEW s \in active[p] \cap Once
  PROVE  TraceInv(p)'
  <1>a. s \in Session /\ active[p] = {s}
    BY DEF ShownInv, PageInv, Once
  <1>1. /\ cursor[p] < Len(published[s])
        /\ Hears(p, published[s][cursor[p] + 1])
        /\ socket' = [socket EXCEPT ![p] =
                        IF published[s][cursor[p] + 1] \in Settled THEN "closed" ELSE @]
    BY <1>a DEF Relays
  <1> DEFINE n == cursor[p]
             e == published[s][n + 1]
  <1>2. /\ LiveTypeOK /\ s \in Session /\ active[p] = {s} /\ FeedTells(s)
        /\ published[s] \in Seq(Events) /\ n \in Nat /\ trace[p] \in Nat
    BY <1>a DEF ShownInv, LiveTypeOK, SingleDeliveryInv, SessionInv, TypeOK
  <1>3. /\ n + 1 \in 1..Len(published[s]) /\ e \in Events /\ Len(published[s]) \in Nat
    BY <1>1, <1>2
  <1>4. e = "running" <=> n = 0
    <2>1. published[s][n + 1] = "running" <=> n + 1 = 1
      BY <1>2, <1>3 DEF FeedTells
    <2> QED BY <1>2, <2>1
  <1>5. /\ active' = active /\ joined' = joined /\ published' = published
        /\ cursor'[p] = n + 1 /\ socket[p] = "subscribed"
        /\ socket'[p] = IF e \in Settled THEN "closed" ELSE "subscribed"
    BY <1>1, <1>2 DEF Relays, LiveTypeOK, vars
  <1>6. /\ e = "node_update" => trace'[p] = trace[p] + 1 /\ heard'[p] = heard[p]
        /\ e # "node_update" => trace'[p] = trace[p] /\ heard'[p] = e
    BY <1>1, <1>2 DEF Hears, LiveTypeOK
  <1>7. heard[p] \notin Settled
    BY <1>2, <1>5 DEF TraceInv
  <1> HIDE DEF e
  <1>8. e \in Settled <=> e \notin {"running", "node_update"}
    BY <1>3 DEF Events, Settled
  <1>9. heard'[p] \in Settled <=> e \in Settled
    BY <1>6, <1>7, <1>8
  <1>10. joined[p] = 0 => trace'[p] = (n + 1) - IF e \in Settled THEN 2 ELSE 1
    <2>1. CASE joined[p] = 0 /\ n = 0
      <3>1. trace[p] = 0 /\ e = "running"
        BY <1>2, <1>4, <2>1 DEF TraceInv
      <3> QED BY <1>6, <1>8, <2>1, <3>1
    <2>2. CASE joined[p] = 0 /\ n # 0
      <3>1. n > 0
        BY <1>2, <2>2
      <3>2. published[s][n] \notin Settled /\ trace[p] = n - 1
        BY <1>2, <1>5, <2>2, <3>1 DEF TraceInv
      <3>3. e # "running"
        BY <1>4, <2>2
      <3> QED BY <1>2, <1>6, <1>8, <3>2, <3>3
    <2> QED BY <2>1, <2>2
  <1>11. published'[s][cursor'[p]] = e
    BY <1>5 DEF e
  <1>12. n + 1 <= Len(published[s]) /\ n + 1 > 0
    BY <1>2, <1>3
  <1> HIDE DEF n
  <1> QED BY <1>2, <1>5, <1>9, <1>10, <1>11, <1>12 DEF TraceInv

\* A page that looks elsewhere, subscribes or is cut off.
LEMMA TracePage ==
  ASSUME ShownInv, NEW p \in Page, TraceInv(p), PageStep(p), UNCHANGED vars
  PROVE  TraceInv(p)'
  <1>0. /\ LiveTypeOK /\ PageInv(p) /\ published' = published
        /\ \A s \in Session : Len(published[s]) \in Nat
    BY DEF ShownInv, SingleDeliveryInv, TypeOK, vars
  <1>1. ASSUME NEW s \in Session, SelectSession(p, s) PROVE TraceInv(p)'
    <2>1. /\ active'[p] = {s} /\ heard'[p] = cached[p][s] /\ trace'[p] = 0
          /\ joined'[p] = 0 /\ cursor'[p] = 0
          /\ socket'[p] = IF cached[p][s] \in Settled THEN "none" ELSE "opening"
      BY <1>0, <1>1 DEF SelectSession, OpensFeed, Unsubscribed, LiveTypeOK
    <2> QED BY <1>0, <2>1 DEF TraceInv
  <1>2. ASSUME NEW s \in Session, FetchAnswers(p, s) PROVE TraceInv(p)'
    <2>1. UNCHANGED <<active, heard, trace, socket, joined, cursor>>
      BY <1>2 DEF FetchAnswers, view, relay
    <2> QED BY <1>0, <2>1 DEF TraceInv
  <1>3. CASE DeselectSession(p)
    <2>1. active'[p] = {}
      BY <1>0, <1>3 DEF DeselectSession, LiveTypeOK
    <2> QED BY <2>1 DEF TraceInv
  <1>4. CASE Subscribes(p)
    <2>1. PICK s \in active[p] :
            /\ joined' = [joined EXCEPT ![p] = Len(published[s])]
            /\ cursor' = [cursor EXCEPT ![p] = Len(published[s])]
      BY <1>4 DEF Subscribes
    <2>2. /\ active[p] = {s} /\ s \in Session /\ socket[p] = "opening"
          /\ UNCHANGED <<active, heard, trace>> /\ socket'[p] = "subscribed"
          /\ joined'[p] = Len(published[s]) /\ cursor'[p] = Len(published[s])
      BY <1>0, <1>4, <2>1 DEF Subscribes, view, LiveTypeOK, PageInv
    <2>3. s \in Once => trace[p] = 0 /\ heard[p] \notin Settled
      BY <2>2 DEF TraceInv
    <2>4. /\ active'[p] = {s} /\ cursor'[p] <= Len(published'[s])
          /\ heard'[p] = heard[p] /\ trace'[p] = trace[p]
      BY <1>0, <2>2
    <2>5. joined'[p] = 0 => cursor'[p] = 0
      BY <2>2
    <2>6. CASE s \in Once
      <3>1. trace'[p] = 0 /\ heard'[p] \notin Settled
        BY <2>3, <2>4, <2>6
      <3> QED BY <2>2, <2>4, <2>5, <3>1 DEF TraceInv
    <2>7. CASE s \notin Once
      BY <2>4, <2>7 DEF TraceInv
    <2> QED BY <2>6, <2>7
  <1>5. CASE Refuses(p) \/ Drops(p)
    <2>1. /\ UNCHANGED <<active, heard, trace, joined, cursor>> /\ socket'[p] = "closed"
          /\ socket[p] \in {"opening", "subscribed"}
      BY <1>0, <1>5 DEF Refuses, Drops, view, LiveTypeOK
    <2> QED BY <1>0, <2>1 DEF TraceInv
  <1>6. CASE Relays(p)
    <2>1. active' = active
      BY <1>6 DEF Relays
    <2>2. CASE active[p] \cap Once = {}
      BY <2>1, <2>2 DEF TraceInv
    <2>3. CASE active[p] \cap Once # {}
      BY <1>6, <2>3, TraceRelays
    <2> QED BY <2>2, <2>3
  <1> QED BY <1>1, <1>2, <1>3, <1>4, <1>5, <1>6 DEF PageStep

\* Every step, when publishes do not raise.
LEMMA HeardStep ==
  ASSUME "redis" \notin Faults, HeardInv, [LiveNext]_liveVars
  PROVE  HeardInv'
  <1>1. ShownInv /\ ShownInv' /\ [Next]_vars /\ SingleDeliveryInv /\ SingleDeliveryInv'
    BY ShownStep, LiveStep DEF HeardInv, ShownInv
  <1>2. \A s \in Once : NodesCounted(s)'
    BY <1>1, CountNext DEF HeardInv
  <1>3. CASE UNCHANGED pages
    <2>1. UNCHANGED <<active, heard, trace, socket, joined, cursor>>
      BY <1>3 DEF pages, view, relay
    <2>2. \A p \in Page : TraceInv(p)'
      BY <1>1, <2>1, TraceStays DEF HeardInv
    <2> QED BY <1>1, <1>2, <2>2 DEF HeardInv
  <1>4. ASSUME NEW p \in Page, PageStep(p), UNCHANGED vars PROVE HeardInv'
    <2>1. TraceInv(p)'
      BY <1>1, <1>4, TracePage DEF HeardInv
    <2>2. \A q \in Page \ {p} : TraceInv(q)'
      BY <1>1, <1>4, PageTypes, TraceStays DEF HeardInv
    <2> QED BY <1>1, <1>2, <2>1, <2>2 DEF HeardInv
  <1> QED BY <1>3, <1>4, LiveStep

\* A page that was subscribed before the run began and has heard of its end has
\* heard of every node with an agent_runs row.
THEOREM EveryNodeIsHeard ==
  ASSUME "redis" \notin Faults
  PROVE  LiveSpec => []LiveTraceComplete
  <1>1. LiveInit => HeardInv
    <2> SUFFICES ASSUME LiveInit PROVE HeardInv
      OBVIOUS
    <2>1. ASSUME NEW s \in Once PROVE NodesCounted(s)
      <3>1. /\ published[s] = <<>> /\ agentRuns[s] = 0 /\ \A w \in Worker : ~Works(w, s)
        BY DEF LiveInit, Init, Works, Once
      <3>2. ~Ended(s)
        BY <3>1 DEF Ended, ToSet
      <3>3. status[s] = "absent"
        BY DEF LiveInit, Init, Once
      <3> QED BY <3>1, <3>2, <3>3 DEF NodesCounted
    <2>2. \A p \in Page : TraceInv(p)
      BY DEF LiveInit, TraceInv
    <2> QED BY <2>1, <2>2, ShownInit DEF HeardInv
  <1>2. HeardInv /\ [LiveNext]_liveVars => HeardInv'
    BY HeardStep
  <1>3. HeardInv => LiveTraceComplete
    <2> SUFFICES ASSUME HeardInv, NEW p \in Page, NEW s \in active[p] \cap Once, socket[p] = "closed",
                        heard[p] \in Settled, joined[p] = 0
                 PROVE  trace[p] = agentRuns[s]
      BY DEF LiveTraceComplete
    <2>1. /\ s \in Session /\ cursor[p] \in Nat /\ FeedTells(s) /\ published[s] \in Seq(Events)
          /\ NodesCounted(s)
      BY DEF HeardInv, ShownInv, LiveTypeOK, SingleDeliveryInv, SessionInv, TypeOK, Once
    <2>2. /\ cursor[p] > 0 /\ cursor[p] <= Len(published[s])
          /\ published[s][cursor[p]] \in Settled /\ trace[p] = cursor[p] - 2
      BY DEF HeardInv, TraceInv
    <2>3. cursor[p] \in 1..Len(published[s]) /\ Len(published[s]) \in Nat
      BY <2>1, <2>2
    <2>4. cursor[p] = Len(published[s])
      BY <2>1, <2>2, <2>3 DEF FeedTells
    <2>5. Ended(s)
      <3>1. DOMAIN published[s] = 1..Len(published[s])
        BY <2>1
      <3> QED BY <2>2, <2>3, <3>1 DEF Ended, ToSet
    <2> QED BY <2>1, <2>2, <2>4, <2>5 DEF NodesCounted
  <1> QED BY <1>1, <1>2, <1>3, PTL DEF LiveSpec
=============================================================================
