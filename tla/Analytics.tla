------------------------------ MODULE Analytics ------------------------------
(***************************************************************************)
(* The analytics overview (AnalyticsService.get_overview): one request     *)
(* that reads the sessions in four statements, each of which sees what is  *)
(* committed by then (READ COMMITTED), while the workers of PipelineRuns   *)
(* go on.                                                                  *)
(*                                                                         *)
(* All sessions belong to the user who asks and are recent.  A number that *)
(* has not been read yet is 0.                                             *)
(***************************************************************************)
EXTENDS PipelineRuns, FiniteSets

CONSTANT ActivityLimit    \* limit of GET /analytics/activity

ASSUME ActivityAssumption == ActivityLimit \in Nat \ {0}

VARIABLES
  statement,   \* statements of get_overview executed so far
  overview     \* what they answered

dashboard == <<statement, overview>>

HasRow(s) == status[s] \notin {"absent", "deleted"}

OwnRecentSessions == {s \in Session : HasRow(s)}

Having(wanted) == Cardinality({s \in OwnRecentSessions : status[s] = wanted})

DashboardInit ==
  /\ Init
  /\ statement = 0
  /\ overview = [sessions_run |-> 0, averaged |-> 0, completed |-> 0, failed |-> 0,
                 over_time |-> 0]

Executes(n, answer) ==
  /\ statement = n - 1
  /\ statement' = n
  /\ overview' = answer
  /\ UNCHANGED vars

CountSessions ==
  Executes(1, [overview EXCEPT !.sessions_run = Cardinality(OwnRecentSessions)])

\* How many sessions avg_completion_seconds is the average of.
AverageCompletion == Executes(2, [overview EXCEPT !.averaged = Having("completed")])

CountOutcomes ==
  Executes(3, [overview EXCEPT !.completed = Having("completed"), !.failed = Having("failed")])

\* Mutant: the count of the first statement is reused.
SessionsOverTimeCached ==
  Executes(4, [overview EXCEPT !.over_time = overview.sessions_run])

\* The sum of the counts by day.
SessionsOverTime ==
  Executes(4, [overview EXCEPT !.over_time = Cardinality(OwnRecentSessions)])

GetOverview == CountSessions \/ AverageCompletion \/ CountOutcomes \/ SessionsOverTime

DashboardNext == (Next /\ UNCHANGED dashboard) \/ GetOverview

DashboardSpec == DashboardInit /\ [][DashboardNext]_<<vars, dashboard>> /\ Fairness

\* The user's rows of analytics_events: <<s, i>> is the i-th of session s.
EventRows == UNION {{<<s, i>> : i \in DOMAIN analytics[s]} : s \in Session}

\* get_recent_activity: the lists it may answer.  It orders by created_at, the
\* start of a row's transaction, which need not be the order of the commits, and
\* cuts at the limit; of more rows than that, any may be the newest.
RecentActivity ==
  IF Cardinality(EventRows) <= ActivityLimit THEN {EventRows}
  ELSE kSubset(ActivityLimit, EventRows)

\* The sessions of which a list shows the event.
ShownIn(list, event) ==
  {s \in Session : \E i \in DOMAIN analytics[s] : <<s, i>> \in list /\ analytics[s][i] = event}

-----------------------------------------------------------------------------
(* Properties.                                                             *)

\* The numbers of one overview agree though runs end between its statements: no
\* more sessions in the average than completed ones, but for those a repeated
\* task may have taken up again; no more outcomes than sessions on the chart; and
\* an activity list read later shows every completion that was counted, but for as
\* many as the rows its limit cuts off.
OverviewAgrees ==
  /\ statement >= 2 => \A list \in RecentActivity :
       LET shown == Cardinality(ShownIn(list, "session.completed"))
           cut   == Cardinality(EventRows \ list)
       IN  overview.averaged <= shown + cut /\ overview.completed <= shown + cut
  /\ statement >= 3 =>
       overview.averaged <= overview.completed + Cardinality(OwnRecentSessions \cap Repeated)
  /\ statement = 4 => overview.completed + overview.failed <= overview.over_time
=============================================================================
