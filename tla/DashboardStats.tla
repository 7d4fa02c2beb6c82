--------------------------- MODULE DashboardStats ---------------------------
(***************************************************************************)
(* The numbers of apps/control-center/src/dashboard.mjs: what the dashboard *)
(* derives from the task directories, the telemetry events and the feed of *)
(* executions while those grow.  A number is None (null) when nothing was  *)
(* observed; characters are turned into estimated tokens four at a time.   *)
(***************************************************************************)
EXTENDS Integers, Sequences, FiniteSets, FiniteSetsExt

CONSTANTS
  Task, Executor,
  Compile,            \* sizes of a compilation: <<characters in, characters out>>
  Usage,              \* provider usage: <<input tokens or None, total tokens>>
  Window,             \* days that telemetryEvents goes back
  HistoryType,        \* types of history
  MaxEvents, MaxDay, MaxExecutions,   \* bounds
  None

VARIABLES
  state,       \* tasks/<id>/state.json: None or <<internal_state, external_state>>
  result,      \* size of tasks/<id>/result.json, or None
  events,      \* state/telemetry/events.jsonl, which history keeps a copy of
  executions,  \* what Core GET /executions returns: the usage of each, or None
  day

vars == <<state, result, events, executions, day>>

Init == /\ state = [t \in Task |-> None] /\ result = [t \in Task |-> None]
        /\ events = << >> /\ executions = << >> /\ day = 0

\* What other parts write while the dashboard runs.
States == {<<"DISPATCHED", "OPEN">>, <<"WORKING", "OPEN">>, <<"BLOCKED", "OPEN">>, <<"COMPLETED", "DONE">>}
TaskMoves(t) ==
  \E s \in States : state[t] \notin {s, <<"COMPLETED", "DONE">>} /\ state' = [state EXCEPT ![t] = s]
                    /\ result' = [result EXCEPT ![t] = IF s[2] = "DONE" THEN 4 ELSE @]
                    /\ UNCHANGED <<events, executions, day>>

\* recordTelemetry: an event with provider tokens is exact, one with characters only is estimated.
EventType(event) == IF event.total # None THEN "exact" ELSE IF event.in # None THEN "estimated" ELSE "unavailable"
\* An event without any measure, such as a change of state, is unavailable.
RecordTelemetry ==
  /\ Len(events) < MaxEvents
  /\ \E e \in Executor, t \in Task \cup {None} :
       \/ \E c \in Compile : events' = Append(events,
            [executor |-> e, task |-> t, in |-> c[1], out |-> c[2], input |-> None, total |-> None, day |-> day])
       \/ events' = Append(events,
            [executor |-> e, task |-> t, in |-> None, out |-> None, input |-> None, total |-> None, day |-> day])
       \/ \E u \in Usage : events' = Append(events,
            [executor |-> e, task |-> t, in |-> None, out |-> None, input |-> u[1], total |-> u[2], day |-> day])
  /\ UNCHANGED <<state, result, executions, day>>

Execution == /\ Len(executions) < MaxExecutions
             /\ \E u \in Usage \cup {None} : executions' = Append(executions, u)
             /\ UNCHANGED <<state, result, events, day>>
NextDay == day < MaxDay /\ day' = day + 1 /\ UNCHANGED <<state, result, events, executions>>

Next == (\E t \in Task : TaskMoves(t)) \/ RecordTelemetry \/ Execution \/ NextDay
Spec == Init /\ [][Next]_vars

-----------------------------------------------------------------------------
CeilDiv(n, d) == (n + d - 1) \div d
TokensOf(chars) == CeilDiv(chars, 4)
AtLeast0(n) == IF n < 0 THEN 0 ELSE n
SumOf(f, S) == FoldSet(LAMBDA x, sum : f[x] + sum, 0, S)
\* What is absent counts as nothing.
Known(n) == IF n = None THEN 0 ELSE n
Total(numbers) == SumOf([i \in DOMAIN numbers |-> Known(numbers[i])], DOMAIN numbers)

\* Faulty variant of OrNone: nothing observed is shown as zero.
OrZero(seen, n) == n
OrNone(seen, n) == IF seen THEN n ELSE None

\* telemetryEvents: rows older than seven days are left out.  Rows are told by their places.
telemetryEvents == {i \in DOMAIN events : events[i].day + Window >= day}
Compiles(rows) == {i \in rows : events[i].in # None}

taskStatus(s) == IF s[2] = "DONE" THEN "DONE"
                 ELSE CASE s[1] = "BLOCKED" -> "BLOCKED" [] s[1] = "WORKING" -> "RUNNING"
                        [] s[1] = "DISPATCHED" -> "DISPATCHED"
\* taskStats, with metric: nothing is measurable before there is a result.
taskStats == [t \in {u \in Task : state[u] # None} |->
  [status |-> taskStatus(state[t]), active |-> taskStatus(state[t]) \in {"RUNNING", "DISPATCHED"},
   delivered |-> result[t], measurable |-> result[t] # None]]

\* contextMetricsFromEvents: the share of the tasks with telemetry that had a context compiled.
EligibleTasks(rows) == {events[i].task : i \in rows} \ {None}
mcg_coverage(rows) == LET eligible == EligibleTasks(rows) IN
  OrNone(eligible # {}, (100 * Cardinality(EligibleTasks(Compiles(rows)))) \div Cardinality(eligible))

Savings(compiles) ==
  LET original == Total([i \in compiles |-> events[i].in])  delivered == Total([i \in compiles |-> events[i].out])
  IN [original |-> original, delivered |-> delivered, saved |-> AtLeast0(original - delivered)]
\* taskTokenSummary: null when nothing was compiled; original also when it adds up to nothing.
Summary(compiles) ==
  LET s == Savings(compiles)  seen == compiles # {} IN
  [tasks_processed |-> Cardinality({t \in DOMAIN taskStats : taskStats[t].status = "DONE"}),
   original_chars |-> OrNone(s.original > 0, s.original), delivered_chars |-> OrNone(seen, s.delivered),
   saved_chars |-> OrNone(seen, s.saved), estimated_tokens_saved |-> OrNone(seen, TokensOf(s.saved)),
   measurement_type |-> IF seen THEN "estimated" ELSE "unavailable"]
Executors(rows) == {events[i].executor : i \in rows}
Own(rows, e) == {i \in rows : events[i].executor = e}
\* Faulty variant of by_executor: the last compilation of an executor replaces the ones before it.
LastByExecutor(compiles) == [e \in Executors(compiles) |->
  LET s == Savings({Max(Own(compiles, e))}) IN
  [original_chars |-> s.original, saved_chars |-> s.saved, estimated_tokens_saved |-> TokensOf(s.saved),
   tasks_processed |-> 1]]
\* One row per executor: its tasks are those it compiled for, an event without a task counting as one.
by_executor(compiles) == [e \in Executors(compiles) |->
  LET own == Own(compiles, e)  s == Savings(own) IN
  [original_chars |-> s.original, saved_chars |-> s.saved, estimated_tokens_saved |-> TokensOf(s.saved),
   tasks_processed |-> Cardinality(EligibleTasks(own)) + Cardinality({i \in own : events[i].task = None})]]

Within(compiles, days) == {i \in compiles : day - events[i].day <= days}
\* Faulty variant of contextTokensWithin: a compilation that grew the context takes from the others.
NetTokensWithin(compiles, days) ==
  Total([i \in Within(compiles, days) |-> TokensOf(events[i].in - events[i].out)])
\* contextTokensWithin and periods: each event rounded up, against the total rounded once.
contextTokensWithin(compiles, days) ==
  Total([i \in Within(compiles, days) |-> TokensOf(AtLeast0(events[i].in - events[i].out))])
periods(compiles) == LET seen == compiles # {}  s == Savings(compiles) IN
  [today |-> OrNone(seen, contextTokensWithin(compiles, 1)),
   seven_days |-> OrNone(seen, contextTokensWithin(compiles, Window)),
   all_time |-> OrNone(s.original > 0, TokensOf(s.saved))]

\* observed_tokens: the events with the provider's own total; a field it left out counts as nothing.
Provider(rows) == {i \in rows : EventType(events[i]) = "exact"}
observed_tokens(rows) == LET exact == Provider(rows) IN
  [input |-> OrNone(exact # {}, Total([i \in exact |-> events[i].input])),
   total |-> OrNone(exact # {}, Total([i \in exact |-> events[i].total]))]

\* strongest, dashboardStats: one exact event makes the telemetry exact; registryView: the weakest one wins.
strongest(types) == CHOOSE m \in {"exact", "estimated", "unavailable"} :
  m = (IF "exact" \in types THEN "exact" ELSE IF "estimated" \in types THEN "estimated" ELSE "unavailable")
weakest(types) == CHOOSE m \in {"exact", "estimated", "unavailable"} :
  m = (IF types = {} \/ "unavailable" \in types THEN "unavailable"
       ELSE IF "estimated" \in types THEN "estimated" ELSE "exact")
Types(rows) == {EventType(events[i]) : i \in rows}

View(status, count, type) == [status |-> status, count |-> count, measurement_type |-> type]
Observed(n, type) == IF n = 0 THEN View("UNAVAILABLE", None, "unavailable") ELSE View("OBSERVED", n, type)

\* historyView: telemetry has every event, usage those with tokens; the other types have no file here.
HistoryRows(type) ==
  {i \in DOMAIN events : type = "telemetry" \/ (type = "usage" /\ EventType(events[i]) # "unavailable")}
historyView ==
  LET rows == [type \in HistoryType |-> Cardinality(HistoryRows(type))]
      present == {type \in HistoryType : rows[type] > 0}
      measured == UNION {{IF Types(HistoryRows(t)) = {"exact"} THEN "exact" ELSE "estimated"} : t \in present}
  IN View(IF present = {} THEN "UNAVAILABLE" ELSE IF present = HistoryType THEN "OBSERVED" ELSE "PARTIAL",
          IF present = {} THEN None ELSE SumOf(rows, present),
          weakest(measured \cup (IF present = HistoryType THEN {} ELSE {"unavailable"})))

\* executionEvidence: a field is added up over the executions with usage, when each of them has it.
UsageRows == {i \in DOMAIN executions : executions[i] # None}
executionUsage == [field \in 1..2 |->
  OrNone(UsageRows # {} /\ \A i \in UsageRows : executions[i][field] # None,
         Total([i \in UsageRows |-> executions[i][field]]))]
executionEvidence == Observed(Len(executions), "exact")

\* The registry view of the tools or agents that telemetry names, one item each.
registryView(rows) ==
  Observed(Cardinality(Executors(rows)), weakest({strongest(Types(Own(rows, e))) : e \in Executors(rows)}))

\* dashboardViews: the views built from this state.
dashboardViews == LET rows == telemetryEvents IN
  [Overview |-> View("OBSERVED", Summary(Compiles(rows)).tasks_processed,
                     IF rows = {} THEN "unavailable" ELSE strongest(Types(rows) \cup {"estimated"})),
   History |-> historyView,
   Tasks |-> Observed(Cardinality(DOMAIN taskStats), "estimated"),
   Agents |-> registryView(rows),
   Executions |-> executionEvidence]
-----------------------------------------------------------------------------
\* "A missing value is not zero": whatever was not observed has no number, in the totals, the periods, the
\* provider's tokens and the views alike, and a view that observed something has one.
AbsenceIsNotZero ==
  LET rows == telemetryEvents  compiles == Compiles(rows)  s == Summary(compiles)  p == periods(compiles) IN
  /\ compiles = {} <=> s.delivered_chars = None /\ s.estimated_tokens_saved = None /\ p.seven_days = None
  /\ compiles = {} => p.today = None /\ p.all_time = None /\ s.original_chars = None
  /\ Provider(rows) = {} => observed_tokens(rows).total = None
  /\ (\A i \in DOMAIN executions : executions[i] = None) => executionUsage = [f \in 1..2 |-> None]
  /\ \A v \in DOMAIN dashboardViews : (dashboardViews[v].status = "UNAVAILABLE") <=> (dashboardViews[v].count = None)

\* What a part of the time saved is never more than the whole, although each event is rounded up and the
\* total only once, and a compilation that grew its context takes from the total alone.
PeriodsAgree ==
  LET compiles == Compiles(telemetryEvents)  p == periods(compiles) IN
  compiles # {} =>
    /\ p.today <= p.seven_days
    /\ p.all_time # None => p.all_time <= p.seven_days

\* The executors account for the total: their characters add up to it, what they saved covers it, and every
\* task that had a context compiled is counted by one of them.
PartsCoverTotal ==
  LET compiles == Compiles(telemetryEvents)  rows == by_executor(compiles)  s == Summary(compiles)
      sum(field) == SumOf([e \in DOMAIN rows |-> rows[e][field]], DOMAIN rows)
  IN compiles # {} =>
    /\ s.original_chars \in {None, sum("original_chars")}
    /\ s.estimated_tokens_saved <= sum("estimated_tokens_saved")
    /\ Cardinality(EligibleTasks(compiles)) <= sum("tasks_processed")

\* docs/STATUS.md: "Missing usage fields remain null/unavailable": input tokens are shown only when the
\* provider gave them.  Does not hold: an event with a total alone counts as zero input tokens.
MissingUsageStaysNull ==
  observed_tokens(telemetryEvents).input # None =>
    \A i \in telemetryEvents : EventType(events[i]) = "exact" => events[i].input # None
=============================================================================
