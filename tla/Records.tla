------------------------------- MODULE Records -------------------------------
(***************************************************************************)
(* The parts that keep records, side by side: a behaviour of this module   *)
(* is one of one of the parts, which is told by "which", and the others    *)
(* stay as they are.  The state spaces add up, they do not multiply.       *)
(***************************************************************************)
EXTENDS Integers, Sequences, FiniteSets

CONSTANTS
  Call, None, MaxCrash,                                             \* of several parts
  Id, Given, TopK, MaxEvents,                                       \* Memory
  Subject, RetentionDays, MaxRows, MaxDay, MaxCalls,                \* Logs
  Fragment, Chars(_), Kind(_), Budget, MaxCompiles,                 \* Packets
  Task, Executor, CompileSize, Usage, Window, StatsType, MaxStatsEvents, MaxStatsDay, MaxExecutions,   \* Stats
  Suite, Dataset, Baselines, Mcgs, MIN_DATASET,                     \* Evals
  Replay,                                                           \* Replaying
  Engine, Worker, Job, EngineOf, MaxAttempts,                       \* Jobs
  RoutingCall, Requirements, Quota, ObservedModel, MinSamples, MaxSamples, MaxChanges   \* Routing

VARIABLES
  which,   \* the part that runs
  log, memoryCall, read, torn,
  file, todo, rows, logsDay, calls, logsCrashes, exposed,
  offered, previous, diff, budget, input, cache, packetsCall, stored, spoilt, compiles,
  state, result, statsEvents, executions, statsDay,
  suite, runs, history, summaries, evalsCrashes,
  replay, results, recorded, told, replayingCrashes,
  jobs, jobsEvents, claims, jobsCall, working, jobsCrashes,
  quota, health, samples, changes, routingCall, steady

Memory == INSTANCE MemoryOS WITH
  call <- memoryCall
Logs == INSTANCE EvidenceLogs WITH
  day <- logsDay, crashes <- logsCrashes
Packets == INSTANCE ContextPackets WITH
  call <- packetsCall
Stats == INSTANCE DashboardStats WITH
  Compile <- CompileSize, HistoryType <- StatsType, MaxEvents <- MaxStatsEvents, MaxDay <- MaxStatsDay,
  events <- statsEvents, day <- statsDay
Evals == INSTANCE EvalPairs WITH
  crashes <- evalsCrashes
Replaying == INSTANCE Replays WITH
  crashes <- replayingCrashes
Jobs == INSTANCE JobClaims WITH
  Of <- EngineOf, events <- jobsEvents, call <- jobsCall, crashes <- jobsCrashes
Routing == INSTANCE CloudRouting WITH
  Call <- RoutingCall, Observed <- ObservedModel, call <- routingCall

\* What callers say of a memory is a namespace, a status and whether there is evidence; None is no memory.
ASSUME MemoryAssumption == None \notin Id /\ Given \subseteq [ns : Memory!Namespace, status : Memory!Status, evidence : BOOLEAN]
\* Every worker belongs to an engine, and None is no job.
ASSUME JobsAssumption == EngineOf \in [Worker -> Engine] /\ None \notin Job /\ MaxAttempts \in Nat /\ MaxCrash \in Nat

\* A dataset is a sequence of cases, and the sample gate asks for one pair at least.
ASSUME EvalsAssumption == Dataset \in Seq({Dataset[n] : n \in DOMAIN Dataset}) /\ MIN_DATASET \in Nat \ {0}
\* Fragments have an order and a length, and a budget is a number of characters.
ASSUME PacketsAssumption ==
  /\ \A f \in Fragment : f.id \in Int /\ f.priority \in Int \cup {None} /\ Chars(f.content) \in Nat
  /\ Budget \subseteq Nat
\* Sizes and tokens are counted, or None, which is no number; a period has a day.
ASSUME StatsAssumption ==
  /\ None \notin Int /\ CompileSize \subseteq Nat \X Nat /\ Usage \subseteq (Nat \cup {None}) \X Nat
  /\ Window \in Nat \ {0} /\ IsFiniteSet(Task) /\ IsFiniteSet(StatsType)
\* A rate is learned of one observation at least.
ASSUME RoutingAssumption == MinSamples \in Nat \ {0}
\* The calls in flight and the subjects of the budgets and rules can be counted.
ASSUME LogsAssumption == IsFiniteSet(Call) /\ IsFiniteSet(Subject)

memoryVars == <<log, memoryCall, read, torn>>
logsVars == <<file, todo, rows, logsDay, calls, logsCrashes, exposed>>
packetsVars == <<offered, previous, diff, budget, input, cache, packetsCall, stored, spoilt, compiles>>
statsVars == <<state, result, statsEvents, executions, statsDay>>
evalsVars == <<suite, runs, history, summaries, evalsCrashes>>
replayingVars == <<replay, results, recorded, told, replayingCrashes>>
jobsVars == <<jobs, jobsEvents, claims, jobsCall, working, jobsCrashes>>
routingVars == <<quota, health, samples, changes, routingCall, steady>>

Parts == {"Memory", "Logs", "Packets", "Stats", "Evals", "Replaying", "Jobs", "Routing"}

Init == which \in Parts /\ Memory!Init /\ Logs!Init /\ Packets!Init /\ Stats!Init /\ Evals!Init /\ Replaying!Init /\ Jobs!Init /\ Routing!Init

Next ==
  \/ which = "Memory" /\ Memory!Next /\ UNCHANGED <<which, logsVars, packetsVars, statsVars, evalsVars, replayingVars, jobsVars, routingVars>>
  \/ which = "Logs" /\ Logs!Next /\ UNCHANGED <<which, memoryVars, packetsVars, statsVars, evalsVars, replayingVars, jobsVars, routingVars>>
  \/ which = "Packets" /\ Packets!Next /\ UNCHANGED <<which, memoryVars, logsVars, statsVars, evalsVars, replayingVars, jobsVars, routingVars>>
  \/ which = "Stats" /\ Stats!Next /\ UNCHANGED <<which, memoryVars, logsVars, packetsVars, evalsVars, replayingVars, jobsVars, routingVars>>
  \/ which = "Evals" /\ Evals!Next /\ UNCHANGED <<which, memoryVars, logsVars, packetsVars, statsVars, replayingVars, jobsVars, routingVars>>
  \/ which = "Replaying" /\ Replaying!Next /\ UNCHANGED <<which, memoryVars, logsVars, packetsVars, statsVars, evalsVars, jobsVars, routingVars>>
  \/ which = "Jobs" /\ Jobs!Next /\ UNCHANGED <<which, memoryVars, logsVars, packetsVars, statsVars, evalsVars, replayingVars, routingVars>>
  \/ which = "Routing" /\ Routing!Next /\ UNCHANGED <<which, memoryVars, logsVars, packetsVars, statsVars, evalsVars, replayingVars, jobsVars>>

vars == <<which, memoryVars, logsVars, packetsVars, statsVars, evalsVars, replayingVars, jobsVars, routingVars>>
Spec == Init /\ [][Next]_vars

-----------------------------------------------------------------------------
\* Where a memory comes from and what replaced it can be told from the log, whatever ids callers use again and
\* whatever calls overlap or die: what is the company's was promoted, with evidence, from a memory that the log showed
\* validated, and what superseded a memory is in the log too, unless a call is at it or has died (memory.mjs).
MemoryIsTraceable == which = "Memory" => Memory!CompanyIsValidated /\ Memory!SuccessorExists

\* What is written in several files, one after the other, agrees but for a call or process that is at it or has died:
\* alerts and their inbox (telemetry.mjs), evaluations and their history (evals.mjs), the results of replays, their
\* history and the telemetry (replay.mjs).
FilesFollowOneAnother ==
  /\ which = "Logs" => Logs!InboxFollowsAlerts /\ Logs!AlertsBoundedByCalls
  /\ which = "Evals" => Evals!HistoryFollowsRuns
  /\ which = "Replaying" => Replaying!RecordsFollowResults

\* What one call has written another undoes only when both overlap, or one dies while it writes: the status of a memory,
\* but for what is remembered under an id in use (memory.mjs), recorded telemetry (store.mjs), a cached fragment
\* (cache.mjs), the replay a comparison stands on (replay.mjs).
LostOnlyInARace ==
  Memory!BackOnlyInARace /\ Logs!LostOnlyIfExposed /\ Packets!CachedStays /\ Replaying!ComparisonMovesOn

\* The budget of a context yields only to what must be kept, and is spent by priority; a packet that is expanded adds
\* to what it showed, when all of it fits (compiler.mjs, context-engine.ts).
BudgetIsSpentByPriority == which = "Packets" => Packets!BudgetIsSpentByPriority /\ Packets!ExpansionAdds

\* Who holds the compilation before and is sent the difference has the new one (compiler.mjs).
DeltaRebuilds == Packets!DeltaRebuilds

\* The numbers of the dashboard agree, although they are rounded, summed and cut apart: what was not observed has no
\* number, a period is within the whole, and the executors account for the total (dashboard.mjs).
NumbersAgree == which = "Stats" => Stats!AbsenceIsNotZero /\ Stats!PeriodsAgree /\ Stats!PartsCoverTotal

\* VALIDATED savings come from enough real pairs that were measured, right and no less honest; the gates and the
\* regression watch, computed apart from the same runs, do not contradict it (evals.mjs, scores.mjs).
ValidatedIsEarned ==
  which = "Evals" => Evals!ValidatedIsEarned /\ Evals!GatesAgree /\ Evals!ValidatedHasNotRegressed

\* Two workers never work at one job, although every process has an engine of its own, and in one life of a job in an
\* engine its events follow the transitions (job-engine.ts, job-claim-store.ts).
OneWorkerPerJob == which = "Jobs" => Jobs!TypeOK /\ Jobs!OneWorkerPerJob /\ Jobs!EventsFollowTransitions

\* A route takes no lesser model and no fallback past a model that was usable all the time; frontier models come
\* first where quality counts, and a reserve comes last (resource-router.ts, routing-policy.ts).
RouteTakesBest ==
  which = "Routing" => Routing!NoNeedlessFallback /\ Routing!FrontierFirst /\ Routing!ReserveIsLastResort
=============================================================================
