------------------------------ MODULE Services ------------------------------
(***************************************************************************)
(* The parts that promise to end or to catch up, side by side: a behaviour *)
(* of this module is one of one of the parts, which is told by "which",    *)
(* and the others stay as they are.  A fairness condition of a part is one *)
(* of this module while the part runs.                                     *)
(***************************************************************************)
EXTENDS Naturals, Sequences, FiniteSets

CONSTANTS
  None, Run,                                                        \* of several parts
  Task, Deps, Provider, Limited, Pathless, NeedsOwner, MaxTaskAttempts,      \* Runs
  Kinds,                                                            \* Executing
  File, Piece, Content, First, Query, Batches, Worker, maxFileBytes, maxSearchResults, maxOutputBytes, MaxGen, MaxWrites,
                                                                    \* Reading
  MaxEpoch, MaxSeq, MaxConn, MaxCalls,                              \* Wire
  maxKeptBytes, MaxBytes                                            \* Processes

VARIABLES
  which,   \* the part that runs
  outcome, pc, queue, job, runsStored, approvals, accepted,
  run, lastUsage, ledger,
  inode, path, writes, ops, readingCursor, worker, outcomes, named, results,
  wire, loop, conn, wireCursor, calls, wireStored, life,
  runner, child, code, held, signals, refused, timer, hard, flags, written, kept, truncated, result

Runs == INSTANCE Orchestrator WITH
  MaxAttempts <- MaxTaskAttempts, stored <- runsStored
Executing == INSTANCE Attempts
Reading == INSTANCE ReadBatch WITH
  cursor <- readingCursor
Wire == INSTANCE WireFeed WITH
  cursor <- wireCursor, stored <- wireStored
Processes == INSTANCE ProcessRunner WITH
  maxOutputBytes <- maxKeptBytes

\* The plan is one createMasterPlan accepts, and None is no result.
ASSUME PlanAssumption == Deps \in [Task -> SUBSET Task] /\ None \notin Runs!Result

\* An escalation has a port of its own for each tier that has one, a retry has one at all.
ASSUME ExecutingAssumption ==
  /\ None \notin {0, 1}
  /\ Kinds \subseteq [mode : {"escalate", "retry", "delegate"}, ports : [Executing!Tier -> Executing!Port \cup {"none"}],
                     exclusive : BOOLEAN]
  /\ \A kind \in Kinds :
       /\ kind.mode = "retry" => kind.ports["worker"] # "none"
       /\ \A t, u \in Executing!Tier : kind.ports[t] = kind.ports[u] => t = u \/ kind.ports[t] = "none"

\* A command may be kept from writing more than it may, None is no exit code and no way to end.
ASSUME ProcessesAssumption ==
  /\ maxKeptBytes \in Nat /\ MaxBytes \in Nat
  /\ None \notin {0, 1}
  /\ None \notin {"executor", "command", "rejected", "resolved", "SPAWN_ERROR", "TIMEOUT", "CANCELLED", "SUCCESS", "SIGNAL",
                 "NON_ZERO"}

\* Wire has an epoch, and None is no number.
ASSUME WireAssumption == MaxEpoch \in Nat \ {0} /\ MaxSeq \in Nat /\ MaxConn \in Nat /\ None \notin Nat

\* Files are not empty, and an operation names a file if and only if it reads one.
Operation == [kind : Reading!Kind, file : File \cup {None}, expected : Content \cup {None}]
ASSUME ReadingAssumption ==
  /\ None \notin File /\ IsFiniteSet(File) /\ First \in [File -> Content]
  /\ Content \subseteq Seq(Piece) \ {<< >>} /\ None \notin Seq(Piece)
  /\ Batches \subseteq Seq(Operation)
  /\ \A b \in Batches : \A k \in 1..Len(b) : b[k].file = None <=> b[k].kind \in {"search", "outside"}
  /\ maxFileBytes \in Nat \ {0} /\ maxSearchResults \in Nat /\ maxOutputBytes \in Nat
  /\ MaxGen \in Nat \ {0} /\ MaxWrites \in Nat

runsVars == <<outcome, pc, queue, job, runsStored, approvals, accepted>>
executingVars == <<run, lastUsage, ledger>>
readingVars == <<inode, path, writes, ops, readingCursor, worker, outcomes, named, results>>
wireVars == <<wire, loop, conn, wireCursor, calls, wireStored, life>>
processesVars == <<runner, child, code, held, signals, refused, timer, hard, flags, written, kept, truncated, result>>

Parts == {"Runs", "Executing", "Reading", "Wire", "Processes"}

Init == which \in Parts /\ Runs!Init /\ Executing!Init /\ Reading!Init /\ Wire!Init /\ Processes!Init

Next ==
  \/ which = "Runs" /\ Runs!Next /\ UNCHANGED <<which, executingVars, readingVars, wireVars, processesVars>>
  \/ which = "Executing" /\ Executing!Next /\ UNCHANGED <<which, runsVars, readingVars, wireVars, processesVars>>
  \/ which = "Reading" /\ Reading!Next /\ UNCHANGED <<which, runsVars, executingVars, wireVars, processesVars>>
  \/ which = "Wire" /\ Wire!Next /\ UNCHANGED <<which, runsVars, executingVars, readingVars, processesVars>>
  \/ which = "Processes" /\ Processes!Next /\ UNCHANGED <<which, runsVars, executingVars, readingVars, wireVars>>

vars == <<which, runsVars, executingVars, readingVars, wireVars, processesVars>>

\* The fairness of every part, while that part runs.
Fairness ==
  /\ \A r \in Run : /\ WF_runsVars(which = "Runs" /\ ~Runs!Waiting(r) /\ Runs!Step(r))
                      /\ WF_executingVars(which = "Executing" /\ ~Executing!Waiting(r) /\ Executing!Step(r))
  /\ WF_readingVars(which = "Reading" /\ Reading!Finish)
  /\ \A w \in Worker : WF_readingVars(which = "Reading" /\ Reading!Work(w))
  /\ WF_wireVars(which = "Wire" /\ (Wire!Connect \/ Wire!Resume \/ Wire!AbortWait))
  /\ WF_wireVars(which = "Wire" /\ Wire!Exit)
  /\ WF_processesVars(which = "Processes" /\ Processes!Timeout)
  /\ WF_processesVars(which = "Processes" /\ Processes!HardKill)
  /\ WF_processesVars(which = "Processes" /\ Processes!Close)
  /\ WF_processesVars(which = "Processes" /\ "SIGKILL" \in signals /\ Processes!ChildExits)

Spec == Init /\ [][Next]_vars /\ Fairness

-----------------------------------------------------------------------------
\* No run of a plan completes a task on another result than a successful one, in scope, past the gate and accepted by
\* somebody else than who produced it, unless it names nobody and comes from another run; and no two runs complete it
\* on different ones (workforce-orchestrator.ts).
CompletedIsReviewed == Runs!CompletedIsReviewed

\* Each run of the orchestrator does what PlanBoard promises: every task is settled once, in the order of the
\* dependencies (workforce-orchestrator.ts).
RunsImplementBoard == Runs!RunsImplementBoard

\* The attempts of an execution add up: every tier is asked as often as the policy says, a port again only for what
\* may be better the next time, and no cost is told that was not measured (escalating-executor.ts, execution-loop.ts,
\* cost-ledger.ts).
AttemptsAddUp ==
  which = "Executing" => Executing!EveryTierTried /\ Executing!RetriedInVain /\ Executing!TotalOnlyIfMeasured

\* What is reported is what happened, however steps interleave: a read returns what its path named while it ran, or
\* pieces of it if it was written meanwhile, within the limit and the budget (read-executor.ts); success is only what
\* ended by itself (executor.mjs), and output that is cut is said to be (command-runner.ts).
ResultsAreTrue ==
  /\ which = "Reading" => Reading!TypeOK /\ Reading!ResultsAreOfTheirTime /\ Reading!LimitOutlastsGrowth /\ Reading!BudgetIsSpentInOrder
  /\ which = "Processes" => Processes!TypeOK /\ Processes!SuccessIsUndisturbed /\ Processes!CutIsTold
  /\ which = "Wire" => Wire!TypeOK

\* The cursor of Wire goes back only by a late snapshot (mcg.mjs).
WireCursorBackOnlyByResync == Wire!CursorBackOnlyByResync

\* What was begun ends: a run of a plan, with every task settled unless the store refused it, and an execution, unless
\* a provider without time limit never answers them; a batch, whatever its files go through; a child process, whatever
\* it makes of SIGTERM, unless SIGKILL is refused too; a pause of Wire's feed, and a shutdown that finds the feed
\* waiting (workforce-orchestrator.ts, escalating-executor.ts, read-executor.ts, executor.mjs, command-runner.ts,
\* mcg.mjs).
EverythingEnds ==
  /\ which = "Runs" => Runs!EveryRunEnds
  /\ Executing!RunEnds
  /\ Reading!BatchEnds
  /\ Processes!RunSettles
  /\ Wire!ReopensAfterClose /\ Wire!ShutdownEnds
=============================================================================
