---------------------------- MODULE Orchestrator ----------------------------
(***************************************************************************)
(* WorkforceOrchestrator.runPlan of packages/execution/src/cloud-fabric,   *)
(* with the retry loop, the evidence gate, the scope guard, the reviewer   *)
(* and the idempotency store it calls.  Several runs of one plan share the *)
(* store: a caller may start a run again after one that failed, or while   *)
(* another is still going.                                                 *)
(***************************************************************************)
EXTENDS Naturals, FiniteSets

CONSTANTS
  Task, Deps,   \* the plan, which createMasterPlan accepts: Deps is a function to sets of other tasks
  Provider,     \* providers with an adapter
  Limited,      \* those whose call has a time limit: claude's is stopped after two minutes, codex's has none
  Run,          \* runs of the plan
  Pathless,     \* tasks in write mode without allowed paths
  NeedsOwner,   \* tasks whose risk or constraints require the owner's approval
  MaxAttempts,  \* max_attempts of the default retry policy, 2 in the code
  None

VARIABLES
  outcome,     \* the completed, blocked and failed sets of each run
  pc, queue,   \* where each run is, and the tasks of its current pass
  job,         \* the task in hand: task, provider routed to, attempt, result, reviewer
  stored,      \* the idempotency store: the result of each task
  approvals,   \* tasks with an approval request
  accepted     \* history: for each run and completed task, who implemented it and who reviewed it

vars == <<outcome, pc, queue, job, stored, approvals, accepted>>

\* A result: its status, whether its evidence and tests satisfy the gate, whether it stayed in scope, who produced
\* it, which the code does not see, and the provider it names: a port fills that in with its own name, or leaves it
\* empty as the adapters of codex and claude do.  It is looked at when there is
\* something to review only.
Result == {result \in [status : {"success", "failure", "unavailable", "blocked"}, gate : BOOLEAN, scope : BOOLEAN,
                        by : Provider, provider : Provider \cup {None}] :
             /\ result.gate => result.status = "success"
             /\ result.provider \in IF result.gate /\ result.scope THEN {result.by, None} ELSE {None}}
Fresh(t, p) == [task |-> t, routed |-> p, attempt |-> 0, result |-> None, reviewer |-> None]
NoJob == Fresh(None, None)

Init ==
  /\ outcome = [r \in Run |-> [t \in Task |-> "pending"]]
  /\ pc = [r \in Run |-> "new"] /\ queue = [r \in Run |-> {}] /\ job = [r \in Run |-> NoJob]
  /\ stored = [t \in Task |-> None] /\ approvals = {} /\ accepted = [r \in Run |-> {}]

Goto(r, label) == pc' = [pc EXCEPT ![r] = label]
Settled(r, t) == outcome[r][t] # "pending"
readyTasks(r) == {t \in Task : ~Settled(r, t) /\ \A d \in Deps[t] : Settled(r, d)}

\* The task in hand is put in one of the three sets, and nothing is left of its execution; the run goes on with the
\* pass.
Settle(r, verdict) ==
  /\ outcome' = [outcome EXCEPT ![r][job[r].task] = verdict]
  /\ job' = [job EXCEPT ![r] = NoJob]
  /\ Goto(r, "pass")

SavePlan(r) ==
  /\ pc[r] = "new" /\ Goto(r, "pass")
  /\ UNCHANGED <<outcome, queue, job, stored, approvals, accepted>>

\* Faulty variant of Reachable: a dependency that failed lets a task through.
ReachableOnceSettled(r) == readyTasks(r)
Reachable(r) == {t \in readyTasks(r) : \A d \in Deps[t] : outcome[r][d] = "completed"}

\* Faulty variant of Unreached: every task is blocked, the settled ones too.
UnreachedAll(r) == Task
\* Faulty variant of Unreached: the tasks that cannot be reached are left out of the result.
UnreachedNone(r) == {}
Unreached(r) == {t \in Task : ~Settled(r, t)}

\* The head of the while loop: the tasks whose dependencies are completed, computed once per pass.
BeginPass(r) ==
  /\ pc[r] = "pass" /\ queue[r] = {} /\ \E t \in Task : ~Settled(r, t)
  /\ \/ Reachable(r) # {} /\ queue' = [queue EXCEPT ![r] = Reachable(r)] /\ UNCHANGED <<pc, outcome>>
     \/ /\ Reachable(r) = {} /\ Goto(r, "done") /\ UNCHANGED queue
        /\ outcome' = [outcome EXCEPT ![r] = [t \in Task |-> IF t \in Unreached(r) THEN "blocked" ELSE outcome[r][t]]]
  /\ UNCHANGED <<job, stored, approvals, accepted>>

EndRun(r) ==
  /\ pc[r] = "pass" /\ queue[r] = {} /\ \A t \in Task : Settled(r, t)
  /\ Goto(r, "done")
  /\ UNCHANGED <<outcome, queue, job, stored, approvals, accepted>>

\* The next task of the pass: what blocks it, or the provider it is routed to.
TakeTask(r) == \E t \in queue[r] :
  /\ pc[r] = "pass"
  /\ queue' = [queue EXCEPT ![r] = @ \ {t}]
  /\ \/ /\ t \in Pathless \/ t \in NeedsOwner
        /\ approvals' = IF t \in Pathless THEN approvals ELSE approvals \cup {t}
        /\ outcome' = [outcome EXCEPT ![r][t] = "blocked"] /\ UNCHANGED <<pc, job>>
     \/ /\ t \notin Pathless \cup NeedsOwner
        /\ \/ \E p \in Provider : job' = [job EXCEPT ![r] = Fresh(t, p)]
              /\ Goto(r, "once") /\ UNCHANGED outcome
           \/ outcome' = [outcome EXCEPT ![r][t] = "blocked"] /\ UNCHANGED <<pc, job>>   \* no port
        /\ UNCHANGED approvals
  /\ UNCHANGED <<stored, accepted>>

\* IdempotencyStore.once: a stored result is taken as it is; otherwise the first attempt starts.
Once(r) ==
  /\ pc[r] = "once"
  /\ \/ /\ stored[job[r].task] # None /\ Goto(r, "settle")
        /\ job' = [job EXCEPT ![r].result = stored[job[r].task]]
     \/ /\ stored[job[r].task] = None /\ Goto(r, "execute")
        /\ job' = [job EXCEPT ![r].attempt = 1]
  /\ UNCHANGED <<outcome, queue, stored, approvals, accepted>>

shouldRetry(result, attempt) == attempt < MaxAttempts /\ result.status = "failure"

\* One attempt ends.  The last result is stored; the store refuses a key another run has filled meanwhile,
\* and the error ends the run.
Execute(r) == \E result \in Result :
  /\ pc[r] = "execute" /\ result.by = job[r].routed
  /\ \/ /\ shouldRetry(result, job[r].attempt)
        /\ job' = [job EXCEPT ![r].attempt = @ + 1] /\ UNCHANGED <<pc, stored>>
     \/ /\ ~shouldRetry(result, job[r].attempt)
        /\ \/ stored[job[r].task] # None /\ Goto(r, "rejected") /\ UNCHANGED <<job, stored>>
           \/ /\ stored[job[r].task] = None /\ Goto(r, "settle")
              /\ stored' = [stored EXCEPT ![job[r].task] = result]
              /\ job' = [job EXCEPT ![r].result = result]
  /\ UNCHANGED <<outcome, queue, approvals, accepted>>

\* Faulty variant of Status: the scope of the changes is not looked at.
StatusAsReported(result) == result.status
\* Changes out of scope turn the result into a blocked one.
Status(result) == IF result.scope THEN result.status ELSE "blocked"
evidenceGate(result) == Status(result) = "success" /\ result.gate

\* Faulty variant of Reviewers: anybody may review.
ReviewersAll(r) == Provider
\* The verify route leaves out the provider that the result names or, when it names none, the one this run was
\* routed to.
Implementer(r) == IF job[r].result.provider # None THEN job[r].result.provider ELSE job[r].routed
Reviewers(r) == Provider \ {Implementer(r)}

Judge(r) ==
  /\ pc[r] = "settle"
  /\ \/ /\ ~evidenceGate(job[r].result)
        /\ Settle(r, IF Status(job[r].result) = "blocked" THEN "blocked" ELSE "failed")
     \/ evidenceGate(job[r].result) /\ Settle(r, "failed")   \* no reviewer
     \/ /\ evidenceGate(job[r].result)
        /\ \E p \in Reviewers(r) : job' = [job EXCEPT ![r].reviewer = p]
        /\ Goto(r, "review") /\ UNCHANGED outcome
  /\ UNCHANGED <<queue, stored, approvals, accepted>>

\* The review execution returns: the reviewer accepts the result or not.
Review(r) ==
  /\ pc[r] = "review"
  /\ \/ Settle(r, "failed") /\ UNCHANGED accepted
     \/ /\ Settle(r, "completed")
        /\ accepted' = [accepted EXCEPT ![r] =
             @ \cup {[task |-> job[r].task, result |-> job[r].result, routed |-> job[r].routed,
                      reviewer |-> job[r].reviewer]}]
  /\ UNCHANGED <<queue, stored, approvals>>

Step(r) == SavePlan(r) \/ BeginPass(r) \/ EndRun(r) \/ TakeTask(r) \/ Once(r) \/ Execute(r) \/ Judge(r) \/ Review(r)
Next == \E r \in Run : Step(r)

\* A run that waits for the answer of a provider whose call has no time limit.
Waiting(r) == \/ pc[r] = "execute" /\ job[r].routed \notin Limited
              \/ pc[r] = "review" /\ job[r].reviewer \notin Limited

\* Every other step is taken: the rest is local, or stopped by a time limit.
Fairness == \A r \in Run : WF_vars(~Waiting(r) /\ Step(r))
Spec == Init /\ [][Next]_vars /\ Fairness

-----------------------------------------------------------------------------
\* A completed task has a successful result, in scope and past the evidence gate, and somebody else than who produced
\* it has accepted it, unless it names nobody and was taken over from a run that was routed elsewhere; and two runs
\* never complete the task on different results.
CompletedIsReviewed ==
  /\ \A r \in Run, t \in Task : outcome[r][t] = "completed" => \E a \in accepted[r] : a.task = t
  /\ \A r \in Run : \A a \in accepted[r] :
       /\ a.result.status = "success" /\ a.result.scope /\ a.result.gate
       /\ a.reviewer = a.result.by => a.result.provider = None /\ a.result.by # a.routed
       /\ \A q \in Run : \A b \in accepted[q] : a.task = b.task => a.result = b.result

\* A run works on a task only when what the task depends on is completed, and never on one it has settled.
WorksInOrder ==
  \A r \in Run : pc[r] \in {"once", "execute", "settle", "review"} =>
    /\ ~Settled(r, job[r].task)
    /\ \A d \in Deps[job[r].task] : outcome[r][d] = "completed"

\* Every run of the plan comes to an end, unless it waits for ever for a provider without time limit, and one that
\* returns has settled every task.
EveryRunEnds ==
  \A r \in Run : \/ <>(pc[r] = "rejected" \/ (pc[r] = "done" /\ \A t \in Task : Settled(r, t)))
                 \/ <>[]Waiting(r)

\* Each run keeps the promise of PlanBoard.
Board(r) == INSTANCE PlanBoard WITH outcome <- outcome[r]
RunsImplementBoard ==
  (\A r \in Run : Board(r)!Init) /\ [][\A r \in Run : [Board(r)!Next]_(outcome[r])]_outcome
=============================================================================
