------------------------------ MODULE Scheduler ------------------------------
(***************************************************************************)
(* The persistent task scheduler of the control plane                      *)
(* (packages/control-plane/src/scheduler/scheduler.mjs).                   *)
(*                                                                         *)
(* One JSON file holds every task, its nodes, the leases of the nodes in   *)
(* execution and the locks on the resources they use.  submitTask,         *)
(* cancelTask and runOnce each read the whole file, change their private   *)
(* copy and write the whole copy back.  runOnce keeps its copy while it    *)
(* waits for the owner's approval and for the executions it started, so    *)
(* what the processes do to each other goes through the copies:            *)
(*                                                                         *)
(*   disk       the file                                                   *)
(*   mem[r]     the copy of the runOnce in progress in process r           *)
(*   image[r]   what the first save of r is writing out                    *)
(*   cmem[c]    the copy of the submitTask or cancelTask of process c      *)
(*                                                                         *)
(* Time is the number of ticks a lease or an open circuit has left; a      *)
(* tick takes one off every copy at once, as every process reads the same  *)
(* clock.                                                                  *)
(***************************************************************************)
EXTENDS Integers, FiniteSets

CONSTANTS
  Task,              \* task ids
  Node,              \* nodes of all the tasks
  Executor,          \* ids of the registry
  Resource,          \* what a lock is taken on: executors and named resources
  Runner,            \* processes that call runOnce
  Client,            \* processes that call submitTask and cancelTask
  TaskOf,            \* the task of a node
  Deps,              \* depends_on
  Capable,           \* the executors with the capability a node asks for
  NamedLock,         \* resource_lock, None where the node names none
  Risky,             \* nodes of risk R3 or R4: they need the owner's approval
  RiskyTask,         \* tasks of risk R3 or R4: they are not deduplicated
  NoFallback,        \* nodes with allow_fallback false
  NeedsWorktree,     \* nodes with requires_worktree
  SemanticKey,       \* the semantic key of a task
  Registries,        \* the sets of executors a registry may report available
  ConcurrencyLimit,  \* concurrency_limit
  MaxAttempts,       \* max_attempts
  LeaseTicks,        \* lease_ms
  Threshold,         \* failures that open a circuit
  CooldownTicks,     \* cooldown_ms of a circuit
  Overlap,           \* may operations of several processes overlap?
  MaxCrash,          \* bound on crashes of runners
  None               \* no node, no executor, no lock

ASSUME StructureAssumption ==
  /\ IsFiniteSet(Node)
  /\ TaskOf \in [Node -> Task]
  /\ Deps \in [Node -> SUBSET Node]
  /\ Capable \in [Node -> SUBSET Executor]
  /\ Executor \subseteq Resource
  /\ NamedLock \in [Node -> Resource \union {None}]
  /\ None \notin Node \union Executor \union Resource
  /\ Registries \subseteq SUBSET Executor

ASSUME BoundsAssumption ==
  /\ ConcurrencyLimit \in Nat \ {0}
  /\ MaxAttempts \in Nat \ {0}
  /\ LeaseTicks \in Nat \ {0}
  /\ Threshold \in Nat \ {0}
  /\ CooldownTicks \in Nat \ {0}
  /\ MaxCrash \in Nat

\* validateDag: submitTask accepts only nodes whose dependencies are nodes of
\* the same task and form no cycle.
validateDag ==
  /\ \A n \in Node : \A d \in Deps[n] : TaskOf[d] = TaskOf[n]
  /\ \E rank \in [Node -> 0 .. Cardinality(Node)] :
       \A n \in Node : \A d \in Deps[n] : rank[d] < rank[n]

ASSUME DagAssumption == validateDag

VARIABLES
  disk, mem, image, cmem,   \* the copies of the state
  pc,                \* where runOnce stands in each process
  cpc,               \* where the client operation stands
  healthy,           \* the executors the run may route to
  active,            \* runOnce's count of executions
  left, batch,       \* tasks not yet entered, READY nodes not yet visited
  ask,               \* the node and the executor awaiting approval
  job,               \* the executions each run started
  circuit,           \* the persistent circuit of each executor
  buried,            \* nodes with a row in dead-letter.jsonl
  crashes            \* crashes so far

vars == <<disk, mem, image, cmem, pc, cpc, healthy, active, left, batch, ask, job,
          circuit, buried, crashes>>

runVars == <<image, pc, healthy, active, left, batch, ask>>

-----------------------------------------------------------------------------
(* The state in the file. *)

TerminalForgetsFailure == {"DONE", "BLOCKED", "CANCELLED"}   \* faulty variant
Terminal == {"DONE", "BLOCKED", "CANCELLED", "FAILED_FINAL"}

TaskStatus == Terminal \union {"NONE", "QUEUED", "RUNNING", "APPROVAL_REQUIRED"}

NodeStatus == Terminal \union
  {"PENDING", "READY", "RUNNING", "WAITING_RESOURCE", "APPROVAL_REQUIRED"}

NoLease == -1        \* any other value: the ticks the lease has left

State == [status   : [Task -> TaskStatus],
          cancel   : SUBSET Task,
          node     : [Node -> NodeStatus],
          attempts : [Node -> 0 .. MaxAttempts + 1],
          approved : SUBSET Node,
          lease    : [Node -> NoLease .. LeaseTicks],
          lock     : [Resource -> Node \union {None}]]

\* state(): what a read gives when there is no file yet.
EmptyState == [status   |-> [t \in Task |-> "NONE"],
               cancel   |-> {},
               node     |-> [n \in Node |-> "PENDING"],
               attempts |-> [n \in Node |-> 0],
               approved |-> {},
               lease    |-> [n \in Node |-> NoLease],
               lock     |-> [x \in Resource |-> None]]

NodesOf(t) == {n \in Node : TaskOf[n] = t}

Leased(s) == {n \in Node : s.lease[n] # NoLease}

Submitted(s, t) == s.status[t] # "NONE"

\* Faulty variant of Live: a finished task is refreshed like any other.
LiveWhenFinished(s, t) == Submitted(s, t) /\ t \notin s.cancel

\* What refreshReadyInState and the dispatch loop skip.
Live(s, t) ==
  /\ Submitted(s, t)
  /\ s.status[t] \notin Terminal
  /\ t \notin s.cancel

-----------------------------------------------------------------------------
(* Operations on one copy. *)

\* Faulty variants of Cleanup: the lock, or the node's status, is forgotten.
CleanupKeepsLock(s) ==
  LET expired == {n \in Node : s.lease[n] = 0} IN
  [s EXCEPT !.lease = [n \in Node |-> IF n \in expired THEN NoLease ELSE @[n]],
            !.node  = [n \in Node |-> IF n \in expired /\ @[n] = "RUNNING"
                                        THEN "READY" ELSE @[n]]]

CleanupKeepsRunning(s) ==
  LET expired == {n \in Node : s.lease[n] = 0} IN
  [s EXCEPT !.lease = [n \in Node |-> IF n \in expired THEN NoLease ELSE @[n]],
            !.lock  = [x \in Resource |-> IF @[x] \in expired THEN None ELSE @[x]]]

\* cleanupExpired: drop the leases that ran out with the locks they back, and
\* make their nodes READY again.
Cleanup(s) ==
  LET expired == {n \in Node : s.lease[n] = 0} IN
  [s EXCEPT !.lease = [n \in Node |-> IF n \in expired THEN NoLease ELSE @[n]],
            !.lock  = [x \in Resource |-> IF @[x] \in expired THEN None ELSE @[x]],
            !.node  = [n \in Node |-> IF n \in expired /\ @[n] = "RUNNING"
                                        THEN "READY" ELSE @[n]]]

\* Faulty variants of Ready: a dependency in execution will do; a node that once
\* waited for a resource is skipped.
ReadyOnceDepRuns(s, n) ==
  /\ s.node[n] \notin {"DONE", "BLOCKED", "CANCELLED", "RUNNING", "APPROVAL_REQUIRED"}
  /\ \A d \in Deps[n] : s.node[d] \in {"RUNNING", "DONE"}

ReadyUnlessWaited(s, n) ==
  /\ s.node[n] \in {"PENDING", "READY", "FAILED_FINAL"}
  /\ \A d \in Deps[n] : s.node[d] = "DONE"

\* readyNodes.
Ready(s, n) ==
  /\ s.node[n] \notin {"DONE", "BLOCKED", "CANCELLED", "RUNNING", "APPROVAL_REQUIRED"}
  /\ \A d \in Deps[n] : s.node[d] = "DONE"

\* Faulty variant of DerivedStatus: a task none of whose nodes runs takes over
\* READY, which is a status of nodes only.
DerivedStatusOfNodes(f, t) ==
  LET found == {f[n] : n \in NodesOf(t)} IN
  IF found \subseteq {"DONE"}            THEN "DONE"
  ELSE IF "RUNNING" \in found            THEN "RUNNING"
  ELSE IF "APPROVAL_REQUIRED" \in found  THEN "APPROVAL_REQUIRED"
  ELSE "READY"

\* The status a task derives from the statuses its nodes have in f.
DerivedStatus(f, t) ==
  LET found == {f[n] : n \in NodesOf(t)} IN
  IF found \subseteq {"DONE"}            THEN "DONE"
  ELSE IF "RUNNING" \in found            THEN "RUNNING"
  ELSE IF "APPROVAL_REQUIRED" \in found  THEN "APPROVAL_REQUIRED"
  ELSE "QUEUED"

\* refreshReadyInState for the tasks in T.
Refresh(s, T) ==
  LET node == [n \in Node |-> IF TaskOf[n] \in T /\ Live(s, TaskOf[n]) /\ Ready(s, n)
                                THEN "READY" ELSE s.node[n]]
  IN [s EXCEPT !.node   = node,
               !.status = [t \in Task |-> IF t \in T /\ Live(s, t)
                                            THEN DerivedStatus(node, t) ELSE @[t]]]

ResourceFor(n, e) == IF NamedLock[n] # None THEN NamedLock[n] ELSE e

\* Faulty variant of Acquirable: the resource lock is not looked at.
AcquirableIgnoringLock(s, n, e) == s.lease[n] <= 0

\* acquire: refused by a live lease of the node, or by another node's lock.
Acquirable(s, n, e) ==
  /\ s.lease[n] <= 0
  /\ s.lock[ResourceFor(n, e)] \in {None, n}

\* One more attempt; the count saturates one above max_attempts, where every
\* test on it already comes out the same.
Counted(attempts) == IF attempts > MaxAttempts THEN attempts ELSE attempts + 1

\* acquire and the assignments that follow it: the node goes RUNNING.
Acquire(s, n, e) ==
  [s EXCEPT !.lease[n] = LeaseTicks,
            !.lock[ResourceFor(n, e)] = n,
            !.node[n] = "RUNNING",
            !.attempts[n] = Counted(@),
            !.status[TaskOf[n]] = "RUNNING"]

\* release.
Release(s, n, e) ==
  [s EXCEPT !.lease[n] = NoLease,
            !.lock[ResourceFor(n, e)] = IF @ = n THEN None ELSE @]

SetNode(s, n, status) == [s EXCEPT !.node[n] = status]

\* The outcome of an attempt, then the finally block: the lease is released and
\* the task refreshed.
Settle(s, n, e, status) ==
  Refresh(Release(SetNode(s, n, status), n, e), {TaskOf[n]})

\* Faulty variant of Bury: only the task is marked.
BuryTaskOnly(s, n) == [s EXCEPT !.status[TaskOf[n]] = "FAILED_FINAL"]

\* deadLetter, up to the append to the dead-letter file.
Bury(s, n) ==
  [s EXCEPT !.node[n] = "FAILED_FINAL",
            !.status[TaskOf[n]] = "FAILED_FINAL"]

\* Faulty variant of Submittable: tasks in execution are not compared.
SubmittableUnlessQueued(s, t) ==
  /\ ~ Submitted(s, t)
  /\ t \in RiskyTask \/ ~ \E u \in Task : /\ s.status[u] = "QUEUED"
                                          /\ SemanticKey[u] = SemanticKey[t]

\* submitTask rejects a task id in use and returns the duplicate it finds.
Submittable(s, t) ==
  /\ ~ Submitted(s, t)
  /\ t \in RiskyTask \/ ~ \E u \in Task : /\ Submitted(s, u)
                                          /\ s.status[u] \notin Terminal
                                          /\ SemanticKey[u] = SemanticKey[t]

SubmitIn(s, t) == Refresh([s EXCEPT !.status[t] = "QUEUED"], {t})

\* Faulty variant of CancelIn: leases go, their locks stay.
CancelKeepsLocks(s, t) ==
  LET dropped == NodesOf(t) \intersect Leased(s) IN
  [s EXCEPT !.cancel = @ \union {t},
            !.status[t] = "CANCELLED",
            !.node   = [n \in Node |-> IF n \in NodesOf(t) /\ @[n] \notin Terminal
                                         THEN "CANCELLED" ELSE @[n]],
            !.lease  = [n \in Node |-> IF n \in dropped THEN NoLease ELSE @[n]]]

\* cancelTask.
CancelIn(s, t) ==
  LET dropped == NodesOf(t) \intersect Leased(s) IN
  [s EXCEPT !.cancel = @ \union {t},
            !.status[t] = "CANCELLED",
            !.node   = [n \in Node |-> IF n \in NodesOf(t) /\ @[n] \notin Terminal
                                         THEN "CANCELLED" ELSE @[n]],
            !.lease  = [n \in Node |-> IF n \in dropped THEN NoLease ELSE @[n]],
            !.lock   = [x \in Resource |-> IF @[x] \in dropped THEN None ELSE @[x]]]

\* One tick of the clock, as a copy sees it.
Dec(ticks) == IF ticks > 0 THEN ticks - 1 ELSE ticks
Aged(s) == [s EXCEPT !.lease = [n \in Node |-> Dec(@[n])]]

-----------------------------------------------------------------------------
(* The circuit of an executor (packages/routing/src/router.mjs), each of    *)
(* whose methods is one step here; failures saturate at the threshold,      *)
(* above which the code tells nothing apart.                                *)

Closed == -1         \* any other value: the ticks until a retry is allowed

ClosedCircuit == [failures |-> 0, open |-> Closed]

Circuit == [failures : 0 .. Threshold, open : Closed .. CooldownTicks]

Allows(c) == c.open \in {Closed, 0}

AfterAllow(c) == IF c.open = 0 THEN ClosedCircuit ELSE c

CircuitFailure(c) ==
  LET failures == IF c.failures < Threshold THEN c.failures + 1 ELSE Threshold IN
  [failures |-> failures,
   open     |-> IF failures >= Threshold THEN CooldownTicks ELSE Closed]

\* retryPlan: does attempt number k of node n have no strategy left?
RetryBlocked(n, k) == k > 4 \/ (k = 4 /\ n \in NoFallback)

\* Faulty variant of LastAttempt: off by one, and retryPlan is not asked.
LastAttemptOffByOne(s, n) == s.attempts[n] > MaxAttempts

LastAttempt(s, n) ==
  \/ s.attempts[n] >= MaxAttempts
  \/ RetryBlocked(n, s.attempts[n] + 1)

-----------------------------------------------------------------------------
(* runOnce. *)

NoAsk == [node |-> None, exec |-> None]

NoJob == [at |-> "idle", exec |-> None]

JobPhase == {"idle", "executing", "verifying", "burying"}

\* runOnce has given up the thread: only then do its executions take steps.
Awaiting(r) == pc[r] \in {"approving", "saving", "writing", "waiting"}

AllIdle == (\A r \in Runner : pc[r] = "idle") /\ (\A c \in Client : cpc[c] = "idle")

Init ==
  /\ disk = EmptyState
  /\ mem = [r \in Runner |-> EmptyState]
  /\ image = [r \in Runner |-> EmptyState]
  /\ cmem = [c \in Client |-> EmptyState]
  /\ pc = [r \in Runner |-> "idle"]
  /\ cpc = [c \in Client |-> "idle"]
  /\ healthy = [r \in Runner |-> {}]
  /\ active = [r \in Runner |-> 0]
  /\ left = [r \in Runner |-> {}]
  /\ batch = [r \in Runner |-> {}]
  /\ ask = [r \in Runner |-> NoAsk]
  /\ job = [r \in Runner |-> [n \in Node |-> NoJob]]
  /\ circuit = [e \in Executor |-> ClosedCircuit]
  /\ buried = {}
  /\ crashes = 0

\* Read the file, drop expired leases, refresh every task.
Load(r) ==
  /\ pc[r] = "idle"
  /\ Overlap \/ AllIdle
  /\ mem' = [mem EXCEPT ![r] = Refresh(Cleanup(disk), Task)]
  /\ pc' = [pc EXCEPT ![r] = "probing"]
  /\ UNCHANGED <<disk, cmem, image, cpc, healthy, active, left, batch, ask, job,
                 circuit, buried, crashes>>

\* Ask every circuit of the registry, then count the leases.
Probe(r) ==
  /\ pc[r] = "probing"
  /\ \E available \in Registries :
       healthy' = [healthy EXCEPT ![r] = {e \in available : Allows(circuit[e])}]
  /\ circuit' = [e \in Executor |-> AfterAllow(circuit[e])]
  /\ active' = [active EXCEPT ![r] = Cardinality(Leased(mem[r]))]
  /\ left' = [left EXCEPT ![r] = {t \in Task : Submitted(mem[r], t)}]
  /\ pc' = [pc EXCEPT ![r] = "dispatch"]
  /\ UNCHANGED <<disk, mem, cmem, image, cpc, batch, ask, job, buried, crashes>>

\* Faulty variant of Dispatching: concurrency_limit is not looked at.
DispatchingIgnoringLimit(r) == pc[r] = "dispatch"

Dispatching(r) == pc[r] = "dispatch" /\ active[r] < ConcurrencyLimit

\* The outer loop: the nodes of the next task that are READY on entry.
EnterTask(r, t) ==
  /\ Dispatching(r)
  /\ batch[r] = {}
  /\ t \in left[r]
  /\ left' = [left EXCEPT ![r] = @ \ {t}]
  /\ batch' = [batch EXCEPT ![r] =
       IF Live(mem[r], t) THEN {n \in NodesOf(t) : mem[r].node[n] = "READY"} ELSE {}]
  /\ UNCHANGED <<disk, mem, cmem, image, pc, cpc, healthy, active, ask, job, circuit,
                 buried, crashes>>

\* selectRoute: any available executor with the capability may come first.
Routes(r, n) == Capable[n] \intersect healthy[r]

NeedsApproval(s, n) == n \in Risky /\ n \notin s.approved

\* The rest of the inner loop's body once node n may run on e, s being the copy
\* that records the approval.
StartOrWait(r, n, e, s) ==
  \/ /\ Acquirable(s, n, e)
     /\ mem' = [mem EXCEPT ![r] = Acquire(s, n, e)]
     /\ active' = [active EXCEPT ![r] = @ + 1]
     /\ job' = [job EXCEPT ![r][n] = [at |-> "executing", exec |-> e]]
  \/ /\ ~ Acquirable(s, n, e)
     /\ mem' = [mem EXCEPT ![r] = SetNode(s, n, "WAITING_RESOURCE")]
     /\ UNCHANGED <<active, job>>

\* The inner loop: one node of the batch.
Visit(r, n) ==
  /\ Dispatching(r)
  /\ n \in batch[r]
  /\ batch' = [batch EXCEPT ![r] = @ \ {n}]
  /\ \/ /\ Routes(r, n) = {}
        /\ mem' = [mem EXCEPT ![r] = SetNode(@, n, "WAITING_RESOURCE")]
        /\ UNCHANGED <<active, job, ask, pc>>
     \/ \E e \in Routes(r, n) :
          \/ /\ NeedsApproval(mem[r], n)
             /\ ask' = [ask EXCEPT ![r] = [node |-> n, exec |-> e]]
             /\ pc' = [pc EXCEPT ![r] = "approving"]
             /\ UNCHANGED <<mem, active, job>>
          \/ /\ ~ NeedsApproval(mem[r], n)
             /\ StartOrWait(r, n, e, mem[r])
             /\ UNCHANGED <<ask, pc>>
  /\ UNCHANGED <<disk, cmem, image, cpc, healthy, left, circuit, buried, crashes>>

Grant(s, n) == [s EXCEPT !.approved = @ \union {n}]

Deny(s, n) == [s EXCEPT !.node[n] = "APPROVAL_REQUIRED",
                        !.status[TaskOf[n]] = "APPROVAL_REQUIRED"]

\* The awaited approve callback answers.
Answer(r) ==
  LET n == ask[r].node IN
  /\ pc[r] = "approving"
  /\ \/ StartOrWait(r, n, ask[r].exec, Grant(mem[r], n))
     \/ /\ mem' = [mem EXCEPT ![r] = Deny(@, n)]
        /\ UNCHANGED <<active, job>>
  /\ ask' = [ask EXCEPT ![r] = NoAsk]
  /\ pc' = [pc EXCEPT ![r] = "dispatch"]
  /\ UNCHANGED <<disk, cmem, image, cpc, healthy, left, batch, circuit, buried, crashes>>

\* The loops end: nothing is left, or the limit is reached.
EndDispatch(r) ==
  /\ pc[r] = "dispatch"
  /\ \/ left[r] = {} /\ batch[r] = {}
     \/ ~ Dispatching(r)
  /\ pc' = [pc EXCEPT ![r] = "saving"]
  /\ left' = [left EXCEPT ![r] = {}]
  /\ batch' = [batch EXCEPT ![r] = {}]
  /\ UNCHANGED <<disk, mem, cmem, image, cpc, healthy, active, ask, job, circuit,
                 buried, crashes>>

\* The first save, with the executions in flight: what is serialized reaches the
\* file only when the temporary file is renamed.
Serialize(r) ==
  /\ pc[r] = "saving"
  /\ image' = [image EXCEPT ![r] = mem[r]]
  /\ pc' = [pc EXCEPT ![r] = "writing"]
  /\ UNCHANGED <<disk, mem, cmem, cpc, healthy, active, left, batch, ask, job,
                 circuit, buried, crashes>>

SaveStarted(r) ==
  /\ pc[r] = "writing"
  /\ disk' = image[r]
  /\ image' = [image EXCEPT ![r] = EmptyState]
  /\ pc' = [pc EXCEPT ![r] = "waiting"]
  /\ UNCHANGED <<mem, cmem, cpc, healthy, active, left, batch, ask, job,
                 circuit, buried, crashes>>

\* Promise.all(workers), the last save, and the end of runOnce.
SaveFinished(r) ==
  /\ pc[r] = "waiting"
  /\ \A n \in Node : job[r][n].at = "idle"
  /\ disk' = mem[r]
  /\ mem' = [mem EXCEPT ![r] = EmptyState]
  /\ pc' = [pc EXCEPT ![r] = "idle"]
  /\ healthy' = [healthy EXCEPT ![r] = {}]
  /\ active' = [active EXCEPT ![r] = 0]
  /\ UNCHANGED <<cmem, image, cpc, left, batch, ask, job, circuit, buried, crashes>>

-----------------------------------------------------------------------------
(* The executions a run started. *)

Advance(r, n, phase) ==
  job' = [job EXCEPT ![r][n].at = phase]

\* The finally block: release, count down, refresh.
Finish(r, n, status) ==
  /\ mem' = [mem EXCEPT ![r] = Settle(@, n, job[r][n].exec, status)]
  /\ job' = [job EXCEPT ![r][n] = NoJob]
  /\ active' = [active EXCEPT ![r] = @ - 1]

\* The catch block.
Fail(r, n) ==
  \/ /\ LastAttempt(mem[r], n)
     /\ mem' = [mem EXCEPT ![r] = Bury(@, n)]
     /\ Advance(r, n, "burying")
     /\ UNCHANGED active
  \/ /\ ~ LastAttempt(mem[r], n)
     /\ Finish(r, n, "READY")

\* execute returns; the circuit records a success and the result is verified.
Executed(r, n) ==
  /\ Awaiting(r)
  /\ job[r][n].at = "executing"
  /\ circuit' = [circuit EXCEPT ![job[r][n].exec] = ClosedCircuit]
  /\ Advance(r, n, "verifying")
  /\ UNCHANGED <<disk, mem, cmem, image, cpc, buried, crashes, runVars>>

\* execute throws, or the worktree of the node cannot be allocated: then the
\* executor never started and its circuit is left alone.
ExecuteFails(r, n) ==
  /\ Awaiting(r)
  /\ job[r][n].at = "executing"
  /\ \/ circuit' = [circuit EXCEPT ![job[r][n].exec] = CircuitFailure(@)]
     \/ n \in NeedsWorktree /\ UNCHANGED circuit
  /\ Fail(r, n)
  /\ UNCHANGED <<disk, cmem, image, cpc, pc, healthy, left, batch, ask, buried, crashes>>

\* The verification passes or rejects the result.
Verified(r, n) ==
  /\ Awaiting(r)
  /\ job[r][n].at = "verifying"
  /\ Finish(r, n, "DONE") \/ Fail(r, n)
  /\ UNCHANGED <<disk, cmem, image, cpc, pc, healthy, left, batch, ask, circuit, buried,
                 crashes>>

\* The row reaches the dead-letter file.
Buried(r, n) ==
  /\ Awaiting(r)
  /\ job[r][n].at = "burying"
  /\ buried' = buried \union {n}
  /\ Finish(r, n, mem[r].node[n])
  /\ UNCHANGED <<disk, cmem, image, cpc, pc, healthy, left, batch, ask, circuit, crashes>>

-----------------------------------------------------------------------------
(* The clients, the clock and crashes. *)

\* submitTask up to its save.
Submit(c, t) ==
  /\ cpc[c] = "idle"
  /\ Overlap \/ AllIdle
  /\ Submittable(Cleanup(disk), t)
  /\ cmem' = [cmem EXCEPT ![c] = SubmitIn(Cleanup(disk), t)]
  /\ cpc' = [cpc EXCEPT ![c] = "saving"]
  /\ UNCHANGED <<disk, mem, job, circuit, buried, crashes, runVars>>

\* cancelTask up to its save.
Cancel(c, t) ==
  /\ cpc[c] = "idle"
  /\ Overlap \/ AllIdle
  /\ Submitted(disk, t)
  /\ cmem' = [cmem EXCEPT ![c] = CancelIn(disk, t)]
  /\ cpc' = [cpc EXCEPT ![c] = "saving"]
  /\ UNCHANGED <<disk, mem, job, circuit, buried, crashes, runVars>>

\* The save of either.
ClientSave(c) ==
  /\ cpc[c] = "saving"
  /\ disk' = cmem[c]
  /\ cmem' = [cmem EXCEPT ![c] = EmptyState]
  /\ cpc' = [cpc EXCEPT ![c] = "idle"]
  /\ UNCHANGED <<mem, job, circuit, buried, crashes, runVars>>

\* A tick makes a difference only while a lease or an open circuit has time left.
Ticking ==
  \/ \E n \in Node : \/ disk.lease[n] > 0
                     \/ \E r \in Runner : mem[r].lease[n] > 0 \/ image[r].lease[n] > 0
                     \/ \E c \in Client : cmem[c].lease[n] > 0
  \/ \E e \in Executor : circuit[e].open > 0

Tick ==
  /\ Ticking
  /\ disk' = Aged(disk)
  /\ mem' = [r \in Runner |-> Aged(mem[r])]
  /\ image' = [r \in Runner |-> Aged(image[r])]
  /\ cmem' = [c \in Client |-> Aged(cmem[c])]
  /\ circuit' = [e \in Executor |-> [circuit[e] EXCEPT !.open = Dec(@)]]
  /\ UNCHANGED <<pc, cpc, healthy, active, left, batch, ask, job, buried, crashes>>

\* A process dies in runOnce: its copy and its executions are gone.
Crash(r) ==
  /\ pc[r] # "idle"
  /\ crashes < MaxCrash
  /\ crashes' = crashes + 1
  /\ mem' = [mem EXCEPT ![r] = EmptyState]
  /\ job' = [job EXCEPT ![r] = [n \in Node |-> NoJob]]
  /\ pc' = [pc EXCEPT ![r] = "idle"]
  /\ healthy' = [healthy EXCEPT ![r] = {}]
  /\ active' = [active EXCEPT ![r] = 0]
  /\ left' = [left EXCEPT ![r] = {}]
  /\ batch' = [batch EXCEPT ![r] = {}]
  /\ ask' = [ask EXCEPT ![r] = NoAsk]
  /\ image' = [image EXCEPT ![r] = EmptyState]
  /\ UNCHANGED <<disk, cmem, cpc, circuit, buried>>

Worker(r, n) == Executed(r, n) \/ ExecuteFails(r, n) \/ Verified(r, n) \/ Buried(r, n)

Dispatch(r) ==
  \/ Probe(r) \/ EndDispatch(r) \/ Serialize(r) \/ SaveStarted(r) \/ SaveFinished(r)
  \/ \E t \in Task : EnterTask(r, t)
  \/ \E n \in Node : Visit(r, n)

Next ==
  \/ \E r \in Runner : Load(r) \/ Dispatch(r) \/ Answer(r) \/ Crash(r)
  \/ \E r \in Runner, n \in Node : Worker(r, n)
  \/ \E c \in Client : ClientSave(c) \/ \E t \in Task : Submit(c, t) \/ Cancel(c, t)
  \/ Tick

Spec == Init /\ [][Next]_vars

-----------------------------------------------------------------------------
(* Fairness: the owner keeps calling runOnce, an execution and an approval   *)
(* request end sooner or later, and time passes.  Nobody has to submit,      *)
(* cancel or crash, and each wait of the code ends by itself.                *)

Fairness ==
  /\ \A r \in Runner : /\ WF_vars(Load(r))
                       /\ WF_vars(Dispatch(r))
                       /\ WF_vars(Answer(r))
                       /\ \A n \in Node : WF_vars(Worker(r, n))
  /\ \A c \in Client : WF_vars(ClientSave(c))
  /\ WF_vars(Tick)

FairSpec == Spec /\ Fairness

-----------------------------------------------------------------------------
(* Properties. *)

Copies == {disk} \union {mem[r] : r \in Runner} \union {image[r] : r \in Runner}
            \union {cmem[c] : c \in Client}

Busy(r, n) == job[r][n].at # "idle"

TypeOK ==
  /\ disk \in State
  /\ mem \in [Runner -> State]
  /\ image \in [Runner -> State]
  /\ cmem \in [Client -> State]
  /\ pc \in [Runner -> {"idle", "probing", "dispatch", "approving", "saving",
                       "writing", "waiting"}]
  /\ cpc \in [Client -> {"idle", "saving"}]
  /\ healthy \in [Runner -> SUBSET Executor]
  /\ active \in [Runner -> Int]
  /\ left \in [Runner -> SUBSET Task]
  /\ batch \in [Runner -> SUBSET Node]
  /\ ask \in [Runner -> [node : Node \union {None}, exec : Executor \union {None}]]
  /\ job \in [Runner -> [Node -> [at : JobPhase, exec : Executor \union {None}]]]
  /\ circuit \in [Executor -> Circuit]
  /\ buried \in SUBSET Node
  /\ crashes \in Nat

\* In the file and in every private copy, whatever overlapped or crashed, a node
\* is READY, RUNNING or DONE only after all it depends on is DONE (readyNodes is
\* asked before a node starts, and no later write takes a DONE back).
DependenciesFirst ==
  \A s \in Copies, n \in Node :
    s.node[n] \in {"READY", "RUNNING", "DONE"} => \A d \in Deps[n] : s.node[d] = "DONE"

\* No copy holds a RUNNING node without a lease: cleanupExpired finds the nodes
\* of a dead run by their leases only, so such a node would never run again.
RunningIsLeased ==
  \A s \in Copies, n \in Node : s.node[n] = "RUNNING" => s.lease[n] # NoLease

\* No copy holds a lock of a node without a lease: release and cleanupExpired
\* find locks by leases only, so such a lock would block its resource for good.
LocksAreBacked ==
  \A s \in Copies, x \in Resource : s.lock[x] # None => s.lease[s.lock[x]] # NoLease

\* Two executions of one run never use the same resource at the same time.
ResourceExclusive ==
  \A r \in Runner : \A m, n \in Node :
    /\ m # n
    /\ Busy(r, m)
    /\ Busy(r, n)
    => ResourceFor(m, job[r][m].exec) # ResourceFor(n, job[r][n].exec)

\* A run never has more executions in flight than concurrency_limit.
WithinLimit ==
  \A r \in Runner : Cardinality({n \in Node : Busy(r, n)}) <= ConcurrencyLimit

\* Once a node ran out of attempts, nobody executes it again (deadLetter).
DeadLetterIsFinal ==
  \A r \in Runner, n \in Node : n \in buried => ~ Busy(r, n)

\* Between runs, the nodes given up in the file are those with a row in the
\* dead-letter file: none is dropped silently, none is reported and retried.
DeadLetterMatchesFile ==
  AllIdle => \A n \in Node : n \in buried <=> disk.node[n] = "FAILED_FINAL"

\* No node is started more often than max_attempts and retryPlan allow.
AttemptsBounded ==
  \A s \in Copies, n \in Node :
    s.attempts[n] <= MaxAttempts /\ ~ RetryBlocked(n, s.attempts[n])

\* Retries come to an end, and the end is final: the three facts the dead-letter file relies on.
RetriesEnd == AttemptsBounded /\ DeadLetterIsFinal /\ DeadLetterMatchesFile

\* Two unfinished tasks have the same semantic key only if one of them is of
\* risk R3 or R4 (the deduplication in submitTask).
UniqueLiveKey ==
  \A s \in Copies : \A t, u \in Task :
    /\ t # u
    /\ {t, u} \intersect RiskyTask = {}
    /\ \A v \in {t, u} : Submitted(s, v) /\ s.status[v] \notin Terminal
    => SemanticKey[t] # SemanticKey[u]

\* In the file and in every private copy, whatever overlaps: one unfinished task per key, no lock without a lease.
CopiesAreSound == UniqueLiveKey /\ LocksAreBacked

\* A task that is finished in the file stays as it is, unless the owner cancels it.
TerminalIsFinal ==
  [][\A t \in Task : disk.status[t] \in Terminal =>
        disk'.status[t] \in {disk.status[t], "CANCELLED"}]_disk

\* Every submitted task ends, or waits for the owner.
EveryTaskSettles ==
  \A t \in Task : disk.status[t] = "QUEUED" ~>
                    disk.status[t] \in Terminal \union {"APPROVAL_REQUIRED"}

\* No resource stays locked for ever by one node.
EveryLockIsFreed ==
  \A x \in Resource, n \in Node : disk.lock[x] = n ~> disk.lock[x] # n

\* What tests/integration/scheduler.test.mjs states of cancelTask: the task is
\* CANCELLED in the file from then on.
CancelSticks ==
  [][\A t \in Task : t \in disk.cancel => t \in disk'.cancel]_disk

\* What tests/integration/scheduler.test.mjs states of a task out of attempts:
\* after the run, the task is FAILED_FINAL.
OutOfAttemptsFails ==
  AllIdle => \A n \in buried : disk.status[TaskOf[n]] \in {"FAILED_FINAL", "CANCELLED"}
=============================================================================
