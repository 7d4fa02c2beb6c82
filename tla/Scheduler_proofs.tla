--------------------------- MODULE Scheduler_proofs ---------------------------
(***************************************************************************)
(* Proofs about Scheduler, for every set of tasks, nodes, runners and      *)
(* clients, every overlap of their operations and any number of crashes.   *)
(*                                                                         *)
(* The lemmas say what each operation does to one copy of the state; the   *)
(* inductive invariant adds to the properties what a run in progress knows *)
(* of its own copy.                                                        *)
(***************************************************************************)
EXTENDS Scheduler, FiniteSetTheorems, TLAPS

-----------------------------------------------------------------------------
(* Operations on one copy preserve its type.                                *)

LEMMA EmptyStateType == EmptyState \in State
  BY StructureAssumption, BoundsAssumption DEF EmptyState, State, TaskStatus, NodeStatus, NoLease

LEMMA CleanupType == ASSUME NEW s \in State PROVE Cleanup(s) \in State
<1> DEFINE expired == {n \in Node : s.lease[n] = 0}
<1>1. [n \in Node |-> IF n \in expired THEN NoLease ELSE s.lease[n]]
        \in [Node -> NoLease .. LeaseTicks]
  BY BoundsAssumption DEF State, NoLease
<1>2. [x \in Resource |-> IF s.lock[x] \in expired THEN None ELSE s.lock[x]]
        \in [Resource -> Node \union {None}]
  BY DEF State
<1>3. [n \in Node |-> IF n \in expired /\ s.node[n] = "RUNNING" THEN "READY" ELSE s.node[n]]
        \in [Node -> NodeStatus]
  BY DEF State, NodeStatus
<1> QED BY <1>1, <1>2, <1>3 DEF Cleanup, State

LEMMA RefreshType ==
  ASSUME NEW s \in State, NEW T \in SUBSET Task PROVE Refresh(s, T) \in State
<1>1. \A f, t : DerivedStatus(f, t) \in TaskStatus
  BY DEF DerivedStatus, TaskStatus, Terminal
<1> QED BY <1>1 DEF Refresh, State, NodeStatus

LEMMA ResourceForType ==
  ASSUME NEW n \in Node, NEW e \in Executor PROVE ResourceFor(n, e) \in Resource
  BY StructureAssumption DEF ResourceFor

LEMMA AcquireType ==
  ASSUME NEW s \in State, NEW n \in Node, NEW e \in Executor
  PROVE  Acquire(s, n, e) \in State
<1>1. [s.lease EXCEPT ![n] = LeaseTicks] \in [Node -> NoLease .. LeaseTicks]
  BY BoundsAssumption DEF State, NoLease
<1>2. [s.lock EXCEPT ![ResourceFor(n, e)] = n] \in [Resource -> Node \union {None}]
  BY DEF State
<1>3. [s.node EXCEPT ![n] = "RUNNING"] \in [Node -> NodeStatus]
  BY DEF State, NodeStatus
<1>4. [s.attempts EXCEPT ![n] = Counted(s.attempts[n])] \in [Node -> 0 .. MaxAttempts + 1]
  BY BoundsAssumption DEF State, Counted
<1>5. [s.status EXCEPT ![TaskOf[n]] = "RUNNING"] \in [Task -> TaskStatus]
  BY DEF State, TaskStatus
<1> QED BY <1>1, <1>2, <1>3, <1>4, <1>5 DEF Acquire, State

LEMMA SetNodeType ==
  ASSUME NEW s \in State, NEW n \in Node, NEW status \in NodeStatus
  PROVE  SetNode(s, n, status) \in State
  BY DEF SetNode, State

LEMMA ReleaseType ==
  ASSUME NEW s \in State, NEW n \in Node, NEW e \in Executor
  PROVE  Release(s, n, e) \in State
<1> DEFINE x == ResourceFor(n, e)
<1>1. [s.lease EXCEPT ![n] = NoLease] \in [Node -> NoLease .. LeaseTicks]
  BY BoundsAssumption DEF State, NoLease
<1>2. [s.lock EXCEPT ![x] = IF s.lock[x] = n THEN None ELSE s.lock[x]]
        \in [Resource -> Node \union {None}]
  BY ResourceForType DEF State
<1> QED BY <1>1, <1>2 DEF Release, State

LEMMA SettleType ==
  ASSUME NEW s \in State, NEW n \in Node, NEW e \in Executor, NEW status \in NodeStatus
  PROVE  Settle(s, n, e, status) \in State
  BY StructureAssumption, SetNodeType, ReleaseType, RefreshType DEF Settle

LEMMA BuryType ==
  ASSUME NEW s \in State, NEW n \in Node PROVE Bury(s, n) \in State
  BY DEF Bury, State, NodeStatus, TaskStatus, Terminal

LEMMA SubmitType ==
  ASSUME NEW s \in State, NEW t \in Task PROVE SubmitIn(s, t) \in State
<1>1. [s EXCEPT !.status[t] = "QUEUED"] \in State
  BY DEF State, TaskStatus
<1> QED BY <1>1, RefreshType DEF SubmitIn

LEMMA CancelType ==
  ASSUME NEW s \in State, NEW t \in Task PROVE CancelIn(s, t) \in State
<1> DEFINE dropped == NodesOf(t) \intersect Leased(s)
<1>1. [s.status EXCEPT ![t] = "CANCELLED"] \in [Task -> TaskStatus]
  BY DEF State, TaskStatus, Terminal
<1>2. [n \in Node |-> IF n \in NodesOf(t) /\ s.node[n] \notin Terminal
                        THEN "CANCELLED" ELSE s.node[n]] \in [Node -> NodeStatus]
  BY DEF State, NodeStatus, Terminal
<1>3. [n \in Node |-> IF n \in dropped THEN NoLease ELSE s.lease[n]]
        \in [Node -> NoLease .. LeaseTicks]
  BY BoundsAssumption DEF State, NoLease
<1>4. [x \in Resource |-> IF s.lock[x] \in dropped THEN None ELSE s.lock[x]]
        \in [Resource -> Node \union {None}]
  BY DEF State
<1> QED BY <1>1, <1>2, <1>3, <1>4 DEF CancelIn, State

LEMMA AgedType == ASSUME NEW s \in State PROVE Aged(s) \in State
  BY BoundsAssumption DEF Aged, State, Dec, NoLease

LEMMA GrantDenyType ==
  ASSUME NEW s \in State, NEW n \in Node
  PROVE  Grant(s, n) \in State /\ Deny(s, n) \in State
  BY DEF Grant, Deny, State, NodeStatus, TaskStatus

LEMMA CircuitType ==
  ASSUME NEW k \in Circuit
  PROVE  /\ ClosedCircuit \in Circuit
         /\ AfterAllow(k) \in Circuit
         /\ CircuitFailure(k) \in Circuit
         /\ [k EXCEPT !.open = Dec(@)] \in Circuit
  BY BoundsAssumption DEF Circuit, ClosedCircuit, AfterAllow, CircuitFailure, Dec, Closed

-----------------------------------------------------------------------------
(* A sound copy: nodes start after their dependencies, running nodes are    *)
(* leased.                                                                  *)

DepsDone(s, n) == \A d \in Deps[n] : s.node[d] = "DONE"

StartsInOrder(s) ==
  \A n \in Node : s.node[n] \in {"READY", "RUNNING", "DONE"} => DepsDone(s, n)

RunningLeased(s) == \A n \in Node : s.node[n] = "RUNNING" => s.lease[n] # NoLease

Sound(s) == s \in State /\ StartsInOrder(s) /\ RunningLeased(s)

LEMMA EmptyStateSound == Sound(EmptyState)
  BY EmptyStateType DEF Sound, StartsInOrder, RunningLeased, EmptyState

\* A change that takes no DONE back, makes a node READY, RUNNING or DONE only if
\* its dependencies are DONE, and keeps the lease of a node that stays RUNNING.
LEMMA StepSound ==
  ASSUME NEW s, Sound(s), NEW u \in State,
         \A n \in Node : s.node[n] = "DONE" => u.node[n] = "DONE",
         \A n \in Node : u.node[n] \in {"READY", "RUNNING", "DONE"} =>
            s.node[n] \in {"READY", "RUNNING", "DONE"} \/ DepsDone(s, n),
         \A n \in Node : u.node[n] = "RUNNING" =>
            u.lease[n] # NoLease \/ (s.node[n] = "RUNNING" /\ u.lease[n] = s.lease[n])
  PROVE  Sound(u)
<1>1. StartsInOrder(u)
  BY StructureAssumption DEF Sound, StartsInOrder, DepsDone
<1>2. RunningLeased(u)
  BY DEF Sound, RunningLeased
<1> QED BY <1>1, <1>2 DEF Sound

LEMMA CleanupSound == ASSUME NEW s, Sound(s) PROVE Sound(Cleanup(s))
<1>1. s \in State /\ Cleanup(s) \in State
  BY CleanupType DEF Sound
<1>2. \A n \in Node :
        /\ Cleanup(s).node[n] = IF s.lease[n] = 0 /\ s.node[n] = "RUNNING"
                                  THEN "READY" ELSE s.node[n]
        /\ Cleanup(s).lease[n] = IF s.lease[n] = 0 THEN NoLease ELSE s.lease[n]
  BY <1>1 DEF Cleanup, State
<1> QED BY <1>1, <1>2, StepSound

LEMMA RefreshNodes ==
  ASSUME NEW s \in State, NEW T \in SUBSET Task, NEW n \in Node
  PROVE  /\ Refresh(s, T).node[n] # s.node[n] =>
              /\ Refresh(s, T).node[n] = "READY"
              /\ DepsDone(s, n)
              /\ s.node[n] \notin {"DONE", "RUNNING", "CANCELLED", "APPROVAL_REQUIRED"}
         /\ Refresh(s, T).lease = s.lease
         /\ Refresh(s, T).lock = s.lock
  BY DEF Refresh, State, Ready, DepsDone

LEMMA RefreshSound ==
  ASSUME NEW s, Sound(s), NEW T \in SUBSET Task PROVE Sound(Refresh(s, T))
<1>1. s \in State /\ Refresh(s, T) \in State
  BY RefreshType DEF Sound
<1>2. \A n \in Node : s.node[n] = "DONE" => Refresh(s, T).node[n] = "DONE"
  BY <1>1, RefreshNodes
<1>3. \A n \in Node : Refresh(s, T).node[n] \in {"READY", "RUNNING", "DONE"} =>
            s.node[n] \in {"READY", "RUNNING", "DONE"} \/ DepsDone(s, n)
  BY <1>1, RefreshNodes
<1>4. \A n \in Node : Refresh(s, T).node[n] = "RUNNING" =>
            s.node[n] = "RUNNING" /\ Refresh(s, T).lease[n] = s.lease[n]
  BY <1>1, RefreshNodes
<1> QED BY <1>1, <1>2, <1>3, <1>4, StepSound

LEMMA SetNodeSound ==
  ASSUME NEW s, Sound(s), NEW n \in Node, s.node[n] # "DONE",
         NEW status \in NodeStatus \ {"READY", "RUNNING", "DONE"}
  PROVE  Sound(SetNode(s, n, status))
<1>1. s \in State /\ SetNode(s, n, status) \in State
  BY SetNodeType DEF Sound
<1> QED BY <1>1, StepSound DEF SetNode, State

LEMMA AcquireSound ==
  ASSUME NEW s, Sound(s), NEW n \in Node, NEW e \in Executor, s.node[n] = "READY"
  PROVE  Sound(Acquire(s, n, e))
<1>1. s \in State /\ Acquire(s, n, e) \in State
  BY AcquireType DEF Sound
<1>2. \A m \in Node :
        /\ Acquire(s, n, e).node[m] = IF m = n THEN "RUNNING" ELSE s.node[m]
        /\ Acquire(s, n, e).lease[m] = IF m = n THEN LeaseTicks ELSE s.lease[m]
  BY <1>1 DEF Acquire, State
<1>3. LeaseTicks # NoLease
  BY BoundsAssumption DEF NoLease
<1> QED BY <1>1, <1>2, <1>3, StepSound

\* How an execution that ends leaves the statuses, the leases and the locks.
LEMMA SettleFields ==
  ASSUME NEW s \in State, NEW n \in Node, NEW e \in Executor, NEW status \in NodeStatus
  PROVE  /\ Settle(s, n, e, status).node[n] # status =>
              status \notin {"DONE", "RUNNING"} /\ Settle(s, n, e, status).node[n] = "READY"
                /\ DepsDone(SetNode(s, n, status), n)
         /\ \A m \in Node \ {n} : Settle(s, n, e, status).node[m] # s.node[m] =>
              /\ Settle(s, n, e, status).node[m] = "READY"
              /\ DepsDone(SetNode(s, n, status), m)
              /\ s.node[m] \notin {"DONE", "RUNNING"}
         /\ \A m \in Node \ {n} : Settle(s, n, e, status).lease[m] = s.lease[m]
         /\ \A x \in Resource : s.lock[x] # n => Settle(s, n, e, status).lock[x] = s.lock[x]
<1> DEFINE u == SetNode(s, n, status)
           v == Release(u, n, e)
<1>1. u \in State /\ v \in State /\ TaskOf[n] \in Task
  BY SetNodeType, ReleaseType, StructureAssumption
<1>2. /\ \A m \in Node : u.node[m] = IF m = n THEN status ELSE s.node[m]
      /\ u.lease = s.lease /\ u.lock = s.lock
  BY DEF SetNode, State
<1>3. v.node = u.node /\ \A m \in Node \ {n} : v.lease[m] = u.lease[m]
  BY <1>1 DEF Release, State
<1>4. \A x \in Resource : u.lock[x] # n => v.lock[x] = u.lock[x]
  BY <1>1, ResourceForType DEF Release, State
<1>5. Settle(s, n, e, status) = Refresh(v, {TaskOf[n]})
  BY DEF Settle
<1>6. \A m \in Node : DepsDone(v, m) => DepsDone(u, m)
  BY <1>3 DEF DepsDone
<1> HIDE DEF u, v
<1>7. /\ \A m \in Node : Refresh(v, {TaskOf[n]}).node[m] # v.node[m] =>
              /\ Refresh(v, {TaskOf[n]}).node[m] = "READY"
              /\ DepsDone(v, m)
              /\ v.node[m] \notin {"DONE", "RUNNING"}
      /\ Refresh(v, {TaskOf[n]}).lease = v.lease
      /\ Refresh(v, {TaskOf[n]}).lock = v.lock
  BY <1>1, RefreshNodes
<1> QED BY <1>2, <1>3, <1>4, <1>5, <1>6, <1>7 DEF u

LEMMA SettleSound ==
  ASSUME NEW s, Sound(s), NEW n \in Node, NEW e \in Executor, NEW status \in NodeStatus,
         \/ s.node[n] = "RUNNING" /\ status \in {"READY", "DONE"}
         \/ s.node[n] = status /\ status \notin {"RUNNING", "DONE"}
  PROVE  Sound(Settle(s, n, e, status))
<1> DEFINE u == SetNode(s, n, status)
           v == Release(u, n, e)
<1>1. s \in State /\ u \in State /\ v \in State /\ {TaskOf[n]} \in SUBSET Task
  BY SetNodeType, ReleaseType, StructureAssumption DEF Sound
<1>2. Sound(u)
  BY <1>1, StepSound DEF SetNode, State
<1>3. u.node[n] # "RUNNING"
  BY <1>1 DEF SetNode, State
<1>4. v.node = u.node /\ \A m \in Node \ {n} : v.lease[m] = u.lease[m]
  BY <1>1 DEF Release, State
<1>5. Sound(v)
  BY <1>1, <1>2, <1>3, <1>4, StepSound
<1> QED BY <1>1, <1>5, RefreshSound DEF Settle

LEMMA BurySound ==
  ASSUME NEW s, Sound(s), NEW n \in Node, s.node[n] = "RUNNING"
  PROVE  Sound(Bury(s, n))
<1>1. s \in State /\ Bury(s, n) \in State
  BY BuryType DEF Sound
<1>2. /\ \A m \in Node : Bury(s, n).node[m] = IF m = n THEN "FAILED_FINAL" ELSE s.node[m]
      /\ Bury(s, n).lease = s.lease
  BY <1>1 DEF Bury, State
<1> QED BY <1>1, <1>2, StepSound

LEMMA SubmitSound ==
  ASSUME NEW s, Sound(s), NEW t \in Task PROVE Sound(SubmitIn(s, t))
<1> DEFINE u == [s EXCEPT !.status[t] = "QUEUED"]
<1>1. s \in State /\ u \in State /\ u.node = s.node /\ u.lease = s.lease
  BY DEF Sound, State, TaskStatus
<1>2. Sound(u)
  BY <1>1 DEF Sound, StartsInOrder, DepsDone, RunningLeased
<1> QED BY <1>2, RefreshSound DEF SubmitIn

LEMMA CancelSound ==
  ASSUME NEW s, Sound(s), NEW t \in Task PROVE Sound(CancelIn(s, t))
<1>1. s \in State /\ CancelIn(s, t) \in State
  BY CancelType DEF Sound
<1>2. \A n \in Node :
        /\ CancelIn(s, t).node[n] = IF n \in NodesOf(t) /\ s.node[n] \notin Terminal
                                      THEN "CANCELLED" ELSE s.node[n]
        /\ n \notin NodesOf(t) => CancelIn(s, t).lease[n] = s.lease[n]
  BY <1>1 DEF CancelIn, State
<1> QED BY <1>1, <1>2, StepSound DEF Terminal

LEMMA AgedSound == ASSUME NEW s, Sound(s) PROVE Sound(Aged(s))
<1>1. s \in State /\ Aged(s) \in State
  BY AgedType DEF Sound
<1>2. Aged(s).node = s.node /\ \A n \in Node : Aged(s).lease[n] = Dec(s.lease[n])
  BY <1>1 DEF Aged, State
<1>3. \A n \in Node : s.lease[n] # NoLease => Dec(s.lease[n]) # NoLease
  BY <1>1, BoundsAssumption DEF State, Dec, NoLease
<1>4. RunningLeased(Aged(s))
  BY <1>2, <1>3 DEF Sound, RunningLeased
<1> QED BY <1>1, <1>2, <1>4 DEF Sound, StartsInOrder, DepsDone

LEMMA GrantSound ==
  ASSUME NEW s, Sound(s), NEW n \in Node PROVE Sound(Grant(s, n))
<1>1. s \in State /\ Grant(s, n) \in State
  BY GrantDenyType DEF Sound
<1>2. Grant(s, n).node = s.node /\ Grant(s, n).lease = s.lease
  BY <1>1 DEF Grant, State
<1> QED BY <1>1, <1>2 DEF Sound, StartsInOrder, DepsDone, RunningLeased

LEMMA DenySound ==
  ASSUME NEW s, Sound(s), NEW n \in Node, s.node[n] = "READY" PROVE Sound(Deny(s, n))
<1>1. s \in State /\ Deny(s, n) \in State
  BY GrantDenyType DEF Sound
<1>2. /\ \A m \in Node : Deny(s, n).node[m] = IF m = n THEN "APPROVAL_REQUIRED" ELSE s.node[m]
      /\ Deny(s, n).lease = s.lease
  BY <1>1 DEF Deny, State
<1> QED BY <1>1, <1>2, StepSound

-----------------------------------------------------------------------------
(* The inductive invariant.  A node of the current batch, or the node whose  *)
(* approval is awaited, is READY and not in execution; a node in execution   *)
(* is RUNNING, or given up while its dead-letter row is written, and holds   *)
(* its lock; neither belongs to a task the run has still to enter.           *)

Pending(r, n) ==
  /\ mem[r].node[n] = "READY"
  /\ TaskOf[n] \notin left[r]
  /\ ~ Busy(r, n)

InFlight(r, n) ==
  /\ job[r][n].exec \in Executor
  /\ TaskOf[n] \notin left[r]
  /\ mem[r].lock[ResourceFor(n, job[r][n].exec)] = n
  /\ job[r][n].at \in {"executing", "verifying"} => mem[r].node[n] = "RUNNING"
  /\ job[r][n].at = "burying" => mem[r].node[n] \in {"FAILED_FINAL", "READY"}

RunOK(r) ==
  /\ pc[r] \in {"idle", "probing", "saving", "writing", "waiting"} => left[r] = {} /\ batch[r] = {}
  /\ pc[r] \in {"idle", "probing"} => \A n \in Node : ~ Busy(r, n)
  /\ pc[r] = "approving" => /\ ask[r].node \in Node \ batch[r]
                           /\ ask[r].exec \in Executor
                           /\ Pending(r, ask[r].node)
  /\ \A n \in batch[r] : Pending(r, n)
  /\ \A n \in Node : Busy(r, n) => InFlight(r, n)

CopiesSound ==
  /\ Sound(disk)
  /\ \A r \in Runner : Sound(mem[r]) /\ Sound(image[r])
  /\ \A c \in Client : Sound(cmem[c])

IInv == TypeOK /\ CopiesSound /\ \A r \in Runner : RunOK(r)

\* A run that a step leaves alone, or for which only time passes.
LEMMA RunUntouched ==
  ASSUME NEW r \in Runner, RunOK(r), TypeOK,
         mem'[r].node = mem[r].node, mem'[r].lock = mem[r].lock,
         pc'[r] = pc[r], left'[r] = left[r], batch'[r] = batch[r], ask'[r] = ask[r],
         job'[r] = job[r]
  PROVE  RunOK(r)'
  BY DEF RunOK, Pending, InFlight, Busy

LEMMA InitIInv == Init => IInv
<1> SUFFICES ASSUME Init PROVE IInv
  OBVIOUS
<1>1. TypeOK
  BY EmptyStateType, CircuitType, BoundsAssumption
  DEF Init, TypeOK, NoAsk, NoJob, JobPhase, ClosedCircuit, Circuit, Closed
<1>2. CopiesSound
  BY EmptyStateSound DEF Init, CopiesSound
<1>3. \A r \in Runner : RunOK(r)
  BY DEF Init, RunOK, Busy, NoJob
<1> QED BY <1>1, <1>2, <1>3 DEF IInv

LEMMA LoadIInv == ASSUME IInv, NEW r \in Runner, Load(r) PROVE IInv'
<1> DEFINE s == Refresh(Cleanup(disk), Task)
<1>1. Sound(s)
  BY CleanupSound, RefreshSound DEF IInv, CopiesSound
<1>2. TypeOK'
  BY <1>1 DEF IInv, TypeOK, Load, Sound
<1>3. CopiesSound'
  BY <1>1 DEF IInv, TypeOK, CopiesSound, Load
<1>4. RunOK(r)'
  BY DEF IInv, TypeOK, Load, RunOK, Busy
<1>5. ASSUME NEW q \in Runner, q # r PROVE RunOK(q)'
  BY <1>5, RunUntouched DEF IInv, TypeOK, Load
<1> QED BY <1>2, <1>3, <1>4, <1>5 DEF IInv

LEMMA ProbeIInv == ASSUME IInv, NEW r \in Runner, Probe(r) PROVE IInv'
<1>1. TypeOK'
  <2>1. /\ healthy' \in [Runner -> SUBSET Executor]
        /\ left' \in [Runner -> SUBSET Task]
        /\ pc' \in [Runner -> {"idle", "probing", "dispatch", "approving", "saving", "writing", "waiting"}]
    BY StructureAssumption DEF IInv, TypeOK, Probe
  <2>2. active' \in [Runner -> Int]
    <3>1. Cardinality(Leased(mem[r])) \in Nat
      BY StructureAssumption, FS_Subset, FS_CardinalityType DEF Leased
    <3> QED BY <3>1 DEF IInv, TypeOK, Probe
  <2>3. circuit' \in [Executor -> Circuit]
    BY CircuitType DEF IInv, TypeOK, Probe
  <2> QED BY <2>1, <2>2, <2>3 DEF IInv, TypeOK, Probe
<1>2. CopiesSound'
  BY DEF IInv, CopiesSound, Probe
<1>3. RunOK(r)'
  BY DEF IInv, TypeOK, Probe, RunOK, Busy
<1>4. ASSUME NEW q \in Runner, q # r PROVE RunOK(q)'
  BY <1>4, RunUntouched DEF IInv, TypeOK, Probe
<1> QED BY <1>1, <1>2, <1>3, <1>4 DEF IInv

LEMMA EnterTaskIInv ==
  ASSUME IInv, NEW r \in Runner, NEW t \in Task, EnterTask(r, t) PROVE IInv'
<1>1. TypeOK'
  BY DEF IInv, TypeOK, EnterTask, NodesOf
<1>2. CopiesSound'
  BY DEF IInv, CopiesSound, EnterTask
<1>3. RunOK(r)'
  <2>1. \A n \in batch'[r] : n \in Node /\ TaskOf[n] = t /\ mem[r].node[n] = "READY"
    BY DEF IInv, TypeOK, EnterTask, NodesOf
  <2>2. \A n \in Node : Busy(r, n) => TaskOf[n] # t
    BY DEF IInv, RunOK, InFlight, EnterTask
  <2> QED BY <2>1, <2>2 DEF IInv, TypeOK, EnterTask, Dispatching, RunOK, Busy, Pending, InFlight
<1>4. ASSUME NEW q \in Runner, q # r PROVE RunOK(q)'
  BY <1>4, RunUntouched DEF IInv, TypeOK, EnterTask
<1> QED BY <1>1, <1>2, <1>3, <1>4 DEF IInv

\* A pending node is started, or set to wait; s is the copy with its approval.
LEMMA StartOrWaitStep ==
  ASSUME IInv, NEW r \in Runner, NEW n \in Node, NEW e \in Executor, NEW s \in State,
         StartOrWait(r, n, e, s), Sound(s), s.node = mem[r].node, s.lock = mem[r].lock,
         Pending(r, n), pc[r] \in {"dispatch", "approving"},
         pc' = [pc EXCEPT ![r] = "dispatch"],
         left' = left, n \notin batch'[r],
         batch' = [batch EXCEPT ![r] = @ \ {n}]
  PROVE  /\ mem' \in [Runner -> State]
         /\ active' \in [Runner -> Int]
         /\ job' \in [Runner -> [Node -> [at : JobPhase, exec : Executor \union {None}]]]
         /\ \A q \in Runner : Sound(mem'[q])
         /\ RunOK(r)'
         /\ \A q \in Runner \ {r} : mem'[q] = mem[q] /\ job'[q] = job[q]
<1>1. CASE /\ Acquirable(s, n, e)
           /\ mem' = [mem EXCEPT ![r] = Acquire(s, n, e)]
           /\ active' = [active EXCEPT ![r] = @ + 1]
           /\ job' = [job EXCEPT ![r][n] = [at |-> "executing", exec |-> e]]
  <2> DEFINE u == Acquire(s, n, e)
             x == ResourceFor(n, e)
  <2>1. Sound(u) /\ x \in Resource
    BY AcquireSound, ResourceForType DEF Pending
  <2>2. /\ \A m \in Node : u.node[m] = IF m = n THEN "RUNNING" ELSE s.node[m]
        /\ \A y \in Resource : u.lock[y] = IF y = x THEN n ELSE s.lock[y]
    BY <2>1 DEF Acquire, State
  <2>3. s.lock[x] \in {None, n} /\ n # None
    BY <1>1, StructureAssumption DEF Acquirable
  <2>4. /\ mem'[r] = u
        /\ job'[r][n] = [at |-> "executing", exec |-> e]
        /\ \A m \in Node \ {n} : job'[r][m] = job[r][m]
    BY <1>1 DEF IInv, TypeOK
  <2> HIDE DEF u, x
  <2>5. RunOK(r)'
    <3>1. \A m \in Node \ {n} : Busy(r, m) => InFlight(r, m)'
      <4> SUFFICES ASSUME NEW m \in Node \ {n}, Busy(r, m) PROVE InFlight(r, m)'
        OBVIOUS
      <4>1. InFlight(r, m) /\ ResourceFor(m, job[r][m].exec) \in Resource
        BY ResourceForType DEF IInv, RunOK, InFlight
      <4>2. ResourceFor(m, job[r][m].exec) # x
        BY <2>3, <4>1, StructureAssumption DEF InFlight
      <4> QED BY <4>1, <4>2, <2>2, <2>4 DEF InFlight
    <3>2. InFlight(r, n)'
      BY <2>1, <2>2, <2>4 DEF InFlight, Pending, x
    <3>3. \A m \in batch'[r] : Pending(r, m)'
      <4> SUFFICES ASSUME NEW m \in batch'[r] PROVE Pending(r, m)'
        OBVIOUS
      <4>1. m \in Node /\ m # n /\ Pending(r, m)
        BY DEF IInv, TypeOK, RunOK
      <4> QED BY <4>1, <2>2, <2>4 DEF Pending, Busy
    <3>4. pc'[r] = "dispatch"
      BY DEF IInv, TypeOK
    <3> QED BY <3>1, <3>2, <3>3, <3>4, <2>4 DEF RunOK, Busy
  <2> QED BY <1>1, <2>1, <2>5 DEF IInv, TypeOK, CopiesSound, JobPhase, Sound, u
<1>2. CASE /\ mem' = [mem EXCEPT ![r] = SetNode(s, n, "WAITING_RESOURCE")]
           /\ UNCHANGED <<active, job>>
  <2> DEFINE u == SetNode(s, n, "WAITING_RESOURCE")
  <2>1. Sound(u)
    BY SetNodeSound DEF Pending, NodeStatus
  <2>2. /\ \A m \in Node : u.node[m] = IF m = n THEN "WAITING_RESOURCE" ELSE s.node[m]
        /\ u.lock = s.lock
    BY DEF SetNode, State
  <2>3. mem'[r] = u
    BY <1>2 DEF IInv, TypeOK
  <2> HIDE DEF u
  <2>4. RunOK(r)'
    <3>1. \A m \in Node : Busy(r, m) => InFlight(r, m)'
      BY <1>2, <2>2, <2>3 DEF IInv, RunOK, InFlight, Pending, Busy
    <3>2. \A m \in batch'[r] : Pending(r, m)'
      <4> SUFFICES ASSUME NEW m \in batch'[r] PROVE Pending(r, m)'
        OBVIOUS
      <4>1. m \in Node /\ m # n /\ Pending(r, m)
        BY DEF IInv, TypeOK, RunOK
      <4> QED BY <1>2, <4>1, <2>2, <2>3 DEF Pending, Busy
    <3>3. pc'[r] = "dispatch"
      BY DEF IInv, TypeOK
    <3> QED BY <1>2, <3>1, <3>2, <3>3 DEF RunOK, Busy
  <2> QED BY <1>2, <2>1, <2>4 DEF IInv, TypeOK, CopiesSound, Sound, u
<1> QED BY <1>1, <1>2 DEF StartOrWait

LEMMA VisitIInv ==
  ASSUME IInv, NEW r \in Runner, NEW n \in Node, Visit(r, n) PROVE IInv'
<1>1. /\ Pending(r, n) /\ mem[r] \in State /\ Sound(mem[r])
      /\ pc[r] = "dispatch" /\ n \in batch[r]
      /\ batch' = [batch EXCEPT ![r] = @ \ {n}] /\ n \notin batch'[r]
      /\ Routes(r, n) \subseteq Executor
  BY StructureAssumption
  DEF IInv, TypeOK, RunOK, CopiesSound, Visit, Dispatching, Routes
<1>2. CASE /\ mem' = [mem EXCEPT ![r] = SetNode(@, n, "WAITING_RESOURCE")]
           /\ UNCHANGED <<active, job, ask, pc>>
  <2> DEFINE u == SetNode(mem[r], n, "WAITING_RESOURCE")
  <2>1. Sound(u) /\ u \in State
    BY <1>1, SetNodeSound DEF Pending, NodeStatus, Sound
  <2>2. /\ \A m \in Node : u.node[m] = IF m = n THEN "WAITING_RESOURCE" ELSE mem[r].node[m]
        /\ u.lock = mem[r].lock
    BY <1>1 DEF SetNode, State
  <2>3. mem' = [mem EXCEPT ![r] = u] /\ mem'[r] = u
    BY <1>2 DEF IInv, TypeOK
  <2> HIDE DEF u
  <2>4. RunOK(r)'
    <3>1. \A m \in Node : Busy(r, m) => InFlight(r, m)'
      BY <1>1, <1>2, <2>2, <2>3 DEF IInv, RunOK, InFlight, Pending, Busy, Visit
    <3>2. \A m \in batch'[r] : Pending(r, m)'
      <4> SUFFICES ASSUME NEW m \in batch'[r] PROVE Pending(r, m)'
        OBVIOUS
      <4>1. m \in Node /\ m # n /\ Pending(r, m)
        BY <1>1 DEF IInv, TypeOK, RunOK
      <4> QED BY <1>2, <4>1, <2>2, <2>3 DEF Pending, Busy, Visit
    <3> QED BY <1>1, <1>2, <3>1, <3>2 DEF RunOK, Busy
  <2>5. TypeOK'
    BY <1>1, <1>2, <2>1, <2>3 DEF IInv, TypeOK, Visit
  <2>6. CopiesSound'
    BY <2>1, <2>3 DEF IInv, TypeOK, CopiesSound, Visit
  <2>7. ASSUME NEW q \in Runner, q # r PROVE RunOK(q)'
    BY <1>2, <2>3, <2>7, RunUntouched DEF IInv, TypeOK, Visit
  <2> QED BY <2>4, <2>5, <2>6, <2>7 DEF IInv
<1>3. CASE \E e \in Routes(r, n) :
             /\ ask' = [ask EXCEPT ![r] = [node |-> n, exec |-> e]]
             /\ pc' = [pc EXCEPT ![r] = "approving"]
             /\ UNCHANGED <<mem, active, job>>
  <2>1. PICK e \in Executor : /\ ask' = [ask EXCEPT ![r] = [node |-> n, exec |-> e]]
                              /\ pc' = [pc EXCEPT ![r] = "approving"]
                              /\ UNCHANGED <<mem, active, job>>
    BY <1>1, <1>3
  <2>2. TypeOK'
    BY <1>1, <2>1 DEF IInv, TypeOK, Visit
  <2>3. CopiesSound'
    BY <2>1 DEF IInv, CopiesSound, Visit
  <2>4. RunOK(r)'
    BY <1>1, <2>1 DEF IInv, TypeOK, RunOK, Pending, InFlight, Busy, Visit
  <2>5. ASSUME NEW q \in Runner, q # r PROVE RunOK(q)'
    BY <2>1, <2>5, RunUntouched DEF IInv, TypeOK, Visit
  <2> QED BY <2>2, <2>3, <2>4, <2>5 DEF IInv
<1>4. CASE /\ \E e \in Routes(r, n) : StartOrWait(r, n, e, mem[r])
           /\ UNCHANGED <<ask, pc>>
  <2>1. PICK e \in Executor : StartOrWait(r, n, e, mem[r])
    BY <1>1, <1>4
  <2>2. pc' = [pc EXCEPT ![r] = "dispatch"] /\ left' = left
    BY <1>1, <1>4 DEF IInv, TypeOK, Visit
  <2>3. /\ mem' \in [Runner -> State]
        /\ active' \in [Runner -> Int]
        /\ job' \in [Runner -> [Node -> [at : JobPhase, exec : Executor \union {None}]]]
        /\ \A q \in Runner : Sound(mem'[q])
        /\ RunOK(r)'
        /\ \A q \in Runner \ {r} : mem'[q] = mem[q] /\ job'[q] = job[q]
    BY <1>1, <2>1, <2>2, StartOrWaitStep
  <2>4. TypeOK'
    <3>1. UNCHANGED <<disk, cmem, image, cpc, healthy, left, circuit, buried, crashes>>
      BY DEF Visit
    <3>2. batch' \in [Runner -> SUBSET Node]
      BY <1>1 DEF IInv, TypeOK
    <3> QED BY <1>4, <2>3, <3>1, <3>2 DEF IInv, TypeOK
  <2>5. CopiesSound'
    BY <2>3 DEF IInv, CopiesSound, Visit
  <2>6. ASSUME NEW q \in Runner, q # r PROVE RunOK(q)'
    <3>1. mem'[q] = mem[q] /\ job'[q] = job[q]
      BY <2>3, <2>6
    <3> QED BY <1>4, <2>6, <3>1, RunUntouched DEF IInv, TypeOK, Visit
  <2> QED BY <2>3, <2>4, <2>5, <2>6 DEF IInv
<1> QED BY <1>2, <1>3, <1>4 DEF Visit

LEMMA AnswerIInv == ASSUME IInv, NEW r \in Runner, Answer(r) PROVE IInv'
<1> DEFINE n == ask[r].node
           e == ask[r].exec
<1>1. /\ n \in Node \ batch[r] /\ e \in Executor /\ Pending(r, n)
      /\ mem[r] \in State /\ Sound(mem[r]) /\ pc[r] = "approving"
      /\ pc' = [pc EXCEPT ![r] = "dispatch"] /\ ask' = [ask EXCEPT ![r] = NoAsk]
      /\ UNCHANGED <<disk, cmem, image, cpc, healthy, left, batch, circuit, buried, crashes>>
  BY DEF IInv, TypeOK, RunOK, CopiesSound, Answer
<1>2. pc' \in [Runner -> {"idle", "probing", "dispatch", "approving", "saving", "writing", "waiting"}]
  BY <1>1 DEF IInv, TypeOK
<1>3. ask' \in [Runner -> [node : Node \union {None}, exec : Executor \union {None}]]
  BY <1>1 DEF IInv, TypeOK, NoAsk
<1>4. CASE StartOrWait(r, n, e, Grant(mem[r], n))
  <2> DEFINE s == Grant(mem[r], n)
  <2>1. Sound(s) /\ s \in State /\ s.node = mem[r].node /\ s.lock = mem[r].lock
    BY <1>1, GrantSound DEF Grant, State, Sound
  <2>2. batch' = [batch EXCEPT ![r] = @ \ {n}] /\ n \notin batch'[r] /\ left' = left
    BY <1>1 DEF IInv, TypeOK
  <2> HIDE DEF s
  <2>3. /\ mem' \in [Runner -> State]
        /\ active' \in [Runner -> Int]
        /\ job' \in [Runner -> [Node -> [at : JobPhase, exec : Executor \union {None}]]]
        /\ \A q \in Runner : Sound(mem'[q])
        /\ RunOK(r)'
        /\ \A q \in Runner \ {r} : mem'[q] = mem[q] /\ job'[q] = job[q]
    BY <1>1, <1>4, <2>1, <2>2, StartOrWaitStep DEF s
  <2>4. TypeOK'
    BY <1>1, <1>2, <1>3, <2>3 DEF IInv, TypeOK
  <2>5. CopiesSound'
    BY <1>1, <2>3 DEF IInv, CopiesSound
  <2>6. ASSUME NEW q \in Runner, q # r PROVE RunOK(q)'
    <3>1. mem'[q] = mem[q] /\ job'[q] = job[q]
      BY <2>3, <2>6
    <3> QED BY <1>1, <2>6, <3>1, RunUntouched DEF IInv, TypeOK
  <2> QED BY <2>3, <2>4, <2>5, <2>6 DEF IInv
<1>5. CASE mem' = [mem EXCEPT ![r] = Deny(@, n)] /\ UNCHANGED <<active, job>>
  <2> DEFINE u == Deny(mem[r], n)
  <2>1. Sound(u) /\ u \in State
    BY <1>1, DenySound DEF Pending, Sound
  <2>2. /\ \A m \in Node : u.node[m] = IF m = n THEN "APPROVAL_REQUIRED" ELSE mem[r].node[m]
        /\ u.lock = mem[r].lock
    BY <1>1 DEF Deny, State
  <2>3. mem' = [mem EXCEPT ![r] = u] /\ mem'[r] = u
    BY <1>5 DEF IInv, TypeOK
  <2> HIDE DEF u
  <2>4. TypeOK'
    BY <1>1, <1>2, <1>3, <1>5, <2>1, <2>3 DEF IInv, TypeOK
  <2>5. CopiesSound'
    BY <1>1, <2>1, <2>3 DEF IInv, TypeOK, CopiesSound
  <2>6. RunOK(r)'
    <3>1. \A m \in Node : Busy(r, m) => InFlight(r, m)'
      BY <1>1, <1>5, <2>2, <2>3 DEF IInv, RunOK, InFlight, Pending, Busy
    <3>2. \A m \in batch'[r] : Pending(r, m)'
      <4> SUFFICES ASSUME NEW m \in batch'[r] PROVE Pending(r, m)'
        OBVIOUS
      <4>1. m \in Node /\ m # n /\ Pending(r, m)
        BY <1>1 DEF IInv, TypeOK, RunOK
      <4> QED BY <1>1, <1>5, <4>1, <2>2, <2>3 DEF Pending, Busy
    <3>3. pc'[r] = "dispatch"
      BY <1>1 DEF IInv, TypeOK
    <3> QED BY <1>1, <1>5, <3>1, <3>2, <3>3 DEF RunOK, Busy
  <2>7. ASSUME NEW q \in Runner, q # r PROVE RunOK(q)'
    BY <1>1, <1>5, <2>3, <2>7, RunUntouched DEF IInv, TypeOK
  <2> QED BY <2>4, <2>5, <2>6, <2>7 DEF IInv
<1> QED BY <1>4, <1>5 DEF Answer

LEMMA EndDispatchIInv == ASSUME IInv, NEW r \in Runner, EndDispatch(r) PROVE IInv'
<1>1. TypeOK'
  BY DEF IInv, TypeOK, EndDispatch
<1>2. CopiesSound'
  BY DEF IInv, CopiesSound, EndDispatch
<1>3. RunOK(r)'
  BY DEF IInv, TypeOK, EndDispatch, RunOK, Busy, InFlight
<1>4. ASSUME NEW q \in Runner, q # r PROVE RunOK(q)'
  BY <1>4, RunUntouched DEF IInv, TypeOK, EndDispatch
<1> QED BY <1>1, <1>2, <1>3, <1>4 DEF IInv

LEMMA SerializeIInv == ASSUME IInv, NEW r \in Runner, Serialize(r) PROVE IInv'
<1>1. TypeOK'
  BY DEF IInv, TypeOK, Serialize
<1>2. CopiesSound'
  BY DEF IInv, TypeOK, CopiesSound, Serialize
<1>3. RunOK(r)'
  BY DEF IInv, TypeOK, Serialize, RunOK, Busy, InFlight
<1>4. ASSUME NEW q \in Runner, q # r PROVE RunOK(q)'
  BY <1>4, RunUntouched DEF IInv, TypeOK, Serialize
<1> QED BY <1>1, <1>2, <1>3, <1>4 DEF IInv

LEMMA SaveStartedIInv == ASSUME IInv, NEW r \in Runner, SaveStarted(r) PROVE IInv'
<1>1. TypeOK'
  BY EmptyStateType DEF IInv, TypeOK, SaveStarted
<1>2. CopiesSound'
  BY EmptyStateSound DEF IInv, TypeOK, CopiesSound, SaveStarted
<1>3. RunOK(r)'
  BY DEF IInv, TypeOK, SaveStarted, RunOK, Busy, InFlight
<1>4. ASSUME NEW q \in Runner, q # r PROVE RunOK(q)'
  BY <1>4, RunUntouched DEF IInv, TypeOK, SaveStarted
<1> QED BY <1>1, <1>2, <1>3, <1>4 DEF IInv

LEMMA SaveFinishedIInv == ASSUME IInv, NEW r \in Runner, SaveFinished(r) PROVE IInv'
<1>1. TypeOK'
  BY EmptyStateType DEF IInv, TypeOK, SaveFinished
<1>2. CopiesSound'
  BY EmptyStateSound DEF IInv, TypeOK, CopiesSound, SaveFinished
<1>3. RunOK(r)'
  BY DEF IInv, TypeOK, SaveFinished, RunOK, Busy
<1>4. ASSUME NEW q \in Runner, q # r PROVE RunOK(q)'
  BY <1>4, RunUntouched DEF IInv, TypeOK, SaveFinished
<1> QED BY <1>1, <1>2, <1>3, <1>4 DEF IInv

LEMMA CrashIInv == ASSUME IInv, NEW r \in Runner, Crash(r) PROVE IInv'
<1>1. TypeOK'
  BY EmptyStateType DEF IInv, TypeOK, Crash, NoJob, NoAsk, JobPhase
<1>2. CopiesSound'
  BY EmptyStateSound DEF IInv, TypeOK, CopiesSound, Crash
<1>3. RunOK(r)'
  BY DEF IInv, TypeOK, Crash, RunOK, Busy, NoJob
<1>4. ASSUME NEW q \in Runner, q # r PROVE RunOK(q)'
  BY <1>4, RunUntouched DEF IInv, TypeOK, Crash
<1> QED BY <1>1, <1>2, <1>3, <1>4 DEF IInv

\* What a step of an execution leaves to its run, and to the others.
RunKept(r) ==
  /\ mem' \in [Runner -> State]
  /\ active' \in [Runner -> Int]
  /\ job' \in [Runner -> [Node -> [at : JobPhase, exec : Executor \union {None}]]]
  /\ \A q \in Runner : Sound(mem'[q])
  /\ RunOK(r)'
  /\ \A q \in Runner \ {r} : mem'[q] = mem[q] /\ job'[q] = job[q]

LEMMA FinishStep ==
  ASSUME IInv, NEW r \in Runner, NEW n \in Node, NEW status \in NodeStatus,
         Awaiting(r), Busy(r, n), Finish(r, n, status),
         UNCHANGED <<pc, left, batch, ask>>,
         \/ mem[r].node[n] = "RUNNING" /\ status \in {"READY", "DONE"}
         \/ mem[r].node[n] = status /\ status \notin {"RUNNING", "DONE"}
  PROVE  RunKept(r)
<1> DEFINE e == job[r][n].exec
           u == Settle(mem[r], n, e, status)
<1>1. mem[r] \in State /\ Sound(mem[r]) /\ e \in Executor
  BY DEF IInv, TypeOK, CopiesSound, RunOK, InFlight
<1>2. Sound(u) /\ u \in State
  BY <1>1, SettleSound, SettleType
<1>3. /\ \A m \in Node \ {n} : u.node[m] # mem[r].node[m] =>
              u.node[m] = "READY" /\ mem[r].node[m] \notin {"DONE", "RUNNING"}
      /\ \A x \in Resource : mem[r].lock[x] # n => u.lock[x] = mem[r].lock[x]
  BY <1>1, SettleFields
<1>4. mem' = [mem EXCEPT ![r] = u] /\ mem'[r] = u
  BY DEF IInv, TypeOK, Finish
<1>5. /\ job'[r][n] = NoJob
      /\ \A m \in Node \ {n} : job'[r][m] = job[r][m]
      /\ \A q \in Runner \ {r} : job'[q] = job[q]
  BY DEF IInv, TypeOK, Finish
<1> HIDE DEF u
<1>6. \A m \in Node : Busy(r, m)' => InFlight(r, m)'
  <2> SUFFICES ASSUME NEW m \in Node, Busy(r, m)' PROVE InFlight(r, m)'
    OBVIOUS
  <2>1. m # n /\ Busy(r, m) /\ InFlight(r, m)
    BY <1>5 DEF Busy, NoJob, IInv, RunOK
  <2>2. ResourceFor(m, job[r][m].exec) \in Resource
    BY <2>1, ResourceForType DEF InFlight
  <2> QED BY <1>3, <1>4, <1>5, <2>1, <2>2 DEF InFlight
<1>7. \A m \in Node : Pending(r, m) => Pending(r, m)'
  BY <1>3, <1>4, <1>5 DEF Pending, Busy
<1>8. RunOK(r)'
  <2>1. pc[r] \notin {"idle", "probing"}
    BY DEF Awaiting
  <2>2. \A m \in batch[r] : m \in Node
    BY DEF IInv, TypeOK
  <2> QED BY <1>6, <1>7, <2>1, <2>2 DEF IInv, RunOK
<1> QED BY <1>2, <1>4, <1>5, <1>8
        DEF RunKept, IInv, TypeOK, CopiesSound, Finish, NoJob, JobPhase

LEMMA AdvanceType ==
  ASSUME TypeOK, NEW r \in Runner, NEW n \in Node, NEW phase \in JobPhase, Advance(r, n, phase)
  PROVE  /\ job' \in [Runner -> [Node -> [at : JobPhase, exec : Executor \union {None}]]]
         /\ job'[r][n].at = phase /\ job'[r][n].exec = job[r][n].exec
         /\ \A m \in Node \ {n} : job'[r][m] = job[r][m]
         /\ \A q \in Runner \ {r} : job'[q] = job[q]
<1> DEFINE Job == [at : JobPhase, exec : Executor \union {None}]
           advanced == [job[r][n] EXCEPT !.at = phase]
<1>1. job \in [Runner -> [Node -> Job]] /\ job[r][n] \in Job
  BY DEF TypeOK
<1>2. advanced \in Job /\ advanced.at = phase /\ advanced.exec = job[r][n].exec
  BY <1>1
<1>3. job' = [job EXCEPT ![r] = [job[r] EXCEPT ![n] = advanced]]
  BY <1>1 DEF Advance
<1> HIDE DEF Job, advanced
<1>4. [job[r] EXCEPT ![n] = advanced] \in [Node -> Job]
  BY <1>1, <1>2
<1>5. job' \in [Runner -> [Node -> Job]]
  BY <1>1, <1>3, <1>4
<1> QED BY <1>1, <1>2, <1>3, <1>5 DEF Job

LEMMA BuryStep ==
  ASSUME IInv, NEW r \in Runner, NEW n \in Node, Awaiting(r),
         job[r][n].at \in {"executing", "verifying"},
         mem' = [mem EXCEPT ![r] = Bury(@, n)], Advance(r, n, "burying"),
         UNCHANGED <<active, pc, left, batch, ask>>
  PROVE  RunKept(r)
<1> DEFINE u == Bury(mem[r], n)
<1>1. /\ mem[r] \in State /\ Sound(mem[r])
      /\ Busy(r, n) /\ InFlight(r, n) /\ mem[r].node[n] = "RUNNING"
  BY DEF IInv, TypeOK, CopiesSound, RunOK, InFlight, Busy
<1>2. Sound(u) /\ u \in State
  BY <1>1, BurySound, BuryType
<1>3. /\ \A m \in Node : u.node[m] = IF m = n THEN "FAILED_FINAL" ELSE mem[r].node[m]
      /\ u.lock = mem[r].lock
  BY <1>1 DEF Bury, State
<1>4. mem' = [mem EXCEPT ![r] = u] /\ mem'[r] = u
  BY DEF IInv, TypeOK
<1>5. /\ job'[r][n].at = "burying" /\ job'[r][n].exec = job[r][n].exec
      /\ \A m \in Node \ {n} : job'[r][m] = job[r][m]
      /\ \A q \in Runner \ {r} : job'[q] = job[q]
      /\ job' \in [Runner -> [Node -> [at : JobPhase, exec : Executor \union {None}]]]
  BY AdvanceType DEF IInv, JobPhase
<1> HIDE DEF u
<1>7. \A m \in Node : Busy(r, m)' => InFlight(r, m)'
  <2>1. InFlight(r, n)'
    BY <1>1, <1>3, <1>4, <1>5 DEF InFlight
  <2>2. ASSUME NEW m \in Node \ {n}, Busy(r, m)' PROVE InFlight(r, m)'
    <3>1. InFlight(r, m)
      BY <1>5, <2>2 DEF Busy, IInv, RunOK
    <3> QED BY <1>3, <1>4, <1>5, <2>2, <3>1 DEF InFlight
  <2> QED BY <2>1, <2>2
<1>8. \A m \in Node : Pending(r, m) => Pending(r, m)'
  BY <1>1, <1>3, <1>4, <1>5 DEF Pending, Busy
<1>9. RunOK(r)'
  <2>1. pc[r] \notin {"idle", "probing"}
    BY DEF Awaiting
  <2>2. \A m \in batch[r] : m \in Node
    BY DEF IInv, TypeOK
  <2> QED BY <1>7, <1>8, <2>1, <2>2 DEF IInv, RunOK
<1> QED BY <1>2, <1>4, <1>5, <1>9 DEF RunKept, IInv, TypeOK, CopiesSound

\* The catch block keeps the run, whichever branch it takes.
LEMMA FailStep ==
  ASSUME IInv, NEW r \in Runner, NEW n \in Node, Awaiting(r),
         job[r][n].at \in {"executing", "verifying"}, Fail(r, n),
         UNCHANGED <<pc, left, batch, ask>>
  PROVE  RunKept(r)
<1>1. Busy(r, n) /\ mem[r].node[n] = "RUNNING"
  BY DEF IInv, RunOK, InFlight, Busy
<1>2. CASE mem' = [mem EXCEPT ![r] = Bury(@, n)] /\ Advance(r, n, "burying") /\ UNCHANGED active
  BY <1>2, BuryStep
<1>3. CASE Finish(r, n, "READY")
  BY <1>1, <1>3, FinishStep DEF NodeStatus
<1> QED BY <1>2, <1>3 DEF Fail

LEMMA WorkerIInv ==
  ASSUME IInv, NEW r \in Runner, NEW n \in Node, RunKept(r),
         circuit' \in [Executor -> Circuit], buried' \in SUBSET Node,
         UNCHANGED <<disk, cmem, image, cpc, pc, healthy, left, batch, ask, crashes>>
  PROVE  IInv'
<1>1. TypeOK'
  BY DEF IInv, TypeOK, RunKept
<1>2. CopiesSound'
  BY DEF IInv, CopiesSound, RunKept
<1>3. ASSUME NEW q \in Runner, q # r PROVE RunOK(q)'
  <2>1. mem'[q] = mem[q] /\ job'[q] = job[q]
    BY <1>3 DEF RunKept
  <2> QED BY <1>3, <2>1, RunUntouched DEF IInv, TypeOK
<1> QED BY <1>1, <1>2, <1>3 DEF IInv, RunKept

LEMMA ExecutedIInv ==
  ASSUME IInv, NEW r \in Runner, NEW n \in Node, Executed(r, n) PROVE IInv'
<1>1. circuit' \in [Executor -> Circuit]
  BY CircuitType DEF IInv, TypeOK, Executed
<1>2. /\ job'[r][n].at = "verifying" /\ job'[r][n].exec = job[r][n].exec
      /\ \A m \in Node \ {n} : job'[r][m] = job[r][m]
      /\ \A q \in Runner \ {r} : job'[q] = job[q]
      /\ job' \in [Runner -> [Node -> [at : JobPhase, exec : Executor \union {None}]]]
  BY AdvanceType DEF IInv, JobPhase, Executed
<1>3. UNCHANGED <<mem, pc, left, batch, ask, active>>
  BY DEF Executed, runVars
<1>4. Busy(r, n) /\ InFlight(r, n) /\ mem[r].node[n] = "RUNNING"
  BY DEF IInv, RunOK, InFlight, Busy, Executed
<1>5. RunOK(r)'
  <2>1. \A m \in Node : Busy(r, m)' => InFlight(r, m)'
    BY <1>2, <1>3, <1>4 DEF InFlight, Busy, IInv, RunOK
  <2>2. \A m \in Node : Pending(r, m) => Pending(r, m)'
    BY <1>2, <1>3, <1>4 DEF Pending, Busy
  <2>3. pc[r] \notin {"idle", "probing"}
    BY DEF Executed, Awaiting
  <2>4. \A m \in batch[r] : m \in Node
    BY DEF IInv, TypeOK
  <2> QED BY <1>3, <2>1, <2>2, <2>3, <2>4 DEF IInv, RunOK
<1>6. RunKept(r)
  BY <1>2, <1>3, <1>5 DEF IInv, TypeOK, CopiesSound, RunKept
<1> QED BY <1>1, <1>6, WorkerIInv DEF IInv, TypeOK, Executed, runVars

LEMMA ExecuteFailsIInv ==
  ASSUME IInv, NEW r \in Runner, NEW n \in Node, ExecuteFails(r, n) PROVE IInv'
<1>1. circuit' \in [Executor -> Circuit]
  <2>1. job[r][n].exec \in Executor
    BY DEF IInv, RunOK, InFlight, Busy, ExecuteFails
  <2>2. CircuitFailure(circuit[job[r][n].exec]) \in Circuit
    BY <2>1, CircuitType DEF IInv, TypeOK
  <2> QED BY <2>1, <2>2 DEF IInv, TypeOK, ExecuteFails
<1>2. RunKept(r)
  BY FailStep DEF ExecuteFails
<1> QED BY <1>1, <1>2, WorkerIInv DEF IInv, TypeOK, ExecuteFails

LEMMA VerifiedIInv ==
  ASSUME IInv, NEW r \in Runner, NEW n \in Node, Verified(r, n) PROVE IInv'
<1>1. Busy(r, n) /\ mem[r].node[n] = "RUNNING" /\ "DONE" \in NodeStatus
  BY DEF IInv, RunOK, InFlight, Busy, Verified, NodeStatus, Terminal
<1>2. RunKept(r)
  BY <1>1, FailStep, FinishStep DEF Verified
<1> QED BY <1>2, WorkerIInv DEF IInv, TypeOK, Verified

LEMMA BuriedIInv ==
  ASSUME IInv, NEW r \in Runner, NEW n \in Node, Buried(r, n) PROVE IInv'
<1>1. /\ Busy(r, n) /\ mem[r].node[n] \in {"FAILED_FINAL", "READY"}
      /\ mem[r].node[n] \in NodeStatus
  BY DEF IInv, RunOK, InFlight, Busy, Buried, NodeStatus, Terminal
<1>2. RunKept(r)
  BY <1>1, FinishStep DEF Buried
<1> QED BY <1>2, WorkerIInv DEF IInv, TypeOK, Buried

LEMMA SubmitIInv ==
  ASSUME IInv, NEW c \in Client, NEW t \in Task, Submit(c, t) PROVE IInv'
<1>1. Sound(SubmitIn(Cleanup(disk), t))
  BY CleanupSound, SubmitSound DEF IInv, CopiesSound
<1>2. TypeOK'
  BY <1>1 DEF IInv, TypeOK, Submit, runVars, Sound
<1>3. CopiesSound'
  BY <1>1 DEF IInv, TypeOK, CopiesSound, Submit, runVars
<1>4. ASSUME NEW r \in Runner PROVE RunOK(r)'
  BY <1>4, RunUntouched DEF IInv, Submit, runVars
<1> QED BY <1>2, <1>3, <1>4 DEF IInv

LEMMA CancelIInv ==
  ASSUME IInv, NEW c \in Client, NEW t \in Task, Cancel(c, t) PROVE IInv'
<1>1. Sound(CancelIn(disk, t))
  BY CancelSound DEF IInv, CopiesSound
<1>2. TypeOK'
  BY <1>1 DEF IInv, TypeOK, Cancel, runVars, Sound
<1>3. CopiesSound'
  BY <1>1 DEF IInv, TypeOK, CopiesSound, Cancel, runVars
<1>4. ASSUME NEW r \in Runner PROVE RunOK(r)'
  BY <1>4, RunUntouched DEF IInv, Cancel, runVars
<1> QED BY <1>2, <1>3, <1>4 DEF IInv

LEMMA ClientSaveIInv == ASSUME IInv, NEW c \in Client, ClientSave(c) PROVE IInv'
<1>1. TypeOK'
  BY EmptyStateType DEF IInv, TypeOK, ClientSave, runVars
<1>2. CopiesSound'
  BY EmptyStateSound DEF IInv, TypeOK, CopiesSound, ClientSave, runVars
<1>3. ASSUME NEW r \in Runner PROVE RunOK(r)'
  BY <1>3, RunUntouched DEF IInv, ClientSave, runVars
<1> QED BY <1>1, <1>2, <1>3 DEF IInv

LEMMA TickIInv == ASSUME IInv, Tick PROVE IInv'
<1>1. /\ Sound(Aged(disk))
      /\ \A r \in Runner : Sound(Aged(mem[r])) /\ Sound(Aged(image[r]))
      /\ \A c \in Client : Sound(Aged(cmem[c]))
  BY AgedSound DEF IInv, CopiesSound
<1>2. circuit' \in [Executor -> Circuit]
  BY CircuitType DEF IInv, TypeOK, Tick
<1>3. TypeOK'
  BY <1>1, <1>2 DEF IInv, TypeOK, Tick, Sound
<1>4. CopiesSound'
  BY <1>1 DEF CopiesSound, Tick
<1>5. ASSUME NEW r \in Runner PROVE RunOK(r)'
  <2>1. mem'[r].node = mem[r].node /\ mem'[r].lock = mem[r].lock
    BY <1>5 DEF IInv, TypeOK, Tick, Aged, State
  <2> QED BY <1>5, <2>1, RunUntouched DEF IInv, Tick
<1> QED BY <1>3, <1>4, <1>5 DEF IInv

LEMMA NextIInv == IInv /\ [Next]_vars => IInv'
<1> SUFFICES ASSUME IInv, [Next]_vars PROVE IInv'
  OBVIOUS
<1>1. ASSUME NEW r \in Runner, Load(r) \/ Dispatch(r) \/ Answer(r) \/ Crash(r) PROVE IInv'
  BY <1>1, LoadIInv, ProbeIInv, EndDispatchIInv, SerializeIInv, SaveStartedIInv,
     SaveFinishedIInv,
     EnterTaskIInv, VisitIInv, AnswerIInv, CrashIInv
  DEF Dispatch
<1>2. ASSUME NEW r \in Runner, NEW n \in Node, Worker(r, n) PROVE IInv'
  BY <1>2, ExecutedIInv, ExecuteFailsIInv, VerifiedIInv, BuriedIInv DEF Worker
<1>3. ASSUME NEW c \in Client,
             ClientSave(c) \/ \E t \in Task : Submit(c, t) \/ Cancel(c, t)
      PROVE  IInv'
  BY <1>3, ClientSaveIInv, SubmitIInv, CancelIInv
<1>4. CASE Tick
  BY <1>4, TickIInv
<1>5. CASE UNCHANGED vars
  <2>1. TypeOK'
    BY <1>5 DEF IInv, TypeOK, vars
  <2>2. CopiesSound'
    BY <1>5 DEF IInv, CopiesSound, vars
  <2>3. ASSUME NEW r \in Runner PROVE RunOK(r)'
    BY <1>5, <2>3, RunUntouched DEF IInv, vars
  <2> QED BY <2>1, <2>2, <2>3 DEF IInv
<1> QED BY <1>1, <1>2, <1>3, <1>4, <1>5 DEF Next

THEOREM Invariance == Spec => []IInv
  BY InitIInv, NextIInv, PTL DEF Spec

-----------------------------------------------------------------------------
(* The theorems. *)

\* Every reachable state is well formed: no operation, overlap or crash writes a
\* file another operation could not read.
THEOREM TypeCorrect == Spec => []TypeOK
<1>1. IInv => TypeOK
  BY DEF IInv
<1> QED BY <1>1, Invariance, PTL

\* In the file and in every private copy, a node is READY, RUNNING or DONE only
\* after its dependencies are DONE, however runs, submissions, cancellations and
\* crashes overlap.
THEOREM DependenciesRespected == Spec => []DependenciesFirst
<1>1. IInv => DependenciesFirst
  BY DEF IInv, CopiesSound, Sound, StartsInOrder, DepsDone, DependenciesFirst, Copies
<1> QED BY <1>1, Invariance, PTL

\* A RUNNING node has a lease in every copy, so the lease's expiry makes it READY
\* again whatever became of the process that ran it.
THEOREM RunningNodesAreRecoverable == Spec => []RunningIsLeased
<1>1. IInv => RunningIsLeased
  BY DEF IInv, CopiesSound, Sound, RunningLeased, RunningIsLeased, Copies
<1> QED BY <1>1, Invariance, PTL

\* Two executions of one run never use the same resource.
THEOREM ResourcesAreExclusive == Spec => []ResourceExclusive
<1>1. IInv => ResourceExclusive
  BY DEF IInv, RunOK, InFlight, ResourceExclusive
<1> QED BY <1>1, Invariance, PTL

-----------------------------------------------------------------------------
(* The limit.  The count a run keeps is never below its executions, and the  *)
(* answer to an approval, which looks at the limit no more, finds it as it    *)
(* was before the request, or lower.                                          *)

Working(r) == {n \in Node : Busy(r, n)}

CountOK(r) ==
  /\ Cardinality(Working(r)) <= active[r]
  /\ Cardinality(Working(r)) <= ConcurrencyLimit
  /\ pc[r] = "approving" => active[r] < ConcurrencyLimit

LEMMA WorkingFinite == \A r : IsFiniteSet(Working(r)) /\ Cardinality(Working(r)) \in Nat
  BY StructureAssumption, FS_Subset, FS_CardinalityType DEF Working

\* What a step may do to a count: nothing; one execution more, below the limit;
\* one less; or a run without executions.
LEMMA CountKept ==
  ASSUME NEW r \in Runner, CountOK(r), Working(r)' = Working(r), active'[r] = active[r],
         pc'[r] = "approving" => active[r] < ConcurrencyLimit
  PROVE  CountOK(r)'
  BY DEF CountOK

LEMMA CountUp ==
  ASSUME NEW r \in Runner, CountOK(r), NEW n, n \notin Working(r),
         Working(r)' = Working(r) \union {n}, active[r] \in Int, active'[r] = active[r] + 1,
         active[r] < ConcurrencyLimit, pc'[r] # "approving"
  PROVE  CountOK(r)'
<1>1. Cardinality(Working(r) \union {n}) = Cardinality(Working(r)) + 1
  BY WorkingFinite, FS_AddElement
<1>2. Cardinality(Working(r)) \in Nat /\ ConcurrencyLimit \in Nat
  BY WorkingFinite, BoundsAssumption
<1>3. Cardinality(Working(r)') = Cardinality(Working(r)) + 1
  BY <1>1
<1> QED BY <1>2, <1>3 DEF CountOK

LEMMA CountDown ==
  ASSUME NEW r \in Runner, CountOK(r), NEW n \in Working(r),
         Working(r)' = Working(r) \ {n}, active[r] \in Int, active'[r] = active[r] - 1,
         pc'[r] = pc[r]
  PROVE  CountOK(r)'
<1>1. Cardinality(Working(r) \ {n}) = Cardinality(Working(r)) - 1
  BY WorkingFinite, FS_RemoveElement
<1>2. Cardinality(Working(r)) \in Nat /\ ConcurrencyLimit \in Nat
  BY WorkingFinite, BoundsAssumption
<1>3. Cardinality(Working(r)') = Cardinality(Working(r)) - 1
  BY <1>1
<1> QED BY <1>2, <1>3 DEF CountOK

LEMMA CountIdle ==
  ASSUME NEW r \in Runner, \A n \in Node : ~ Busy(r, n)', active'[r] \in Nat, pc'[r] # "approving"
  PROVE  CountOK(r)'
<1>1. Working(r)' = {}
  BY DEF Working
<1>2. Cardinality(Working(r)') = 0
  BY <1>1, FS_EmptySet
<1> QED BY <1>2, BoundsAssumption DEF CountOK

LEMMA StartCount ==
  ASSUME TypeOK, NEW r \in Runner, CountOK(r), NEW n \in Node, NEW e, NEW s,
         StartOrWait(r, n, e, s), ~ Busy(r, n), active[r] < ConcurrencyLimit,
         pc'[r] # "approving"
  PROVE  CountOK(r)'
<1>0. active[r] \in Int /\ job \in [Runner -> [Node -> [at : JobPhase, exec : Executor \union {None}]]]
  BY DEF TypeOK
<1>1. CASE UNCHANGED <<active, job>>
  BY <1>1, CountKept DEF Working, Busy
<1>2. CASE /\ active' = [active EXCEPT ![r] = @ + 1]
           /\ job' = [job EXCEPT ![r][n] = [at |-> "executing", exec |-> e]]
  <2>1. job'[r][n].at = "executing" /\ \A m \in Node \ {n} : job'[r][m] = job[r][m]
    BY <1>0, <1>2
  <2>2. Working(r)' = Working(r) \union {n} /\ n \notin Working(r)
    BY <2>1 DEF Working, Busy
  <2>3. active'[r] = active[r] + 1
    BY <1>2 DEF TypeOK
  <2> QED BY <1>0, <2>2, <2>3, CountUp
<1> QED BY <1>1, <1>2 DEF StartOrWait

LEMMA FinishCount ==
  ASSUME TypeOK, NEW r \in Runner, CountOK(r), NEW n \in Node, NEW status,
         Finish(r, n, status), Busy(r, n), pc' = pc
  PROVE  CountOK(r)'
<1>1. job'[r][n] = NoJob /\ \A m \in Node \ {n} : job'[r][m] = job[r][m]
  BY DEF TypeOK, Finish
<1>2. Working(r)' = Working(r) \ {n} /\ n \in Working(r)
  BY <1>1 DEF Working, Busy, NoJob
<1>3. active[r] \in Int /\ active'[r] = active[r] - 1
  BY DEF TypeOK, Finish
<1> QED BY <1>2, <1>3, CountDown

LEMMA AdvanceCount ==
  ASSUME TypeOK, NEW r \in Runner, CountOK(r), NEW n \in Node, NEW phase \in JobPhase \ {"idle"},
         Advance(r, n, phase), Busy(r, n), pc' = pc, active' = active
  PROVE  CountOK(r)'
<1>1. job'[r][n].at = phase /\ \A m \in Node \ {n} : job'[r][m] = job[r][m]
  BY AdvanceType
<1>2. Working(r)' = Working(r)
  BY <1>1 DEF Working, Busy
<1> QED BY <1>2, CountKept DEF CountOK

LEMMA FailCount ==
  ASSUME TypeOK, NEW r \in Runner, CountOK(r), NEW n \in Node, Fail(r, n), Busy(r, n), pc' = pc
  PROVE  CountOK(r)'
<1>1. "burying" \in JobPhase \ {"idle"}
  BY DEF JobPhase
<1> QED BY <1>1, FinishCount, AdvanceCount DEF Fail

LEMMA CountStep ==
  ASSUME IInv, NEW r \in Runner, CountOK(r), [Next]_vars PROVE CountOK(r)'
<1>1. TypeOK /\ RunOK(r)
  BY DEF IInv
<1>2. ASSUME job'[r] = job[r], active'[r] = active[r], pc'[r] = pc[r] PROVE CountOK(r)'
  BY <1>2, CountKept DEF Working, Busy, CountOK
<1>3. ASSUME job'[r] = job[r], active'[r] = active[r], pc'[r] # "approving" PROVE CountOK(r)'
  BY <1>3, CountKept DEF Working, Busy
<1>4. ASSUME NEW q \in Runner, Load(q) PROVE CountOK(r)'
  BY <1>1, <1>2, <1>3, <1>4 DEF TypeOK, Load
<1>5. ASSUME NEW q \in Runner, Probe(q) PROVE CountOK(r)'
  <2>1. CASE q # r
    BY <1>1, <1>2, <1>5, <2>1 DEF TypeOK, Probe
  <2>2. CASE q = r
    <3>1. Cardinality(Leased(mem[r])) \in Nat
      BY StructureAssumption, FS_Subset, FS_CardinalityType DEF Leased
    <3>2. active'[r] \in Nat /\ pc'[r] # "approving"
      BY <1>1, <1>5, <2>2, <3>1 DEF TypeOK, Probe
    <3>3. \A n \in Node : ~ Busy(r, n)'
      BY <1>1, <1>5, <2>2 DEF Probe, RunOK, Busy
    <3> QED BY <3>2, <3>3, CountIdle
  <2> QED BY <2>1, <2>2
<1>6. ASSUME NEW q \in Runner, NEW t \in Task, EnterTask(q, t) PROVE CountOK(r)'
  BY <1>2, <1>6 DEF EnterTask
<1>7. ASSUME NEW q \in Runner, NEW n \in Node, Visit(q, n) PROVE CountOK(r)'
  <2>1. CASE q # r
    BY <1>1, <1>2, <1>7, <2>1 DEF TypeOK, Visit, StartOrWait
  <2>2. CASE q = r
    <3>1. active[r] < ConcurrencyLimit /\ ~ Busy(r, n) /\ pc[r] = "dispatch"
      BY <1>1, <1>7, <2>2 DEF Visit, Dispatching, RunOK, Pending
    <3>2. CASE UNCHANGED <<active, job>>
      BY <3>1, <3>2, CountKept DEF Working, Busy
    <3>3. CASE UNCHANGED pc /\ \E e \in Routes(r, n) : StartOrWait(r, n, e, mem[r])
      BY <1>1, <3>1, <3>3, StartCount
    <3> QED BY <1>7, <2>2, <3>2, <3>3 DEF Visit
  <2> QED BY <2>1, <2>2
<1>8. ASSUME NEW q \in Runner, Answer(q) PROVE CountOK(r)'
  <2>1. CASE q # r
    BY <1>1, <1>2, <1>8, <2>1 DEF TypeOK, Answer, StartOrWait
  <2>2. CASE q = r
    <3> DEFINE n == ask[r].node
    <3>1. active[r] < ConcurrencyLimit /\ ~ Busy(r, n) /\ n \in Node /\ pc'[r] = "dispatch"
      BY <1>1, <1>8, <2>2 DEF Answer, RunOK, Pending, CountOK, TypeOK
    <3>2. CASE UNCHANGED <<active, job>>
      BY <3>1, <3>2, <1>3
    <3>3. CASE StartOrWait(r, n, ask[r].exec, Grant(mem[r], n))
      BY <1>1, <3>1, <3>3, StartCount
    <3> QED BY <1>8, <2>2, <3>2, <3>3 DEF Answer
  <2> QED BY <2>1, <2>2
<1>9. ASSUME NEW q \in Runner, EndDispatch(q) \/ Serialize(q) \/ SaveStarted(q) PROVE CountOK(r)'
  BY <1>1, <1>2, <1>3, <1>9 DEF TypeOK, EndDispatch, Serialize, SaveStarted
<1>10. ASSUME NEW q \in Runner, SaveFinished(q) \/ Crash(q) PROVE CountOK(r)'
  <2>1. CASE q # r
    BY <1>1, <1>2, <1>10, <2>1 DEF TypeOK, SaveFinished, Crash
  <2>2. CASE q = r
    <3>1. \A n \in Node : ~ Busy(r, n)'
      BY <1>1, <1>10, <2>2 DEF TypeOK, SaveFinished, Crash, Busy, NoJob
    <3>2. active'[r] = 0 /\ pc'[r] = "idle"
      BY <1>1, <1>10, <2>2 DEF TypeOK, SaveFinished, Crash
    <3> QED BY <3>1, <3>2, CountIdle
  <2> QED BY <2>1, <2>2
<1>11. ASSUME NEW q \in Runner, NEW n \in Node, Worker(q, n) PROVE CountOK(r)'
  <2>1. pc' = pc
    BY <1>11 DEF Worker, Executed, ExecuteFails, Verified, Buried, runVars
  <2>2. CASE q # r
    <3>1. job'[r] = job[r] /\ active'[r] = active[r]
      BY <1>1, <1>11, <2>2
      DEF TypeOK, Worker, Executed, ExecuteFails, Verified, Buried, Fail, Finish, Advance, runVars
    <3> QED BY <1>2, <2>1, <3>1
  <2>3. CASE q = r
    <3>1. Busy(r, n)
      BY <1>11, <2>3 DEF Worker, Executed, ExecuteFails, Verified, Buried, Busy
    <3>2. CASE Executed(r, n)
      <4>1. Advance(r, n, "verifying") /\ active' = active /\ "verifying" \in JobPhase \ {"idle"}
        BY <3>2 DEF Executed, runVars, JobPhase
      <4> QED BY <1>1, <2>1, <3>1, <4>1, AdvanceCount
    <3>3. CASE ExecuteFails(r, n)
      BY <1>1, <2>1, <3>1, <3>3, FailCount DEF ExecuteFails
    <3>4. CASE Verified(r, n)
      BY <1>1, <2>1, <3>1, <3>4, FailCount, FinishCount DEF Verified
    <3>5. CASE Buried(r, n)
      BY <1>1, <2>1, <3>1, <3>5, FinishCount DEF Buried
    <3> QED BY <1>11, <2>3, <3>2, <3>3, <3>4, <3>5 DEF Worker
  <2> QED BY <2>2, <2>3
<1>12. ASSUME NEW c \in Client, ClientSave(c) \/ \E t \in Task : Submit(c, t) \/ Cancel(c, t)
       PROVE  CountOK(r)'
  BY <1>2, <1>12 DEF ClientSave, Submit, Cancel, runVars
<1>13. CASE Tick \/ UNCHANGED vars
  BY <1>2, <1>13 DEF Tick, vars
<1> QED BY <1>4, <1>5, <1>6, <1>7, <1>8, <1>9, <1>10, <1>11, <1>12, <1>13 DEF Next, Dispatch

\* A run never has more executions in flight than concurrency_limit, though it
\* looks at the limit before it asks for an approval and starts the execution
\* after (scheduler.mjs 74-88), and counts leases of other runs as its own.
THEOREM LimitIsKept == Spec => []WithinLimit
<1> DEFINE Counts == \A r \in Runner : CountOK(r)
<1>1. Init => Counts
  <2> SUFFICES ASSUME Init, NEW r \in Runner PROVE CountOK(r)
    OBVIOUS
  <2>1. Working(r) = {}
    BY DEF Init, Working, Busy, NoJob
  <2>2. Cardinality(Working(r)) = 0
    BY <2>1, FS_EmptySet
  <2> QED BY <2>2, BoundsAssumption DEF Init, CountOK
<1>2. IInv /\ Counts /\ [Next]_vars => Counts'
  BY CountStep
<1>3. Counts => WithinLimit
  BY DEF WithinLimit, CountOK, Working
<1> QED BY <1>1, <1>2, <1>3, Invariance, PTL DEF Spec

-----------------------------------------------------------------------------
(* The statuses of the tasks in a copy, and its unfinished tasks.             *)

Unfinished(s) == {t \in Task : Submitted(s, t) /\ s.status[t] \notin Terminal}

\* From s to u only unfinished tasks change their status, and none becomes unknown.
Keeps(s, u) ==
  \A t \in Task : \/ u.status[t] = s.status[t]
                  \/ t \in Unfinished(s) /\ u.status[t] # "NONE"

LEMMA KeepsUnfinished ==
  ASSUME NEW s, NEW u, Keeps(s, u) PROVE Unfinished(u) \subseteq Unfinished(s)
  BY DEF Keeps, Unfinished, Submitted

LEMMA KeepsTwice ==
  ASSUME NEW s, NEW u, NEW v, Keeps(s, u), Keeps(u, v) PROVE Keeps(s, v)
  BY DEF Keeps, Unfinished, Submitted

LEMMA SameStatus ==
  ASSUME NEW s \in State, NEW n \in Node, NEW e, NEW status
  PROVE  /\ Cleanup(s).status = s.status
         /\ SetNode(s, n, status).status = s.status
         /\ Release(s, n, e).status = s.status
         /\ Grant(s, n).status = s.status
         /\ Aged(s).status = s.status
  BY DEF State, Cleanup, SetNode, Release, Grant, Aged

LEMMA RefreshKeeps ==
  ASSUME NEW s \in State, NEW T PROVE Keeps(s, Refresh(s, T))
<1>1. \A f, t : DerivedStatus(f, t) # "NONE"
  BY DEF DerivedStatus
<1> QED BY <1>1 DEF Keeps, Refresh, State, Live, Unfinished

LEMMA SettleKeeps ==
  ASSUME NEW s \in State, NEW n \in Node, NEW e \in Executor, NEW status \in NodeStatus
  PROVE  Keeps(s, Settle(s, n, e, status))
<1> DEFINE u == SetNode(s, n, status)
           v == Release(u, n, e)
<1>1. u \in State /\ v \in State
  BY SetNodeType, ReleaseType
<1>2. v.status = s.status
  BY <1>1, SameStatus
<1> HIDE DEF u, v
<1>3. Keeps(v, Refresh(v, {TaskOf[n]}))
  BY <1>1, RefreshKeeps
<1>4. Settle(s, n, e, status) = Refresh(v, {TaskOf[n]})
  BY DEF Settle, u, v
<1> QED BY <1>2, <1>3, <1>4 DEF Keeps, Unfinished, Submitted

LEMMA LoadKeeps ==
  ASSUME NEW s \in State PROVE Keeps(s, Refresh(Cleanup(s), Task))
<1>1. Cleanup(s) \in State /\ Cleanup(s).status = s.status
  <2>1. Cleanup(s) \in State
    BY CleanupType
  <2> QED BY <2>1 DEF State, Cleanup
<1> DEFINE u == Cleanup(s)
<1> HIDE DEF u
<1>2. Keeps(u, Refresh(u, Task))
  BY <1>1, RefreshKeeps DEF u
<1> QED BY <1>1, <1>2 DEF Keeps, Unfinished, Submitted, u

LEMMA OneStatus ==
  ASSUME NEW s \in State, NEW n \in Node, NEW e, NEW t \in Task
  PROVE  /\ t # TaskOf[n] => /\ Acquire(s, n, e).status[t] = s.status[t]
                            /\ Bury(s, n).status[t] = s.status[t]
                            /\ Deny(s, n).status[t] = s.status[t]
         /\ t = TaskOf[n] => /\ Acquire(s, n, e).status[t] = "RUNNING"
                             /\ Bury(s, n).status[t] = "FAILED_FINAL"
                             /\ Deny(s, n).status[t] = "APPROVAL_REQUIRED"
  BY DEF State, Acquire, Bury, Deny

LEMMA CancelStatus ==
  ASSUME NEW s \in State, NEW t \in Task, NEW u \in Task
  PROVE  CancelIn(s, t).status[u] = IF u = t THEN "CANCELLED" ELSE s.status[u]
  BY DEF State, CancelIn

LEMMA SubmitUnfinished ==
  ASSUME NEW s \in State, NEW t \in Task
  PROVE  /\ Unfinished(SubmitIn(s, t)) \subseteq Unfinished(s) \union {t}
         /\ \A u \in Task : s.status[u] \in Terminal /\ u # t => SubmitIn(s, t).status[u] = s.status[u]
<1> DEFINE v == [s EXCEPT !.status[t] = "QUEUED"]
<1>1. v \in State /\ \A u \in Task : v.status[u] = IF u = t THEN "QUEUED" ELSE s.status[u]
  BY DEF State, TaskStatus
<1> HIDE DEF v
<1>2. Keeps(v, Refresh(v, {t}))
  BY <1>1, RefreshKeeps
<1>3. SubmitIn(s, t) = Refresh(v, {t})
  BY DEF SubmitIn, v
<1> QED BY <1>1, <1>2, <1>3 DEF Keeps, Unfinished, Submitted

-----------------------------------------------------------------------------
(* One unfinished task per key.  A run may revive a task that ended in its    *)
(* own copy meanwhile: an approval that is answered overwrites the status.     *)
(* So the invariant counts the tasks of the nodes a run has still to start     *)
(* with the unfinished ones.                                                   *)

OneKey(T) ==
  \A t, u \in T : t # u /\ {t, u} \intersect RiskyTask = {} => SemanticKey[t] # SemanticKey[u]

Reviving(r) ==
  {TaskOf[n] : n \in batch[r] \union (IF pc[r] = "approving" THEN {ask[r].node} ELSE {})}

RunKeys(r) == OneKey(Unfinished(mem[r]) \union Reviving(r))

KeysOK ==
  /\ OneKey(Unfinished(disk))
  /\ \A r \in Runner : RunKeys(r) /\ OneKey(Unfinished(image[r]))
  /\ \A c \in Client : OneKey(Unfinished(cmem[c]))

LEMMA OneKeySubset ==
  ASSUME NEW S, NEW T \in SUBSET S, OneKey(S) PROVE OneKey(T)
  BY DEF OneKey

LEMMA EmptyUnfinished == Unfinished(EmptyState) = {}
  BY DEF Unfinished, Submitted, EmptyState

LEMMA AgedUnfinished == ASSUME NEW s \in State PROVE Unfinished(Aged(s)) = Unfinished(s)
<1>1. Aged(s).status = s.status
  BY DEF State, Aged
<1> QED BY <1>1 DEF Unfinished, Submitted

\* A run whose unfinished and reviving tasks grow no further keeps its keys.
LEMMA RunKeysKept ==
  ASSUME NEW r \in Runner, RunKeys(r),
         Unfinished(mem[r])' \subseteq Unfinished(mem[r]) \union Reviving(r),
         Reviving(r)' \subseteq Unfinished(mem[r]) \union Reviving(r)
  PROVE  RunKeys(r)'
<1>1. (Unfinished(mem[r]) \union Reviving(r))' \subseteq Unfinished(mem[r]) \union Reviving(r)
  OBVIOUS
<1>2. \A S, T : T \subseteq S /\ OneKey(S) => OneKey(T)
  BY OneKeySubset
<1> QED BY <1>1, <1>2 DEF RunKeys

LEMMA RunKeysSame ==
  ASSUME NEW r \in Runner, RunKeys(r), mem'[r] = mem[r], pc'[r] = pc[r], batch'[r] = batch[r],
         ask'[r] = ask[r]
  PROVE  RunKeys(r)'
<1>1. Unfinished(mem[r])' = Unfinished(mem[r])
  BY DEF Unfinished, Submitted
<1>2. Reviving(r)' = Reviving(r)
  BY DEF Reviving
<1> QED BY <1>1, <1>2, RunKeysKept

\* A pending node is started or set to wait; s is the copy with its approval.
LEMMA StartKeys ==
  ASSUME TypeOK, NEW r \in Runner, RunKeys(r), NEW n \in Node, NEW e \in Executor,
         NEW s \in State, s.status = mem[r].status, StartOrWait(r, n, e, s),
         TaskOf[n] \in Reviving(r), Reviving(r)' \subseteq Reviving(r)
  PROVE  RunKeys(r)'
<1>1. CASE mem' = [mem EXCEPT ![r] = Acquire(s, n, e)]
  <2>1. mem'[r] = Acquire(s, n, e)
    BY <1>1 DEF TypeOK
  <2>2. Unfinished(mem[r])' \subseteq Unfinished(mem[r]) \union {TaskOf[n]}
    BY <2>1, OneStatus DEF Unfinished, Submitted
  <2> QED BY <2>2, RunKeysKept
<1>2. CASE mem' = [mem EXCEPT ![r] = SetNode(s, n, "WAITING_RESOURCE")]
  <2>1. mem'[r] = SetNode(s, n, "WAITING_RESOURCE")
    BY <1>2 DEF TypeOK
  <2>2. Unfinished(mem[r])' = Unfinished(mem[r])
    BY <2>1, SameStatus DEF Unfinished, Submitted
  <2> QED BY <2>2, RunKeysKept
<1> QED BY <1>1, <1>2 DEF StartOrWait

\* An execution ends or is given up: nothing is revived.
LEMMA WorkerKeys ==
  ASSUME IInv, NEW r \in Runner, RunKeys(r), NEW n \in Node, Worker(r, n) PROVE RunKeys(r)'
<1>1. TypeOK /\ RunOK(r) /\ mem[r] \in State
  BY DEF IInv, TypeOK
<1>2. Reviving(r)' = Reviving(r)
  BY DEF Worker, Executed, ExecuteFails, Verified, Buried, runVars, Reviving
<1>3. Busy(r, n) /\ InFlight(r, n) /\ job[r][n].exec \in Executor
  BY <1>1 DEF Worker, Executed, ExecuteFails, Verified, Buried, Busy, RunOK, InFlight
<1>4. ASSUME NEW status \in NodeStatus, Finish(r, n, status) PROVE RunKeys(r)'
  <2>1. mem'[r] = Settle(mem[r], n, job[r][n].exec, status)
    BY <1>1, <1>4 DEF TypeOK, Finish
  <2>2. Unfinished(mem'[r]) \subseteq Unfinished(mem[r])
    BY <1>1, <1>3, <2>1, SettleKeeps, KeepsUnfinished
  <2>3. Unfinished(mem[r])' \subseteq Unfinished(mem[r])
    BY <2>2 DEF Unfinished, Submitted
  <2> QED BY <1>2, <2>3, RunKeysKept
<1>5. ASSUME Fail(r, n) PROVE RunKeys(r)'
  <2>1. CASE mem' = [mem EXCEPT ![r] = Bury(@, n)]
    <3>1. mem'[r] = Bury(mem[r], n)
      BY <1>1, <2>1 DEF TypeOK
    <3>2. Unfinished(mem[r])' \subseteq Unfinished(mem[r])
      BY <1>1, <3>1, OneStatus DEF Unfinished, Submitted, Terminal
    <3> QED BY <1>2, <3>2, RunKeysKept
  <2>2. CASE Finish(r, n, "READY")
    BY <1>4, <2>2 DEF NodeStatus
  <2> QED BY <1>5, <2>1, <2>2 DEF Fail
<1>6. CASE Executed(r, n)
  BY <1>6, RunKeysSame DEF Executed, runVars
<1>7. CASE ExecuteFails(r, n)
  BY <1>5, <1>7 DEF ExecuteFails
<1>8. CASE Verified(r, n)
  BY <1>4, <1>5, <1>8 DEF Verified, NodeStatus, Terminal
<1>9. CASE Buried(r, n)
  BY <1>1, <1>4, <1>9 DEF Buried, State
<1> QED BY <1>6, <1>7, <1>8, <1>9 DEF Worker

\* What a step does to the keys of one run.
LEMMA RunKeysStep ==
  ASSUME IInv, KeysOK, NEW r \in Runner, [Next]_vars PROVE RunKeys(r)'
<1>1. TypeOK /\ RunOK(r) /\ RunKeys(r) /\ mem[r] \in State
  BY DEF IInv, KeysOK, TypeOK
<1>2. ASSUME mem'[r] = mem[r], pc'[r] = pc[r], batch'[r] = batch[r], ask'[r] = ask[r] PROVE RunKeys(r)'
  BY <1>1, <1>2, RunKeysSame
<1>3. ASSUME mem'[r] = mem[r], Reviving(r)' \subseteq Unfinished(mem[r]) \union Reviving(r) PROVE RunKeys(r)'
  <2>1. Unfinished(mem[r])' = Unfinished(mem[r])
    BY <1>3 DEF Unfinished, Submitted
  <2> QED BY <1>1, <1>3, <2>1, RunKeysKept
<1>4. ASSUME mem'[r] = EmptyState, batch'[r] = {}, pc'[r] # "approving" PROVE RunKeys(r)'
  <2>1. Unfinished(mem[r])' = {}
    BY <1>4, EmptyUnfinished DEF Unfinished, Submitted
  <2>2. Reviving(r)' = {}
    BY <1>4 DEF Reviving
  <2> QED BY <2>1, <2>2 DEF RunKeys, OneKey
<1>5. ASSUME NEW q \in Runner, Load(q) PROVE RunKeys(r)'
  <2>1. CASE q # r
    BY <1>1, <1>2, <1>5, <2>1 DEF TypeOK, Load
  <2>2. CASE q = r
    <3>1. mem'[r] = Refresh(Cleanup(disk), Task) /\ pc'[r] = "probing" /\ batch'[r] = {}
      BY <1>1, <1>5, <2>2 DEF TypeOK, Load, RunOK
    <3>2. Unfinished(mem'[r]) \subseteq Unfinished(disk)
      BY <1>1, <3>1, LoadKeeps, KeepsUnfinished DEF TypeOK
    <3>3. Reviving(r)' = {}
      BY <3>1 DEF Reviving
    <3>4. (Unfinished(mem[r]) \union Reviving(r))' \subseteq Unfinished(disk)
      BY <3>2, <3>3 DEF Unfinished, Submitted
    <3>5. \A S, T : T \subseteq S /\ OneKey(S) => OneKey(T)
      BY OneKeySubset
    <3> QED BY <3>4, <3>5 DEF KeysOK, RunKeys
  <2> QED BY <2>1, <2>2
<1>6. ASSUME NEW q \in Runner, Probe(q) PROVE RunKeys(r)'
  <2>1. Reviving(r)' \subseteq Reviving(r)
    BY <1>1, <1>6 DEF TypeOK, Probe, Reviving
  <2> QED BY <1>3, <1>6, <2>1 DEF Probe
<1>7. ASSUME NEW q \in Runner, NEW t \in Task, EnterTask(q, t) PROVE RunKeys(r)'
  <2>1. CASE q # r
    BY <1>1, <1>2, <1>7, <2>1 DEF TypeOK, EnterTask
  <2>2. CASE q = r
    <3>1. \A n \in batch'[r] : Live(mem[r], t) /\ TaskOf[n] = t
      BY <1>1, <1>7, <2>2 DEF TypeOK, EnterTask, NodesOf
    <3>2. pc'[r] = "dispatch"
      BY <1>7, <2>2 DEF EnterTask, Dispatching
    <3>3. Reviving(r)' \subseteq Unfinished(mem[r])
      BY <3>1, <3>2 DEF Reviving, Live, Unfinished
    <3> QED BY <1>3, <1>7, <3>3 DEF EnterTask
  <2> QED BY <2>1, <2>2
<1>8. ASSUME NEW q \in Runner, NEW n \in Node, Visit(q, n) PROVE RunKeys(r)'
  <2>1. CASE q # r
    BY <1>1, <1>2, <1>8, <2>1 DEF TypeOK, Visit, StartOrWait
  <2>2. CASE q = r
    <3>1. n \in batch[r] /\ batch'[r] = batch[r] \ {n} /\ pc[r] = "dispatch" /\ TaskOf[n] \in Reviving(r)
      BY <1>1, <1>8, <2>2 DEF TypeOK, Visit, Dispatching, Reviving
    <3>2. CASE mem' = [mem EXCEPT ![r] = SetNode(@, n, "WAITING_RESOURCE")] /\ UNCHANGED pc
      <4>1. mem'[r] = SetNode(mem[r], n, "WAITING_RESOURCE")
        BY <1>1, <3>2 DEF TypeOK
      <4>2. Unfinished(mem[r])' = Unfinished(mem[r])
        BY <1>1, <4>1, SameStatus DEF Unfinished, Submitted
      <4>3. Reviving(r)' \subseteq Reviving(r)
        BY <3>1, <3>2 DEF Reviving
      <4> QED BY <1>1, <4>2, <4>3, RunKeysKept
    <3>3. CASE mem' = mem /\ pc' = [pc EXCEPT ![r] = "approving"]
               /\ \E e \in Routes(r, n) : ask' = [ask EXCEPT ![r] = [node |-> n, exec |-> e]]
      <4>1. ask'[r].node = n
        BY <1>1, <3>3 DEF TypeOK
      <4>2. Reviving(r)' \subseteq Reviving(r)
        BY <3>1, <4>1 DEF Reviving
      <4> QED BY <1>3, <3>3, <4>2
    <3>4. CASE UNCHANGED pc /\ \E e \in Routes(r, n) : StartOrWait(r, n, e, mem[r])
      <4>1. Reviving(r)' \subseteq Reviving(r)
        BY <3>1, <3>4 DEF Reviving
      <4>2. Routes(r, n) \subseteq Executor
        BY <1>1, StructureAssumption DEF Routes
      <4> QED BY <1>1, <3>1, <3>4, <4>1, <4>2, StartKeys
    <3> QED BY <1>8, <2>2, <3>2, <3>3, <3>4 DEF Visit
  <2> QED BY <2>1, <2>2
<1>9. ASSUME NEW q \in Runner, Answer(q) PROVE RunKeys(r)'
  <2>1. CASE q # r
    BY <1>1, <1>2, <1>9, <2>1 DEF TypeOK, Answer, StartOrWait
  <2>2. CASE q = r
    <3> DEFINE n == ask[r].node
    <3>1. n \in Node /\ ask[r].exec \in Executor /\ pc[r] = "approving" /\ TaskOf[n] \in Reviving(r)
      BY <1>1, <1>9, <2>2 DEF Answer, RunOK, Reviving
    <3>2. Reviving(r)' \subseteq Reviving(r)
      BY <1>1, <1>9, <2>2, <3>1 DEF TypeOK, Answer, Reviving
    <3>3. CASE mem' = [mem EXCEPT ![r] = Deny(@, n)]
      <4>1. mem'[r] = Deny(mem[r], n)
        BY <1>1, <3>3 DEF TypeOK
      <4>2. Unfinished(mem[r])' \subseteq Unfinished(mem[r]) \union {TaskOf[n]}
        BY <1>1, <3>1, <4>1, OneStatus DEF Unfinished, Submitted
      <4> QED BY <1>1, <3>1, <3>2, <4>2, RunKeysKept
    <3>4. CASE StartOrWait(r, n, ask[r].exec, Grant(mem[r], n))
      <4>1. Grant(mem[r], n) \in State /\ Grant(mem[r], n).status = mem[r].status
        BY <1>1, <3>1, GrantDenyType, SameStatus
      <4> QED BY <1>1, <3>1, <3>2, <3>4, <4>1, StartKeys
    <3> QED BY <1>9, <2>2, <3>3, <3>4 DEF Answer
  <2> QED BY <2>1, <2>2
<1>10. ASSUME NEW q \in Runner, EndDispatch(q) \/ Serialize(q) \/ SaveStarted(q) PROVE RunKeys(r)'
  <2>1. mem'[r] = mem[r]
    BY <1>10 DEF EndDispatch, Serialize, SaveStarted
  <2>2. Reviving(r)' \subseteq Reviving(r)
    BY <1>1, <1>10 DEF TypeOK, EndDispatch, Serialize, SaveStarted, Reviving
  <2> QED BY <1>3, <2>1, <2>2
<1>11. ASSUME NEW q \in Runner, SaveFinished(q) \/ Crash(q) PROVE RunKeys(r)'
  <2>1. CASE q # r
    BY <1>1, <1>2, <1>11, <2>1 DEF TypeOK, SaveFinished, Crash
  <2>2. CASE q = r
    BY <1>1, <1>4, <1>11, <2>2 DEF TypeOK, SaveFinished, Crash, RunOK
  <2> QED BY <2>1, <2>2
<1>12. ASSUME NEW q \in Runner, NEW n \in Node, Worker(q, n) PROVE RunKeys(r)'
  <2>1. CASE q # r
    <3>1. mem'[r] = mem[r]
      BY <1>1, <1>12, <2>1
      DEF TypeOK, Worker, Executed, ExecuteFails, Verified, Buried, Fail, Finish
    <3>2. UNCHANGED <<pc, batch, ask>>
      BY <1>12 DEF Worker, Executed, ExecuteFails, Verified, Buried, runVars
    <3> QED BY <1>2, <3>1, <3>2
  <2> QED BY <1>1, <1>12, <2>1, WorkerKeys
<1>13. ASSUME NEW c \in Client, ClientSave(c) \/ \E t \in Task : Submit(c, t) \/ Cancel(c, t)
       PROVE  RunKeys(r)'
  BY <1>2, <1>13 DEF ClientSave, Submit, Cancel, runVars
<1>14. CASE Tick
  <2>1. mem'[r] = Aged(mem[r]) /\ Reviving(r)' = Reviving(r)
    BY <1>14 DEF Tick, Reviving
  <2>2. Unfinished(mem[r])' = Unfinished(mem[r])
    BY <1>1, <2>1, AgedUnfinished DEF Unfinished, Submitted
  <2> QED BY <1>1, <2>1, <2>2, RunKeysKept
<1>15. CASE UNCHANGED vars
  BY <1>2, <1>15 DEF vars
<1> QED BY <1>5, <1>6, <1>7, <1>8, <1>9, <1>10, <1>11, <1>12, <1>13, <1>14, <1>15 DEF Next, Dispatch

LEMMA KeysStep == ASSUME IInv, KeysOK, [Next]_vars PROVE KeysOK'
<1>1. TypeOK /\ disk \in State /\ (\A r \in Runner : mem[r] \in State /\ image[r] \in State)
        /\ \A c \in Client : cmem[c] \in State
  BY DEF IInv, TypeOK
<1>2. \A r \in Runner : RunKeys(r)'
  BY RunKeysStep
<1>3. \A S, T : T \subseteq S /\ OneKey(S) => OneKey(T)
  BY OneKeySubset
<1>4. \A r \in Runner : OneKey(Unfinished(mem[r]))
  BY <1>3 DEF KeysOK, RunKeys
<1>5. OneKey(Unfinished(EmptyState))
  BY EmptyUnfinished DEF OneKey
<1>6. ASSUME OneKey(Unfinished(disk')), \A r \in Runner : OneKey(Unfinished(image'[r])),
             \A c \in Client : OneKey(Unfinished(cmem'[c]))
      PROVE  KeysOK'
  BY <1>2, <1>6 DEF KeysOK, Unfinished, Submitted
<1>7. ASSUME disk' = disk, image' = image, cmem' = cmem PROVE KeysOK'
  BY <1>6, <1>7 DEF KeysOK
<1>8. ASSUME NEW r \in Runner, Load(r) \/ Probe(r) \/ EndDispatch(r) \/ Answer(r) PROVE KeysOK'
  BY <1>7, <1>8 DEF Load, Probe, EndDispatch, Answer
<1>9. ASSUME NEW r \in Runner, (\E t \in Task : EnterTask(r, t)) \/ (\E n \in Node : Visit(r, n)) PROVE KeysOK'
  BY <1>7, <1>9 DEF EnterTask, Visit
<1>10. ASSUME NEW r \in Runner, Serialize(r) PROVE KeysOK'
  <2>1. \A q \in Runner : image'[q] = IF q = r THEN mem[r] ELSE image[q]
    BY <1>1, <1>10 DEF TypeOK, Serialize
  <2> QED BY <1>4, <1>6, <1>10, <2>1 DEF KeysOK, Serialize
<1>11. ASSUME NEW r \in Runner, SaveStarted(r) PROVE KeysOK'
  <2>1. \A q \in Runner : image'[q] = IF q = r THEN EmptyState ELSE image[q]
    BY <1>1, <1>11 DEF TypeOK, SaveStarted
  <2> QED BY <1>5, <1>6, <1>11, <2>1 DEF KeysOK, SaveStarted
<1>12. ASSUME NEW r \in Runner, SaveFinished(r) PROVE KeysOK'
  BY <1>4, <1>6, <1>12 DEF KeysOK, SaveFinished
<1>13. ASSUME NEW r \in Runner, Crash(r) PROVE KeysOK'
  <2>1. \A q \in Runner : image'[q] = IF q = r THEN EmptyState ELSE image[q]
    BY <1>1, <1>13 DEF TypeOK, Crash
  <2> QED BY <1>5, <1>6, <1>13, <2>1 DEF KeysOK, Crash
<1>14. ASSUME NEW r \in Runner, NEW n \in Node, Worker(r, n) PROVE KeysOK'
  BY <1>7, <1>14 DEF Worker, Executed, ExecuteFails, Verified, Buried, runVars
<1>15. ASSUME NEW c \in Client, NEW t \in Task, Submit(c, t) PROVE KeysOK'
  <2> DEFINE s == Cleanup(disk)
  <2>1. s \in State /\ s.status = disk.status
    BY <1>1, CleanupType, StructureAssumption DEF State, Cleanup
  <2>2. OneKey(Unfinished(s)) /\ Submittable(s, t)
    BY <1>15, <2>1 DEF Submit, KeysOK, Unfinished, Submitted
  <2> HIDE DEF s
  <2>3. OneKey(Unfinished(s) \union {t})
    BY <2>2 DEF OneKey, Submittable, Unfinished, Submitted
  <2>4. OneKey(Unfinished(SubmitIn(s, t)))
    BY <1>3, <2>1, <2>3, SubmitUnfinished
  <2>5. \A d \in Client : cmem'[d] = IF d = c THEN SubmitIn(s, t) ELSE cmem[d]
    BY <1>1, <1>15 DEF TypeOK, Submit, s
  <2> QED BY <1>6, <1>15, <2>4, <2>5 DEF KeysOK, Submit, runVars
<1>16. ASSUME NEW c \in Client, NEW t \in Task, Cancel(c, t) PROVE KeysOK'
  <2>1. Unfinished(CancelIn(disk, t)) \subseteq Unfinished(disk)
    BY <1>1, CancelStatus DEF Unfinished, Submitted, Terminal
  <2>2. OneKey(Unfinished(CancelIn(disk, t)))
    BY <1>3, <2>1 DEF KeysOK
  <2>3. \A d \in Client : cmem'[d] = IF d = c THEN CancelIn(disk, t) ELSE cmem[d]
    BY <1>1, <1>16 DEF TypeOK, Cancel
  <2> QED BY <1>6, <1>16, <2>2, <2>3 DEF KeysOK, Cancel, runVars
<1>17. ASSUME NEW c \in Client, ClientSave(c) PROVE KeysOK'
  <2>1. \A d \in Client : cmem'[d] = IF d = c THEN EmptyState ELSE cmem[d]
    BY <1>1, <1>17 DEF TypeOK, ClientSave
  <2> QED BY <1>5, <1>6, <1>17, <2>1 DEF KeysOK, ClientSave, runVars
<1>18. CASE Tick
  <2>1. Unfinished(disk') = Unfinished(disk)
    BY <1>1, <1>18, AgedUnfinished DEF Tick
  <2>2. \A r \in Runner : Unfinished(image'[r]) = Unfinished(image[r])
    BY <1>1, <1>18, AgedUnfinished DEF Tick
  <2>3. \A c \in Client : Unfinished(cmem'[c]) = Unfinished(cmem[c])
    BY <1>1, <1>18, AgedUnfinished DEF Tick
  <2> QED BY <1>6, <2>1, <2>2, <2>3 DEF KeysOK
<1>19. CASE UNCHANGED vars
  BY <1>7, <1>19 DEF vars
<1> QED
  BY <1>8, <1>9, <1>10, <1>11, <1>12, <1>13, <1>14, <1>15, <1>16, <1>17, <1>18, <1>19 DEF Next, Dispatch

LEMMA InitKeys == Init => KeysOK
<1> SUFFICES ASSUME Init PROVE KeysOK
  OBVIOUS
<1>1. \A r \in Runner : Reviving(r) = {}
  BY DEF Init, Reviving
<1>2. Unfinished(EmptyState) = {}
  BY EmptyUnfinished
<1> QED BY <1>1, <1>2 DEF Init, KeysOK, RunKeys, OneKey

\* In the file and in every private copy, two unfinished tasks have one semantic
\* key only if one of them is of risk R3 or R4 (submitTask, scheduler.mjs 31-34),
\* whatever overlaps, crashes or is approved.
THEOREM KeysStayUnique == Spec => []UniqueLiveKey
<1>1. KeysOK => UniqueLiveKey
  <2> SUFFICES ASSUME KeysOK PROVE UniqueLiveKey
    OBVIOUS
  <2>1. \A r \in Runner : OneKey(Unfinished(mem[r]))
    <3>1. \A S, T : T \subseteq S /\ OneKey(S) => OneKey(T)
      BY OneKeySubset
    <3> QED BY <3>1 DEF KeysOK, RunKeys
  <2>2. \A s \in Copies : OneKey(Unfinished(s))
    BY <2>1 DEF KeysOK, Copies
  <2> QED BY <2>2 DEF UniqueLiveKey, OneKey, Unfinished
<1> QED BY <1>1, InitKeys, KeysStep, Invariance, PTL DEF Spec

-----------------------------------------------------------------------------
(* No lock without a lease.  This needs that no node asks for approval: the    *)
(* answer to a request makes a task RUNNING whose sibling is being given up,   *)
(* which then is READY with its lease, may take a second lock when the lease   *)
(* runs out, and releases only one.  Without approvals a lease is of a node     *)
(* in execution or given up, a task with a node given up is over, and an        *)
(* execution holds one lock.                                                    *)

Tidy(s) ==
  /\ \A n \in Node : s.lease[n] # NoLease => s.node[n] \in {"RUNNING", "FAILED_FINAL"}
  /\ \A n \in Node : s.node[n] = "FAILED_FINAL" => s.status[TaskOf[n]] \in Terminal
  /\ \A x \in Resource : s.lock[x] # None => s.lease[s.lock[x]] # NoLease

RunTidy(r) ==
  /\ pc[r] # "approving"
  /\ \A n \in batch[r] : mem[r].status[TaskOf[n]] \notin Terminal
  /\ \A n \in Node, x \in Resource :
       Busy(r, n) /\ mem[r].lock[x] = n => x = ResourceFor(n, job[r][n].exec)

TidyInv ==
  /\ Tidy(disk)
  /\ \A r \in Runner : Tidy(mem[r]) /\ Tidy(image[r]) /\ RunTidy(r)
  /\ \A c \in Client : Tidy(cmem[c])

LEMMA EmptyTidy == Tidy(EmptyState)
  BY DEF Tidy, EmptyState

LEMMA CleanupTidy == ASSUME NEW s \in State, Tidy(s) PROVE Tidy(Cleanup(s))
<1>1. /\ \A n \in Node : /\ Cleanup(s).lease[n] = IF s.lease[n] = 0 THEN NoLease ELSE s.lease[n]
                         /\ Cleanup(s).node[n] = IF s.lease[n] = 0 /\ s.node[n] = "RUNNING"
                                                   THEN "READY" ELSE s.node[n]
      /\ \A x \in Resource : Cleanup(s).lock[x] =
           IF s.lock[x] \in Node /\ s.lease[s.lock[x]] = 0 THEN None ELSE s.lock[x]
      /\ Cleanup(s).status = s.status
  BY DEF Cleanup, State
<1>2. \A x \in Resource : s.lock[x] \in Node \union {None}
  BY DEF State
<1>3. \A n \in Node : TaskOf[n] \in Task
  BY StructureAssumption
<1>4. \A n \in Node : Cleanup(s).lease[n] # NoLease => Cleanup(s).node[n] \in {"RUNNING", "FAILED_FINAL"}
  BY <1>1 DEF Tidy
<1>5. \A n \in Node : Cleanup(s).node[n] = "FAILED_FINAL" => Cleanup(s).status[TaskOf[n]] \in Terminal
  BY <1>1 DEF Tidy
<1>6. \A x \in Resource : Cleanup(s).lock[x] # None => Cleanup(s).lease[Cleanup(s).lock[x]] # NoLease
  BY <1>1, <1>2 DEF Tidy
<1> QED BY <1>4, <1>5, <1>6 DEF Tidy

LEMMA RefreshTidy == ASSUME NEW s \in State, Tidy(s), NEW T \in SUBSET Task PROVE Tidy(Refresh(s, T))
<1> DEFINE u == Refresh(s, T)
<1>1. /\ u.lease = s.lease /\ u.lock = s.lock
      /\ \A n \in Node : u.node[n] = s.node[n] \/ (u.node[n] = "READY" /\ Live(s, TaskOf[n]) /\ s.node[n] # "RUNNING")
      /\ \A t \in Task : u.status[t] = s.status[t] \/ Live(s, t)
  BY DEF Refresh, State, Ready
<1> HIDE DEF u
<1>2. \A n \in Node : TaskOf[n] \in Task
  BY StructureAssumption
<1>3. \A n \in Node : u.lease[n] # NoLease => u.node[n] \in {"RUNNING", "FAILED_FINAL"}
  BY <1>1, <1>2 DEF Tidy, Live
<1>4. \A n \in Node : u.node[n] = "FAILED_FINAL" => u.status[TaskOf[n]] \in Terminal
  BY <1>1, <1>2 DEF Tidy, Live
<1>5. \A x \in Resource : u.lock[x] # None => u.lease[u.lock[x]] # NoLease
  BY <1>1 DEF Tidy
<1> QED BY <1>3, <1>4, <1>5 DEF Tidy, u

LEMMA AcquireTidy ==
  ASSUME NEW s \in State, Tidy(s), NEW n \in Node, NEW e \in Executor,
         s.node[n] = "READY", s.status[TaskOf[n]] \notin Terminal
  PROVE  /\ Tidy(Acquire(s, n, e))
         /\ \A x \in Resource : Acquire(s, n, e).lock[x] = n => x = ResourceFor(n, e)
<1> DEFINE u == Acquire(s, n, e)
           y == ResourceFor(n, e)
<1>1. y \in Resource /\ n # None /\ LeaseTicks # NoLease /\ TaskOf[n] \in Task
  BY ResourceForType, StructureAssumption, BoundsAssumption DEF NoLease
<1>2. /\ \A m \in Node : /\ u.lease[m] = IF m = n THEN LeaseTicks ELSE s.lease[m]
                         /\ u.node[m] = IF m = n THEN "RUNNING" ELSE s.node[m]
      /\ \A x \in Resource : u.lock[x] = IF x = y THEN n ELSE s.lock[x]
      /\ \A t \in Task : u.status[t] = IF t = TaskOf[n] THEN "RUNNING" ELSE s.status[t]
  BY <1>1 DEF Acquire, State
<1>3. \A x \in Resource : s.lock[x] \in Node \union {None}
  BY DEF State
<1>4. s.lease[n] = NoLease
  BY DEF Tidy
<1>5. \A x \in Resource : s.lock[x] # n
  BY <1>1, <1>4 DEF Tidy
<1> HIDE DEF u, y
<1>6. \A m \in Node : u.lease[m] # NoLease => u.node[m] \in {"RUNNING", "FAILED_FINAL"}
  BY <1>2 DEF Tidy
<1>7. \A m \in Node : u.node[m] = "FAILED_FINAL" => u.status[TaskOf[m]] \in Terminal
  BY <1>2, StructureAssumption DEF Tidy
<1>8. \A x \in Resource : u.lock[x] # None => u.lease[u.lock[x]] # NoLease
  BY <1>1, <1>2, <1>3 DEF Tidy
<1> QED BY <1>2, <1>5, <1>6, <1>7, <1>8 DEF Tidy, u, y

LEMMA WaitTidy ==
  ASSUME NEW s \in State, Tidy(s), NEW n \in Node, s.node[n] = "READY"
  PROVE  Tidy(SetNode(s, n, "WAITING_RESOURCE"))
  BY DEF Tidy, SetNode, State

LEMMA BuryTidy ==
  ASSUME NEW s \in State, Tidy(s), NEW n \in Node PROVE Tidy(Bury(s, n))
  BY StructureAssumption DEF Tidy, Bury, State, Terminal

\* An execution that ends gives back its only lock with its lease.
LEMMA SettleTidy ==
  ASSUME NEW s \in State, Tidy(s), NEW n \in Node, NEW e \in Executor, NEW status \in NodeStatus,
         status = "FAILED_FINAL" => s.node[n] = "FAILED_FINAL",
         \A x \in Resource : s.lock[x] = n => x = ResourceFor(n, e)
  PROVE  /\ Tidy(Settle(s, n, e, status))
         /\ \A x \in Resource : Settle(s, n, e, status).lock[x] \in {s.lock[x], None}
<1> DEFINE u == SetNode(s, n, status)
           v == Release(u, n, e)
           y == ResourceFor(n, e)
<1>1. u \in State /\ v \in State /\ y \in Resource /\ {TaskOf[n]} \in SUBSET Task
  BY SetNodeType, ReleaseType, ResourceForType, StructureAssumption
<1>2. /\ \A m \in Node : /\ v.lease[m] = IF m = n THEN NoLease ELSE s.lease[m]
                         /\ v.node[m] = IF m = n THEN status ELSE s.node[m]
      /\ \A x \in Resource : v.lock[x] = IF x = y /\ s.lock[x] = n THEN None ELSE s.lock[x]
      /\ v.status = s.status
  BY <1>1 DEF Release, SetNode, State
<1>3. \A x \in Resource : s.lock[x] \in Node \union {None}
  BY DEF State
<1>4. Settle(s, n, e, status) = Refresh(v, {TaskOf[n]})
  BY DEF Settle
<1> HIDE DEF u, v
<1>5. \A m \in Node : v.lease[m] # NoLease => v.node[m] \in {"RUNNING", "FAILED_FINAL"}
  BY <1>2 DEF Tidy
<1>6. \A m \in Node : v.node[m] = "FAILED_FINAL" => v.status[TaskOf[m]] \in Terminal
  BY <1>2 DEF Tidy
<1>7. \A x \in Resource : v.lock[x] # None => v.lease[v.lock[x]] # NoLease
  BY <1>2, <1>3 DEF Tidy
<1>8. Tidy(v)
  BY <1>5, <1>6, <1>7 DEF Tidy
<1>9. Tidy(Refresh(v, {TaskOf[n]})) /\ Refresh(v, {TaskOf[n]}).lock = v.lock
  BY <1>1, <1>8, RefreshTidy, RefreshNodes
<1> QED BY <1>2, <1>4, <1>9

LEMMA SubmitTidy ==
  ASSUME NEW s \in State, Tidy(s), NEW t \in Task, ~ Submitted(s, t) PROVE Tidy(SubmitIn(s, t))
<1> DEFINE u == [s EXCEPT !.status[t] = "QUEUED"]
<1>1. u \in State /\ {t} \in SUBSET Task
  BY DEF State, TaskStatus
<1>2. /\ u.node = s.node /\ u.lease = s.lease /\ u.lock = s.lock
      /\ \A v \in Task : u.status[v] = IF v = t THEN "QUEUED" ELSE s.status[v]
  BY DEF State
<1> HIDE DEF u
<1>3. Tidy(u)
  BY <1>2, StructureAssumption DEF Tidy, Submitted, Terminal
<1> QED BY <1>1, <1>3, RefreshTidy DEF SubmitIn, u

LEMMA CancelTidy ==
  ASSUME NEW s \in State, Tidy(s), NEW t \in Task PROVE Tidy(CancelIn(s, t))
<1> DEFINE u == CancelIn(s, t)
<1>1. /\ \A n \in Node : /\ u.lease[n] = IF TaskOf[n] = t THEN NoLease ELSE s.lease[n]
                         /\ u.node[n] = IF TaskOf[n] = t /\ s.node[n] \notin Terminal
                                          THEN "CANCELLED" ELSE s.node[n]
      /\ \A x \in Resource : u.lock[x] =
           IF s.lock[x] \in Node /\ TaskOf[s.lock[x]] = t /\ s.lease[s.lock[x]] # NoLease
             THEN None ELSE s.lock[x]
      /\ \A v \in Task : u.status[v] = IF v = t THEN "CANCELLED" ELSE s.status[v]
  BY DEF CancelIn, NodesOf, Leased, State
<1>2. \A x \in Resource : s.lock[x] \in Node \union {None}
  BY DEF State
<1> HIDE DEF u
<1>3. \A n \in Node : u.lease[n] # NoLease => u.node[n] \in {"RUNNING", "FAILED_FINAL"}
  BY <1>1 DEF Tidy
<1>4. \A n \in Node : u.node[n] = "FAILED_FINAL" => u.status[TaskOf[n]] \in Terminal
  BY <1>1, StructureAssumption DEF Tidy, Terminal
<1>5. \A x \in Resource : u.lock[x] # None => u.lease[u.lock[x]] # NoLease
  BY <1>1, <1>2 DEF Tidy
<1> QED BY <1>3, <1>4, <1>5 DEF Tidy, u

LEMMA AgedTidy == ASSUME NEW s \in State, Tidy(s) PROVE Tidy(Aged(s))
<1>1. /\ Aged(s).node = s.node /\ Aged(s).lock = s.lock /\ Aged(s).status = s.status
      /\ \A n \in Node : Aged(s).lease[n] = Dec(s.lease[n])
  BY DEF Aged, State
<1>2. \A n \in Node : Dec(s.lease[n]) = NoLease <=> s.lease[n] = NoLease
  BY BoundsAssumption DEF State, Dec, NoLease
<1>3. \A x \in Resource : s.lock[x] \in Node \union {None}
  BY DEF State
<1> QED BY <1>1, <1>2, <1>3 DEF Tidy

\* What a step leaves of a run: its copy tidy, its executions with one lock each.
RunFine(r) == Tidy(mem[r]) /\ RunTidy(r)

LEMMA RunFineSame ==
  ASSUME NEW r \in Runner, RunFine(r), mem'[r] = mem[r], pc'[r] # "approving",
         batch'[r] \subseteq batch[r],
         \A n \in Node : Busy(r, n)' => Busy(r, n) /\ job'[r][n].exec = job[r][n].exec
  PROVE  RunFine(r)'
  BY DEF RunFine, RunTidy, Tidy

LEMMA StartFine ==
  ASSUME Risky = {}, IInv, NEW r \in Runner, RunFine(r), NEW n \in Node, NEW e \in Executor,
         StartOrWait(r, n, e, mem[r]), n \in batch[r], batch'[r] = batch[r] \ {n},
         pc'[r] # "approving"
  PROVE  RunFine(r)'
<1>1. /\ TypeOK /\ mem[r] \in State /\ mem[r].node[n] = "READY" /\ ~ Busy(r, n)
      /\ Tidy(mem[r]) /\ RunTidy(r) /\ mem[r].status[TaskOf[n]] \notin Terminal
      /\ batch[r] \subseteq Node
  BY DEF IInv, TypeOK, RunOK, Pending, RunFine, RunTidy
<1>2. CASE /\ mem' = [mem EXCEPT ![r] = Acquire(mem[r], n, e)]
           /\ job' = [job EXCEPT ![r][n] = [at |-> "executing", exec |-> e]]
  <2> DEFINE u == Acquire(mem[r], n, e)
  <2>1. Tidy(u) /\ \A x \in Resource : u.lock[x] = n => x = ResourceFor(n, e)
    BY <1>1, AcquireTidy
  <2>2. /\ \A x \in Resource : u.lock[x] \in {n, mem[r].lock[x]}
        /\ \A m \in Node : u.status[TaskOf[m]] \in {"RUNNING", mem[r].status[TaskOf[m]]}
    BY <1>1, StructureAssumption DEF Acquire, State
  <2>3. mem'[r] = u
    BY <1>1, <1>2 DEF TypeOK
  <2>4. job'[r][n] = [at |-> "executing", exec |-> e] /\ \A m \in Node \ {n} : job'[r][m] = job[r][m]
    BY <1>1, <1>2 DEF TypeOK
  <2> HIDE DEF u
  <2>5. \A m \in batch'[r] : u.status[TaskOf[m]] \notin Terminal
    BY <1>1, <2>2 DEF RunTidy, Terminal
  <2>6. ASSUME NEW m \in Node, NEW x \in Resource, Busy(r, m)', u.lock[x] = m
        PROVE  x = ResourceFor(m, job'[r][m].exec)
    <3>1. CASE m = n
      BY <2>1, <2>4, <2>6, <3>1
    <3>2. CASE m # n
      BY <1>1, <2>2, <2>4, <2>6, <3>2 DEF RunTidy, Busy
    <3> QED BY <3>1, <3>2
  <2>7. Tidy(mem[r])'
    BY <2>1, <2>3 DEF Tidy
  <2> QED BY <2>3, <2>5, <2>6, <2>7 DEF RunFine, RunTidy
<1>3. CASE /\ mem' = [mem EXCEPT ![r] = SetNode(mem[r], n, "WAITING_RESOURCE")]
           /\ UNCHANGED job
  <2> DEFINE u == SetNode(mem[r], n, "WAITING_RESOURCE")
  <2>1. Tidy(u) /\ u.status = mem[r].status /\ u.lock = mem[r].lock /\ mem'[r] = u
    BY <1>1, <1>3, WaitTidy DEF SetNode, State, TypeOK
  <2> HIDE DEF u
  <2>2. Tidy(mem[r])'
    BY <2>1 DEF Tidy
  <2> QED BY <1>1, <1>3, <2>1, <2>2 DEF RunFine, RunTidy, Busy
<1> QED BY <1>2, <1>3 DEF StartOrWait

LEMMA WorkerFine ==
  ASSUME IInv, NEW r \in Runner, RunFine(r), NEW n \in Node, Worker(r, n) PROVE RunFine(r)'
<1>1. TypeOK /\ RunOK(r) /\ mem[r] \in State /\ Tidy(mem[r]) /\ RunTidy(r)
  BY DEF IInv, TypeOK, RunFine
<1>2. Busy(r, n) /\ InFlight(r, n) /\ job[r][n].exec \in Executor
  BY <1>1 DEF Worker, Executed, ExecuteFails, Verified, Buried, Busy, RunOK, InFlight
<1>3. pc'[r] # "approving" /\ batch'[r] = {}
  BY <1>1 DEF Worker, Executed, ExecuteFails, Verified, Buried, runVars, Awaiting, RunOK, RunTidy
<1>4. ASSUME NEW status \in NodeStatus, Finish(r, n, status),
             status = "FAILED_FINAL" => mem[r].node[n] = "FAILED_FINAL"
      PROVE  RunFine(r)'
  <2> DEFINE u == Settle(mem[r], n, job[r][n].exec, status)
  <2>1. mem'[r] = u /\ job'[r][n] = NoJob /\ \A m \in Node \ {n} : job'[r][m] = job[r][m]
    BY <1>1, <1>4 DEF TypeOK, Finish
  <2>2. \A x \in Resource : mem[r].lock[x] = n => x = ResourceFor(n, job[r][n].exec)
    BY <1>1, <1>2 DEF RunTidy
  <2>3. Tidy(u) /\ \A x \in Resource : u.lock[x] \in {mem[r].lock[x], None}
    BY <1>1, <1>2, <1>4, <2>2, SettleTidy
  <2> HIDE DEF u
  <2>4. Tidy(mem[r])'
    BY <2>1, <2>3 DEF Tidy
  <2>5. \A m \in Node, x \in Resource :
          Busy(r, m)' /\ mem'[r].lock[x] = m => x = ResourceFor(m, job'[r][m].exec)
    BY <1>1, <2>1, <2>3, StructureAssumption DEF RunTidy, Busy, NoJob
  <2> QED BY <1>3, <2>4, <2>5 DEF RunFine, RunTidy
<1>5. ASSUME NEW phase \in JobPhase, Advance(r, n, phase)
      PROVE  \A m \in Node : Busy(r, m)' => Busy(r, m) /\ job'[r][m].exec = job[r][m].exec
  BY <1>1, <1>2, <1>5, AdvanceType DEF Busy
<1>6. ASSUME Fail(r, n), job[r][n].at \in {"executing", "verifying"} PROVE RunFine(r)'
  <2>1. CASE mem' = [mem EXCEPT ![r] = Bury(@, n)] /\ Advance(r, n, "burying")
    <3>1. mem'[r] = Bury(mem[r], n)
      BY <1>1, <2>1 DEF TypeOK
    <3>2. Bury(mem[r], n).lock = mem[r].lock /\ Tidy(Bury(mem[r], n))
      BY <1>1, BuryTidy DEF Bury, State
    <3>3. Tidy(mem[r])'
      BY <3>1, <3>2 DEF Tidy
    <3>4. \A m \in Node : Busy(r, m)' => Busy(r, m) /\ job'[r][m].exec = job[r][m].exec
      BY <1>5, <2>1 DEF JobPhase
    <3> QED BY <1>1, <1>3, <3>1, <3>2, <3>3, <3>4 DEF RunFine, RunTidy
  <2>2. CASE Finish(r, n, "READY")
    BY <1>4, <2>2 DEF NodeStatus
  <2> QED BY <1>6, <2>1, <2>2 DEF Fail
<1>7. CASE Executed(r, n)
  <2>1. \A m \in Node : Busy(r, m)' => Busy(r, m) /\ job'[r][m].exec = job[r][m].exec
    BY <1>5, <1>7 DEF Executed, JobPhase
  <2>2. mem' = mem
    BY <1>7 DEF Executed
  <2> QED BY <1>3, <2>1, <2>2, RunFineSame
<1>8. CASE ExecuteFails(r, n)
  BY <1>6, <1>8 DEF ExecuteFails
<1>9. CASE Verified(r, n)
  BY <1>4, <1>6, <1>9 DEF Verified, NodeStatus, Terminal
<1>10. CASE Buried(r, n)
  BY <1>1, <1>4, <1>10 DEF Buried, State
<1> QED BY <1>7, <1>8, <1>9, <1>10 DEF Worker

LEMMA RunFineStep ==
  ASSUME Risky = {}, IInv, TidyInv, NEW r \in Runner, [Next]_vars PROVE RunFine(r)'
<1>1. TypeOK /\ RunOK(r) /\ RunFine(r) /\ mem[r] \in State /\ pc[r] # "approving"
  BY DEF IInv, TidyInv, TypeOK, RunFine, RunTidy
<1>2. ASSUME mem'[r] = mem[r], pc'[r] # "approving", batch'[r] \subseteq batch[r], job'[r] = job[r]
      PROVE  RunFine(r)'
  BY <1>1, <1>2, RunFineSame DEF Busy
<1>3. ASSUME Tidy(mem'[r]), pc'[r] # "approving", batch'[r] = {}, \A n \in Node : ~ Busy(r, n)'
      PROVE  RunFine(r)'
  <2>1. Tidy(mem[r])'
    BY <1>3 DEF Tidy
  <2> QED BY <1>3, <2>1 DEF RunFine, RunTidy
<1>4. ASSUME NEW q \in Runner, Load(q) PROVE RunFine(r)'
  <2>1. CASE q # r
    BY <1>1, <1>2, <1>4, <2>1 DEF TypeOK, Load
  <2>2. CASE q = r
    <3>1. mem'[r] = Refresh(Cleanup(disk), Task) /\ pc'[r] = "probing" /\ batch'[r] = {}
            /\ \A n \in Node : ~ Busy(r, n)'
      BY <1>1, <1>4, <2>2 DEF TypeOK, Load, RunOK, Busy
    <3>2. Cleanup(disk) \in State /\ Tidy(Cleanup(disk))
      BY <1>1, CleanupType, CleanupTidy DEF TypeOK, TidyInv
    <3>3. Tidy(mem'[r])
      BY <3>1, <3>2, RefreshTidy
    <3> QED BY <1>3, <3>1, <3>3
  <2> QED BY <2>1, <2>2
<1>5. ASSUME NEW q \in Runner, Probe(q) PROVE RunFine(r)'
  BY <1>1, <1>2, <1>5 DEF TypeOK, Probe
<1>6. ASSUME NEW q \in Runner, NEW t \in Task, EnterTask(q, t) PROVE RunFine(r)'
  <2>1. CASE q # r
    BY <1>1, <1>2, <1>6, <2>1 DEF TypeOK, EnterTask
  <2>2. CASE q = r
    <3>1. \A n \in batch'[r] : mem[r].status[TaskOf[n]] \notin Terminal
      BY <1>1, <1>6, <2>2 DEF TypeOK, EnterTask, NodesOf, Live
    <3>2. UNCHANGED <<mem, pc, job>>
      BY <1>6 DEF EnterTask
    <3> QED BY <1>1, <3>1, <3>2 DEF RunFine, RunTidy, Tidy, Busy
  <2> QED BY <2>1, <2>2
<1>7. ASSUME NEW q \in Runner, NEW n \in Node, Visit(q, n) PROVE RunFine(r)'
  <2>1. ~ NeedsApproval(mem[q], n)
    BY DEF NeedsApproval
  <2>2. CASE q # r
    BY <1>1, <1>2, <1>7, <2>1, <2>2 DEF TypeOK, Visit, StartOrWait
  <2>3. CASE q = r
    <3>1. n \in batch[r] /\ batch'[r] = batch[r] \ {n} /\ pc' = pc /\ mem[r].node[n] = "READY"
      BY <1>1, <1>7, <2>1, <2>3 DEF TypeOK, Visit, RunOK, Pending
    <3>2. CASE mem' = [mem EXCEPT ![r] = SetNode(@, n, "WAITING_RESOURCE")] /\ job' = job
      <4> DEFINE u == SetNode(mem[r], n, "WAITING_RESOURCE")
      <4>1. Tidy(u) /\ u.status = mem[r].status /\ u.lock = mem[r].lock /\ mem'[r] = u
        BY <1>1, <3>1, <3>2, WaitTidy DEF SetNode, State, TypeOK, RunFine
      <4> HIDE DEF u
      <4>2. Tidy(mem[r])'
        BY <4>1 DEF Tidy
      <4> QED BY <1>1, <3>1, <3>2, <4>1, <4>2 DEF RunFine, RunTidy, Busy
    <3>3. CASE \E e \in Routes(r, n) : StartOrWait(r, n, e, mem[r])
      <4>1. Routes(r, n) \subseteq Executor
        BY <1>1, StructureAssumption DEF Routes
      <4> QED BY <1>1, <3>1, <3>3, <4>1, StartFine
    <3> QED BY <1>7, <2>1, <2>3, <3>2, <3>3 DEF Visit
  <2> QED BY <2>2, <2>3
<1>8. ASSUME NEW q \in Runner, Answer(q) PROVE RunFine(r)'
  BY <1>8 DEF Answer, TidyInv, RunTidy
<1>9. ASSUME NEW q \in Runner, EndDispatch(q) \/ Serialize(q) \/ SaveStarted(q) PROVE RunFine(r)'
  BY <1>1, <1>2, <1>9 DEF TypeOK, EndDispatch, Serialize, SaveStarted
<1>10. ASSUME NEW q \in Runner, SaveFinished(q) \/ Crash(q) PROVE RunFine(r)'
  <2>1. CASE q # r
    BY <1>1, <1>2, <1>10, <2>1 DEF TypeOK, SaveFinished, Crash
  <2>2. CASE q = r
    <3>1. mem'[r] = EmptyState /\ pc'[r] = "idle" /\ batch'[r] = {} /\ \A n \in Node : ~ Busy(r, n)'
      BY <1>1, <1>10, <2>2 DEF TypeOK, SaveFinished, Crash, RunOK, Busy, NoJob
    <3> QED BY <1>3, <3>1, EmptyTidy
  <2> QED BY <2>1, <2>2
<1>11. ASSUME NEW q \in Runner, NEW n \in Node, Worker(q, n) PROVE RunFine(r)'
  <2>1. CASE q # r
    <3>1. mem'[r] = mem[r] /\ job'[r] = job[r]
      BY <1>1, <1>11, <2>1
      DEF TypeOK, Worker, Executed, ExecuteFails, Verified, Buried, Fail, Finish, Advance
    <3>2. UNCHANGED <<pc, batch>>
      BY <1>11 DEF Worker, Executed, ExecuteFails, Verified, Buried, runVars
    <3> QED BY <1>1, <1>2, <3>1, <3>2
  <2> QED BY <1>1, <1>11, <2>1, WorkerFine
<1>12. ASSUME NEW c \in Client, ClientSave(c) \/ \E t \in Task : Submit(c, t) \/ Cancel(c, t)
       PROVE  RunFine(r)'
  BY <1>1, <1>2, <1>12 DEF ClientSave, Submit, Cancel, runVars
<1>13. CASE Tick
  <2>1. mem'[r] = Aged(mem[r]) /\ UNCHANGED <<pc, batch, job>>
    BY <1>13 DEF Tick
  <2>2. Tidy(Aged(mem[r])) /\ Aged(mem[r]).lock = mem[r].lock /\ Aged(mem[r]).status = mem[r].status
    BY <1>1, AgedTidy DEF RunFine, Aged, State
  <2>3. Tidy(mem[r])'
    BY <2>1, <2>2 DEF Tidy
  <2> QED BY <1>1, <2>1, <2>2, <2>3 DEF RunFine, RunTidy, Busy
<1>14. CASE UNCHANGED vars
  BY <1>1, <1>2, <1>14 DEF vars
<1> QED BY <1>4, <1>5, <1>6, <1>7, <1>8, <1>9, <1>10, <1>11, <1>12, <1>13, <1>14 DEF Next, Dispatch

LEMMA TidyStep == ASSUME Risky = {}, IInv, TidyInv, [Next]_vars PROVE TidyInv'
<1>1. TypeOK /\ disk \in State /\ (\A r \in Runner : mem[r] \in State /\ image[r] \in State)
        /\ \A c \in Client : cmem[c] \in State
  BY DEF IInv, TypeOK
<1>2. \A r \in Runner : RunFine(r)'
  BY RunFineStep
<1>3. Tidy(EmptyState) /\ Tidy(disk) /\ \A r \in Runner : Tidy(mem[r])
  BY EmptyTidy DEF TidyInv
<1>4. ASSUME Tidy(disk'), \A r \in Runner : Tidy(image'[r]), \A c \in Client : Tidy(cmem'[c])
      PROVE  TidyInv'
  BY <1>2, <1>4 DEF TidyInv, RunFine, Tidy
<1>5. ASSUME disk' = disk, image' = image, cmem' = cmem PROVE TidyInv'
  BY <1>4, <1>5 DEF TidyInv
<1>6. ASSUME NEW r \in Runner, Load(r) \/ Probe(r) \/ EndDispatch(r) \/ Answer(r) PROVE TidyInv'
  BY <1>5, <1>6 DEF Load, Probe, EndDispatch, Answer
<1>7. ASSUME NEW r \in Runner, (\E t \in Task : EnterTask(r, t)) \/ (\E n \in Node : Visit(r, n)) PROVE TidyInv'
  BY <1>5, <1>7 DEF EnterTask, Visit
<1>8. ASSUME NEW r \in Runner, Serialize(r) PROVE TidyInv'
  <2>1. \A q \in Runner : image'[q] = IF q = r THEN mem[r] ELSE image[q]
    BY <1>1, <1>8 DEF TypeOK, Serialize
  <2> QED BY <1>3, <1>4, <1>8, <2>1 DEF TidyInv, Serialize
<1>9. ASSUME NEW r \in Runner, SaveStarted(r) PROVE TidyInv'
  <2>1. \A q \in Runner : image'[q] = IF q = r THEN EmptyState ELSE image[q]
    BY <1>1, <1>9 DEF TypeOK, SaveStarted
  <2> QED BY <1>3, <1>4, <1>9, <2>1 DEF TidyInv, SaveStarted
<1>10. ASSUME NEW r \in Runner, SaveFinished(r) PROVE TidyInv'
  BY <1>3, <1>4, <1>10 DEF TidyInv, SaveFinished
<1>11. ASSUME NEW r \in Runner, Crash(r) PROVE TidyInv'
  <2>1. \A q \in Runner : image'[q] = IF q = r THEN EmptyState ELSE image[q]
    BY <1>1, <1>11 DEF TypeOK, Crash
  <2> QED BY <1>3, <1>4, <1>11, <2>1 DEF TidyInv, Crash
<1>12. ASSUME NEW r \in Runner, NEW n \in Node, Worker(r, n) PROVE TidyInv'
  BY <1>5, <1>12 DEF Worker, Executed, ExecuteFails, Verified, Buried, runVars
<1>13. ASSUME NEW c \in Client, NEW t \in Task, Submit(c, t) PROVE TidyInv'
  <2> DEFINE s == Cleanup(disk)
  <2>1. s \in State /\ Tidy(s)
    BY <1>1, <1>3, CleanupType, CleanupTidy
  <2>2. ~ Submitted(s, t)
    BY <1>13 DEF Submit, Submittable
  <2> HIDE DEF s
  <2>3. Tidy(SubmitIn(s, t))
    BY <2>1, <2>2, SubmitTidy
  <2>4. \A d \in Client : cmem'[d] = IF d = c THEN SubmitIn(s, t) ELSE cmem[d]
    BY <1>1, <1>13 DEF TypeOK, Submit, s
  <2> QED BY <1>4, <1>13, <2>3, <2>4 DEF TidyInv, Submit, runVars
<1>14. ASSUME NEW c \in Client, NEW t \in Task, Cancel(c, t) PROVE TidyInv'
  <2>1. Tidy(CancelIn(disk, t))
    BY <1>1, <1>3, CancelTidy
  <2>2. \A d \in Client : cmem'[d] = IF d = c THEN CancelIn(disk, t) ELSE cmem[d]
    BY <1>1, <1>14 DEF TypeOK, Cancel
  <2> QED BY <1>4, <1>14, <2>1, <2>2 DEF TidyInv, Cancel, runVars
<1>15. ASSUME NEW c \in Client, ClientSave(c) PROVE TidyInv'
  <2>1. Tidy(cmem[c])
    BY DEF TidyInv
  <2>2. \A d \in Client : cmem'[d] = IF d = c THEN EmptyState ELSE cmem[d]
    BY <1>1, <1>15 DEF TypeOK, ClientSave
  <2> QED BY <1>3, <1>4, <1>15, <2>1, <2>2 DEF TidyInv, ClientSave, runVars
<1>16. CASE Tick
  <2>1. \A s \in State : Tidy(s) => Tidy(Aged(s))
    BY AgedTidy
  <2> QED BY <1>1, <1>4, <1>16, <2>1 DEF TidyInv, Tick
<1>17. CASE UNCHANGED vars
  BY <1>5, <1>17 DEF vars
<1> QED
  BY <1>6, <1>7, <1>8, <1>9, <1>10, <1>11, <1>12, <1>13, <1>14, <1>15, <1>16, <1>17 DEF Next, Dispatch

LEMMA InitTidy == Init => TidyInv
  BY EmptyTidy DEF Init, TidyInv, RunTidy, Busy, NoJob

\* Where no node asks for an approval, no copy holds a lock of a node without a
\* lease, which nothing would release (scheduler.mjs 21-25, 46-58), and one
\* unfinished task per key, whatever overlaps and crashes.  With approvals the
\* first half is false; see RunTidy.
THEOREM CopiesStaySound == ASSUME Risky = {} PROVE Spec => []CopiesAreSound
<1>1. TidyInv => LocksAreBacked
  BY DEF TidyInv, Tidy, LocksAreBacked, Copies
<1>2. IInv /\ TidyInv /\ [Next]_vars => TidyInv'
  BY TidyStep
<1>3. UniqueLiveKey /\ LocksAreBacked => CopiesAreSound
  BY DEF CopiesAreSound
<1> QED BY <1>1, <1>2, <1>3, InitTidy, KeysStayUnique, Invariance, PTL DEF Spec

-----------------------------------------------------------------------------
(* Operations one after another: while one is under way, no other begins.      *)

Serial ==
  /\ \A q, r \in Runner : pc[q] # "idle" /\ pc[r] # "idle" => q = r
  /\ \A c, d \in Client : cpc[c] # "idle" /\ cpc[d] # "idle" => c = d
  /\ \A r \in Runner, c \in Client : pc[r] = "idle" \/ cpc[c] = "idle"

\* Who begins finds everything idle; nobody else leaves "idle".
Begins ==
  /\ \A r \in Runner : pc[r] = "idle" /\ pc'[r] # "idle" => AllIdle /\ Load(r)
  /\ \A c \in Client : cpc[c] = "idle" /\ cpc'[c] # "idle" => AllIdle /\ \E t \in Task : Submit(c, t) \/ Cancel(c, t)
  /\ (\E c \in Client : cpc'[c] # cpc[c]) => UNCHANGED <<mem, job, runVars>>
  /\ (\E r \in Runner : pc'[r] # pc[r]) => cpc' = cpc

LEMMA BeginsStep == ASSUME Overlap = FALSE, TypeOK, [Next]_vars PROVE Begins
<1>1. ASSUME pc' = pc, cpc' = cpc PROVE Begins
  BY <1>1 DEF Begins
<1>2. ASSUME NEW r \in Runner, Load(r) PROVE Begins
  <2>1. AllIdle /\ cpc' = cpc /\ \A q \in Runner \ {r} : pc'[q] = pc[q]
    BY <1>2 DEF Load, TypeOK
  <2> QED BY <1>2, <2>1 DEF Begins
<1>3. ASSUME NEW r \in Runner, cpc' = cpc, pc[r] # "idle", \A q \in Runner \ {r} : pc'[q] = pc[q] PROVE Begins
  BY <1>3 DEF Begins
<1>4. ASSUME NEW r \in Runner, Probe(r) \/ EndDispatch(r) \/ Serialize(r) \/ SaveStarted(r)
               \/ SaveFinished(r) \/ Answer(r) \/ Crash(r) PROVE Begins
  <2>1. cpc' = cpc /\ pc[r] # "idle" /\ \A q \in Runner \ {r} : pc'[q] = pc[q]
    BY <1>4 DEF TypeOK, Probe, EndDispatch, Serialize, SaveStarted, SaveFinished, Answer, Crash
  <2> QED BY <1>3, <2>1
<1>5. ASSUME NEW r \in Runner, NEW t \in Task, EnterTask(r, t) PROVE Begins
  BY <1>1, <1>5 DEF EnterTask
<1>6. ASSUME NEW r \in Runner, NEW n \in Node, Visit(r, n) PROVE Begins
  <2>1. cpc' = cpc /\ pc[r] # "idle" /\ \A q \in Runner \ {r} : pc'[q] = pc[q]
    BY <1>6 DEF TypeOK, Visit, Dispatching
  <2> QED BY <1>3, <2>1
<1>7. ASSUME NEW r \in Runner, NEW n \in Node, Worker(r, n) PROVE Begins
  BY <1>1, <1>7 DEF Worker, Executed, ExecuteFails, Verified, Buried, runVars
<1>8. ASSUME NEW c \in Client, NEW t \in Task, Submit(c, t) \/ Cancel(c, t) PROVE Begins
  <2>1. /\ AllIdle /\ UNCHANGED <<mem, job, runVars>> /\ pc' = pc
        /\ \A d \in Client \ {c} : cpc'[d] = cpc[d]
    BY <1>8 DEF Submit, Cancel, TypeOK, runVars
  <2> QED BY <1>8, <2>1 DEF Begins
<1>9. ASSUME NEW c \in Client, ClientSave(c) PROVE Begins
  <2>1. /\ UNCHANGED <<mem, job, runVars>> /\ pc' = pc /\ cpc[c] # "idle"
        /\ \A d \in Client \ {c} : cpc'[d] = cpc[d]
    BY <1>9 DEF ClientSave, TypeOK, runVars
  <2> QED BY <2>1 DEF Begins
<1>10. CASE Tick \/ UNCHANGED vars
  BY <1>1, <1>10 DEF Tick, vars
<1> QED
  BY <1>2, <1>4, <1>5, <1>6, <1>7, <1>8, <1>9, <1>10 DEF Next, Dispatch

LEMMA SerialStep == ASSUME Overlap = FALSE, TypeOK, Serial, [Next]_vars PROVE Serial'
<1>1. Begins
  BY BeginsStep
<1>2. /\ \A r \in Runner : pc'[r] # "idle" => pc[r] # "idle" \/ AllIdle
      /\ \A c \in Client : cpc'[c] # "idle" => cpc[c] # "idle" \/ AllIdle
  BY <1>1 DEF Begins
<1>3. CASE ~ AllIdle
  BY <1>2, <1>3 DEF Serial
<1>4. CASE AllIdle
  <2>1. \A q, r \in Runner : pc'[q] # "idle" /\ pc'[r] # "idle" => q = r
    <3> SUFFICES ASSUME NEW q \in Runner, NEW r \in Runner, pc'[q] # "idle", pc'[r] # "idle" PROVE q = r
      OBVIOUS
    <3>1. Load(q)
      BY <1>1, <1>4 DEF Begins, AllIdle
    <3> QED BY <1>4, <3>1 DEF Load, AllIdle, TypeOK
  <2>2. \A c, d \in Client : cpc'[c] # "idle" /\ cpc'[d] # "idle" => c = d
    <3> SUFFICES ASSUME NEW c \in Client, NEW d \in Client, cpc'[c] # "idle", cpc'[d] # "idle" PROVE c = d
      OBVIOUS
    <3>1. \E t \in Task : Submit(c, t) \/ Cancel(c, t)
      BY <1>1, <1>4 DEF Begins, AllIdle
    <3> QED BY <1>4, <3>1 DEF Submit, Cancel, AllIdle, TypeOK
  <2>3. \A r \in Runner, c \in Client : pc'[r] = "idle" \/ cpc'[c] = "idle"
    BY <1>1, <1>4 DEF Begins, AllIdle
  <2> QED BY <2>1, <2>2, <2>3 DEF Serial
<1> QED BY <1>3, <1>4

LEMMA InitSerial == Init => Serial
  BY DEF Init, Serial

-----------------------------------------------------------------------------
(* A finished task stays finished.  What a run or a client saves follows what   *)
(* it read: terminal statuses are kept, since a run starts only nodes of tasks   *)
(* that were unfinished in the file, and no task of a node in execution is        *)
(* terminal but by FAILED_FINAL, which a second node given up repeats.            *)

Follow(s, u) == \A t \in Task : s.status[t] \in Terminal => u.status[t] = s.status[t]

RunFollow(r) ==
  /\ pc[r] # "idle" => Follow(disk, mem[r])
  /\ pc[r] = "writing" => Follow(disk, image[r]) /\ Follow(image[r], mem[r])
  /\ \A t \in Reviving(r) : disk.status[t] \notin Terminal
  /\ \A n \in Node : Busy(r, n) => mem[r].status[TaskOf[n]] \notin {"DONE", "BLOCKED", "CANCELLED"}

ClientFollow(c) ==
  cpc[c] = "saving" =>
    \A t \in Task : disk.status[t] \in Terminal =>
                      cmem[c].status[t] \in {disk.status[t], "CANCELLED"}

FollowInv ==
  /\ Serial
  /\ \A r \in Runner : RunFollow(r)
  /\ \A c \in Client : ClientFollow(c)

LEMMA FollowTwice ==
  ASSUME NEW s, NEW u, NEW v, Follow(s, u), Follow(u, v) PROVE Follow(s, v)
  BY DEF Follow

LEMMA KeepsFollow == ASSUME NEW s, NEW u, Keeps(s, u) PROVE Follow(s, u)
  BY DEF Keeps, Follow, Unfinished

\* The status a refresh gives a task: DONE only if all its nodes are.
LEMMA SettleStatus ==
  ASSUME NEW s \in State, NEW n \in Node, NEW e \in Executor, NEW status \in NodeStatus,
         NEW m \in Node
  PROVE  \/ Settle(s, n, e, status).status[TaskOf[m]] = s.status[TaskOf[m]]
         \/ Settle(s, n, e, status).status[TaskOf[m]] \in {"RUNNING", "APPROVAL_REQUIRED", "QUEUED"}
         \/ Settle(s, n, e, status).node[m] = "DONE"
<1> DEFINE u == SetNode(s, n, status)
           v == Release(u, n, e)
           t == TaskOf[m]
<1>1. u \in State /\ v \in State /\ t \in Task
  BY SetNodeType, ReleaseType, StructureAssumption
<1>2. v.status = s.status
  BY <1>1, SameStatus
<1> HIDE DEF u, v
<1> DEFINE w == Refresh(v, {TaskOf[n]})
<1>3. w.status[t] = v.status[t] \/ w.status[t] = DerivedStatus(w.node, t)
  BY <1>1 DEF Refresh, State
<1>4. DerivedStatus(w.node, t) \in {"RUNNING", "APPROVAL_REQUIRED", "QUEUED"} \/ w.node[m] = "DONE"
  BY DEF DerivedStatus, NodesOf
<1>5. Settle(s, n, e, status) = w
  BY DEF Settle, u, v
<1> QED BY <1>2, <1>3, <1>4, <1>5

\* A run that is idle, or that a step only ages, keeps what is said of it.
LEMMA IdleFollow ==
  ASSUME NEW r \in Runner, RunOK(r)', pc'[r] = "idle" PROVE RunFollow(r)'
<1>1. Reviving(r)' = {}
  BY DEF RunOK, Reviving
<1>2. \A n \in Node : ~ Busy(r, n)'
  BY DEF RunOK
<1> QED BY <1>1, <1>2 DEF RunFollow

LEMMA WorkerFollow ==
  ASSUME IInv, IInv', NEW r \in Runner, RunFollow(r), NEW n \in Node, Worker(r, n)
  PROVE  RunFollow(r)'
<1>1. TypeOK /\ RunOK(r) /\ mem[r] \in State /\ RunOK(r)'
  BY DEF IInv, TypeOK
<1>2. Busy(r, n) /\ InFlight(r, n) /\ job[r][n].exec \in Executor /\ TaskOf[n] \in Task /\ pc[r] # "idle"
  BY <1>1, StructureAssumption
  DEF Worker, Executed, ExecuteFails, Verified, Buried, Busy, RunOK, InFlight, Awaiting
<1>3. UNCHANGED <<disk, image, pc, batch, ask>> /\ Reviving(r)' = Reviving(r)
  BY DEF Worker, Executed, ExecuteFails, Verified, Buried, runVars, Reviving
<1>4. ASSUME Follow(mem[r], mem'[r]),
             \A m \in Node : Busy(r, m)' => mem'[r].status[TaskOf[m]] \notin {"DONE", "BLOCKED", "CANCELLED"}
      PROVE  RunFollow(r)'
  <2>1. Follow(disk, mem'[r])
    BY <1>2, <1>4, FollowTwice DEF RunFollow
  <2>2. pc[r] = "writing" => Follow(disk, image[r]) /\ Follow(image[r], mem'[r])
    BY <1>4, FollowTwice DEF RunFollow
  <2> QED BY <1>3, <1>4, <2>1, <2>2 DEF RunFollow, Follow
<1>5. ASSUME NEW status \in NodeStatus, Finish(r, n, status) PROVE RunFollow(r)'
  <2> DEFINE u == Settle(mem[r], n, job[r][n].exec, status)
  <2>1. mem'[r] = u /\ job'[r][n] = NoJob /\ \A m \in Node \ {n} : job'[r][m] = job[r][m]
    BY <1>1, <1>5 DEF TypeOK, Finish
  <2>2. Follow(mem[r], u)
    BY <1>1, <1>2, SettleKeeps, KeepsFollow
  <2>3. \A m \in Node : \/ u.status[TaskOf[m]] = mem[r].status[TaskOf[m]]
                        \/ u.status[TaskOf[m]] \in {"RUNNING", "APPROVAL_REQUIRED", "QUEUED"}
                        \/ u.node[m] = "DONE"
    BY <1>1, <1>2, SettleStatus
  <2> HIDE DEF u
  <2>4. ASSUME NEW m \in Node, Busy(r, m)'
        PROVE  u.status[TaskOf[m]] \notin {"DONE", "BLOCKED", "CANCELLED"}
    <3>1. Busy(r, m)
      BY <2>1, <2>4 DEF Busy, NoJob
    <3>2. InFlight(r, m)' /\ job'[r][m].at \in JobPhase
      BY <1>1, <2>4 DEF RunOK, IInv, TypeOK
    <3>3. u.node[m] # "DONE"
      BY <2>1, <2>4, <3>2 DEF InFlight, Busy, JobPhase
    <3> QED BY <2>3, <3>1, <3>3 DEF RunFollow
  <2> QED BY <1>4, <2>1, <2>2, <2>4
<1>6. ASSUME NEW phase \in JobPhase, Advance(r, n, phase)
      PROVE  \A m \in Node : Busy(r, m)' => Busy(r, m)
  BY <1>1, <1>2, <1>6, AdvanceType DEF Busy
<1>7. ASSUME Fail(r, n) PROVE RunFollow(r)'
  <2>1. CASE mem' = [mem EXCEPT ![r] = Bury(@, n)] /\ Advance(r, n, "burying")
    <3> DEFINE u == Bury(mem[r], n)
    <3>1. mem'[r] = u
      BY <1>1, <2>1 DEF TypeOK
    <3>2. \A t \in Task : u.status[t] = IF t = TaskOf[n] THEN "FAILED_FINAL" ELSE mem[r].status[t]
      BY <1>1, OneStatus
    <3> HIDE DEF u
    <3>3. Follow(mem[r], u)
      BY <1>2, <3>2 DEF Follow, RunFollow, Terminal
    <3>4. \A m \in Node : Busy(r, m)' => u.status[TaskOf[m]] \notin {"DONE", "BLOCKED", "CANCELLED"}
      BY <1>6, <2>1, <3>2, StructureAssumption DEF RunFollow, JobPhase
    <3> QED BY <1>4, <3>1, <3>3, <3>4
  <2>2. CASE Finish(r, n, "READY")
    BY <1>5, <2>2 DEF NodeStatus
  <2> QED BY <1>7, <2>1, <2>2 DEF Fail
<1>8. CASE Executed(r, n)
  <2>1. \A m \in Node : Busy(r, m)' => Busy(r, m)
    BY <1>6, <1>8 DEF Executed, JobPhase
  <2>2. mem' = mem
    BY <1>8 DEF Executed
  <2> QED BY <1>4, <2>1, <2>2 DEF Follow, RunFollow
<1>9. CASE ExecuteFails(r, n)
  BY <1>7, <1>9 DEF ExecuteFails
<1>10. CASE Verified(r, n)
  BY <1>5, <1>7, <1>10 DEF Verified, NodeStatus, Terminal
<1>11. CASE Buried(r, n)
  BY <1>1, <1>5, <1>11 DEF Buried, State
<1> QED BY <1>8, <1>9, <1>10, <1>11 DEF Worker

LEMMA StartFollow ==
  ASSUME IInv, NEW r \in Runner, RunFollow(r), NEW n \in Node, NEW e \in Executor,
         NEW s \in State, s.status = mem[r].status, StartOrWait(r, n, e, s),
         TaskOf[n] \in Reviving(r), Reviving(r)' \subseteq Reviving(r), disk' = disk,
         pc[r] \in {"dispatch", "approving"}, pc'[r] = "dispatch"
  PROVE  RunFollow(r)'
<1>1. TypeOK /\ Follow(disk, mem[r])
  BY DEF IInv, RunFollow
<1>2. CASE /\ mem' = [mem EXCEPT ![r] = Acquire(s, n, e)]
           /\ job' = [job EXCEPT ![r][n] = [at |-> "executing", exec |-> e]]
  <2> DEFINE u == Acquire(s, n, e)
  <2>1. mem'[r] = u /\ \A m \in Node \ {n} : job'[r][m] = job[r][m]
    BY <1>1, <1>2 DEF TypeOK
  <2>2. \A t \in Task : u.status[t] = IF t = TaskOf[n] THEN "RUNNING" ELSE mem[r].status[t]
    BY OneStatus
  <2> HIDE DEF u
  <2>3. Follow(disk, u)
    BY <1>1, <2>2 DEF Follow, RunFollow
  <2>4. \A m \in Node : Busy(r, m)' => u.status[TaskOf[m]] \notin {"DONE", "BLOCKED", "CANCELLED"}
    BY <2>1, <2>2, StructureAssumption DEF RunFollow, Busy
  <2> QED BY <2>1, <2>3, <2>4 DEF RunFollow, Follow
<1>3. CASE mem' = [mem EXCEPT ![r] = SetNode(s, n, "WAITING_RESOURCE")] /\ UNCHANGED job
  <2> DEFINE u == SetNode(s, n, "WAITING_RESOURCE")
  <2>1. u.status = s.status
    BY SameStatus
  <2> HIDE DEF u
  <2>2. mem'[r] = u
    BY <1>1, <1>3 DEF TypeOK, u
  <2>3. mem'[r].status = mem[r].status
    BY <2>1, <2>2
  <2> QED BY <1>1, <1>3, <2>3 DEF RunFollow, Follow, Busy
<1> QED BY <1>2, <1>3 DEF StartOrWait

\* A step of the run in progress: the other runs and the clients are idle.
LEMMA RunActs ==
  ASSUME Serial, IInv', NEW r \in Runner, pc[r] # "idle" \/ AllIdle, RunFollow(r)',
         cpc' = cpc, \A q \in Runner \ {r} : pc'[q] = pc[q], Serial'
  PROVE  FollowInv'
<1>1. \A q \in Runner \ {r} : pc'[q] = "idle"
  BY DEF Serial, AllIdle
<1>2. \A q \in Runner \ {r} : RunFollow(q)'
  BY <1>1, IdleFollow DEF IInv
<1>3. \A c \in Client : cpc[c] = "idle"
  BY DEF Serial, AllIdle
<1> QED BY <1>2, <1>3 DEF FollowInv, ClientFollow

\* A step of a client: the runs are idle.
LEMMA ClientActs ==
  ASSUME Serial, IInv', NEW c \in Client, cpc[c] # "idle" \/ AllIdle, ClientFollow(c)',
         pc' = pc, \A d \in Client \ {c} : cpc'[d] = cpc[d], Serial'
  PROVE  FollowInv'
<1>1. \A r \in Runner : pc'[r] = "idle"
  BY DEF Serial, AllIdle
<1>2. \A r \in Runner : RunFollow(r)'
  BY <1>1, IdleFollow DEF IInv
<1>3. \A d \in Client \ {c} : cpc[d] = "idle"
  BY DEF Serial, AllIdle
<1> QED BY <1>2, <1>3 DEF FollowInv, ClientFollow

LEMMA FollowStep ==
  ASSUME Overlap = FALSE, IInv, IInv', FollowInv, [Next]_vars PROVE FollowInv'
<1>1. /\ TypeOK /\ disk \in State /\ (\A r \in Runner : mem[r] \in State /\ image[r] \in State /\ RunOK(r) /\ RunFollow(r))
      /\ (\A c \in Client : cmem[c] \in State /\ ClientFollow(c))
      /\ Serial /\ Serial'
  BY SerialStep DEF IInv, TypeOK, FollowInv
<1>2. ASSUME NEW r \in Runner, Load(r) PROVE FollowInv'
  <2>1. /\ mem'[r] = Refresh(Cleanup(disk), Task) /\ pc'[r] = "probing" /\ cpc' = cpc /\ disk' = disk
        /\ (\A q \in Runner \ {r} : pc'[q] = pc[q]) /\ AllIdle
    BY <1>1, <1>2 DEF Load, TypeOK
  <2>2. Follow(disk, mem'[r])
    BY <1>1, <2>1, LoadKeeps, KeepsFollow
  <2>3. batch'[r] = {} /\ \A n \in Node : ~ Busy(r, n)'
    BY <2>1 DEF IInv, RunOK
  <2>4. Reviving(r)' = {}
    BY <2>1, <2>3 DEF Reviving
  <2>5. RunFollow(r)'
    BY <2>1, <2>2, <2>3, <2>4 DEF RunFollow, Follow
  <2> QED BY <1>1, <2>1, <2>5, RunActs
<1>3. ASSUME NEW r \in Runner, Probe(r) \/ EndDispatch(r) PROVE FollowInv'
  <2>1. /\ pc[r] # "idle" /\ cpc' = cpc /\ \A q \in Runner \ {r} : pc'[q] = pc[q]
        /\ UNCHANGED <<disk, mem, image, job>>
        /\ pc'[r] \notin {"approving", "writing"} /\ batch'[r] \subseteq batch[r]
    BY <1>1, <1>3 DEF Probe, EndDispatch, TypeOK
  <2>2. Reviving(r)' \subseteq Reviving(r)
    BY <2>1 DEF Reviving
  <2>3. RunFollow(r)'
    BY <1>1, <2>1, <2>2 DEF RunFollow, Follow, Busy
  <2> QED BY <1>1, <2>1, <2>3, RunActs
<1>4. ASSUME NEW r \in Runner, NEW t \in Task, EnterTask(r, t) PROVE FollowInv'
  <2>1. /\ pc[r] = "dispatch" /\ cpc' = cpc /\ pc' = pc /\ UNCHANGED <<disk, mem, image, job>>
    BY <1>4 DEF EnterTask, Dispatching
  <2>2. \A n \in batch'[r] : Live(mem[r], t) /\ TaskOf[n] = t
    BY <1>1, <1>4 DEF TypeOK, EnterTask, NodesOf
  <2>3. \A u \in Reviving(r)' : disk.status[u] \notin Terminal
    BY <1>1, <2>1, <2>2 DEF Reviving, RunFollow, Follow, Live
  <2>4. RunFollow(r)'
    BY <1>1, <2>1, <2>3 DEF RunFollow, Follow, Busy
  <2> QED BY <1>1, <2>1, <2>4, RunActs
<1>5. ASSUME NEW r \in Runner, NEW n \in Node, Visit(r, n) PROVE FollowInv'
  <2>1. /\ pc[r] = "dispatch" /\ cpc' = cpc /\ (\A q \in Runner \ {r} : pc'[q] = pc[q])
        /\ n \in batch[r] /\ batch'[r] = batch[r] \ {n} /\ TaskOf[n] \in Reviving(r) /\ disk' = disk
    BY <1>1, <1>5 DEF Visit, Dispatching, TypeOK, Reviving
  <2>2. CASE mem' = [mem EXCEPT ![r] = SetNode(@, n, "WAITING_RESOURCE")] /\ UNCHANGED <<pc, job>>
    <3>1. mem'[r].status = mem[r].status
      BY <1>1, <2>2 DEF TypeOK, SetNode, State
    <3>2. Reviving(r)' \subseteq Reviving(r)
      BY <2>1, <2>2 DEF Reviving
    <3>3. RunFollow(r)'
      BY <1>1, <2>1, <2>2, <3>1, <3>2 DEF RunFollow, Follow, Busy
    <3> QED BY <1>1, <2>1, <3>3, RunActs
  <2>3. CASE mem' = mem /\ job' = job /\ pc' = [pc EXCEPT ![r] = "approving"]
             /\ \E e \in Routes(r, n) : ask' = [ask EXCEPT ![r] = [node |-> n, exec |-> e]]
    <3>1. ask'[r].node = n /\ pc'[r] = "approving"
      BY <1>1, <2>3 DEF TypeOK
    <3>2. Reviving(r)' \subseteq Reviving(r)
      BY <2>1, <3>1 DEF Reviving
    <3>3. RunFollow(r)'
      BY <1>1, <2>1, <2>3, <3>1, <3>2 DEF RunFollow, Follow, Busy
    <3> QED BY <1>1, <2>1, <3>3, RunActs
  <2>4. CASE UNCHANGED pc /\ \E e \in Routes(r, n) : StartOrWait(r, n, e, mem[r])
    <3>1. Reviving(r)' \subseteq Reviving(r)
      BY <2>1, <2>4 DEF Reviving
    <3>2. Routes(r, n) \subseteq Executor
      BY <1>1, StructureAssumption DEF Routes
    <3>3. RunFollow(r)'
      BY <1>1, <2>1, <2>4, <3>1, <3>2, StartFollow
    <3> QED BY <1>1, <2>1, <3>3, RunActs
  <2> QED BY <1>5, <2>2, <2>3, <2>4 DEF Visit
<1>6. ASSUME NEW r \in Runner, Answer(r) PROVE FollowInv'
  <2> DEFINE n == ask[r].node
  <2>1. /\ pc[r] = "approving" /\ cpc' = cpc /\ (\A q \in Runner \ {r} : pc'[q] = pc[q]) /\ disk' = disk
        /\ n \in Node /\ ask[r].exec \in Executor /\ TaskOf[n] \in Reviving(r) /\ pc'[r] = "dispatch"
        /\ batch' = batch
    BY <1>1, <1>6 DEF Answer, TypeOK, RunOK, Reviving
  <2>2. Reviving(r)' \subseteq Reviving(r)
    BY <2>1 DEF Reviving
  <2>3. CASE mem' = [mem EXCEPT ![r] = Deny(@, n)] /\ UNCHANGED job
    <3>1. mem'[r] = Deny(mem[r], n)
      BY <1>1, <2>3 DEF TypeOK
    <3>2. \A t \in Task : mem'[r].status[t] = IF t = TaskOf[n] THEN "APPROVAL_REQUIRED" ELSE mem[r].status[t]
      BY <1>1, <2>1, <3>1, OneStatus
    <3>3. Follow(disk, mem'[r])
      BY <1>1, <2>1, <3>2 DEF Follow, RunFollow
    <3>4. \A m \in Node : Busy(r, m)' => mem'[r].status[TaskOf[m]] \notin {"DONE", "BLOCKED", "CANCELLED"}
      BY <1>1, <2>3, <3>2, StructureAssumption DEF RunFollow, Busy
    <3>5. RunFollow(r)'
      BY <1>1, <2>1, <2>2, <3>3, <3>4 DEF RunFollow, Follow
    <3> QED BY <1>1, <2>1, <3>5, RunActs
  <2>4. CASE StartOrWait(r, n, ask[r].exec, Grant(mem[r], n))
    <3>1. Grant(mem[r], n) \in State /\ Grant(mem[r], n).status = mem[r].status
      BY <1>1, <2>1, GrantDenyType, SameStatus
    <3>2. RunFollow(r)'
      BY <1>1, <2>1, <2>2, <2>4, <3>1, StartFollow
    <3> QED BY <1>1, <2>1, <3>2, RunActs
  <2> QED BY <1>6, <2>3, <2>4 DEF Answer
<1>7. ASSUME NEW r \in Runner, Serialize(r) PROVE FollowInv'
  <2>1. /\ pc[r] = "saving" /\ cpc' = cpc /\ (\A q \in Runner \ {r} : pc'[q] = pc[q])
        /\ UNCHANGED <<disk, mem, job, batch>> /\ pc'[r] = "writing" /\ image'[r] = mem[r]
    BY <1>1, <1>7 DEF Serialize, TypeOK
  <2>2. Reviving(r)' \subseteq Reviving(r)
    BY <2>1 DEF Reviving
  <2>3. RunFollow(r)'
    BY <1>1, <2>1, <2>2 DEF RunFollow, Follow, Busy
  <2> QED BY <1>1, <2>1, <2>3, RunActs
<1>8. ASSUME NEW r \in Runner, SaveStarted(r) PROVE FollowInv'
  <2>1. /\ pc[r] = "writing" /\ cpc' = cpc /\ (\A q \in Runner \ {r} : pc'[q] = pc[q])
        /\ UNCHANGED <<mem, job, batch>> /\ pc'[r] = "waiting" /\ disk' = image[r]
    BY <1>1, <1>8 DEF SaveStarted, TypeOK
  <2>2. Reviving(r)' = {}
    BY <1>1, <2>1 DEF Reviving, RunOK
  <2>3. RunFollow(r)'
    BY <1>1, <2>1, <2>2 DEF RunFollow, Follow, Busy
  <2> QED BY <1>1, <2>1, <2>3, RunActs
<1>9. ASSUME NEW r \in Runner, SaveFinished(r) \/ Crash(r) PROVE FollowInv'
  <2>1. /\ pc[r] # "idle" /\ cpc' = cpc /\ (\A q \in Runner \ {r} : pc'[q] = pc[q]) /\ pc'[r] = "idle"
    BY <1>1, <1>9 DEF SaveFinished, Crash, TypeOK
  <2>2. RunFollow(r)'
    BY <2>1, IdleFollow DEF IInv
  <2> QED BY <1>1, <2>1, <2>2, RunActs
<1>10. ASSUME NEW r \in Runner, NEW n \in Node, Worker(r, n) PROVE FollowInv'
  <2>1. pc[r] # "idle" /\ cpc' = cpc /\ pc' = pc
    BY <1>10 DEF Worker, Executed, ExecuteFails, Verified, Buried, runVars, Awaiting
  <2>2. RunFollow(r)'
    BY <1>1, <1>10, WorkerFollow
  <2> QED BY <1>1, <2>1, <2>2, RunActs
<1>11. ASSUME NEW c \in Client, NEW t \in Task, Submit(c, t) PROVE FollowInv'
  <2> DEFINE s == Cleanup(disk)
  <2>1. /\ AllIdle /\ pc' = pc /\ (\A d \in Client \ {c} : cpc'[d] = cpc[d]) /\ disk' = disk
        /\ cmem'[c] = SubmitIn(s, t) /\ Submittable(s, t)
    BY <1>1, <1>11 DEF Submit, TypeOK, runVars
  <2>2. s \in State /\ s.status = disk.status
    BY <1>1, CleanupType, StructureAssumption DEF State, Cleanup
  <2> HIDE DEF s
  <2>3. \A u \in Task : s.status[u] \in Terminal => SubmitIn(s, t).status[u] = s.status[u]
    BY <2>1, <2>2, SubmitUnfinished DEF Submittable, Submitted, Terminal
  <2>4. ClientFollow(c)'
    BY <2>1, <2>2, <2>3 DEF ClientFollow
  <2> QED BY <1>1, <2>1, <2>4, ClientActs
<1>12. ASSUME NEW c \in Client, NEW t \in Task, Cancel(c, t) PROVE FollowInv'
  <2>1. /\ AllIdle /\ pc' = pc /\ (\A d \in Client \ {c} : cpc'[d] = cpc[d]) /\ disk' = disk
        /\ cmem'[c] = CancelIn(disk, t)
    BY <1>1, <1>12 DEF Cancel, TypeOK, runVars
  <2>2. ClientFollow(c)'
    BY <1>1, <2>1, CancelStatus DEF ClientFollow
  <2> QED BY <1>1, <2>1, <2>2, ClientActs
<1>13. ASSUME NEW c \in Client, ClientSave(c) PROVE FollowInv'
  <2>1. /\ cpc[c] # "idle" /\ pc' = pc /\ (\A d \in Client \ {c} : cpc'[d] = cpc[d]) /\ cpc'[c] = "idle"
    BY <1>1, <1>13 DEF ClientSave, TypeOK, runVars
  <2>2. ClientFollow(c)'
    BY <2>1 DEF ClientFollow
  <2> QED BY <1>1, <2>1, <2>2, ClientActs
<1>14. CASE Tick
  <2>1. /\ disk'.status = disk.status
        /\ (\A r \in Runner : mem'[r].status = mem[r].status /\ image'[r].status = image[r].status)
        /\ \A c \in Client : cmem'[c].status = cmem[c].status
    BY <1>1, <1>14 DEF Tick, Aged, State
  <2>2. UNCHANGED <<pc, cpc, batch, ask, job>>
    BY <1>14 DEF Tick
  <2>3. \A r \in Runner : Reviving(r)' = Reviving(r)
    BY <2>2 DEF Reviving
  <2>4. \A r \in Runner : RunFollow(r)'
    BY <1>1, <2>1, <2>2, <2>3 DEF RunFollow, Follow, Busy
  <2>5. \A c \in Client : ClientFollow(c)'
    BY <1>1, <2>1, <2>2 DEF ClientFollow
  <2> QED BY <1>1, <2>4, <2>5 DEF FollowInv
<1>15. CASE UNCHANGED vars
  <2>1. \A r \in Runner : Reviving(r)' = Reviving(r)
    BY <1>15 DEF vars, Reviving
  <2>2. \A r \in Runner : RunFollow(r)'
    BY <1>1, <1>15, <2>1 DEF vars, RunFollow, Follow, Busy
  <2>3. \A c \in Client : ClientFollow(c)'
    BY <1>1, <1>15 DEF vars, ClientFollow
  <2> QED BY <1>1, <2>2, <2>3 DEF FollowInv
<1> QED
  BY <1>2, <1>3, <1>4, <1>5, <1>6, <1>7, <1>8, <1>9, <1>10, <1>11, <1>12, <1>13, <1>14, <1>15 DEF Next, Dispatch

\* Where operations come one after another, a task that is finished in the file
\* stays as it is, crashes and approvals included, unless the owner cancels it
\* (scheduler.mjs 40-50, 73-75).
THEOREM FinishedStaysFinished == ASSUME Overlap = FALSE PROVE Spec => TerminalIsFinal
<1>1. Init => FollowInv
  <2> SUFFICES ASSUME Init PROVE FollowInv
    OBVIOUS
  <2>1. \A r \in Runner : Reviving(r) = {}
    BY DEF Init, Reviving
  <2> QED BY <2>1, InitSerial DEF Init, FollowInv, RunFollow, ClientFollow, Busy, NoJob
<1>2. IInv /\ IInv' /\ FollowInv /\ [Next]_vars => FollowInv'
  BY FollowStep
<1>3. IInv /\ FollowInv /\ [Next]_vars =>
        [\A t \in Task : disk.status[t] \in Terminal =>
           disk'.status[t] \in {disk.status[t], "CANCELLED"}]_disk
  <2> SUFFICES ASSUME IInv, FollowInv, [Next]_vars, disk' # disk, NEW t \in Task, disk.status[t] \in Terminal
               PROVE  disk'.status[t] \in {disk.status[t], "CANCELLED"}
    OBVIOUS
  <2>1. ASSUME NEW r \in Runner, SaveStarted(r) \/ SaveFinished(r) PROVE disk'.status[t] = disk.status[t]
    BY <2>1 DEF FollowInv, RunFollow, Follow, SaveStarted, SaveFinished
  <2>2. ASSUME NEW c \in Client, ClientSave(c) PROVE disk'.status[t] \in {disk.status[t], "CANCELLED"}
    BY <2>2 DEF FollowInv, ClientFollow, ClientSave
  <2>3. CASE Tick
    BY <2>3, SameStatus DEF Tick, IInv, TypeOK, Aged, State
  <2>4. CASE \/ \E r \in Runner : \/ Load(r) \/ Probe(r) \/ EndDispatch(r) \/ Serialize(r) \/ Answer(r) \/ Crash(r)
                                  \/ \E u \in Task : EnterTask(r, u)
                                  \/ \E n \in Node : Visit(r, n) \/ Worker(r, n)
             \/ \E c \in Client, u \in Task : Submit(c, u) \/ Cancel(c, u)
             \/ UNCHANGED vars
    BY <2>4 DEF Load, Probe, EndDispatch, Serialize, Answer, Crash, EnterTask, Visit, Worker, Executed,
                ExecuteFails, Verified, Buried, Submit, Cancel, vars
  <2> QED BY <2>1, <2>2, <2>3, <2>4 DEF Next, Dispatch
<1> QED BY <1>1, <1>2, <1>3, Invariance, PTL DEF Spec, TerminalIsFinal

-----------------------------------------------------------------------------
(* The end of retries, where operations come one after another, none dies and   *)
(* none asks for an approval.  Every node that may start has an attempt left;    *)
(* what is READY after an expiry had a lease, and a lease outlives no run; and    *)
(* a node is FAILED_FINAL in the copy of a run when its row is written or about    *)
(* to be.                                                                          *)

Allowed(n, k) == k <= MaxAttempts /\ ~ RetryBlocked(n, k)

InBudget(s) ==
  \A n \in Node :
    /\ Allowed(n, s.attempts[n])
    /\ s.node[n] \in {"PENDING", "READY", "WAITING_RESOURCE"} => Allowed(n, s.attempts[n] + 1)

\* No execution is under way in the copy.
Quiet(s) == \A n \in Node : s.lease[n] = NoLease /\ s.node[n] # "RUNNING"

GivenUp(s) == {n \in Node : s.node[n] = "FAILED_FINAL"}

RunRetry(r) ==
  /\ InBudget(mem[r]) /\ InBudget(image[r])
  /\ pc[r] # "idle" =>
       \A n \in Node :
         /\ ~ Busy(r, n) => mem[r].lease[n] = NoLease /\ mem[r].node[n] # "RUNNING"
         /\ mem[r].node[n] = "FAILED_FINAL" <=> n \in buried \/ job[r][n].at = "burying"
         /\ n \in buried => ~ Busy(r, n)

ClientRetry(c) ==
  /\ InBudget(cmem[c])
  /\ cpc[c] = "saving" => Quiet(cmem[c]) /\ GivenUp(cmem[c]) = buried

RetryInv ==
  /\ crashes = 0
  /\ InBudget(disk)
  /\ (\A r \in Runner : pc[r] = "idle") => Quiet(disk) /\ GivenUp(disk) = buried
  /\ \A r \in Runner : RunRetry(r)
  /\ \A c \in Client : ClientRetry(c)

LEMMA Attempt == \A s \in State, n \in Node : s.attempts[n] \in Nat /\ s.attempts[n] <= MaxAttempts + 1
  BY BoundsAssumption DEF State

LEMMA EmptyInBudget == InBudget(EmptyState) /\ Quiet(EmptyState) /\ GivenUp(EmptyState) = {}
  BY BoundsAssumption DEF InBudget, Quiet, GivenUp, EmptyState, Allowed, RetryBlocked

\* What may change in a copy without an attempt: nodes become READY that were to
\* start, or stop for good.
LEMMA BudgetStep ==
  ASSUME NEW s \in State, InBudget(s), NEW u \in State, u.attempts = s.attempts,
         \A n \in Node : u.node[n] \in {"PENDING", "READY", "WAITING_RESOURCE"} =>
                           s.node[n] \in {"PENDING", "READY", "WAITING_RESOURCE"}
  PROVE  InBudget(u)
  BY DEF InBudget

\* On a tidy copy a refresh leaves alone what is given up.
LEMMA RefreshRetry ==
  ASSUME NEW s \in State, Tidy(s), NEW T \in SUBSET Task
  PROVE  /\ InBudget(s) => InBudget(Refresh(s, T))
         /\ GivenUp(Refresh(s, T)) = GivenUp(s)
         /\ Refresh(s, T).lease = s.lease
         /\ \A n \in Node : Refresh(s, T).node[n] = "RUNNING" => s.node[n] = "RUNNING"
<1> DEFINE u == Refresh(s, T)
<1>1. u \in State
  BY RefreshType
<1>2. /\ u.lease = s.lease /\ u.attempts = s.attempts
      /\ \A n \in Node : u.node[n] = s.node[n] \/
            (u.node[n] = "READY" /\ Live(s, TaskOf[n])
               /\ s.node[n] \notin {"DONE", "BLOCKED", "CANCELLED", "RUNNING", "APPROVAL_REQUIRED"})
  BY DEF Refresh, State, Ready
<1> HIDE DEF u
<1>3. \A n \in Node : s.node[n] = "FAILED_FINAL" => ~ Live(s, TaskOf[n])
  BY StructureAssumption DEF Tidy, Live
<1>4. \A n \in Node : s.node[n] \in NodeStatus
  BY DEF State
<1>5. \A n \in Node : u.node[n] = s.node[n] \/
        (u.node[n] = "READY" /\ s.node[n] \in {"PENDING", "READY", "WAITING_RESOURCE"})
  BY <1>2, <1>3, <1>4 DEF NodeStatus, Terminal
<1>6. InBudget(s) => InBudget(u)
  BY <1>1, <1>2, <1>5, BudgetStep
<1>7. GivenUp(u) = GivenUp(s)
  BY <1>5 DEF GivenUp
<1>8. \A n \in Node : u.node[n] = "RUNNING" => s.node[n] = "RUNNING"
  BY <1>5
<1> QED BY <1>2, <1>6, <1>7, <1>8 DEF u

\* What a run or a submission reads from a file at rest.
LEMMA CleanupQuiet ==
  ASSUME NEW s \in State, Quiet(s)
  PROVE  /\ InBudget(s) => InBudget(Cleanup(s))
         /\ Quiet(Cleanup(s)) /\ GivenUp(Cleanup(s)) = GivenUp(s)
<1>1. Cleanup(s) \in State /\ Cleanup(s).attempts = s.attempts
  BY CleanupType DEF State, Cleanup
<1>2. \A n \in Node : s.lease[n] = NoLease /\ NoLease # 0
  BY DEF Quiet, NoLease
<1>3. \A n \in Node : Cleanup(s).node[n] = s.node[n] /\ Cleanup(s).lease[n] = s.lease[n]
  BY <1>2 DEF Cleanup, State
<1>4. InBudget(s) => InBudget(Cleanup(s))
  BY <1>1, <1>3, BudgetStep
<1> QED BY <1>3, <1>4 DEF Quiet, GivenUp

LEMMA SubmitRetry ==
  ASSUME NEW s \in State, Tidy(s), InBudget(s), Quiet(s), NEW t \in Task, ~ Submitted(s, t)
  PROVE  InBudget(SubmitIn(s, t)) /\ Quiet(SubmitIn(s, t)) /\ GivenUp(SubmitIn(s, t)) = GivenUp(s)
<1> DEFINE u == [s EXCEPT !.status[t] = "QUEUED"]
<1>1. u \in State /\ {t} \in SUBSET Task
  BY DEF State, TaskStatus
<1>2. /\ u.node = s.node /\ u.lease = s.lease /\ u.lock = s.lock /\ u.attempts = s.attempts
      /\ \A v \in Task : u.status[v] = IF v = t THEN "QUEUED" ELSE s.status[v]
  BY DEF State
<1>3. SubmitIn(s, t) = Refresh(u, {t})
  BY DEF SubmitIn
<1> HIDE DEF u
<1>4. Tidy(u)
  BY <1>2, StructureAssumption DEF Tidy, Submitted, Terminal
<1>5. InBudget(u) /\ Quiet(u) /\ GivenUp(u) = GivenUp(s)
  BY <1>2 DEF InBudget, Quiet, GivenUp
<1>6. /\ InBudget(u) => InBudget(Refresh(u, {t}))
      /\ GivenUp(Refresh(u, {t})) = GivenUp(u)
      /\ Refresh(u, {t}).lease = u.lease
      /\ \A n \in Node : Refresh(u, {t}).node[n] = "RUNNING" => u.node[n] = "RUNNING"
  BY <1>1, <1>4, RefreshRetry
<1> QED BY <1>3, <1>5, <1>6 DEF Quiet

LEMMA CancelRetry ==
  ASSUME NEW s \in State, InBudget(s), Quiet(s), NEW t \in Task
  PROVE  InBudget(CancelIn(s, t)) /\ Quiet(CancelIn(s, t)) /\ GivenUp(CancelIn(s, t)) = GivenUp(s)
<1> DEFINE u == CancelIn(s, t)
<1>1. u \in State
  BY CancelType
<1>2. /\ u.attempts = s.attempts
      /\ \A n \in Node : /\ u.lease[n] = IF TaskOf[n] = t THEN NoLease ELSE s.lease[n]
                         /\ u.node[n] = IF TaskOf[n] = t /\ s.node[n] \notin Terminal
                                          THEN "CANCELLED" ELSE s.node[n]
  BY DEF CancelIn, NodesOf, Leased, State
<1> HIDE DEF u
<1>3. InBudget(u)
  BY <1>1, <1>2, BudgetStep
<1>4. Quiet(u)
  BY <1>2 DEF Quiet
<1>5. GivenUp(u) = GivenUp(s)
  BY <1>2 DEF GivenUp, Terminal
<1> QED BY <1>3, <1>4, <1>5 DEF u

LEMMA AgedRetry ==
  ASSUME NEW s \in State
  PROVE  /\ InBudget(s) => InBudget(Aged(s))
         /\ GivenUp(Aged(s)) = GivenUp(s)
         /\ Quiet(s) => Quiet(Aged(s))
         /\ Aged(s).node = s.node
         /\ \A n \in Node : s.lease[n] = NoLease => Aged(s).lease[n] = NoLease
<1>1. Aged(s).node = s.node /\ Aged(s).attempts = s.attempts
        /\ \A n \in Node : Aged(s).lease[n] = Dec(s.lease[n])
  BY DEF Aged, State
<1>2. Dec(NoLease) = NoLease
  BY DEF Dec, NoLease
<1> QED BY <1>1, <1>2 DEF InBudget, GivenUp, Quiet

LEMMA AcquireRetry ==
  ASSUME NEW s \in State, InBudget(s), NEW n \in Node, NEW e \in Executor, s.node[n] = "READY"
  PROVE  InBudget(Acquire(s, n, e))
<1>1. Allowed(n, s.attempts[n]) /\ Allowed(n, s.attempts[n] + 1)
  BY DEF InBudget
<1>2. Counted(s.attempts[n]) = s.attempts[n] + 1
  BY <1>1, Attempt, BoundsAssumption DEF Counted, Allowed
<1>3. \A m \in Node : /\ Acquire(s, n, e).node[m] = IF m = n THEN "RUNNING" ELSE s.node[m]
                      /\ Acquire(s, n, e).attempts[m] =
                           IF m = n THEN Counted(s.attempts[n]) ELSE s.attempts[m]
  BY DEF Acquire, State
<1> QED BY <1>1, <1>2, <1>3 DEF InBudget

\* An execution that ends: the node may be READY only with an attempt left.
LEMMA SettleRetry ==
  ASSUME NEW s \in State, Tidy(s), InBudget(s), NEW n \in Node, NEW e \in Executor,
         NEW status \in {"READY", "DONE", "FAILED_FINAL"},
         status = "FAILED_FINAL" <=> s.node[n] = "FAILED_FINAL",
         status = "READY" => Allowed(n, s.attempts[n] + 1),
         \A x \in Resource : s.lock[x] = n => x = ResourceFor(n, e)
  PROVE  LET u == Settle(s, n, e, status) IN
         /\ InBudget(u)
         /\ GivenUp(u) = GivenUp(s)
         /\ u.lease[n] = NoLease /\ \A m \in Node \ {n} : u.lease[m] = s.lease[m]
         /\ u.node[n] # "RUNNING" /\ \A m \in Node : u.node[m] = "RUNNING" => s.node[m] = "RUNNING"
<1> DEFINE u == SetNode(s, n, status)
           v == Release(u, n, e)
           y == ResourceFor(n, e)
<1>0. status \in NodeStatus
  BY DEF NodeStatus, Terminal
<1>1. u \in State /\ v \in State /\ y \in Resource /\ {TaskOf[n]} \in SUBSET Task
  BY <1>0, SetNodeType, ReleaseType, ResourceForType, StructureAssumption
<1>2. /\ \A m \in Node : /\ v.lease[m] = IF m = n THEN NoLease ELSE s.lease[m]
                         /\ v.node[m] = IF m = n THEN status ELSE s.node[m]
      /\ \A x \in Resource : v.lock[x] = IF x = y /\ s.lock[x] = n THEN None ELSE s.lock[x]
      /\ v.status = s.status /\ v.attempts = s.attempts
  BY <1>1 DEF Release, SetNode, State
<1>3. \A x \in Resource : s.lock[x] \in Node \union {None}
  BY DEF State
<1>4. Settle(s, n, e, status) = Refresh(v, {TaskOf[n]})
  BY DEF Settle
<1> HIDE DEF u, v
<1>5. Tidy(v)
  <2>1. \A m \in Node : v.lease[m] # NoLease => v.node[m] \in {"RUNNING", "FAILED_FINAL"}
    BY <1>2 DEF Tidy
  <2>2. \A m \in Node : v.node[m] = "FAILED_FINAL" => v.status[TaskOf[m]] \in Terminal
    BY <1>2 DEF Tidy
  <2>3. \A x \in Resource : v.lock[x] # None => v.lease[v.lock[x]] # NoLease
    BY <1>2, <1>3 DEF Tidy
  <2> QED BY <2>1, <2>2, <2>3 DEF Tidy
<1>6. InBudget(v) /\ GivenUp(v) = GivenUp(s)
  BY <1>2 DEF InBudget, GivenUp
<1>7. /\ InBudget(v) => InBudget(Refresh(v, {TaskOf[n]}))
      /\ GivenUp(Refresh(v, {TaskOf[n]})) = GivenUp(v)
      /\ Refresh(v, {TaskOf[n]}).lease = v.lease
      /\ \A m \in Node : Refresh(v, {TaskOf[n]}).node[m] = "RUNNING" => v.node[m] = "RUNNING"
  BY <1>1, <1>5, RefreshRetry
<1> QED BY <1>2, <1>4, <1>6, <1>7

LEMMA RetryNext ==
  ASSUME NEW r \in Runner, InBudget(mem'[r]), InBudget(image'[r]),
         pc'[r] # "idle" =>
           \A n \in Node :
             /\ job'[r][n].at = "idle" => mem'[r].lease[n] = NoLease /\ mem'[r].node[n] # "RUNNING"
             /\ mem'[r].node[n] = "FAILED_FINAL" <=> n \in buried' \/ job'[r][n].at = "burying"
             /\ n \in buried' => job'[r][n].at = "idle"
  PROVE  RunRetry(r)'
  BY DEF RunRetry, InBudget, Allowed, RetryBlocked, Busy

\* A step of a run that leaves its copy and its executions alone.
LEMMA RetrySame ==
  ASSUME NEW r \in Runner, RunRetry(r), pc[r] # "idle", mem'[r] = mem[r], job'[r] = job[r],
         buried' = buried, image'[r] \in {image[r], mem[r], EmptyState}
  PROVE  RunRetry(r)'
<1>1. InBudget(mem'[r]) /\ InBudget(image'[r])
  BY EmptyInBudget DEF RunRetry
<1>2. \A n \in Node :
        /\ job'[r][n].at = "idle" => mem'[r].lease[n] = NoLease /\ mem'[r].node[n] # "RUNNING"
        /\ mem'[r].node[n] = "FAILED_FINAL" <=> n \in buried' \/ job'[r][n].at = "burying"
        /\ n \in buried' => job'[r][n].at = "idle"
  BY DEF RunRetry, Busy
<1> QED BY <1>1, <1>2, RetryNext

LEMMA WorkerRetry ==
  ASSUME IInv, TidyInv, NEW r \in Runner, RunRetry(r), NEW n \in Node, Worker(r, n)
  PROVE  RunRetry(r)' /\ disk' = disk
<1>1. /\ TypeOK /\ RunOK(r) /\ mem[r] \in State /\ Tidy(mem[r]) /\ RunTidy(r)
      /\ InBudget(mem[r]) /\ InBudget(image[r])
  BY DEF IInv, TypeOK, TidyInv, RunRetry
<1>2. /\ Busy(r, n) /\ InFlight(r, n) /\ job[r][n].exec \in Executor /\ pc[r] # "idle"
      /\ job[r][n].at \in {"executing", "verifying", "burying"}
  BY <1>1 DEF Worker, Executed, ExecuteFails, Verified, Buried, Busy, RunOK, InFlight, Awaiting
<1>3. UNCHANGED <<disk, image, pc>>
  BY DEF Worker, Executed, ExecuteFails, Verified, Buried, runVars
<1>4. \A m \in Node : /\ ~ Busy(r, m) => mem[r].lease[m] = NoLease /\ mem[r].node[m] # "RUNNING"
                      /\ mem[r].node[m] = "FAILED_FINAL" <=> m \in buried \/ job[r][m].at = "burying"
                      /\ m \in buried => ~ Busy(r, m)
  BY <1>2 DEF RunRetry
<1>5. ASSUME NEW status \in {"READY", "DONE", "FAILED_FINAL"}, Finish(r, n, status),
             status = "FAILED_FINAL" <=> mem[r].node[n] = "FAILED_FINAL",
             status = "READY" => Allowed(n, mem[r].attempts[n] + 1),
             buried' = IF status = "FAILED_FINAL" THEN buried \union {n} ELSE buried
      PROVE  RunRetry(r)'
  <2> DEFINE u == Settle(mem[r], n, job[r][n].exec, status)
  <2>1. mem'[r] = u /\ job'[r][n] = NoJob /\ \A m \in Node \ {n} : job'[r][m] = job[r][m]
    BY <1>1, <1>5 DEF TypeOK, Finish
  <2>2. \A x \in Resource : mem[r].lock[x] = n => x = ResourceFor(n, job[r][n].exec)
    BY <1>1, <1>2 DEF RunTidy
  <2>3. /\ InBudget(u)
        /\ GivenUp(u) = GivenUp(mem[r])
        /\ u.lease[n] = NoLease /\ \A m \in Node \ {n} : u.lease[m] = mem[r].lease[m]
        /\ u.node[n] # "RUNNING" /\ \A m \in Node : u.node[m] = "RUNNING" => mem[r].node[m] = "RUNNING"
    BY <1>1, <1>2, <1>5, <2>2, SettleRetry
  <2> HIDE DEF u
  <2>4. \A m \in Node : u.node[m] = "FAILED_FINAL" <=> mem[r].node[m] = "FAILED_FINAL"
    BY <2>3 DEF GivenUp
  <2>5. ASSUME NEW m \in Node
        PROVE  /\ job'[r][m].at = "idle" => u.lease[m] = NoLease /\ u.node[m] # "RUNNING"
               /\ u.node[m] = "FAILED_FINAL" <=> m \in buried' \/ job'[r][m].at = "burying"
               /\ m \in buried' => job'[r][m].at = "idle"
    <3>1. CASE m = n
      <4>1. job'[r][m].at = "idle"
        BY <2>1, <3>1 DEF NoJob
      <4>2. n \notin buried
        BY <1>2, <1>4
      <4> QED BY <1>5, <2>3, <2>4, <3>1, <4>1, <4>2
    <3>2. CASE m # n
      BY <1>4, <1>5, <2>1, <2>3, <2>4, <3>2 DEF Busy
    <3> QED BY <3>1, <3>2
  <2> QED BY <1>1, <1>3, <2>1, <2>3, <2>5, RetryNext
<1>6. ASSUME NEW phase \in JobPhase, Advance(r, n, phase)
      PROVE  job'[r][n].at = phase /\ \A m \in Node \ {n} : job'[r][m] = job[r][m]
  BY <1>1, <1>6, AdvanceType
<1>7. ASSUME Fail(r, n), job[r][n].at \in {"executing", "verifying"}, buried' = buried
      PROVE  RunRetry(r)'
  <2>1. n \notin buried /\ mem[r].node[n] = "RUNNING"
    BY <1>2, <1>4, <1>7 DEF InFlight
  <2>2. CASE mem' = [mem EXCEPT ![r] = Bury(@, n)] /\ Advance(r, n, "burying")
    <3> DEFINE u == Bury(mem[r], n)
    <3>1. mem'[r] = u
      BY <1>1, <2>2 DEF TypeOK
    <3>2. u \in State
      BY <1>1, BuryType
    <3>3. /\ u.lease = mem[r].lease /\ u.attempts = mem[r].attempts
          /\ \A m \in Node : u.node[m] = IF m = n THEN "FAILED_FINAL" ELSE mem[r].node[m]
      BY <1>1 DEF Bury, State
    <3> HIDE DEF u
    <3>4. InBudget(u)
      BY <1>1, <3>2, <3>3, BudgetStep
    <3>5. job'[r][n].at = "burying" /\ \A m \in Node \ {n} : job'[r][m] = job[r][m]
      BY <1>6, <2>2 DEF JobPhase
    <3>6. \A m \in Node :
            /\ job'[r][m].at = "idle" => u.lease[m] = NoLease /\ u.node[m] # "RUNNING"
            /\ u.node[m] = "FAILED_FINAL" <=> m \in buried' \/ job'[r][m].at = "burying"
            /\ m \in buried' => job'[r][m].at = "idle"
      BY <1>4, <1>7, <2>1, <3>3, <3>5 DEF Busy
    <3> QED BY <1>1, <1>3, <3>1, <3>4, <3>6, RetryNext
  <2>3. CASE ~ LastAttempt(mem[r], n) /\ Finish(r, n, "READY")
    <3>1. Allowed(n, mem[r].attempts[n] + 1)
      BY <1>1, <2>3, Attempt, BoundsAssumption DEF LastAttempt, Allowed
    <3> QED BY <1>5, <1>7, <2>1, <2>3, <3>1
  <2> QED BY <1>7, <2>2, <2>3 DEF Fail
<1>8. CASE Executed(r, n)
  <2>1. job'[r][n].at = "verifying" /\ \A m \in Node \ {n} : job'[r][m] = job[r][m]
    BY <1>6, <1>8 DEF Executed, JobPhase
  <2>2. mem' = mem /\ buried' = buried /\ job[r][n].at = "executing"
    BY <1>8 DEF Executed
  <2>3. \A m \in Node :
            /\ job'[r][m].at = "idle" => mem'[r].lease[m] = NoLease /\ mem'[r].node[m] # "RUNNING"
            /\ mem'[r].node[m] = "FAILED_FINAL" <=> m \in buried' \/ job'[r][m].at = "burying"
            /\ m \in buried' => job'[r][m].at = "idle"
    BY <1>4, <2>1, <2>2 DEF Busy
  <2> QED BY <1>1, <1>3, <2>2, <2>3, RetryNext
<1>9. CASE ExecuteFails(r, n)
  BY <1>7, <1>9 DEF ExecuteFails
<1>10. CASE Verified(r, n)
  <2>1. buried' = buried /\ job[r][n].at = "verifying" /\ mem[r].node[n] = "RUNNING"
    BY <1>2, <1>10 DEF Verified, InFlight
  <2> QED BY <1>5, <1>7, <1>10, <2>1 DEF Verified
<1>11. CASE Buried(r, n)
  <2>1. job[r][n].at = "burying" /\ mem[r].node[n] = "FAILED_FINAL" /\ buried' = buried \union {n}
    BY <1>4, <1>11 DEF Buried
  <2>2. Finish(r, n, "FAILED_FINAL")
    BY <1>11, <2>1 DEF Buried, Finish
  <2> QED BY <1>3, <1>5, <2>1, <2>2
<1> QED BY <1>3, <1>8, <1>9, <1>10, <1>11 DEF Worker

LEMMA WaitRetry ==
  ASSUME IInv, NEW r \in Runner, RunRetry(r), NEW n \in Node, Pending(r, n), pc[r] # "idle",
         mem' = [mem EXCEPT ![r] = SetNode(mem[r], n, "WAITING_RESOURCE")],
         job' = job, buried' = buried, image' = image
  PROVE  RunRetry(r)'
<1> DEFINE u == SetNode(mem[r], n, "WAITING_RESOURCE")
<1>1. /\ TypeOK /\ mem[r] \in State /\ mem[r].node[n] = "READY" /\ ~ Busy(r, n)
      /\ InBudget(mem[r]) /\ InBudget(image[r])
  BY DEF IInv, TypeOK, Pending, RunRetry
<1>2. mem'[r] = u
  BY <1>1 DEF TypeOK
<1>3. u \in State
  BY <1>1, SetNodeType DEF NodeStatus
<1>4. /\ u.lease = mem[r].lease /\ u.attempts = mem[r].attempts
      /\ \A m \in Node : u.node[m] = IF m = n THEN "WAITING_RESOURCE" ELSE mem[r].node[m]
  BY <1>1 DEF SetNode, State
<1> HIDE DEF u
<1>5. InBudget(u)
  BY <1>1, <1>3, <1>4, BudgetStep
<1>6. \A m \in Node :
          /\ job'[r][m].at = "idle" => u.lease[m] = NoLease /\ u.node[m] # "RUNNING"
          /\ u.node[m] = "FAILED_FINAL" <=> m \in buried' \/ job'[r][m].at = "burying"
          /\ m \in buried' => job'[r][m].at = "idle"
  BY <1>1, <1>4 DEF RunRetry, Busy
<1> QED BY <1>1, <1>2, <1>5, <1>6, RetryNext

LEMMA StartRetry ==
  ASSUME IInv, NEW r \in Runner, RunRetry(r), NEW n \in Node, NEW e \in Executor,
         StartOrWait(r, n, e, mem[r]), Pending(r, n), pc[r] # "idle",
         buried' = buried, image' = image
  PROVE  RunRetry(r)'
<1>1. /\ TypeOK /\ mem[r] \in State /\ mem[r].node[n] = "READY" /\ ~ Busy(r, n)
      /\ InBudget(mem[r]) /\ InBudget(image[r])
  BY DEF IInv, TypeOK, Pending, RunRetry
<1>2. \A m \in Node : /\ ~ Busy(r, m) => mem[r].lease[m] = NoLease /\ mem[r].node[m] # "RUNNING"
                      /\ mem[r].node[m] = "FAILED_FINAL" <=> m \in buried \/ job[r][m].at = "burying"
                      /\ m \in buried => ~ Busy(r, m)
  BY DEF RunRetry
<1>3. CASE /\ mem' = [mem EXCEPT ![r] = Acquire(mem[r], n, e)]
           /\ job' = [job EXCEPT ![r][n] = [at |-> "executing", exec |-> e]]
  <2> DEFINE u == Acquire(mem[r], n, e)
  <2>1. mem'[r] = u /\ job'[r][n].at = "executing" /\ \A m \in Node \ {n} : job'[r][m] = job[r][m]
    BY <1>1, <1>3 DEF TypeOK
  <2>2. InBudget(u)
    BY <1>1, AcquireRetry
  <2>3. \A m \in Node : /\ u.node[m] = IF m = n THEN "RUNNING" ELSE mem[r].node[m]
                        /\ m # n => u.lease[m] = mem[r].lease[m]
    BY <1>1 DEF Acquire, State
  <2> HIDE DEF u
  <2>4. \A m \in Node :
            /\ job'[r][m].at = "idle" => u.lease[m] = NoLease /\ u.node[m] # "RUNNING"
            /\ u.node[m] = "FAILED_FINAL" <=> m \in buried' \/ job'[r][m].at = "burying"
            /\ m \in buried' => job'[r][m].at = "idle"
    BY <1>1, <1>2, <2>1, <2>3 DEF Busy
  <2> QED BY <1>1, <2>1, <2>2, <2>4, RetryNext
<1>4. CASE mem' = [mem EXCEPT ![r] = SetNode(mem[r], n, "WAITING_RESOURCE")] /\ UNCHANGED job
  BY <1>1, <1>4, WaitRetry
<1> QED BY <1>3, <1>4 DEF StartOrWait

\* A step of the run in progress: the other runs and the clients are idle.
LEMMA RunRetries ==
  ASSUME Serial, Serial', RetryInv, NEW r \in Runner, pc[r] # "idle" \/ AllIdle, RunRetry(r)',
         UNCHANGED <<cpc, cmem, crashes>>,
         \A q \in Runner \ {r} : pc'[q] = pc[q] /\ mem'[q] = mem[q] /\ image'[q] = image[q],
         InBudget(disk'), pc'[r] = "idle" => Quiet(disk') /\ GivenUp(disk') = buried'
  PROVE  RetryInv'
<1>1. \A q \in Runner \ {r} : pc'[q] = "idle"
  BY DEF Serial, AllIdle
<1>2. \A q \in Runner \ {r} : InBudget(mem'[q]) /\ InBudget(image'[q])
  BY DEF RetryInv, RunRetry
<1>3. \A q \in Runner \ {r} : RunRetry(q)'
  BY <1>1, <1>2, RetryNext
<1>4. \A c \in Client : cpc'[c] = "idle" /\ InBudget(cmem'[c])
  BY DEF Serial, AllIdle, RetryInv, ClientRetry
<1>5. \A c \in Client : ClientRetry(c)'
  BY <1>4 DEF ClientRetry, InBudget, Allowed, RetryBlocked
<1>6. (\A q \in Runner : pc'[q] = "idle") => Quiet(disk)' /\ GivenUp(disk)' = buried'
  BY DEF Quiet, GivenUp
<1>7. InBudget(disk)' /\ crashes' = 0
  BY DEF RetryInv, InBudget, Allowed, RetryBlocked
<1> QED BY <1>3, <1>5, <1>6, <1>7 DEF RetryInv

\* A step of a client: the runs are idle.
LEMMA ClientRetries ==
  ASSUME Serial, RetryInv, NEW c \in Client, cpc[c] # "idle" \/ AllIdle,
         InBudget(cmem'[c]), cpc'[c] = "saving" => Quiet(cmem'[c]) /\ GivenUp(cmem'[c]) = buried,
         UNCHANGED <<pc, mem, image, crashes, buried>>,
         \A d \in Client \ {c} : cpc'[d] = cpc[d] /\ cmem'[d] = cmem[d],
         InBudget(disk'), Quiet(disk'), GivenUp(disk') = buried
  PROVE  RetryInv'
<1>1. \A r \in Runner : pc'[r] = "idle"
  BY DEF Serial, AllIdle
<1>2. \A r \in Runner : InBudget(mem'[r]) /\ InBudget(image'[r])
  BY DEF RetryInv, RunRetry
<1>3. \A r \in Runner : RunRetry(r)'
  BY <1>1, <1>2, RetryNext
<1>4. \A d \in Client \ {c} : cpc'[d] # "saving" /\ InBudget(cmem'[d])
  BY DEF Serial, AllIdle, RetryInv, ClientRetry
<1>5. \A d \in Client : ClientRetry(d)'
  BY <1>4 DEF ClientRetry, InBudget, Allowed, RetryBlocked, Quiet, GivenUp
<1>6. Quiet(disk)' /\ GivenUp(disk)' = buried'
  BY DEF Quiet, GivenUp
<1>7. InBudget(disk)' /\ crashes' = 0
  BY DEF RetryInv, InBudget, Allowed, RetryBlocked
<1> QED BY <1>3, <1>5, <1>6, <1>7 DEF RetryInv

LEMMA RetryStep ==
  ASSUME Overlap = FALSE, MaxCrash = 0, Risky = {}, IInv, TidyInv, Serial, RetryInv, [Next]_vars
  PROVE  RetryInv'
<1>1. /\ TypeOK /\ disk \in State /\ Tidy(disk) /\ InBudget(disk)
      /\ (\A r \in Runner : mem[r] \in State /\ image[r] \in State /\ RunOK(r) /\ RunRetry(r) /\ RunTidy(r)
                            /\ InBudget(mem[r]) /\ InBudget(image[r]))
      /\ (\A c \in Client : cmem[c] \in State /\ ClientRetry(c) /\ InBudget(cmem[c]))
      /\ Serial'
  BY SerialStep DEF IInv, TypeOK, TidyInv, RetryInv, RunRetry, ClientRetry
<1>2. AllIdle => Quiet(disk) /\ GivenUp(disk) = buried
  BY DEF AllIdle, RetryInv
<1>3. ASSUME NEW r \in Runner, Load(r) PROVE RetryInv'
  <2> DEFINE s == Cleanup(disk)
             u == Refresh(s, Task)
  <2>1. /\ mem'[r] = u /\ pc'[r] = "probing" /\ UNCHANGED <<disk, image, cpc, cmem, crashes, buried, job>> /\ AllIdle
        /\ \A q \in Runner \ {r} : pc'[q] = pc[q] /\ mem'[q] = mem[q]
    BY <1>1, <1>3 DEF Load, TypeOK
  <2>2. s \in State /\ Tidy(s)
    BY <1>1, CleanupType, CleanupTidy
  <2>3. InBudget(s) /\ Quiet(s) /\ GivenUp(s) = buried
    BY <1>1, <1>2, <2>1, CleanupQuiet
  <2> HIDE DEF s
  <2>4. InBudget(u) /\ GivenUp(u) = buried /\ Quiet(u)
    BY <2>2, <2>3, RefreshRetry DEF Quiet
  <2> HIDE DEF u
  <2>5. \A n \in Node : job'[r][n].at = "idle"
    BY <1>1, <2>1 DEF RunOK, Busy, AllIdle
  <2>6. \A n \in Node : /\ u.lease[n] = NoLease /\ u.node[n] # "RUNNING"
                        /\ u.node[n] = "FAILED_FINAL" <=> n \in buried
    BY <2>4 DEF Quiet, GivenUp
  <2>7. RunRetry(r)'
    BY <1>1, <2>1, <2>4, <2>5, <2>6, RetryNext
  <2> QED BY <1>1, <2>1, <2>7, RunRetries
<1>4. ASSUME NEW r \in Runner, \/ Probe(r) \/ EndDispatch(r) \/ Serialize(r)
                               \/ \E t \in Task : EnterTask(r, t) PROVE RetryInv'
  <2>1. /\ pc[r] # "idle" /\ pc'[r] # "idle" /\ UNCHANGED <<disk, mem, cpc, cmem, crashes, buried, job>>
        /\ image'[r] \in {image[r], mem[r]}
        /\ \A q \in Runner \ {r} : pc'[q] = pc[q] /\ image'[q] = image[q]
    BY <1>1, <1>4 DEF Probe, EndDispatch, Serialize, EnterTask, Dispatching, TypeOK
  <2>2. RunRetry(r)'
    BY <1>1, <2>1, RetrySame
  <2> QED BY <1>1, <2>1, <2>2, RunRetries
<1>5. ASSUME NEW r \in Runner, NEW n \in Node, Visit(r, n) PROVE RetryInv'
  <2>1. ~ NeedsApproval(mem[r], n)
    BY DEF NeedsApproval
  <2>2. /\ pc[r] # "idle" /\ UNCHANGED <<disk, image, pc, cpc, cmem, crashes, buried>>
        /\ Pending(r, n) /\ Routes(r, n) \subseteq Executor
    BY <1>1, <1>5, <2>1, StructureAssumption DEF Visit, Dispatching, RunOK, Routes
  <2>3. \A q \in Runner \ {r} : mem'[q] = mem[q]
    BY <1>1, <1>5, <2>1 DEF Visit, StartOrWait, TypeOK
  <2>4. RunRetry(r)'
    <3>1. CASE mem' = [mem EXCEPT ![r] = SetNode(mem[r], n, "WAITING_RESOURCE")] /\ job' = job
      BY <1>1, <2>2, <3>1, WaitRetry
    <3>2. CASE \E e \in Routes(r, n) : StartOrWait(r, n, e, mem[r])
      BY <1>1, <2>2, <3>2, StartRetry
    <3> QED BY <1>5, <2>1, <3>1, <3>2 DEF Visit
  <2> QED BY <1>1, <2>2, <2>3, <2>4, RunRetries
<1>6. ASSUME NEW r \in Runner, SaveStarted(r) PROVE RetryInv'
  <2>1. /\ pc[r] # "idle" /\ pc'[r] # "idle" /\ UNCHANGED <<mem, cpc, cmem, crashes, buried, job>>
        /\ disk' = image[r] /\ image'[r] = EmptyState
        /\ \A q \in Runner \ {r} : pc'[q] = pc[q] /\ image'[q] = image[q]
    BY <1>1, <1>6 DEF SaveStarted, TypeOK
  <2>2. RunRetry(r)'
    BY <1>1, <2>1, RetrySame
  <2> QED BY <1>1, <2>1, <2>2, RunRetries
<1>7. ASSUME NEW r \in Runner, SaveFinished(r) PROVE RetryInv'
  <2>1. /\ pc[r] # "idle" /\ pc'[r] = "idle" /\ UNCHANGED <<image, cpc, cmem, crashes, buried, job>>
        /\ disk' = mem[r] /\ mem'[r] = EmptyState /\ (\A n \in Node : job[r][n].at = "idle")
        /\ \A q \in Runner \ {r} : pc'[q] = pc[q] /\ mem'[q] = mem[q]
    BY <1>1, <1>7 DEF SaveFinished, TypeOK
  <2>2. RunRetry(r)'
    BY <1>1, <2>1, EmptyInBudget, RetryNext
  <2>3. Quiet(mem[r]) /\ GivenUp(mem[r]) = buried
    <3>1. \A n \in Node : /\ mem[r].lease[n] = NoLease /\ mem[r].node[n] # "RUNNING"
                          /\ mem[r].node[n] = "FAILED_FINAL" <=> n \in buried
      BY <1>1, <2>1 DEF RunRetry, Busy
    <3>2. buried \subseteq Node
      BY <1>1 DEF TypeOK
    <3> QED BY <3>1, <3>2 DEF Quiet, GivenUp
  <2> QED BY <1>1, <2>1, <2>2, <2>3, RunRetries
<1>8. ASSUME NEW r \in Runner, Answer(r) \/ Crash(r) PROVE FALSE
  BY <1>1, <1>8 DEF Answer, Crash, RunTidy, RetryInv
<1>9. ASSUME NEW r \in Runner, NEW n \in Node, Worker(r, n) PROVE RetryInv'
  <2>1. /\ pc[r] # "idle" /\ UNCHANGED <<image, pc, cpc, cmem, crashes>>
        /\ \A q \in Runner \ {r} : mem'[q] = mem[q]
    BY <1>1, <1>9
    DEF Worker, Executed, ExecuteFails, Verified, Buried, runVars, Awaiting, Fail, Finish, TypeOK
  <2>2. RunRetry(r)' /\ disk' = disk
    BY <1>1, <1>9, WorkerRetry
  <2> QED BY <1>1, <2>1, <2>2, RunRetries
<1>10. ASSUME NEW c \in Client, NEW t \in Task, Submit(c, t) PROVE RetryInv'
  <2> DEFINE s == Cleanup(disk)
  <2>1. /\ AllIdle /\ UNCHANGED <<disk, pc, mem, image, crashes, buried>>
        /\ (\A d \in Client \ {c} : cpc'[d] = cpc[d] /\ cmem'[d] = cmem[d])
        /\ cmem'[c] = SubmitIn(s, t) /\ ~ Submitted(s, t)
    BY <1>1, <1>10 DEF Submit, Submittable, TypeOK, runVars
  <2>2. s \in State /\ Tidy(s)
    BY <1>1, CleanupType, CleanupTidy
  <2>3. InBudget(s) /\ Quiet(s) /\ GivenUp(s) = buried
    BY <1>1, <1>2, <2>1, CleanupQuiet
  <2> HIDE DEF s
  <2>4. InBudget(SubmitIn(s, t)) /\ Quiet(SubmitIn(s, t)) /\ GivenUp(SubmitIn(s, t)) = buried
    BY <2>1, <2>2, <2>3, SubmitRetry
  <2> QED BY <1>1, <1>2, <2>1, <2>4, ClientRetries
<1>11. ASSUME NEW c \in Client, NEW t \in Task, Cancel(c, t) PROVE RetryInv'
  <2>1. /\ AllIdle /\ UNCHANGED <<disk, pc, mem, image, crashes, buried>>
        /\ (\A d \in Client \ {c} : cpc'[d] = cpc[d] /\ cmem'[d] = cmem[d])
        /\ cmem'[c] = CancelIn(disk, t)
    BY <1>1, <1>11 DEF Cancel, TypeOK, runVars
  <2>2. InBudget(CancelIn(disk, t)) /\ Quiet(CancelIn(disk, t)) /\ GivenUp(CancelIn(disk, t)) = buried
    BY <1>1, <1>2, <2>1, CancelRetry
  <2> QED BY <1>1, <1>2, <2>1, <2>2, ClientRetries
<1>12. ASSUME NEW c \in Client, ClientSave(c) PROVE RetryInv'
  <2>1. /\ cpc[c] = "saving" /\ UNCHANGED <<pc, mem, image, crashes, buried>>
        /\ (\A d \in Client \ {c} : cpc'[d] = cpc[d] /\ cmem'[d] = cmem[d])
        /\ disk' = cmem[c] /\ cmem'[c] = EmptyState /\ cpc'[c] = "idle"
    BY <1>1, <1>12 DEF ClientSave, TypeOK, runVars
  <2>2. Quiet(cmem[c]) /\ GivenUp(cmem[c]) = buried
    BY <1>1, <2>1 DEF ClientRetry
  <2> QED BY <1>1, <2>1, <2>2, EmptyInBudget, ClientRetries
<1>13. CASE Tick
  <2>1. /\ disk' = Aged(disk)
        /\ (\A r \in Runner : mem'[r] = Aged(mem[r]) /\ image'[r] = Aged(image[r]))
        /\ (\A c \in Client : cmem'[c] = Aged(cmem[c]))
        /\ UNCHANGED <<pc, cpc, job, buried, crashes>>
    BY <1>13 DEF Tick
  <2>2. ASSUME NEW r \in Runner PROVE RunRetry(r)'
    <3>1. InBudget(mem'[r]) /\ InBudget(image'[r])
      BY <1>1, <2>1, AgedRetry
    <3>2. /\ mem'[r].node = mem[r].node
          /\ \A n \in Node : mem[r].lease[n] = NoLease => mem'[r].lease[n] = NoLease
      BY <1>1, <2>1, AgedRetry
    <3>3. pc'[r] # "idle" =>
            \A n \in Node :
              /\ job'[r][n].at = "idle" => mem'[r].lease[n] = NoLease /\ mem'[r].node[n] # "RUNNING"
              /\ mem'[r].node[n] = "FAILED_FINAL" <=> n \in buried' \/ job'[r][n].at = "burying"
              /\ n \in buried' => job'[r][n].at = "idle"
      BY <1>1, <2>1, <3>2 DEF RunRetry, Busy
    <3> QED BY <3>1, <3>3, RetryNext
  <2>3. ASSUME NEW c \in Client PROVE ClientRetry(c)'
    <3>1. /\ InBudget(cmem'[c]) /\ GivenUp(cmem'[c]) = GivenUp(cmem[c])
          /\ Quiet(cmem[c]) => Quiet(cmem'[c])
      BY <1>1, <2>1, AgedRetry
    <3>2. InBudget(cmem[c])' /\ (Quiet(cmem'[c]) => Quiet(cmem[c])') /\ GivenUp(cmem[c])' = GivenUp(cmem'[c])
      BY <3>1 DEF InBudget, Allowed, RetryBlocked, Quiet, GivenUp
    <3> QED BY <1>1, <2>1, <3>1, <3>2 DEF ClientRetry
  <2>4. /\ InBudget(disk') /\ GivenUp(disk') = GivenUp(disk)
        /\ Quiet(disk) => Quiet(disk')
    BY <1>1, <2>1, AgedRetry
  <2>5. InBudget(disk)' /\ (Quiet(disk') => Quiet(disk)') /\ GivenUp(disk)' = GivenUp(disk')
    BY <2>4 DEF InBudget, Allowed, RetryBlocked, Quiet, GivenUp
  <2> QED BY <2>1, <2>2, <2>3, <2>4, <2>5 DEF RetryInv
<1>14. CASE UNCHANGED vars
  <2>1. UNCHANGED <<disk, mem, image, cmem, pc, cpc, job, buried, crashes>>
    BY <1>14 DEF vars
  <2> QED BY <2>1 DEF RetryInv, RunRetry, ClientRetry, InBudget, Allowed, RetryBlocked, Quiet, GivenUp, Busy
<1> QED
  BY <1>3, <1>4, <1>5, <1>6, <1>7, <1>8, <1>9, <1>10, <1>11, <1>12, <1>13, <1>14 DEF Next, Dispatch

LEMMA InitRetry == Init => RetryInv
<1> SUFFICES ASSUME Init PROVE RetryInv
  OBVIOUS
<1>1. InBudget(EmptyState) /\ Quiet(EmptyState) /\ GivenUp(EmptyState) = {}
  BY EmptyInBudget
<1> QED BY <1>1 DEF Init, RetryInv, RunRetry, ClientRetry

\* Where operations come one after another, no process dies and no node asks for an
\* approval: no node starts more often than max_attempts and retryPlan allow, what
\* has a row in the dead-letter file is executed no more, and between runs the file
\* gives up exactly the nodes that have a row (scheduler.mjs 60-69, 121-141).
THEOREM RetriesDoEnd ==
  ASSUME Overlap = FALSE, MaxCrash = 0, Risky = {} PROVE Spec => []RetriesEnd
<1>1. IInv /\ TidyInv /\ [Next]_vars => TidyInv'
  BY TidyStep
<1>2. IInv /\ Serial /\ [Next]_vars => Serial'
  BY SerialStep DEF IInv
<1>3. IInv /\ TidyInv /\ Serial /\ RetryInv /\ [Next]_vars => RetryInv'
  BY RetryStep
<1>4. RetryInv => AttemptsBounded
  <2> SUFFICES ASSUME RetryInv, NEW s \in Copies, NEW n \in Node PROVE Allowed(n, s.attempts[n])
    BY DEF AttemptsBounded, Allowed
  <2>1. InBudget(s)
    BY DEF RetryInv, RunRetry, ClientRetry, Copies
  <2> QED BY <2>1 DEF InBudget
<1>5. IInv /\ RetryInv => DeadLetterIsFinal
  BY DEF IInv, RunOK, RetryInv, RunRetry, DeadLetterIsFinal
<1>6. IInv /\ RetryInv => DeadLetterMatchesFile
  BY DEF IInv, TypeOK, RetryInv, GivenUp, DeadLetterMatchesFile, AllIdle
<1>7. IInv /\ RetryInv => RetriesEnd
  BY <1>4, <1>5, <1>6 DEF RetriesEnd
<1> QED
  BY <1>1, <1>2, <1>3, <1>7, InitTidy, InitSerial, InitRetry, Invariance, PTL DEF Spec
=============================================================================
