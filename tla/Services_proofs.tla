--------------------------- MODULE Services_proofs ---------------------------
(***************************************************************************)
(* What the parts of Services promise, for every value of the constants:   *)
(* the plans of the cloud fabric (by the theorems of Orchestrator_proofs), *)
(* executions and their costs, read batches, the feed of Wire and child    *)
(* processes.                                                              *)
(***************************************************************************)
EXTENDS Services, TLAPS, WellFoundedInduction, FiniteSetTheorems

-----------------------------------------------------------------------------
(* Runs: a step of Services is one of the orchestrator, or leaves it alone. *)

RunsProof == INSTANCE Orchestrator_proofs WITH
  MaxAttempts <- MaxTaskAttempts, stored <- runsStored

LEMMA RunsWellPosed == RunsProof!WellPosed
BY PlanAssumption DEF RunsProof!WellPosed, Runs!Result, RunsProof!Result

LEMMA RunsInit == Init => RunsProof!Init /\ RunsProof!PlanInv
<1>1. Runs!Init => RunsProof!Init
  BY DEF Runs!Init, RunsProof!Init, Runs!NoJob, RunsProof!NoJob, Runs!Fresh, RunsProof!Fresh
<1> QED
  BY <1>1, RunsProof!InitHolds DEF Init

LEMMA RunsStep == [Next]_vars => [RunsProof!Next]_(RunsProof!vars)
<1>1. Runs!Next => RunsProof!Next
  BY Zenon DEF Runs!Next, RunsProof!Next, Runs!Step, RunsProof!Step, Runs!SavePlan, RunsProof!SavePlan,
    Runs!BeginPass, RunsProof!BeginPass, Runs!EndRun, RunsProof!EndRun, Runs!TakeTask, RunsProof!TakeTask,
    Runs!Once, RunsProof!Once, Runs!Execute, RunsProof!Execute, Runs!Judge, RunsProof!Judge,
    Runs!Review, RunsProof!Review, Runs!Goto, RunsProof!Goto, Runs!Settled, RunsProof!Settled,
    Runs!readyTasks, RunsProof!readyTasks, Runs!Settle, RunsProof!Settle, Runs!Reachable, RunsProof!Reachable,
    Runs!Unreached, RunsProof!Unreached, Runs!Fresh, RunsProof!Fresh, Runs!shouldRetry, RunsProof!shouldRetry,
    Runs!Status, RunsProof!Status, Runs!evidenceGate, RunsProof!evidenceGate, Runs!Reviewers, RunsProof!Reviewers,
    Runs!Implementer, RunsProof!Implementer, Runs!NoJob, RunsProof!NoJob,
    Runs!Result, RunsProof!Result
<1> QED
  BY <1>1 DEF Next, vars, runsVars, RunsProof!vars

LEMMA RunsInductive == RunsProof!PlanInv /\ [Next]_vars => RunsProof!PlanInv'
BY RunsWellPosed, RunsStep, RunsProof!NextInv

\* No run completes a task on a result that is not successful, in scope, past the gate and accepted by somebody else than
\* who produced it, unless it names nobody and comes from another run, whatever the plan and however its runs, retries
\* and reviews interleave (workforce-orchestrator.ts).
THEOREM CompletedTasksAreReviewed == Spec => []CompletedIsReviewed
<1>1. RunsProof!PlanInv => CompletedIsReviewed
  BY RunsProof!InvImpliesReviewed DEF CompletedIsReviewed, Runs!CompletedIsReviewed, RunsProof!CompletedIsReviewed
<1> QED
  BY RunsInit, RunsInductive, <1>1, PTL DEF Spec

\* Each run of the orchestrator does what PlanBoard promises, step by step (workforce-orchestrator.ts).
THEOREM RunsImplementTheBoard == Spec => RunsImplementBoard
<1>1. Init => \A r \in Run : Runs!Board(r)!Init
  BY RunsInit, RunsProof!InitOnBoard DEF Runs!Board!Init, RunsProof!Board!Init
<1>2. RunsProof!PlanInv /\ [Next]_vars => [\A r \in Run : [Runs!Board(r)!Next]_(outcome[r])]_outcome
  BY RunsWellPosed, RunsStep, RunsProof!NextOnBoard
  DEF Runs!Board!Next, RunsProof!Board!Next, Runs!Board!Complete, RunsProof!Board!Complete,
      Runs!Board!GiveUp, RunsProof!Board!GiveUp
<1> QED
  BY RunsInit, RunsInductive, <1>1, <1>2, PTL DEF Spec, RunsImplementBoard, Runs!RunsImplementBoard

-----------------------------------------------------------------------------
(* Executing: the attempts of escalations and retries, and the ledger. *)

RunStatus == {"success", "failure", "partial", "cancelled", "unavailable", "blocked"}
Cost == {None, 1}
Answer == [status : RunStatus, cost : Cost]
Attempt == [port : Executing!Port, status : RunStatus]
Attempting ==
  [at : {"idle", "decide", "route", "execute", "done"}, kind : Kinds \cup {None}, counts : [Executing!Tier -> Nat],
   tried : Seq(Attempt), port : Executing!Port \cup {"none"}, last : Answer]

\* How often a port was asked.
Asked(tried, p) == Cardinality({n \in DOMAIN tried : tried[n].port = p})

\* An escalation: a tier with a port was asked as often as is counted, but for the attempt that is running.
Escalates(s) ==
  /\ s.at \in {"decide", "execute", "done"}
  /\ s.at = "execute" => s.port # "none"
  /\ \A t \in Executing!Tier :
       /\ s.counts[t] <= Executing!MaxAttempts[t]
       /\ s.kind.ports[t] # "none" =>
            s.counts[t] = Asked(s.tried, s.kind.ports[t]) + (IF s.at = "execute" /\ s.port = s.kind.ports[t] THEN 1 ELSE 0)
       /\ s.at = "done" /\ s.last.status # "success" =>
            s.counts[t] = IF t = "worker" /\ s.kind.exclusive THEN 0 ELSE Executing!MaxAttempts[t]
  /\ s.kind.exclusive => s.counts["worker"] = 0

\* A retry: what is over was tried again for what may be better only.
Retries(s) ==
  /\ s.at \in {"execute", "done"} /\ s.port # "none"
  /\ s.at = "execute" => Len(s.tried) < 2
  /\ \A n \in 1..Len(s.tried) : s.at = "execute" \/ n < Len(s.tried) => s.tried[n].status \in {"failure", "partial"}
  /\ s.at = "done" =>
       /\ Len(s.tried) \in 1..2 /\ s.last.status = s.tried[Len(s.tried)].status
       /\ s.last.status \in {"failure", "partial"} => Len(s.tried) = 2

Delegates(s) == s.at \in {"route", "execute", "done"} /\ (s.at = "execute" => s.port # "none")

\* A run that has begun is of its kind.
OfItsKind(s) ==
  s.at # "idle" =>
    /\ s.kind \in Kinds
    /\ s.kind.mode = "escalate" => Escalates(s)
    /\ s.kind.mode = "retry" => Retries(s)
    /\ s.kind.mode = "delegate" => Delegates(s)

\* The cost of a retry that is over is in the ledger.
Entered(s, entries) == s.at = "done" /\ s.kind.mode = "retry" => \E n \in 1..Len(entries) : entries[n] = s.last.cost

ExecutingInv ==
  /\ run \in [Run -> Attempting] /\ ledger \in Seq(Cost)
  /\ \A r \in Run : OfItsKind(run[r]) /\ Entered(run[r], ledger)

LEMMA ExecutingInit == Init => ExecutingInv
<1> SUFFICES ASSUME Executing!Init PROVE ExecutingInv
  BY DEF Init
<1>1. Executing!Unused \in Attempting /\ Executing!Unused.at = "idle"
  BY DEF Executing!Unused, Executing!noExecutor, Executing!Result, Attempting, Answer, RunStatus, Cost
<1>2. run = [r \in Run |-> Executing!Unused] /\ ledger = << >>
  BY DEF Executing!Init
<1> HIDE DEF Executing!Init
<1> QED
  BY <1>1, <1>2 DEF ExecutingInv, OfItsKind, Entered

LEMMA ExecutingStep == [Next]_vars => [Executing!Next]_(Executing!vars)
BY DEF Next, vars, executingVars, Executing!vars

LEMMA AskedTimes == ASSUME NEW tried \in Seq(Attempt), NEW p PROVE Asked(tried, p) \in Nat
<1>1. IsFiniteSet(1..Len(tried)) /\ {n \in DOMAIN tried : tried[n].port = p} \in SUBSET (1..Len(tried))
  BY FS_Interval
<1> QED
  BY <1>1, FS_Subset, FS_CardinalityType DEF Asked

\* One more attempt is one more of its port.
LEMMA AskedOnceMore ==
  ASSUME NEW tried \in Seq(Attempt), NEW a \in Attempt, NEW p
  PROVE  /\ Asked(tried, p) \in Nat
         /\ Asked(Append(tried, a), p) = Asked(tried, p) + (IF a.port = p THEN 1 ELSE 0)
<1> DEFINE before == {n \in DOMAIN tried : tried[n].port = p}
           more == Append(tried, a)
           after == {n \in DOMAIN more : more[n].port = p}
           last == Len(tried) + 1
<1>1. Len(tried) \in Nat /\ DOMAIN tried = 1..Len(tried) /\ DOMAIN more = 1..last /\ more[last] = a
      /\ \A n \in 1..Len(tried) : more[n] = tried[n]
  OBVIOUS
<1>2. IsFiniteSet(1..Len(tried)) /\ before \in SUBSET (1..Len(tried)) /\ last \notin before
  BY <1>1, FS_Interval
<1>3. IsFiniteSet(before) /\ Cardinality(before) \in Nat
  BY <1>2, FS_Subset, FS_CardinalityType
<1>4. after = IF a.port = p THEN before \cup {last} ELSE before
  <2>1. 1..last = (1..Len(tried)) \cup {last}
    BY <1>1
  <2> HIDE DEF more, last
  <2> QED
    BY <1>1, <2>1
<1>5. Cardinality(before \cup {last}) = Cardinality(before) + 1
  <2> HIDE DEF before, last
  <2> QED
    BY <1>2, <1>3, FS_AddElement
<1> HIDE DEF before, after
<1>6. Asked(tried, p) = Cardinality(before) /\ Asked(Append(tried, a), p) = Cardinality(after)
  BY DEF Asked, before, after
<1> QED
  BY <1>3, <1>4, <1>5, <1>6

\* A run goes on, the others stay, and the ledger only grows.
LEMMA RunGoesOn ==
  ASSUME ExecutingInv, NEW r \in Run, NEW s \in Attempting, Executing!Goto(r, s), OfItsKind(s), ledger' \in Seq(Cost),
         ledger' = ledger \/ \E c \in Cost : ledger' = Append(ledger, c), Entered(s, ledger')
  PROVE  ExecutingInv'
<1>1. run' = [run EXCEPT ![r] = s]
  BY DEF Executing!Goto
<1>2. run' \in [Run -> Attempting] /\ run'[r] = s /\ \A q \in Run : q # r => run'[q] = run[q]
  BY <1>1 DEF ExecutingInv
<1>3. Len(ledger) \in Nat /\ Len(ledger') \in Nat /\ \A n \in 1..Len(ledger) : n \in 1..Len(ledger') /\ ledger'[n] = ledger[n]
  BY DEF ExecutingInv
<1>4. ASSUME NEW q \in Run PROVE OfItsKind(run'[q]) /\ Entered(run'[q], ledger')
  <2>1. CASE q = r
    BY <1>2, <2>1
  <2>2. CASE q # r
    <3>1. OfItsKind(run[q]) /\ Entered(run[q], ledger) /\ run'[q] = run[q]
      BY <1>2, <2>2 DEF ExecutingInv
    <3>2. Entered(run[q], ledger')
      BY <1>3, <3>1 DEF Entered
    <3> QED
      BY <3>1, <3>2
  <2> QED
    BY <2>1, <2>2
<1> QED
  BY <1>2, <1>4 DEF ExecutingInv, OfItsKind, Entered
LEMMA BeginInv ==
  ASSUME ExecutingInv, NEW r \in Run, NEW kind \in Kinds, Executing!Begin(r, kind) PROVE ExecutingInv'
<1> DEFINE at == CASE kind.mode = "escalate" -> "decide" [] kind.mode = "delegate" -> "route" [] OTHER -> "execute"
           s == [Executing!Unused EXCEPT !.kind = kind, !.port = kind.ports["worker"], !.at = at]
<1>1. Executing!Goto(r, s) /\ ledger' = ledger
  BY DEF Executing!Begin
<1>2. /\ kind.mode \in {"escalate", "retry", "delegate"} /\ kind.ports["worker"] \in Executing!Port \cup {"none"}
      /\ kind.mode = "retry" => kind.ports["worker"] # "none"
  BY ExecutingAssumption DEF Executing!Tier
<1>3. /\ at \in {"decide", "route", "execute"}
      /\ kind.mode = "escalate" => at = "decide"
      /\ kind.mode = "delegate" => at = "route"
      /\ kind.mode = "retry" => at = "execute"
  BY <1>2
<1> HIDE DEF at
<1>4. /\ Executing!Unused \in Attempting /\ Executing!Unused.tried = << >>
      /\ Executing!Unused.counts = [t \in Executing!Tier |-> 0]
  BY DEF Executing!Unused, Executing!noExecutor, Executing!Result, Attempting, Answer, RunStatus, Cost
<1>5. /\ s \in Attempting /\ s.at = at /\ s.at # "done" /\ s.kind = kind /\ s.port = kind.ports["worker"]
      /\ s.tried = << >> /\ Len(s.tried) = 0 /\ \A t \in Executing!Tier : s.counts[t] = 0
  BY <1>2, <1>3, <1>4 DEF Attempting
<1> HIDE DEF s
<1>6. \A p : Asked(<< >>, p) = 0
  BY FS_EmptySet DEF Asked
<1>7. kind.mode = "escalate" => Escalates(s)
  BY <1>2, <1>3, <1>5, <1>6 DEF Escalates, Executing!MaxAttempts, Executing!Tier
<1>8. (kind.mode = "retry" => Retries(s)) /\ (kind.mode = "delegate" => Delegates(s))
  BY <1>2, <1>3, <1>5 DEF Retries, Delegates
<1>9. OfItsKind(s) /\ Entered(s, ledger')
  BY <1>5, <1>7, <1>8 DEF OfItsKind, Entered
<1> QED
  BY <1>1, <1>5, <1>9, RunGoesOn DEF ExecutingInv

\* The next tier has attempts left; where there is none, all have been made but a worker's on an exclusive task.
LEMMA NextTier ==
  ASSUME NEW counts \in [Executing!Tier -> Nat], NEW exclusive \in BOOLEAN,
         \A t \in Executing!Tier : counts[t] <= Executing!MaxAttempts[t], exclusive => counts["worker"] = 0
  PROVE  LET tier == Executing!nextEscalation(counts, exclusive) IN
         /\ tier \in Executing!Tier \cup {"replan"}
         /\ tier # "replan" => counts[tier] < Executing!MaxAttempts[tier] /\ ~(tier = "worker" /\ exclusive)
         /\ tier = "replan" => \A t \in Executing!Tier : counts[t] = IF t = "worker" /\ exclusive THEN 0 ELSE Executing!MaxAttempts[t]
<1>1. Executing!Tier = {"worker", "professional", "frontier"}
  BY DEF Executing!Tier
<1>2. \A t \in Executing!Tier : counts[t] \in Nat /\ Executing!MaxAttempts[t] \in Nat
  BY <1>1 DEF Executing!MaxAttempts
<1> QED
  BY <1>1, <1>2 DEF Executing!nextEscalation

LEMMA DecideInv ==
  ASSUME ExecutingInv, NEW r \in Run, Executing!Decide(r) PROVE ExecutingInv'
<1> DEFINE now == run[r]
           ports == now.kind.ports
           tier == Executing!nextEscalation(now.counts, now.kind.exclusive)
<1>1. now.at = "decide" /\ ledger' = ledger /\ now \in Attempting /\ OfItsKind(now)
  BY DEF Executing!Decide, ExecutingInv
<1>2. /\ now.kind \in Kinds /\ now.kind.mode = "escalate" /\ now.kind.exclusive \in BOOLEAN
      /\ ports \in [Executing!Tier -> Executing!Port \cup {"none"}]
      /\ \A t, u \in Executing!Tier : ports[t] = ports[u] => t = u \/ ports[t] = "none"
      /\ Escalates(now)
  BY <1>1, ExecutingAssumption DEF OfItsKind, Retries, Delegates
<1>3. /\ now.counts \in [Executing!Tier -> Nat] /\ now.tried \in Seq(Attempt) /\ now.last \in Answer
      /\ now.port \in Executing!Port \cup {"none"}
  BY <1>1 DEF Attempting
<1>4. /\ tier \in Executing!Tier \cup {"replan"}
      /\ tier # "replan" => now.counts[tier] < Executing!MaxAttempts[tier] /\ ~(tier = "worker" /\ now.kind.exclusive)
      /\ tier = "replan" =>
           \A t \in Executing!Tier : now.counts[t] = IF t = "worker" /\ now.kind.exclusive THEN 0 ELSE Executing!MaxAttempts[t]
  BY <1>2, <1>3, NextTier DEF Escalates
<1>5. \A t \in Executing!Tier : Executing!MaxAttempts[t] \in Nat
  BY DEF Executing!Tier, Executing!MaxAttempts
<1>6. \A t \in Executing!Tier : Asked(now.tried, ports[t]) \in Nat
  BY <1>3, AskedTimes
<1>7. ASSUME NEW s \in Attempting, Executing!Goto(r, s), s.kind = now.kind, Escalates(s) PROVE ExecutingInv'
  <2>1. OfItsKind(s) /\ Entered(s, ledger')
    BY <1>2, <1>7 DEF OfItsKind, Entered
  <2> QED
    BY <1>1, <1>7, <2>1, RunGoesOn DEF ExecutingInv
<1> HIDE DEF tier
<1>8. CASE tier = "replan"
  <2> DEFINE s == [now EXCEPT !.at = "done"]
  <2>1. Executing!Goto(r, s)
    BY <1>8 DEF Executing!Decide, tier
  <2>2. /\ s \in Attempting /\ s.kind = now.kind /\ s.at = "done" /\ s.counts = now.counts /\ s.tried = now.tried
    BY <1>1 DEF Attempting
  <2> HIDE DEF s
  <2>3. Escalates(s)
    BY <1>1, <1>2, <1>4, <1>8, <2>2 DEF Escalates
  <2> QED
    BY <1>7, <2>1, <2>2, <2>3
<1>9. CASE tier # "replan" /\ ports[tier] = "none"
  <2> DEFINE s == [now EXCEPT !.counts = Executing!Exhausted(now.counts, tier)]
  <2>1. Executing!Goto(r, s)
    BY <1>9 DEF Executing!Decide, tier
  <2>2. /\ Executing!Exhausted(now.counts, tier) \in [Executing!Tier -> Nat]
        /\ \A t \in Executing!Tier : Executing!Exhausted(now.counts, tier)[t]
                                       = IF t = tier THEN Executing!MaxAttempts[t] ELSE now.counts[t]
    BY <1>3, <1>4, <1>5, <1>9 DEF Executing!Exhausted
  <2>3. /\ s \in Attempting /\ s.kind = now.kind /\ s.at = "decide" /\ s.tried = now.tried
        /\ s.counts = Executing!Exhausted(now.counts, tier)
    BY <1>1, <2>2 DEF Attempting
  <2> HIDE DEF s
  <2>4. Escalates(s)
    <3>1. \A t \in Executing!Tier : ports[t] # "none" => s.counts[t] = Asked(s.tried, ports[t])
      BY <1>1, <1>2, <1>6, <1>9, <2>2, <2>3 DEF Escalates
    <3>2. \A t \in Executing!Tier : s.counts[t] <= Executing!MaxAttempts[t]
      BY <1>2, <1>5, <2>2, <2>3 DEF Escalates
    <3>3. s.kind.exclusive => s.counts["worker"] = 0
      BY <1>2, <1>4, <1>9, <2>2, <2>3 DEF Escalates, Executing!Tier
    <3> QED
      BY <1>6, <2>3, <3>1, <3>2, <3>3 DEF Escalates
  <2> QED
    BY <1>7, <2>1, <2>3, <2>4
<1>10. CASE tier # "replan" /\ ports[tier] # "none"
  <2> DEFINE s == [now EXCEPT !.at = "execute", !.port = ports[tier], !.counts[tier] = @ + 1]
  <2>1. Executing!Goto(r, s)
    BY <1>10 DEF Executing!Decide, tier
  <2>2. /\ [now.counts EXCEPT ![tier] = @ + 1] \in [Executing!Tier -> Nat]
        /\ \A t \in Executing!Tier : [now.counts EXCEPT ![tier] = @ + 1][t] = now.counts[t] + (IF t = tier THEN 1 ELSE 0)
    BY <1>3, <1>4, <1>10
  <2>3. /\ s \in Attempting /\ s.kind = now.kind /\ s.at = "execute" /\ s.tried = now.tried /\ s.port = ports[tier]
        /\ s.counts = [now.counts EXCEPT ![tier] = @ + 1]
    BY <1>1, <1>2, <1>4, <1>10, <2>2 DEF Attempting
  <2> HIDE DEF s
  <2>4. Escalates(s)
    <3>1. \A t \in Executing!Tier : ports[t] # "none" =>
            s.counts[t] = Asked(s.tried, ports[t]) + (IF s.port = ports[t] THEN 1 ELSE 0)
      <4> SUFFICES ASSUME NEW t \in Executing!Tier, ports[t] # "none"
                   PROVE  s.counts[t] = Asked(s.tried, ports[t]) + (IF s.port = ports[t] THEN 1 ELSE 0)
        OBVIOUS
      <4>1. now.counts[t] = Asked(now.tried, ports[t])
        BY <1>1, <1>2, <1>6 DEF Escalates
      <4>2. s.port = ports[t] <=> t = tier
        BY <1>2, <1>4, <1>10, <2>3
      <4> QED
        BY <1>6, <2>2, <2>3, <4>1, <4>2
    <3>2. \A t \in Executing!Tier : s.counts[t] <= Executing!MaxAttempts[t]
      BY <1>2, <1>3, <1>4, <1>5, <1>10, <2>2, <2>3 DEF Escalates
    <3>3. s.kind.exclusive => s.counts["worker"] = 0
      BY <1>2, <1>3, <1>4, <1>10, <2>2, <2>3 DEF Escalates, Executing!Tier
    <3> QED
      BY <1>10, <2>3, <3>1, <3>2, <3>3 DEF Escalates
  <2> QED
    BY <1>7, <2>1, <2>3, <2>4
<1> QED
  BY <1>8, <1>9, <1>10

LEMMA DelegateInv ==
  ASSUME ExecutingInv, NEW r \in Run, Executing!Delegate(r) PROVE ExecutingInv'
<1> DEFINE now == run[r]
<1>1. now.at = "route" /\ ledger' = ledger /\ now \in Attempting /\ OfItsKind(now)
  BY DEF Executing!Delegate, ExecutingInv
<1>2. now.kind \in Kinds /\ now.kind.mode = "delegate"
  BY <1>1, ExecutingAssumption DEF OfItsKind, Escalates, Retries
<1>3. ASSUME NEW s \in Attempting, Executing!Goto(r, s), s.kind = now.kind, Delegates(s) PROVE ExecutingInv'
  <2>1. OfItsKind(s) /\ Entered(s, ledger')
    BY <1>2, <1>3 DEF OfItsKind, Entered
  <2> QED
    BY <1>1, <1>3, <2>1, RunGoesOn DEF ExecutingInv
<1>4. CASE now.port = "none"
  <2> DEFINE s == [now EXCEPT !.at = "done", !.last = Executing!unavailableResult]
  <2>1. s \in Attempting /\ s.kind = now.kind /\ Delegates(s)
    BY <1>1 DEF Attempting, Delegates, Executing!unavailableResult, Executing!Result, Answer, RunStatus, Cost
  <2>2. Executing!Goto(r, s)
    BY <1>4 DEF Executing!Delegate
  <2> HIDE DEF s
  <2> QED
    BY <1>3, <2>1, <2>2
<1>5. CASE now.port # "none"
  <2> DEFINE s == [now EXCEPT !.at = "execute"]
  <2>1. s \in Attempting /\ s.kind = now.kind /\ Delegates(s)
    BY <1>1, <1>5 DEF Attempting, Delegates
  <2>2. Executing!Goto(r, s)
    BY <1>5 DEF Executing!Delegate
  <2> HIDE DEF s
  <2> QED
    BY <1>3, <2>1, <2>2
<1> QED
  BY <1>4, <1>5
LEMMA AnswersAreTyped ==
  ASSUME NEW p \in Executing!Port, NEW answer \in Executing!Answers(p) PROVE answer.result \in Answer
<1> USE DEF Executing!Result, Answer, RunStatus, Cost
<1>1. CASE p = "antigravity"
  BY <1>1 DEF Executing!Answers, Executing!unavailableResult
<1>2. CASE p \in {"gateway", "bare gateway"}
  <2>1. answer \in Executing!GatewayAnswers(TRUE) \/ answer \in Executing!GatewayAnswers(FALSE)
    BY <1>2 DEF Executing!Answers
  <2> QED
    BY <2>1 DEF Executing!GatewayAnswers
<1>3. CASE p \in {"codex", "claude"}
  <2>1. answer \in Executing!RunnerAnswers(IF p = "claude" THEN Executing!claudeUsage ELSE Executing!mapCodexUsage)
    BY <1>3 DEF Executing!Answers
  <2>2. PICK costs \in SUBSET Cost : answer \in Executing!RunnerAnswers(costs)
    BY <2>1 DEF Executing!claudeUsage, Executing!mapCodexUsage
  <2> QED
    BY <2>2 DEF Executing!RunnerAnswers, Executing!unavailableResult, Executing!parseResult
<1> QED
  BY <1>1, <1>2, <1>3 DEF Executing!Port

LEMMA ExecuteInv ==
  ASSUME ExecutingInv, NEW r \in Run, Executing!Execute(r) PROVE ExecutingInv'
<1> DEFINE now == run[r]
           mode == now.kind.mode
<1>1. now.at = "execute" /\ now \in Attempting /\ OfItsKind(now) /\ ledger \in Seq(Cost)
  BY DEF Executing!Execute, ExecutingInv
<1>2. /\ now.kind \in Kinds /\ mode \in {"escalate", "retry", "delegate"} /\ now.port \in Executing!Port
      /\ now.kind.ports \in [Executing!Tier -> Executing!Port \cup {"none"}]
  <2>1. now.kind \in Kinds /\ mode \in {"escalate", "retry", "delegate"}
        /\ now.kind.ports \in [Executing!Tier -> Executing!Port \cup {"none"}]
    BY <1>1, ExecutingAssumption DEF OfItsKind
  <2>2. now.port # "none"
    BY <1>1, <2>1 DEF OfItsKind, Escalates, Retries, Delegates
  <2> QED
    BY <1>1, <2>1, <2>2 DEF Attempting
<1>3. PICK answer \in Executing!Answers(now.port) :
        LET attempt == [port |-> now.port, status |-> answer.result.status]
            tried == Append(now.tried, attempt) IN
        IF mode = "retry" THEN Executing!AfterRetry(r, tried, answer.result)
        ELSE /\ Executing!Goto(r, [now EXCEPT !.tried = tried, !.last = answer.result,
                        !.at = IF mode = "escalate" /\ answer.result.status # "success" THEN "decide" ELSE "done"])
             /\ UNCHANGED ledger
  BY <1>2 DEF Executing!Execute
<1> DEFINE result1 == answer.result
           attempt == [port |-> now.port, status |-> result1.status]
           tried == Append(now.tried, attempt)
<1>4. result1 \in Answer
  BY <1>2, <1>3, AnswersAreTyped
<1> HIDE DEF result1
<1>5. attempt \in Attempt /\ attempt.port = now.port /\ attempt.status = result1.status /\ now.tried \in Seq(Attempt)
  BY <1>1, <1>2, <1>4 DEF Attempt, Answer, Attempting
<1>6. /\ tried \in Seq(Attempt) /\ Len(tried) = Len(now.tried) + 1 /\ Len(now.tried) \in Nat /\ tried[Len(tried)] = attempt
      /\ \A n \in 1..Len(now.tried) : tried[n] = now.tried[n]
  <2> HIDE DEF attempt
  <2> QED
    BY <1>5
<1>7. /\ \A p : Asked(now.tried, p) \in Nat
      /\ \A p : Asked(tried, p) = Asked(now.tried, p) + (IF now.port = p THEN 1 ELSE 0)
  <2> HIDE DEF attempt
  <2> QED
    BY <1>5, AskedOnceMore
<1> HIDE DEF attempt, tried
<1>8. CASE mode = "retry"
  <2>1. Retries(now) /\ Executing!AfterRetry(r, tried, result1)
    BY <1>1, <1>2, <1>3, <1>8 DEF OfItsKind, tried, attempt, result1
  <2>2. Len(now.tried) < 2 /\ \A n \in 1..Len(now.tried) : now.tried[n].status \in {"failure", "partial"}
    BY <1>1, <2>1 DEF Retries
  <2>3. CASE Executing!shouldRetry(result1, Len(tried))
    <3> DEFINE s == [now EXCEPT !.tried = tried, !.last = result1]
    <3>1. Executing!Goto(r, s) /\ ledger' = ledger
      BY <2>1, <2>3 DEF Executing!AfterRetry
    <3>2. s \in Attempting /\ s.kind = now.kind /\ s.at = "execute" /\ s.tried = tried /\ s.port = now.port
      BY <1>1, <1>4, <1>6 DEF Attempting
    <3>3. Len(tried) < 2 /\ result1.status \in {"failure", "partial"}
      BY <1>6, <2>3 DEF Executing!shouldRetry, Executing!MaxRetryAttempts, Executing!retryable_statuses
    <3> HIDE DEF s
    <3>4. Retries(s)
      <4>1. ASSUME NEW n \in 1..Len(tried) PROVE tried[n].status \in {"failure", "partial"}
        BY <1>5, <1>6, <2>2, <3>3
      <4> QED
        BY <1>2, <3>2, <3>3, <4>1 DEF Retries, Executing!Port
    <3>5. OfItsKind(s) /\ Entered(s, ledger')
      BY <1>2, <1>8, <3>2, <3>4 DEF OfItsKind, Entered
    <3> QED
      BY <1>1, <3>1, <3>2, <3>5, RunGoesOn
  <2>4. CASE ~Executing!shouldRetry(result1, Len(tried))
    <3> DEFINE s == [now EXCEPT !.tried = tried, !.last = result1, !.at = "done"]
    <3>1. Executing!Goto(r, s) /\ ledger' = Append(ledger, result1.cost)
      BY <2>1, <2>4 DEF Executing!AfterRetry, Executing!Entry
    <3>2. s \in Attempting /\ s.kind = now.kind /\ s.at = "done" /\ s.tried = tried /\ s.port = now.port /\ s.last = result1
      BY <1>1, <1>4, <1>6 DEF Attempting
    <3>3. Len(tried) \in 1..2 /\ (result1.status \in {"failure", "partial"} => Len(tried) = 2)
      BY <1>6, <2>2, <2>4 DEF Executing!shouldRetry, Executing!MaxRetryAttempts, Executing!retryable_statuses
    <3> HIDE DEF s
    <3>4. Retries(s)
      <4>1. ASSUME NEW n \in 1..Len(tried), n < Len(tried) PROVE tried[n].status \in {"failure", "partial"}
        <5>1. n \in 1..Len(now.tried) /\ tried[n] = now.tried[n]
          BY <1>6, <4>1
        <5> QED
          BY <2>2, <5>1
      <4>2. tried[Len(tried)].status = result1.status
        BY <1>5, <1>6
      <4>3. s.last.status = s.tried[Len(s.tried)].status /\ s.port # "none"
        BY <1>2, <3>2, <4>2 DEF Executing!Port
      <4> QED
        BY <3>2, <3>3, <4>1, <4>3 DEF Retries
    <3>5. result1.cost \in Cost
      BY <1>4 DEF Answer
    <3>6. ledger' \in Seq(Cost) /\ Len(ledger') \in Nat /\ Len(ledger') \in 1..Len(ledger') /\ ledger'[Len(ledger')] = result1.cost
      BY <1>1, <3>1, <3>5
    <3>7. OfItsKind(s) /\ Entered(s, ledger')
      BY <1>2, <1>8, <3>2, <3>4, <3>6 DEF OfItsKind, Entered
    <3> QED
      BY <3>1, <3>2, <3>5, <3>6, <3>7, RunGoesOn
  <2> QED
    BY <2>3, <2>4
<1>9. CASE mode # "retry"
  <2> DEFINE at == IF mode = "escalate" /\ result1.status # "success" THEN "decide" ELSE "done"
             s == [now EXCEPT !.tried = tried, !.last = result1, !.at = at]
  <2>1. Executing!Goto(r, s) /\ ledger' = ledger
    BY <1>3, <1>9 DEF tried, attempt, result1
  <2>2. at \in {"decide", "done"}
    OBVIOUS
  <2>3. /\ s \in Attempting /\ s.kind = now.kind /\ s.at = at /\ s.tried = tried /\ s.port = now.port /\ s.last = result1
        /\ s.counts = now.counts
    BY <1>1, <1>4, <1>6, <2>2 DEF Attempting
  <2> HIDE DEF s
  <2>4. mode = "escalate" => Escalates(s)
    <3> SUFFICES ASSUME mode = "escalate" PROVE Escalates(s)
      OBVIOUS
    <3>1. Escalates(now)
      BY <1>1, <1>2 DEF OfItsKind
    <3>2. \A t \in Executing!Tier : now.kind.ports[t] # "none" => s.counts[t] = Asked(s.tried, now.kind.ports[t])
      BY <1>1, <1>7, <2>3, <3>1 DEF Escalates
    <3>3. s.at = "done" => s.last.status = "success"
      BY <2>3
    <3> QED
      BY <1>7, <2>2, <2>3, <3>1, <3>2, <3>3 DEF Escalates
  <2>5. mode = "delegate" => Delegates(s)
    BY <2>3 DEF Delegates
  <2>6. OfItsKind(s) /\ Entered(s, ledger')
    BY <1>2, <1>9, <2>3, <2>4, <2>5 DEF OfItsKind, Entered
  <2> QED
    BY <1>1, <2>1, <2>3, <2>6, RunGoesOn
<1> QED
  BY <1>8, <1>9

LEMMA ExecutingInductive == ExecutingInv /\ [Next]_vars => ExecutingInv'
<1> SUFFICES ASSUME ExecutingInv, [Executing!Next]_(Executing!vars) PROVE ExecutingInv'
  BY ExecutingStep
<1>1. CASE UNCHANGED Executing!vars
  BY <1>1 DEF Executing!vars, ExecutingInv, Entered
<1>2. CASE \E r \in Run : Executing!Step(r)
  BY <1>2, DecideInv, DelegateInv, ExecuteInv DEF Executing!Step
<1>3. CASE \E r \in Run : \E kind \in Kinds : Executing!Begin(r, kind)
  BY <1>3, BeginInv
<1> QED
  BY <1>1, <1>2, <1>3 DEF Executing!Next

\* What an escalation, a retry and the ledger tell of the attempts adds up, for any executions with any answers, side
\* by side (escalating-executor.ts, execution-loop.ts, retry-controller.ts, cost-ledger.ts).
THEOREM AttemptsAlwaysAddUp == Spec => []AttemptsAddUp
<1>1. ASSUME ExecutingInv PROVE AttemptsAddUp
  <2>1. Executing!EveryTierTried
    <3> SUFFICES ASSUME NEW r \in Run, Executing!Over(r, "escalate"), run[r].last.status # "success",
                        NEW t \in Executing!Tier, run[r].kind.ports[t] # "none"
                 PROVE  Executing!Tried(r, run[r].kind.ports[t])
                          = IF t = "worker" /\ run[r].kind.exclusive THEN 0 ELSE Executing!MaxAttempts[t]
      BY DEF Executing!EveryTierTried
    <3>1. run[r].at = "done" /\ Escalates(run[r]) /\ run[r] \in Attempting
      BY <1>1 DEF Executing!Over, ExecutingInv, OfItsKind
    <3>2. Executing!Tried(r, run[r].kind.ports[t]) = Asked(run[r].tried, run[r].kind.ports[t])
      BY DEF Executing!Tried, Asked, Executing!Cardinality, Cardinality
    <3>3. Asked(run[r].tried, run[r].kind.ports[t]) \in Nat
      BY <3>1, AskedTimes DEF Attempting
    <3> QED
      BY <3>1, <3>2, <3>3 DEF Escalates
  <2>2. Executing!RetriedInVain
    <3> SUFFICES ASSUME NEW r \in Run, Executing!Over(r, "retry")
                 PROVE  /\ run[r].last.status = run[r].tried[Len(run[r].tried)].status
                        /\ \A n \in 1..(Len(run[r].tried) - 1) : run[r].tried[n].status \in {"failure", "partial"}
                        /\ run[r].last.status \in {"failure", "partial"} => Len(run[r].tried) = 2
      BY DEF Executing!RetriedInVain, Executing!Last, Executing!MaxRetryAttempts
    <3>1. run[r].at = "done" /\ Retries(run[r]) /\ run[r] \in Attempting
      BY <1>1 DEF Executing!Over, ExecutingInv, OfItsKind
    <3> QED
      BY <3>1 DEF Retries, Attempting
  <2>3. Executing!TotalOnlyIfMeasured
    <3> SUFFICES ASSUME Executing!totalCost # None, NEW r \in Run, Executing!Over(r, "retry") PROVE run[r].last.cost # None
      BY DEF Executing!TotalOnlyIfMeasured
    <3>1. None \notin Executing!Range(ledger)
      BY DEF Executing!totalCost
    <3>2. PICK n \in 1..Len(ledger) : ledger[n] = run[r].last.cost
      BY <1>1 DEF ExecutingInv, Executing!Over, Entered
    <3>3. ledger[n] \in Executing!Range(ledger)
      BY <1>1 DEF ExecutingInv, Executing!Range
    <3> QED
      BY <3>1, <3>2, <3>3
  <2> QED
    BY <2>1, <2>2, <2>3 DEF AttemptsAddUp
<1> QED
  BY ExecutingInit, ExecutingInductive, <1>1, PTL DEF Spec
-----------------------------------------------------------------------------
(* Induction, and functions defined by recursion up to a number. *)

Less == {p \in Nat \X Nat : p[1] < p[2]}

\* A set of numbers that has 0, and with each number the next, has them all.
LEMMA Induction ==
  ASSUME NEW S \in SUBSET Nat, 0 \in S, \A n \in S : n + 1 \in S PROVE S = Nat
<1> SUFFICES ASSUME S # Nat PROVE FALSE
  OBVIOUS
<1>1. OpToRel(<, Nat) = Less
  BY DEF OpToRel, Less
<1>2. IsWellFoundedOn(Less, Nat)
  BY <1>1, NatLessThanWellFounded
<1>3. PICK least \in Nat \ S : \A y \in Nat \ S : ~(<<y, least>> \in Less)
  BY <1>2, WFMin
<1>4. least - 1 \in Nat /\ <<least - 1, least>> \in Less
  BY <1>3 DEF Less
<1>5. least - 1 \in S
  BY <1>3, <1>4
<1>6. (least - 1) + 1 = least
  BY <1>3
<1> QED
  BY <1>3, <1>5, <1>6

Recursively(f, first, step, n) == f = [k \in 0..n |-> IF k = 0 THEN first ELSE step[<<k, f[k - 1]>>]]

\* A step that leads from numbers to numbers defines a function.
LEMMA Recursion ==
  ASSUME NEW n \in Nat, NEW first \in Int, NEW step \in [(1..n) \X Int -> Int]
  PROVE  \E f \in [0..n -> Int] : Recursively(f, first, step, n)
<1> DEFINE S == {m \in Nat : m <= n => \E f \in [0..m -> Int] : Recursively(f, first, step, m)}
<1>1. 0 \in S
  <2>1. [k \in 0..0 |-> first] \in [0..0 -> Int] /\ Recursively([k \in 0..0 |-> first], first, step, 0)
    BY DEF Recursively
  <2> QED
    BY <2>1
<1>2. ASSUME NEW m \in S PROVE m + 1 \in S
  <2> SUFFICES ASSUME m + 1 <= n PROVE \E g \in [0..(m + 1) -> Int] : Recursively(g, first, step, m + 1)
    OBVIOUS
  <2>1. m \in Nat /\ m <= n
    OBVIOUS
  <2>2. PICK f \in [0..m -> Int] : Recursively(f, first, step, m)
    BY <2>1
  <2> DEFINE g == [k \in 0..(m + 1) |-> IF k = m + 1 THEN step[<<m + 1, f[m]>>] ELSE f[k]]
  <2>3. step[<<m + 1, f[m]>>] \in Int
    BY <2>1, <2>2
  <2>4. g \in [0..(m + 1) -> Int]
    BY <2>1, <2>2, <2>3
  <2>5. ASSUME NEW k \in 0..(m + 1) PROVE g[k] = IF k = 0 THEN first ELSE step[<<k, g[k - 1]>>]
    <3>1. CASE k = m + 1
      <4>1. k # 0 /\ k - 1 = m /\ m \in 0..(m + 1) /\ m # m + 1 /\ m + 1 \in 0..(m + 1)
        BY <2>1, <3>1
      <4>2. g[k - 1] = f[m] /\ g[k] = step[<<m + 1, f[m]>>]
        BY <3>1, <4>1
      <4> QED
        BY <3>1, <4>1, <4>2
    <3>2. CASE k # m + 1
      <4>1. k \in 0..m /\ g[k] = f[k] /\ (k # 0 => k - 1 \in 0..m /\ g[k - 1] = f[k - 1])
        BY <2>1, <3>2
      <4>2. f[k] = IF k = 0 THEN first ELSE step[<<k, f[k - 1]>>]
        BY <2>2, <4>1 DEF Recursively
      <4> QED
        BY <4>1, <4>2
    <3> QED
      BY <3>1, <3>2
  <2>6. Recursively(g, first, step, m + 1)
    <3> HIDE DEF g
    <3>1. g = [k \in 0..(m + 1) |-> g[k]]
      BY <2>4
    <3> QED
      BY <2>5, <3>1 DEF Recursively
  <2> QED
    BY <2>4, <2>6
<1>3. S = Nat
  <2> HIDE DEF S
  <2>1. S \in SUBSET Nat
    BY DEF S
  <2> QED
    BY <1>1, <1>2, <2>1, Induction
<1>4. n \in S
  <2> HIDE DEF S
  <2> QED
    BY <1>3
<1> QED
  BY <1>4

-----------------------------------------------------------------------------
(* Reading: the budget, spent in one pass over the outcomes. *)

Values == Seq(Piece) \cup {None} \cup SUBSET File
Outcome == [status : {"succeeded", "failed", "omitted"}, value : Values, bytes : Nat, mixed : BOOLEAN]
Price(o) == IF o.status = "succeeded" THEN o.bytes ELSE 0

LEMMA PriceNat == \A o \in Outcome : Price(o) \in Nat
BY DEF Price, Outcome

\* Spent adds the prices up.
LEMMA SpentAdds ==
  ASSUME NEW n \in Nat, NEW given \in [1..n -> Outcome]
  PROVE  /\ Reading!Spent(given, 0) = 0
         /\ \A k \in 1..n : Reading!Spent(given, k) = Reading!Spent(given, k - 1) + Price(given[k])
         /\ \A k \in 0..n : Reading!Spent(given, k) \in Int
<1> DEFINE E(f) == [k \in 0..Len(given) |->
                      IF k = 0 THEN 0 ELSE f[k - 1] + (IF given[k].status = "succeeded" THEN given[k].bytes ELSE 0)]
           cost == CHOOSE f : f = E(f)
           step == [p \in (1..n) \X Int |-> p[2] + Price(given[p[1]])]
<1>1. \A k \in 0..n : Reading!Spent(given, k) = cost[k]
  BY DEF Reading!Spent
<1>2. Len(given) = n
  OBVIOUS
<1>3. step \in [(1..n) \X Int -> Int]
  BY PriceNat
<1>4. PICK f \in [0..n -> Int] : Recursively(f, 0, step, n)
  <2> HIDE DEF step
  <2>1. 0 \in Int
    OBVIOUS
  <2> QED
    BY Zenon, <1>3, <2>1, Recursion
<1>5. f = E(f)
  <2>1. \A k \in 0..n : k # 0 => step[<<k, f[k - 1]>>] = f[k - 1] + Price(given[k])
    BY <1>4
  <2>2. f = [k \in 0..n |-> IF k = 0 THEN 0 ELSE f[k - 1] + Price(given[k])]
    <3> HIDE DEF step
    <3> QED
      BY <1>4, <2>1 DEF Recursively
  <2> QED
    BY <1>2, <2>2 DEF Price
<1>6. cost = E(cost)
  <2> HIDE DEF E
  <2> QED
    BY <1>5
<1>7. cost[0] = 0 /\ \A k \in 1..n : cost[k] = cost[k - 1] + Price(given[k])
  <2>1. cost = [k \in 0..n |-> IF k = 0 THEN 0 ELSE cost[k - 1] + Price(given[k])]
    BY <1>2, <1>6 DEF Price
  <2> HIDE DEF cost
  <2> QED
    BY <2>1
<1> HIDE DEF cost
<1>8. \A k \in 0..n : cost[k] \in Int
  <2> DEFINE S == {k \in Nat : k <= n => cost[k] \in Int}
  <2>1. 0 \in S
    BY <1>7
  <2>2. ASSUME NEW k \in S PROVE k + 1 \in S
    <3> SUFFICES ASSUME k + 1 <= n PROVE cost[k + 1] \in Int
      OBVIOUS
    <3>1. k + 1 \in 1..n /\ (k + 1) - 1 = k /\ cost[k] \in Int
      OBVIOUS
    <3>2. cost[k + 1] = cost[k] + Price(given[k + 1])
      BY <1>7, <3>1
    <3> QED
      BY <3>1, <3>2, PriceNat
  <2>3. S = Nat
    <3> HIDE DEF S
    <3>1. S \in SUBSET Nat
      BY DEF S
    <3> QED
      BY <2>1, <2>2, <3>1, Induction
  <2>4. \A k \in 0..n : k \in S
    <3> HIDE DEF S
    <3> QED
      BY <2>3
  <2> QED
    BY <2>4
<1>9. 0 \in 0..n /\ \A k \in 1..n : k \in 0..n /\ k - 1 \in 0..n
  OBVIOUS
<1> QED
  BY Zenon, <1>1, <1>7, <1>8, <1>9

\* What remains is what the code subtracts from, outcome by outcome.
LEMMA Remains ==
  ASSUME NEW n \in Nat, NEW out \in [1..n -> Outcome]
  PROVE  LET left == Reading!remainingBytes(out) IN
         /\ left[0] = maxOutputBytes
         /\ \A k \in 1..n : left[k] = IF out[k].status = "succeeded" /\ out[k].bytes <= left[k - 1]
                                      THEN left[k - 1] - out[k].bytes ELSE left[k - 1]
         /\ \A k \in 0..n : left[k] \in Nat
<1> DEFINE E(f) == [k \in 0..Len(out) |->
                      IF k = 0 THEN maxOutputBytes
                      ELSE IF out[k].status = "succeeded" /\ out[k].bytes <= f[k - 1] THEN f[k - 1] - out[k].bytes ELSE f[k - 1]]
           left == CHOOSE f : f = E(f)
           Next1(k, x) == IF out[k].status = "succeeded" /\ out[k].bytes <= x THEN x - out[k].bytes ELSE x
           step == [p \in (1..n) \X Int |-> Next1(p[1], p[2])]
<1>1. Reading!remainingBytes(out) = left
  BY DEF Reading!remainingBytes
<1>2. Len(out) = n
  OBVIOUS
<1>3. step \in [(1..n) \X Int -> Int]
  BY DEF Outcome
<1>4. PICK f \in [0..n -> Int] : Recursively(f, maxOutputBytes, step, n)
  <2> HIDE DEF step
  <2>1. maxOutputBytes \in Int
    BY ReadingAssumption
  <2> QED
    BY Zenon, <1>3, <2>1, Recursion
<1>5. f = E(f)
  <2>1. \A k \in 0..n : k # 0 => step[<<k, f[k - 1]>>] = Next1(k, f[k - 1])
    BY <1>4
  <2>2. f = [k \in 0..n |-> IF k = 0 THEN maxOutputBytes ELSE Next1(k, f[k - 1])]
    <3> HIDE DEF step, Next1
    <3> QED
      BY <1>4, <2>1 DEF Recursively
  <2> QED
    BY <1>2, <2>2
<1>6. left = E(left)
  <2> HIDE DEF E
  <2> QED
    BY <1>5
<1>7. left[0] = maxOutputBytes /\ \A k \in 1..n : left[k] = Next1(k, left[k - 1])
  <2>1. left = [k \in 0..n |-> IF k = 0 THEN maxOutputBytes ELSE Next1(k, left[k - 1])]
    BY <1>2, <1>6
  <2> HIDE DEF left, Next1
  <2> QED
    BY <2>1
<1> HIDE DEF left
<1>8. \A k \in 0..n : left[k] \in Nat
  <2> DEFINE S == {k \in Nat : k <= n => left[k] \in Nat}
  <2>1. 0 \in S
    BY <1>7, ReadingAssumption
  <2>2. ASSUME NEW k \in S PROVE k + 1 \in S
    <3> SUFFICES ASSUME k + 1 <= n PROVE left[k + 1] \in Nat
      OBVIOUS
    <3>1. k + 1 \in 1..n /\ (k + 1) - 1 = k /\ left[k] \in Nat
      OBVIOUS
    <3>2. left[k + 1] = Next1(k + 1, left[k])
      BY <1>7, <3>1
    <3>3. out[k + 1].bytes \in Nat
      BY <3>1 DEF Outcome
    <3> QED
      BY <3>1, <3>2, <3>3
  <2>3. S = Nat
    <3> HIDE DEF S
    <3>1. S \in SUBSET Nat
      BY DEF S
    <3> QED
      BY <2>1, <2>2, <3>1, Induction
  <2>4. \A k \in 0..n : k \in S
    <3> HIDE DEF S
    <3> QED
      BY <2>3
  <2> QED
    BY <2>4
<1> QED
  BY <1>1, <1>7, <1>8

\* The pass leaves every outcome in its place; what it gives is within the budget at every outcome, and what it
\* leaves out would not have been.
LEMMA BudgetedIsSpentInOrder ==
  ASSUME NEW n \in Nat, NEW out \in [1..n -> Outcome], \A k \in 1..n : out[k].status \in {"succeeded", "failed"}
  PROVE  LET res == Reading!Budgeted(out) IN
         /\ res \in [1..n -> Outcome]
         /\ \A k \in 1..n : /\ res[k].status = "succeeded" => res[k] = out[k]
                            /\ res[k].status = "failed" <=> out[k].status = "failed"
                            /\ res[k].bytes = out[k].bytes
                            /\ Reading!Spent(res, k) <= maxOutputBytes
                            /\ res[k].status = "omitted" => Reading!Spent(res, k) + res[k].bytes > maxOutputBytes
<1> DEFINE left == Reading!remainingBytes(out)
           res == Reading!Budgeted(out)
           Omitted(k) == out[k].status = "succeeded" /\ out[k].bytes > left[k - 1]
           omit(k) == [out[k] EXCEPT !.status = "omitted", !.value = None]
<1>1. /\ left[0] = maxOutputBytes
      /\ \A k \in 1..n : left[k] = IF out[k].status = "succeeded" /\ out[k].bytes <= left[k - 1]
                                   THEN left[k - 1] - out[k].bytes ELSE left[k - 1]
      /\ \A k \in 0..n : left[k] \in Nat
  BY Remains
<1>2. res = [k \in 1..n |-> IF Omitted(k) THEN omit(k) ELSE out[k]]
  BY DEF Reading!Budgeted
<1> HIDE DEF left, res
<1>3. ASSUME NEW k \in 1..n PROVE omit(k) \in Outcome /\ omit(k).status = "omitted" /\ omit(k).bytes = out[k].bytes
  <2>1. None \in Values /\ out[k] \in Outcome
    BY DEF Values
  <2> QED
    BY <2>1 DEF Outcome
<1>4. res \in [1..n -> Outcome]
  BY <1>2, <1>3
<1>5. ASSUME NEW k \in 1..n
      PROVE  /\ Omitted(k) => res[k].status = "omitted" /\ Price(res[k]) = 0 /\ left[k] = left[k - 1]
             /\ ~Omitted(k) => res[k] = out[k] /\ left[k] = left[k - 1] - Price(res[k])
             /\ res[k].bytes = out[k].bytes
  <2>1. out[k].bytes \in Nat /\ left[k - 1] \in Nat /\ left[k] = IF out[k].status = "succeeded" /\ out[k].bytes <= left[k - 1]
                                   THEN left[k - 1] - out[k].bytes ELSE left[k - 1]
    BY <1>1 DEF Outcome
  <2>2. CASE Omitted(k)
    <3>1. res[k] = omit(k)
      <4> HIDE DEF omit, Omitted
      <4> QED
        BY Zenon, <1>2, <2>2
    <3>2. out[k].status = "succeeded" /\ ~(out[k].bytes <= left[k - 1])
      BY <2>1, <2>2
    <3> QED
      BY <1>3, <2>1, <2>2, <3>1, <3>2 DEF Price
  <2>3. CASE ~Omitted(k)
    <3>1. res[k] = out[k]
      BY <1>2, <2>3
    <3>2. out[k].status = "succeeded" => out[k].bytes <= left[k - 1]
      BY <2>1, <2>3
    <3> QED
      BY <2>1, <2>3, <3>1, <3>2 DEF Price
  <2> QED
    BY <2>2, <2>3
<1>6. /\ Reading!Spent(res, 0) = 0
      /\ \A k \in 1..n : Reading!Spent(res, k) = Reading!Spent(res, k - 1) + Price(res[k])
      /\ \A k \in 0..n : Reading!Spent(res, k) \in Int
  BY <1>4, SpentAdds
<1>7. \A k \in 0..n : Reading!Spent(res, k) = maxOutputBytes - left[k]
  <2> DEFINE S == {k \in Nat : k <= n => Reading!Spent(res, k) = maxOutputBytes - left[k]}
  <2>1. 0 \in S
    BY <1>1, <1>6, ReadingAssumption
  <2>2. ASSUME NEW k \in S PROVE k + 1 \in S
    <3> SUFFICES ASSUME k + 1 <= n PROVE Reading!Spent(res, k + 1) = maxOutputBytes - left[k + 1]
      OBVIOUS
    <3>1. k + 1 \in 1..n /\ (k + 1) - 1 = k /\ k \in 0..n /\ Reading!Spent(res, k) = maxOutputBytes - left[k]
      OBVIOUS
    <3>2. left[k + 1] = left[k] - Price(res[k + 1])
      <4>1. left[k] \in Nat
        BY <1>1, <3>1
      <4> QED
        BY <1>5, <3>1, <4>1
    <3>3. Reading!Spent(res, k + 1) = Reading!Spent(res, k) + Price(res[k + 1])
      BY <1>6, <3>1
    <3>4. Price(res[k + 1]) \in Nat /\ left[k] \in Nat
      BY <1>1, <1>4, <3>1, PriceNat
    <3> QED
      BY <3>1, <3>2, <3>3, <3>4, ReadingAssumption
  <2>3. S = Nat
    <3> HIDE DEF S
    <3>1. S \in SUBSET Nat
      BY DEF S
    <3> QED
      BY <2>1, <2>2, <3>1, Induction
  <2>4. \A k \in 0..n : k \in S
    <3> HIDE DEF S
    <3> QED
      BY <2>3
  <2> QED
    BY <2>4
<1>8. ASSUME NEW k \in 1..n
      PROVE  /\ res[k].status = "succeeded" => res[k] = out[k]
             /\ res[k].status = "failed" <=> out[k].status = "failed"
             /\ res[k].bytes = out[k].bytes
             /\ Reading!Spent(res, k) <= maxOutputBytes
             /\ res[k].status = "omitted" => Reading!Spent(res, k) + res[k].bytes > maxOutputBytes
  <2>1. k \in 0..n /\ k - 1 \in 0..n /\ left[k] \in Nat /\ Reading!Spent(res, k) = maxOutputBytes - left[k]
    BY <1>1, <1>7
  <2>2. Reading!Spent(res, k) <= maxOutputBytes
    BY <2>1, ReadingAssumption
  <2>3. CASE Omitted(k)
    <3>1. res[k].status = "omitted" /\ res[k].bytes = out[k].bytes /\ left[k] = left[k - 1]
      BY <1>5, <2>3
    <3>2. out[k].bytes > left[k] /\ out[k].bytes \in Nat
      BY <2>3, <3>1 DEF Outcome
    <3> QED
      BY <2>1, <2>2, <2>3, <3>1, <3>2, ReadingAssumption
  <2>4. CASE ~Omitted(k)
    BY <1>5, <2>2, <2>4
  <2> QED
    BY <2>3, <2>4
<1> QED
  BY <1>4, <1>8 DEF res

-----------------------------------------------------------------------------
(* Reading: the batch, its workers, and those who write meanwhile. *)

Stages == {"idle", "read", "readFile", "reading", "read-if-changed", "check", "digest", "search", "outside"}
WorkerState ==
  {s \in [at : Stages, op : Nat, file : File \cup {None}, gen : 0..MaxGen, limit : Nat, got : Seq(Piece), mixed : BOOLEAN,
          todo : SUBSET File, found : SUBSET File] : s.at = "idle" => s.op = 0}

ReadingTypes ==
  /\ inode \in [File \X (1..MaxGen) -> Content \cup {None}] /\ path \in [File -> 0..MaxGen] /\ writes \in 0..MaxWrites
  /\ ops \in Batches \cup {<< >>} /\ readingCursor \in 0..Len(ops)
  /\ worker \in [Worker -> WorkerState]
  /\ named \in [1..Len(ops) -> SUBSET Content]
  /\ outcomes \in [1..Len(ops) -> Outcome \cup {None}]

FilesHold == \A f \in File : path[f] # 0 => inode[<<f, path[f]>>] \in Content

\* What the path of an operation in progress names is noted.
SeenIsNoted ==
  \A k \in 1..readingCursor : outcomes[k] = None /\ ops[k].file # None /\ path[ops[k].file] # 0
    => inode[<<ops[k].file, path[ops[k].file]>>] \in named[k]

\* The kinds a worker may be at a stage for.
Stage(at, kind) ==
  /\ kind = "read" => at \in {"read", "readFile", "reading"}
  /\ kind = "read-if-changed" => at \in {"read-if-changed", "check", "reading", "digest"}
  /\ kind = "search" => at \in {"search", "readFile", "reading"}
  /\ kind = "outside" => at = "outside"
  /\ at = "read" => kind = "read"
  /\ at \in {"read-if-changed", "check", "digest"} => kind = "read-if-changed"
  /\ at = "search" => kind = "search"
  /\ at = "outside" => kind = "outside"

Pieces(text, seen) == \A i \in DOMAIN text : \E c \in seen : i \in DOMAIN c /\ text[i] = c[i]
Begins(text, c) == Len(text) <= Len(c) /\ \A i \in 1..Len(text) : text[i] = c[i]
IsOf(text, mixed, seen) == IF mixed THEN Reading!PiecedFrom(text, seen) ELSE text \in seen

\* What a read in progress has is of what was named, up to a length that was named, and how the file begins unless it
\* was written meanwhile.
ReadsOn(s, kind, c, seen) ==
  /\ c \in seen /\ Pieces(s.got, seen) /\ (~s.mixed => Begins(s.got, c))
  /\ kind = "read" => (\E d \in seen : s.limit = Len(d)) /\ (~s.mixed => s.limit = Len(c))
  /\ kind = "read-if-changed" => s.limit = maxFileBytes + 1

\* A worker at a stage: an open file is of a generation that is not to come, and what it holds by then was named;
\* before that nothing was read.
Doing(s) ==
  LET op == ops[s.op] IN
  s.at # "idle" =>
    /\ s.op \in 1..readingCursor /\ outcomes[s.op] = None /\ Stage(s.at, op.kind)
    /\ op.kind # "search" => s.file = op.file
    /\ s.at \notin {"reading", "digest"} => s.got = << >> /\ ~s.mixed
    /\ s.at \in {"readFile", "reading"} => s.file \in File
    /\ s.at \in {"check", "reading", "digest"} => s.gen \in 1..MaxGen /\ (path[s.file] = 0 \/ s.gen <= path[s.file])
    /\ s.at = "reading" => inode[<<s.file, s.gen>>] \in Content
    /\ s.at = "reading" /\ op.kind # "search" => ReadsOn(s, op.kind, inode[<<s.file, s.gen>>], named[s.op])
    /\ s.at = "digest" => Len(s.got) > maxFileBytes \/ IsOf(s.got, s.mixed, named[s.op])

\* No two workers are at the same operation.
Apart == \A v, w \in Worker : worker[v].at # "idle" /\ worker[w].at # "idle" /\ worker[v].op = worker[w].op => v = w

GoodOutcome(op, o, seen) ==
  /\ o \in Outcome /\ o.status \in {"succeeded", "failed"}
  /\ o.status = "succeeded" /\ op.file # None => IsOf(IF o.value = None THEN op.expected ELSE o.value, o.mixed, seen)
  /\ o.status = "succeeded" /\ op.kind = "read-if-changed" => o.bytes <= maxFileBytes

\* Every operation handed out has an outcome, or a worker is at it.
HandedOut ==
  \A k \in 1..readingCursor :
    GoodOutcome(ops[k], outcomes[k], named[k]) \/ \E w \in Worker : worker[w].at # "idle" /\ worker[w].op = k

\* What was not handed out has no outcome.
NotYet == \A k \in 1..Len(ops) : k > readingCursor => outcomes[k] = None

Given ==
  results # << >> =>
    ops # << >> /\ readingCursor = Len(ops) /\ results = Reading!Budgeted(outcomes) /\ \A w \in Worker : worker[w].at = "idle"

ReadingInv ==
  /\ ReadingTypes /\ FilesHold /\ SeenIsNoted /\ (\A w \in Worker : Doing(worker[w])) /\ Apart /\ HandedOut /\ NotYet
  /\ Given

LEMMA OpOK ==
  ASSUME ReadingTypes, NEW k \in 1..Len(ops)
  PROVE  ops[k] \in Operation /\ (ops[k].file = None <=> ops[k].kind \in {"search", "outside"})
<1>1. CASE ops = << >>
  BY <1>1
<1>2. CASE ops \in Batches
  BY <1>2, ReadingAssumption
<1> QED
  BY <1>1, <1>2 DEF ReadingTypes

LEMMA CursorOK ==
  ASSUME ReadingTypes PROVE Len(ops) \in Nat /\ readingCursor \in Nat /\ 1..readingCursor \subseteq 1..Len(ops)
<1>1. Len(ops) \in Nat
  BY ReadingAssumption DEF ReadingTypes
<1> QED
  BY <1>1 DEF ReadingTypes

LEMMA IdleOK ==
  /\ Reading!Idle \in WorkerState /\ Reading!Idle.at = "idle" /\ Reading!Idle.gen = 0 /\ Reading!Idle.limit = 0
  /\ Reading!Idle.got = << >> /\ Reading!Idle.mixed = FALSE
<1>1. << >> \in Seq(Piece) /\ 0 \in 0..MaxGen /\ {} \in SUBSET File
  BY ReadingAssumption
<1> QED
  BY <1>1 DEF Reading!Idle, WorkerState, Stages

LEMMA ReadingInit == Init => ReadingInv
<1> SUFFICES ASSUME Reading!Init PROVE ReadingInv
  BY DEF Init
<1> USE ReadingAssumption DEF Reading!Init
<1>1. ReadingTypes
  <2>1. Reading!Idle \in WorkerState
    BY IdleOK
  <2>2. inode \in [File \X (1..MaxGen) -> Content \cup {None}]
    OBVIOUS
  <2>3. ops = << >> /\ Len(ops) = 0 /\ named \in [1..Len(ops) -> SUBSET Content] /\ outcomes \in [1..Len(ops) -> Outcome \cup {None}]
    OBVIOUS
  <2> QED
    BY <2>1, <2>2, <2>3 DEF ReadingTypes
<1>2. FilesHold
  BY DEF FilesHold
<1>3. SeenIsNoted /\ HandedOut /\ NotYet /\ Given
  BY DEF SeenIsNoted, HandedOut, NotYet, Given
<1>4. (\A w \in Worker : Doing(worker[w])) /\ Apart
  BY DEF Doing, Apart, Reading!Idle
<1> QED
  BY <1>1, <1>2, <1>3, <1>4 DEF ReadingInv

LEMMA ReadingStep == [Next]_vars => [Reading!Next]_(Reading!vars)
BY DEF Next, vars, readingVars, Reading!vars

\* What is noted stays noted.
LEMMA IsOfMore ==
  ASSUME NEW text, NEW mixed, NEW seen, NEW more, seen \subseteq more
  PROVE  /\ Pieces(text, seen) => Pieces(text, more)
         /\ IsOf(text, mixed, seen) => IsOf(text, mixed, more)
BY DEF IsOf, Pieces, Reading!PiecedFrom

LEMMA GoodStays ==
  ASSUME NEW op, NEW o, NEW seen, NEW more, seen \subseteq more, GoodOutcome(op, o, seen) PROVE GoodOutcome(op, o, more)
BY IsOfMore DEF GoodOutcome

\* The files may change in any way that moves no path back to an old generation and touches the content only of the
\* generation that is named: what is noted keeps up, and who reads what is written has it mixed.
NotedNow ==
  named' = [k \in DOMAIN named |->
              LET f == ops[k].file IN
              IF outcomes[k] = None /\ f # None /\ path'[f] # 0 THEN named[k] \cup {inode'[<<f, path'[f]>>]} ELSE named[k]]

MixedNow ==
  /\ worker' = [w \in Worker |-> worker'[w]]
  /\ \A w \in Worker :
       \/ worker'[w] = worker[w] /\ (worker[w].at = "reading" =>
            inode'[<<worker[w].file, worker[w].gen>>] = inode[<<worker[w].file, worker[w].gen>>])
       \/ worker[w].at = "reading" /\ worker'[w] = [worker[w] EXCEPT !.mixed = TRUE]

LEMMA FilesChange ==
  ASSUME ReadingInv, results = << >>, NotedNow, MixedNow,
         inode' \in [File \X (1..MaxGen) -> Content \cup {None}], path' \in [File -> 0..MaxGen], writes' \in 0..MaxWrites,
         FilesHold', UNCHANGED <<ops, readingCursor, outcomes, results>>,
         \A f \in File, g \in 1..MaxGen :
           path[f] = 0 \/ g <= path[f] => /\ path'[f] = 0 \/ g <= path'[f]
                                          /\ inode'[<<f, g>>] = inode[<<f, g>>] \/ g = path'[f]
  PROVE  ReadingInv'
<1>1. /\ DOMAIN named = 1..Len(ops) /\ 1..readingCursor \subseteq 1..Len(ops) /\ ReadingTypes
      /\ \A k \in 1..Len(ops) : ops[k].file # None => ops[k].file \in File
  BY OpOK, CursorOK DEF ReadingInv, ReadingTypes, Operation
<1>2. ASSUME NEW k \in 1..Len(ops)
      PROVE  /\ named[k] \subseteq named'[k] /\ named'[k] \subseteq Content
             /\ outcomes[k] = None /\ ops[k].file # None /\ path'[ops[k].file] # 0
                  => inode'[<<ops[k].file, path'[ops[k].file]>>] \in named'[k]
  <2>1. named'[k] = LET f == ops[k].file IN
                    IF outcomes[k] = None /\ f # None /\ path'[f] # 0 THEN named[k] \cup {inode'[<<f, path'[f]>>]} ELSE named[k]
    BY <1>1 DEF NotedNow
  <2>2. named[k] \subseteq Content
    BY <1>1 DEF ReadingTypes
  <2>3. CASE outcomes[k] = None /\ ops[k].file # None /\ path'[ops[k].file] # 0
    <3>1. ops[k].file \in File /\ named'[k] = named[k] \cup {inode'[<<ops[k].file, path'[ops[k].file]>>]}
      BY <1>1, <2>1, <2>3
    <3>2. inode'[<<ops[k].file, path'[ops[k].file]>>] \in Content
      BY <2>3, <3>1 DEF FilesHold
    <3> QED
      BY <2>2, <3>1, <3>2
  <2>4. CASE ~(outcomes[k] = None /\ ops[k].file # None /\ path'[ops[k].file] # 0)
    BY <2>1, <2>2, <2>4
  <2> QED
    BY <2>3, <2>4
<1>3. ASSUME NEW w \in Worker
      PROVE  LET s == worker[w]  t == worker'[w] IN
             /\ t \in WorkerState /\ t.at = s.at /\ t.op = s.op /\ t.file = s.file /\ t.gen = s.gen /\ t.limit = s.limit
             /\ t.got = s.got /\ t.mixed \in BOOLEAN /\ (s.at # "reading" => t.mixed = s.mixed)
             /\ s.at = "reading" /\ ~t.mixed => ~s.mixed /\ inode'[<<s.file, s.gen>>] = inode[<<s.file, s.gen>>]
  <2>1. worker[w] \in WorkerState
    BY <1>1 DEF ReadingTypes
  <2>2. CASE worker'[w] = worker[w] /\ (worker[w].at = "reading" =>
               inode'[<<worker[w].file, worker[w].gen>>] = inode[<<worker[w].file, worker[w].gen>>])
    BY <2>1, <2>2 DEF WorkerState
  <2>3. CASE worker[w].at = "reading" /\ worker'[w] = [worker[w] EXCEPT !.mixed = TRUE]
    BY <2>1, <2>3 DEF WorkerState
  <2> QED
    BY <2>2, <2>3 DEF MixedNow
<1>4. ReadingTypes'
  <2>1. named' \in [1..Len(ops) -> SUBSET Content]
    <3>1. named' = [k \in 1..Len(ops) |-> named'[k]]
      BY <1>1 DEF NotedNow
    <3> QED
      BY <1>2, <3>1
  <2>2. worker' \in [Worker -> WorkerState]
    BY <1>3 DEF MixedNow
  <2> QED
    BY <1>1, <2>1, <2>2 DEF ReadingTypes
<1>5. SeenIsNoted'
  BY <1>1, <1>2 DEF SeenIsNoted
<1>6. ASSUME NEW w \in Worker PROVE Doing(worker[w])'
  <2> DEFINE s == worker[w]
             t == worker'[w]
             kind == ops[s.op].kind
             c == inode[<<s.file, s.gen>>]
             d == inode'[<<s.file, s.gen>>]
             seen == named[s.op]
             more == named'[s.op]
  <2> SUFFICES ASSUME s.at # "idle" PROVE Doing(worker[w])'
    BY <1>3 DEF Doing
  <2>1. /\ s.op \in 1..readingCursor /\ outcomes[s.op] = None /\ Stage(s.at, kind)
        /\ kind # "search" => s.file = ops[s.op].file
        /\ s.at \notin {"reading", "digest"} => s.got = << >> /\ ~s.mixed
        /\ s.at \in {"readFile", "reading"} => s.file \in File
        /\ s.at \in {"check", "reading", "digest"} => s.gen \in 1..MaxGen /\ (path[s.file] = 0 \/ s.gen <= path[s.file])
        /\ s.at = "reading" => c \in Content
        /\ s.at = "reading" /\ kind # "search" => ReadsOn(s, kind, c, seen)
        /\ s.at = "digest" => Len(s.got) > maxFileBytes \/ IsOf(s.got, s.mixed, seen)
    BY DEF ReadingInv, Doing
  <2>2. s.op \in 1..Len(ops) /\ seen \subseteq more
    BY <1>1, <1>2, <2>1
  <2>3. s.at \in {"check", "reading", "digest"} => s.file \in File
    <3>1. s.at \in {"check", "digest"} => kind = "read-if-changed"
      BY <2>1 DEF Stage
    <3> QED
      BY <1>1, <2>1, <2>2, <3>1, OpOK
  <2>4. s.at \in {"check", "reading", "digest"} => (path'[s.file] = 0 \/ s.gen <= path'[s.file]) /\ (d = c \/ s.gen = path'[s.file])
    BY <2>1, <2>3
  <2>5. s.at = "reading" => d \in Content
    <3>1. CASE d = c
      BY <2>1, <3>1
    <3>2. CASE s.at = "reading" /\ s.gen = path'[s.file]
      <4>1. path'[s.file] # 0
        BY <2>1, <3>2, ReadingAssumption
      <4> QED
        BY <2>3, <3>2, <4>1 DEF FilesHold
    <3> QED
      BY <2>4, <3>1, <3>2
  <2>6. s.at = "reading" /\ kind # "search" => d \in more
    <3> SUFFICES ASSUME s.at = "reading", kind # "search" PROVE d \in more
      OBVIOUS
    <3>1. CASE d = c
      BY <2>1, <2>2, <3>1 DEF ReadsOn
    <3>2. CASE s.gen = path'[s.file]
      <4>1. s.gen # 0 /\ s.file = ops[s.op].file /\ s.file # None
        BY <2>1, <2>3, ReadingAssumption
      <4> QED
        BY <1>2, <2>1, <2>2, <3>2, <4>1
    <3> QED
      BY <2>4, <3>1, <3>2
  <2>7. /\ t.at = s.at /\ t.op = s.op /\ t.file = s.file /\ t.gen = s.gen /\ t.limit = s.limit /\ t.got = s.got
        /\ t.mixed \in BOOLEAN /\ (s.at # "reading" => t.mixed = s.mixed)
        /\ s.at = "reading" /\ ~t.mixed => ~s.mixed /\ d = c
    BY <1>3
  <2>8. s.at = "reading" /\ kind # "search" => ReadsOn(t, kind, d, more)
    <3> SUFFICES ASSUME s.at = "reading", kind # "search" PROVE ReadsOn(t, kind, d, more)
      OBVIOUS
    <3>1. ReadsOn(s, kind, c, seen)
      BY <2>1
    <3> HIDE DEF s, t, kind, c, d, seen, more
    <3>2. Pieces(t.got, more)
      BY <2>2, <2>7, <3>1, IsOfMore DEF ReadsOn
    <3>3. ~t.mixed => Begins(t.got, d) /\ (kind = "read" => t.limit = Len(d))
      BY <2>7, <3>1 DEF ReadsOn
    <3>4. kind = "read" => \E e \in more : t.limit = Len(e)
      BY <2>2, <2>7, <3>1 DEF ReadsOn
    <3>5. kind = "read-if-changed" => t.limit = maxFileBytes + 1
      BY <2>7, <3>1 DEF ReadsOn
    <3> QED
      BY <2>6, <3>2, <3>3, <3>4, <3>5 DEF ReadsOn
  <2>9. s.at = "digest" => Len(t.got) > maxFileBytes \/ IsOf(t.got, t.mixed, more)
    <3> HIDE DEF s, t, kind, c, d, seen, more
    <3> QED
      BY <2>1, <2>2, <2>7, IsOfMore
  <2> HIDE DEF kind, c, d, seen, more
  <2> QED
    BY <2>1, <2>4, <2>5, <2>7, <2>8, <2>9 DEF Doing, kind, d, more
<1>7. HandedOut'
  <2> SUFFICES ASSUME NEW k \in 1..readingCursor
               PROVE  GoodOutcome(ops[k], outcomes[k], named'[k]) \/ \E w \in Worker : worker'[w].at # "idle" /\ worker'[w].op = k
    BY DEF HandedOut
  <2>1. CASE GoodOutcome(ops[k], outcomes[k], named[k])
    BY <1>1, <1>2, <2>1, GoodStays
  <2>2. CASE \E w \in Worker : worker[w].at # "idle" /\ worker[w].op = k
    BY <1>3, <2>2
  <2> QED
    BY <2>1, <2>2 DEF ReadingInv, HandedOut
<1>8. Apart' /\ NotYet'
  <2>1. \A w \in Worker : worker'[w].at = worker[w].at /\ worker'[w].op = worker[w].op
    BY <1>3
  <2>2. Apart'
    BY <2>1 DEF ReadingInv, Apart
  <2>3. NotYet'
    BY DEF ReadingInv, NotYet
  <2> QED
    BY <2>2, <2>3
<1>9. Given'
  BY DEF Given
<1> QED
  BY <1>4, <1>5, <1>6, <1>7, <1>8, <1>9 DEF ReadingInv

LEMMA OthersNote ==
  ASSUME NEW g \in File, NEW c \in Content, Reading!Write(g, c) \/ Reading!Replace(g, c) PROVE NotedNow
<1>1. CASE Reading!Write(g, c)
  <2>1. path' = path /\ Reading!Noted(path, inode')
    BY <1>1 DEF Reading!Write
  <2> QED
    BY <2>1 DEF Reading!Noted, NotedNow
<1>2. CASE Reading!Replace(g, c)
  BY <1>2 DEF Reading!Replace, Reading!Noted, NotedNow
<1> QED
  BY <1>1, <1>2

\* Who reads has a file and a generation of it.
LEMMA ReaderHolds ==
  ASSUME ReadingInv, NEW w \in Worker, worker[w].at = "reading"
  PROVE  /\ worker[w].file \in File /\ worker[w].gen \in 1..MaxGen
         /\ path[worker[w].file] = 0 \/ worker[w].gen <= path[worker[w].file]
BY DEF ReadingInv, Doing

LEMMA OthersInv ==
  ASSUME ReadingInv, NEW f \in File, NEW c \in Content, Reading!Write(f, c) \/ Reading!Replace(f, c) PROVE ReadingInv'
<1>0. /\ inode \in [File \X (1..MaxGen) -> Content \cup {None}] /\ path \in [File -> 0..MaxGen] /\ writes \in 0..MaxWrites
      /\ path[f] \in 0..MaxGen /\ FilesHold /\ worker \in [Worker -> WorkerState]
  BY DEF ReadingInv, ReadingTypes
<1>1. writes' \in 0..MaxWrites /\ results = << >> /\ UNCHANGED <<ops, readingCursor, outcomes, results>> /\ NotedNow
  <2>1. writes < MaxWrites /\ writes' = writes + 1 /\ results = << >> /\ UNCHANGED <<ops, readingCursor, outcomes, results>>
    BY DEF Reading!Write, Reading!Replace
  <2>2. writes' \in 0..MaxWrites
    BY <1>0, <2>1, ReadingAssumption
  <2> QED
    BY <2>1, <2>2, OthersNote
<1>2. CASE Reading!Write(f, c)
  <2>1. path[f] \in 1..MaxGen /\ inode' = [inode EXCEPT ![<<f, path[f]>>] = c] /\ path' = path
    BY <1>0, <1>2, ReadingAssumption DEF Reading!Write
  <2>2. inode' \in [File \X (1..MaxGen) -> Content \cup {None}]
    BY <1>0, <2>1
  <2>3. \A g \in File, n \in 1..MaxGen : inode'[<<g, n>>] = IF g = f /\ n = path[f] THEN c ELSE inode[<<g, n>>]
    BY <1>0, <2>1
  <2>4. FilesHold'
    BY <1>0, <2>1, <2>3, ReadingAssumption DEF FilesHold
  <2>5. MixedNow
    <3>1. worker' = [w \in Worker |-> IF Reading!Reads(worker[w], f) THEN [worker[w] EXCEPT !.mixed = TRUE] ELSE worker[w]]
      BY <1>2 DEF Reading!Write
    <3>2. ASSUME NEW w \in Worker, ~Reading!Reads(worker[w], f)
          PROVE  worker'[w] = worker[w] /\ (worker[w].at = "reading" =>
                   inode'[<<worker[w].file, worker[w].gen>>] = inode[<<worker[w].file, worker[w].gen>>])
      <4>1. worker'[w] = worker[w]
        BY <3>1, <3>2
      <4>2. ASSUME worker[w].at = "reading"
            PROVE  inode'[<<worker[w].file, worker[w].gen>>] = inode[<<worker[w].file, worker[w].gen>>]
        <5>1. worker[w].file \in File /\ worker[w].gen \in 1..MaxGen
          BY <4>2, ReaderHolds
        <5>2. ~(worker[w].file = f /\ worker[w].gen = path[f])
          BY <3>2, <4>2 DEF Reading!Reads
        <5> QED
          BY <2>3, <5>1, <5>2
      <4> QED
        BY <4>1, <4>2
    <3>3. ASSUME NEW w \in Worker, Reading!Reads(worker[w], f)
          PROVE  worker[w].at = "reading" /\ worker'[w] = [worker[w] EXCEPT !.mixed = TRUE]
      BY <3>1, <3>3 DEF Reading!Reads
    <3>4. worker' = [w \in Worker |-> worker'[w]]
      BY <3>1
    <3> QED
      BY <3>2, <3>3, <3>4 DEF MixedNow
  <2> QED
    BY <1>0, <1>1, <2>1, <2>2, <2>3, <2>4, <2>5, FilesChange
<1>3. CASE Reading!Replace(f, c)
  <2>1. path[f] \in 1..(MaxGen - 1) /\ worker' = worker
    BY <1>3 DEF Reading!Replace
  <2>0. ASSUME \A g \in File, n \in 1..MaxGen : path[g] = 0 \/ n <= path[g] => inode'[<<g, n>>] = inode[<<g, n>>]
        PROVE  MixedNow
    <3>1. ASSUME NEW w \in Worker, worker[w].at = "reading"
          PROVE  inode'[<<worker[w].file, worker[w].gen>>] = inode[<<worker[w].file, worker[w].gen>>]
      BY <2>0, <3>1, ReaderHolds
    <3> QED
      BY <1>0, <2>1, <3>1 DEF MixedNow
  <2>2. CASE path' = [path EXCEPT ![f] = @ + 1] /\ inode' = [inode EXCEPT ![<<f, path[f] + 1>>] = c]
    <3>1. path[f] + 1 \in 1..MaxGen /\ path[f] \in 1..MaxGen
      BY <2>1, ReadingAssumption
    <3>2. inode' \in [File \X (1..MaxGen) -> Content \cup {None}] /\ path' \in [File -> 0..MaxGen]
      BY <1>0, <2>2, <3>1
    <3>3. /\ \A g \in File, n \in 1..MaxGen : inode'[<<g, n>>] = IF g = f /\ n = path[f] + 1 THEN c ELSE inode[<<g, n>>]
          /\ path'[f] = path[f] + 1 /\ \A g \in File : g # f => path'[g] = path[g]
      BY <1>0, <2>2, <3>1
    <3>4. FilesHold'
      <4> SUFFICES ASSUME NEW g \in File, path'[g] # 0 PROVE inode'[<<g, path'[g]>>] \in Content
        BY DEF FilesHold
      <4>1. path'[g] \in 1..MaxGen
        BY <3>2, ReadingAssumption
      <4> QED
        BY <1>0, <3>1, <3>3, <4>1 DEF FilesHold
    <3>5. ASSUME NEW g \in File, NEW n \in 1..MaxGen, path[g] = 0 \/ n <= path[g]
          PROVE  (path'[g] = 0 \/ n <= path'[g]) /\ inode'[<<g, n>>] = inode[<<g, n>>]
      BY <1>0, <3>1, <3>3, <3>5, ReadingAssumption
    <3>6. MixedNow
      BY <2>0, <3>5
    <3> QED
      BY <1>1, <3>2, <3>4, <3>5, <3>6, FilesChange
  <2>3. CASE path' = [path EXCEPT ![f] = 0] /\ inode' = inode
    <3>1. path' \in [File -> 0..MaxGen] /\ path'[f] = 0 /\ \A g \in File : g # f => path'[g] = path[g]
      BY <1>0, <2>3, ReadingAssumption
    <3>2. FilesHold'
      BY <1>0, <2>3, <3>1 DEF FilesHold
    <3>3. \A g \in File, n \in 1..MaxGen : path[g] = 0 \/ n <= path[g]
            => (path'[g] = 0 \/ n <= path'[g]) /\ (inode'[<<g, n>>] = inode[<<g, n>>] \/ n = path'[g])
      BY <2>3, <3>1
    <3>4. MixedNow
      BY <2>0, <2>3
    <3> QED
      BY <1>0, <1>1, <2>3, <3>1, <3>2, <3>3, <3>4, FilesChange
  <2> QED
    BY <1>3, <2>2, <2>3 DEF Reading!Replace
<1> QED
  BY <1>2, <1>3

LEMMA BatchInv ==
  ASSUME ReadingInv, NEW b \in Batches, Reading!batch(b) PROVE ReadingInv'
<1>1. /\ ops = << >> /\ ops' = b /\ named' = [k \in 1..Len(b) |-> {}] /\ outcomes' = [k \in 1..Len(b) |-> None]
      /\ UNCHANGED <<inode, path, writes, readingCursor, worker, results>>
  BY ReadingAssumption DEF Reading!batch
<1>2. readingCursor = 0 /\ Len(b) \in Nat /\ results = << >>
  <2>1. readingCursor \in 0..Len(<< >>)
    BY <1>1 DEF ReadingInv, ReadingTypes
  <2> QED
    BY <1>1, <2>1, ReadingAssumption DEF ReadingInv, Given
<1>3. ReadingTypes'
  BY <1>1, <1>2 DEF ReadingInv, ReadingTypes
<1>4. \A w \in Worker : worker[w].at = "idle"
  <2>1. 1..readingCursor = {}
    BY <1>2
  <2> QED
    BY <2>1 DEF ReadingInv, Doing
<1>5. (\A w \in Worker : Doing(worker[w]))' /\ Apart' /\ FilesHold' /\ Given'
  BY <1>1, <1>2, <1>4 DEF Doing, Apart, ReadingInv, FilesHold, Given
<1>6. SeenIsNoted' /\ HandedOut' /\ NotYet'
  BY <1>1, <1>2 DEF SeenIsNoted, HandedOut, NotYet
<1> QED
  BY <1>3, <1>5, <1>6 DEF ReadingInv

LEMMA TakesUp ==
  ASSUME NEW at \in Stages \ {"idle"}, NEW k \in Nat, NEW f \in File \cup {None}, NEW t \in SUBSET File
  PROVE  LET s == [Reading!Idle EXCEPT !.at = at, !.op = k, !.file = f, !.todo = t] IN
         s \in WorkerState /\ s.at = at /\ s.op = k /\ s.file = f /\ s.got = << >> /\ ~s.mixed
BY IdleOK DEF WorkerState

LEMMA TakeInv ==
  ASSUME ReadingInv, NEW w \in Worker, Reading!Take(w) PROVE ReadingInv'
<1> DEFINE k == readingCursor + 1
           op == ops[k]
           t == IF op.kind = "search" THEN {f \in File : path[f] # 0} ELSE {}
           s == [Reading!Idle EXCEPT !.at = op.kind, !.op = k, !.file = op.file, !.todo = t]
           seen == IF op.file = None \/ path[op.file] = 0 THEN {} ELSE {inode[<<op.file, path[op.file]>>]}
<1>1. /\ worker[w].at = "idle" /\ readingCursor < Len(ops) /\ readingCursor' = k /\ worker' = [worker EXCEPT ![w] = s]
      /\ named' = [named EXCEPT ![k] = seen] /\ UNCHANGED <<inode, path, writes, ops, outcomes, results>>
  BY DEF Reading!Take, Reading!Now
<1>2. k \in 1..Len(ops) /\ Len(ops) \in Nat /\ readingCursor \in Nat /\ 1..k = (1..readingCursor) \cup {k} /\ k \notin 1..readingCursor
  BY <1>1, CursorOK DEF ReadingInv
<1>3. op \in Operation /\ (op.file = None <=> op.kind \in {"search", "outside"})
  BY <1>2, OpOK DEF ReadingInv
<1>4. op.file # None => op.file \in File /\ path[op.file] \in 0..MaxGen
  BY <1>3 DEF Operation, ReadingInv, ReadingTypes
<1>5. op.kind \in {"read", "read-if-changed", "search", "outside"}
  BY <1>3 DEF Operation, Reading!Kind
<1>6. s \in WorkerState /\ s.at = op.kind /\ s.op = k /\ s.file = op.file /\ s.got = << >> /\ ~s.mixed
  <2>1. t \in SUBSET File
    OBVIOUS
  <2>2. op.file \in File \cup {None} /\ << >> \in Seq(Piece)
    BY <1>4
  <2>3. k \in Nat /\ op.kind \in Stages \ {"idle"}
    BY <1>2, <1>5 DEF Stages
  <2> HIDE DEF t, op, k
  <2> QED
    BY <2>1, <2>2, <2>3, TakesUp
<1> HIDE DEF s
<1>7. seen \subseteq Content
  BY <1>4 DEF ReadingInv, FilesHold
<1>8. ReadingTypes'
  <2>1. worker' \in [Worker -> WorkerState] /\ named' \in [1..Len(ops) -> SUBSET Content]
    BY <1>1, <1>2, <1>6, <1>7 DEF ReadingInv, ReadingTypes
  <2>2. readingCursor' \in 0..Len(ops)
    BY <1>1, <1>2
  <2> QED
    BY <1>1, <2>1, <2>2 DEF ReadingInv, ReadingTypes
<1>9. /\ named'[k] = seen /\ \A n \in 1..readingCursor : named'[n] = named[n]
      /\ worker'[w] = s /\ \A v \in Worker : v # w => worker'[v] = worker[v]
  BY <1>1, <1>2 DEF ReadingInv, ReadingTypes
<1> HIDE DEF seen
<1>10. FilesHold'
  BY <1>1 DEF ReadingInv, FilesHold
<1>11. SeenIsNoted'
  <2> SUFFICES ASSUME NEW n \in 1..k, outcomes[n] = None, ops[n].file # None, path[ops[n].file] # 0
               PROVE  inode[<<ops[n].file, path[ops[n].file]>>] \in named'[n]
    BY <1>1 DEF SeenIsNoted
  <2>1. CASE n = k
    BY <1>9, <2>1 DEF seen
  <2>2. CASE n # k
    BY <1>2, <1>9, <2>2 DEF ReadingInv, SeenIsNoted
  <2> QED
    BY <2>1, <2>2
<1>12. ASSUME NEW v \in Worker PROVE Doing(worker[v])'
  <2>1. CASE v = w
    <3>1. outcomes[k] = None
      BY <1>2 DEF ReadingInv, NotYet
    <3> QED
      BY <1>1, <1>2, <1>5, <1>6, <1>9, <2>1, <3>1 DEF Doing, Stage
  <2>2. CASE v # w
    <3>1. worker'[v] = worker[v] /\ Doing(worker[v])
      BY <1>9, <2>2 DEF ReadingInv
    <3>2. worker[v].at # "idle" => worker[v].op \in 1..k /\ named'[worker[v].op] = named[worker[v].op]
      BY <1>2, <1>9, <3>1 DEF Doing
    <3> QED
      BY <1>1, <3>1, <3>2 DEF Doing
  <2> QED
    BY <2>1, <2>2
<1>13. HandedOut'
  <2> SUFFICES ASSUME NEW n \in 1..k
               PROVE  GoodOutcome(ops[n], outcomes[n], named'[n]) \/ \E v \in Worker : worker'[v].at # "idle" /\ worker'[v].op = n
    BY <1>1 DEF HandedOut
  <2>1. CASE n = k
    BY <1>5, <1>6, <1>9, <2>1
  <2>2. CASE n # k
    <3>1. n \in 1..readingCursor /\ named'[n] = named[n]
      BY <1>2, <1>9, <2>2
    <3> QED
      BY <1>1, <1>9, <3>1 DEF ReadingInv, HandedOut
  <2> QED
    BY <2>1, <2>2
<1>14. Given'
  <2>1. results = << >>
    BY <1>1, <1>2 DEF ReadingInv, Given
  <2> QED
    BY <1>1, <2>1 DEF Given
<1>15. Apart'
  <2>1. \A v \in Worker : worker[v].at # "idle" => worker[v].op # k
    BY <1>2 DEF ReadingInv, Doing
  <2> QED
    BY <1>6, <1>9, <2>1 DEF ReadingInv, Apart
<1>16. NotYet'
  BY <1>1, <1>2 DEF ReadingInv, NotYet
<1> QED
  BY <1>8, <1>10, <1>11, <1>12, <1>13, <1>14, <1>15, <1>16 DEF ReadingInv

\* The operation of a worker that is at it, and its file.
LEMMA AtWork ==
  ASSUME ReadingInv, NEW w \in Worker, worker[w].at # "idle"
  PROVE  /\ worker[w] \in WorkerState /\ results = << >>
         /\ worker[w].op \in 1..readingCursor /\ worker[w].op \in 1..Len(ops)
         /\ ops[worker[w].op] \in Operation /\ Stage(worker[w].at, ops[worker[w].op].kind)
         /\ ops[worker[w].op].kind \in {"read", "read-if-changed"} =>
              ops[worker[w].op].file \in File /\ worker[w].file = ops[worker[w].op].file
         /\ named[worker[w].op] \subseteq Content /\ outcomes[worker[w].op] = None
<1>1. /\ worker[w] \in WorkerState /\ worker[w].op \in 1..readingCursor /\ worker[w].op \in 1..Len(ops)
      /\ Stage(worker[w].at, ops[worker[w].op].kind) /\ outcomes[worker[w].op] = None
      /\ ops[worker[w].op].kind # "search" => worker[w].file = ops[worker[w].op].file
  BY CursorOK DEF ReadingInv, ReadingTypes, Doing
<1>2. ops[worker[w].op] \in Operation /\ (ops[worker[w].op].kind \in {"read", "read-if-changed"} => ops[worker[w].op].file \in File)
  BY <1>1, OpOK DEF ReadingInv, Operation
<1> QED
  BY <1>1, <1>2 DEF ReadingInv, ReadingTypes, Given

LEMMA FreshWhenOpened ==
  ASSUME ReadingInv, NEW w \in Worker, worker[w].at \notin {"idle", "reading", "digest"}
  PROVE  worker[w].got = << >> /\ ~worker[w].mixed
BY DEF ReadingInv, Doing

LEMMA EndInv ==
  ASSUME ReadingInv, NEW w \in Worker, worker[w].at # "idle", NEW o, Reading!End(w, o),
         GoodOutcome(ops[worker[w].op], o, named[worker[w].op])
  PROVE  ReadingInv'
<1> DEFINE k == worker[w].op
<1>1. /\ outcomes' = [outcomes EXCEPT ![k] = o] /\ worker' = [worker EXCEPT ![w] = Reading!Idle]
      /\ UNCHANGED <<inode, path, writes, ops, readingCursor, named, results>>
  BY DEF Reading!End
<1>2. k \in 1..Len(ops) /\ k \in 1..readingCursor /\ results = << >> /\ 1..readingCursor \subseteq 1..Len(ops)
  BY AtWork, CursorOK DEF ReadingInv
<1>3. Reading!Idle \in WorkerState /\ Reading!Idle.at = "idle" /\ o \in Outcome
  BY ReadingAssumption DEF Reading!Idle, WorkerState, Stages, GoodOutcome
<1>4. ReadingTypes'
  BY <1>1, <1>2, <1>3 DEF ReadingInv, ReadingTypes
<1>5. /\ outcomes'[k] = o /\ \A n \in 1..Len(ops) : n # k => outcomes'[n] = outcomes[n]
      /\ worker'[w] = Reading!Idle /\ \A v \in Worker : v # w => worker'[v] = worker[v]
  BY <1>1, <1>2 DEF ReadingInv, ReadingTypes
<1>6. FilesHold' /\ SeenIsNoted' /\ Given' /\ NotYet'
  <2>1. FilesHold' /\ Given'
    BY <1>1, <1>2 DEF ReadingInv, FilesHold, Given
  <2>2. outcomes[k] = None
    BY AtWork
  <2>3. SeenIsNoted'
    BY <1>1, <1>2, <1>5, <2>2 DEF ReadingInv, SeenIsNoted
  <2>4. NotYet'
    <3>1. \A n \in 1..Len(ops) : n > readingCursor => n # k
      BY <1>2, CursorOK DEF ReadingInv
    <3> QED
      BY <1>1, <1>5, <3>1 DEF ReadingInv, NotYet
  <2> QED
    BY <2>1, <2>3, <2>4
<1>7. ASSUME NEW v \in Worker PROVE Doing(worker[v])'
  <2>1. CASE v = w
    BY <1>3, <1>5, <2>1 DEF Doing
  <2>2. CASE v # w
    <3>1. worker[v].at # "idle" => worker[v].op # k /\ worker[v].op \in 1..Len(ops)
      BY <1>2, <2>2 DEF ReadingInv, Apart, Doing
    <3>2. worker[v].at # "idle" => outcomes'[worker[v].op] = outcomes[worker[v].op]
      BY <1>5, <3>1
    <3> QED
      BY <1>1, <1>5, <2>2, <3>2 DEF Doing, ReadingInv
  <2> QED
    BY <2>1, <2>2
<1>8. HandedOut'
  <2> SUFFICES ASSUME NEW n \in 1..readingCursor, n # k
               PROVE  GoodOutcome(ops[n], outcomes'[n], named[n]) \/ \E v \in Worker : worker'[v].at # "idle" /\ worker'[v].op = n
    BY <1>1, <1>5 DEF HandedOut
  <2>1. outcomes'[n] = outcomes[n]
    BY <1>2, <1>5
  <2>2. CASE \E v \in Worker : worker[v].at # "idle" /\ worker[v].op = n
    BY <1>5, <2>2
  <2> QED
    BY <2>1, <2>2 DEF ReadingInv, HandedOut
<1>9. Apart'
  BY <1>3, <1>5 DEF ReadingInv, Apart
<1> QED
  BY <1>4, <1>6, <1>7, <1>8, <1>9 DEF ReadingInv

LEMMA GotoInv ==
  ASSUME ReadingInv, NEW w \in Worker, worker[w].at # "idle", NEW s \in WorkerState, Reading!Goto(w, s),
         s.at # "idle", s.op = worker[w].op, Doing(s)
  PROVE  ReadingInv'
<1>1. worker' = [worker EXCEPT ![w] = s] /\ UNCHANGED <<inode, path, writes, ops, readingCursor, outcomes, named, results>>
  BY DEF Reading!Goto
<1>2. results = << >>
  BY AtWork
<1>3. worker'[w] = s /\ \A v \in Worker : v # w => worker'[v] = worker[v]
  BY <1>1 DEF ReadingInv, ReadingTypes
<1>4. ReadingTypes' /\ FilesHold' /\ SeenIsNoted' /\ Given'
  BY <1>1, <1>2 DEF ReadingInv, ReadingTypes, FilesHold, SeenIsNoted, Given
<1>5. ASSUME NEW v \in Worker PROVE Doing(worker[v])'
  <2>1. CASE v = w
    BY <1>1, <1>3, <2>1 DEF Doing
  <2>2. CASE v # w
    BY <1>1, <1>3, <2>2 DEF Doing, ReadingInv
  <2> QED
    BY <2>1, <2>2
<1>6. HandedOut' /\ Apart' /\ NotYet'
  BY <1>1, <1>3 DEF ReadingInv, HandedOut, Apart, NotYet
<1> QED
  BY <1>4, <1>5, <1>6 DEF ReadingInv

\* What a file holds now was noted for the operations that have begun on it.
LEMMA NowIsNoted ==
  ASSUME ReadingInv, NEW k \in 1..readingCursor, outcomes[k] = None, ops[k].file \in File, path[ops[k].file] # 0
  PROVE  /\ Reading!Now(ops[k].file) = inode[<<ops[k].file, path[ops[k].file]>>]
         /\ Reading!Now(ops[k].file) \in named[k]
         /\ Reading!Now(ops[k].file) \in Content
BY ReadingAssumption DEF ReadingInv, SeenIsNoted, FilesHold, Reading!Now

LEMMA FailedIsGood ==
  ASSUME NEW op, NEW seen PROVE GoodOutcome(op, Reading!Failed, seen)
BY DEF Reading!Failed, GoodOutcome, Outcome, Values

LEMMA SucceededIsGood ==
  ASSUME NEW op, NEW seen, NEW v \in Values, NEW n \in Nat, NEW mixed \in BOOLEAN,
         op.file # None => IsOf(IF v = None THEN op.expected ELSE v, mixed, seen),
         op.kind = "read-if-changed" => n <= maxFileBytes
  PROVE  GoodOutcome(op, Reading!Succeeded(v, n, mixed), seen)
<1> DEFINE o == Reading!Succeeded(v, n, mixed)
<1>1. o \in Outcome /\ o.status = "succeeded" /\ o.value = v /\ o.bytes = n /\ o.mixed = mixed
  BY DEF Reading!Succeeded, Outcome
<1> HIDE DEF o
<1>2. GoodOutcome(op, o, seen)
  BY <1>1 DEF GoodOutcome
<1> QED
  BY <1>2 DEF o

LEMMA StatInv ==
  ASSUME ReadingInv, NEW w \in Worker, Reading!Stat(w) PROVE ReadingInv'
<1> DEFINE k == worker[w].op
           s == [worker[w] EXCEPT !.at = "readFile"]
<1>1. /\ worker[w].at = "read" /\ worker[w] \in WorkerState /\ k \in 1..readingCursor /\ outcomes[k] = None
      /\ ops[k].kind = "read" /\ worker[w].file = ops[k].file /\ ops[k].file \in File
      /\ worker[w].got = << >> /\ ~worker[w].mixed
  BY AtWork, FreshWhenOpened DEF Reading!Stat, Stage
<1>2. CASE Reading!End(w, Reading!Failed)
  BY <1>1, <1>2, EndInv, FailedIsGood
<1>3. CASE Reading!Goto(w, s)
  <2>1. s \in WorkerState /\ s.at = "readFile" /\ s.op = k /\ s.file = worker[w].file /\ s.got = << >> /\ ~s.mixed
    BY <1>1 DEF WorkerState, Stages
  <2> HIDE DEF s
  <2>2. Doing(s)
    BY <1>1, <2>1 DEF Doing, Stage
  <2> QED
    BY <1>1, <1>3, <2>1, <2>2, GotoInv
<1> QED
  BY <1>2, <1>3 DEF Reading!Stat

LEMMA EmptyBegins ==
  ASSUME NEW seen, NEW c \in Content PROVE Pieces(<< >>, seen) /\ Begins(<< >>, c)
<1>1. Len(c) \in Nat
  BY ReadingAssumption
<1> QED
  BY <1>1 DEF Pieces, Begins

LEMMA OpenFileInv ==
  ASSUME ReadingInv, NEW w \in Worker, Reading!OpenFile(w) PROVE ReadingInv'
<1> DEFINE k == worker[w].op
           f == worker[w].file
           kind == ops[k].kind
<1>1. /\ worker[w].at = "readFile" /\ worker[w] \in WorkerState /\ k \in 1..readingCursor /\ outcomes[k] = None
      /\ f \in File /\ kind \in {"read", "search"} /\ (kind # "search" => f = ops[k].file)
      /\ worker[w].got = << >> /\ ~worker[w].mixed
  BY AtWork, FreshWhenOpened DEF Reading!OpenFile, Stage, ReadingInv, Doing, Operation, Reading!Kind
<1>2. CASE kind = "read" /\ Reading!End(w, Reading!Failed)
  BY <1>1, <1>2, EndInv, FailedIsGood
<1>3. CASE kind = "search" /\ Reading!Goto(w, [worker[w] EXCEPT !.at = "search", !.file = None])
  <2> DEFINE s == [worker[w] EXCEPT !.at = "search", !.file = None]
  <2>1. s \in WorkerState /\ s.at = "search" /\ s.op = k /\ s.got = << >> /\ ~s.mixed
    BY <1>1 DEF WorkerState, Stages
  <2> HIDE DEF s
  <2>2. Doing(s)
    BY <1>1, <1>3, <2>1 DEF Doing, Stage
  <2> QED
    BY <1>1, <1>3, <2>1, <2>2, GotoInv DEF s
<1>4. CASE /\ path[f] # 0
           /\ Reading!Goto(w, [worker[w] EXCEPT !.at = "reading", !.gen = path[f], !.limit = Len(Reading!Now(f))])
  <2> DEFINE c == inode[<<f, path[f]>>]
             s == [worker[w] EXCEPT !.at = "reading", !.gen = path[f], !.limit = Len(c)]
  <2>1. path[f] \in 1..MaxGen /\ path[f] \in 0..MaxGen /\ Reading!Now(f) = c /\ c \in Content
    BY <1>1, <1>4, ReadingAssumption DEF ReadingInv, ReadingTypes, FilesHold, Reading!Now
  <2>2. Len(c) \in Nat
    BY <2>1, ReadingAssumption
  <2>3. kind # "search" => c \in named[k]
    BY <1>1, <1>4, NowIsNoted
  <2>4. Reading!Goto(w, s)
    BY <1>4, <2>1
  <2> HIDE DEF c
  <2>5. /\ s \in WorkerState /\ s.at = "reading" /\ s.op = k /\ s.file = f /\ s.gen = path[f] /\ s.limit = Len(c)
        /\ s.got = << >> /\ ~s.mixed
    BY <1>1, <2>1, <2>2 DEF WorkerState, Stages
  <2> HIDE DEF s
  <2>6. kind # "search" => ReadsOn(s, kind, c, named[k])
    BY <1>1, <2>1, <2>3, <2>5, EmptyBegins DEF ReadsOn
  <2>7. Doing(s)
    BY <1>1, <2>1, <2>5, <2>6 DEF Doing, Stage, c
  <2> QED
    BY <1>1, <2>4, <2>5, <2>7, GotoInv
<1> QED
  BY <1>1, <1>2, <1>3, <1>4 DEF Reading!OpenFile

LEMMA OpenInv ==
  ASSUME ReadingInv, NEW w \in Worker, Reading!Open(w) PROVE ReadingInv'
<1> DEFINE k == worker[w].op
           f == worker[w].file
           s == [worker[w] EXCEPT !.at = "check", !.gen = path[f]]
<1>1. /\ worker[w].at = "read-if-changed" /\ worker[w] \in WorkerState /\ k \in 1..readingCursor /\ outcomes[k] = None
      /\ ops[k].kind = "read-if-changed" /\ f = ops[k].file /\ f \in File
      /\ worker[w].got = << >> /\ ~worker[w].mixed
  BY AtWork, FreshWhenOpened DEF Reading!Open, Stage
<1>2. CASE Reading!End(w, Reading!Failed)
  BY <1>1, <1>2, EndInv, FailedIsGood
<1>3. CASE path[f] # 0 /\ Reading!Goto(w, s)
  <2>1. path[f] \in 1..MaxGen /\ path[f] \in 0..MaxGen
    BY <1>1, <1>3, ReadingAssumption DEF ReadingInv, ReadingTypes
  <2>2. s \in WorkerState /\ s.at = "check" /\ s.op = k /\ s.gen = path[f] /\ s.file = f /\ s.got = << >> /\ ~s.mixed
    BY <1>1, <2>1 DEF WorkerState, Stages
  <2> HIDE DEF s
  <2>3. Doing(s)
    BY <1>1, <2>1, <2>2 DEF Doing, Stage
  <2> QED
    BY <1>1, <1>3, <2>2, <2>3, GotoInv
<1> QED
  BY <1>2, <1>3 DEF Reading!Open

LEMMA CheckOpenedInv ==
  ASSUME ReadingInv, NEW w \in Worker, Reading!CheckOpened(w) PROVE ReadingInv'
<1> DEFINE k == worker[w].op
           f == worker[w].file
           s == [worker[w] EXCEPT !.at = "reading", !.limit = maxFileBytes + 1]
<1>1. /\ worker[w].at = "check" /\ worker[w] \in WorkerState /\ k \in 1..readingCursor /\ outcomes[k] = None
      /\ ops[k].kind = "read-if-changed" /\ f = ops[k].file /\ f \in File /\ worker[w].gen \in 1..MaxGen
      /\ worker[w].got = << >> /\ ~worker[w].mixed
  BY AtWork, FreshWhenOpened DEF Reading!CheckOpened, Stage, ReadingInv, Doing
<1>2. CASE Reading!End(w, Reading!Failed)
  BY <1>1, <1>2, EndInv, FailedIsGood
<1>3. CASE path[f] = worker[w].gen /\ Reading!Goto(w, s)
  <2> DEFINE c == inode[<<f, path[f]>>]
  <2>1. /\ s \in WorkerState /\ s.at = "reading" /\ s.op = k /\ s.gen = worker[w].gen /\ s.file = f
        /\ s.limit = maxFileBytes + 1 /\ s.got = << >> /\ ~s.mixed
    <3>1. maxFileBytes + 1 \in Nat
      BY ReadingAssumption
    <3> QED
      BY <1>1, <3>1 DEF WorkerState, Stages
  <2> HIDE DEF s
  <2>2. path[f] # 0 /\ c \in named[k] /\ c \in Content
    BY <1>1, <1>3, NowIsNoted
  <2>3. path[f] = 0 \/ s.gen <= path[f]
    BY <1>1, <1>3, <2>1
  <2>4. c = inode[<<s.file, s.gen>>]
    BY <1>3, <2>1
  <2> HIDE DEF c
  <2>5. ReadsOn(s, ops[k].kind, c, named[k])
    BY <1>1, <2>1, <2>2, EmptyBegins DEF ReadsOn
  <2>6. Doing(s)
    BY <1>1, <2>1, <2>2, <2>3, <2>4, <2>5 DEF Doing, Stage
  <2> QED
    BY <1>1, <1>3, <2>1, <2>6, GotoInv
<1> QED
  BY <1>2, <1>3 DEF Reading!CheckOpened

\* What a reader knows.
LEMMA AtReading ==
  ASSUME ReadingInv, NEW w \in Worker, worker[w].at = "reading"
  PROVE  LET s == worker[w]  k == s.op  c == Reading!Held(w) IN
         /\ s \in WorkerState /\ k \in 1..readingCursor /\ outcomes[k] = None /\ Stage(s.at, ops[k].kind)
         /\ s.file \in File /\ (ops[k].kind # "search" => s.file = ops[k].file)
         /\ s.gen \in 1..MaxGen /\ (path[s.file] = 0 \/ s.gen <= path[s.file])
         /\ c = inode[<<s.file, s.gen>>] /\ c \in Content /\ c \in Seq(Piece) /\ s.got \in Seq(Piece) /\ s.limit \in Nat
         /\ s.mixed \in BOOLEAN /\ (ops[k].kind # "search" => ReadsOn(s, ops[k].kind, c, named[k]))
<1> DEFINE s == worker[w]
<1>1. s \in WorkerState /\ Doing(s)
  BY DEF ReadingInv, ReadingTypes
<1>2. s.got \in Seq(Piece) /\ s.limit \in Nat /\ s.mixed \in BOOLEAN
  BY <1>1 DEF WorkerState
<1>3. inode[<<s.file, s.gen>>] \in Content /\ inode[<<s.file, s.gen>>] \in Seq(Piece)
  BY <1>1, ReadingAssumption DEF Doing
<1> QED
  BY <1>1, <1>2, <1>3 DEF Doing, Reading!Held

LEMMA ReadChunkInv ==
  ASSUME ReadingInv, NEW w \in Worker, Reading!ReadChunk(w) PROVE ReadingInv'
<1> DEFINE old == worker[w]
           k == old.op
           kind == ops[k].kind
           c == Reading!Held(w)
           got == old.got
<1>1. old.at = "reading"
  BY DEF Reading!ReadChunk
<1>2. /\ old \in WorkerState /\ k \in 1..readingCursor /\ outcomes[k] = None /\ Stage(old.at, kind)
      /\ old.file \in File /\ (kind # "search" => old.file = ops[k].file)
      /\ old.gen \in 1..MaxGen /\ (path[old.file] = 0 \/ old.gen <= path[old.file])
      /\ c = inode[<<old.file, old.gen>>] /\ c \in Content /\ c \in Seq(Piece) /\ got \in Seq(Piece) /\ old.limit \in Nat
      /\ (kind # "search" => ReadsOn(old, kind, c, named[k]))
  BY <1>1, AtReading
<1>3. PICK n \in 1..old.limit :
        /\ Len(got) < n /\ n <= Len(c)
        /\ Reading!Goto(w, [old EXCEPT !.got = [i \in 1..n |-> IF i <= Len(got) THEN got[i] ELSE c[i]]])
  BY DEF Reading!ReadChunk
<1> DEFINE more == [i \in 1..n |-> IF i <= Len(got) THEN got[i] ELSE c[i]]
           s == [old EXCEPT !.got = more]
<1> HIDE DEF c
<1>4. more \in Seq(Piece) /\ Len(more) = n /\ \A i \in 1..n : more[i] = IF i <= Len(got) THEN got[i] ELSE c[i]
  <2>1. n \in Nat /\ Len(got) \in Nat /\ Len(c) \in Nat
    BY <1>2, <1>3
  <2>2. \A i \in 1..n : (IF i <= Len(got) THEN got[i] ELSE c[i]) \in Piece
    BY <1>2, <1>3, <2>1
  <2> QED
    BY <2>1, <2>2
<1> HIDE DEF more
<1>5. /\ s \in WorkerState /\ s.at = "reading" /\ s.op = k /\ s.file = old.file /\ s.gen = old.gen /\ s.limit = old.limit
      /\ s.got = more /\ s.mixed = old.mixed
  BY <1>1, <1>2, <1>4 DEF WorkerState
<1>6. Reading!Goto(w, s)
  BY <1>3 DEF more
<1> HIDE DEF s
<1>7. kind # "search" => ReadsOn(s, kind, c, named[k])
  <2> SUFFICES ASSUME kind # "search" PROVE ReadsOn(s, kind, c, named[k])
    OBVIOUS
  <2>1. ReadsOn(old, kind, c, named[k])
    BY <1>2
  <2>2. Len(got) \in Nat /\ Len(c) \in Nat /\ DOMAIN got = 1..Len(got) /\ DOMAIN c = 1..Len(c) /\ DOMAIN more = 1..n
    BY <1>2, <1>4
  <2> DEFINE seen == named[k]
  <2>3. c \in seen /\ Pieces(got, seen) /\ (~old.mixed => Begins(got, c))
    BY <2>1 DEF ReadsOn
  <2> HIDE DEF seen, got
  <2>4. Pieces(more, seen)
    <3> SUFFICES ASSUME NEW i \in 1..n PROVE \E d \in seen : i \in DOMAIN d /\ more[i] = d[i]
      BY <2>2 DEF Pieces
    <3>1. CASE i <= Len(got)
      <4>1. i \in DOMAIN got /\ more[i] = got[i]
        BY <1>4, <2>2, <3>1
      <4> QED
        BY <2>3, <4>1 DEF Pieces
    <3>2. CASE ~(i <= Len(got))
      BY <1>3, <1>4, <2>2, <2>3, <3>2
    <3> QED
      BY <3>1, <3>2
  <2>5. ~s.mixed => Begins(more, c)
    BY <1>3, <1>4, <1>5, <2>2, <2>3 DEF Begins
  <2> QED
    BY <1>5, <2>1, <2>3, <2>4, <2>5 DEF ReadsOn, seen
<1>8. Doing(s)
  BY <1>1, <1>2, <1>5, <1>7 DEF Doing, c
<1> QED
  BY <1>1, <1>2, <1>5, <1>6, <1>8, GotoInv

\* What was read up to the end is what the file held at some time, piece by piece if it was written meanwhile.
LEMMA AllReadIsOf ==
  ASSUME ReadingInv, NEW w \in Worker, Reading!AllRead(w), ops[worker[w].op].kind \in {"read", "read-if-changed"}
  PROVE  LET s == worker[w] IN
         IsOf(s.got, s.mixed, named[s.op]) \/ (ops[s.op].kind = "read-if-changed" /\ Len(s.got) > maxFileBytes)
<1> DEFINE s == worker[w]
           kind == ops[s.op].kind
           c == Reading!Held(w)
           seen == named[s.op]
<1>1. s.at = "reading" /\ (Len(s.got) >= Len(c) \/ Len(s.got) >= s.limit)
  BY DEF Reading!AllRead
<1>2. /\ c \in Seq(Piece) /\ s.got \in Seq(Piece) /\ s.limit \in Nat /\ s.mixed \in BOOLEAN
      /\ ReadsOn(s, kind, c, seen)
  BY <1>1, AtReading
<1>3. Len(s.got) \in Nat /\ Len(c) \in Nat /\ maxFileBytes \in Nat
  BY <1>2, ReadingAssumption
<1> HIDE DEF s, kind, c, seen
<1>4. CASE kind = "read-if-changed" /\ Len(s.got) >= s.limit
  BY <1>2, <1>3, <1>4 DEF ReadsOn, s, kind
<1>5. CASE s.mixed /\ ~(kind = "read-if-changed" /\ Len(s.got) >= s.limit)
  <2>1. kind \in {"read", "read-if-changed"}
    BY DEF kind, s
  <2>2. \E d \in seen : Len(d) <= Len(s.got)
    BY <1>1, <1>2, <1>3, <1>5, <2>1 DEF ReadsOn
  <2>3. Pieces(s.got, seen)
    BY <1>2 DEF ReadsOn
  <2>4. Reading!PiecedFrom(s.got, seen)
    BY <2>2, <2>3 DEF Reading!PiecedFrom, Pieces
  <2> QED
    BY <1>5, <2>4 DEF IsOf, s, seen
<1>6. CASE ~s.mixed /\ ~(kind = "read-if-changed" /\ Len(s.got) >= s.limit)
  <2>1. kind \in {"read", "read-if-changed"}
    BY DEF kind, s
  <2>2. Begins(s.got, c) /\ Len(s.got) = Len(c) /\ c \in seen
    BY <1>1, <1>2, <1>3, <1>6, <2>1 DEF ReadsOn, Begins
  <2>3. s.got = c
    BY <1>2, <2>2 DEF Begins
  <2> QED
    BY <1>6, <2>2, <2>3 DEF IsOf, s, seen
<1> QED
  BY <1>4, <1>5, <1>6

LEMMA ReadFileInv ==
  ASSUME ReadingInv, NEW w \in Worker, Reading!ReadFile(w) PROVE ReadingInv'
<1> DEFINE s == worker[w]
           k == s.op
<1>1. Reading!AllRead(w) /\ s.at = "reading" /\ ops[k].kind = "read" /\ Reading!End(w, Reading!Succeeded(s.got, Len(s.got), s.mixed))
  BY DEF Reading!ReadFile, Reading!AllRead
<1>2. IsOf(s.got, s.mixed, named[k])
  BY <1>1, AllReadIsOf
<1>3. s.got \in Seq(Piece) /\ s.mixed \in BOOLEAN /\ s.got \in Values /\ s.got # None /\ Len(s.got) \in Nat
  <2>1. s.got \in Seq(Piece) /\ s.mixed \in BOOLEAN
    BY <1>1, AtReading
  <2> HIDE DEF s
  <2> QED
    BY <2>1, ReadingAssumption DEF Values
<1>4. GoodOutcome(ops[k], Reading!Succeeded(s.got, Len(s.got), s.mixed), named[k])
  <2> HIDE DEF s, k
  <2> QED
    BY <1>1, <1>2, <1>3, SucceededIsGood
<1> QED
  BY <1>1, <1>4, EndInv

LEMMA ReadHandleInv ==
  ASSUME ReadingInv, NEW w \in Worker, Reading!ReadHandle(w) PROVE ReadingInv'
<1> DEFINE old == worker[w]
           k == old.op
           s == [old EXCEPT !.at = "digest"]
<1>1. Reading!AllRead(w) /\ old.at = "reading" /\ ops[k].kind = "read-if-changed" /\ Reading!Goto(w, s)
  BY DEF Reading!ReadHandle, Reading!AllRead
<1>2. IsOf(old.got, old.mixed, named[k]) \/ Len(old.got) > maxFileBytes
  BY <1>1, AllReadIsOf
<1>3. /\ old \in WorkerState /\ k \in 1..readingCursor /\ outcomes[k] = None /\ old.file = ops[k].file
      /\ old.gen \in 1..MaxGen /\ (path[old.file] = 0 \/ old.gen <= path[old.file])
  BY <1>1, AtReading
<1>4. s \in WorkerState /\ s.at = "digest" /\ s.op = k /\ s.file = old.file /\ s.gen = old.gen /\ s.got = old.got /\ s.mixed = old.mixed
  BY <1>3 DEF WorkerState, Stages
<1> HIDE DEF s
<1>5. Doing(s)
  BY <1>1, <1>2, <1>3, <1>4 DEF Doing, Stage
<1> QED
  BY <1>1, <1>4, <1>5, GotoInv

LEMMA DigestInv ==
  ASSUME ReadingInv, NEW w \in Worker, Reading!Digest(w) PROVE ReadingInv'
<1> DEFINE s == worker[w]
           k == s.op
           op == ops[k]
<1>1. s.at = "digest" /\ s \in WorkerState /\ op.kind = "read-if-changed" /\ op.file \in File
      /\ (Len(s.got) > maxFileBytes \/ IsOf(s.got, s.mixed, named[k]))
  BY AtWork DEF Reading!Digest, Stage, ReadingInv, Doing
<1>2. s.got \in Seq(Piece) /\ s.mixed \in BOOLEAN /\ s.got \in Values /\ s.got # None /\ Len(s.got) \in Nat /\ None \in Values
      /\ maxFileBytes \in Nat \ {0}
  BY <1>1, ReadingAssumption DEF WorkerState, Values
<1>3. CASE Reading!End(w, Reading!Failed)
  BY <1>1, <1>3, EndInv, FailedIsGood
<1>4. CASE Reading!Fits(s.got) /\ Reading!End(w, Reading!IfChanged(w))
  <2>1. Len(s.got) <= maxFileBytes /\ IsOf(s.got, s.mixed, named[k])
    BY <1>1, <1>2, <1>4 DEF Reading!Fits
  <2>2. CASE op.expected = s.got
    <3>1. Reading!IfChanged(w) = Reading!Succeeded(None, 1, s.mixed)
      BY <2>2 DEF Reading!IfChanged
    <3>2. GoodOutcome(op, Reading!Succeeded(None, 1, s.mixed), named[k])
      <4> HIDE DEF s, k, op
      <4> QED
        BY <1>2, <2>1, <2>2, SucceededIsGood
    <3> QED
      BY <1>1, <1>4, <3>1, <3>2, EndInv
  <2>3. CASE op.expected # s.got
    <3>1. Reading!IfChanged(w) = Reading!Succeeded(s.got, Len(s.got), s.mixed)
      BY <2>3 DEF Reading!IfChanged
    <3>2. GoodOutcome(op, Reading!Succeeded(s.got, Len(s.got), s.mixed), named[k])
      <4> HIDE DEF s, k, op
      <4> QED
        BY <1>2, <2>1, SucceededIsGood
    <3> QED
      BY <1>1, <1>4, <3>1, <3>2, EndInv
  <2> QED
    BY <2>2, <2>3
<1> QED
  BY <1>3, <1>4 DEF Reading!Digest

LEMMA ReadingTypesOK == ReadingInv /\ Len(results) \in {0, Len(ops)} => Reading!TypeOK
<1> SUFFICES ASSUME ReadingInv, Len(results) \in {0, Len(ops)} PROVE Reading!TypeOK
  OBVIOUS
<1>1. Len(ops) \in Nat /\ readingCursor \in 0..Len(ops) /\ 1..readingCursor \subseteq 1..Len(ops)
  BY CursorOK DEF ReadingInv, ReadingTypes
<1>2. Len(outcomes) = Len(ops)
  BY <1>1 DEF ReadingInv, ReadingTypes
<1>3. ASSUME NEW w \in Worker PROVE worker[w].op \in 0..Len(ops) /\ worker[w].todo \subseteq File
  <2>1. worker[w] \in WorkerState /\ Doing(worker[w])
    BY DEF ReadingInv, ReadingTypes
  <2> QED
    BY <1>1, <2>1 DEF WorkerState, Doing
<1> QED
  BY <1>1, <1>2, <1>3 DEF ReadingInv, ReadingTypes, Reading!TypeOK

LEMMA FoundIsCounted ==
  ASSUME NEW found \in SUBSET File PROVE 1 + Reading!Cardinality(found) \in Nat
<1>1. Reading!Cardinality(found) = Cardinality(found)
  BY DEF Reading!Cardinality, Cardinality
<1> QED
  BY <1>1, FS_Subset, FS_CardinalityType, ReadingAssumption

LEMMA SearchInv ==
  ASSUME ReadingInv, NEW w \in Worker, Reading!Search(w) PROVE ReadingInv'
<1> DEFINE k == worker[w].op
           found == worker[w].found
<1>1. /\ worker[w].at = "search" /\ worker[w] \in WorkerState /\ k \in 1..readingCursor /\ k \in 1..Len(ops)
      /\ Stage("search", ops[k].kind) /\ outcomes[k] = None /\ worker[w].got = << >> /\ ~worker[w].mixed
  BY AtWork, FreshWhenOpened DEF Reading!Search
<1>2. ops[k].kind = "search" /\ ops[k].file = None /\ found \in SUBSET File /\ worker[w].todo \in SUBSET File
  BY <1>1, OpOK DEF Stage, ReadingInv, WorkerState
<1>3. CASE Reading!End(w, Reading!Failed)
  BY <1>1, <1>3, EndInv, FailedIsGood
<1>4. CASE Reading!End(w, Reading!Succeeded(found, 1 + Reading!Cardinality(found), FALSE))
  <2>1. GoodOutcome(ops[k], Reading!Succeeded(found, 1 + Reading!Cardinality(found), FALSE), named[k])
    <3> HIDE DEF found, k
    <3> QED
      BY <1>2, FoundIsCounted, SucceededIsGood DEF Values
  <2> QED
    BY <1>1, <1>4, <2>1, EndInv
<1>5. ASSUME NEW f \in worker[w].todo, Reading!Goto(w, [worker[w] EXCEPT !.todo = @ \ {f}]) PROVE ReadingInv'
  <2> DEFINE s == [worker[w] EXCEPT !.todo = @ \ {f}]
  <2>1. s \in WorkerState /\ s.at = "search" /\ s.op = k /\ s.got = << >> /\ ~s.mixed
    BY <1>1 DEF WorkerState
  <2>2. Reading!Goto(w, s)
    BY <1>5
  <2> HIDE DEF s
  <2>3. Doing(s)
    BY <1>1, <1>2, <2>1 DEF Doing, Stage
  <2> QED
    BY <1>1, <2>1, <2>2, <2>3, GotoInv
<1>6. ASSUME NEW f \in worker[w].todo, Reading!Goto(w, [worker[w] EXCEPT !.at = "readFile", !.file = f, !.todo = @ \ {f}])
      PROVE  ReadingInv'
  <2> DEFINE s == [worker[w] EXCEPT !.at = "readFile", !.file = f, !.todo = @ \ {f}]
  <2>1. s \in WorkerState /\ s.at = "readFile" /\ s.op = k /\ s.file = f /\ f \in File /\ s.got = << >> /\ ~s.mixed
    BY <1>1, <1>2 DEF WorkerState, Stages
  <2>2. Reading!Goto(w, s)
    BY <1>6
  <2> HIDE DEF s
  <2>3. Doing(s)
    BY <1>1, <1>2, <2>1 DEF Doing, Stage
  <2> QED
    BY <1>1, <2>1, <2>2, <2>3, GotoInv
<1>8. CASE worker[w].todo = {} \/ Reading!Cardinality(found) >= maxSearchResults
  BY <1>4, <1>8 DEF Reading!Search
<1>9. CASE ~(worker[w].todo = {} \/ Reading!Cardinality(found) >= maxSearchResults)
  <2>1. PICK f \in worker[w].todo :
          IF Reading!Now(f) = None THEN Reading!End(w, Reading!Failed)
          ELSE Reading!Goto(w, IF Reading!Fits(Reading!Now(f))
                               THEN [worker[w] EXCEPT !.at = "readFile", !.file = f, !.todo = @ \ {f}]
                               ELSE [worker[w] EXCEPT !.todo = @ \ {f}])
    BY <1>9 DEF Reading!Search
  <2> QED
    BY <1>3, <1>5, <1>6, <2>1, Zenon
<1> QED
  BY <1>8, <1>9

LEMMA SearchFileInv ==
  ASSUME ReadingInv, NEW w \in Worker, Reading!SearchFile(w) PROVE ReadingInv'
<1> DEFINE old == worker[w]
           k == old.op
           more == old.found \cup (IF Reading!Matches(old.got) THEN {old.file} ELSE {})
           s == [Reading!Idle EXCEPT !.at = "search", !.op = k, !.todo = old.todo, !.found = more]
<1>1. old.at = "reading" /\ ops[k].kind = "search" /\ Reading!Goto(w, s)
  BY DEF Reading!SearchFile, Reading!AllRead
<1>2. old \in WorkerState /\ k \in 1..readingCursor /\ outcomes[k] = None /\ old.file \in File
  BY <1>1, AtReading
<1>3. k \in Nat /\ old.todo \in SUBSET File /\ old.found \in SUBSET File
  BY <1>2 DEF WorkerState
<1>4. more \in SUBSET File
  BY <1>2, <1>3
<1> HIDE DEF more, old, k
<1>5. s \in WorkerState /\ s.at = "search" /\ s.op = k /\ s.got = << >> /\ ~s.mixed
  BY <1>3, <1>4, IdleOK DEF WorkerState, Stages
<1> HIDE DEF s
<1>6. Doing(s)
  BY <1>1, <1>2, <1>5 DEF Doing, Stage
<1> QED
  BY <1>1, <1>5, <1>6, GotoInv DEF old, k

LEMMA OutsideInv ==
  ASSUME ReadingInv, NEW w \in Worker, Reading!Outside(w) PROVE ReadingInv'
<1> DEFINE k == worker[w].op
<1>1. /\ worker[w].at = "outside" /\ k \in 1..readingCursor /\ k \in 1..Len(ops) /\ Stage("outside", ops[k].kind)
  BY AtWork DEF Reading!Outside
<1>2. ops[k].kind = "outside" /\ ops[k].file = None
  BY <1>1, OpOK DEF Stage, ReadingInv
<1>3. CASE Reading!End(w, Reading!Failed)
  BY <1>1, <1>3, EndInv, FailedIsGood
<1>4. ASSUME NEW c \in Content, Reading!End(w, Reading!Succeeded(c, Len(c), FALSE)) PROVE ReadingInv'
  <2>1. GoodOutcome(ops[k], Reading!Succeeded(c, Len(c), FALSE), named[k])
    <3> HIDE DEF k
    <3> QED
      <4>1. c \in Values /\ Len(c) \in Nat
        BY ReadingAssumption DEF Values
      <4> QED
        BY <1>2, <4>1, SucceededIsGood
  <2> QED
    BY <1>1, <1>4, <2>1, EndInv
<1> QED
  BY <1>3, <1>4 DEF Reading!Outside

\* When all that was handed out has ended, every operation has its outcome.
LEMMA AllEnded ==
  ASSUME ReadingInv, readingCursor = Len(ops), \A w \in Worker : worker[w].at = "idle"
  PROVE  /\ \A k \in 1..Len(ops) : GoodOutcome(ops[k], outcomes[k], named[k])
         /\ outcomes \in [1..Len(ops) -> Outcome] /\ Len(ops) \in Nat
<1>1. \A k \in 1..Len(ops) : GoodOutcome(ops[k], outcomes[k], named[k])
  BY DEF ReadingInv, HandedOut
<1>2. outcomes \in [1..Len(ops) -> Outcome]
  BY <1>1 DEF ReadingInv, ReadingTypes, GoodOutcome
<1> QED
  BY <1>1, <1>2, CursorOK DEF ReadingInv

LEMMA FinishInv ==
  ASSUME ReadingInv, Reading!Finish PROVE ReadingInv'
<1>1. /\ ops # << >> /\ readingCursor = Len(ops) /\ results' = Reading!Budgeted(outcomes)
      /\ \A w \in Worker : worker[w] = Reading!Idle
      /\ UNCHANGED <<inode, path, writes, ops, readingCursor, worker, outcomes, named>>
  BY DEF Reading!Finish
<1>2. Given'
  <2>1. UNCHANGED outcomes
    BY <1>1
  <2>2. Reading!Budgeted(outcomes)' = Reading!Budgeted(outcomes)
    BY <2>1 DEF Reading!Budgeted, Reading!remainingBytes
  <2> QED
    BY <1>1, <2>2 DEF Given, Reading!Idle
<1>3. ReadingTypes' /\ FilesHold' /\ SeenIsNoted' /\ Apart' /\ NotYet'
  BY <1>1 DEF ReadingInv, ReadingTypes, FilesHold, SeenIsNoted, Apart, NotYet
<1>4. (\A w \in Worker : Doing(worker[w]))' /\ HandedOut'
  BY <1>1 DEF ReadingInv, Doing, HandedOut
<1> QED
  BY <1>2, <1>3, <1>4 DEF ReadingInv

LEMMA ReadingInductive == ReadingInv /\ [Next]_vars => ReadingInv'
<1> SUFFICES ASSUME ReadingInv, [Reading!Next]_(Reading!vars) PROVE ReadingInv'
  BY ReadingStep
<1>1. CASE UNCHANGED Reading!vars
  <2> USE <1>1 DEF Reading!vars
  <2>1. Reading!Budgeted(outcomes)' = Reading!Budgeted(outcomes)
    BY DEF Reading!Budgeted, Reading!remainingBytes
  <2>2. Given'
    BY <2>1 DEF ReadingInv, Given
  <2>3. ReadingTypes' /\ FilesHold' /\ SeenIsNoted' /\ Apart' /\ NotYet'
    BY DEF ReadingInv, ReadingTypes, FilesHold, SeenIsNoted, Apart, NotYet
  <2>4. (\A w \in Worker : Doing(worker[w]))' /\ HandedOut'
    BY DEF ReadingInv, Doing, HandedOut
  <2> QED
    BY <2>2, <2>3, <2>4 DEF ReadingInv
<1>2. CASE \E f \in File, c \in Content : Reading!Write(f, c) \/ Reading!Replace(f, c)
  BY <1>2, OthersInv
<1>3. CASE \E b \in Batches : Reading!batch(b)
  BY <1>3, BatchInv
<1>4. CASE \E w \in Worker : Reading!Work(w)
  BY <1>4, TakeInv, StatInv, OpenFileInv, OpenInv, CheckOpenedInv, ReadChunkInv, ReadFileInv, ReadHandleInv,
     DigestInv, SearchInv, SearchFileInv, OutsideInv DEF Reading!Work
<1>5. CASE Reading!Finish
  BY <1>5, FinishInv
<1> QED
  BY <1>1, <1>2, <1>3, <1>4, <1>5 DEF Reading!Next

\* What the results say.
LEMMA ReadingTrue ==
  ReadingInv => Reading!TypeOK /\ Reading!ResultsAreOfTheirTime /\ Reading!LimitOutlastsGrowth /\ Reading!BudgetIsSpentInOrder
<1> SUFFICES ASSUME ReadingInv
             PROVE  Reading!TypeOK /\ Reading!ResultsAreOfTheirTime /\ Reading!LimitOutlastsGrowth /\ Reading!BudgetIsSpentInOrder
  OBVIOUS
<1> DEFINE n == Len(ops)
<1>1. n \in Nat /\ readingCursor \in 0..n /\ 1..readingCursor \subseteq 1..n
  BY CursorOK DEF ReadingInv, ReadingTypes
<1>2. CASE results = << >>
  <2>1. Reading!ResultsAreOfTheirTime /\ Reading!LimitOutlastsGrowth /\ Reading!BudgetIsSpentInOrder
    BY <1>2 DEF Reading!ResultsAreOfTheirTime, Reading!LimitOutlastsGrowth, Reading!BudgetIsSpentInOrder
  <2>2. Len(results) = 0
    BY <1>2
  <2> QED
    BY <1>1, <2>1, <2>2, ReadingTypesOK
<1>3. CASE results # << >>
  <2>1. /\ results = Reading!Budgeted(outcomes) /\ \A k \in 1..n : GoodOutcome(ops[k], outcomes[k], named[k])
        /\ outcomes \in [1..n -> Outcome]
    BY <1>3, AllEnded DEF ReadingInv, Given
  <2>2. \A k \in 1..n : outcomes[k].status \in {"succeeded", "failed"}
    BY <2>1 DEF GoodOutcome
  <2> HIDE DEF n
  <2>3. /\ results \in [1..n -> Outcome]
        /\ \A k \in 1..n : /\ results[k].status = "succeeded" => results[k] = outcomes[k]
                           /\ results[k].status = "failed" <=> outcomes[k].status = "failed"
                           /\ results[k].bytes = outcomes[k].bytes
                           /\ Reading!Spent(results, k) <= maxOutputBytes
                           /\ results[k].status = "omitted" => Reading!Spent(results, k) + results[k].bytes > maxOutputBytes
    BY <1>1, <2>1, <2>2, BudgetedIsSpentInOrder
  <2>4. DOMAIN results = 1..n /\ Len(results) = n
    BY <1>1, <2>3
  <2>5. Reading!BudgetIsSpentInOrder
    BY <2>3, <2>4 DEF Reading!BudgetIsSpentInOrder
  <2>6. Reading!ResultsAreOfTheirTime
    BY <2>1, <2>3, <2>4, Zenon DEF Reading!ResultsAreOfTheirTime, GoodOutcome, IsOf
  <2>7. Reading!LimitOutlastsGrowth
    <3> SUFFICES ASSUME NEW k \in 1..n, ops[k].kind = "read-if-changed", results[k].status # "failed"
                 PROVE  results[k].bytes <= maxFileBytes
      BY <2>4 DEF Reading!LimitOutlastsGrowth
    <3>1. outcomes[k].status = "succeeded"
      BY <2>2, <2>3
    <3> QED
      BY <2>1, <2>3, <3>1 DEF GoodOutcome
  <2> QED
    BY <2>4, <2>5, <2>6, <2>7, ReadingTypesOK DEF n
<1> QED
  BY <1>2, <1>3
-----------------------------------------------------------------------------
(* Processes: the child, its timers and its output. *)

ProcessTypes ==
  /\ runner \in {None, "executor", "command"} /\ child \in {"none", "running", "exited"} /\ code \in {None, 0, 1}
  /\ signals \subseteq {"SIGTERM", "SIGKILL"} /\ refused \subseteq {"SIGTERM", "SIGKILL"}
  /\ timer \in {"off", "set", "fired"}
  /\ flags \subseteq {"timed_out", "cancelled", "spawn_error"}
  /\ result \in {None, "rejected", "resolved", "SPAWN_ERROR", "TIMEOUT", "CANCELLED", "SUCCESS", "SIGNAL", "NON_ZERO"}

ProcessFlags == held \in BOOLEAN /\ truncated \in BOOLEAN

\* A timer of SIGKILL was set by the timeout or by the abort, each of which comes once.
Told(flag) == IF flag \in flags THEN 1 ELSE 0
HardTimers ==
  /\ hard \in Nat /\ hard <= Told("timed_out") + Told("cancelled")
  /\ timer = "set" \/ child = "none" => "timed_out" \notin flags

\* There is no output before there is a child, and what the command runner cuts it says it has cut.
ProcessBytes ==
  /\ kept \in Nat /\ written \in 0..MaxBytes /\ kept <= written
  /\ child = "none" => written = 0 /\ kept = 0 /\ ~truncated
  /\ Processes!CutIsTold

\* No signal without a flag; success is only what ended by itself, and nothing comes after it.
ProcessOrder ==
  /\ child # "none" => runner \in {"executor", "command"}
  /\ child = "none" => signals = {} /\ timer = "off" /\ hard = 0
  /\ child # "exited" => code = None
  /\ signals # {} => "timed_out" \in flags \/ "cancelled" \in flags
  /\ result = "SUCCESS" => code = 0 /\ signals = {} /\ child = "exited"

ProcessInv == ProcessTypes /\ ProcessFlags /\ HardTimers /\ ProcessBytes /\ ProcessOrder

LEMMA ProcessInit == Init => ProcessInv
<1> SUFFICES ASSUME Processes!Init PROVE ProcessInv
  BY DEF Init
<1>1. ProcessTypes
  BY DEF Processes!Init, ProcessTypes
<1>2. ProcessFlags
  BY DEF Processes!Init, ProcessFlags
<1>5. HardTimers
  BY DEF Processes!Init, HardTimers, Told
<1>3. ProcessBytes
  BY ProcessesAssumption DEF Processes!Init, ProcessBytes, Processes!CutIsTold
<1>4. ProcessOrder
  BY ProcessesAssumption DEF Processes!Init, ProcessOrder
<1> QED
  BY <1>1, <1>2, <1>3, <1>4, <1>5 DEF ProcessInv

LEMMA ProcessStep == [Next]_vars => [Processes!Next]_(Processes!vars)
BY DEF Next, vars, processesVars, Processes!vars

\* The classification is a result, and success means that nobody has disturbed the child.
LEMMA Classified ==
  ASSUME NEW c, NEW f
  PROVE  /\ Processes!classifyExit(c, f) \in {"SPAWN_ERROR", "TIMEOUT", "CANCELLED", "SUCCESS", "SIGNAL", "NON_ZERO"}
         /\ Processes!classifyExit(c, f) = "SUCCESS" => c = 0 /\ "timed_out" \notin f /\ "cancelled" \notin f
BY DEF Processes!classifyExit

\* A chunk: both runners count it, each keeps what it may.
LEMMA OutputInv ==
  ASSUME ProcessInv, NEW n \in 1..MaxBytes, Processes!Output(n) PROVE ProcessInv'
<1>1. /\ child # "none" /\ written' = written + n /\ written + n <= MaxBytes /\ Processes!append(n)
      /\ UNCHANGED <<runner, child, code, held, signals, refused, timer, hard, flags, result>>
  BY DEF Processes!Output
<1>2. n \in Nat /\ written \in Nat /\ written' \in 0..MaxBytes
  BY <1>1, ProcessesAssumption DEF ProcessInv, ProcessBytes
<1>3. ProcessTypes'
  BY <1>1 DEF ProcessInv, ProcessTypes
<1>4. ProcessFlags'
  BY <1>1 DEF ProcessInv, ProcessFlags, Processes!append
<1>5. ProcessBytes'
  <2>1. CASE runner = "executor"
    BY <1>1, <1>2, <2>1 DEF ProcessInv, ProcessBytes, Processes!append, Processes!CutIsTold
  <2>2. CASE runner = "command" /\ truncated
    <3>1. UNCHANGED <<kept, truncated>>
      BY <1>1, <2>2 DEF Processes!append
    <3>2. written > kept /\ kept = maxKeptBytes /\ kept \in Nat
      BY <1>2, <2>2, ProcessesAssumption DEF ProcessInv, ProcessBytes, Processes!CutIsTold
    <3> QED
      BY <1>1, <1>2, <2>2, <3>1, <3>2 DEF ProcessBytes, Processes!CutIsTold
  <2>3. CASE runner = "command" /\ ~truncated
    <3>1. kept = written /\ written <= maxKeptBytes
      BY <1>2, <2>3, ProcessesAssumption DEF ProcessInv, ProcessBytes, Processes!CutIsTold
    <3>2. IF kept + n <= maxKeptBytes THEN kept' = kept + n /\ ~truncated' ELSE kept' = maxKeptBytes /\ truncated'
      BY <1>1, <2>3 DEF Processes!append
    <3> QED
      BY <1>1, <1>2, <3>1, <3>2, ProcessesAssumption DEF ProcessBytes, Processes!CutIsTold
  <2> QED
    BY <1>1, <2>1, <2>2, <2>3 DEF ProcessInv, ProcessOrder
<1>6. ProcessOrder'
  BY <1>1 DEF ProcessInv, ProcessOrder
<1>7. HardTimers'
  BY <1>1 DEF ProcessInv, HardTimers, Told
<1> QED
  BY <1>1, <1>3, <1>4, <1>5, <1>6, <1>7 DEF ProcessInv

\* A step that leaves the output alone keeps the bytes, once there is a child.
LEMMA BytesStay ==
  ASSUME ProcessInv, UNCHANGED <<written, kept, truncated>>,
         child' = "none" => child = "none", runner' = runner \/ child = "none"
  PROVE  ProcessBytes'
BY ProcessesAssumption DEF ProcessInv, ProcessBytes, Processes!CutIsTold

\* A signal sets the flag it comes with, and is sent or refused.
LEMMA KillInv ==
  ASSUME ProcessInv, NEW signal \in {"SIGTERM", "SIGKILL"}, NEW raised \in SUBSET {"timed_out", "cancelled", "spawn_error"},
         Processes!kill(signal, raised)
  PROVE  /\ signals' \in {signals, signals \cup {signal}} /\ (child # "running" => signals' = signals)
         /\ refused' \in {refused, refused \cup {signal}} /\ flags' \in {raised, raised \cup {"spawn_error"}}
         /\ result' = result \/ (result' = "rejected" /\ child = "running")
BY DEF Processes!kill

\* A step that stops the child or waits to: the flags it leaves are those of before and the one it raises.
LEMMA SignalledInv ==
  ASSUME ProcessInv, child # "none", NEW raised \in SUBSET {"timed_out", "cancelled", "spawn_error"}, flags \subseteq raised,
         signals' # {} => "timed_out" \in raised \/ "cancelled" \in raised,
         signals' \subseteq {"SIGTERM", "SIGKILL"}, refused' \subseteq {"SIGTERM", "SIGKILL"},
         flags' \in {raised, raised \cup {"spawn_error"}}, timer' \in {"off", "set", "fired"},
         result' = result \/ result' = "rejected", result' = "SUCCESS" => signals' = signals,
         UNCHANGED <<runner, child, code, held, written, kept, truncated>>, HardTimers'
  PROVE  ProcessInv'
<1>1. ProcessTypes'
  BY DEF ProcessInv, ProcessTypes
<1>2. ProcessFlags'
  BY DEF ProcessInv, ProcessFlags
<1>3. ProcessBytes'
  BY BytesStay
<1>4. ProcessOrder'
  BY DEF ProcessInv, ProcessOrder
<1> QED
  BY <1>1, <1>2, <1>3, <1>4 DEF ProcessInv

LEMMA TimeoutInv ==
  ASSUME ProcessInv, Processes!Timeout PROVE ProcessInv'
<1>1. /\ timer = "set" /\ timer' = "fired" /\ result = None /\ hard' = hard + 1
      /\ Processes!kill("SIGTERM", flags \cup {"timed_out"})
      /\ UNCHANGED <<runner, child, code, held, written, kept, truncated>>
  BY DEF Processes!Timeout, Processes!stop, Processes!Settled
<1>2. child # "none" /\ flags \subseteq {"timed_out", "cancelled", "spawn_error"} /\ signals \subseteq {"SIGTERM", "SIGKILL"}
      /\ refused \subseteq {"SIGTERM", "SIGKILL"} /\ "timed_out" \notin flags
  BY <1>1 DEF ProcessInv, ProcessTypes, ProcessOrder, HardTimers
<1> DEFINE raised == flags \cup {"timed_out"}
<1>3. raised \in SUBSET {"timed_out", "cancelled", "spawn_error"}
  BY <1>2
<1>4. /\ signals' \in {signals, signals \cup {"SIGTERM"}} /\ refused' \in {refused, refused \cup {"SIGTERM"}}
      /\ flags' \in {raised, raised \cup {"spawn_error"}} /\ (result' = result \/ result' = "rejected")
  BY <1>1, <1>3, KillInv
<1>5. HardTimers'
  BY <1>1, <1>2, <1>4 DEF ProcessInv, HardTimers, Told
<1>6. result' # "SUCCESS"
  BY <1>1, <1>4, ProcessesAssumption
<1> QED
  BY <1>1, <1>2, <1>3, <1>4, <1>5, <1>6, SignalledInv

LEMMA AbortInv ==
  ASSUME ProcessInv, Processes!Abort PROVE ProcessInv'
<1>1. /\ child # "none" /\ result = None /\ "cancelled" \notin flags /\ hard' = hard + 1
      /\ Processes!kill("SIGTERM", flags \cup {"cancelled"})
      /\ UNCHANGED <<runner, child, code, held, timer, written, kept, truncated>>
  BY DEF Processes!Abort, Processes!stop, Processes!Settled
<1>2. flags \subseteq {"timed_out", "cancelled", "spawn_error"} /\ signals \subseteq {"SIGTERM", "SIGKILL"}
      /\ refused \subseteq {"SIGTERM", "SIGKILL"} /\ timer \in {"off", "set", "fired"}
  BY DEF ProcessInv, ProcessTypes
<1> DEFINE raised == flags \cup {"cancelled"}
<1>3. raised \in SUBSET {"timed_out", "cancelled", "spawn_error"}
  BY <1>2
<1>4. /\ signals' \in {signals, signals \cup {"SIGTERM"}} /\ refused' \in {refused, refused \cup {"SIGTERM"}}
      /\ flags' \in {raised, raised \cup {"spawn_error"}} /\ (result' = result \/ result' = "rejected")
  BY <1>1, <1>3, KillInv
<1>5. HardTimers'
  BY <1>1, <1>2, <1>4 DEF ProcessInv, HardTimers, Told
<1>6. result' # "SUCCESS"
  BY <1>1, <1>4, ProcessesAssumption
<1> QED
  BY <1>1, <1>2, <1>3, <1>4, <1>5, <1>6, SignalledInv

LEMMA HardKillInv ==
  ASSUME ProcessInv, Processes!HardKill PROVE ProcessInv'
<1>1. /\ hard > 0 /\ hard' = hard - 1 /\ UNCHANGED <<runner, child, code, held, timer, written, kept, truncated>>
      /\ Processes!kill("SIGKILL", flags) \/ UNCHANGED <<signals, refused, flags, result>>
  BY DEF Processes!HardKill
<1>2. flags \subseteq {"timed_out", "cancelled", "spawn_error"} /\ signals \subseteq {"SIGTERM", "SIGKILL"}
      /\ refused \subseteq {"SIGTERM", "SIGKILL"} /\ timer \in {"off", "set", "fired"}
  BY DEF ProcessInv, ProcessTypes
<1>3. /\ signals' \in {signals, signals \cup {"SIGKILL"}} /\ refused' \in {refused, refused \cup {"SIGKILL"}}
      /\ flags' \in {flags, flags \cup {"spawn_error"}} /\ (result' = result \/ result' = "rejected")
      /\ (child # "running" => signals' = signals)
  BY <1>1, <1>2, KillInv
<1>4. "timed_out" \in flags \/ "cancelled" \in flags
  BY <1>1 DEF ProcessInv, HardTimers, Told
<1>5. HardTimers'
  BY <1>1, <1>2, <1>3 DEF ProcessInv, HardTimers, Told
<1>6. child # "none"
  BY <1>1 DEF ProcessInv, ProcessOrder
<1>7. result' = "SUCCESS" => signals' = signals
  BY <1>3 DEF ProcessInv, ProcessOrder
<1> QED
  BY <1>1, <1>2, <1>3, <1>4, <1>5, <1>6, <1>7, SignalledInv

LEMMA ProcessInductive == ProcessInv /\ [Next]_vars => ProcessInv'
<1> SUFFICES ASSUME ProcessInv, [Processes!Next]_(Processes!vars) PROVE ProcessInv'
  BY ProcessStep
<1>1. CASE Processes!CannotStart
  <2>1. /\ child = "none" /\ result' \in {"rejected", "SPAWN_ERROR", "TIMEOUT", "CANCELLED", "SIGNAL", "NON_ZERO"}
        /\ flags' \in {flags \cup {"cancelled"}, flags \cup {"spawn_error"}}
        /\ runner' \in {"executor", "command"} /\ UNCHANGED <<child, code, held, signals, refused, timer, hard, written, kept, truncated>>
    BY <1>1, Classified, ProcessesAssumption DEF Processes!CannotStart, ProcessInv, ProcessOrder
  <2>2. ProcessTypes' /\ ProcessFlags'
    BY <2>1 DEF ProcessInv, ProcessTypes, ProcessFlags
  <2>3. ProcessBytes'
    BY <2>1, BytesStay
  <2>4. ProcessOrder'
    BY <2>1, ProcessesAssumption DEF ProcessInv, ProcessOrder
  <2>5. HardTimers'
    BY <2>1 DEF ProcessInv, HardTimers, Told
  <2> QED
    BY <2>2, <2>3, <2>4, <2>5 DEF ProcessInv
<1>2. CASE Processes!Spawn \/ Processes!Fork \/ Processes!LetGo \/ Processes!ChildExits
  <2> USE <1>2 DEF Processes!Spawn, Processes!Fork, Processes!LetGo, Processes!ChildExits
  <2>1. ProcessTypes'
    BY DEF ProcessInv, ProcessTypes
  <2>2. ProcessFlags'
    BY DEF ProcessInv, ProcessFlags
  <2>3. ProcessBytes'
    BY BytesStay
  <2>4. ProcessOrder'
    BY ProcessesAssumption DEF ProcessInv, ProcessOrder, Processes!Settled
  <2>5. HardTimers'
    BY DEF ProcessInv, HardTimers, Told
  <2> QED
    BY <2>1, <2>2, <2>3, <2>4, <2>5 DEF ProcessInv
<1>3. CASE Processes!Timeout \/ Processes!Abort \/ Processes!HardKill
  BY <1>3, TimeoutInv, AbortInv, HardKillInv
<1>4. CASE Processes!Close
  <2>1. /\ result' \in {"resolved", "SPAWN_ERROR", "TIMEOUT", "CANCELLED", "SUCCESS", "SIGNAL", "NON_ZERO"}
        /\ result' = "SUCCESS" => code = 0 /\ "timed_out" \notin flags /\ "cancelled" \notin flags
        /\ timer' = "off" /\ hard' = (IF runner = "executor" /\ hard > 0 THEN hard - 1 ELSE hard) /\ child = "exited"
        /\ UNCHANGED <<runner, child, code, held, signals, refused, flags, written, kept, truncated>>
    BY <1>4, Classified DEF Processes!Close
  <2>2. ProcessTypes'
    BY <2>1 DEF ProcessInv, ProcessTypes
  <2>3. ProcessFlags'
    BY <2>1 DEF ProcessInv, ProcessFlags
  <2>4. ProcessBytes'
    BY <2>1, BytesStay
  <2>5. ProcessOrder'
    BY <2>1 DEF ProcessInv, ProcessOrder
  <2>6. HardTimers'
    BY <2>1 DEF ProcessInv, HardTimers, Told
  <2> QED
    BY <2>2, <2>3, <2>4, <2>5, <2>6 DEF ProcessInv
<1>5. CASE \E n \in 1..MaxBytes : Processes!Output(n)
  BY <1>5, OutputInv
<1>6. CASE UNCHANGED Processes!vars
  BY <1>6 DEF Processes!vars, ProcessInv, ProcessTypes, ProcessFlags, HardTimers, Told, ProcessBytes, ProcessOrder, Processes!CutIsTold
<1> QED
  BY <1>1, <1>2, <1>3, <1>4, <1>5, <1>6 DEF Processes!Next

LEMMA ProcessesTrue ==
  ProcessInv => Processes!TypeOK /\ Processes!SuccessIsUndisturbed /\ Processes!CutIsTold
<1> SUFFICES ASSUME ProcessInv PROVE Processes!TypeOK /\ Processes!SuccessIsUndisturbed /\ Processes!CutIsTold
  OBVIOUS
<1>1. Processes!TypeOK
  <2>1. ProcessTypes /\ ProcessFlags /\ kept <= written /\ written \in 0..MaxBytes /\ hard \in 0..2
    BY DEF ProcessInv, ProcessBytes, HardTimers, Told
  <2> QED
    BY <2>1, Zenon DEF ProcessTypes, ProcessFlags, Processes!TypeOK
<1> QED
  BY <1>1 DEF ProcessInv, ProcessOrder, ProcessBytes, Processes!SuccessIsUndisturbed

-----------------------------------------------------------------------------
(* Wire: the cursor of a feed, and the calls that carry a cursor of their own. *)

Cursors == Wire!Cursor \cup {Wire!NoCursor}
WireCalls == [conn : 1..MaxConn, at : {"snapshot", "write"}, to : Cursors]

\* Every cursor is one of Wire or none, and there is a connection once the loop has left its start.
WireInv ==
  /\ wire \in Wire!Numbered /\ conn \in 0..MaxConn /\ life \in {"up", "aborting", "down"}
  /\ loop \in {"start", "handshake", "open", "deaf", "pause", "hung", "ended"}
  /\ wireCursor \in Cursors /\ wireStored \in Cursors
  /\ calls \subseteq WireCalls
  /\ loop \in {"handshake", "open", "deaf"} => conn # 0

LEMMA WireInit == Init => WireInv
BY WireAssumption DEF Init, Wire!Init, WireInv, Cursors, WireCalls, Wire!Cursor, Wire!Numbered, Wire!NoCursor

LEMMA WireTypeOK == WireInv => Wire!TypeOK
BY DEF WireInv, WireCalls, Cursors, Wire!TypeOK

LEMMA WireStep == [Next]_vars => [Wire!Next]_(Wire!vars)
BY DEF Next, vars, wireVars, Wire!vars

\* A mutation is answered with itself or with the cursor as it was, and never with an earlier one of the epoch.
LEMMA Accepted ==
  ASSUME NEW event \in Wire!Cursor, NEW state \in Cursors
  PROVE  LET answer == Wire!acceptWireMutation(event, state) IN
         /\ answer.state \in {event, state}
         /\ state.epoch = answer.state.epoch /\ state.seq # None
              => answer.state.seq # None /\ answer.state.seq >= state.seq
<1>1. CASE event.epoch # state.epoch
  BY <1>1, WireAssumption DEF Wire!acceptWireMutation, Cursors, Wire!Cursor, Wire!NoCursor
<1>2. CASE event.epoch = state.epoch
  <2>1. state \in Wire!Cursor /\ state.seq \in Nat \cup {None} /\ event.seq \in Nat \cup {None}
    BY <1>2, WireAssumption DEF Cursors, Wire!Cursor, Wire!NoCursor
  <2> QED
    BY <1>2, <2>1 DEF Wire!acceptWireMutation
<1> QED
  BY <1>1, <1>2

GoesBack ==
  wireCursor'.epoch = wireCursor.epoch /\ wireCursor.seq # None /\ (wireCursor'.seq = None \/ wireCursor'.seq < wireCursor.seq)

LEMMA ReceiveInv ==
  ASSUME WireInv, NEW seq \in (1..MaxSeq) \cup {None}, Wire!ReceiveMutation(seq)
  PROVE  WireInv' /\ ~GoesBack
<1> DEFINE event == [epoch |-> wire.epoch, seq |-> seq]
           answer == Wire!acceptWireMutation(event, wireCursor)
<1>1. /\ loop \in {"open", "deaf"} /\ wireCursor' = answer.state
      /\ calls' = calls \cup (IF answer.resync THEN {Wire!Call("snapshot", event)}
                              ELSE IF answer.accepted THEN {Wire!Call("write", event)} ELSE {})
      /\ UNCHANGED <<wire, loop, conn, wireStored, life>>
  BY DEF Wire!ReceiveMutation, Wire!Open
<1>2. event \in Wire!Cursor
  BY WireAssumption DEF WireInv, Wire!Cursor, Wire!Numbered
<1>3. wireCursor' \in Cursors /\ ~GoesBack
  <2> HIDE DEF event
  <2>1. wireCursor \in Cursors
    BY DEF WireInv
  <2>2. /\ wireCursor' \in {event, wireCursor}
        /\ wireCursor.epoch = wireCursor'.epoch /\ wireCursor.seq # None
              => wireCursor'.seq # None /\ wireCursor'.seq >= wireCursor.seq
    BY <1>1, <1>2, <2>1, Accepted
  <2>3. wireCursor' \in Cursors
    BY <1>2, <2>1, <2>2 DEF Cursors
  <2>4. (wireCursor.seq # None => wireCursor.seq \in Nat) /\ (wireCursor'.seq # None => wireCursor'.seq \in Nat)
    BY <2>1, <2>3 DEF Cursors, Wire!Cursor, Wire!NoCursor
  <2> QED
    BY <2>2, <2>3, <2>4 DEF GoesBack
<1>4. conn \in 1..MaxConn
  BY <1>1, WireAssumption DEF WireInv
<1>5. Wire!Call("snapshot", event) \in WireCalls /\ Wire!Call("write", event) \in WireCalls
  <2> HIDE DEF event
  <2> QED
    BY <1>2, <1>4 DEF Wire!Call, WireCalls, Cursors
<1>6. calls' \subseteq WireCalls
  <2> HIDE DEF event, answer
  <2> QED
    BY <1>1, <1>5 DEF WireInv
<1> QED
  BY <1>1, <1>3, <1>6 DEF WireInv

LEMMA SnapshotInv ==
  ASSUME WireInv, NEW c \in calls, Wire!Snapshot(c)
  PROVE  WireInv' /\ (wireCursor' = wireCursor \/ (wireCursor' = c.to /\ c.at = "snapshot" /\ c \notin calls'))
<1>1. c \in WireCalls /\ c.at = "snapshot" /\ UNCHANGED <<wire, loop, conn, wireStored, life>>
  BY DEF Wire!Snapshot, WireInv
<1>2. c.to \in Cursors /\ [c EXCEPT !.at = "write"] \in WireCalls /\ [c EXCEPT !.at = "write"].at = "write"
  BY <1>1 DEF WireCalls
<1>3. wireCursor' = wireCursor \/ (wireCursor' = c.to /\ calls' = (calls \ {c}) \cup {[c EXCEPT !.at = "write"]})
  BY DEF Wire!Snapshot
<1>4. calls' \subseteq WireCalls
  BY <1>2 DEF Wire!Snapshot, WireInv
<1>5. [c EXCEPT !.at = "write"] # c
  BY <1>1, <1>2
<1> QED
  BY <1>1, <1>2, <1>3, <1>4, <1>5 DEF WireInv

\* A step keeps the invariant, and of a step that is not the snapshot's the cursor does not go back.
LEMMA WireKept ==
  ASSUME WireInv, [Next]_vars
  PROVE  /\ WireInv'
         /\ conn' = conn /\ GoesBack => \E c \in calls \ calls' : c.at = "snapshot" /\ c.to = wireCursor'
<1> DEFINE Same == wireCursor' = wireCursor \/ conn' # conn
           Back == conn' = conn /\ GoesBack
<1>1. wireCursor.seq # None => wireCursor.seq \in Nat
  BY DEF WireInv, Cursors, Wire!Cursor, Wire!NoCursor
<1>2. Same => ~Back
  BY <1>1 DEF GoesBack
<1>3. [Wire!Next]_(Wire!vars)
  BY WireStep
<1>4. CASE Wire!Restart \/ Wire!Mutate
  <2>1. wire' \in Wire!Numbered
    BY <1>4, WireAssumption DEF Wire!Restart, Wire!Mutate, WireInv, Wire!Cursor, Wire!Numbered
  <2>2. WireInv' /\ Same
    BY <1>4, <2>1 DEF Wire!Restart, Wire!Mutate, WireInv
  <2> QED
    BY <1>2, <2>2
<1>5. CASE Wire!Loop
  <2>1. CASE Wire!Connect
    <3>1. conn' \in 0..MaxConn /\ conn' # 0 /\ conn' # conn
      BY <2>1, WireAssumption DEF Wire!Connect, WireInv
    <3>2. WireInv' /\ Same
      BY <2>1, <3>1 DEF Wire!Connect, WireInv, Cursors
    <3> QED
      BY <1>2, <3>2
  <2>2. CASE Wire!Handshake \/ Wire!Resume \/ Wire!AbortWait
    <3>1. WireInv' /\ Same
      BY <2>2 DEF Wire!Handshake, Wire!Resume, Wire!AbortWait, WireInv
    <3> QED
      BY <1>2, <3>1
  <2> QED
    BY <1>5, <2>1, <2>2 DEF Wire!Loop
<1>6. CASE Wire!Closed \/ Wire!Abort \/ Wire!Exit
  <2>1. WireInv' /\ Same
    BY <1>6 DEF Wire!Closed, Wire!Abort, Wire!Exit, WireInv
  <2> QED
    BY <1>2, <2>1
<1>7. CASE Wire!ReceiveFeed
  <2>1. conn \in 1..MaxConn
    BY <1>7, WireAssumption DEF Wire!ReceiveFeed, Wire!Open, WireInv
  <2>2. Wire!Call("write", wireCursor) \in WireCalls
    BY <2>1 DEF Wire!Call, WireCalls, WireInv
  <2>3. WireInv' /\ Same
    BY <1>7, <2>2 DEF Wire!ReceiveFeed, WireInv
  <2> QED
    BY <1>2, <2>3
<1>8. CASE \E seq \in (1..MaxSeq) \cup {None} : Wire!ReceiveMutation(seq)
  BY <1>8, ReceiveInv
<1>9. CASE \E c \in calls : Wire!Snapshot(c)
  BY <1>2, <1>9, SnapshotInv
<1>10. CASE \E c \in calls : Wire!saveWireState(c)
  <2>1. WireInv' /\ Same
    BY <1>10 DEF Wire!saveWireState, WireInv, WireCalls
  <2> QED
    BY <1>2, <2>1
<1>11. CASE UNCHANGED Wire!vars
  <2>1. WireInv' /\ Same
    BY <1>11 DEF Wire!vars, WireInv
  <2> QED
    BY <1>2, <2>1
<1> QED
  BY <1>3, <1>4, <1>5, <1>6, <1>7, <1>8, <1>9, <1>10, <1>11 DEF Wire!Next

\* Within an epoch and a connection the cursor of Wire goes back only where a snapshot asked for earlier is there
\* after a later one, however messages, snapshots, restarts and closes interleave (mcg.mjs 40).
THEOREM WireCursorGoesBackOnlyByResync == Spec => WireCursorBackOnlyByResync
<1>1. WireInv /\ [Next]_vars => WireInv'
  BY WireKept
<1>2. WireInv /\ [Next]_vars
        => [conn' = conn /\ GoesBack
              => \E c \in calls \ calls' : c.at = "snapshot" /\ c.to = wireCursor']_(Wire!vars)
  BY WireKept
<1> QED
  BY WireInit, <1>1, <1>2, PTL DEF Spec, WireCursorBackOnlyByResync, Wire!CursorBackOnlyByResync, GoesBack

-----------------------------------------------------------------------------
(* What is reported is what happened. *)

\* What is told of a batch, a child process and a feed is what happened, for any number of files, operations, writers,
\* workers and bytes (read-executor.ts, executor.mjs, command-runner.ts, mcg.mjs).
THEOREM ResultsAreAlwaysTrue == Spec => []ResultsAreTrue
<1> DEFINE Inv == ReadingInv /\ ProcessInv /\ WireInv
<1>1. Init => Inv
  BY ReadingInit, ProcessInit, WireInit
<1>2. Inv /\ [Next]_vars => Inv'
  BY ReadingInductive, ProcessInductive, WireKept
<1>3. Inv => ResultsAreTrue
  BY ReadingTrue, ProcessesTrue, WireTypeOK DEF ResultsAreTrue
<1> QED
  BY <1>1, <1>2, <1>3, PTL DEF Spec
=============================================================================
