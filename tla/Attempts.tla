------------------------------ MODULE Attempts ------------------------------
(***************************************************************************)
(* How often and by whom a contract is executed, packages/execution/src/   *)
(* cloud-fabric: an escalation from workers to the frontier, the retry of  *)
(* one port, and a delegation; the execution ports of packages/providers,  *)
(* what they make of what a provider answers; the ledger of the costs.     *)
(* Runs share the ports, which remember the usage of their last run.       *)
(***************************************************************************)
EXTENDS Integers, Sequences, SequencesExt, FiniteSets

CONSTANTS
  Run,
  Kinds,       \* what the runs are: [mode, ports, exclusive]; ports maps a tier to a port or "none", no two
               \* tiers to the same port
  None

VARIABLES
  run,         \* each run: where it is, what was tried, and with which result
  lastUsage,   \* of each port that has a runner: what its last run cost
  ledger       \* CostLedger.entries: the costs

vars == <<run, lastUsage, ledger>>

Tier == {"worker", "professional", "frontier"}
Port == {"codex", "claude", "gateway", "bare gateway", "antigravity"}
Runner == {"codex", "claude"}

\* Costs: None for what nobody measured.
Result(status, cost) == [status |-> status, cost |-> cost]
unavailableResult == Result("unavailable", None)
noExecutor == Result("blocked", None)

\* DEFAULT_ESCALATION_POLICY and DEFAULT_RETRY_POLICY
MaxAttempts == [worker |-> 2, professional |-> 1, frontier |-> 1]
MaxRetryAttempts == 2
retryable_statuses == {"failure", "partial"}

Unused == [at |-> "idle", kind |-> None, counts |-> [t \in Tier |-> 0], tried |-> << >>, port |-> "none",
           last |-> noExecutor]

Init ==
  /\ run = [r \in Run |-> Unused]
  /\ lastUsage = [p \in Runner |-> None]
  /\ ledger = << >>

-----------------------------------------------------------------------------
(* The ports. *)

\* An answer that is no result is a failure, and its usage is not passed on.
parseResult(structured, status, usage) == IF structured THEN Result(status, usage) ELSE Result("failure", None)

\* The costs that a runner can tell: codex counts tokens only, claude may tell dollars.
mapCodexUsage == {None}
claudeUsage == {None, 1}

\* What a port with a runner answers, and the usage it remembers from now on: a runner that throws is unavailable.
RunnerAnswers(costs) ==
  {[result |-> unavailableResult, usage |-> None]} \cup
  {[result |-> parseResult(structured, status, cost), usage |-> cost] :
     structured \in BOOLEAN, status \in {"success", "failure", "partial", "cancelled"}, cost \in costs}

\* A gateway without client blocks; a client's result is passed on.
GatewayAnswers(client) ==
  IF ~client THEN {[result |-> Result("blocked", None), usage |-> None]}
  ELSE {[result |-> Result(status, cost), usage |-> None] : status \in {"success", "failure"}, cost \in {None, 1}}

Answers(p) ==
  CASE p = "antigravity" -> {[result |-> unavailableResult, usage |-> None]}
    [] p \in {"gateway", "bare gateway"} -> GatewayAnswers(p = "gateway")
    [] OTHER -> RunnerAnswers(IF p = "claude" THEN claudeUsage ELSE mapCodexUsage)

-----------------------------------------------------------------------------
(* The runs. *)

Goto(r, there) == run' = [run EXCEPT ![r] = there]

\* An escalation begins with a decision, the others with their port.
Begin(r, kind) ==
  /\ run[r].at = "idle"
  /\ Goto(r, [Unused EXCEPT !.kind = kind, !.port = kind.ports["worker"],
                !.at = CASE kind.mode = "escalate" -> "decide" [] kind.mode = "delegate" -> "route" [] OTHER -> "execute"])
  /\ UNCHANGED <<lastUsage, ledger>>

\* The next tier that has attempts left; a replan and a block both end the run.
nextEscalation(counts, exclusive) ==
  IF counts["worker"] < MaxAttempts["worker"] /\ ~exclusive THEN "worker"
  ELSE IF counts["professional"] < MaxAttempts["professional"] THEN "professional"
  ELSE IF counts["frontier"] < MaxAttempts["frontier"] THEN "frontier"
  ELSE "replan"

\* Faulty variant of Exhausted: a tier without port only loses one attempt for all of them.
ExhaustedAlike(counts, tier) == [t \in Tier |-> MaxAttempts[t]]

\* Faulty variant of Exhausted: a tier without port loses nothing.
ExhaustedNever(counts, tier) == counts

\* A tier without a port has no attempts left.
Exhausted(counts, tier) == [counts EXCEPT ![tier] = MaxAttempts[tier]]

\* An attempt is counted when it begins: the code does when it has ended, and looks at no count in between.
Decide(r) ==
  /\ run[r].at = "decide"
  /\ LET tier == nextEscalation(run[r].counts, run[r].kind.exclusive) IN
     CASE tier = "replan" -> Goto(r, [run[r] EXCEPT !.at = "done"])
       [] OTHER -> IF run[r].kind.ports[tier] = "none"
                   THEN Goto(r, [run[r] EXCEPT !.counts = Exhausted(@, tier)])
                   ELSE Goto(r, [run[r] EXCEPT !.at = "execute", !.port = run[r].kind.ports[tier],
                                   !.counts[tier] = @ + 1])
  /\ UNCHANGED <<lastUsage, ledger>>

\* A delegation to a target without adapter is unavailable; otherwise its context is resolved first.
Delegate(r) ==
  /\ run[r].at = "route"
  /\ IF run[r].port = "none" THEN Goto(r, [run[r] EXCEPT !.at = "done", !.last = unavailableResult])
     ELSE Goto(r, [run[r] EXCEPT !.at = "execute"])
  /\ UNCHANGED <<lastUsage, ledger>>

\* Faulty variant of shouldRetry: what is cancelled is tried again as well.
shouldRetryAll(result, attempt) == attempt < MaxRetryAttempts /\ result.status # "success"

shouldRetry(result, attempt) == attempt < MaxRetryAttempts /\ result.status \in retryable_statuses

\* Faulty variant of Entry: what was not measured cost nothing.
EntryOrZero(result) == IF result.cost = None THEN 0 ELSE result.cost

\* CostLedger.record
Entry(result) == result.cost

\* executeWithRetry: only the last result reaches the caller, and the ledger of the orchestrator.
AfterRetry(r, tried, result) ==
  IF shouldRetry(result, Len(tried))
  THEN Goto(r, [run[r] EXCEPT !.tried = tried, !.last = result]) /\ UNCHANGED ledger
  ELSE Goto(r, [run[r] EXCEPT !.tried = tried, !.last = result, !.at = "done"]) /\ ledger' = Append(ledger, Entry(result))

Execute(r) ==
  /\ run[r].at = "execute"
  /\ \E answer \in Answers(run[r].port) :
       LET tried == Append(run[r].tried, [port |-> run[r].port, status |-> answer.result.status]) IN
       /\ lastUsage' = IF answer.usage # None THEN [lastUsage EXCEPT ![run[r].port] = answer.usage] ELSE lastUsage
       /\ CASE run[r].kind.mode = "retry" -> AfterRetry(r, tried, answer.result)
            [] OTHER ->
                 /\ Goto(r, [run[r] EXCEPT !.tried = tried, !.last = answer.result,
                      !.at = IF run[r].kind.mode = "escalate" /\ answer.result.status # "success" THEN "decide" ELSE "done"])
                 /\ UNCHANGED ledger

totalCost ==
  IF ledger = << >> \/ None \in Range(ledger) THEN None ELSE FoldLeft(LAMBDA sum, cost : sum + cost, 0, ledger)

Step(r) == Decide(r) \/ Delegate(r) \/ Execute(r)
Next == \E r \in Run : Step(r) \/ \E kind \in Kinds : Begin(r, kind)

\* The ports whose answer is sure to come: claude's runner gets a SIGTERM after two minutes, which it is assumed to
\* obey, the others answer at once.  The call of codex has no time limit, and that of a gateway's client is not ours.
SureToAnswer == {"claude", "bare gateway", "antigravity"}
Waiting(r) == run[r].at = "execute" /\ run[r].port \notin SureToAnswer

Fairness == \A r \in Run : WF_vars(~Waiting(r) /\ Step(r))
Spec == Init /\ [][Next]_vars /\ Fairness

-----------------------------------------------------------------------------
Over(r, mode) == run[r].at = "done" /\ run[r].kind.mode = mode
Tried(r, p) == Cardinality({n \in DOMAIN run[r].tried : run[r].tried[n].port = p})

\* An escalation that gives up has asked every tier that has a port as often as the policy says, an exclusive task
\* never a worker, and has kept the last answer (escalating-executor.ts 10-16).
EveryTierTried ==
  \A r \in Run : Over(r, "escalate") /\ run[r].last.status # "success" =>
    \A t \in Tier : run[r].kind.ports[t] # "none" =>
      Tried(r, run[r].kind.ports[t]) = IF t = "worker" /\ run[r].kind.exclusive THEN 0 ELSE MaxAttempts[t]

\* Only a result that may be better the next time is tried again by the same port, and at most once; the caller gets
\* the answer of the last attempt (execution-loop.ts 7, retry-controller.ts 5).
RetriedInVain ==
  \A r \in Run : Over(r, "retry") =>
    /\ run[r].last.status = Last(run[r].tried).status
    /\ \A n \in 1..(Len(run[r].tried) - 1) : run[r].tried[n].status \in {"failure", "partial"}
    /\ run[r].last.status \in {"failure", "partial"} => Len(run[r].tried) = MaxRetryAttempts

\* The ledger tells a total only if every result it was given was measured (cost-ledger.ts 3).
TotalOnlyIfMeasured == totalCost # None => \A r \in Run : Over(r, "retry") => run[r].last.cost # None

\* Every run ends, whichever ports are missing and whatever they answer, unless one that has no time limit never does.
RunEnds == \A r \in Run : (run[r].at # "idle") ~> (run[r].at = "done" \/ []Waiting(r))
=============================================================================
