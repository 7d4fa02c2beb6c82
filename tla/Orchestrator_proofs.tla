------------------------ MODULE Orchestrator_proofs -------------------------
(***************************************************************************)
(* What the runs of a plan promise, for any plan, providers, number of     *)
(* runs and of attempts: a completed task was reviewed, runs that share    *)
(* the store complete it on one result, and each run implements PlanBoard. *)
(***************************************************************************)
EXTENDS Orchestrator, TLAPS

\* Tasks depend on tasks, and None is no result.
WellPosed == Deps \in [Task -> SUBSET Task] /\ None \notin Result

JobType == [task : Task \cup {None}, routed : Provider \cup {None}, attempt : Nat, result : Result \cup {None},
            reviewer : Provider \cup {None}]

TypeInv ==
  /\ outcome \in [Run -> [Task -> {"pending", "completed", "blocked", "failed"}]]
  /\ pc \in [Run -> {"new", "pass", "once", "execute", "settle", "review", "rejected", "done"}]
  /\ queue \in [Run -> SUBSET Task]
  /\ job \in [Run -> JobType]
  /\ stored \in [Task -> Result \cup {None}]
  /\ DOMAIN accepted = Run

\* A task that a run may still work on, and where the run has one in hand.
Open(r, t) == outcome[r][t] = "pending" /\ \A d \in Deps[t] : outcome[r][d] = "completed"
InHand == {"once", "execute", "settle", "review"}

QueueIsOpen(r) == \A t \in queue[r] : Open(r, t)
TaskIsOpen(r) == pc[r] \in InHand => /\ job[r].task \in Task /\ job[r].task \notin queue[r]
                                     /\ Open(r, job[r].task)

\* What is judged is what the store holds, which never changes.
ResultIsStored(r) ==
  pc[r] \in {"settle", "review"} => stored[job[r].task] # None /\ job[r].result = stored[job[r].task]
Independent(j) == j.reviewer = j.result.by => j.result.provider = None /\ j.result.by # j.routed
ReviewIsDue(r) == pc[r] = "review" => evidenceGate(job[r].result) /\ Independent(job[r])

\* Whatever a run has completed was reviewed, on the stored result.
CompletedHas(r) == \A t \in Task : outcome[r][t] = "completed" => \E a \in accepted[r] : a.task = t
AcceptedIsStored(r) ==
  \A a \in accepted[r] : /\ a.task \in Task /\ stored[a.task] # None /\ a.result = stored[a.task]
                         /\ evidenceGate(a.result) /\ Independent(a)

RunOK(r) == /\ QueueIsOpen(r) /\ TaskIsOpen(r) /\ ResultIsStored(r) /\ ReviewIsDue(r)
            /\ CompletedHas(r) /\ AcceptedIsStored(r)

PlanInv == TypeInv /\ \A r \in Run : RunOK(r)

-----------------------------------------------------------------------------
LEMMA InvImpliesReviewed ==
  ASSUME PlanInv PROVE CompletedIsReviewed
<1>1. \A r \in Run, t \in Task : outcome[r][t] = "completed" => \E a \in accepted[r] : a.task = t
  BY DEF PlanInv, RunOK, CompletedHas
<1>2. ASSUME NEW r \in Run, NEW a \in accepted[r]
      PROVE  /\ a.result = stored[a.task] /\ evidenceGate(a.result) /\ Independent(a)
  BY DEF PlanInv, RunOK, AcceptedIsStored
<1>3. ASSUME NEW r \in Run, NEW a \in accepted[r]
      PROVE  a.result.status = "success" /\ a.result.scope /\ a.result.gate
  BY <1>2 DEF evidenceGate, Status
<1> QED
  BY <1>1, <1>2, <1>3 DEF CompletedIsReviewed, Independent

LEMMA InitHolds ==
  ASSUME Init PROVE PlanInv
<1>1. NoJob \in JobType
  BY DEF NoJob, Fresh, JobType
<1>2. TypeInv
  BY <1>1 DEF Init, TypeInv
<1>3. ASSUME NEW r \in Run PROVE RunOK(r)
  BY <1>3 DEF Init, RunOK, QueueIsOpen, TaskIsOpen, InHand, ResultIsStored, ReviewIsDue, CompletedHas, AcceptedIsStored
<1> QED
  BY <1>2, <1>3 DEF PlanInv

\* The store only grows.
Grows == \A t \in Task : stored[t] # None => stored'[t] = stored[t]

\* A run on whose part nothing changes.
LEMMA RunStays ==
  ASSUME PlanInv, Grows, NEW r \in Run, outcome'[r] = outcome[r], pc'[r] = pc[r], queue'[r] = queue[r],
         job'[r] = job[r], accepted'[r] = accepted[r]
  PROVE  RunOK(r)'
<1>1. QueueIsOpen(r)' /\ TaskIsOpen(r)' /\ ReviewIsDue(r)' /\ CompletedHas(r)'
  BY DEF PlanInv, RunOK, QueueIsOpen, TaskIsOpen, ReviewIsDue, CompletedHas, Open
<1>2. ResultIsStored(r)'
  BY DEF PlanInv, RunOK, ResultIsStored, TaskIsOpen, InHand, Grows
<1>3. AcceptedIsStored(r)'
  BY DEF PlanInv, RunOK, AcceptedIsStored, Grows
<1> QED
  BY <1>1, <1>2, <1>3 DEF RunOK

\* One task of a run gets its verdict.
Verdicts == {"completed", "blocked", "failed"}

LEMMA OutcomeSet ==
  ASSUME TypeInv, NEW r \in Run, NEW t \in Task, NEW v \in Verdicts, outcome' = [outcome EXCEPT ![r][t] = v]
  PROVE  /\ outcome' \in [Run -> [Task -> {"pending", "completed", "blocked", "failed"}]]
         /\ outcome'[r] = [outcome[r] EXCEPT ![t] = v]
         /\ \A q \in Run : q # r => outcome'[q] = outcome[q]
BY DEF TypeInv, Verdicts

\* A task that was open gets its verdict: as the board has it, and the others stay open.
LEMMA VerdictOK ==
  ASSUME WellPosed, TypeInv, NEW r \in Run, NEW t \in Task, NEW v \in Verdicts, Open(r, t),
         outcome' = [outcome EXCEPT ![r][t] = v]
  PROVE  /\ Board(r)!Next
         /\ \A u \in Task : u # t /\ Open(r, u) => Open(r, u)'
<1>1. outcome'[r] = [outcome[r] EXCEPT ![t] = v]
  BY OutcomeSet
<1>2. outcome[r] \in [Task -> {"pending", "completed", "blocked", "failed"}]
  BY DEF TypeInv
<1>3. ASSUME v = "completed" PROVE Board(r)!Next
  <2>1. Board(r)!Complete(t)
    BY <1>1, <1>3 DEF Board!Complete, Open
  <2> QED
    BY <2>1 DEF Board!Next
<1>4. ASSUME v \in {"blocked", "failed"} PROVE Board(r)!Next
  <2>1. Board(r)!GiveUp({t}, v)
    BY <1>1, <1>2, <1>4 DEF Board!GiveUp, Open
  <2> QED
    BY <2>1, <1>4 DEF Board!Next
<1>5. ASSUME NEW u \in Task, u # t, Open(r, u) PROVE Open(r, u)'
  <2>1. \A d \in Deps[u] : d \in Task /\ outcome[r][d] = "completed"
    BY <1>5 DEF WellPosed, Open
  <2>2. \A d \in Task : outcome[r][d] = "completed" => d # t
    BY DEF Open
  <2> QED
    BY <1>1, <1>2, <1>5, <2>1, <2>2 DEF Open
<1> QED
  BY <1>3, <1>4, <1>5 DEF Verdicts

\* What a step of a run leaves alone, and what it may do to the board.
Others(r) ==
  \A q \in Run : q # r => /\ outcome'[q] = outcome[q] /\ pc'[q] = pc[q] /\ queue'[q] = queue[q]
                         /\ job'[q] = job[q] /\ accepted'[q] = accepted[q]
BoardStep(r) == Board(r)!Next \/ outcome'[r] = outcome[r]
StepOK(r) == TypeInv' /\ RunOK(r)' /\ Grows /\ Others(r) /\ BoardStep(r)

LEMMA SavePlanOK ==
  ASSUME WellPosed, PlanInv, NEW r \in Run, SavePlan(r) PROVE StepOK(r)
<1>1. pc' = [pc EXCEPT ![r] = "pass"] /\ UNCHANGED <<outcome, queue, job, stored, accepted>>
  BY DEF SavePlan, Goto
<1>2. TypeInv' /\ Grows /\ Others(r) /\ BoardStep(r) /\ pc'[r] = "pass"
  BY <1>1 DEF PlanInv, TypeInv, Grows, Others, BoardStep
<1>3. RunOK(r)'
  BY <1>1, <1>2 DEF PlanInv, RunOK, QueueIsOpen, TaskIsOpen, InHand, ResultIsStored, ReviewIsDue, CompletedHas,
     AcceptedIsStored, Open
<1> QED
  BY <1>2, <1>3 DEF StepOK

LEMMA EndRunOK ==
  ASSUME WellPosed, PlanInv, NEW r \in Run, EndRun(r) PROVE StepOK(r)
<1>1. pc' = [pc EXCEPT ![r] = "done"] /\ UNCHANGED <<outcome, queue, job, stored, accepted>>
  BY DEF EndRun, Goto
<1>2. TypeInv' /\ Grows /\ Others(r) /\ BoardStep(r) /\ pc'[r] = "done"
  BY <1>1 DEF PlanInv, TypeInv, Grows, Others, BoardStep
<1>3. RunOK(r)'
  BY <1>1, <1>2 DEF PlanInv, RunOK, QueueIsOpen, TaskIsOpen, InHand, ResultIsStored, ReviewIsDue, CompletedHas,
     AcceptedIsStored, Open
<1> QED
  BY <1>2, <1>3 DEF StepOK

\* A pass takes up the tasks that are open, or gives up all those that are not settled.
LEMMA BeginPassOK ==
  ASSUME WellPosed, PlanInv, NEW r \in Run, BeginPass(r) PROVE StepOK(r)
<1>1. pc[r] = "pass" /\ UNCHANGED <<job, stored, accepted>>
  BY DEF BeginPass
<1>2. CASE queue' = [queue EXCEPT ![r] = Reachable(r)] /\ UNCHANGED <<pc, outcome>>
  <2>1. Reachable(r) \subseteq Task /\ \A t \in Reachable(r) : Open(r, t)
    BY DEF Reachable, readyTasks, Settled, Open
  <2>2. TypeInv' /\ Grows /\ Others(r) /\ BoardStep(r)
    BY <1>1, <1>2, <2>1 DEF PlanInv, TypeInv, Grows, Others, BoardStep
  <2>3. queue'[r] = Reachable(r)
    BY <1>2 DEF PlanInv, TypeInv
  <2>4. QueueIsOpen(r)'
    BY <1>2, <2>1, <2>3 DEF QueueIsOpen, Open
  <2>5. RunOK(r)'
    BY <1>1, <1>2, <2>4 DEF PlanInv, RunOK, TaskIsOpen, InHand, ResultIsStored, ReviewIsDue, CompletedHas,
       AcceptedIsStored
  <2> QED
    BY <2>2, <2>5 DEF StepOK
<1>3. CASE /\ pc' = [pc EXCEPT ![r] = "done"] /\ UNCHANGED queue
           /\ outcome' = [outcome EXCEPT ![r] = [t \in Task |-> IF t \in Unreached(r) THEN "blocked"
                                                                 ELSE outcome[r][t]]]
  <2>1. Unreached(r) \in SUBSET Task /\ Unreached(r) # {} /\ \A t \in Unreached(r) : outcome[r][t] = "pending"
    BY DEF BeginPass, Unreached, Settled
  <2>2. queue[r] = {}
    BY DEF BeginPass
  <2>3. outcome'[r] = [t \in Task |-> IF t \in Unreached(r) THEN "blocked" ELSE outcome[r][t]]
    BY <1>3 DEF PlanInv, TypeInv
  <2>4. Board(r)!GiveUp(Unreached(r), "blocked")
    BY <2>1, <2>3 DEF Board!GiveUp
  <2>5. BoardStep(r)
    BY <2>1, <2>4 DEF BoardStep, Board!Next
  <2>6. TypeInv' /\ Grows /\ Others(r)
    BY <1>1, <1>3 DEF PlanInv, TypeInv, Grows, Others
  <2>7. pc'[r] = "done" /\ \A t \in Task : outcome'[r][t] = "completed" => outcome[r][t] = "completed"
    BY <1>3, <2>3 DEF PlanInv, TypeInv
  <2>8. RunOK(r)'
    BY <1>1, <1>3, <2>2, <2>7 DEF PlanInv, RunOK, QueueIsOpen, TaskIsOpen, InHand, ResultIsStored, ReviewIsDue,
       CompletedHas, AcceptedIsStored
  <2> QED
    BY <2>5, <2>6, <2>8 DEF StepOK
<1> QED
  BY <1>2, <1>3 DEF BeginPass, Goto

\* The task that is taken leaves the queue; it is blocked at once or in hand from now on.
LEMMA TakeTaskOK ==
  ASSUME WellPosed, PlanInv, NEW r \in Run, TakeTask(r) PROVE StepOK(r)
<1>1. PICK t \in queue[r] :
        /\ queue' = [queue EXCEPT ![r] = @ \ {t}]
        /\ \/ outcome' = [outcome EXCEPT ![r][t] = "blocked"] /\ UNCHANGED <<pc, job>>
           \/ /\ \E p \in Provider : job' = [job EXCEPT ![r] = Fresh(t, p)]
              /\ pc' = [pc EXCEPT ![r] = "once"] /\ UNCHANGED outcome
  BY DEF TakeTask, Goto
<1>2. pc[r] = "pass" /\ UNCHANGED <<stored, accepted>>
  BY DEF TakeTask
<1>3. t \in Task /\ Open(r, t) /\ \A u \in queue[r] : u \in Task /\ Open(r, u)
  BY DEF PlanInv, RunOK, QueueIsOpen, TypeInv
<1>4. queue'[r] = queue[r] \ {t} /\ \A q \in Run : q # r => queue'[q] = queue[q]
  BY <1>1 DEF PlanInv, TypeInv
<1>5. queue' \in [Run -> SUBSET Task]
  BY <1>1 DEF PlanInv, TypeInv
<1>6. CASE outcome' = [outcome EXCEPT ![r][t] = "blocked"] /\ UNCHANGED <<pc, job>>
  <2>1. "blocked" \in Verdicts
    BY DEF Verdicts
  <2>2. /\ outcome' \in [Run -> [Task -> {"pending", "completed", "blocked", "failed"}]]
        /\ outcome'[r] = [outcome[r] EXCEPT ![t] = "blocked"]
        /\ \A q \in Run : q # r => outcome'[q] = outcome[q]
    BY <1>3, <1>6, <2>1, OutcomeSet DEF PlanInv
  <2>3. /\ Board(r)!Next
        /\ \A u \in Task : u # t /\ Open(r, u) => Open(r, u)'
    BY <1>3, <1>6, <2>1, VerdictOK DEF PlanInv
  <2>4. QueueIsOpen(r)'
    BY <1>3, <1>4, <2>3 DEF QueueIsOpen
  <2>5. CompletedHas(r)'
    BY <1>2, <2>2 DEF PlanInv, RunOK, CompletedHas, TypeInv
  <2>6. RunOK(r)'
    BY <1>2, <1>6, <2>4, <2>5 DEF PlanInv, RunOK, TaskIsOpen, InHand, ResultIsStored, ReviewIsDue, AcceptedIsStored
  <2>7. TypeInv' /\ Grows /\ Others(r) /\ BoardStep(r)
    BY <1>2, <1>4, <1>5, <1>6, <2>2, <2>3 DEF PlanInv, TypeInv, Grows, Others, BoardStep
  <2> QED
    BY <2>6, <2>7 DEF StepOK
<1>7. CASE /\ \E p \in Provider : job' = [job EXCEPT ![r] = Fresh(t, p)]
           /\ pc' = [pc EXCEPT ![r] = "once"] /\ UNCHANGED outcome
  <2>1. PICK p \in Provider : job' = [job EXCEPT ![r] = Fresh(t, p)]
    BY <1>7
  <2>2. Fresh(t, p) \in JobType /\ Fresh(t, p).task = t
    BY <1>3 DEF JobType, Fresh
  <2>4. job' \in [Run -> JobType] /\ job'[r].task = t /\ \A q \in Run : q # r => job'[q] = job[q]
    BY <2>1, <2>2 DEF PlanInv, TypeInv
  <2>5. pc'[r] = "once" /\ \A q \in Run : q # r => pc'[q] = pc[q]
    BY <1>7 DEF PlanInv, TypeInv
  <2>6. TypeInv' /\ Grows /\ Others(r) /\ BoardStep(r)
    BY <1>2, <1>4, <1>5, <1>7, <2>4, <2>5 DEF PlanInv, TypeInv, Grows, Others, BoardStep
  <2>7. QueueIsOpen(r)' /\ TaskIsOpen(r)'
    BY <1>3, <1>4, <1>7, <2>4, <2>5 DEF QueueIsOpen, TaskIsOpen, Open
  <2>8. RunOK(r)'
    BY <1>2, <1>7, <2>5, <2>7 DEF PlanInv, RunOK, ResultIsStored, ReviewIsDue, CompletedHas, AcceptedIsStored
  <2> QED
    BY <2>6, <2>8 DEF StepOK
<1> QED
  BY <1>1, <1>6, <1>7

\* A change of the job in hand and of the place where the run is.
LEMMA JobSet ==
  ASSUME TypeInv, NEW r \in Run, NEW j \in JobType, NEW l \in InHand, job' = [job EXCEPT ![r] = j],
         pc' = [pc EXCEPT ![r] = l], UNCHANGED <<outcome, queue, stored, accepted>>
  PROVE  TypeInv' /\ Grows /\ Others(r) /\ BoardStep(r) /\ job'[r] = j /\ pc'[r] = l
BY DEF TypeInv, InHand, Grows, Others, BoardStep

\* The task in hand stays in hand.
LEMMA HandStays ==
  ASSUME PlanInv, NEW r \in Run, pc[r] \in InHand, job'[r].task = job[r].task, UNCHANGED <<outcome, queue, accepted>>, Grows
  PROVE  QueueIsOpen(r)' /\ TaskIsOpen(r)' /\ CompletedHas(r)' /\ AcceptedIsStored(r)'
<1>1. QueueIsOpen(r)' /\ TaskIsOpen(r)' /\ CompletedHas(r)'
  BY DEF PlanInv, RunOK, QueueIsOpen, TaskIsOpen, CompletedHas, Open
<1>2. AcceptedIsStored(r)'
  BY DEF PlanInv, RunOK, AcceptedIsStored, Grows
<1> QED
  BY <1>1, <1>2

LEMMA OnceOK ==
  ASSUME WellPosed, PlanInv, NEW r \in Run, Once(r) PROVE StepOK(r)
<1>1. pc[r] = "once" /\ UNCHANGED <<outcome, queue, stored, accepted>>
  BY DEF Once
<1>2. job[r] \in JobType /\ job[r].task \in Task /\ stored[job[r].task] \in Result \cup {None}
  BY <1>1 DEF PlanInv, TypeInv, RunOK, TaskIsOpen, InHand
<1>3. CASE /\ stored[job[r].task] # None /\ pc' = [pc EXCEPT ![r] = "settle"]
           /\ job' = [job EXCEPT ![r].result = stored[job[r].task]]
  <2> DEFINE j == [job[r] EXCEPT !.result = stored[job[r].task]]
  <2>1. j \in JobType /\ j.task = job[r].task /\ j.result = stored[job[r].task]
    BY <1>2 DEF JobType
  <2>2. job' = [job EXCEPT ![r] = j]
    BY <1>3
  <2>3. TypeInv' /\ Grows /\ Others(r) /\ BoardStep(r) /\ job'[r] = j /\ pc'[r] = "settle"
    BY <1>1, <1>3, <2>1, <2>2, JobSet DEF PlanInv, InHand
  <2>4. job'[r].task = job[r].task /\ job'[r].result = stored[job[r].task]
    BY <2>1, <2>3
  <2>5. ResultIsStored(r)' /\ ReviewIsDue(r)'
    BY <1>1, <1>3, <2>3, <2>4 DEF ResultIsStored, ReviewIsDue
  <2>6. RunOK(r)'
    BY <1>1, <2>3, <2>4, <2>5, HandStays DEF RunOK, InHand
  <2> QED
    BY <2>3, <2>6 DEF StepOK
<1>4. CASE /\ pc' = [pc EXCEPT ![r] = "execute"] /\ job' = [job EXCEPT ![r].attempt = 1]
  <2> DEFINE j == [job[r] EXCEPT !.attempt = 1]
  <2>1. j \in JobType /\ j.task = job[r].task
    BY <1>2 DEF JobType
  <2>2. job' = [job EXCEPT ![r] = j]
    BY <1>4
  <2>3. TypeInv' /\ Grows /\ Others(r) /\ BoardStep(r) /\ job'[r] = j /\ pc'[r] = "execute"
    BY <1>1, <1>4, <2>1, <2>2, JobSet DEF PlanInv, InHand
  <2>4. job'[r].task = job[r].task
    BY <2>1, <2>3
  <2>5. ResultIsStored(r)' /\ ReviewIsDue(r)'
    BY <2>3 DEF ResultIsStored, ReviewIsDue
  <2>6. RunOK(r)'
    BY <1>1, <2>3, <2>4, <2>5, HandStays DEF RunOK, InHand
  <2> QED
    BY <2>3, <2>6 DEF StepOK
<1> QED
  BY <1>3, <1>4 DEF Once, Goto

\* Another attempt begins, or the result is stored where there was none, or the store refuses it.
LEMMA ExecuteOK ==
  ASSUME WellPosed, PlanInv, NEW r \in Run, Execute(r) PROVE StepOK(r)
<1>1. PICK result \in Result :
        \/ job' = [job EXCEPT ![r].attempt = @ + 1] /\ UNCHANGED <<pc, stored>>
        \/ pc' = [pc EXCEPT ![r] = "rejected"] /\ UNCHANGED <<job, stored>>
        \/ /\ stored[job[r].task] = None /\ pc' = [pc EXCEPT ![r] = "settle"]
           /\ stored' = [stored EXCEPT ![job[r].task] = result]
           /\ job' = [job EXCEPT ![r].result = result]
  BY DEF Execute, Goto
<1>2. pc[r] = "execute" /\ UNCHANGED <<outcome, queue, accepted>>
  BY DEF Execute
<1>3. job[r] \in JobType /\ job[r].task \in Task
  BY <1>2 DEF PlanInv, TypeInv, RunOK, TaskIsOpen, InHand
<1>4. CASE job' = [job EXCEPT ![r].attempt = @ + 1] /\ UNCHANGED <<pc, stored>>
  <2> DEFINE j == [job[r] EXCEPT !.attempt = @ + 1]
  <2>1. j \in JobType /\ j.task = job[r].task
    BY <1>3 DEF JobType
  <2>2. job' \in [Run -> JobType] /\ job'[r].task = job[r].task /\ \A q \in Run : q # r => job'[q] = job[q]
    BY <1>4, <2>1 DEF PlanInv, TypeInv
  <2>3. TypeInv' /\ Grows /\ Others(r) /\ BoardStep(r)
    BY <1>2, <1>4, <2>2 DEF PlanInv, TypeInv, Grows, Others, BoardStep
  <2>4. ResultIsStored(r)' /\ ReviewIsDue(r)'
    BY <1>2, <1>4 DEF ResultIsStored, ReviewIsDue
  <2>5. RunOK(r)'
    BY <1>2, <2>2, <2>3, <2>4, HandStays DEF RunOK, InHand
  <2> QED
    BY <2>3, <2>5 DEF StepOK
<1>5. CASE pc' = [pc EXCEPT ![r] = "rejected"] /\ UNCHANGED <<job, stored>>
  <2>1. TypeInv' /\ Grows /\ Others(r) /\ BoardStep(r) /\ pc'[r] = "rejected"
    BY <1>2, <1>5 DEF PlanInv, TypeInv, Grows, Others, BoardStep
  <2>2. ResultIsStored(r)' /\ ReviewIsDue(r)'
    BY <2>1 DEF ResultIsStored, ReviewIsDue
  <2>3. RunOK(r)'
    BY <1>2, <1>5, <2>1, <2>2, HandStays DEF RunOK, InHand
  <2> QED
    BY <2>1, <2>3 DEF StepOK
<1>6. CASE /\ stored[job[r].task] = None /\ pc' = [pc EXCEPT ![r] = "settle"]
           /\ stored' = [stored EXCEPT ![job[r].task] = result]
           /\ job' = [job EXCEPT ![r].result = result]
  <2>1. job'[r] \in JobType /\ job'[r].task = job[r].task /\ job'[r].result = result
    BY <1>3, <1>6 DEF PlanInv, TypeInv, JobType
  <2>2. stored'[job[r].task] = result /\ Grows
    BY <1>3, <1>6 DEF PlanInv, TypeInv, Grows
  <2>3. TypeInv' /\ Others(r) /\ BoardStep(r) /\ pc'[r] = "settle"
    BY <1>2, <1>3, <1>6, <2>1 DEF PlanInv, TypeInv, Others, BoardStep
  <2>4. ResultIsStored(r)' /\ ReviewIsDue(r)'
    BY <2>1, <2>2, <2>3 DEF ResultIsStored, ReviewIsDue, WellPosed
  <2>5. RunOK(r)'
    BY <1>2, <2>1, <2>2, <2>4, HandStays DEF RunOK, InHand
  <2> QED
    BY <2>2, <2>3, <2>5 DEF StepOK
<1> QED
  BY <1>1, <1>4, <1>5, <1>6

\* The task in hand gets its verdict; only a review that accepts it makes that "completed".
LEMMA SettleOK ==
  ASSUME WellPosed, PlanInv, NEW r \in Run, NEW v \in Verdicts, pc[r] \in InHand, Settle(r, v),
         UNCHANGED <<queue, stored>>, DOMAIN accepted' = Run, \A q \in Run : q # r => accepted'[q] = accepted[q],
         AcceptedIsStored(r)', accepted[r] \subseteq accepted'[r],
         v = "completed" => \E a \in accepted'[r] : a.task = job[r].task
  PROVE  StepOK(r)
<1> DEFINE t == job[r].task
<1>1. t \in Task /\ t \notin queue[r] /\ Open(r, t) /\ queue[r] \subseteq Task
  BY DEF PlanInv, RunOK, TaskIsOpen, TypeInv
<1>2. /\ outcome' = [outcome EXCEPT ![r][t] = v] /\ pc' = [pc EXCEPT ![r] = "pass"]
      /\ job' = [job EXCEPT ![r] = NoJob]
  BY DEF Settle, Goto
<1>0. job' \in [Run -> JobType] /\ \A q \in Run : q # r => job'[q] = job[q]
  <2>1. NoJob \in JobType
    BY DEF NoJob, Fresh, JobType
  <2> QED
    BY <1>2, <2>1 DEF PlanInv, TypeInv
<1>3. /\ outcome' \in [Run -> [Task -> {"pending", "completed", "blocked", "failed"}]]
      /\ outcome'[r] = [outcome[r] EXCEPT ![t] = v]
      /\ \A q \in Run : q # r => outcome'[q] = outcome[q]
  BY <1>1, <1>2, OutcomeSet DEF PlanInv
<1>4. /\ Board(r)!Next
      /\ \A u \in Task : u # t /\ Open(r, u) => Open(r, u)'
  BY <1>1, <1>2, VerdictOK DEF PlanInv
<1>5. pc'[r] = "pass" /\ \A q \in Run : q # r => pc'[q] = pc[q]
  BY <1>2 DEF PlanInv, TypeInv
<1>6. TypeInv' /\ Grows /\ Others(r) /\ BoardStep(r)
  BY <1>0, <1>2, <1>3, <1>4, <1>5 DEF PlanInv, TypeInv, Grows, Others, BoardStep
<1>7. QueueIsOpen(r)'
  BY <1>1, <1>4 DEF PlanInv, RunOK, QueueIsOpen
<1>8. TaskIsOpen(r)' /\ ResultIsStored(r)' /\ ReviewIsDue(r)'
  BY <1>5 DEF TaskIsOpen, InHand, ResultIsStored, ReviewIsDue
<1>9. CompletedHas(r)'
  <2>1. SUFFICES ASSUME NEW u \in Task, outcome'[r][u] = "completed" PROVE \E a \in accepted'[r] : a.task = u
    BY DEF CompletedHas
  <2>2. CASE u = t
    <3>1. v = "completed"
      BY <1>3, <2>1, <2>2 DEF PlanInv, TypeInv
    <3> QED
      BY <2>2, <3>1
  <2>3. CASE u # t
    <3>1. outcome[r][u] = "completed"
      BY <1>3, <2>1, <2>3 DEF PlanInv, TypeInv
    <3> QED
      BY <2>1, <3>1 DEF PlanInv, RunOK, CompletedHas
  <2> QED
    BY <2>2, <2>3
<1> QED
  BY <1>6, <1>7, <1>8, <1>9 DEF RunOK, StepOK

LEMMA JudgeOK ==
  ASSUME WellPosed, PlanInv, NEW r \in Run, Judge(r) PROVE StepOK(r)
<1>1. pc[r] = "settle" /\ UNCHANGED <<queue, stored, accepted>>
  BY DEF Judge
<1>2. AcceptedIsStored(r)'
  BY <1>1 DEF PlanInv, RunOK, AcceptedIsStored
<1>3. ASSUME NEW v \in {"blocked", "failed"}, Settle(r, v) PROVE StepOK(r)
  <2>1. v \in Verdicts /\ v # "completed" /\ pc[r] \in InHand
    BY <1>1, <1>3 DEF Verdicts, InHand
  <2> QED
    BY <1>1, <1>2, <1>3, <2>1, SettleOK DEF PlanInv, TypeInv
<1>4. ASSUME evidenceGate(job[r].result), NEW p \in Reviewers(r), job' = [job EXCEPT ![r].reviewer = p],
             pc' = [pc EXCEPT ![r] = "review"], UNCHANGED outcome
      PROVE  StepOK(r)
  <2> DEFINE j == [job[r] EXCEPT !.reviewer = p]
  <2>1. job[r] \in JobType /\ p \in Provider /\ p # Implementer(r)
    BY <1>4 DEF PlanInv, TypeInv, Reviewers
  <2>2. /\ j \in JobType /\ j.task = job[r].task /\ j.result = job[r].result
        /\ j.routed = job[r].routed /\ j.reviewer = p
    BY <2>1 DEF JobType
  <2>3. job' = [job EXCEPT ![r] = j]
    BY <1>4
  <2>4. TypeInv' /\ Grows /\ Others(r) /\ BoardStep(r) /\ job'[r] = j /\ pc'[r] = "review"
    BY <1>1, <1>4, <2>2, <2>3, JobSet DEF PlanInv, InHand
  <2>5. /\ job'[r].task = job[r].task /\ job'[r].result = job[r].result
        /\ job'[r].routed = job[r].routed /\ job'[r].reviewer = p
    BY <2>2, <2>4
  <2>6. ResultIsStored(r)'
    BY <1>1, <2>5 DEF PlanInv, RunOK, ResultIsStored
  <2>7. ReviewIsDue(r)'
    <3>1. job[r].result \in Result
      BY <1>1, <2>1 DEF PlanInv, RunOK, ResultIsStored, TaskIsOpen, InHand, TypeInv
    <3>2. job[r].result.provider \in {job[r].result.by, None}
      BY <3>1 DEF Result
    <3> QED
      BY <1>4, <2>1, <2>5, <3>2 DEF ReviewIsDue, Independent, Implementer
  <2>8. RunOK(r)'
    BY <1>1, <1>4, <2>4, <2>5, <2>6, <2>7, HandStays DEF RunOK, InHand
  <2> QED
    BY <2>4, <2>8 DEF StepOK
<1> QED
  BY <1>3, <1>4 DEF Judge, Goto

LEMMA ReviewOK ==
  ASSUME WellPosed, PlanInv, NEW r \in Run, Review(r) PROVE StepOK(r)
<1>1. pc[r] = "review" /\ UNCHANGED <<queue, stored>> /\ pc[r] \in InHand
  BY DEF Review, InHand
<1>2. CASE Settle(r, "failed") /\ UNCHANGED accepted
  <2>1. AcceptedIsStored(r)'
    BY <1>1, <1>2 DEF PlanInv, RunOK, AcceptedIsStored
  <2>2. "failed" \in Verdicts
    BY DEF Verdicts
  <2> QED
    BY <1>1, <1>2, <2>1, <2>2, SettleOK DEF PlanInv, TypeInv
<1>3. CASE /\ Settle(r, "completed")
           /\ accepted' = [accepted EXCEPT ![r] =
                @ \cup {[task |-> job[r].task, result |-> job[r].result, routed |-> job[r].routed,
                         reviewer |-> job[r].reviewer]}]
  <2> DEFINE b == [task |-> job[r].task, result |-> job[r].result, routed |-> job[r].routed,
                   reviewer |-> job[r].reviewer]
  <2>1. accepted' = [accepted EXCEPT ![r] = @ \cup {b}]
    BY <1>3
  <2>2. /\ accepted'[r] = accepted[r] \cup {b} /\ DOMAIN accepted' = Run
        /\ \A q \in Run : q # r => accepted'[q] = accepted[q]
    BY <2>1 DEF PlanInv, TypeInv
  <2>3. /\ b.task \in Task /\ stored[b.task] # None /\ b.result = stored[b.task]
        /\ evidenceGate(b.result) /\ Independent(b)
    BY <1>1 DEF PlanInv, RunOK, TaskIsOpen, ResultIsStored, ReviewIsDue, Independent
  <2>4. AcceptedIsStored(r)'
    BY <1>1, <2>2, <2>3 DEF PlanInv, RunOK, AcceptedIsStored
  <2>5. "completed" \in Verdicts
    BY DEF Verdicts
  <2>6. accepted[r] \subseteq accepted'[r] /\ \E a \in accepted'[r] : a.task = job[r].task
    <3>1. b \in accepted'[r] /\ b.task = job[r].task
      BY <2>2
    <3> QED
      BY <2>2, <3>1
  <2> QED
    BY <1>1, <1>3, <2>2, <2>4, <2>5, <2>6, SettleOK
<1> QED
  BY <1>2, <1>3 DEF Review

LEMMA StepIsOK ==
  ASSUME WellPosed, PlanInv, NEW r \in Run, Step(r) PROVE StepOK(r)
BY SavePlanOK, BeginPassOK, EndRunOK, TakeTaskOK, OnceOK, ExecuteOK, JudgeOK, ReviewOK DEF Step

LEMMA NextInv ==
  ASSUME WellPosed, PlanInv, [Next]_vars PROVE PlanInv'
<1>1. CASE UNCHANGED vars
  <2>1. TypeInv' /\ Grows
    BY <1>1 DEF PlanInv, TypeInv, Grows, vars
  <2>2. ASSUME NEW r \in Run PROVE RunOK(r)'
    BY <1>1, <2>1, RunStays DEF vars
  <2> QED
    BY <2>1, <2>2 DEF PlanInv
<1>2. CASE Next
  <2>1. PICK r \in Run : Step(r)
    BY <1>2 DEF Next
  <2>2. StepOK(r)
    BY <2>1, StepIsOK
  <2>3. ASSUME NEW q \in Run, q # r PROVE RunOK(q)'
    BY <2>2, <2>3, RunStays DEF StepOK, Others
  <2> QED
    BY <2>2, <2>3 DEF StepOK, PlanInv
<1> QED
  BY <1>1, <1>2

LEMMA NextOnBoard ==
  ASSUME WellPosed, PlanInv, [Next]_vars
  PROVE  [\A r \in Run : [Board(r)!Next]_(outcome[r])]_outcome
<1>1. CASE UNCHANGED vars
  BY <1>1 DEF vars
<1>2. CASE Next
  <2>1. PICK r \in Run : Step(r)
    BY <1>2 DEF Next
  <2>2. Others(r) /\ BoardStep(r)
    BY <2>1, StepIsOK DEF StepOK
  <2>3. ASSUME NEW q \in Run PROVE Board(q)!Next \/ outcome'[q] = outcome[q]
    BY <2>2 DEF Others, BoardStep
  <2> QED
    BY <2>3
<1> QED
  BY <1>1, <1>2

LEMMA InitOnBoard ==
  ASSUME Init PROVE \A r \in Run : Board(r)!Init
BY DEF Init, Board!Init

-----------------------------------------------------------------------------
\* No run of a plan completes a task on another result than a successful one, in scope, past the gate and accepted by
\* somebody else than who produced it, unless it names nobody and comes from a run that was routed elsewhere; and no two
\* runs complete it on different results, for any plan and any number of runs that share the store
\* (workforce-orchestrator.ts 136-217, idempotency.ts).
THEOREM CompletedWasReviewed ==
  ASSUME WellPosed PROVE Spec => []CompletedIsReviewed
<1>1. Init => PlanInv
  BY InitHolds
<1>2. PlanInv /\ [Next]_vars => PlanInv'
  BY NextInv
<1>3. PlanInv => CompletedIsReviewed
  BY InvImpliesReviewed
<1> QED
  BY <1>1, <1>2, <1>3, PTL DEF Spec

\* Each run settles every task at most once, and completes one only when everything it depends on is completed
\* (workforce-orchestrator.ts 68-225).
THEOREM ImplementsBoard ==
  ASSUME WellPosed PROVE Spec => RunsImplementBoard
<1>1. Init => PlanInv
  BY InitHolds
<1>2. PlanInv /\ [Next]_vars => PlanInv'
  BY NextInv
<1>3. Init => \A r \in Run : Board(r)!Init
  BY InitOnBoard
<1>4. PlanInv /\ [Next]_vars => [\A r \in Run : [Board(r)!Next]_(outcome[r])]_outcome
  BY NextOnBoard
<1> QED
  BY <1>1, <1>2, <1>3, <1>4, PTL DEF Spec, RunsImplementBoard
=============================================================================
