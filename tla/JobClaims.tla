------------------------------ MODULE JobClaims ------------------------------
(***************************************************************************)
(* InMemoryJobEngine and PostgresJobClaimStore of packages/control-plane   *)
(* (tasks/job-engine.ts, tasks/job-claim-store.ts): processes with an      *)
(* engine each share the table of claims.  claimPersisted awaits the       *)
(* table, then claims in its engine; if that fails it gives the claim      *)
(* back.  A process that dies loses its engine, the table keeps its rows.  *)
(* One organization; `claim` without the table is left out.                *)
(***************************************************************************)
EXTENDS Naturals, Sequences

CONSTANTS
  Engine, Worker, Job,
  Of,           \* the engine of each worker
  MaxAttempts,  \* bound on the claims of a job
  MaxCrash,     \* bound on the processes that die
  None

VARIABLES
  jobs,     \* each engine's jobs
  events,   \* each engine's events
  claims,   \* operating_core_job_claims
  call,     \* each worker's claimPersisted in progress
  working,  \* the job each worker has started and not completed
  crashes

vars == <<jobs, events, claims, call, working, crashes>>

EventsBound == 5 * MaxAttempts  \* bound on the events of an engine when a job is put in it

Absent == [status |-> "absent", claimedBy |-> None, attempts |-> 0]
Idle == [at |-> "idle", job |-> None]

\* Faulty variant of transitions: a job that never ran may be completed.
transitionsUnstarted == [absent |-> {}, queued |-> {"claimed"}, claimed |-> {"running", "queued", "completed"},
                         running |-> {"completed", "queued"}, completed |-> {"evidence"}, evidence |-> {}]

transitions == [absent |-> {}, queued |-> {"claimed"}, claimed |-> {"running", "queued"},
                running |-> {"completed", "queued"}, completed |-> {"evidence"}, evidence |-> {}]

Allowed(e, j, next) == next \in transitions[jobs[e][j].status]

Init ==
  /\ jobs = [e \in Engine |-> [j \in Job |-> Absent]] /\ events = [e \in Engine |-> << >>]
  /\ claims = [j \in Job |-> [worker |-> None, status |-> "RELEASED", attempts |-> 0]]
  /\ call = [w \in Worker |-> Idle] /\ working = [w \in Worker |-> None] /\ crashes = 0

emit(e, j, type) == events' = [events EXCEPT ![e] = Append(@, [job |-> j, type |-> type, attempts |-> jobs'[e][j].attempts])]

\* The job is put in the engine's map, over the one of that id if there is one.
enqueue(e, j) ==
  /\ Len(events[e]) < EventsBound
  /\ jobs' = [jobs EXCEPT ![e][j] = [status |-> "queued", claimedBy |-> None, attempts |-> 0]]
  /\ emit(e, j, "queued")
  /\ UNCHANGED <<claims, call, working, crashes>>

\* Faulty variant of Claim: a row that is there is taken over, whatever its status.
ClaimAny(w, j) ==
  /\ call[w] = Idle /\ claims[j].attempts < MaxAttempts
  /\ claims' = [claims EXCEPT ![j] = [worker |-> w, status |-> "CLAIMED", attempts |-> claims[j].attempts + 1]]
  /\ call' = [call EXCEPT ![w] = [at |-> "claimed", job |-> j]]
  /\ UNCHANGED <<jobs, events, working, crashes>>

\* The upsert: only a released row, or none, is taken.  A refusal changes nothing.
Claim(w, j) ==
  /\ call[w] = Idle /\ claims[j].attempts < MaxAttempts
  /\ claims[j].status = "RELEASED"
  /\ claims' = [claims EXCEPT ![j] = [worker |-> w, status |-> "CLAIMED", attempts |-> claims[j].attempts + 1]]
  /\ call' = [call EXCEPT ![w] = [at |-> "claimed", job |-> j]]
  /\ UNCHANGED <<jobs, events, working, crashes>>

\* The engine's own claim.
EngineClaim(w) ==
  /\ call[w].at = "claimed"
  /\ LET e == Of[w]  j == call[w].job IN
     IF Allowed(e, j, "claimed")
     THEN /\ jobs' = [jobs EXCEPT ![e][j] = [status |-> "claimed", claimedBy |-> w, attempts |-> jobs[e][j].attempts + 1]]
          /\ emit(e, j, "claimed")
          /\ call' = [call EXCEPT ![w] = Idle]
     ELSE call' = [call EXCEPT ![w].at = "release"] /\ UNCHANGED <<jobs, events>>
  /\ UNCHANGED <<claims, working, crashes>>

\* Only the worker's own claim is released.
Release(w) ==
  /\ call[w].at = "release"
  /\ LET j == call[w].job IN
     claims' = IF claims[j].worker = w /\ claims[j].status = "CLAIMED"
               THEN [claims EXCEPT ![j].status = "RELEASED"] ELSE claims
  /\ call' = [call EXCEPT ![w] = Idle]
  /\ UNCHANGED <<jobs, events, working, crashes>>

\* start and complete, by the worker that has claimed the job in its engine.
Move(w, j, next) ==
  /\ jobs[Of[w]][j].claimedBy = w /\ Allowed(Of[w], j, next)
  /\ jobs' = [jobs EXCEPT ![Of[w]][j].status = next]
  /\ emit(Of[w], j, next)
  /\ UNCHANGED <<claims, call, crashes>>

start(w, j) == Move(w, j, "running") /\ working' = [working EXCEPT ![w] = j]
complete(w, j) == Move(w, j, "completed") /\ working' = [working EXCEPT ![w] = None]

\* Anybody of the organization records the evidence of a completed job.
recordEvidence(e, j) ==
  /\ Allowed(e, j, "evidence")
  /\ jobs' = [jobs EXCEPT ![e][j].status = "evidence"]
  /\ emit(e, j, "evidence")
  /\ UNCHANGED <<claims, call, working, crashes>>

Crash(e) ==
  /\ crashes < MaxCrash
  /\ crashes' = crashes + 1
  /\ jobs' = [jobs EXCEPT ![e] = [j \in Job |-> Absent]] /\ events' = [events EXCEPT ![e] = << >>]
  /\ call' = [w \in Worker |-> IF Of[w] = e THEN Idle ELSE call[w]]
  /\ working' = [w \in Worker |-> IF Of[w] = e THEN None ELSE working[w]]
  /\ UNCHANGED claims

Next ==
  \/ \E e \in Engine : Crash(e) \/ \E j \in Job : enqueue(e, j) \/ recordEvidence(e, j)
  \/ \E w \in Worker : EngineClaim(w) \/ Release(w) \/ \E j \in Job : Claim(w, j) \/ start(w, j) \/ complete(w, j)

Spec == Init /\ [][Next]_vars

-----------------------------------------------------------------------------
TypeOK ==
  /\ \A e \in Engine, j \in Job : jobs[e][j].status \in DOMAIN transitions /\ jobs[e][j].claimedBy \in Worker \cup {None}
  /\ \A j \in Job : claims[j].status \in {"CLAIMED", "RELEASED"} /\ claims[j].attempts \in 0..MaxAttempts
  /\ working \in [Worker -> Job \cup {None}] /\ crashes \in 0..MaxCrash

\* Two workers never work at one job, although each process has an engine of its own in which the job may be
\* queued again while it runs (job-engine.ts 9-20, job-claim-store.ts 19-28).
OneWorkerPerJob ==
  \A w \in Worker : working[w] # None =>
     /\ claims[working[w]].worker = w /\ claims[working[w]].status = "CLAIMED"
     /\ \A v \in Worker : working[v] = working[w] => v = w

\* Within one life of a job in an engine the events follow the transitions, a claim before each run, however the
\* calls of the workers interleave (job-engine.ts 3, 28).
EventsFollowTransitions ==
  \A e \in Engine : \A i, k \in DOMAIN events[e] :
     LET before == events[e][i]  after == events[e][k] IN
     /\ i < k /\ before.job = after.job /\ after.type # "queued"
     /\ ~\E n \in (i + 1)..(k - 1) : events[e][n].job = after.job
     => <<before.type, after.type>> \in {<<"queued", "claimed">>, <<"claimed", "running">>, <<"running", "completed">>,
                                         <<"completed", "evidence">>}
=============================================================================
