--------------------------- MODULE Records_proofs ---------------------------
(***************************************************************************)
(* What the parts of Records promise, for every value of the constants.    *)
(***************************************************************************)
EXTENDS Records, TLAPS, WellFoundedInduction, FiniteSetTheorems, FunctionTheorems

-----------------------------------------------------------------------------
(* Jobs: a step of Records is one of the engines and the table, or leaves them alone. *)

\* Every worker belongs to an engine, and None is no job.
JobsWellPosed == EngineOf \in [Worker -> Engine] /\ None \notin Job

JobState == [status : DOMAIN Jobs!transitions, claimedBy : Worker \cup {None}, attempts : Nat]

JobsTypeInv ==
  /\ jobs \in [Engine -> [Job -> JobState]]
  /\ claims \in [Job -> [worker : Worker \cup {None}, status : {"CLAIMED", "RELEASED"}, attempts : Nat]]
  /\ jobsCall \in [Worker -> [at : {"idle", "claimed", "release"}, job : Job \cup {None}]]
  /\ working \in [Worker -> Job \cup {None}]

\* The row of the table says that the job is this worker's.
Owns(w, j) == claims[j].worker = w /\ claims[j].status = "CLAIMED"

\* What a worker's engine has granted it, and may yet be started.
Granted(w, j) == \E e \in Engine : jobs[e][j].claimedBy = w /\ jobs[e][j].status \in {"claimed", "running"}

WorkersOwn == \A w \in Worker, j \in Job : working[w] = j => Owns(w, j)
GrantsOwn == \A w \in Worker, j \in Job : Granted(w, j) => Owns(w, j)

\* A claim that may still be given back is the worker's, and nothing was done under it.
CallOwns(w) ==
  jobsCall[w].at # "idle" =>
    /\ jobsCall[w].job \in Job /\ Owns(w, jobsCall[w].job)
    /\ ~Granted(w, jobsCall[w].job) /\ working[w] # jobsCall[w].job
CallsOwn == \A w \in Worker : CallOwns(w)

JobsInv == JobsTypeInv /\ WorkersOwn /\ GrantsOwn /\ CallsOwn

-----------------------------------------------------------------------------
\* A working worker has the row, and a row has one worker.
LEMMA JobsInvImplies ==
  ASSUME JobsInv PROVE Jobs!OneWorkerPerJob
<1>1. SUFFICES ASSUME NEW w \in Worker, working[w] # None
               PROVE  /\ claims[working[w]].worker = w /\ claims[working[w]].status = "CLAIMED"
                      /\ \A v \in Worker : working[v] = working[w] => v = w
  BY DEF Jobs!OneWorkerPerJob
<1>2. working[w] \in Job
  BY <1>1 DEF JobsInv, JobsTypeInv
<1>3. \A v \in Worker : working[v] = working[w] => Owns(v, working[w])
  BY <1>1, <1>2 DEF JobsInv, WorkersOwn
<1> QED
  BY <1>1, <1>3 DEF Owns

LEMMA JobsInvInit ==
  ASSUME JobsWellPosed, Jobs!Init PROVE JobsInv
<1>1. JobsTypeInv
  BY DEF Jobs!Init, JobsTypeInv, JobState, Jobs!Absent, Jobs!Idle, Jobs!transitions
<1>2. WorkersOwn
  BY DEF Jobs!Init, WorkersOwn, JobsWellPosed
<1>3. GrantsOwn
  BY DEF Jobs!Init, GrantsOwn, Granted, Jobs!Absent
<1>4. CallsOwn
  BY DEF Jobs!Init, CallsOwn, CallOwns, Jobs!Idle
<1> QED
  BY <1>1, <1>2, <1>3, <1>4 DEF JobsInv

\* The call of a worker that keeps what it owns and is granted nothing.
LEMMA CallStays ==
  ASSUME JobsInv, NEW v \in Worker, jobsCall'[v] = jobsCall[v], working'[v] = working[v],
         \A i \in Job : Owns(v, i) => Owns(v, i)', \A i \in Job : Granted(v, i)' => Granted(v, i)
  PROVE  CallOwns(v)'
BY DEF JobsInv, CallsOwn, CallOwns

\* The table and the workers as they were, and no new grant: what is owned stays owned.
LEMMA NoNewGrant ==
  ASSUME JobsInv, JobsTypeInv', UNCHANGED <<claims, jobsCall, working>>,
         \A w \in Worker, j \in Job : Granted(w, j)' => Granted(w, j)
  PROVE  JobsInv'
<1>1. \A w \in Worker, j \in Job : Owns(w, j)' <=> Owns(w, j)
  BY DEF Owns
<1>2. WorkersOwn'
  BY <1>1 DEF JobsInv, WorkersOwn
<1>3. GrantsOwn'
  BY <1>1 DEF JobsInv, GrantsOwn
<1>4. CallsOwn'
  BY <1>1 DEF JobsInv, CallsOwn, CallOwns
<1> QED
  BY <1>2, <1>3, <1>4 DEF JobsInv

-----------------------------------------------------------------------------
LEMMA EnqueueInv ==
  ASSUME JobsInv, NEW e \in Engine, NEW j \in Job, Jobs!enqueue(e, j) PROVE JobsInv'
<1> DEFINE s == [status |-> "queued", claimedBy |-> None, attempts |-> 0]
<1>1. s \in JobState
  BY DEF JobState, Jobs!transitions
<1>2. jobs' = [jobs EXCEPT ![e][j] = s] /\ UNCHANGED <<claims, jobsCall, working>>
  BY DEF Jobs!enqueue
<1>3. JobsTypeInv'
  BY <1>1, <1>2 DEF JobsInv, JobsTypeInv
<1>4. /\ jobs'[e][j] = s
      /\ \A f \in Engine, i \in Job : f # e \/ i # j => jobs'[f][i] = jobs[f][i]
  BY <1>2 DEF JobsInv, JobsTypeInv
<1>5. ASSUME NEW w \in Worker, NEW i \in Job, Granted(w, i)' PROVE Granted(w, i)
  BY <1>4, <1>5 DEF Granted
<1> QED
  BY <1>2, <1>3, <1>5, NoNewGrant

\* The row was released, so nobody owned it: nobody was granted the job or works at it.
LEMMA ClaimInv ==
  ASSUME JobsInv, NEW w \in Worker, NEW j \in Job, Jobs!Claim(w, j) PROVE JobsInv'
<1> DEFINE row == [worker |-> w, status |-> "CLAIMED", attempts |-> claims[j].attempts + 1]
           new == [at |-> "claimed", job |-> j]
<1>1. claims' = [claims EXCEPT ![j] = row] /\ jobsCall' = [jobsCall EXCEPT ![w] = new] /\ UNCHANGED <<jobs, working>>
  BY DEF Jobs!Claim
<1>2. row \in [worker : Worker \cup {None}, status : {"CLAIMED", "RELEASED"}, attempts : Nat]
  BY DEF JobsInv, JobsTypeInv
<1>3. new \in [at : {"idle", "claimed", "release"}, job : Job \cup {None}]
  OBVIOUS
<1>4. JobsTypeInv'
  BY <1>1, <1>2, <1>3 DEF JobsInv, JobsTypeInv
<1>5. /\ jobsCall'[w] = new /\ \A v \in Worker : v # w => jobsCall'[v] = jobsCall[v]
      /\ claims'[j] = row /\ \A i \in Job : i # j => claims'[i] = claims[i]
  BY <1>1 DEF JobsInv, JobsTypeInv
<1>6. \A v \in Worker, i \in Job : Owns(v, i) => Owns(v, i)' /\ i # j
  BY <1>5 DEF Owns, Jobs!Claim
<1>7. \A v \in Worker, i \in Job : Granted(v, i)' <=> Granted(v, i)
  BY <1>1 DEF Granted
<1>8. WorkersOwn'
  BY <1>1, <1>6 DEF JobsInv, WorkersOwn
<1>9. GrantsOwn'
  BY <1>6, <1>7 DEF JobsInv, GrantsOwn
<1>10. ~Granted(w, j) /\ working[w] # j
  <2>1. working[w] # j
    BY <1>6 DEF JobsInv, WorkersOwn
  <2>2. ~Granted(w, j)
    BY <1>6 DEF JobsInv, GrantsOwn
  <2> QED
    BY <2>1, <2>2
<1>11. CallOwns(w)'
  BY <1>1, <1>5, <1>7, <1>10 DEF CallOwns, Owns
<1>12. ASSUME NEW v \in Worker, v # w PROVE CallOwns(v)'
  BY <1>1, <1>5, <1>6, <1>7, <1>12, CallStays
<1> QED
  BY <1>4, <1>8, <1>9, <1>11, <1>12 DEF JobsInv, CallsOwn

\* The engine grants the job, or the claim is to be given back.
LEMMA EngineClaimInv ==
  ASSUME JobsWellPosed, JobsInv, NEW w \in Worker, Jobs!EngineClaim(w) PROVE JobsInv'
<1> DEFINE e == EngineOf[w]
           j == jobsCall[w].job
           s == [status |-> "claimed", claimedBy |-> w, attempts |-> jobs[e][j].attempts + 1]
<1>1. e \in Engine /\ j \in Job /\ Owns(w, j) /\ jobsCall[w].at = "claimed" /\ UNCHANGED <<claims, working>>
  BY DEF Jobs!EngineClaim, JobsInv, CallsOwn, CallOwns, JobsWellPosed
<1>2. \A v \in Worker, i \in Job : Owns(v, i)' <=> Owns(v, i)
  BY <1>1 DEF Owns
<1>3. WorkersOwn'
  BY <1>1, <1>2 DEF JobsInv, WorkersOwn
<1>4. CASE Jobs!Allowed(e, j, "claimed")
  <2>1. jobs' = [jobs EXCEPT ![e][j] = s] /\ jobsCall' = [jobsCall EXCEPT ![w] = Jobs!Idle]
    BY <1>4 DEF Jobs!EngineClaim
  <2>2. s \in JobState
    BY <1>1 DEF JobsInv, JobsTypeInv, JobState, Jobs!transitions
  <2>3. JobsTypeInv'
    BY <1>1, <2>1, <2>2 DEF JobsInv, JobsTypeInv, Jobs!Idle
  <2>4. /\ jobs'[e][j] = s
        /\ \A f \in Engine, i \in Job : f # e \/ i # j => jobs'[f][i] = jobs[f][i]
    BY <1>1, <2>1 DEF JobsInv, JobsTypeInv
  <2>5. jobsCall'[w] = Jobs!Idle /\ \A v \in Worker : v # w => jobsCall'[v] = jobsCall[v]
    BY <2>1 DEF JobsInv, JobsTypeInv
  <2>6. ASSUME NEW v \in Worker, NEW i \in Job, Granted(v, i)' PROVE Granted(v, i) \/ (v = w /\ i = j)
    BY <2>4, <2>6 DEF Granted
  <2>7. GrantsOwn'
    BY <1>1, <1>2, <2>6 DEF JobsInv, GrantsOwn
  <2>8. CallOwns(w)'
    BY <2>5 DEF CallOwns, Jobs!Idle
  <2>9. ASSUME NEW v \in Worker, v # w PROVE CallOwns(v)'
    BY <1>1, <1>2, <2>5, <2>6, <2>9, CallStays
  <2> QED
    BY <1>3, <2>3, <2>7, <2>8, <2>9 DEF JobsInv, CallsOwn
<1>5. CASE ~Jobs!Allowed(e, j, "claimed")
  <2>1. jobsCall' = [jobsCall EXCEPT ![w].at = "release"] /\ UNCHANGED jobs
    BY <1>5 DEF Jobs!EngineClaim
  <2>2. JobsTypeInv'
    BY <1>1, <2>1 DEF JobsInv, JobsTypeInv
  <2>3. \A v \in Worker : v # w => jobsCall'[v] = jobsCall[v]
    BY <2>1 DEF JobsInv, JobsTypeInv
  <2>4. jobsCall'[w].job = jobsCall[w].job
    BY <2>1 DEF JobsInv, JobsTypeInv
  <2>5. \A v \in Worker, i \in Job : Granted(v, i)' <=> Granted(v, i)
    BY <2>1 DEF Granted
  <2>6. GrantsOwn'
    BY <1>2, <2>5 DEF JobsInv, GrantsOwn
  <2>7. CallOwns(w)'
    BY <1>1, <1>2, <2>4, <2>5 DEF JobsInv, CallsOwn, CallOwns
  <2>8. ASSUME NEW v \in Worker, v # w PROVE CallOwns(v)'
    BY <1>1, <1>2, <2>3, <2>5, <2>8, CallStays
  <2> QED
    BY <1>3, <2>2, <2>6, <2>7, <2>8 DEF JobsInv, CallsOwn
<1> QED
  BY <1>4, <1>5

\* The claim that is given back was the worker's own, and nobody works under it.
LEMMA ReleaseInv ==
  ASSUME JobsWellPosed, JobsInv, NEW w \in Worker, Jobs!Release(w) PROVE JobsInv'
<1> DEFINE j == jobsCall[w].job
<1>1. j \in Job /\ Owns(w, j) /\ ~Granted(w, j) /\ working[w] # j /\ UNCHANGED <<jobs, working>>
  BY DEF Jobs!Release, JobsInv, CallsOwn, CallOwns
<1>2. claims' = [claims EXCEPT ![j].status = "RELEASED"] /\ jobsCall' = [jobsCall EXCEPT ![w] = Jobs!Idle]
  BY <1>1 DEF Jobs!Release, Owns
<1>3. JobsTypeInv'
  BY <1>1, <1>2 DEF JobsInv, JobsTypeInv, Jobs!Idle
<1>4. /\ jobsCall'[w] = Jobs!Idle /\ \A v \in Worker : v # w => jobsCall'[v] = jobsCall[v]
      /\ \A i \in Job : i # j => claims'[i] = claims[i]
  BY <1>1, <1>2 DEF JobsInv, JobsTypeInv
<1>5. \A v \in Worker, i \in Job : Owns(v, i) => Owns(v, i)' \/ (v = w /\ i = j)
  BY <1>1, <1>4 DEF Owns
<1>6. \A v \in Worker, i \in Job : Granted(v, i)' <=> Granted(v, i)
  BY <1>1 DEF Granted
<1>7. WorkersOwn'
  BY <1>1, <1>5 DEF JobsInv, WorkersOwn
<1>8. GrantsOwn'
  BY <1>1, <1>5, <1>6 DEF JobsInv, GrantsOwn
<1>9. CallOwns(w)'
  BY <1>4 DEF CallOwns, Jobs!Idle
<1>10. ASSUME NEW v \in Worker, v # w PROVE CallOwns(v)'
  BY <1>1, <1>4, <1>5, <1>6, <1>10, CallStays
<1> QED
  BY <1>3, <1>7, <1>8, <1>9, <1>10 DEF JobsInv, CallsOwn

\* A change of the status alone grants nothing but to a worker that had it.
LEMMA StatusOnly ==
  ASSUME JobsTypeInv, NEW e \in Engine, NEW j \in Job, NEW next \in DOMAIN Jobs!transitions,
         jobs' = [jobs EXCEPT ![e][j].status = next],
         next \in {"claimed", "running"} => jobs[e][j].status \in {"claimed", "running"}
  PROVE  /\ jobs' \in [Engine -> [Job -> JobState]]
         /\ \A w \in Worker, i \in Job : Granted(w, i)' => Granted(w, i)
<1>1. jobs[e] \in [Job -> JobState]
  BY DEF JobsTypeInv
<1> DEFINE S == DOMAIN Jobs!transitions
<1>2. \A r \in [status : S, claimedBy : Worker \cup {None}, attempts : Nat] :
        [r EXCEPT !.status = next] \in [status : S, claimedBy : Worker \cup {None}, attempts : Nat]
  <2> HIDE DEF S
  <2>1. next \in S
    BY DEF S
  <2> QED
    BY <2>1
<1>3. [jobs[e][j] EXCEPT !.status = next] \in JobState
  BY <1>1, <1>2 DEF JobState
<1>4. jobs' \in [Engine -> [Job -> JobState]]
  BY <1>1, <1>3 DEF JobsTypeInv
<1>5. /\ jobs'[e][j].claimedBy = jobs[e][j].claimedBy /\ jobs'[e][j].status = next
      /\ \A f \in Engine, i \in Job : f # e \/ i # j => jobs'[f][i] = jobs[f][i]
  BY DEF JobsTypeInv, JobState
<1>6. ASSUME NEW w \in Worker, NEW i \in Job, Granted(w, i)' PROVE Granted(w, i)
  BY <1>5, <1>6 DEF Granted
<1> QED
  BY <1>4, <1>6

\* Who starts a job has been granted it, and thereby owns it.
LEMMA StartInv ==
  ASSUME JobsWellPosed, JobsInv, NEW w \in Worker, NEW j \in Job, Jobs!start(w, j) PROVE JobsInv'
<1>1. /\ EngineOf[w] \in Engine /\ jobs[EngineOf[w]][j].claimedBy = w /\ jobs[EngineOf[w]][j].status = "claimed"
      /\ jobs' = [jobs EXCEPT ![EngineOf[w]][j].status = "running"] /\ UNCHANGED <<claims, jobsCall>>
      /\ working' = [working EXCEPT ![w] = j]
  BY DEF Jobs!start, Jobs!Move, Jobs!Allowed, Jobs!transitions, JobsWellPosed, JobsInv, JobsTypeInv, JobState
<1>2. "running" \in DOMAIN Jobs!transitions
  BY DEF Jobs!transitions
<1>3. /\ jobs' \in [Engine -> [Job -> JobState]]
      /\ \A v \in Worker, i \in Job : Granted(v, i)' => Granted(v, i)
  BY <1>1, <1>2, StatusOnly DEF JobsInv
<1>4. JobsTypeInv'
  BY <1>1, <1>3 DEF JobsInv, JobsTypeInv
<1>5. \A v \in Worker, i \in Job : Owns(v, i)' <=> Owns(v, i)
  BY <1>1 DEF Owns
<1>6. Granted(w, j)
  BY <1>1 DEF Granted
<1>7. working'[w] = j /\ \A v \in Worker : v # w => working'[v] = working[v]
  BY <1>1 DEF JobsInv, JobsTypeInv
<1>8. WorkersOwn'
  BY <1>5, <1>6, <1>7 DEF JobsInv, WorkersOwn, GrantsOwn
<1>9. GrantsOwn'
  BY <1>3, <1>5 DEF JobsInv, GrantsOwn
<1>10. CallOwns(w)'
  BY <1>1, <1>3, <1>5, <1>6, <1>7 DEF JobsInv, CallsOwn, CallOwns
<1>11. ASSUME NEW v \in Worker, v # w PROVE CallOwns(v)'
  BY <1>1, <1>3, <1>5, <1>7, <1>11, CallStays
<1> QED
  BY <1>4, <1>8, <1>9, <1>10, <1>11 DEF JobsInv, CallsOwn

LEMMA CompleteInv ==
  ASSUME JobsWellPosed, JobsInv, NEW w \in Worker, NEW j \in Job, Jobs!complete(w, j) PROVE JobsInv'
<1>1. /\ EngineOf[w] \in Engine /\ jobs' = [jobs EXCEPT ![EngineOf[w]][j].status = "completed"]
      /\ UNCHANGED <<claims, jobsCall>> /\ working' = [working EXCEPT ![w] = None]
  BY DEF Jobs!complete, Jobs!Move, JobsWellPosed
<1>2. "completed" \in DOMAIN Jobs!transitions
  BY DEF Jobs!transitions
<1>3. /\ jobs' \in [Engine -> [Job -> JobState]]
      /\ \A v \in Worker, i \in Job : Granted(v, i)' => Granted(v, i)
  BY <1>1, <1>2, StatusOnly DEF JobsInv
<1>4. JobsTypeInv'
  BY <1>1, <1>3 DEF JobsInv, JobsTypeInv
<1>5. \A v \in Worker, i \in Job : Owns(v, i)' <=> Owns(v, i)
  BY <1>1 DEF Owns
<1>6. working'[w] = None /\ \A v \in Worker : v # w => working'[v] = working[v]
  BY <1>1 DEF JobsInv, JobsTypeInv
<1>7. WorkersOwn'
  BY <1>5, <1>6 DEF JobsInv, WorkersOwn, JobsWellPosed
<1>8. GrantsOwn'
  BY <1>3, <1>5 DEF JobsInv, GrantsOwn
<1>9. CallOwns(w)'
  BY <1>1, <1>3, <1>5, <1>6 DEF JobsInv, CallsOwn, CallOwns, JobsWellPosed
<1>10. ASSUME NEW v \in Worker, v # w PROVE CallOwns(v)'
  BY <1>1, <1>3, <1>5, <1>6, <1>10, CallStays
<1> QED
  BY <1>4, <1>7, <1>8, <1>9, <1>10 DEF JobsInv, CallsOwn

LEMMA RecordEvidenceInv ==
  ASSUME JobsInv, NEW e \in Engine, NEW j \in Job, Jobs!recordEvidence(e, j) PROVE JobsInv'
<1>1. jobs' = [jobs EXCEPT ![e][j].status = "evidence"] /\ UNCHANGED <<claims, jobsCall, working>>
  BY DEF Jobs!recordEvidence
<1>2. "evidence" \in DOMAIN Jobs!transitions
  BY DEF Jobs!transitions
<1>3. /\ jobs' \in [Engine -> [Job -> JobState]]
      /\ \A w \in Worker, i \in Job : Granted(w, i)' => Granted(w, i)
  BY <1>1, <1>2, StatusOnly DEF JobsInv
<1>4. JobsTypeInv'
  BY <1>1, <1>3 DEF JobsInv, JobsTypeInv
<1> QED
  BY <1>1, <1>3, <1>4, NoNewGrant

\* The rows of the dead stay theirs; what its engine had granted and its workers did is over.
LEMMA CrashInv ==
  ASSUME JobsWellPosed, JobsInv, NEW e \in Engine, Jobs!Crash(e) PROVE JobsInv'
<1>1. /\ jobs' = [jobs EXCEPT ![e] = [j \in Job |-> Jobs!Absent]] /\ UNCHANGED claims
      /\ jobsCall' = [w \in Worker |-> IF EngineOf[w] = e THEN Jobs!Idle ELSE jobsCall[w]]
      /\ working' = [w \in Worker |-> IF EngineOf[w] = e THEN None ELSE working[w]]
  BY DEF Jobs!Crash
<1>2. [j \in Job |-> Jobs!Absent] \in [Job -> JobState]
  BY DEF Jobs!Absent, JobState, Jobs!transitions
<1>3. JobsTypeInv'
  BY <1>1, <1>2 DEF JobsInv, JobsTypeInv, Jobs!Idle
<1>4. \A w \in Worker, i \in Job : Owns(w, i)' <=> Owns(w, i)
  BY <1>1 DEF Owns
<1>5. /\ \A i \in Job : jobs'[e][i] = Jobs!Absent
      /\ \A f \in Engine : f # e => jobs'[f] = jobs[f]
  BY <1>1 DEF JobsInv, JobsTypeInv
<1>6. ASSUME NEW w \in Worker, NEW i \in Job, Granted(w, i)' PROVE Granted(w, i)
  BY <1>5, <1>6 DEF Granted, Jobs!Absent
<1>7. WorkersOwn'
  BY <1>1, <1>4 DEF JobsInv, WorkersOwn, JobsWellPosed
<1>8. GrantsOwn'
  BY <1>4, <1>6 DEF JobsInv, GrantsOwn
<1>9. ASSUME NEW w \in Worker, EngineOf[w] = e PROVE CallOwns(w)'
  BY <1>1, <1>9 DEF CallOwns, Jobs!Idle
<1>10. ASSUME NEW w \in Worker, EngineOf[w] # e PROVE CallOwns(w)'
  BY <1>1, <1>4, <1>6, <1>10, CallStays
<1> QED
  BY <1>3, <1>7, <1>8, <1>9, <1>10 DEF JobsInv, CallsOwn

LEMMA JobsInvStays ==
  ASSUME JobsInv, UNCHANGED Jobs!vars PROVE JobsInv'
<1>1. JobsTypeInv'
  BY DEF JobsInv, JobsTypeInv, Jobs!vars
<1>2. \A w \in Worker, j \in Job : Granted(w, j)' => Granted(w, j)
  BY DEF Granted, Jobs!vars
<1> QED
  BY <1>1, <1>2, NoNewGrant DEF Jobs!vars

LEMMA JobsInvKept ==
  ASSUME JobsWellPosed, JobsInv, [Jobs!Next]_(Jobs!vars) PROVE JobsInv'
<1>1. CASE UNCHANGED Jobs!vars
  BY <1>1, JobsInvStays
<1>2. CASE \E e \in Engine : Jobs!Crash(e) \/ \E j \in Job : Jobs!enqueue(e, j) \/ Jobs!recordEvidence(e, j)
  BY <1>2, CrashInv, EnqueueInv, RecordEvidenceInv
<1>3. CASE \E w \in Worker : Jobs!EngineClaim(w) \/ Jobs!Release(w)
                             \/ \E j \in Job : Jobs!Claim(w, j) \/ Jobs!start(w, j) \/ Jobs!complete(w, j)
  BY <1>3, EngineClaimInv, ReleaseInv, ClaimInv, StartInv, CompleteInv
<1> QED
  BY <1>1, <1>2, <1>3 DEF Jobs!Next

-----------------------------------------------------------------------------
(* The events of a job in an engine. *)

JobEvent == [job : Job, type : {"queued", "claimed", "running", "completed", "evidence"}, attempts : Nat]

\* The last event of a job tells its status, and nothing is told of a job that is not there.
LastTells(e, j) ==
  \A n \in 1..Len(jobsEvents[e]) :
    jobsEvents[e][n].job = j /\ (\A m \in (n + 1)..Len(jobsEvents[e]) : jobsEvents[e][m].job # j) => jobsEvents[e][n].type = jobs[e][j].status

Follows(type, next) ==
  <<type, next>> \in {<<"queued", "claimed">>, <<"claimed", "running">>, <<"running", "completed">>, <<"completed", "evidence">>}

EventsOrderly(es) ==
  \A i, k \in DOMAIN es :
    /\ i < k /\ es[i].job = es[k].job /\ es[k].type # "queued"
    /\ ~\E n \in (i + 1)..(k - 1) : es[n].job = es[k].job
    => Follows(es[i].type, es[k].type)

JobEventsInv ==
  /\ jobsEvents \in [Engine -> Seq(JobEvent)]
  /\ \A e \in Engine : EventsOrderly(jobsEvents[e]) /\ \A j \in Job : LastTells(e, j)

LEMMA OrderlyFollows == JobEventsInv => Jobs!EventsFollowTransitions
BY DEF JobEventsInv, EventsOrderly, Follows, Jobs!EventsFollowTransitions

\* One more event, of a transition that is allowed.
LEMMA JobEventAppended ==
  ASSUME JobsTypeInv, JobEventsInv, NEW e \in Engine, NEW j \in Job, NEW x \in JobEvent, x.job = j, x.type = jobs'[e][j].status,
         jobsEvents' = [jobsEvents EXCEPT ![e] = Append(@, x)],
         x.type # "queued" => x.type \in Jobs!transitions[jobs[e][j].status],
         \A f \in Engine, i \in Job : f # e \/ i # j => jobs'[f][i].status = jobs[f][i].status
  PROVE  JobEventsInv'
<1> DEFINE old == jobsEvents[e]
           new == jobsEvents'[e]
<1>1. old \in Seq(JobEvent) /\ Len(old) \in Nat
  BY DEF JobEventsInv
<1>2. new = Append(old, x) /\ jobsEvents' \in [Engine -> Seq(JobEvent)] /\ \A f \in Engine : f # e => jobsEvents'[f] = jobsEvents[f]
  BY <1>1 DEF JobEventsInv
<1>3. /\ Len(new) = Len(old) + 1 /\ new[Len(new)] = x /\ \A n \in 1..Len(old) : new[n] = old[n]
      /\ DOMAIN new = 1..Len(new) /\ DOMAIN old = 1..Len(old)
  BY <1>1, <1>2
<1> HIDE DEF new, old
<1>4. ASSUME NEW f \in Engine, NEW i \in Job PROVE LastTells(f, i)'
  <2>1. CASE f # e
    BY <1>2, <2>1 DEF LastTells, JobEventsInv
  <2>2. CASE f = e
    <3> SUFFICES ASSUME NEW n \in 1..Len(new), new[n].job = i, \A m \in (n + 1)..Len(new) : new[m].job # i
                 PROVE  new[n].type = jobs'[e][i].status
      BY <2>2 DEF LastTells, new
    <3>1. CASE n = Len(new)
      BY <1>3, <3>1
    <3>2. CASE n # Len(new)
      <4>1. n \in 1..Len(old) /\ Len(new) \in (n + 1)..Len(new) /\ new[n] = old[n]
        BY <1>1, <1>3, <3>2
      <4>2. i # j
        BY <1>3, <4>1
      <4>3. \A m \in (n + 1)..Len(old) : old[m].job # i
        BY <1>1, <1>3
      <4>4. old[n].type = jobs[e][i].status
        BY <4>1, <4>3 DEF JobEventsInv, LastTells, old
      <4> QED
        BY <4>1, <4>2, <4>4
    <3> QED
      BY <3>1, <3>2
  <2> QED
    BY <2>1, <2>2
<1>5. ASSUME NEW i \in 1..Len(new), NEW k \in 1..Len(new), i < k, new[i].job = new[k].job, new[k].type # "queued",
             ~\E n \in (i + 1)..(k - 1) : new[n].job = new[k].job
      PROVE  Follows(new[i].type, new[k].type)
  <2>1. CASE k # Len(new)
    <3>1. i \in DOMAIN old /\ k \in DOMAIN old /\ new[i] = old[i] /\ new[k] = old[k]
      BY <1>1, <1>3, <1>5, <2>1
    <3>2. ~\E n \in (i + 1)..(k - 1) : old[n].job = old[k].job
      BY <1>1, <1>3, <1>5, <2>1, <3>1
    <3>3. EventsOrderly(old)
      BY DEF JobEventsInv, old
    <3> QED
      BY <1>5, <3>1, <3>2, <3>3 DEF EventsOrderly
  <2>2. CASE k = Len(new)
    <3>1. i \in 1..Len(old) /\ new[i] = old[i] /\ new[k] = x
      BY <1>1, <1>3, <1>5, <2>2
    <3>2. old[i].job = j /\ \A m \in (i + 1)..Len(old) : old[m].job # j
      BY <1>1, <1>3, <1>5, <2>2, <3>1
    <3>3. old[i].type = jobs[e][j].status
      BY <3>1, <3>2 DEF JobEventsInv, LastTells, old
    <3>4. x.type \in Jobs!transitions[old[i].type] /\ x.type # "queued"
      BY <1>5, <3>1, <3>3
    <3>5. old[i] \in JobEvent
      BY <1>1, <3>1
    <3>6. old[i].type \in {"queued", "claimed", "running", "completed", "evidence"}
      BY <3>5 DEF JobEvent
    <3> QED
      BY <3>1, <3>4, <3>6 DEF Jobs!transitions, Follows
  <2> QED
    BY <2>1, <2>2
<1>6. EventsOrderly(new)
  BY <1>3, <1>5 DEF EventsOrderly
<1>7. ASSUME NEW f \in Engine PROVE EventsOrderly(jobsEvents'[f])
  BY <1>2, <1>6 DEF JobEventsInv, new
<1> QED
  BY <1>2, <1>4, <1>7 DEF JobEventsInv

LEMMA JobEventsInit ==
  ASSUME Jobs!Init PROVE JobEventsInv
BY DEF Jobs!Init, JobEventsInv, LastTells, EventsOrderly

\* What an engine tells of a job is its status and the attempts.
LEMMA JobEventIs ==
  ASSUME JobsTypeInv', NEW e \in Engine, NEW j \in Job, NEW type \in {"queued", "claimed", "running", "completed", "evidence"}
  PROVE  [job |-> j, type |-> type, attempts |-> jobs'[e][j].attempts] \in JobEvent
BY DEF JobsTypeInv, JobState, JobEvent

LEMMA JobEventsKept ==
  ASSUME JobsWellPosed, JobsInv, JobsInv', JobEventsInv, [Jobs!Next]_(Jobs!vars) PROVE JobEventsInv'
<1> USE DEF JobsInv
<1> DEFINE Told(e, j, type) == [job |-> j, type |-> type, attempts |-> jobs'[e][j].attempts]
<1>1. ASSUME NEW e \in Engine, NEW j \in Job, NEW s \in JobState, s.status \in {"queued", "claimed"},
             jobs' = [jobs EXCEPT ![e][j] = s], Jobs!emit(e, j, s.status),
             s.status = "queued" \/ Jobs!Allowed(e, j, s.status)
      PROVE  JobEventsInv'
  <2>1. Told(e, j, s.status) \in JobEvent
    BY <1>1, JobEventIs DEF JobsInv
  <2>2. jobs'[e][j] = s /\ \A f \in Engine, i \in Job : f # e \/ i # j => jobs'[f][i] = jobs[f][i]
    BY <1>1 DEF JobsTypeInv
  <2>3. jobsEvents' = [jobsEvents EXCEPT ![e] = Append(@, Told(e, j, s.status))]
    BY <1>1 DEF Jobs!emit
  <2> DEFINE x == Told(e, j, s.status)
  <2>4. x \in JobEvent /\ x.job = j /\ x.type = jobs'[e][j].status
    BY <2>1, <2>2
  <2>5. x.type # "queued" => x.type \in Jobs!transitions[jobs[e][j].status]
    BY <1>1 DEF Jobs!Allowed
  <2>6. jobsEvents' = [jobsEvents EXCEPT ![e] = Append(@, x)]
    BY <2>3
  <2>7. JobsTypeInv /\ \A f \in Engine, i \in Job : f # e \/ i # j => jobs'[f][i].status = jobs[f][i].status
    BY <2>2
  <2> HIDE DEF x
  <2> QED
    BY <2>4, <2>5, <2>6, <2>7, JobEventAppended
<1>2. ASSUME NEW e \in Engine, NEW j \in Job, NEW next \in {"running", "completed", "evidence"},
             jobs' = [jobs EXCEPT ![e][j].status = next], Jobs!emit(e, j, next), Jobs!Allowed(e, j, next)
      PROVE  JobEventsInv'
  <2>1. Told(e, j, next) \in JobEvent
    BY JobEventIs
  <2>2. jobs'[e][j].status = next /\ \A f \in Engine, i \in Job : f # e \/ i # j => jobs'[f][i] = jobs[f][i]
    BY <1>2 DEF JobsTypeInv, JobState
  <2>3. jobsEvents' = [jobsEvents EXCEPT ![e] = Append(@, Told(e, j, next))]
    BY <1>2 DEF Jobs!emit
  <2> DEFINE x == Told(e, j, next)
  <2>4. x \in JobEvent /\ x.job = j /\ x.type = jobs'[e][j].status
    BY <2>1, <2>2
  <2>5. x.type \in Jobs!transitions[jobs[e][j].status]
    BY <1>2 DEF Jobs!Allowed
  <2>6. jobsEvents' = [jobsEvents EXCEPT ![e] = Append(@, x)]
    BY <2>3
  <2>7. JobsTypeInv /\ \A f \in Engine, i \in Job : f # e \/ i # j => jobs'[f][i].status = jobs[f][i].status
    BY <2>2
  <2> HIDE DEF x
  <2> QED
    BY <2>4, <2>5, <2>6, <2>7, JobEventAppended
<1>3. ASSUME UNCHANGED <<jobs, jobsEvents>> PROVE JobEventsInv'
  BY <1>3 DEF JobEventsInv, LastTells
<1>4. CASE \E e \in Engine : Jobs!Crash(e)
  <2> PICK e \in Engine : Jobs!Crash(e)
    BY <1>4
  <2>1. jobsEvents' = [jobsEvents EXCEPT ![e] = << >>] /\ jobs' = [jobs EXCEPT ![e] = [j \in Job |-> Jobs!Absent]]
    BY DEF Jobs!Crash
  <2>2. jobsEvents' \in [Engine -> Seq(JobEvent)] /\ jobsEvents'[e] = << >>
        /\ \A f \in Engine : f # e => jobsEvents'[f] = jobsEvents[f] /\ jobs'[f] = jobs[f]
    BY <2>1 DEF JobEventsInv, JobsTypeInv
  <2>3. ASSUME NEW f \in Engine PROVE EventsOrderly(jobsEvents'[f]) /\ \A j \in Job : LastTells(f, j)'
    <3>1. CASE f = e
      BY <2>2, <3>1 DEF LastTells, EventsOrderly
    <3>2. CASE f # e
      <4>1. jobsEvents'[f] = jobsEvents[f] /\ jobs'[f] = jobs[f] /\ EventsOrderly(jobsEvents[f]) /\ \A j \in Job : LastTells(f, j)
        BY <2>2, <3>2 DEF JobEventsInv
      <4> QED
        BY <4>1 DEF LastTells
    <3> QED
      BY <3>1, <3>2
  <2> QED
    BY <2>2, <2>3 DEF JobEventsInv
<1>5. ASSUME NEW e \in Engine, NEW j \in Job, Jobs!enqueue(e, j) PROVE JobEventsInv'
  <2> DEFINE s == [status |-> "queued", claimedBy |-> None, attempts |-> 0]
  <2>1. s \in JobState /\ s.status = "queued"
    BY DEF JobState, Jobs!transitions
  <2>2. jobs' = [jobs EXCEPT ![e][j] = s] /\ Jobs!emit(e, j, s.status)
    BY <1>5 DEF Jobs!enqueue
  <2> HIDE DEF s
  <2> QED
    BY <1>1, <2>1, <2>2
<1>6. ASSUME NEW w \in Worker, Jobs!EngineClaim(w) PROVE JobEventsInv'
  <2> DEFINE e == EngineOf[w]
             j == jobsCall[w].job
             s == [status |-> "claimed", claimedBy |-> w, attempts |-> jobs[e][j].attempts + 1]
  <2>1. e \in Engine /\ j \in Job
    BY <1>6 DEF JobsWellPosed, Jobs!EngineClaim, CallsOwn, CallOwns
  <2>2. CASE Jobs!Allowed(e, j, "claimed")
    <3>1. s \in JobState /\ s.status = "claimed"
      BY <1>6, <2>1 DEF JobsTypeInv, JobState, Jobs!transitions
    <3>2. jobs' = [jobs EXCEPT ![e][j] = s] /\ Jobs!emit(e, j, s.status)
      BY <1>6, <2>2 DEF Jobs!EngineClaim
    <3> HIDE DEF s
    <3> QED
      BY <1>1, <1>6, <2>1, <2>2, <3>1, <3>2
  <2>3. CASE ~Jobs!Allowed(e, j, "claimed")
    BY <1>3, <1>6, <2>3 DEF Jobs!EngineClaim
  <2> QED
    BY <2>2, <2>3
<1>7. ASSUME NEW w \in Worker, NEW j \in Job, Jobs!start(w, j) \/ Jobs!complete(w, j) PROVE JobEventsInv'
  BY <1>2, <1>7 DEF Jobs!start, Jobs!complete, Jobs!Move, JobsWellPosed
<1>8. ASSUME NEW e \in Engine, NEW j \in Job, Jobs!recordEvidence(e, j) PROVE JobEventsInv'
  BY <1>2, <1>8 DEF Jobs!recordEvidence
<1> QED
  BY <1>3, <1>4, <1>5, <1>6, <1>7, <1>8 DEF Jobs!Next, Jobs!vars, Jobs!Claim, Jobs!Release

-----------------------------------------------------------------------------
JobsBounded == (\A j \in Job : claims[j].attempts \in 0..MaxAttempts) /\ jobsCrashes \in 0..MaxCrash

LEMMA JobsBoundedKept ==
  ASSUME JobsTypeInv, JobsBounded, MaxAttempts \in Nat, MaxCrash \in Nat, [Jobs!Next]_(Jobs!vars) PROVE JobsBounded'
<1>1. CASE UNCHANGED <<claims, jobsCrashes>>
  BY <1>1 DEF JobsBounded
<1>2. CASE \E e \in Engine : Jobs!Crash(e)
  BY <1>2 DEF Jobs!Crash, JobsBounded
<1>3. ASSUME NEW w \in Worker, NEW j \in Job, Jobs!Claim(w, j) PROVE JobsBounded'
  <2>1. claims[j].attempts + 1 \in 0..MaxAttempts
    BY <1>3 DEF Jobs!Claim, JobsBounded
  <2> QED
    BY <1>3, <2>1 DEF Jobs!Claim, JobsBounded, JobsTypeInv
<1>4. ASSUME NEW w \in Worker, Jobs!Release(w) PROVE JobsBounded'
  <2> DEFINE j == jobsCall[w].job
  <2>1. CASE UNCHANGED claims
    BY <1>4, <2>1 DEF Jobs!Release, JobsBounded
  <2>2. CASE claims' = [claims EXCEPT ![j].status = "RELEASED"] /\ jobsCrashes' = jobsCrashes
    BY <2>2 DEF JobsBounded, JobsTypeInv
  <2> QED
    BY <1>4, <2>1, <2>2 DEF Jobs!Release
<1> QED
  BY <1>1, <1>2, <1>3, <1>4
  DEF Jobs!Next, Jobs!vars, Jobs!enqueue, Jobs!recordEvidence, Jobs!EngineClaim, Jobs!start, Jobs!complete, Jobs!Move

-----------------------------------------------------------------------------
\* All that is claimed of jobs, by one invariant: their records are sound and bounded, they are worked at by one worker,
\* and their events follow the transitions (job-engine.ts 3, 28).
JobsSound == JobsInv /\ JobEventsInv /\ JobsBounded

LEMMA JobsSoundInit == ASSUME JobsWellPosed, MaxAttempts \in Nat, MaxCrash \in Nat, Jobs!Init PROVE JobsSound
<1>1. JobsBounded
  BY DEF Jobs!Init, JobsBounded
<1> QED
  BY <1>1, JobsInvInit, JobEventsInit DEF JobsSound

LEMMA JobsSoundKept ==
  ASSUME JobsWellPosed, MaxAttempts \in Nat, MaxCrash \in Nat, JobsSound, [Jobs!Next]_(Jobs!vars) PROVE JobsSound'
<1>1. JobsInv'
  BY JobsInvKept DEF JobsSound
<1> QED
  BY <1>1, JobEventsKept, JobsBoundedKept DEF JobsSound, JobsInv

LEMMA JobsSoundImplies == JobsSound => Jobs!TypeOK /\ Jobs!OneWorkerPerJob /\ Jobs!EventsFollowTransitions
<1> SUFFICES ASSUME JobsSound PROVE Jobs!TypeOK /\ Jobs!OneWorkerPerJob /\ Jobs!EventsFollowTransitions
  OBVIOUS
<1>1. Jobs!TypeOK
  <2>1. \A e \in Engine, j \in Job : jobs[e][j] \in JobState
    BY DEF JobsSound, JobsInv, JobsTypeInv
  <2>2. \A j \in Job : claims[j].status \in {"CLAIMED", "RELEASED"}
    BY DEF JobsSound, JobsInv, JobsTypeInv
  <2>3. /\ \A j \in Job : claims[j].attempts \in 0..MaxAttempts
        /\ jobsCrashes \in 0..MaxCrash /\ working \in [Worker -> Job \cup {None}]
    BY DEF JobsSound, JobsInv, JobsTypeInv, JobsBounded
  <2> QED
    BY <2>1, <2>2, <2>3 DEF Jobs!TypeOK, JobState
<1> QED
  BY <1>1, JobsInvImplies, OrderlyFollows DEF JobsSound

LEMMA JobsInit == Init => JobsSound
BY JobsSoundInit, JobsAssumption DEF Init, JobsWellPosed

LEMMA JobsKept == JobsSound /\ [Next]_vars => JobsSound'
<1>1. [Next]_vars => [Jobs!Next]_(Jobs!vars)
  BY DEF Next, vars, jobsVars, Jobs!vars
<1> QED
  BY <1>1, JobsSoundKept, JobsAssumption DEF JobsWellPosed

\* Two workers never work at one job, and in one life of a job in an engine its events follow the transitions, for any
\* engines, workers and jobs, however calls interleave and processes die (job-engine.ts, job-claim-store.ts).
THEOREM OneWorkerPerJobAlways == Spec => []OneWorkerPerJob
<1>1. JobsSound => OneWorkerPerJob
  BY JobsSoundImplies DEF OneWorkerPerJob
<1> QED
  BY JobsInit, JobsKept, <1>1, PTL DEF Spec

-----------------------------------------------------------------------------
(* What several parts need: the last number of a set, the members of a sequence. *)

Less == {p \in Nat \X Nat : p[1] < p[2]}

LEMMA Maximum ==
  ASSUME NEW n \in Nat, NEW S \in SUBSET (1..n), S # {}
  PROVE  \E m \in S : \A k \in S : k <= m
<1> DEFINE T == {k \in Nat : \E m \in S : k = n - m}
<1>1. OpToRel(<, Nat) = Less
  BY DEF OpToRel, Less
<1>2. IsWellFoundedOn(Less, Nat)
  BY <1>1, NatLessThanWellFounded
<1>3. T \in SUBSET Nat /\ T # {}
  <2>1. PICK m \in S : TRUE
    OBVIOUS
  <2>2. n - m \in T
    OBVIOUS
  <2> QED
    BY <2>2
<1>4. PICK least \in T : \A y \in T : ~(<<y, least>> \in Less)
  <2> HIDE DEF T
  <2> QED
    BY <1>2, <1>3, WFMin
<1>5. PICK m \in S : least = n - m
  BY <1>4
<1>6. ASSUME NEW k \in S PROVE k <= m
  <2>1. n - k \in T /\ n - k \in Nat
    OBVIOUS
  <2>2. ~(n - k < least)
    BY <1>4, <2>1 DEF Less
  <2> QED
    BY <1>5, <2>2
<1> QED
  BY <1>6

-----------------------------------------------------------------------------
(* Memory: a record is known by the event that holds it. *)

Actions == {"CREATED", "RETRIEVED", "VALIDATED", "REJECTED", "PROMOTED", "SUPERSEDED", "ARCHIVED"}
Records == [id : Id, ns : Memory!Namespace, status : Memory!Status, version : Nat, evidence : BOOLEAN, by : Id \cup {None}, from : Id \cup {None}]
MemoryEvents == {event \in [action : Actions, memory : Records] : event.action = "SUPERSEDED" => event.memory.by # None}
Said == [ns : Memory!Namespace, status : Memory!Status, evidence : BOOLEAN]

MemoryTypes ==
  log \in Seq(MemoryEvents) /\ memoryCall \in [Call -> Seq(MemoryEvents)] /\ torn \in SUBSET Id

\* What is the company's has evidence, and a validated source among the first events.
Grounded(l, memory, n) ==
  memory.ns = "company" => memory.evidence /\ \E j \in 1..n : l[j].memory.id = memory.from /\ l[j].memory.status = "VALIDATED"

\* An id in use: of the log, of a call, or of what a dead call did not append.
InUse == Memory!Known(log) \cup torn \cup UNION {Memory!Pending(c) : c \in Call}

MemoryInv ==
  /\ MemoryTypes
  /\ \A i \in DOMAIN log : Grounded(log, log[i].memory, i - 1) /\ log[i].memory.by \in InUse \cup {None}
  /\ \A c \in Call : \A i \in DOMAIN memoryCall[c] :
       Grounded(log, memoryCall[c][i].memory, Len(log)) /\ memoryCall[c][i].memory.by \in InUse \cup {None}

LEMMA CurrentIsLogged ==
  ASSUME NEW l \in Seq(MemoryEvents), NEW id \in Memory!Known(l)
  PROVE  \E i \in DOMAIN l : l[i].memory.id = id /\ Memory!Current(l, id) = l[i].memory
<1> DEFINE S == {i \in DOMAIN l : l[i].memory.id = id}
<1>1. S \in SUBSET (1..Len(l)) /\ S # {} /\ Len(l) \in Nat
  BY DEF Memory!Known
<1>2. PICK m \in S : \A k \in S : k <= m
  BY <1>1, Maximum
<1> DEFINE last(i) == i \in DOMAIN l /\ l[i].memory.id = id /\ \A j \in DOMAIN l : l[j].memory.id = id => j <= i
<1>3. \E i : last(i)
  BY <1>2
<1> DEFINE i == CHOOSE i \in DOMAIN l : l[i].memory.id = id /\ \A j \in DOMAIN l : l[j].memory.id = id => j <= i
<1>4. last(i)
  BY <1>3
<1> QED
  BY <1>4 DEF Memory!Current

LEMMA MemoryInit == Init => MemoryInv
BY DEF Init, Memory!Init, MemoryInv, MemoryTypes

\* A record that a call reads is a record, with what the log says of it.
LEMMA CurrentIsSound ==
  ASSUME MemoryInv, NEW id \in Memory!Known(log)
  PROVE  LET memory == Memory!Current(log, id) IN
         memory \in Records /\ memory.id = id /\ Grounded(log, memory, Len(log)) /\ memory.by \in InUse \cup {None}
<1>1. log \in Seq(MemoryEvents)
  BY DEF MemoryInv, MemoryTypes
<1>2. PICK i \in DOMAIN log : log[i].memory.id = id /\ Memory!Current(log, id) = log[i].memory
  BY <1>1, CurrentIsLogged
<1>3. i \in 1..Len(log) /\ Len(log) \in Nat /\ log[i] \in MemoryEvents
  BY <1>1
<1>4. Grounded(log, log[i].memory, i - 1) /\ log[i].memory.by \in InUse \cup {None}
  BY DEF MemoryInv
<1>5. Grounded(log, log[i].memory, Len(log))
  BY <1>3, <1>4 DEF Grounded
<1>6. log[i].memory \in Records
  BY <1>3 DEF MemoryEvents
<1> QED
  BY <1>2, <1>4, <1>5, <1>6

\* A call that reads the log keeps what holds, if what it will append is sound and names what is in use or it makes.
LEMMA BeginKept ==
  ASSUME MemoryInv, NEW c \in Call, Memory!Idle(c), NEW events \in Seq(MemoryEvents), Memory!Begin(c, events),
         \A i \in DOMAIN events :
           /\ Grounded(log, events[i].memory, Len(log))
           /\ events[i].memory.by \in InUse \cup {events[k].memory.id : k \in DOMAIN events} \cup {None}
  PROVE  MemoryInv'
<1>1. memoryCall[c] = << >> /\ memoryCall' = [memoryCall EXCEPT ![c] = events] /\ UNCHANGED <<log, torn>>
  BY DEF Memory!Begin, Memory!Idle
<1>2. /\ memoryCall' \in [Call -> Seq(MemoryEvents)] /\ memoryCall'[c] = events
      /\ \A d \in Call \ {c} : memoryCall'[d] = memoryCall[d]
  BY <1>1 DEF MemoryInv, MemoryTypes
<1>3. InUse \subseteq InUse'
  BY <1>1, <1>2 DEF InUse, Memory!Pending
<1>4. {events[k].memory.id : k \in DOMAIN events} \subseteq InUse'
  BY <1>2 DEF InUse, Memory!Pending
<1>5. log' = log
  BY <1>1
<1>6. MemoryTypes'
  BY <1>1, <1>2 DEF MemoryInv, MemoryTypes
<1>7. \A i \in DOMAIN log' : Grounded(log', log'[i].memory, i - 1) /\ log'[i].memory.by \in InUse' \cup {None}
  BY <1>1, <1>3, <1>5 DEF MemoryInv
<1>8. ASSUME NEW d \in Call, NEW i \in DOMAIN memoryCall'[d]
      PROVE  Grounded(log', memoryCall'[d][i].memory, Len(log')) /\ memoryCall'[d][i].memory.by \in InUse' \cup {None}
  <2>1. CASE d = c
    BY <1>1, <1>2, <1>3, <1>4, <1>5, <2>1
  <2>2. CASE d # c
    BY <1>1, <1>2, <1>3, <1>5, <2>2 DEF MemoryInv
  <2> QED
    BY <2>1, <2>2
<1> QED
  BY <1>6, <1>7, <1>8 DEF MemoryInv

\* What was to be appended is.
LEMMA AppendKept ==
  ASSUME MemoryInv, NEW c \in Call, Memory!AppendMemoryEvent(c) PROVE MemoryInv'
<1> DEFINE event == Head(memoryCall[c])
<1>1. /\ memoryCall[c] # << >> /\ log' = Append(log, event)
      /\ memoryCall' = [memoryCall EXCEPT ![c] = Tail(memoryCall[c])] /\ torn' = torn
  BY DEF Memory!AppendMemoryEvent, MemoryInv, MemoryTypes
<1>2. memoryCall[c] \in Seq(MemoryEvents) /\ log \in Seq(MemoryEvents) /\ 1 \in DOMAIN memoryCall[c] /\ Len(log) \in Nat
  BY <1>1 DEF MemoryInv, MemoryTypes
<1>3. event = memoryCall[c][1] /\ event \in MemoryEvents
  BY <1>1, <1>2
<1>4. /\ Tail(memoryCall[c]) \in Seq(MemoryEvents)
      /\ \A i \in DOMAIN Tail(memoryCall[c]) : i + 1 \in DOMAIN memoryCall[c] /\ Tail(memoryCall[c])[i] = memoryCall[c][i + 1]
      /\ \A i \in DOMAIN memoryCall[c] : i # 1 => i - 1 \in DOMAIN Tail(memoryCall[c]) /\ Tail(memoryCall[c])[i - 1] = memoryCall[c][i]
  BY <1>1, <1>2
<1>5. /\ memoryCall' \in [Call -> Seq(MemoryEvents)] /\ memoryCall'[c] = Tail(memoryCall[c])
      /\ \A d \in Call \ {c} : memoryCall'[d] = memoryCall[d]
  BY <1>1, <1>4 DEF MemoryInv, MemoryTypes
<1> HIDE DEF event
<1>6. /\ log' \in Seq(MemoryEvents) /\ Len(log') = Len(log) + 1 /\ DOMAIN log' = 1..(Len(log) + 1) /\ DOMAIN log = 1..Len(log)
      /\ \A i \in DOMAIN log : log'[i] = log[i]
      /\ log'[Len(log) + 1] = event
  BY <1>1, <1>2, <1>3
<1>7. InUse \subseteq InUse'
  <2>1. Memory!Known(log) \subseteq Memory!Known(log') /\ event.memory.id \in Memory!Known(log')
    BY <1>6, <1>2 DEF Memory!Known
  <2>2. ASSUME NEW d \in Call, NEW id \in Memory!Pending(d), id \notin Memory!Pending(d)' PROVE id = event.memory.id
    <3>1. PICK i \in DOMAIN memoryCall[d] : id = memoryCall[d][i].memory.id
      BY DEF Memory!Pending
    <3>2. d = c
      BY <1>5, <2>2 DEF Memory!Pending
    <3>3. ASSUME i # 1 PROVE FALSE
      <4>1. i \in DOMAIN memoryCall[c] /\ i - 1 \in DOMAIN memoryCall'[d] /\ memoryCall'[d][i - 1] = memoryCall[d][i]
        BY <1>4, <1>5, <3>1, <3>2, <3>3
      <4>2. id \in Memory!Pending(d)'
        BY <3>1, <4>1 DEF Memory!Pending
      <4> QED
        BY <2>2, <4>2
    <3> QED
      BY <1>3, <3>1, <3>2, <3>3
  <2>3. Memory!Known(log)' = Memory!Known(log')
    BY DEF Memory!Known
  <2> QED
    BY <1>1, <2>1, <2>2, <2>3 DEF InUse
<1>8. ASSUME NEW memory, NEW n \in Nat, NEW m \in Nat, n <= Len(log), n <= m, Grounded(log, memory, n) PROVE Grounded(log', memory, m)
  BY <1>2, <1>6, <1>8 DEF Grounded
<1>9. MemoryTypes'
  BY <1>1, <1>5, <1>6 DEF MemoryInv, MemoryTypes
<1>10. Grounded(log, event.memory, Len(log)) /\ event.memory.by \in InUse \cup {None}
  BY <1>2, <1>3 DEF MemoryInv
<1>11. ASSUME NEW i \in DOMAIN log' PROVE Grounded(log', log'[i].memory, i - 1) /\ log'[i].memory.by \in InUse' \cup {None}
  <2>1. CASE i = Len(log) + 1
    <3>1. Grounded(log', event.memory, Len(log))
      BY <1>2, <1>8, <1>10
    <3> QED
      BY <1>2, <1>6, <1>7, <1>10, <2>1, <3>1
  <2>2. CASE i # Len(log) + 1
    <3>1. i \in DOMAIN log /\ i - 1 \in Nat /\ i - 1 <= Len(log) /\ log'[i] = log[i]
      BY <1>2, <1>6, <2>2
    <3>2. Grounded(log, log[i].memory, i - 1) /\ log[i].memory.by \in InUse \cup {None}
      BY <3>1 DEF MemoryInv
    <3>3. Grounded(log', log[i].memory, i - 1)
      BY <1>8, <3>1, <3>2
    <3> QED
      BY <1>7, <3>1, <3>2, <3>3
  <2> QED
    BY <2>1, <2>2
<1>12. ASSUME NEW d \in Call, NEW i \in DOMAIN memoryCall'[d]
       PROVE  Grounded(log', memoryCall'[d][i].memory, Len(log')) /\ memoryCall'[d][i].memory.by \in InUse' \cup {None}
  <2>1. \E k \in DOMAIN memoryCall[d] : memoryCall'[d][i] = memoryCall[d][k]
    <3>1. CASE d = c
      <4>1. i \in DOMAIN Tail(memoryCall[c]) /\ memoryCall'[d][i] = Tail(memoryCall[c])[i]
        BY <1>5, <3>1
      <4>2. i + 1 \in DOMAIN memoryCall[c] /\ memoryCall'[d][i] = memoryCall[c][i + 1]
        BY <1>4, <4>1
      <4> QED
        BY <3>1, <4>2
    <3> QED
      BY <1>5, <3>1
  <2>4. PICK k \in DOMAIN memoryCall[d] : memoryCall'[d][i] = memoryCall[d][k]
    BY <2>1
  <2>2. Grounded(log, memoryCall[d][k].memory, Len(log)) /\ memoryCall[d][k].memory.by \in InUse \cup {None}
    BY DEF MemoryInv
  <2>3. Grounded(log', memoryCall[d][k].memory, Len(log'))
    BY <1>2, <1>6, <1>8, <2>2
  <2> QED
    BY <1>7, <2>4, <2>2, <2>3
<1> QED
  BY <1>9, <1>11, <1>12 DEF MemoryInv

\* What a call that dies did not append is torn, and still in use.
LEMMA CrashKept ==
  ASSUME MemoryInv, NEW c \in Call, Memory!Crash(c) PROVE MemoryInv'
<1>1. memoryCall' = [memoryCall EXCEPT ![c] = << >>] /\ torn' = torn \cup Memory!Pending(c) /\ log' = log
  BY DEF Memory!Crash
<1>2. /\ memoryCall' \in [Call -> Seq(MemoryEvents)] /\ memoryCall'[c] = << >>
      /\ \A d \in Call \ {c} : memoryCall'[d] = memoryCall[d]
  BY <1>1 DEF MemoryInv, MemoryTypes
<1>3. Memory!Pending(c) \in SUBSET Id
  <2>1. \A i \in DOMAIN memoryCall[c] : memoryCall[c][i] \in MemoryEvents
    BY DEF MemoryInv, MemoryTypes
  <2>2. \A event \in MemoryEvents : event.memory.id \in Id
    BY DEF MemoryEvents, Records
  <2> QED
    BY <2>1, <2>2 DEF Memory!Pending
<1>4. MemoryTypes'
  BY <1>1, <1>2, <1>3 DEF MemoryInv, MemoryTypes
<1>5. InUse \subseteq InUse'
  <2>1. \A d \in Call \ {c} : Memory!Pending(d)' = Memory!Pending(d)
    BY <1>2 DEF Memory!Pending
  <2>2. Memory!Known(log)' = Memory!Known(log)
    BY <1>1
  <2> QED
    BY <1>1, <2>1, <2>2 DEF InUse
<1>6. log' = log
  BY <1>1
<1>7. \A i \in DOMAIN log' : Grounded(log', log'[i].memory, i - 1) /\ log'[i].memory.by \in InUse' \cup {None}
  BY <1>1, <1>5, <1>6 DEF MemoryInv
<1>8. ASSUME NEW d \in Call, NEW i \in DOMAIN memoryCall'[d]
      PROVE  Grounded(log', memoryCall'[d][i].memory, Len(log')) /\ memoryCall'[d][i].memory.by \in InUse' \cup {None}
  <2>1. d # c /\ memoryCall'[d] = memoryCall[d]
    BY <1>2
  <2> QED
    BY <1>1, <1>5, <1>6, <2>1 DEF MemoryInv
<1> QED
  BY <1>4, <1>7, <1>8 DEF MemoryInv

\* A new record, and the events of calls, are what they should be.
LEMMA NewRecord ==
  ASSUME NEW id \in Id, NEW given \in Said
  PROVE  LET memory == Memory!NormalizedRecord(id, given) IN
         memory \in Records /\ memory.id = id /\ memory.ns = given.ns /\ memory.by = None /\ memory.status = given.status
BY DEF Memory!NormalizedRecord, Records, Said

LEMMA NewStatus ==
  ASSUME NEW memory \in Records, NEW status \in Memory!Status
  PROVE  LET moved == Memory!With(memory, status) IN
         moved \in Records /\ moved.id = memory.id /\ moved.ns = memory.ns /\ moved.by = memory.by
           /\ moved.evidence = memory.evidence /\ moved.from = memory.from /\ moved.status = status
<1> DEFINE moved == Memory!With(memory, status)
<1>1. /\ moved = [memory EXCEPT !.status = status, !.version = memory.version + 1]
      /\ memory = [memory EXCEPT !.status = memory.status] /\ memory.version + 1 \in Nat
  BY DEF Memory!With, Records
<1>2. moved \in Records
  BY <1>1 DEF Records
<1>3. moved.id = memory.id /\ moved.ns = memory.ns /\ moved.by = memory.by /\ moved.from = memory.from
  BY <1>1 DEF Records
<1>4. moved.evidence = memory.evidence /\ moved.status = status
  BY <1>1 DEF Records
<1> QED
  BY <1>2, <1>3, <1>4

LEMMA NewEvent ==
  ASSUME NEW memory \in Records, NEW action \in Actions, action = "SUPERSEDED" => memory.by # None
  PROVE  /\ Memory!AppendEvent(action, memory) \in MemoryEvents /\ Memory!AppendEvent(action, memory).memory = memory
         /\ Memory!AppendEvent(action, memory).action = action
BY DEF Memory!AppendEvent, MemoryEvents

LEMMA KnownIds == MemoryInv => Memory!Known(log) \in SUBSET Id /\ IsFiniteSet(Memory!Known(log))
<1> SUFFICES ASSUME MemoryInv PROVE Memory!Known(log) \in SUBSET Id /\ IsFiniteSet(Memory!Known(log))
  OBVIOUS
<1>1. log \in Seq(MemoryEvents)
  BY DEF MemoryInv, MemoryTypes
<1>2. \A i \in DOMAIN log : log[i].memory.id \in Id
  <2>1. \A i \in DOMAIN log : log[i] \in MemoryEvents
    BY <1>1
  <2> QED
    BY <2>1 DEF MemoryEvents, Records
<1>3. IsFiniteSet(1..Len(log))
  BY <1>1, FS_Interval
<1> DEFINE ids == [i \in 1..Len(log) |-> log[i].memory.id]
<1>4. ids \in Surjection(1..Len(log), Memory!Known(log))
  <2>1. DOMAIN log = 1..Len(log)
    BY <1>1
  <2>2. Memory!Known(log) = {log[i].memory.id : i \in 1..Len(log)}
    BY <2>1 DEF Memory!Known
  <2>3. ids \in [1..Len(log) -> Memory!Known(log)]
    BY <2>2
  <2>4. \A id \in Memory!Known(log) : \E i \in 1..Len(log) : ids[i] = id
    BY <2>2
  <2> HIDE DEF ids
  <2> QED
    BY <2>3, <2>4 DEF Surjection
<1>5. IsFiniteSet(Memory!Known(log))
  <2> HIDE DEF ids
  <2> QED
    BY <1>3, <1>4, FS_Surjection
<1> QED
  BY <1>2, <1>5 DEF Memory!Known

\* One event about a record that is sound.
LEMMA OneEventKept ==
  ASSUME MemoryInv, NEW c \in Call, Memory!Idle(c), NEW memory \in Records, NEW action \in Actions \ {"SUPERSEDED"},
         Memory!Begin(c, <<Memory!AppendEvent(action, memory)>>),
         Grounded(log, memory, Len(log)), memory.by \in InUse \cup {None}
  PROVE  MemoryInv'
<1> DEFINE events == <<Memory!AppendEvent(action, memory)>>
<1>1. events \in Seq(MemoryEvents) /\ \A i \in DOMAIN events : events[i].memory = memory
  BY NewEvent
<1>2. Memory!Begin(c, events)
  OBVIOUS
<1> HIDE DEF events
<1>3. \A i \in DOMAIN events : /\ Grounded(log, events[i].memory, Len(log))
                             /\ events[i].memory.by \in InUse \cup {events[k].memory.id : k \in DOMAIN events} \cup {None}
  BY <1>1
<1> QED
  BY <1>1, <1>2, <1>3, BeginKept

LEMMA MemoryActionsKept ==
  ASSUME MemoryInv, NEW c \in Call 
  PROVE
    /\ Memory!Remember(c) => MemoryInv'
    /\ Memory!CreateHandoff(c) => MemoryInv'
    /\ Memory!ValidateMemory(c) => MemoryInv'
    /\ Memory!PromoteMemory(c) => MemoryInv'
    /\ Memory!ArchiveMemory(c) => MemoryInv'
<1>1. (\A id \in Memory!FreshId : id \in Id)
      /\ {"CANDIDATE", "VALIDATED", "ACTIVE", "REJECTED", "ARCHIVED"} \subseteq Memory!Status
      /\ {"CREATED", "VALIDATED", "REJECTED", "ARCHIVED", "PROMOTED"} \subseteq Actions \ {"SUPERSEDED"}
      /\ {"project", "claude", "company"} \subseteq Memory!Namespace
      /\ Memory!Active("project", FALSE) \in Said /\ Memory!Active("project", FALSE).ns # "company"
      /\ Memory!Active("company", TRUE) \in Said /\ Given \subseteq Said
  BY MemoryAssumption DEF Memory!FreshId, Memory!Status, Actions, Memory!Namespace, Memory!Active, Said
<1>2. ASSUME NEW id \in Id, NEW given \in Said, given.ns # "company", NEW action \in Actions \ {"SUPERSEDED"}, Memory!Idle(c),
             Memory!Begin(c, <<Memory!AppendEvent(action, Memory!NormalizedRecord(id, given))>>)
      PROVE  MemoryInv'
  <2> DEFINE memory == Memory!NormalizedRecord(id, given)
  <2>1. memory \in Records /\ memory.by = None /\ memory.ns # "company"
    BY <1>2, NewRecord
  <2>2. Memory!Begin(c, <<Memory!AppendEvent(action, memory)>>)
    BY <1>2
  <2> HIDE DEF memory
  <2>3. Grounded(log, memory, Len(log)) /\ memory.by \in InUse \cup {None}
    BY <2>1 DEF Grounded
  <2> QED
    BY <1>2, <2>1, <2>2, <2>3, OneEventKept
<1>3. ASSUME NEW id \in Memory!Known(log), NEW status \in Memory!Status, NEW action \in Actions \ {"SUPERSEDED"}, Memory!Idle(c),
             Memory!Begin(c, <<Memory!AppendEvent(action, Memory!With(Memory!Current(log, id), status))>>)
      PROVE  MemoryInv'
  <2> DEFINE old == Memory!Current(log, id)
             memory == Memory!With(old, status)
  <2>1. old \in Records /\ Grounded(log, old, Len(log)) /\ old.by \in InUse \cup {None}
    BY CurrentIsSound
  <2>2. Memory!Begin(c, <<Memory!AppendEvent(action, memory)>>)
    BY <1>3
  <2> HIDE DEF old
  <2>3. /\ memory \in Records /\ memory.ns = old.ns /\ memory.by = old.by
        /\ memory.evidence = old.evidence /\ memory.from = old.from
    BY <2>1, NewStatus
  <2> HIDE DEF memory
  <2>4. Grounded(log, memory, Len(log)) /\ memory.by \in InUse \cup {None}
    BY <2>1, <2>3 DEF Grounded
  <2> QED
    BY <1>3, <2>2, <2>3, <2>4, OneEventKept
<1>4. ASSUME Memory!Remember(c) PROVE MemoryInv'
  <2>1. PICK id \in Id, given \in Given :
          /\ Memory!Idle(c) /\ given.ns # "company"
          /\ Memory!Begin(c, <<Memory!AppendEvent("CREATED", Memory!NormalizedRecord(id, given))>>)
    BY <1>4 DEF Memory!Remember
  <2>2. given \in Said /\ "CREATED" \in Actions \ {"SUPERSEDED"}
    BY <1>1
  <2> QED
    BY <1>2, <2>1, <2>2
<1>5. ASSUME Memory!CreateHandoff(c) PROVE MemoryInv'
  <2>1. PICK id \in Memory!FreshId :
          /\ Memory!Idle(c)
          /\ Memory!Begin(c, <<Memory!AppendEvent("CREATED", Memory!NormalizedRecord(id, Memory!Active("project", FALSE)))>>)
    BY <1>5 DEF Memory!CreateHandoff
  <2> QED
    BY <1>1, <1>2, <2>1
<1>6. ASSUME Memory!ArchiveMemory(c) PROVE MemoryInv'
  <2>1. PICK id \in Memory!Known(log) :
          Memory!Idle(c) /\ Memory!Begin(c, <<Memory!AppendEvent("ARCHIVED", Memory!With(Memory!Current(log, id), "ARCHIVED"))>>)
    BY <1>6 DEF Memory!ArchiveMemory
  <2> QED
    BY <1>1, <1>3, <2>1
<1>7. ASSUME Memory!ValidateMemory(c) PROVE MemoryInv'
  <2>1. PICK id \in Memory!Known(log), status \in {"VALIDATED", "REJECTED"} :
          Memory!Idle(c)
          /\ Memory!Begin(c, <<Memory!AppendEvent(status, [Memory!With(Memory!Current(log, id), status) EXCEPT !.evidence = TRUE])>>)
    BY <1>7 DEF Memory!ValidateMemory
  <2> DEFINE old == Memory!Current(log, id)
             moved == Memory!With(old, status)
             memory == [moved EXCEPT !.evidence = TRUE]
  <2>2. old \in Records /\ Grounded(log, old, Len(log)) /\ old.by \in InUse \cup {None}
    BY CurrentIsSound
  <2>3. Memory!Begin(c, <<Memory!AppendEvent(status, memory)>>) /\ Memory!Idle(c)
    BY <2>1
  <2> HIDE DEF old
  <2>8. status \in Memory!Status
    BY <1>1
  <2>4. /\ moved \in Records /\ moved.ns = old.ns /\ moved.by = old.by /\ moved.from = old.from
    BY <2>2, <2>8, NewStatus
  <2> HIDE DEF moved
  <2>5. /\ memory \in Records /\ memory.ns = old.ns /\ memory.by = old.by /\ memory.from = old.from /\ memory.evidence
    BY <2>4 DEF Records
  <2> HIDE DEF memory
  <2>6. Grounded(log, memory, Len(log)) /\ memory.by \in InUse \cup {None}
    BY <2>2, <2>5 DEF Grounded
  <2>7. status \in Actions \ {"SUPERSEDED"}
    BY <1>1
  <2> QED
    BY <2>3, <2>5, <2>6, <2>7, OneEventKept
<1>8. ASSUME Memory!PromoteMemory(c) PROVE MemoryInv'
  <2>1. PICK id \in Memory!Known(log), copy \in Memory!FreshId :
          /\ Memory!Idle(c) /\ Memory!Current(log, id).status = "VALIDATED"
          /\ Memory!Begin(c, <<Memory!AppendEvent("PROMOTED", [Memory!NormalizedRecord(copy, Memory!Active("company", TRUE)) EXCEPT
                                                                 !.from = id])>>)
    BY <1>8 DEF Memory!PromoteMemory
  <2> DEFINE new == Memory!NormalizedRecord(copy, Memory!Active("company", TRUE))
             memory == [new EXCEPT !.from = id]
  <2>2. new \in Records /\ new.by = None /\ copy \in Id /\ new.evidence
    BY <1>1, NewRecord DEF Memory!NormalizedRecord, Memory!Active
  <2>3. Memory!Begin(c, <<Memory!AppendEvent("PROMOTED", memory)>>) /\ Memory!Idle(c)
    BY <2>1
  <2> HIDE DEF new
  <2>4. id \in Id
    BY KnownIds
  <2>5. memory \in Records /\ memory.by = None /\ memory.from = id /\ memory.evidence
    BY <2>2, <2>4 DEF Records
  <2> HIDE DEF memory
  <2>6. log \in Seq(MemoryEvents)
    BY DEF MemoryInv, MemoryTypes
  <2>7. \E i \in DOMAIN log : log[i].memory.id = id /\ log[i].memory.status = "VALIDATED"
    BY <2>1, <2>6, CurrentIsLogged
  <2>8. \E i \in 1..Len(log) : log[i].memory.id = id /\ log[i].memory.status = "VALIDATED"
    BY <2>6, <2>7
  <2>9. Grounded(log, memory, Len(log)) /\ memory.by \in InUse \cup {None}
    BY <2>5, <2>8 DEF Grounded
  <2> QED
    BY <1>1, <2>3, <2>5, <2>9, OneEventKept
<1> QED
  BY <1>4, <1>5, <1>6, <1>7, <1>8

LEMMA RecallKept ==
  ASSUME MemoryInv, NEW c \in Call, Memory!Recall(c) PROVE MemoryInv'
<1>1. PICK found \in SUBSET Memory!Known(log) : \E ranked \in Memory!SetToSeqs(found) :
        /\ Memory!Idle(c)
        /\ Memory!Begin(c, [i \in DOMAIN ranked |-> Memory!AppendEvent("RETRIEVED", Memory!Current(log, ranked[i]))])
  BY DEF Memory!Recall, Memory!Retrievable
<1>2. PICK ranked \in Memory!SetToSeqs(found) :
        /\ Memory!Idle(c)
        /\ Memory!Begin(c, [i \in DOMAIN ranked |-> Memory!AppendEvent("RETRIEVED", Memory!Current(log, ranked[i]))])
  BY <1>1
<1>3. Memory!Cardinality(found) \in Nat
  <2>1. Memory!Cardinality(found) = Cardinality(found)
    BY DEF Memory!Cardinality, Cardinality
  <2>2. IsFiniteSet(found)
    BY <1>1, KnownIds, FS_Subset
  <2> QED
    BY <2>1, <2>2, FS_CardinalityType
<1>4. PICK n \in Nat : ranked \in [1..n -> found]
  BY <1>2, <1>3 DEF Memory!SetToSeqs
<1> DEFINE events == [i \in 1..n |-> Memory!AppendEvent("RETRIEVED", Memory!Current(log, ranked[i]))]
<1>5. Memory!Begin(c, events) /\ Memory!Idle(c)
  BY <1>2, <1>4
<1>6. ASSUME NEW i \in 1..n
      PROVE  events[i] \in MemoryEvents /\ Grounded(log, events[i].memory, Len(log)) /\ events[i].memory.by \in InUse \cup {None}
  <2> DEFINE memory == Memory!Current(log, ranked[i])
  <2>1. ranked[i] \in Memory!Known(log)
    BY <1>1, <1>4
  <2>2. memory \in Records /\ Grounded(log, memory, Len(log)) /\ memory.by \in InUse \cup {None}
    BY <2>1, CurrentIsSound
  <2>3. events[i] = Memory!AppendEvent("RETRIEVED", memory)
    OBVIOUS
  <2> HIDE DEF memory, events
  <2> QED
    BY <2>2, <2>3, NewEvent DEF Actions
<1>7. events \in Seq(MemoryEvents) /\ DOMAIN events = 1..n
  BY <1>6
<1> HIDE DEF events
<1>8. \A i \in DOMAIN events : /\ Grounded(log, events[i].memory, Len(log))
                             /\ events[i].memory.by \in InUse \cup {events[k].memory.id : k \in DOMAIN events} \cup {None}
  BY <1>6, <1>7
<1> QED
  BY <1>5, <1>7, <1>8, BeginKept

LEMMA SupersedeKept ==
  ASSUME MemoryInv, NEW c \in Call, Memory!SupersedeMemory(c) PROVE MemoryInv'
<1>1. PICK id \in Memory!Known(log), next \in Id, given \in Given :
        /\ Memory!Idle(c) /\ given.ns # "company"
        /\ Memory!Begin(c, <<Memory!AppendEvent("SUPERSEDED", [Memory!With(Memory!Current(log, id), "SUPERSEDED") EXCEPT !.by = next]),
                             Memory!AppendEvent("CREATED", Memory!NormalizedRecord(next, given))>>)
  BY DEF Memory!SupersedeMemory
<1> DEFINE old == Memory!Current(log, id)
           moved == Memory!With(old, "SUPERSEDED")
           memory == [moved EXCEPT !.by = next]
           new == Memory!NormalizedRecord(next, given)
           first == Memory!AppendEvent("SUPERSEDED", memory)
           second == Memory!AppendEvent("CREATED", new)
<1>2. /\ given \in Said /\ "SUPERSEDED" \in Memory!Status /\ "SUPERSEDED" \in Actions /\ "CREATED" \in Actions
  BY MemoryAssumption DEF Memory!Status, Actions, Said
<1>3. new \in Records /\ new.id = next /\ new.ns # "company" /\ new.by = None
  BY <1>1, <1>2, NewRecord
<1>4. old \in Records /\ Grounded(log, old, Len(log))
  BY CurrentIsSound
<1>5. Memory!Begin(c, <<first, second>>) /\ Memory!Idle(c)
  BY <1>1
<1> HIDE DEF old
<1>6. moved \in Records /\ moved.ns = old.ns /\ moved.evidence = old.evidence /\ moved.from = old.from
  BY <1>2, <1>4, NewStatus
<1> HIDE DEF moved, new
<1>7. memory \in Records /\ memory.ns = old.ns /\ memory.by = next /\ memory.from = old.from
  BY <1>2, <1>6 DEF Records
<1>8. memory.evidence = old.evidence
  BY <1>2, <1>6 DEF Records
<1> HIDE DEF memory
<1>9. first \in MemoryEvents /\ first.memory = memory /\ second \in MemoryEvents /\ second.memory = new
  BY <1>2, <1>3, <1>7, NewEvent, MemoryAssumption
<1>10. Grounded(log, memory, Len(log)) /\ Grounded(log, new, Len(log))
  BY <1>2, <1>3, <1>4, <1>7, <1>8 DEF Grounded
<1> HIDE DEF first, second
<1> DEFINE events == <<first, second>>
<1>11. events \in Seq(MemoryEvents) /\ DOMAIN events = {1, 2} /\ events[1] = first /\ events[2] = second /\ Memory!Begin(c, events)
  BY <1>5, <1>9
<1> HIDE DEF events
<1>12. next \in {events[k].memory.id : k \in DOMAIN events}
  BY <1>3, <1>9, <1>11
<1>13. \A i \in DOMAIN events : /\ Grounded(log, events[i].memory, Len(log))
                              /\ events[i].memory.by \in InUse \cup {events[k].memory.id : k \in DOMAIN events} \cup {None}
  BY <1>3, <1>7, <1>9, <1>10, <1>11, <1>12
<1> QED
  BY <1>5, <1>11, <1>13, BeginKept

LEMMA MemoryKept == MemoryInv /\ [Next]_vars => MemoryInv'
<1> SUFFICES ASSUME MemoryInv, [Next]_vars PROVE MemoryInv'
  OBVIOUS
<1>1. Memory!Next \/ UNCHANGED memoryVars
  BY DEF Next, vars
<1>2. CASE Memory!Next
  BY <1>2, MemoryActionsKept, RecallKept, SupersedeKept, AppendKept, CrashKept DEF Memory!Next
<1>3. CASE UNCHANGED memoryVars
  <2>1. UNCHANGED <<log, memoryCall, torn>>
    BY <1>3 DEF memoryVars
  <2>2. InUse' = InUse
    BY <2>1 DEF InUse, Memory!Known, Memory!Pending
  <2> QED
    BY <2>1, <2>2 DEF MemoryInv, MemoryTypes
<1> QED
  BY <1>1, <1>2, <1>3

LEMMA MemoryTrue == MemoryInv => Memory!CompanyIsValidated /\ Memory!SuccessorExists
<1> SUFFICES ASSUME MemoryInv PROVE Memory!CompanyIsValidated /\ Memory!SuccessorExists
  OBVIOUS
<1>1. Memory!CompanyIsValidated
  BY DEF MemoryInv, Grounded, Memory!CompanyIsValidated
<1>3. ASSUME NEW i \in DOMAIN log, log[i].action = "SUPERSEDED" PROVE log[i].memory.by \in InUse
  <2>1. log[i] \in MemoryEvents
    BY DEF MemoryInv, MemoryTypes
  <2> QED
    BY <1>3, <2>1 DEF MemoryInv, MemoryEvents
<1>4. Memory!SuccessorExists
  BY <1>3 DEF Memory!SuccessorExists, InUse
<1> QED
  BY <1>1, <1>4

\* Whatever the memory log grows to and whichever calls overlap or die: what is the company's was promoted, with evidence,
\* from a memory that was validated before it, and a superseded memory has its successor (memory.mjs).
THEOREM MemoryIsAlwaysTraceable == Spec => []MemoryIsTraceable
<1>1. MemoryInv => MemoryIsTraceable
  BY MemoryTrue DEF MemoryIsTraceable
<1> QED
  BY MemoryInit, MemoryKept, <1>1, PTL DEF Spec

\* The members of two finite sets are at most those of both.
LEMMA Together ==
  ASSUME NEW S, NEW T, NEW U, IsFiniteSet(S), IsFiniteSet(T), U \subseteq S \cup T
  PROVE  IsFiniteSet(U) /\ Cardinality(U) <= Cardinality(S) + Cardinality(T)
         /\ Cardinality(U) \in Nat /\ Cardinality(S) \in Nat /\ Cardinality(T) \in Nat
<1>1. IsFiniteSet(S \cup T) /\ Cardinality(S \cup T) = Cardinality(S) + Cardinality(T) - Cardinality(S \cap T)
  BY FS_Union
<1>2. IsFiniteSet(S \cap T)
  BY FS_Intersection
<1>3. IsFiniteSet(U) /\ Cardinality(U) <= Cardinality(S \cup T)
  BY <1>1, FS_Subset
<1>4. /\ Cardinality(U) \in Nat /\ Cardinality(S) \in Nat /\ Cardinality(T) \in Nat
      /\ Cardinality(S \cap T) \in Nat /\ Cardinality(S \cup T) \in Nat
  BY <1>1, <1>2, <1>3, FS_CardinalityType
<1> QED
  BY <1>1, <1>3, <1>4

\* One more at most.
LEMMA OneMore ==
  ASSUME NEW S, NEW x, NEW U, IsFiniteSet(S), U \subseteq S \cup {x}
  PROVE  IsFiniteSet(U) /\ Cardinality(U) <= Cardinality(S) + 1 /\ Cardinality(U) \in Nat /\ Cardinality(S) \in Nat
<1>1. IsFiniteSet({x}) /\ Cardinality({x}) = 1
  BY FS_Singleton
<1> QED
  BY <1>1, Together

-----------------------------------------------------------------------------
(* Logs: an alert, its inbox, and the calls that are about to write one. *)

Alerts == Logs!State("alerts")
Inbox == Logs!State("inbox")
Types == {"telemetry", "alerts"}
AllRows == [id : Nat, subject : Subject, day : Nat]
OneRow == {{row} : row \in AllRows}

Checks == [do : {"check"}, path : {Alerts}, rows : OneRow]
Retains == [do : {"retain"}, path : {Logs!Raw(type) : type \in Types}, rows : {{}}]
OtherWrites == [do : {"append", "truncate", "fill"}, path : Logs!Path \ {Alerts, Inbox}, rows : SUBSET AllRows]
AlertWrites == [do : {"append"}, path : {Alerts}, rows : OneRow]
InboxWrites == [do : {"append"}, path : {Inbox}, rows : OneRow]
Plain == Checks \cup Retains \cup OtherWrites
Steps == Plain \cup AlertWrites \cup InboxWrites

\* An alert is written first of all, its inbox right after it, or first of all when the alert is in the file.
Orderly(t, alerts) ==
  /\ t \in Seq(Steps)
  /\ \A i \in DOMAIN t :
       \/ t[i] \in Plain
       \/ i = 1 /\ t[1] \in AlertWrites /\ 2 \in DOMAIN t /\ t[2] \in InboxWrites /\ t[2].rows = t[1].rows
       \/ i = 2 /\ t[1] \in AlertWrites /\ t[2] \in InboxWrites
       \/ i = 1 /\ t[1] \in InboxWrites /\ t[1].rows \subseteq alerts

\* The alerts about a subject, and the calls that are about to write one.
Written(s) == {row \in file[Alerts] : row.subject = s}
Writing(s) == {c \in Call : todo[c] # << >> /\ todo[c][1] \in AlertWrites /\ \E row \in todo[c][1].rows : row.subject = s}
\* A row that a call has still to write to the inbox.
OnItsWay(row) == \E c \in Call : \E i \in DOMAIN todo[c] : todo[c][i].path = Inbox /\ row \in todo[c][i].rows

LogTypes ==
  /\ file \in [Logs!Path -> SUBSET AllRows] /\ rows \in Nat /\ logsDay \in Nat
  /\ \A s \in Subject : IsFiniteSet(Written(s))

LogInv ==
  /\ LogTypes
  /\ todo \in [Call -> Seq(Steps)] /\ \A c \in Call : Orderly(todo[c], file[Alerts])
  /\ file[Inbox] \subseteq file[Alerts]
  /\ \A row \in file[Alerts] : row \in file[Inbox] \/ row \in exposed \/ OnItsWay(row)
  /\ \A s \in Subject : Cardinality(Written(s)) + Cardinality(Writing(s)) <= Cardinality(Call)

LEMMA PathsDiffer ==
  /\ Alerts \in Logs!Path /\ Inbox \in Logs!Path /\ Alerts # Inbox
  /\ \A type \in Types : /\ Logs!Raw(type) \in Logs!Path \ {Alerts, Inbox} /\ Logs!Archive(type) \in Logs!Path \ {Alerts, Inbox}
                         /\ Logs!Raw(type)[2] = type
  /\ Logs!State("telemetry") \in Logs!Path \ {Alerts, Inbox}
  /\ DOMAIN Logs!HistoryType = 1..2 /\ Logs!HistoryType[1] = "telemetry" /\ Logs!HistoryType[2] = "alerts"
BY DEF Alerts, Inbox, Types, Logs!Path, Logs!State, Logs!Raw, Logs!Archive, Logs!HistoryType

LEMMA WritingFinite ==
  ASSUME NEW s PROVE IsFiniteSet(Writing(s)) /\ Cardinality(Writing(s)) <= Cardinality(Call)
                     /\ Cardinality(Writing(s)) \in Nat /\ Cardinality(Call) \in Nat
<1>1. Writing(s) \subseteq Call
  BY DEF Writing
<1> QED
  BY <1>1, LogsAssumption, FS_Subset, FS_CardinalityType

LEMMA LogInit == Init => LogInv
<1> SUFFICES ASSUME Init PROVE LogInv
  OBVIOUS
<1>1. file = [p \in Logs!Path |-> {}] /\ todo = [c \in Call |-> << >>] /\ rows = 0 /\ logsDay = 0
  BY DEF Init, Logs!Init
<1>2. file[Alerts] = {} /\ file[Inbox] = {}
  BY <1>1, PathsDiffer
<1>3. \A s : Written(s) = {} /\ Writing(s) = {}
  BY <1>1, <1>2 DEF Written, Writing
<1>4. LogTypes
  BY <1>1, <1>3, FS_EmptySet DEF LogTypes
<1>5. \A c \in Call : Orderly(todo[c], file[Alerts])
  BY <1>1 DEF Orderly
<1>6. Cardinality(Call) \in Nat /\ Cardinality({}) = 0
  BY LogsAssumption, FS_CardinalityType, FS_EmptySet
<1>7. \A s \in Subject : Cardinality(Written(s)) + Cardinality(Writing(s)) <= Cardinality(Call)
  BY <1>3, <1>6
<1>8. todo \in [Call -> Seq(Steps)]
  BY <1>1
<1> QED
  BY <1>2, <1>4, <1>5, <1>7, <1>8 DEF LogInv

\* What follows the first step, which is no alert or has put the alert in the file.
LEMMA OrderlyTail ==
  ASSUME NEW a, NEW b, NEW t, Orderly(t, a), t # << >>, a \subseteq b, t[1] \in AlertWrites => t[1].rows \subseteq b
  PROVE  Tail(t) \in Seq(Steps) /\ Orderly(Tail(t), b)
<1>1. t \in Seq(Steps)
  BY DEF Orderly
<1>2. Tail(t) \in Seq(Steps) /\ \A i \in DOMAIN Tail(t) : i \in Nat /\ i >= 1 /\ i + 1 \in DOMAIN t /\ Tail(t)[i] = t[i + 1]
  BY <1>1
<1>3. ASSUME NEW i \in DOMAIN Tail(t), Tail(t)[i] \notin Plain
      PROVE  i = 1 /\ Tail(t)[1] \in InboxWrites /\ Tail(t)[1].rows \subseteq b
  <2>1. i + 1 \in DOMAIN t /\ i + 1 # 1 /\ t[i + 1] = Tail(t)[i] /\ t[i + 1] \notin Plain
    BY <1>2, <1>3
  <2>2. i + 1 = 2 /\ t[1] \in AlertWrites /\ t[2] \in InboxWrites
    BY <2>1 DEF Orderly
  <2>3. 1 \in DOMAIN t /\ t[1] \notin Plain /\ t[1] \notin InboxWrites
    <3>1. 1 \in DOMAIN t
      BY <1>1
    <3>2. Alerts # Inbox /\ Alerts \notin {Logs!Raw(type) : type \in Types} /\ Alerts \notin Logs!Path \ {Alerts, Inbox}
      BY PathsDiffer
    <3> QED
      BY <2>2, <3>1, <3>2 DEF AlertWrites, Plain, Checks, Retains, OtherWrites, InboxWrites
  <2>4. t[2].rows = t[1].rows
    BY <2>3 DEF Orderly
  <2> QED
    BY <1>2, <2>1, <2>2, <2>4
<1> QED
  BY <1>2, <1>3 DEF Orderly

LEMMA OrderlyMore ==
  ASSUME NEW a, NEW b, NEW t, Orderly(t, a), a \subseteq b PROVE Orderly(t, b)
BY DEF Orderly

\* Behind a step that decides there is neither an alert nor its inbox.
LEMMA BehindDecision ==
  ASSUME NEW a, NEW t, Orderly(t, a), t # << >>, t[1] \in Checks \cup Retains
  PROVE  Tail(t) \in Seq(Steps) /\ \A i \in DOMAIN Tail(t) : Tail(t)[i] \in Plain
<1>1. t \in Seq(Steps)
  BY DEF Orderly
<1>2. Tail(t) \in Seq(Steps) /\ \A i \in DOMAIN Tail(t) : i \in Nat /\ i >= 1 /\ i + 1 \in DOMAIN t /\ Tail(t)[i] = t[i + 1]
  BY <1>1
<1>3. t[1] \notin AlertWrites
  BY DEF AlertWrites, Checks, Retains
<1>4. ASSUME NEW i \in DOMAIN Tail(t) PROVE Tail(t)[i] \in Plain
  BY <1>2, <1>3 DEF Orderly
<1> QED
  BY <1>2, <1>4

LEMMA InFront ==
  ASSUME NEW a, NEW new, Orderly(new, a), NEW rest \in Seq(Steps), \A i \in DOMAIN rest : rest[i] \in Plain
  PROVE  /\ Orderly(new \o rest, a)
         /\ \A i \in DOMAIN new : i \in DOMAIN (new \o rest) /\ (new \o rest)[i] = new[i]
         /\ \A i \in DOMAIN rest : Len(new) + i \in DOMAIN (new \o rest) /\ (new \o rest)[Len(new) + i] = rest[i]
<1>1. new \in Seq(Steps)
  BY DEF Orderly
<1>2. /\ new \o rest \in Seq(Steps) /\ Len(new) \in Nat
      /\ \A i \in DOMAIN new : i \in DOMAIN (new \o rest) /\ (new \o rest)[i] = new[i]
      /\ \A i \in DOMAIN rest : Len(new) + i \in DOMAIN (new \o rest) /\ (new \o rest)[Len(new) + i] = rest[i]
      /\ \A i \in DOMAIN (new \o rest) : i \in DOMAIN new \/ (i - Len(new) \in DOMAIN rest /\ (new \o rest)[i] = rest[i - Len(new)])
      /\ \A i \in DOMAIN new : i \in Nat /\ (i = 2 => 1 \in DOMAIN new)
  BY <1>1
<1> DEFINE both == new \o rest
<1> HIDE DEF both
<1>3. ASSUME NEW i \in DOMAIN both, both[i] \notin Plain
      PROVE  \/ i = 1 /\ both[1] \in AlertWrites /\ 2 \in DOMAIN both /\ both[2] \in InboxWrites /\ both[2].rows = both[1].rows
             \/ i = 2 /\ both[1] \in AlertWrites /\ both[2] \in InboxWrites
             \/ i = 1 /\ both[1] \in InboxWrites /\ both[1].rows \subseteq a
  <2>1. i \in DOMAIN new /\ both[i] = new[i]
    BY <1>2, <1>3 DEF both
  <2>2. \A k \in DOMAIN new : k \in DOMAIN both /\ both[k] = new[k]
    BY <1>2 DEF both
  <2>3. \/ i = 1 /\ new[1] \in AlertWrites /\ 2 \in DOMAIN new /\ new[2] \in InboxWrites /\ new[2].rows = new[1].rows
        \/ i = 2 /\ new[1] \in AlertWrites /\ new[2] \in InboxWrites
        \/ i = 1 /\ new[1] \in InboxWrites /\ new[1].rows \subseteq a
    BY <1>3, <2>1 DEF Orderly
  <2>4. i = 2 => 1 \in DOMAIN new
    BY <1>2, <2>1
  <2> QED
    BY <2>1, <2>2, <2>3, <2>4
<1> QED
  BY <1>2, <1>3 DEF Orderly, both

\* A call that begins has only to decide, or to write what is neither an alert nor an inbox.
LEMMA LogBegun ==
  ASSUME LogInv, NEW c \in Call, NEW steps \in Seq(Steps), \A i \in DOMAIN steps : steps[i] \in Plain,
         Logs!Begin(c, steps), rows' \in Nat
  PROVE  LogInv'
<1>1. todo[c] = << >> /\ todo' = [todo EXCEPT ![c] = steps] /\ UNCHANGED <<file, logsDay, exposed>>
  BY DEF Logs!Begin
<1>2. todo' \in [Call -> Seq(Steps)] /\ todo'[c] = steps /\ \A d \in Call \ {c} : todo'[d] = todo[d]
  BY <1>1 DEF LogInv
<1>3. Orderly(steps, file[Alerts])
  BY DEF Orderly
<1>4. \A d \in Call : Orderly(todo'[d], file'[Alerts])
  BY <1>1, <1>2, <1>3 DEF LogInv
<1>5. \A s : Written(s)' = Written(s)
  BY <1>1 DEF Written
<1>6. \A s : Writing(s)' = Writing(s)
  <2>1. steps # << >> => steps[1] \notin AlertWrites
    <3>1. Alerts \notin {Logs!Raw(type) : type \in Types} /\ Alerts \notin Logs!Path \ {Alerts, Inbox}
      BY PathsDiffer
    <3>2. steps # << >> => steps[1] \in Plain
      OBVIOUS
    <3> QED
      BY <3>1, <3>2 DEF Plain, Checks, Retains, OtherWrites, AlertWrites
  <2> QED
    BY <1>1, <1>2, <2>1 DEF Writing
<1>7. LogTypes'
  BY <1>1, <1>5 DEF LogInv, LogTypes
<1>8. \A row : OnItsWay(row) => OnItsWay(row)'
  BY <1>1, <1>2 DEF OnItsWay
<1> QED
  BY <1>1, <1>2, <1>4, <1>5, <1>6, <1>7, <1>8 DEF LogInv

LEMMA LogCrash ==
  ASSUME LogInv, NEW c \in Call, Logs!Crash(c) PROVE LogInv'
<1>1. /\ todo' = [todo EXCEPT ![c] = << >>] /\ UNCHANGED <<file, rows, logsDay>>
      /\ exposed' = exposed \cup UNION {todo[c][i].rows : i \in DOMAIN todo[c]}
  BY DEF Logs!Crash
<1>2. todo' \in [Call -> Seq(Steps)] /\ todo'[c] = << >> /\ \A d \in Call \ {c} : todo'[d] = todo[d]
  BY <1>1 DEF LogInv
<1>3. Orderly(<< >>, file[Alerts])
  BY DEF Orderly
<1>4. \A d \in Call : Orderly(todo'[d], file'[Alerts])
  BY <1>1, <1>2, <1>3 DEF LogInv
<1>5. \A s : Written(s)' = Written(s)
  BY <1>1 DEF Written
<1>6. \A s : Writing(s)' \subseteq Writing(s)
  BY <1>2 DEF Writing
<1>7. LogTypes'
  BY <1>1, <1>5 DEF LogInv, LogTypes
<1>8. ASSUME NEW row, OnItsWay(row) PROVE OnItsWay(row)' \/ row \in exposed'
  BY <1>1, <1>2, <1>8 DEF OnItsWay
<1>9. ASSUME NEW s \in Subject PROVE Cardinality(Written(s)') + Cardinality(Writing(s)') <= Cardinality(Call)
  <2>1. Cardinality(Writing(s)') <= Cardinality(Writing(s)) /\ Cardinality(Writing(s)') \in Nat
        /\ Cardinality(Writing(s)) \in Nat /\ Cardinality(Call) \in Nat
    BY <1>6, WritingFinite, FS_Subset, FS_CardinalityType
  <2>2. Cardinality(Written(s)) \in Nat /\ Cardinality(Written(s)) + Cardinality(Writing(s)) <= Cardinality(Call)
    BY FS_CardinalityType DEF LogInv, LogTypes
  <2> QED
    BY <1>5, <2>1, <2>2
<1>10. exposed \subseteq exposed'
  BY <1>1
<1> QED
  BY <1>1, <1>2, <1>4, <1>7, <1>8, <1>9, <1>10 DEF LogInv

\* A decision puts the writes in front: an alert only when the file has none about its subject.
LEMMA LogDecided ==
  ASSUME LogInv, NEW c \in Call, NEW new, Orderly(new, file[Alerts]), todo[c] # << >>, todo[c][1] \in Checks \cup Retains,
         todo' = [todo EXCEPT ![c] = new \o Tail(todo[c])], UNCHANGED <<file, rows, logsDay, exposed>>,
         \A s \in Subject : (new # << >> /\ new[1] \in AlertWrites /\ \E row \in new[1].rows : row.subject = s) => Written(s) = {}
  PROVE  LogInv'
<1> DEFINE rest == Tail(todo[c])
           both == new \o rest
<1>1. Orderly(todo[c], file[Alerts]) /\ todo[c] \in Seq(Steps)
  BY DEF LogInv
<1>2. rest \in Seq(Steps) /\ \A i \in DOMAIN rest : rest[i] \in Plain
  BY <1>1, BehindDecision
<1>3. \A i \in DOMAIN rest : i + 1 \in DOMAIN todo[c] /\ rest[i] = todo[c][i + 1]
  BY <1>1
<1>4. \A i \in DOMAIN todo[c] : i # 1 => i - 1 \in DOMAIN rest /\ rest[i - 1] = todo[c][i]
  BY <1>1
<1>5. todo' = [todo EXCEPT ![c] = both]
  OBVIOUS
<1> HIDE DEF rest
<1>6. /\ Orderly(both, file[Alerts])
      /\ \A i \in DOMAIN new : i \in DOMAIN both /\ both[i] = new[i]
      /\ \A i \in DOMAIN rest : Len(new) + i \in DOMAIN both /\ both[Len(new) + i] = rest[i]
  BY <1>2, InFront
<1>7. new \in Seq(Steps) /\ both \in Seq(Steps)
  BY <1>6 DEF Orderly
<1>8. both # << >> /\ both[1] \in AlertWrites => new # << >> /\ new[1] = both[1]
  <2>1. Alerts \notin {Logs!Raw(type) : type \in Types} /\ Alerts \notin Logs!Path \ {Alerts, Inbox}
    BY PathsDiffer
  <2>2. \A x \in Plain : x \notin AlertWrites
    BY <2>1 DEF Plain, Checks, Retains, OtherWrites, AlertWrites
  <2>3. CASE new = << >>
    <3>1. both = rest
      BY <1>2, <2>3
    <3> QED
      BY <1>2, <2>2, <3>1
  <2>4. CASE new # << >>
    BY <1>6, <1>7, <2>4
  <2> QED
    BY <2>3, <2>4
<1> HIDE DEF both
<1>9. todo' \in [Call -> Seq(Steps)] /\ todo'[c] = both /\ \A d \in Call \ {c} : todo'[d] = todo[d]
  BY <1>5, <1>7 DEF LogInv
<1>10. \A d \in Call : Orderly(todo'[d], file'[Alerts])
  BY <1>6, <1>9 DEF LogInv
<1>11. ASSUME NEW row, OnItsWay(row) PROVE OnItsWay(row)'
  <2>1. PICK d \in Call : \E i \in DOMAIN todo[d] : todo[d][i].path = Inbox /\ row \in todo[d][i].rows
    BY <1>11 DEF OnItsWay
  <2>2. CASE d # c
    BY <1>9, <2>1, <2>2 DEF OnItsWay
  <2>3. CASE d = c
    <3>1. PICK i \in DOMAIN todo[c] : todo[c][i].path = Inbox /\ row \in todo[c][i].rows
      BY <2>1, <2>3
    <3>2. i # 1
      <4>1. Inbox # Alerts /\ Inbox \notin {Logs!Raw(type) : type \in Types}
        BY PathsDiffer
      <4> QED
        BY <3>1, <4>1 DEF Checks, Retains
    <3>3. i - 1 \in DOMAIN rest /\ rest[i - 1] = todo[c][i]
      BY <1>4, <3>2
    <3>4. \E k \in DOMAIN both : both[k] = todo[c][i]
      BY <1>6, <3>3
    <3> QED
      BY <1>9, <3>1, <3>4 DEF OnItsWay
  <2> QED
    BY <2>2, <2>3
<1>12. LogTypes' /\ \A s : Written(s)' = Written(s)
  BY DEF LogInv, LogTypes, Written
<1>13. ASSUME NEW s \in Subject PROVE Cardinality(Written(s)') + Cardinality(Writing(s)') <= Cardinality(Call)
  <2>1. Cardinality(Writing(s)) \in Nat /\ Cardinality(Call) \in Nat /\ Cardinality(Writing(s)) <= Cardinality(Call)
    BY WritingFinite
  <2>2. Cardinality(Written(s)) \in Nat /\ Cardinality(Written(s)) + Cardinality(Writing(s)) <= Cardinality(Call)
    BY FS_CardinalityType DEF LogInv, LogTypes
  <2>3. CASE new # << >> /\ new[1] \in AlertWrites /\ \E row \in new[1].rows : row.subject = s
    <3>1. Written(s)' = {} /\ Cardinality({}) = 0
      BY <1>12, <2>3, FS_EmptySet
    <3>2. Writing(s)' \subseteq Call
      BY DEF Writing
    <3>3. Cardinality(Writing(s)') <= Cardinality(Call) /\ Cardinality(Writing(s)') \in Nat
      BY <3>2, LogsAssumption, FS_Subset, FS_CardinalityType
    <3> QED
      BY <2>1, <3>1, <3>3
  <2>4. CASE ~(new # << >> /\ new[1] \in AlertWrites /\ \E row \in new[1].rows : row.subject = s)
    <3>1. Writing(s)' \subseteq Writing(s)
      BY <1>8, <1>9, <2>4 DEF Writing
    <3>2. Cardinality(Writing(s)') <= Cardinality(Writing(s)) /\ Cardinality(Writing(s)') \in Nat
      BY <3>1, WritingFinite, FS_Subset, FS_CardinalityType
    <3> QED
      BY <1>12, <2>1, <2>2, <3>2
  <2> QED
    BY <2>3, <2>4
<1> QED
  BY <1>9, <1>10, <1>11, <1>12, <1>13 DEF LogInv

LEMMA LogDecide ==
  ASSUME LogInv, NEW c \in Call, Logs!Decide(c) PROVE LogInv'
<1> DEFINE step == todo[c][1]
<1>1. todo[c] # << >> /\ todo[c] \in Seq(Steps) /\ Head(todo[c]) = step /\ step \in Steps /\ step.do \in {"check", "retain"}
  BY DEF LogInv, Logs!Decide
<1>2. step \in Checks \cup Retains
  BY <1>1 DEF Steps, Plain, Checks, Retains, OtherWrites, AlertWrites, InboxWrites
<1> DEFINE new == IF step.do = "check" THEN Logs!AppendOnce(step.rows) ELSE Logs!RetentionWrites(step.path[2])
<1>3. todo' = [todo EXCEPT ![c] = new \o Tail(todo[c])] /\ UNCHANGED <<file, rows, logsDay, exposed>>
  BY <1>1 DEF Logs!Decide, LogInv
<1> HIDE DEF step
<1>4. Orderly(<< >>, file[Alerts])
  BY DEF Orderly
<1>5. CASE step \in Checks
  <2>1. step.do = "check" /\ step.rows \in OneRow
    BY <1>5 DEF Checks
  <2>2. PICK row \in AllRows : step.rows = {row}
    BY <2>1 DEF OneRow
  <2>3. new = Logs!AppendOnce(step.rows)
    BY <2>1
  <2> HIDE DEF new
  <2>4. CASE Logs!Active(step.rows)
    <3>1. new = << >>
      BY <2>3, <2>4 DEF Logs!AppendOnce
    <3> QED
      BY <1>1, <1>2, <1>3, <1>4, <3>1, LogDecided DEF step
  <2>5. CASE ~Logs!Active(step.rows)
    <3> DEFINE w1 == Logs!Write(Logs!State("alerts"), step.rows)
               w2 == Logs!Write(Logs!State("inbox"), step.rows)
               w3 == Logs!Write(Logs!Raw("alerts"), step.rows)
    <3>1. new = <<w1, w2, w3>>
      BY <2>3, <2>5 DEF Logs!AppendOnce
    <3>2. w1 \in AlertWrites /\ w1.rows = step.rows /\ w2 \in InboxWrites /\ w2.rows = step.rows
      BY <2>1 DEF Logs!Write, AlertWrites, InboxWrites, Alerts, Inbox
    <3>3. w3 \in OtherWrites
      <4>1. Logs!Raw("alerts") \in Logs!Path \ {Alerts, Inbox} /\ step.rows \in SUBSET AllRows
        BY <2>2, PathsDiffer DEF Types
      <4> QED
        BY <4>1 DEF Logs!Write, OtherWrites
    <3> HIDE DEF w1, w2, w3
    <3>4. new \in Seq(Steps) /\ DOMAIN new = 1..3 /\ new[1] = w1 /\ new[2] = w2 /\ new[3] = w3
      BY <3>1, <3>2, <3>3 DEF Steps, Plain
    <3>5. Orderly(new, file[Alerts])
      BY <3>2, <3>3, <3>4 DEF Orderly, Plain
    <3>6. ASSUME NEW s \in Subject, \E r \in new[1].rows : r.subject = s PROVE Written(s) = {}
      <4>1. row.subject = s /\ file[Alerts] = file[Logs!State("alerts")]
        BY <2>2, <3>2, <3>4, <3>6 DEF Alerts
      <4> QED
        BY <2>2, <2>5, <4>1 DEF Logs!Active, Written
    <3> QED
      BY <1>1, <1>2, <1>3, <3>5, <3>6, LogDecided DEF step
  <2> QED
    BY <2>4, <2>5
<1>6. CASE step \in Retains
  <2>1. step.do = "retain" /\ step.path \in {Logs!Raw(type) : type \in Types}
    BY <1>6 DEF Retains
  <2>2. PICK type \in Types : step.path = Logs!Raw(type)
    BY <2>1
  <2>3. new = Logs!RetentionWrites(type)
    BY <2>1, <2>2, PathsDiffer
  <2> HIDE DEF new
  <2>4. CASE Logs!Old(type) = {}
    <3>1. new = << >>
      BY <2>3, <2>4 DEF Logs!RetentionWrites
    <3> QED
      BY <1>1, <1>2, <1>3, <1>4, <3>1, LogDecided DEF step
  <2>5. CASE Logs!Old(type) # {}
    <3> DEFINE keep == file[Logs!Raw(type)] \ Logs!Old(type)
               w1 == Logs!Write(Logs!Archive(type), Logs!Old(type))
               w2 == Logs!Truncate(Logs!Raw(type), keep)
               w3 == Logs!Fill(Logs!Raw(type), keep)
    <3>1. new = <<w1, w2, w3>>
      BY <2>3, <2>5 DEF Logs!RetentionWrites
    <3>2. Logs!Old(type) \in SUBSET AllRows /\ keep \in SUBSET AllRows
      BY PathsDiffer DEF Logs!Old, LogInv, LogTypes
    <3>3. w1 \in OtherWrites /\ w2 \in OtherWrites /\ w3 \in OtherWrites
      <4> HIDE DEF keep
      <4> QED
        BY <3>2, PathsDiffer DEF Logs!Write, Logs!Truncate, Logs!Fill, OtherWrites
    <3> HIDE DEF w1, w2, w3
    <3>4. new \in Seq(Steps) /\ DOMAIN new = 1..3 /\ new[1] = w1 /\ new[2] = w2 /\ new[3] = w3
      BY <3>1, <3>3 DEF Steps, Plain
    <3>5. Orderly(new, file[Alerts])
      BY <3>3, <3>4 DEF Orderly, Plain
    <3>6. new[1] \notin AlertWrites
      BY <3>3, <3>4, PathsDiffer DEF OtherWrites, AlertWrites
    <3> QED
      BY <1>1, <1>2, <1>3, <3>5, <3>6, LogDecided DEF step
  <2> QED
    BY <2>4, <2>5
<1> QED
  BY <1>2, <1>5, <1>6

\* A write: an alert, an inbox, or another file.
LEMMA LogWritten ==
  ASSUME LogInv, NEW c \in Call, Logs!DoWrite(c) PROVE LogInv'
<1> DEFINE step == todo[c][1]
<1>1. /\ todo[c] # << >> /\ todo[c] \in Seq(Steps) /\ Head(todo[c]) = step /\ step \in Steps
      /\ step.do \in {"append", "truncate", "fill"} /\ Orderly(todo[c], file[Alerts]) /\ 1 \in DOMAIN todo[c]
  BY DEF LogInv, Logs!DoWrite
<1>2. step \in OtherWrites \cup AlertWrites \cup InboxWrites
  BY <1>1 DEF Steps, Plain, Checks, Retains
<1>3. /\ todo' = [todo EXCEPT ![c] = Tail(todo[c])] /\ UNCHANGED <<rows, logsDay>> /\ exposed \subseteq exposed'
      /\ file' = [file EXCEPT ![step.path] = CASE step.do = "append" -> file[step.path] \cup step.rows
                                               [] step.do = "truncate" -> {}
                                               [] step.do = "fill" -> step.rows]
  BY <1>1 DEF Logs!DoWrite, LogInv, LogTypes
<1>4. \A i \in DOMAIN todo[c] : i # 1 => i - 1 \in DOMAIN Tail(todo[c]) /\ Tail(todo[c])[i - 1] = todo[c][i]
  BY <1>1
<1>5. Tail(todo[c]) # << >> => 2 \in DOMAIN todo[c] /\ Tail(todo[c])[1] = todo[c][2]
  BY <1>1
<1>6. Tail(todo[c]) \in Seq(Steps)
  BY <1>1
<1>7. todo' \in [Call -> Seq(Steps)] /\ todo'[c] = Tail(todo[c]) /\ \A d \in Call \ {c} : todo'[d] = todo[d]
  BY <1>3, <1>6 DEF LogInv
<1>8. Tail(todo[c]) # << >> => Tail(todo[c])[1] \notin AlertWrites
  <2>1. Alerts # Inbox /\ Alerts \notin {Logs!Raw(type) : type \in Types} /\ Alerts \notin Logs!Path \ {Alerts, Inbox}
    BY PathsDiffer
  <2>2. \A x \in Plain \cup InboxWrites : x \notin AlertWrites
    BY <2>1 DEF Plain, Checks, Retains, OtherWrites, AlertWrites, InboxWrites
  <2>3. ASSUME Tail(todo[c]) # << >> PROVE todo[c][2] \in Plain \cup InboxWrites
    <3>1. 2 \in DOMAIN todo[c]
      BY <1>5, <2>3
    <3> QED
      BY <1>1, <3>1 DEF Orderly
  <2> QED
    BY <1>5, <2>2, <2>3
<1>9. ASSUME NEW row, OnItsWay(row) PROVE OnItsWay(row)' \/ (step.path = Inbox /\ row \in step.rows)
  <2>1. PICK d \in Call : \E i \in DOMAIN todo[d] : todo[d][i].path = Inbox /\ row \in todo[d][i].rows
    BY <1>9 DEF OnItsWay
  <2>2. CASE d # c
    BY <1>7, <2>1, <2>2 DEF OnItsWay
  <2>3. CASE d = c
    <3>1. PICK i \in DOMAIN todo[c] : todo[c][i].path = Inbox /\ row \in todo[c][i].rows
      BY <2>1, <2>3
    <3>2. CASE i # 1
      BY <1>4, <1>7, <3>1, <3>2 DEF OnItsWay
    <3> QED
      BY <3>1, <3>2
  <2> QED
    BY <2>2, <2>3
<1> HIDE DEF step
<1>10. file \in [Logs!Path -> SUBSET AllRows] /\ rows \in Nat /\ logsDay \in Nat /\ file[Inbox] \subseteq file[Alerts]
       /\ \A row \in file[Alerts] : row \in file[Inbox] \/ row \in exposed \/ OnItsWay(row)
  BY DEF LogInv, LogTypes
<1>11. ASSUME NEW s \in Subject
       PROVE  /\ Cardinality(Written(s)) \in Nat /\ Cardinality(Writing(s)) \in Nat /\ Cardinality(Call) \in Nat
              /\ Cardinality(Written(s)) + Cardinality(Writing(s)) <= Cardinality(Call)
              /\ IsFiniteSet(Written(s)) /\ IsFiniteSet(Writing(s))
  BY WritingFinite, FS_CardinalityType DEF LogInv, LogTypes
<1>12. ASSUME NEW s PROVE Writing(s)' \subseteq Writing(s)
  BY <1>7, <1>8 DEF Writing
<1>13. CASE step \in OtherWrites
  <2>1. step.path \in Logs!Path \ {Alerts, Inbox} /\ step.rows \in SUBSET AllRows
    BY <1>13 DEF OtherWrites
  <2>2. /\ file' \in [Logs!Path -> SUBSET AllRows] /\ file'[Alerts] = file[Alerts] /\ file'[Inbox] = file[Inbox]
    BY <1>1, <1>3, <1>10, <2>1, PathsDiffer DEF step
  <2>3. \A s : Written(s)' = Written(s)
    BY <2>2 DEF Written
  <2>4. step \notin AlertWrites
    BY <2>1 DEF AlertWrites
  <2>5. Orderly(Tail(todo[c]), file'[Alerts])
    BY <1>1, <2>2, <2>4, OrderlyTail DEF step
  <2>6. \A d \in Call : Orderly(todo'[d], file'[Alerts])
    BY <1>7, <2>2, <2>5 DEF LogInv
  <2>7. LogTypes'
    BY <1>3, <1>10, <1>11, <2>2, <2>3 DEF LogTypes
  <2>8. ASSUME NEW s \in Subject PROVE Cardinality(Written(s)') + Cardinality(Writing(s)') <= Cardinality(Call)
    <3>1. Cardinality(Writing(s)') <= Cardinality(Writing(s)) /\ Cardinality(Writing(s)') \in Nat
      BY <1>12, <1>11, FS_Subset, FS_CardinalityType
    <3> QED
      BY <1>11, <2>3, <3>1
  <2>9. \A row \in file'[Alerts] : row \in file'[Inbox] \/ row \in exposed' \/ OnItsWay(row)'
    BY <1>3, <1>9, <1>10, <2>1, <2>2
  <2> QED
    BY <1>7, <1>10, <2>2, <2>6, <2>7, <2>8, <2>9 DEF LogInv
<1>14. CASE step \in InboxWrites
  <2>1. step.path = Inbox /\ step.rows \in SUBSET AllRows /\ step.do = "append"
    BY <1>14 DEF InboxWrites, OneRow
  <2>2. step.rows \subseteq file[Alerts]
    <3>1. Inbox # Alerts /\ Inbox \notin {Logs!Raw(type) : type \in Types} /\ Inbox \notin Logs!Path \ {Alerts, Inbox}
      BY PathsDiffer
    <3>2. step \notin Plain /\ step \notin AlertWrites
      BY <2>1, <3>1 DEF Plain, Checks, Retains, OtherWrites, AlertWrites
    <3> QED
      BY <1>1, <3>2 DEF Orderly, step
  <2>3. /\ file' \in [Logs!Path -> SUBSET AllRows] /\ file'[Alerts] = file[Alerts] /\ file'[Inbox] = file[Inbox] \cup step.rows
    BY <1>3, <1>10, <2>1, PathsDiffer
  <2>4. \A s : Written(s)' = Written(s)
    BY <2>3 DEF Written
  <2>5. step \notin AlertWrites
    BY <2>1, PathsDiffer DEF AlertWrites
  <2>6. Orderly(Tail(todo[c]), file'[Alerts])
    BY <1>1, <2>3, <2>5, OrderlyTail DEF step
  <2>7. \A d \in Call : Orderly(todo'[d], file'[Alerts])
    BY <1>7, <2>3, <2>6 DEF LogInv
  <2>8. LogTypes'
    BY <1>3, <1>10, <1>11, <2>3, <2>4 DEF LogTypes
  <2>9. ASSUME NEW s \in Subject PROVE Cardinality(Written(s)') + Cardinality(Writing(s)') <= Cardinality(Call)
    <3>1. Cardinality(Writing(s)') <= Cardinality(Writing(s)) /\ Cardinality(Writing(s)') \in Nat
      BY <1>12, <1>11, FS_Subset, FS_CardinalityType
    <3> QED
      BY <1>11, <2>4, <3>1
  <2>10. \A row \in file'[Alerts] : row \in file'[Inbox] \/ row \in exposed' \/ OnItsWay(row)'
    BY <1>3, <1>9, <1>10, <2>3
  <2>11. file'[Inbox] \subseteq file'[Alerts]
    BY <1>10, <2>2, <2>3
  <2> QED
    BY <1>7, <2>7, <2>8, <2>9, <2>10, <2>11 DEF LogInv
<1>15. CASE step \in AlertWrites
  <2>1. step.path = Alerts /\ step.rows \in OneRow /\ step.do = "append"
    BY <1>15 DEF AlertWrites
  <2>2. PICK row \in AllRows : step.rows = {row}
    BY <2>1 DEF OneRow
  <2>3. /\ file' \in [Logs!Path -> SUBSET AllRows] /\ file'[Alerts] = file[Alerts] \cup {row} /\ file'[Inbox] = file[Inbox]
    BY <1>3, <1>10, <2>1, <2>2, PathsDiffer
  <2>4. Orderly(Tail(todo[c]), file'[Alerts])
    BY <1>1, <2>2, <2>3, OrderlyTail DEF step
  <2>5. \A d \in Call : Orderly(todo'[d], file'[Alerts])
    BY <1>7, <2>3, <2>4, OrderlyMore DEF LogInv
  <2>6. ASSUME NEW s \in Subject
        PROVE  IsFiniteSet(Written(s)') /\ Cardinality(Written(s)') + Cardinality(Writing(s)') <= Cardinality(Call)
    <3>1. CASE row.subject = s
      <4>1. Written(s)' \subseteq Written(s) \cup {row}
        BY <2>3 DEF Written
      <4>2. /\ IsFiniteSet(Written(s)') /\ Cardinality(Written(s)') <= Cardinality(Written(s)) + 1
            /\ Cardinality(Written(s)') \in Nat
        BY <1>11, <4>1, OneMore
      <4>3. c \in Writing(s) /\ c \notin Writing(s)'
        BY <1>1, <1>7, <1>8, <1>15, <2>2, <3>1 DEF Writing, step
      <4>4. Cardinality(Writing(s) \ {c}) = Cardinality(Writing(s)) - 1 /\ IsFiniteSet(Writing(s) \ {c})
        BY <1>11, <4>3, FS_RemoveElement
      <4>5. Writing(s)' \subseteq Writing(s) \ {c}
        BY <1>12, <4>3
      <4>6. Cardinality(Writing(s)') <= Cardinality(Writing(s)) - 1 /\ Cardinality(Writing(s)') \in Nat
        BY <4>4, <4>5, FS_Subset, FS_CardinalityType
      <4> QED
        BY <1>11, <4>2, <4>6
    <3>2. CASE row.subject # s
      <4>1. Written(s)' = Written(s)
        BY <2>3, <3>2 DEF Written
      <4>2. Cardinality(Writing(s)') <= Cardinality(Writing(s)) /\ Cardinality(Writing(s)') \in Nat
        BY <1>12, <1>11, FS_Subset, FS_CardinalityType
      <4> QED
        BY <1>11, <4>1, <4>2
    <3> QED
      BY <3>1, <3>2
  <2>7. LogTypes'
    BY <1>3, <1>10, <2>3, <2>6 DEF LogTypes
  <2>8. OnItsWay(row)'
    <3>1. Inbox # Alerts /\ Alerts \notin {Logs!Raw(type) : type \in Types} /\ Alerts \notin Logs!Path \ {Alerts, Inbox}
      BY PathsDiffer
    <3>2. step \notin Plain /\ step \notin InboxWrites
      BY <2>1, <3>1 DEF Plain, Checks, Retains, OtherWrites, InboxWrites
    <3>3. 2 \in DOMAIN todo[c] /\ todo[c][2] \in InboxWrites /\ todo[c][2].rows = step.rows
      BY <1>1, <3>2 DEF Orderly, step
    <3>4. 1 \in DOMAIN Tail(todo[c]) /\ Tail(todo[c])[1] = todo[c][2]
      BY <1>4, <3>3
    <3>5. todo[c][2].path = Inbox
      BY <3>3 DEF InboxWrites
    <3>6. 1 \in DOMAIN todo'[c] /\ todo'[c][1].path = Inbox /\ row \in todo'[c][1].rows
      BY <1>7, <2>2, <3>3, <3>4, <3>5
    <3> QED
      BY <3>6 DEF OnItsWay
  <2>9. \A r \in file'[Alerts] : r \in file'[Inbox] \/ r \in exposed' \/ OnItsWay(r)'
    BY <1>3, <1>9, <1>10, <2>1, <2>3, <2>8, PathsDiffer
  <2>10. file'[Inbox] \subseteq file'[Alerts]
    BY <1>10, <2>3
  <2> QED
    BY <1>7, <2>5, <2>6, <2>7, <2>9, <2>10 DEF LogInv
<1> QED
  BY <1>2, <1>13, <1>14, <1>15

LEMMA ARow ==
  ASSUME LogInv, NEW n \in Nat, NEW s \in Subject PROVE Logs!Row(n, s) \in AllRows
BY DEF Logs!Row, AllRows, LogInv, LogTypes

LEMMA LogStarted ==
  ASSUME LogInv, NEW c \in Call, Logs!RecordTelemetry(c) \/ Logs!EvaluateAlerts(c) \/ Logs!ApplyRetention(c) PROVE LogInv'
<1>1. rows \in Nat
  BY DEF LogInv, LogTypes
<1>2. CASE Logs!RecordTelemetry(c)
  <2>1. PICK s \in Subject :
          /\ rows' = rows + 1
          /\ Logs!Begin(c, <<Logs!Write(Logs!State("telemetry"), {Logs!Row(rows + 1, s)}), Logs!Write(Logs!Raw("telemetry"), {Logs!Row(rows + 1, s)})>>)
    BY <1>2 DEF Logs!RecordTelemetry
  <2> DEFINE row == Logs!Row(rows + 1, s)
             w1 == Logs!Write(Logs!State("telemetry"), {row})
             w2 == Logs!Write(Logs!Raw("telemetry"), {row})
  <2>2. row \in AllRows /\ rows' \in Nat
    BY <1>1, <2>1, ARow
  <2>3. Logs!Begin(c, <<w1, w2>>)
    BY <2>1
  <2> HIDE DEF row
  <2>4. w1 \in Plain /\ w2 \in Plain
    BY <2>2, PathsDiffer DEF Logs!Write, Plain, OtherWrites, Types
  <2> HIDE DEF w1, w2
  <2>5. <<w1, w2>> \in Seq(Steps) /\ \A i \in DOMAIN <<w1, w2>> : <<w1, w2>>[i] \in Plain
    BY <2>4 DEF Steps
  <2> QED
    BY <2>2, <2>3, <2>5, LogBegun
<1>3. CASE Logs!EvaluateAlerts(c)
  <2>1. PICK over \in SUBSET Subject : \E order \in Logs!SetToSeqs(over) :
          /\ rows' = rows + Logs!Cardinality(over)
          /\ Logs!Begin(c, [i \in DOMAIN order |-> Logs!Check(Logs!Row(rows + i, order[i]))])
    BY <1>3 DEF Logs!EvaluateAlerts
  <2>2. PICK order \in Logs!SetToSeqs(over) :
          /\ rows' = rows + Logs!Cardinality(over)
          /\ Logs!Begin(c, [i \in DOMAIN order |-> Logs!Check(Logs!Row(rows + i, order[i]))])
    BY <2>1
  <2>3. Logs!Cardinality(over) \in Nat
    <3>1. Logs!Cardinality(over) = Cardinality(over)
      BY DEF Logs!Cardinality, Cardinality
    <3>2. IsFiniteSet(over)
      BY LogsAssumption, FS_Subset
    <3> QED
      BY <3>1, <3>2, FS_CardinalityType
  <2>4. PICK n \in Nat : order \in [1..n -> over]
    BY <2>2, <2>3 DEF Logs!SetToSeqs
  <2> DEFINE steps == [i \in 1..n |-> Logs!Check(Logs!Row(rows + i, order[i]))]
  <2>5. Logs!Begin(c, steps) /\ rows' \in Nat
    BY <1>1, <2>2, <2>3, <2>4
  <2>6. ASSUME NEW i \in 1..n PROVE steps[i] \in Plain
    <3> DEFINE row == Logs!Row(rows + i, order[i])
    <3>1. rows + i \in Nat /\ order[i] \in Subject
      BY <1>1, <2>4
    <3>2. row \in AllRows
      BY <3>1, ARow
    <3>3. steps[i] = Logs!Check(row)
      OBVIOUS
    <3> HIDE DEF row, steps
    <3>4. {row} \in OneRow
      BY <3>2 DEF OneRow
    <3> QED
      BY <3>3, <3>4 DEF Logs!Check, Plain, Checks, Alerts
  <2>7. steps \in Seq(Steps) /\ DOMAIN steps = 1..n
    BY <2>6 DEF Steps
  <2> HIDE DEF steps
  <2>8. \A i \in DOMAIN steps : steps[i] \in Plain
    BY <2>6, <2>7
  <2> QED
    BY <2>5, <2>7, <2>8, LogBegun
<1>4. CASE Logs!ApplyRetention(c)
  <2> DEFINE steps == [i \in DOMAIN Logs!HistoryType |-> Logs!Retain(Logs!HistoryType[i])]
  <2>1. rows' \in Nat /\ Logs!Begin(c, steps)
    BY <1>1, <1>4 DEF Logs!ApplyRetention
  <2>2. ASSUME NEW type \in Types PROVE Logs!Retain(type) \in Plain
    BY DEF Logs!Retain, Plain, Retains
  <2>3. DOMAIN steps = 1..2 /\ \A i \in 1..2 : steps[i] \in Plain
    BY <2>2, PathsDiffer DEF Types
  <2>4. steps \in Seq(Steps)
    BY <2>3, PathsDiffer DEF Steps
  <2> HIDE DEF steps
  <2> QED
    BY <2>1, <2>3, <2>4, LogBegun
<1> QED
  BY <1>2, <1>3, <1>4

LEMMA LogKept == LogInv /\ [Next]_vars => LogInv'
<1> SUFFICES ASSUME LogInv, [Next]_vars PROVE LogInv'
  OBVIOUS
<1>1. Logs!Next \/ UNCHANGED logsVars
  BY DEF Next, vars
<1>2. CASE \E c \in Call : Logs!RecordTelemetry(c) \/ Logs!EvaluateAlerts(c) \/ Logs!ApplyRetention(c)
                           \/ Logs!Decide(c) \/ Logs!DoWrite(c) \/ Logs!Crash(c)
  BY <1>2, LogStarted, LogDecide, LogWritten, LogCrash
<1>3. CASE Logs!NextDay \/ UNCHANGED logsVars
  <2>1. UNCHANGED <<file, todo, rows, exposed>> /\ logsDay' \in Nat
    BY <1>3 DEF Logs!NextDay, logsVars, LogInv, LogTypes
  <2>2. \A s : Written(s)' = Written(s) /\ Writing(s)' = Writing(s)
    BY <2>1 DEF Written, Writing
  <2>3. \A row : OnItsWay(row)' <=> OnItsWay(row)
    BY <2>1 DEF OnItsWay
  <2>4. LogTypes'
    BY <2>1, <2>2 DEF LogInv, LogTypes
  <2> QED
    BY <2>1, <2>2, <2>3, <2>4 DEF LogInv
<1> QED
  BY <1>1, <1>2, <1>3 DEF Logs!Next

LEMMA LogTrue == LogInv => Logs!InboxFollowsAlerts /\ Logs!AlertsBoundedByCalls
<1> SUFFICES ASSUME LogInv PROVE Logs!InboxFollowsAlerts /\ Logs!AlertsBoundedByCalls
  OBVIOUS
<1>1. ASSUME NEW row, OnItsWay(row) PROVE row \in Logs!InHand(Inbox)
  BY <1>1 DEF OnItsWay, Logs!InHand
<1>2. Logs!InboxFollowsAlerts
  BY <1>1 DEF Logs!InboxFollowsAlerts, LogInv, Alerts, Inbox
<1>3. ASSUME NEW s \in Subject
      PROVE  Logs!Cardinality({row \in file[Logs!State("alerts")] : row.subject = s}) <= Logs!Cardinality(Call)
  <2>1. /\ Logs!Cardinality({row \in file[Logs!State("alerts")] : row.subject = s}) = Cardinality(Written(s))
        /\ Logs!Cardinality(Call) = Cardinality(Call)
    BY DEF Logs!Cardinality, Cardinality, Written, Alerts
  <2>2. /\ Cardinality(Written(s)) \in Nat /\ Cardinality(Writing(s)) \in Nat /\ Cardinality(Call) \in Nat
        /\ Cardinality(Written(s)) + Cardinality(Writing(s)) <= Cardinality(Call)
    BY WritingFinite, FS_CardinalityType DEF LogInv, LogTypes
  <2> QED
    BY <2>1, <2>2
<1>4. Logs!AlertsBoundedByCalls
  BY <1>3 DEF Logs!AlertsBoundedByCalls
<1> QED
  BY <1>2, <1>4

-----------------------------------------------------------------------------
(* Evals: the file of a pair, then the history; what a crash left out. *)

SuiteAt == {"idle", "baseline", "mcg", "save", "history", "done"}
Cases == {Dataset[n] : n \in DOMAIN Dataset}
Suites == [at : SuiteAt, todo : Seq(Cases), baseline : Baselines \cup {None}, mcg : Mcgs \cup {None}]
Pairs == [by : Suite, case : Cases, baseline : Baselines \cup {None}, mcg : Mcgs \cup {None}, torn : BOOLEAN]

Whole == {n \in DOMAIN runs : ~runs[n].torn}
Entering == {s \in Suite : suite[s].at = "history"}
SuitesBegun == {s \in Suite : suite[s].at # "idle"}

EvalTypes ==
  /\ suite \in [Suite -> Suites] /\ runs \in Seq(Pairs) /\ history \in Seq(Pairs) /\ evalsCrashes \in Nat
  /\ IsFiniteSet(SuitesBegun)

\* The pair in hand is on disk before it enters the history, and one at most is left out for each crash.
EvalInv ==
  /\ EvalTypes
  /\ \A s \in Suite : suite[s].at \in {"mcg", "save", "history"} => suite[s].todo # << >>
  /\ \A n \in DOMAIN history : \E k \in DOMAIN runs : runs[k] = history[n]
  /\ \A s \in Suite : suite[s].at = "history" => \E k \in DOMAIN runs : runs[k] = Evals!Pair(s, FALSE)
  /\ Cardinality(Whole) <= Len(history) + evalsCrashes + Cardinality(Entering)

LEMMA EvalInit == Init => EvalInv
<1> SUFFICES ASSUME Init PROVE EvalInv
  OBVIOUS
<1>1. suite = [s \in Suite |-> Evals!NoSuite] /\ runs = << >> /\ history = << >> /\ evalsCrashes = 0
  BY DEF Init, Evals!Init
<1>2. Evals!NoSuite \in Suites /\ Evals!NoSuite.at = "idle"
  BY DEF Evals!NoSuite, Suites, SuiteAt
<1>3. Whole = {} /\ Entering = {} /\ SuitesBegun = {}
  BY <1>1, <1>2 DEF Whole, Entering, SuitesBegun
<1>4. EvalTypes
  BY <1>1, <1>2, <1>3, FS_EmptySet DEF EvalTypes
<1> QED
  BY <1>1, <1>2, <1>3, <1>4, FS_EmptySet DEF EvalInv

LEMMA EvalFinite == EvalInv => /\ IsFiniteSet(Whole) /\ IsFiniteSet(Entering)
                               /\ Cardinality(Whole) \in Nat /\ Cardinality(Entering) \in Nat
<1> SUFFICES ASSUME EvalInv PROVE IsFiniteSet(Whole) /\ IsFiniteSet(Entering)
  BY FS_CardinalityType
<1>1. Whole \subseteq 1..Len(runs) /\ Len(runs) \in Nat
  BY DEF EvalInv, EvalTypes, Whole
<1>2. IsFiniteSet(1..Len(runs))
  BY <1>1, FS_Interval
<1>3. Entering \subseteq SuitesBegun
  BY DEF Entering, SuitesBegun
<1> QED
  BY <1>1, <1>2, <1>3, FS_Subset DEF EvalInv, EvalTypes

\* A suite moves to another place.
LEMMA SuiteGoto ==
  ASSUME EvalInv, NEW s \in Suite, NEW there \in Suites, there.at # "idle", Evals!Goto(s, there)
  PROVE  /\ suite' \in [Suite -> Suites] /\ suite'[s] = there /\ \A t \in Suite \ {s} : suite'[t] = suite[t]
         /\ IsFiniteSet(SuitesBegun')
<1>1. suite' = [suite EXCEPT ![s] = there]
  BY DEF Evals!Goto
<1>2. suite' \in [Suite -> Suites] /\ suite'[s] = there /\ \A t \in Suite \ {s} : suite'[t] = suite[t]
  BY <1>1 DEF EvalInv, EvalTypes
<1>3. SuitesBegun' \subseteq SuitesBegun \cup {s}
  BY <1>2 DEF SuitesBegun
<1> QED
  BY <1>2, <1>3, OneMore DEF EvalInv, EvalTypes

\* Where no suite enters or leaves the history and no file is written, what holds stays.
LEMMA ElsewhereKept ==
  ASSUME EvalInv, NEW s \in Suite, NEW there \in Suites, there.at \notin {"idle", "history"}, Evals!Goto(s, there),
         suite[s].at # "history", there.at \in {"mcg", "save"} => there.todo # << >>, UNCHANGED <<runs, history, evalsCrashes>>
  PROVE  EvalInv'
<1>1. /\ suite' \in [Suite -> Suites] /\ suite'[s] = there /\ (\A t \in Suite \ {s} : suite'[t] = suite[t])
      /\ IsFiniteSet(SuitesBegun')
  BY SuiteGoto
<1>2. Entering' = Entering /\ Whole' = Whole
  BY <1>1 DEF Entering, Whole
<1>3. EvalTypes'
  BY <1>1 DEF EvalInv, EvalTypes
<1>4. \A t \in Suite : suite'[t].at = "history" => \E k \in DOMAIN runs : runs[k] = Evals!Pair(t, FALSE)'
  BY <1>1 DEF EvalInv, Evals!Pair
<1> QED
  BY <1>1, <1>2, <1>3, <1>4 DEF EvalInv

\* A pair is one of the pairs.
LEMMA PairIsPair ==
  ASSUME EvalInv, NEW s \in Suite, suite[s].at \in {"save", "history"}, NEW cut \in BOOLEAN
  PROVE  Evals!Pair(s, cut) \in Pairs /\ (Evals!Pair(s, cut).torn <=> cut)
<1>1. suite[s] \in Suites /\ suite[s].todo # << >>
  BY DEF EvalInv, EvalTypes
<1>2. Head(suite[s].todo) \in Cases /\ suite[s].baseline \in Baselines \cup {None} /\ suite[s].mcg \in Mcgs \cup {None}
  BY <1>1 DEF Suites
<1> QED
  BY <1>2 DEF Evals!Pair, Pairs

LEMMA RunLaneKept ==
  ASSUME EvalInv, NEW s \in Suite, Evals!RunLane(s) PROVE EvalInv'
<1>1. suite[s] \in Suites /\ UNCHANGED <<runs, history, evalsCrashes>>
  BY DEF EvalInv, EvalTypes, Evals!RunLane
<1>2. CASE suite[s].at = "baseline" /\ suite[s].todo # << >>
           /\ \E lane \in Baselines : Evals!Goto(s, [suite[s] EXCEPT !.at = "mcg", !.baseline = lane])
  <2>1. PICK lane \in Baselines : Evals!Goto(s, [suite[s] EXCEPT !.at = "mcg", !.baseline = lane])
    BY <1>2
  <2> DEFINE there == [suite[s] EXCEPT !.at = "mcg", !.baseline = lane]
  <2>2. there \in Suites /\ there.at = "mcg" /\ there.todo = suite[s].todo
    BY <1>1 DEF Suites, SuiteAt
  <2>3. Evals!Goto(s, there)
    BY <2>1
  <2> HIDE DEF there
  <2> QED
    BY <1>1, <1>2, <2>2, <2>3, ElsewhereKept
<1>3. CASE suite[s].at = "mcg" /\ \E lane \in Mcgs : Evals!Goto(s, [suite[s] EXCEPT !.at = "save", !.mcg = lane])
  <2>1. PICK lane \in Mcgs : Evals!Goto(s, [suite[s] EXCEPT !.at = "save", !.mcg = lane])
    BY <1>3
  <2> DEFINE there == [suite[s] EXCEPT !.at = "save", !.mcg = lane]
  <2>2. there \in Suites /\ there.at = "save" /\ there.todo = suite[s].todo
    BY <1>1 DEF Suites, SuiteAt
  <2>3. Evals!Goto(s, there)
    BY <2>1
  <2>4. suite[s].todo # << >>
    BY <1>3 DEF EvalInv
  <2> HIDE DEF there
  <2> QED
    BY <1>1, <1>3, <2>2, <2>3, <2>4, ElsewhereKept
<1> QED
  BY <1>2, <1>3 DEF Evals!RunLane

LEMMA SuiteStartKept ==
  ASSUME EvalInv, NEW s \in Suite, NEW offset \in 0..Len(Dataset), NEW limit \in 1..Len(Dataset),
         Evals!runValidationSuite(s, offset, limit)
  PROVE  EvalInv'
<1>1. Dataset \in Seq(Cases) /\ Len(Dataset) \in Nat
  BY EvalsAssumption DEF Cases
<1> DEFINE last == Evals!Min({Len(Dataset), offset + limit})
           cases == SubSeq(Dataset, offset + 1, last)
           there == [Evals!NoSuite EXCEPT !.at = "baseline", !.todo = cases]
<1>2. last \in Nat /\ last <= Len(Dataset)
  <2>1. \E x \in {Len(Dataset), offset + limit} : \A y \in {Len(Dataset), offset + limit} : x <= y
    BY <1>1
  <2>2. last \in {Len(Dataset), offset + limit} /\ \A y \in {Len(Dataset), offset + limit} : last <= y
    BY <2>1 DEF Evals!Min
  <2> QED
    BY <1>1, <2>2
<1> HIDE DEF last
<1>3. cases \in Seq(Cases)
  BY <1>1, <1>2
<1>4. suite[s].at = "idle" /\ Evals!Goto(s, there) /\ UNCHANGED <<runs, history, evalsCrashes>>
  BY DEF Evals!runValidationSuite, Evals!selectValidationCases, last
<1> HIDE DEF cases
<1>5. Evals!NoSuite \in Suites
  BY DEF Evals!NoSuite, Suites, SuiteAt
<1>6. there \in Suites /\ there.at = "baseline"
  BY <1>3, <1>5 DEF Suites, SuiteAt
<1> HIDE DEF there
<1> QED
  BY <1>4, <1>6, ElsewhereKept

LEMMA SummarizeKept ==
  ASSUME EvalInv, NEW s \in Suite, Evals!Summarize(s) PROVE EvalInv'
<1> DEFINE there == [suite[s] EXCEPT !.at = "done"]
<1>1. suite[s].at = "baseline" /\ Evals!Goto(s, there) /\ UNCHANGED <<runs, history, evalsCrashes>>
  BY DEF Evals!Summarize
<1>2. suite[s] \in Suites
  BY DEF EvalInv, EvalTypes
<1>3. there \in Suites /\ there.at = "done"
  BY <1>2 DEF Suites, SuiteAt
<1> HIDE DEF there
<1> QED
  BY <1>1, <1>3, ElsewhereKept

\* A pair more on disk.
LEMMA OneRunMore ==
  ASSUME EvalInv, NEW pair \in Pairs, runs' = Append(runs, pair)
  PROVE  /\ runs' \in Seq(Pairs) /\ DOMAIN runs = 1..Len(runs) /\ DOMAIN runs' = 1..(Len(runs) + 1) /\ Len(runs) \in Nat
         /\ \A k \in DOMAIN runs : k \in DOMAIN runs' /\ runs'[k] = runs[k]
         /\ runs'[Len(runs) + 1] = pair
         /\ Whole' \subseteq Whole \cup {Len(runs) + 1}
         /\ pair.torn => Whole' = Whole
<1>1. runs \in Seq(Pairs)
  BY DEF EvalInv, EvalTypes
<1>2. /\ runs' \in Seq(Pairs) /\ DOMAIN runs = 1..Len(runs) /\ DOMAIN runs' = 1..(Len(runs) + 1) /\ Len(runs) \in Nat
      /\ \A k \in DOMAIN runs : k \in DOMAIN runs' /\ runs'[k] = runs[k]
      /\ runs'[Len(runs) + 1] = pair
  BY <1>1
<1> QED
  BY <1>2 DEF Whole

LEMMA SavePairKept ==
  ASSUME EvalInv, NEW s \in Suite, Evals!SavePair(s) PROVE EvalInv'
<1>1. suite[s] \in Suites /\ evalsCrashes \in Nat /\ Len(history) \in Nat /\ history \in Seq(Pairs)
  BY DEF EvalInv, EvalTypes
<1>2. /\ IsFiniteSet(Whole) /\ IsFiniteSet(Entering)
      /\ Cardinality(Whole) \in Nat /\ Cardinality(Entering) \in Nat
      /\ Cardinality(Whole) <= Len(history) + evalsCrashes + Cardinality(Entering)
  BY EvalFinite DEF EvalInv
<1> DEFINE pair == Evals!Pair(s, FALSE)
<1>3. CASE suite[s].at = "save" /\ runs' = Append(runs, pair) /\ history' = history /\ evalsCrashes' = evalsCrashes
           /\ Evals!Goto(s, [suite[s] EXCEPT !.at = "history"])
  <2> DEFINE there == [suite[s] EXCEPT !.at = "history"]
  <2>1. there \in Suites /\ there.at = "history" /\ Evals!Goto(s, there)
        /\ there.todo = suite[s].todo /\ there.baseline = suite[s].baseline /\ there.mcg = suite[s].mcg
    BY <1>1, <1>3 DEF Suites, SuiteAt
  <2> HIDE DEF there
  <2>2. /\ suite' \in [Suite -> Suites] /\ suite'[s] = there /\ (\A t \in Suite \ {s} : suite'[t] = suite[t])
        /\ IsFiniteSet(SuitesBegun')
    BY <2>1, SuiteGoto
  <2>3. pair \in Pairs
    BY <1>3, PairIsPair
  <2>4. pair = Evals!Pair(s, FALSE)'
    BY <2>1, <2>2 DEF Evals!Pair
  <2>5. /\ runs' \in Seq(Pairs) /\ DOMAIN runs = 1..Len(runs) /\ DOMAIN runs' = 1..(Len(runs) + 1) /\ Len(runs) \in Nat
        /\ (\A k \in DOMAIN runs : k \in DOMAIN runs' /\ runs'[k] = runs[k])
        /\ runs'[Len(runs) + 1] = pair
        /\ Whole' \subseteq Whole \cup {Len(runs) + 1}
    <3> HIDE DEF pair
    <3> QED
      BY <1>3, <2>3, OneRunMore
  <2>6. Cardinality(Whole') <= Cardinality(Whole) + 1 /\ Cardinality(Whole') \in Nat
    BY <1>2, <2>5, OneMore
  <2>7. Cardinality(Entering') = Cardinality(Entering) + 1
    <3>1. Entering' = Entering \cup {s} /\ s \notin Entering
      BY <1>3, <2>1, <2>2 DEF Entering
    <3> QED
      BY <1>2, <3>1, FS_AddElement
  <2>8. Cardinality(Whole') <= Len(history') + evalsCrashes' + Cardinality(Entering')
    BY <1>1, <1>2, <1>3, <2>6, <2>7
  <2>9. EvalTypes'
    BY <1>3, <2>2, <2>5 DEF EvalInv, EvalTypes
  <2>10. \A t \in Suite : suite'[t].at \in {"mcg", "save", "history"} => suite'[t].todo # << >>
    BY <1>3, <2>1, <2>2 DEF EvalInv
  <2>11. ASSUME NEW n \in DOMAIN history' PROVE \E k \in DOMAIN runs' : runs'[k] = history'[n]
    <3>1. n \in DOMAIN history /\ history'[n] = history[n]
      BY <1>3
    <3>2. PICK k \in DOMAIN runs : runs[k] = history[n]
      BY <3>1 DEF EvalInv
    <3> QED
      BY <2>5, <3>1, <3>2
  <2> HIDE DEF pair
  <2>12. ASSUME NEW t \in Suite, suite'[t].at = "history" PROVE \E k \in DOMAIN runs' : runs'[k] = Evals!Pair(t, FALSE)'
    <3>1. CASE t = s
      <4>1. Len(runs) + 1 \in DOMAIN runs' /\ runs'[Len(runs) + 1] = Evals!Pair(s, FALSE)'
        BY <2>4, <2>5
      <4> QED
        BY <3>1, <4>1
    <3>2. CASE t # s
      <4>1. Evals!Pair(t, FALSE)' = Evals!Pair(t, FALSE) /\ suite[t].at = "history"
        BY <2>2, <2>12, <3>2 DEF Evals!Pair
      <4> QED
        BY <2>5, <4>1 DEF EvalInv
    <3> QED
      BY <3>1, <3>2
  <2> QED
    BY <2>8, <2>9, <2>10, <2>11, <2>12 DEF EvalInv
<1>4. CASE suite[s].at = "history" /\ history' = Append(history, pair) /\ runs' = runs /\ evalsCrashes' = evalsCrashes
           /\ Evals!Goto(s, [suite[s] EXCEPT !.at = "baseline", !.todo = Tail(@)])
  <2> DEFINE there == [suite[s] EXCEPT !.at = "baseline", !.todo = Tail(@)]
  <2>1. there \in Suites /\ there.at = "baseline" /\ Evals!Goto(s, there)
    <3>1. Tail(suite[s].todo) \in Seq(Cases)
      <4>1. suite[s].todo \in Seq(Cases) /\ suite[s].todo # << >>
        BY <1>1, <1>4 DEF Suites, EvalInv
      <4> QED
        BY <4>1
    <3> QED
      BY <1>1, <1>4, <3>1 DEF Suites, SuiteAt
  <2> HIDE DEF there
  <2>2. /\ suite' \in [Suite -> Suites] /\ suite'[s] = there /\ (\A t \in Suite \ {s} : suite'[t] = suite[t])
        /\ IsFiniteSet(SuitesBegun')
    BY <2>1, SuiteGoto
  <2>3. pair \in Pairs /\ \E k \in DOMAIN runs : runs[k] = pair
    BY <1>4, PairIsPair DEF EvalInv
  <2> HIDE DEF pair
  <2>4. history' \in Seq(Pairs) /\ Len(history') = Len(history) + 1
        /\ \A n \in DOMAIN history' : history'[n] = pair \/ (n \in DOMAIN history /\ history'[n] = history[n])
    <3>1. history \in Seq(Pairs) /\ pair \in Pairs /\ history' = Append(history, pair)
      BY <1>1, <1>4, <2>3
    <3>2. DOMAIN history' = 1..(Len(history) + 1) /\ DOMAIN history = 1..Len(history)
      BY <3>1
    <3>3. ASSUME NEW n \in DOMAIN history', n # Len(history) + 1 PROVE n \in DOMAIN history /\ history'[n] = history[n]
      BY <3>1, <3>2, <3>3
    <3>4. history'[Len(history) + 1] = pair
      BY <3>1
    <3>5. history' \in Seq(Pairs) /\ Len(history') = Len(history) + 1
      BY <3>1
    <3> QED
      BY <3>3, <3>4, <3>5
  <2>5. Cardinality(Entering') = Cardinality(Entering) - 1
    <3>1. Entering' = Entering \ {s} /\ s \in Entering
      BY <1>4, <2>1, <2>2 DEF Entering
    <3> QED
      BY <1>2, <3>1, FS_RemoveElement
  <2>6. Whole' = Whole
    BY <1>4 DEF Whole
  <2>7. Cardinality(Whole') <= Len(history') + evalsCrashes' + Cardinality(Entering')
    BY <1>1, <1>2, <1>4, <2>4, <2>5, <2>6
  <2>8. EvalTypes'
    BY <1>4, <2>2, <2>4 DEF EvalInv, EvalTypes
  <2>9. \A t \in Suite : suite'[t].at \in {"mcg", "save", "history"} => suite'[t].todo # << >>
    BY <1>4, <2>1, <2>2 DEF EvalInv
  <2>10. \A n \in DOMAIN history' : \E k \in DOMAIN runs' : runs'[k] = history'[n]
    BY <1>4, <2>3, <2>4 DEF EvalInv
  <2>11. ASSUME NEW t \in Suite, suite'[t].at = "history" PROVE \E k \in DOMAIN runs' : runs'[k] = Evals!Pair(t, FALSE)'
    <3>1. t # s /\ suite'[t] = suite[t]
      BY <2>1, <2>2, <2>11
    <3>2. Evals!Pair(t, FALSE)' = Evals!Pair(t, FALSE)
      BY <3>1 DEF Evals!Pair
    <3> QED
      BY <1>4, <2>11, <3>1, <3>2 DEF EvalInv
  <2> QED
    BY <2>7, <2>8, <2>9, <2>10, <2>11 DEF EvalInv
<1> QED
  BY <1>3, <1>4 DEF Evals!SavePair, Evals!NextCase

LEMMA CrashSuiteKept ==
  ASSUME EvalInv, NEW s \in Suite, Evals!CrashSuite(s) PROVE EvalInv'
<1> DEFINE there == [suite[s] EXCEPT !.at = "done"]
           pair == Evals!Pair(s, TRUE)
<1>1. /\ evalsCrashes' = evalsCrashes + 1 /\ history' = history
      /\ Evals!Goto(s, there)
  BY DEF Evals!CrashSuite
<1>12. runs' = runs \/ (suite[s].at = "save" /\ runs' = Append(runs, pair))
  <2>1. runs' \in {runs} \cup (IF suite[s].at = "save" THEN {Append(runs, pair)} ELSE {})
    BY DEF Evals!CrashSuite
  <2> HIDE DEF pair
  <2>2. CASE suite[s].at = "save"
    BY <2>1, <2>2
  <2>3. CASE suite[s].at # "save"
    BY <2>1, <2>3
  <2> QED
    BY <2>2, <2>3
<1>2. suite[s] \in Suites /\ evalsCrashes \in Nat /\ Len(history) \in Nat
  BY DEF EvalInv, EvalTypes
<1>3. there \in Suites /\ there.at = "done"
  BY <1>2 DEF Suites, SuiteAt
<1> HIDE DEF there
<1>4. /\ suite' \in [Suite -> Suites] /\ suite'[s] = there /\ (\A t \in Suite \ {s} : suite'[t] = suite[t])
      /\ IsFiniteSet(SuitesBegun')
  BY <1>1, <1>3, SuiteGoto
<1>5. /\ runs' \in Seq(Pairs) /\ Whole' = Whole
      /\ \A k \in DOMAIN runs : k \in DOMAIN runs' /\ runs'[k] = runs[k]
  <2>1. CASE runs' = runs
    BY <2>1 DEF EvalInv, EvalTypes, Whole
  <2>2. CASE suite[s].at = "save" /\ runs' = Append(runs, pair)
    <3>1. pair \in Pairs /\ pair.torn
      BY <2>2, PairIsPair
    <3> HIDE DEF pair
    <3> QED
      BY <2>2, <3>1, OneRunMore
  <2> QED
    BY <1>12, <2>1, <2>2
<1>6. Cardinality(Entering) <= Cardinality(Entering') + 1 /\ Cardinality(Entering') \in Nat /\ Cardinality(Entering) \in Nat
  <2>1. Entering \subseteq Entering' \cup {s} /\ Entering' \subseteq Entering
    BY <1>3, <1>4 DEF Entering
  <2>2. IsFiniteSet(Entering')
    BY <2>1, EvalFinite, FS_Subset
  <2> QED
    BY <2>1, <2>2, OneMore
<1>7. Cardinality(Whole') <= Len(history') + evalsCrashes' + Cardinality(Entering')
  <2>1. Cardinality(Whole) \in Nat /\ Cardinality(Whole) <= Len(history) + evalsCrashes + Cardinality(Entering)
    BY EvalFinite DEF EvalInv
  <2> QED
    BY <1>1, <1>2, <1>5, <1>6, <2>1
<1>8. EvalTypes'
  <2>1. evalsCrashes' \in Nat /\ history' \in Seq(Pairs)
    BY <1>1 DEF EvalInv, EvalTypes
  <2> QED
    BY <1>4, <1>5, <2>1 DEF EvalTypes
<1>9. \A t \in Suite : suite'[t].at \in {"mcg", "save", "history"} => suite'[t].todo # << >>
  BY <1>3, <1>4 DEF EvalInv
<1>10. \A n \in DOMAIN history' : \E k \in DOMAIN runs' : runs'[k] = history'[n]
  BY <1>1, <1>5 DEF EvalInv
<1>11. ASSUME NEW t \in Suite, suite'[t].at = "history" PROVE \E k \in DOMAIN runs' : runs'[k] = Evals!Pair(t, FALSE)'
  <2>1. t # s /\ suite'[t] = suite[t]
    BY <1>3, <1>4, <1>11
  <2>2. Evals!Pair(t, FALSE)' = Evals!Pair(t, FALSE)
    BY <2>1 DEF Evals!Pair
  <2> QED
    BY <1>5, <1>11, <2>1, <2>2 DEF EvalInv
<1> QED
  BY <1>7, <1>8, <1>9, <1>10, <1>11 DEF EvalInv

LEMMA EvalTrue == EvalInv => Evals!HistoryFollowsRuns
<1> SUFFICES ASSUME EvalInv PROVE Evals!HistoryFollowsRuns
  OBVIOUS
<1>1. \A n \in DOMAIN history : history[n] \in Evals!Range(runs)
  BY DEF EvalInv, Evals!Range
<1>2. /\ Evals!Cardinality({n \in DOMAIN runs : ~runs[n].torn}) = Cardinality(Whole)
      /\ Evals!Cardinality({s \in Suite : suite[s].at = "history"}) = Cardinality(Entering)
  BY DEF Evals!Cardinality, Cardinality, Whole, Entering
<1>3. Cardinality(Whole) - Len(history) <= evalsCrashes + Cardinality(Entering)
  <2>1. Len(history) \in Nat /\ evalsCrashes \in Nat
    BY DEF EvalInv, EvalTypes
  <2>2. Cardinality(Whole) <= Len(history) + evalsCrashes + Cardinality(Entering)
    BY DEF EvalInv
  <2> QED
    BY <2>1, <2>2, EvalFinite
<1> QED
  BY <1>1, <1>2, <1>3 DEF Evals!HistoryFollowsRuns

LEMMA EvalKept == EvalInv /\ [Next]_vars => EvalInv'
<1> SUFFICES ASSUME EvalInv, [Next]_vars PROVE EvalInv'
  OBVIOUS
<1>1. Evals!Next \/ UNCHANGED evalsVars
  BY DEF Next, vars
<1>2. CASE Evals!Next
  BY <1>2, RunLaneKept, SavePairKept, SummarizeKept, CrashSuiteKept, SuiteStartKept DEF Evals!Next
<1>3. CASE UNCHANGED evalsVars
  <2>1. UNCHANGED <<suite, runs, history, evalsCrashes>>
    BY <1>3 DEF evalsVars
  <2>2. Whole' = Whole /\ Entering' = Entering /\ SuitesBegun' = SuitesBegun
    BY <2>1 DEF Whole, Entering, SuitesBegun
  <2>3. \A s : Evals!Pair(s, FALSE)' = Evals!Pair(s, FALSE)
    BY <2>1 DEF Evals!Pair
  <2>4. EvalTypes'
    BY <2>1, <2>2 DEF EvalInv, EvalTypes
  <2> QED
    BY <2>1, <2>2, <2>3, <2>4 DEF EvalInv
<1> QED
  BY <1>1, <1>2, <1>3

-----------------------------------------------------------------------------
(* Replays: the result, the history, the telemetry; what a crash left out. *)

ReplayAt == {"idle", "run", "result", "history", "telemetry", "done"}
Saved == {results[i] : i \in DOMAIN results}
Begun == {r \in Replay : replay[r].at # "idle"}
Saving == {r \in Replay : replay[r].at \in {"history", "telemetry"}}
LeftOut == {r \in Replay : replay[r].at = "done" /\ r \in Saved /\ r \notin told}

ReplayTypes ==
  /\ replay \in [Replay -> [at : ReplayAt, variant : {"baseline", "mcg"}, start : Nat]]
  /\ results \in Seq(Replay) /\ recorded \subseteq Saved /\ told \subseteq recorded /\ replayingCrashes \in Nat
  /\ IsFiniteSet(Begun)

\* At most one replay for each crash is on disk and not in the telemetry, besides those that are being saved.
ReplayInv ==
  /\ ReplayTypes
  /\ \A r \in Replay :
       /\ replay[r].at \in {"idle", "run", "result"} => r \notin Saved
       /\ replay[r].at = "history" => r \in Saved
       /\ replay[r].at = "telemetry" => r \in recorded
  /\ Cardinality(LeftOut) <= replayingCrashes

LEMMA ReplayInit == Init => ReplayInv
<1> SUFFICES ASSUME Init PROVE ReplayInv
  OBVIOUS
<1>1. /\ replay = [r \in Replay |-> [at |-> "idle", variant |-> "baseline", start |-> 0]]
      /\ results = << >> /\ recorded = {} /\ told = {} /\ replayingCrashes = 0
  BY DEF Init, Replaying!Init
<1>2. Begun = {} /\ Saved = {} /\ LeftOut = {}
  BY <1>1 DEF Begun, Saved, LeftOut
<1>3. ReplayTypes
  BY <1>1, <1>2, FS_EmptySet DEF ReplayTypes, ReplayAt
<1> QED
  BY <1>1, <1>2, <1>3, FS_EmptySet DEF ReplayInv

LEMMA LeftOutFinite == ReplayInv => IsFiniteSet(LeftOut) /\ IsFiniteSet(Saving) /\ Cardinality(LeftOut) \in Nat
<1>1. LeftOut \subseteq Begun /\ Saving \subseteq Begun
  BY DEF LeftOut, Saving, Begun
<1> QED
  BY <1>1, FS_Subset, FS_CardinalityType DEF ReplayInv, ReplayTypes

\* A step of one replay goes from one place to the next.
LEMMA GotoPlace ==
  ASSUME ReplayInv, NEW r \in Replay, NEW there \in ReplayAt, there # "idle", Replaying!Goto(r, there)
  PROVE  /\ replay' \in [Replay -> [at : ReplayAt, variant : {"baseline", "mcg"}, start : Nat]]
         /\ replay'[r].at = there /\ \A x \in Replay \ {r} : replay'[x] = replay[x]
         /\ IsFiniteSet(Begun')
<1>1. replay' = [replay EXCEPT ![r].at = there]
  BY DEF Replaying!Goto
<1>2. /\ replay' \in [Replay -> [at : ReplayAt, variant : {"baseline", "mcg"}, start : Nat]]
      /\ replay'[r].at = there /\ \A x \in Replay \ {r} : replay'[x] = replay[x]
  BY <1>1 DEF ReplayInv, ReplayTypes
<1>3. Begun' \subseteq Begun \cup {r}
  BY <1>2 DEF Begun
<1> QED
  BY <1>2, <1>3, OneMore DEF ReplayInv, ReplayTypes

LEMMA ReplayKept ==
  ASSUME ReplayInv, Replaying!Next PROVE ReplayInv'
<1>1. PICK r \in Replay : \/ Replaying!EndRun(r) \/ Replaying!Save(r) \/ Replaying!Crash(r)
                          \/ \E variant \in {"baseline", "mcg"} : Replaying!replayTask(r, variant)
  BY DEF Replaying!Next
<1>2. CASE \E variant \in {"baseline", "mcg"} : Replaying!replayTask(r, variant)
  <2>1. PICK variant \in {"baseline", "mcg"} : Replaying!replayTask(r, variant)
    BY <1>2
  <2> DEFINE n == 1 + Cardinality(Begun)
  <2>2. n \in Nat
    BY FS_CardinalityType DEF ReplayInv, ReplayTypes
  <2>3. /\ replay[r].at = "idle" /\ UNCHANGED <<results, recorded, told, replayingCrashes>>
        /\ replay' = [replay EXCEPT ![r].at = "run", ![r].variant = variant, ![r].start = n]
    <3>1. Replaying!Cardinality({x \in Replay : replay[x].at # "idle"}) = Cardinality(Begun)
      BY DEF Replaying!Cardinality, Cardinality, Begun
    <3> QED
      BY <2>1, <3>1 DEF Replaying!replayTask
  <2> HIDE DEF n
  <2>4. /\ replay' \in [Replay -> [at : ReplayAt, variant : {"baseline", "mcg"}, start : Nat]]
        /\ replay'[r].at = "run" /\ \A x \in Replay \ {r} : replay'[x] = replay[x]
    BY <2>2, <2>3 DEF ReplayInv, ReplayTypes, ReplayAt
  <2>5. Begun' \subseteq Begun \cup {r} /\ LeftOut' = LeftOut /\ Saved' = Saved
    BY <2>3, <2>4 DEF Begun, LeftOut, Saved
  <2>6. ReplayTypes'
    BY <2>3, <2>4, <2>5, OneMore DEF ReplayInv, ReplayTypes
  <2> QED
    BY <2>3, <2>4, <2>5, <2>6 DEF ReplayInv
<1>3. CASE Replaying!EndRun(r)
  <2>1. replay[r].at = "run" /\ Replaying!Goto(r, "result") /\ UNCHANGED <<results, recorded, told, replayingCrashes>>
    BY <1>3 DEF Replaying!EndRun
  <2>2. /\ replay' \in [Replay -> [at : ReplayAt, variant : {"baseline", "mcg"}, start : Nat]]
        /\ replay'[r].at = "result" /\ (\A x \in Replay \ {r} : replay'[x] = replay[x])
        /\ IsFiniteSet(Begun')
    BY <2>1, GotoPlace DEF ReplayAt
  <2>3. LeftOut' = LeftOut /\ Saved' = Saved
    BY <2>1, <2>2 DEF LeftOut, Saved
  <2> QED
    BY <2>1, <2>2, <2>3 DEF ReplayInv, ReplayTypes
<1>4. CASE Replaying!Crash(r)
  <2>1. /\ replay[r].at \notin {"idle", "done"} /\ replayingCrashes' = replayingCrashes + 1
        /\ Replaying!Goto(r, "done") /\ UNCHANGED <<results, recorded, told>>
    BY <1>4 DEF Replaying!Crash
  <2>2. /\ replay' \in [Replay -> [at : ReplayAt, variant : {"baseline", "mcg"}, start : Nat]]
        /\ replay'[r].at = "done" /\ (\A x \in Replay \ {r} : replay'[x] = replay[x])
        /\ IsFiniteSet(Begun')
    BY <2>1, GotoPlace DEF ReplayAt
  <2>3. LeftOut' \subseteq LeftOut \cup {r} /\ Saved' = Saved
    BY <2>1, <2>2 DEF LeftOut, Saved
  <2>4. Cardinality(LeftOut') <= replayingCrashes' /\ replayingCrashes' \in Nat
    <3>1. Cardinality(LeftOut') <= Cardinality(LeftOut) + 1 /\ Cardinality(LeftOut') \in Nat /\ Cardinality(LeftOut) \in Nat
      BY <2>3, LeftOutFinite, OneMore
    <3> QED
      BY <2>1, <3>1 DEF ReplayInv, ReplayTypes
  <2>5. Cardinality(LeftOut)' <= replayingCrashes'
    BY <2>4 DEF LeftOut, Saved
  <2> QED
    BY <2>1, <2>2, <2>3, <2>5, <2>4 DEF ReplayInv, ReplayTypes
<1>5. CASE Replaying!Save(r)
  <2>1. CASE replay[r].at = "result" /\ results' = Append(results, r) /\ Replaying!Goto(r, "history")
               /\ UNCHANGED <<recorded, told, replayingCrashes>>
    <3>1. /\ replay' \in [Replay -> [at : ReplayAt, variant : {"baseline", "mcg"}, start : Nat]]
          /\ replay'[r].at = "history" /\ (\A x \in Replay \ {r} : replay'[x] = replay[x])
          /\ IsFiniteSet(Begun')
      BY <2>1, GotoPlace DEF ReplayAt
    <3>2. results' \in Seq(Replay) /\ Saved' = Saved \cup {r}
      <4>1. results \in Seq(Replay)
        BY DEF ReplayInv, ReplayTypes
      <4> QED
        BY <2>1, <4>1 DEF Saved
    <3>3. LeftOut' = LeftOut
      BY <2>1, <3>1, <3>2 DEF LeftOut
    <3> QED
      BY <2>1, <3>1, <3>2, <3>3 DEF ReplayInv, ReplayTypes
  <2>2. CASE replay[r].at = "history" /\ recorded' = recorded \cup {r} /\ Replaying!Goto(r, "telemetry")
               /\ UNCHANGED <<results, told, replayingCrashes>>
    <3>1. /\ replay' \in [Replay -> [at : ReplayAt, variant : {"baseline", "mcg"}, start : Nat]]
          /\ replay'[r].at = "telemetry" /\ (\A x \in Replay \ {r} : replay'[x] = replay[x])
          /\ IsFiniteSet(Begun')
      BY <2>2, GotoPlace DEF ReplayAt
    <3>2. Saved' = Saved
      BY <2>2 DEF Saved
    <3>3. LeftOut' = LeftOut
      BY <2>2, <3>1, <3>2 DEF LeftOut
    <3> QED
      BY <2>2, <3>1, <3>2, <3>3 DEF ReplayInv, ReplayTypes
  <2>3. CASE replay[r].at = "telemetry" /\ told' = told \cup {r} /\ Replaying!Goto(r, "done")
               /\ UNCHANGED <<results, recorded, replayingCrashes>>
    <3>1. /\ replay' \in [Replay -> [at : ReplayAt, variant : {"baseline", "mcg"}, start : Nat]]
          /\ replay'[r].at = "done" /\ (\A x \in Replay \ {r} : replay'[x] = replay[x])
          /\ IsFiniteSet(Begun')
      BY <2>3, GotoPlace DEF ReplayAt
    <3>2. Saved' = Saved
      BY <2>3 DEF Saved
    <3>3. LeftOut' = LeftOut
      BY <2>3, <3>1, <3>2 DEF LeftOut
    <3> QED
      BY <2>3, <3>1, <3>2, <3>3 DEF ReplayInv, ReplayTypes
  <2> QED
    BY <1>5, <2>1, <2>2, <2>3 DEF Replaying!Save
<1> QED
  BY <1>1, <1>2, <1>3, <1>4, <1>5

LEMMA ReplayTrue == ReplayInv => Replaying!RecordsFollowResults
<1> SUFFICES ASSUME ReplayInv PROVE Replaying!RecordsFollowResults
  OBVIOUS
<1>1. Replaying!Range(results) = Saved
  BY DEF Replaying!Range, Saved
<1>2. Saved \ told \subseteq LeftOut \cup Saving
  <2>1. \A r \in Saved : r \in Replay
    BY DEF ReplayInv, ReplayTypes, Saved
  <2>2. \A r \in Replay : replay[r].at \in ReplayAt
    BY DEF ReplayInv, ReplayTypes
  <2> QED
    BY <2>1, <2>2 DEF ReplayInv, LeftOut, Saving, ReplayAt
<1>3. Cardinality(Saved \ told) <= replayingCrashes + Cardinality(Saving)
  <2>1. /\ Cardinality(Saved \ told) <= Cardinality(LeftOut) + Cardinality(Saving)
        /\ Cardinality(Saved \ told) \in Nat /\ Cardinality(LeftOut) \in Nat /\ Cardinality(Saving) \in Nat
    BY <1>2, LeftOutFinite, Together
  <2> QED
    BY <2>1 DEF ReplayInv, ReplayTypes
<1>4. /\ Replaying!Cardinality(Saved \ told) = Cardinality(Saved \ told)
      /\ Replaying!Cardinality({r \in Replay : replay[r].at \in {"history", "telemetry"}}) = Cardinality(Saving)
  BY DEF Replaying!Cardinality, Cardinality, Saving
<1>5. told \subseteq recorded /\ recorded \subseteq Saved
  BY DEF ReplayInv, ReplayTypes
<1> QED
  BY <1>1, <1>3, <1>4, <1>5 DEF Replaying!RecordsFollowResults

LEMMA ReplayAllKept == ReplayInv /\ [Next]_vars => ReplayInv'
<1> SUFFICES ASSUME ReplayInv, [Next]_vars PROVE ReplayInv'
  OBVIOUS
<1>1. Replaying!Next \/ UNCHANGED replayingVars
  BY DEF Next, vars
<1>2. CASE UNCHANGED replayingVars
  <2>1. UNCHANGED <<replay, results, recorded, told, replayingCrashes>>
    BY <1>2 DEF replayingVars
  <2>2. Begun' = Begun /\ Saved' = Saved /\ LeftOut' = LeftOut
    BY <2>1 DEF Begun, Saved, LeftOut
  <2> QED
    BY <2>1, <2>2 DEF ReplayInv, ReplayTypes
<1> QED
  BY <1>1, <1>2, ReplayKept

\* For any files, suites and replays, whichever calls overlap and processes die: an alert that is written is in the inbox,
\* on its way there or in the hands of the dead, and about one subject there is at most one for each call; the history
\* tells of no evaluation without its file, and the telemetry of no replay without its result, and they miss at most what
\* is being saved and one for each crash (telemetry.mjs, evals.mjs, replay.mjs).
THEOREM FilesAlwaysFollow == Spec => []FilesFollowOneAnother
<1> DEFINE All == LogInv /\ EvalInv /\ ReplayInv
<1>1. Init => All
  BY LogInit, EvalInit, ReplayInit
<1>2. All /\ [Next]_vars => All'
  BY LogKept, EvalKept, ReplayAllKept
<1>3. All => FilesFollowOneAnother
  BY LogTrue, EvalTrue, ReplayTrue DEF FilesFollowOneAnother
<1> HIDE DEF All
<1> QED
  BY <1>1, <1>2, <1>3, PTL DEF Spec

-----------------------------------------------------------------------------
(* Packets: what was stored, a call has read or missed. *)

IsCacheCall(c) == c = [at |-> c.at, read |-> c.read, contents |-> c.contents, missed |-> c.missed]
SeenOrMissed(c, text) == c.at # "idle" => text \subseteq c.read \cup c.missed
IsTrueCall(c, text) == IsCacheCall(c) /\ c.at \in {"idle", "write", "fill", "over"} /\ SeenOrMissed(c, text)

CacheInv ==
  /\ packetsCall = [c \in Call |-> packetsCall[c]]
  /\ \A c \in Call : IsTrueCall(packetsCall[c], stored)
  /\ cache = stored \/ spoilt \/ \E c \in Call : packetsCall[c].at = "fill"

\* Who stores keeps what was stored, but for what it has missed.
Keeping == \A d \in Call : packetsCall[d].at # "idle" /\ packetsCall'[d].at = "idle" =>
                             stored \subseteq stored' \cup packetsCall[d].missed

LEMMA IdleIsTrue == ASSUME NEW text PROVE IsTrueCall(Packets!Idle, text)
BY DEF Packets!Idle, IsTrueCall, IsCacheCall, SeenOrMissed

LEMMA CacheInit == Init => CacheInv
<1> SUFFICES ASSUME Init PROVE CacheInv
  OBVIOUS
<1>1. packetsCall = [c \in Call |-> Packets!Idle] /\ cache = stored
  BY DEF Init, Packets!Init
<1>4. ASSUME NEW c \in Call PROVE IsTrueCall(packetsCall[c], stored)
  <2>1. packetsCall[c] = Packets!Idle
    BY <1>1
  <2>2. IsTrueCall(Packets!Idle, stored)
    BY IdleIsTrue
  <2> QED
    BY <2>1, <2>2, Zenon
<1> QED
  BY <1>1, <1>4 DEF CacheInv

LEMMA PacketsStep == [Next]_vars => [Packets!Next]_(Packets!vars)
BY DEF Next, vars, packetsVars, Packets!vars

LEMMA CacheOpened ==
  ASSUME CacheInv, NEW c \in Call, Packets!OpenCache(c)
  PROVE  CacheInv' /\ Keeping
<1>1. /\ packetsCall[c].at = "write" /\ stored' = stored
      /\ packetsCall' = [d \in Call |-> IF d = c \/ packetsCall[d].at = "over" THEN [packetsCall[d] EXCEPT !.at = "fill"]
                                        ELSE packetsCall[d]]
  BY DEF Packets!OpenCache
<1>2. ASSUME NEW d \in Call, d = c \/ packetsCall[d].at = "over"
      PROVE  IsTrueCall(packetsCall'[d], stored) /\ packetsCall'[d].at = "fill"
  <2> DEFINE call == packetsCall[d]
  <2>1. packetsCall'[d] = [call EXCEPT !.at = "fill"]
    BY <1>1, <1>2
  <2>2. call.at # "idle" /\ stored \subseteq call.read \cup call.missed
    BY <1>1, <1>2 DEF CacheInv, IsTrueCall, SeenOrMissed
  <2> DEFINE a == call.at  r == call.read  k == call.contents  m == call.missed
             later == [at |-> "fill", read |-> r, contents |-> k, missed |-> m]
  <2>3. call = [at |-> a, read |-> r, contents |-> k, missed |-> m]
    BY DEF CacheInv, IsTrueCall, IsCacheCall
  <2>4. IsTrueCall(later, stored) /\ later.at = "fill"
    BY <2>2 DEF IsTrueCall, IsCacheCall, SeenOrMissed
  <2> HIDE DEF call, a, r, k, m
  <2>5. [call EXCEPT !.at = "fill"] = later
    BY <2>3
  <2> HIDE DEF later
  <2>6. packetsCall'[d] = later
    BY <2>1, <2>5
  <2> QED
    BY <2>4, <2>6, Zenon DEF IsTrueCall, IsCacheCall, SeenOrMissed
<1>3. ASSUME NEW d \in Call, ~ (d = c \/ packetsCall[d].at = "over")
      PROVE  packetsCall'[d] = packetsCall[d]
  BY <1>1, <1>3
<1>4. \A d \in Call : IsTrueCall(packetsCall'[d], stored')
  BY <1>1, <1>2, <1>3, Zenon DEF CacheInv
<1>5. Keeping
  BY <1>1 DEF Keeping
<1> QED
  BY <1>1, <1>2, <1>4, <1>5, Zenon DEF CacheInv

LEMMA CacheWritten ==
  ASSUME CacheInv, NEW c \in Call, Packets!CacheContext(c)
  PROVE  CacheInv' /\ Keeping
<1> DEFINE new == packetsCall[c].read \cup packetsCall[c].contents
<1>1. /\ packetsCall[c].at # "idle" /\ stored' = new /\ (cache' = stored' \/ spoilt')
      /\ packetsCall' = [d \in Call |-> IF d = c \/ packetsCall[d].at = "idle" THEN Packets!Idle
                                        ELSE [packetsCall[d] EXCEPT !.at = IF @ = "fill" THEN "over" ELSE @, !.missed = @ \cup new]]
  BY DEF Packets!CacheContext, Packets!Store, Packets!Beside
<1> HIDE DEF new
<1>2. ASSUME NEW d \in Call, d # c, packetsCall[d].at # "idle"
      PROVE  IsTrueCall(packetsCall'[d], new) /\ packetsCall'[d].at # "idle"
  <2> DEFINE call == packetsCall[d]
  <2>1. packetsCall'[d] = [call EXCEPT !.at = IF @ = "fill" THEN "over" ELSE @, !.missed = @ \cup new]
    BY <1>1, <1>2
  <2>2. call.at \in {"write", "fill", "over"}
    BY <1>2 DEF CacheInv, IsTrueCall
  <2> DEFINE a == call.at  r == call.read  k == call.contents  m == call.missed
             later == [at |-> IF a = "fill" THEN "over" ELSE a, read |-> r, contents |-> k, missed |-> m \cup new]
  <2>3. call = [at |-> a, read |-> r, contents |-> k, missed |-> m]
    BY DEF CacheInv, IsTrueCall, IsCacheCall
  <2>4. IsTrueCall(later, new) /\ later.at # "idle"
    BY <2>2 DEF IsTrueCall, IsCacheCall, SeenOrMissed
  <2> HIDE DEF call, a, r, k, m
  <2>5. call.at = a /\ call.missed = m
    BY DEF a, m
  <2> DEFINE w == IF a = "fill" THEN "over" ELSE a
  <2>6. [call EXCEPT !.at = IF @ = "fill" THEN "over" ELSE @, !.missed = @ \cup new] =
          [call EXCEPT !.at = w, !.missed = m \cup new]
    BY <2>5, Zenon
  <2> HIDE DEF w
  <2>7. [call EXCEPT !.at = w, !.missed = m \cup new] = [at |-> w, read |-> r, contents |-> k, missed |-> m \cup new]
    <3> DEFINE mid == [at |-> w, read |-> r, contents |-> k, missed |-> m]
    <3>1. [call EXCEPT !.at = w] = mid
      BY <2>3
    <3>2. [mid EXCEPT !.missed = m \cup new] = [at |-> w, read |-> r, contents |-> k, missed |-> m \cup new]
      OBVIOUS
    <3> HIDE DEF mid
    <3> QED
      BY <3>1, <3>2, Zenon
  <2>8. later = [at |-> w, read |-> r, contents |-> k, missed |-> m \cup new]
    BY DEF w
  <2> HIDE DEF later
  <2>9. packetsCall'[d] = later
    BY <2>1, <2>6, <2>7, <2>8, Zenon
  <2> QED
    BY <2>4, <2>9, Zenon DEF IsTrueCall, IsCacheCall, SeenOrMissed
<1>3. ASSUME NEW d \in Call, d = c \/ packetsCall[d].at = "idle"
      PROVE  packetsCall'[d] = Packets!Idle
  BY <1>1, <1>3
<1>4. \A d \in Call : IsTrueCall(packetsCall'[d], stored')
  BY <1>1, <1>2, <1>3, IdleIsTrue, Zenon
<1>5. stored \subseteq packetsCall[c].read \cup packetsCall[c].missed
  BY <1>1 DEF CacheInv, IsTrueCall, SeenOrMissed
<1>6. stored \subseteq stored' \cup packetsCall[c].missed
  BY <1>1, <1>5 DEF new
<1>7. Keeping
  BY <1>2, <1>6, Zenon DEF Keeping
<1>8. packetsCall' = [d \in Call |-> packetsCall'[d]]
  BY <1>1
<1> QED
  BY <1>1, <1>4, <1>7, <1>8, Zenon DEF CacheInv

LEMMA CacheLeft ==
  ASSUME CacheInv, NEW c \in Call, Packets!Die(c)
  PROVE  CacheInv' /\ Keeping
<1>1. /\ packetsCall' = [packetsCall EXCEPT ![c] = Packets!Idle] /\ stored' = stored /\ cache' = cache
      /\ spoilt' = (spoilt \/ packetsCall[c].at = "fill")
  BY DEF Packets!Die
<1>2. packetsCall'[c] = Packets!Idle /\ (\A d \in Call \ {c} : packetsCall'[d] = packetsCall[d])
      /\ packetsCall' = [d \in Call |-> packetsCall'[d]]
  BY <1>1 DEF CacheInv
<1>3. \A d \in Call : IsTrueCall(packetsCall'[d], stored')
  BY <1>1, <1>2, IdleIsTrue, Zenon DEF CacheInv
<1>4. cache' = stored' \/ spoilt' \/ \E d \in Call : packetsCall'[d].at = "fill"
  <2>1. CASE packetsCall[c].at = "fill" \/ spoilt \/ cache = stored
    BY <1>1, <2>1, Zenon
  <2>2. ASSUME NEW d \in Call, packetsCall[d].at = "fill", packetsCall[c].at # "fill"
        PROVE  packetsCall'[d].at = "fill"
    BY <1>2, <2>2
  <2> QED
    BY <2>1, <2>2, Zenon DEF CacheInv
<1>5. Keeping
  BY <1>1 DEF Keeping
<1> QED
  BY <1>2, <1>3, <1>4, <1>5, Zenon DEF CacheInv

LEMMA CacheRead ==
  ASSUME CacheInv, NEW c \in Call, Packets!Compile(c)
  PROVE  CacheInv' /\ Keeping
<1>1. PICK contents : packetsCall' = [packetsCall EXCEPT ![c] = [at |-> "write", read |-> cache, contents |-> contents,
                                                                missed |-> stored \ cache]]
  BY DEF Packets!Compile
<1>2. cache' = cache /\ stored' = stored /\ spoilt' = spoilt /\ packetsCall[c].at = "idle"
  BY DEF Packets!Compile
<1> DEFINE call == [at |-> "write", read |-> cache, contents |-> contents, missed |-> stored \ cache]
<1>3. IsTrueCall(call, stored) /\ call.at = "write"
  BY DEF IsTrueCall, IsCacheCall, SeenOrMissed
<1>4. packetsCall'[c] = call /\ (\A d \in Call \ {c} : packetsCall'[d] = packetsCall[d])
      /\ packetsCall' = [d \in Call |-> packetsCall'[d]]
  BY <1>1 DEF CacheInv
<1> HIDE DEF call
<1>5. \A d \in Call : IsTrueCall(packetsCall'[d], stored')
  BY <1>2, <1>3, <1>4, Zenon DEF CacheInv
<1>6. ASSUME NEW d \in Call, packetsCall[d].at = "fill" PROVE packetsCall'[d].at = "fill"
  BY <1>2, <1>4, <1>6
<1>7. cache' = stored' \/ spoilt' \/ \E d \in Call : packetsCall'[d].at = "fill"
  BY <1>2, <1>6, Zenon DEF CacheInv
<1>8. Keeping
  BY <1>2 DEF Keeping
<1> QED
  BY <1>4, <1>5, <1>7, <1>8, Zenon DEF CacheInv

LEMMA CacheKept ==
  ASSUME CacheInv, [Next]_vars
  PROVE  CacheInv' /\ Keeping
<1>1. CASE UNCHANGED <<packetsCall, cache, stored, spoilt>>
  BY <1>1 DEF CacheInv, IsTrueCall, IsCacheCall, SeenOrMissed, Keeping
<1>2. ASSUME NEW f, Packets!Offer(f) \/ Packets!Withdraw(f) PROVE UNCHANGED <<packetsCall, cache, stored, spoilt>>
  BY <1>2 DEF Packets!Offer, Packets!Withdraw
<1>3. UNCHANGED Packets!vars => UNCHANGED <<packetsCall, cache, stored, spoilt>>
  BY DEF Packets!vars
<1> QED
  BY <1>1, <1>2, <1>3, PacketsStep, CacheRead, CacheOpened, CacheWritten, CacheLeft DEF Packets!Next

LEMMA CacheLostInARace == CacheInv /\ [Next]_vars =>
  [/\ cache = stored \/ spoilt \/ \E c \in Call : packetsCall[c].at = "fill"
   /\ \A c \in Call : packetsCall[c].at # "idle" /\ packetsCall'[c].at = "idle" =>
                        stored \subseteq stored' \cup packetsCall[c].missed]_(Packets!vars)
BY CacheKept, Zenon DEF CacheInv, Keeping

-----------------------------------------------------------------------------
(* Replays: what is compared is the latest, and stays saved. *)

StartsBounded == \E n \in Nat : \A r \in Replay : replay[r].start \in 0..n

LEMMA StartsInit == Init => StartsBounded
<1> SUFFICES ASSUME Init PROVE \A r \in Replay : replay[r].start \in 0..0
  BY DEF StartsBounded
<1> QED
  BY DEF Init, Replaying!Init

LEMMA Latest ==
  ASSUME NEW n \in Nat, NEW f, NEW T, T # {}, \A x \in T : f[x].start \in 0..n
  PROVE  \E r \in T : \A x \in T : f[x].start <= f[r].start
<1> DEFINE S == {f[x].start + 1 : x \in T}
<1>1. S \in SUBSET (1..n + 1) /\ S # {} /\ n + 1 \in Nat
  OBVIOUS
<1>2. PICK m \in S : \A k \in S : k <= m
  <2> HIDE DEF S
  <2> QED
    BY <1>1, Maximum
<1>3. PICK r \in T : m = f[r].start + 1
  BY <1>2
<1>4. ASSUME NEW x \in T PROVE f[x].start <= f[r].start
  <2>1. f[x].start + 1 \in S
    OBVIOUS
  <2>2. f[x].start + 1 <= f[r].start + 1 /\ f[x].start \in Nat /\ f[r].start \in Nat
    BY <1>2, <1>3, <2>1
  <2> QED
    BY <2>2
<1> QED
  BY <1>4

\* What is saved stays as it is, and nothing but the place of what is being saved changes.
LEMMA SavedStays ==
  ASSUME ReplayInv, [Next]_vars
  PROVE  Saved \subseteq Saved' /\ \A x \in Saved' : x \in Replay /\ replay'[x].variant = replay[x].variant /\ replay'[x].start = replay[x].start
<1>1. /\ replay \in [Replay -> [at : ReplayAt, variant : {"baseline", "mcg"}, start : Nat]]
      /\ results \in Seq(Replay) /\ Saved \subseteq Replay
      /\ \A r \in Replay : replay[r].at = "idle" => r \notin Saved
  BY DEF ReplayInv, ReplayTypes, Saved
<1>2. ASSUME NEW r \in Replay, NEW there, Replaying!Goto(r, there), results' = results \/ results' = Append(results, r)
      PROVE  Saved \subseteq Saved' /\ \A x \in Saved' : x \in Replay /\ replay'[x].variant = replay[x].variant /\ replay'[x].start = replay[x].start
  <2>1. \A x \in Replay : replay'[x].variant = replay[x].variant /\ replay'[x].start = replay[x].start
    <3>1. replay' = [replay EXCEPT ![r].at = there]
      BY <1>2 DEF Replaying!Goto
    <3> QED
      BY <1>1, <3>1
  <2>2. Saved \subseteq Saved' /\ Saved' \subseteq Saved \cup {r}
    <3>1. CASE results' = results
      BY <3>1 DEF Saved
    <3>2. CASE results' = Append(results, r)
      <4>1. /\ DOMAIN results' = 1..Len(results) + 1 /\ DOMAIN results = 1..Len(results) /\ Len(results) \in Nat
            /\ results'[Len(results) + 1] = r /\ \A i \in DOMAIN results : results'[i] = results[i]
        BY <1>1, <3>2
      <4> QED
        BY <4>1 DEF Saved
    <3> QED
      BY <1>2, <3>1, <3>2
  <2> QED
    BY <1>1, <2>1, <2>2
<1>3. ASSUME NEW r \in Replay, NEW variant, Replaying!replayTask(r, variant)
      PROVE  Saved' = Saved /\ \A x \in Saved : replay'[x] = replay[x]
  <2>1. /\ results' = results /\ r \notin Saved
        /\ \A x \in Replay \ {r} : replay'[x] = replay[x]
    BY <1>1, <1>3 DEF Replaying!replayTask
  <2> QED
    BY <1>1, <2>1 DEF Saved
<1>4. CASE UNCHANGED replayingVars
  BY <1>1, <1>4 DEF replayingVars, Saved
<1>5. CASE Replaying!Next
  <2>1. PICK r \in Replay : \/ Replaying!EndRun(r) \/ Replaying!Save(r) \/ Replaying!Crash(r)
                            \/ \E variant \in {"baseline", "mcg"} : Replaying!replayTask(r, variant)
    BY <1>5 DEF Replaying!Next
  <2>2. CASE Replaying!EndRun(r) \/ Replaying!Save(r) \/ Replaying!Crash(r)
    <3>1. \E there : Replaying!Goto(r, there) /\ (results' = results \/ results' = Append(results, r))
      BY <2>2 DEF Replaying!EndRun, Replaying!Save, Replaying!Crash
    <3> QED
      BY <1>2, <3>1
  <2>3. CASE \E variant \in {"baseline", "mcg"} : Replaying!replayTask(r, variant)
    BY <1>1, <1>3, <2>3
  <2> QED
    BY <2>1, <2>2, <2>3
<1> QED
  BY <1>4, <1>5 DEF Next, vars

LEMMA StartsKept == ReplayInv /\ StartsBounded /\ [Next]_vars => StartsBounded'
<1> SUFFICES ASSUME ReplayInv, StartsBounded, [Next]_vars PROVE StartsBounded'
  OBVIOUS
<1>1. PICK n \in Nat : \A r \in Replay : replay[r].start \in 0..n
  BY DEF StartsBounded
<1>2. replay \in [Replay -> [at : ReplayAt, variant : {"baseline", "mcg"}, start : Nat]]
  BY DEF ReplayInv, ReplayTypes
<1>3. ASSUME NEW r \in Replay, NEW there, Replaying!Goto(r, there) PROVE StartsBounded'
  <2>1. \A x \in Replay : replay'[x].start \in 0..n
    BY <1>1, <1>2, <1>3 DEF Replaying!Goto
  <2> QED
    BY <2>1 DEF StartsBounded
<1>4. ASSUME NEW r \in Replay, NEW variant, Replaying!replayTask(r, variant) PROVE StartsBounded'
  <2> DEFINE begun == Replaying!Cardinality({x \in Replay : replay[x].at # "idle"})
  <2>1. begun \in Nat
    <3>1. begun = Cardinality(Begun)
      BY DEF Replaying!Cardinality, Cardinality, Begun
    <3> QED
      BY <3>1, FS_CardinalityType DEF ReplayInv, ReplayTypes
  <2>2. replay' = [replay EXCEPT ![r].at = "run", ![r].variant = variant, ![r].start = 1 + begun]
    BY <1>4 DEF Replaying!replayTask
  <2> HIDE DEF begun
  <2>3. \A x \in Replay : replay'[x].start \in 0..(n + 1 + begun)
    BY <1>1, <1>2, <2>1, <2>2
  <2>4. n + 1 + begun \in Nat
    BY <2>1
  <2> QED
    BY <2>3, <2>4 DEF StartsBounded
<1>5. CASE UNCHANGED replayingVars
  BY <1>1, <1>5 DEF replayingVars, StartsBounded
<1>6. CASE Replaying!Next
  <2>1. PICK r \in Replay : \/ Replaying!EndRun(r) \/ Replaying!Save(r) \/ Replaying!Crash(r)
                            \/ \E variant \in {"baseline", "mcg"} : Replaying!replayTask(r, variant)
    BY <1>6 DEF Replaying!Next
  <2>2. CASE Replaying!EndRun(r) \/ Replaying!Save(r) \/ Replaying!Crash(r)
    <3>1. \E there : Replaying!Goto(r, there)
      BY <2>2 DEF Replaying!EndRun, Replaying!Save, Replaying!Crash
    <3> QED
      BY <1>3, <3>1
  <2> QED
    BY <1>4, <2>1, <2>2
<1> QED
  BY <1>5, <1>6 DEF Next, vars

\* The newest replay of a variant was saved before, or began no earlier than the newest was.
LEMMA NewestMovesOn ==
  ASSUME ReplayInv, StartsBounded, StartsBounded', [Next]_vars, NEW variant, Replaying!Saved(variant) # {}
  PROVE  Replaying!Saved(variant)' # {} /\ replay[Replaying!Newest(variant)'].start >= replay[Replaying!Newest(variant)].start
<1> DEFINE before == Replaying!Saved(variant)
           after == Replaying!Saved(variant)'
           old == Replaying!Newest(variant)
           new == Replaying!Newest(variant)'
<1>1. before = {x \in Saved : replay[x].variant = variant} /\ after = {x \in Saved' : replay'[x].variant = variant}
  BY DEF Replaying!Saved, Replaying!Range, Saved
<1>2. /\ before \subseteq after /\ before \subseteq Replay /\ after \subseteq Replay
      /\ \A x \in after : replay'[x].start = replay[x].start
  BY <1>1, SavedStays
<1>3. old = CHOOSE r \in before : \A x \in before : replay[x].start <= replay[r].start
  BY DEF Replaying!Newest
<1>4. new = CHOOSE r \in after : \A x \in after : replay'[x].start <= replay'[r].start
  BY DEF Replaying!Newest
<1> HIDE DEF before, after, old, new
<1>5. old \in before
  <2>1. PICK n \in Nat : \A r \in Replay : replay[r].start \in 0..n
    BY DEF StartsBounded
  <2>2. PICK f, T : f = replay /\ T = before
    OBVIOUS
  <2>3. T # {} /\ \A x \in T : f[x].start \in 0..n
    BY <1>2, <2>1, <2>2 DEF before
  <2>4. \E r \in before : \A x \in before : replay[x].start <= replay[r].start
    BY <2>2, <2>3, Latest
  <2> QED
    BY <1>3, <2>4
<1>6. new \in after /\ \A x \in after : replay'[x].start <= replay'[new].start
  <2>1. PICK n \in Nat : \A r \in Replay : replay'[r].start \in 0..n
    BY DEF StartsBounded
  <2>2. PICK f, T : f = replay' /\ T = after
    OBVIOUS
  <2>3. T # {} /\ \A x \in T : f[x].start \in 0..n
    BY <1>2, <1>5, <2>1, <2>2
  <2>4. \E r \in after : \A x \in after : replay'[x].start <= replay'[r].start
    BY <2>2, <2>3, Latest
  <2> QED
    BY <1>4, <2>4
<1>7. replay[old].start <= replay[new].start /\ replay[old].start \in Nat /\ replay[new].start \in Nat
  BY <1>2, <1>5, <1>6 DEF ReplayInv, ReplayTypes
<1>8. after # {} /\ replay[new].start >= replay[old].start
  BY <1>6, <1>7
<1> QED
  BY <1>8 DEF after, new, old

LEMMA ComparisonKept ==
  ASSUME ReplayInv, StartsBounded, StartsBounded', [Next]_vars, Replaying!compareReplay.status = "COMPARED"
  PROVE  /\ Replaying!compareReplay'.status = "COMPARED"
         /\ replay[Replaying!compareReplay'.baseline].start >= replay[Replaying!compareReplay.baseline].start
         /\ replay[Replaying!compareReplay'.mcg].start >= replay[Replaying!compareReplay.mcg].start
<1>1. Replaying!Saved("baseline") # {} /\ Replaying!Saved("mcg") # {}
  BY DEF Replaying!compareReplay
<1>2. \A variant \in {"baseline", "mcg"} :
        Replaying!Saved(variant)' # {} /\ replay[Replaying!Newest(variant)'].start >= replay[Replaying!Newest(variant)].start
  BY <1>1, NewestMovesOn
<1>3. /\ Replaying!compareReplay = [status |-> "COMPARED", baseline |-> Replaying!Newest("baseline"), mcg |-> Replaying!Newest("mcg")]
      /\ Replaying!compareReplay' = [status |-> "COMPARED", baseline |-> Replaying!Newest("baseline")', mcg |-> Replaying!Newest("mcg")']
  BY <1>1, <1>2 DEF Replaying!compareReplay
<1> QED
  BY <1>2, <1>3

-----------------------------------------------------------------------------
(* Memory: what a call appends moves on what it has read. *)

\* The events move the records of the log on, but for what is remembered anew, and that comes last.
MovesFrom(l, events) ==
  \A i \in DOMAIN events : LET memory == events[i].memory IN
    memory.id \in Memory!Known(l) /\ events[i].action # "CREATED"
      => Memory!MovesOn(Memory!Current(l, memory.id).status, memory.status)
Distinct(events) ==
  \A i, j \in DOMAIN events : i < j /\ events[j].action # "CREATED" => events[i].memory.id # events[j].memory.id

\* A call moves on what it has read, as long as it is the last to have read the log.
RaceInv ==
  /\ read \in [Call -> Nat]
  /\ \A c \in Call : /\ read[c] <= Len(log) /\ Distinct(memoryCall[c])
                     /\ read[c] = Len(log) => MovesFrom(log, memoryCall[c])

LEMMA RaceInit == Init => RaceInv
BY DEF Init, Memory!Init, RaceInv, Distinct, MovesFrom

\* An event that is appended becomes the record of its memory, and leaves the others.
LEMMA CurrentAppended ==
  ASSUME NEW l \in Seq(MemoryEvents), NEW e \in MemoryEvents, NEW id
  PROVE  /\ Memory!Known(Append(l, e)) = Memory!Known(l) \cup {e.memory.id}
         /\ e.memory.id = id => Memory!Current(Append(l, e), id) = e.memory
         /\ e.memory.id # id /\ id \in Memory!Known(l) => Memory!Current(Append(l, e), id) = Memory!Current(l, id)
<1> DEFINE more == Append(l, e)
           n == Len(l)
           last(s, i) == i \in DOMAIN s /\ s[i].memory.id = id /\ \A j \in DOMAIN s : s[j].memory.id = id => j <= i
<1>1. /\ n \in Nat /\ DOMAIN l = 1..n /\ DOMAIN more = 1..n + 1 /\ more[n + 1] = e
      /\ \A i \in 1..n : more[i] = l[i]
  OBVIOUS
<1> HIDE DEF n, more
<1>2. Memory!Known(more) = Memory!Known(l) \cup {e.memory.id}
  BY <1>1 DEF Memory!Known
<1>3. \A s, i, j : last(s, i) /\ last(s, j) /\ i \in Nat /\ j \in Nat => i = j
  OBVIOUS
<1>4. ASSUME NEW s, NEW i \in Nat, last(s, i), DOMAIN s \subseteq Nat PROVE Memory!Current(s, id) = s[i].memory
  <2> DEFINE k == CHOOSE k \in DOMAIN s : s[k].memory.id = id /\ \A j \in DOMAIN s : s[j].memory.id = id => j <= k
  <2>1. last(s, k)
    BY <1>4
  <2>2. k = i
    <3>1. k \in Nat
      BY <1>4, <2>1
    <3> HIDE DEF k
    <3> QED
      BY <1>3, <1>4, <2>1, <3>1
  <2>3. Memory!Current(s, id) = s[k].memory
    BY DEF Memory!Current
  <2> HIDE DEF k
  <2> QED
    BY <2>2, <2>3
<1>5. ASSUME e.memory.id = id PROVE Memory!Current(more, id) = e.memory
  <2>1. last(more, n + 1) /\ n + 1 \in Nat /\ DOMAIN more \subseteq Nat
    BY <1>1, <1>5
  <2> HIDE DEF last
  <2> QED
    BY <1>1, <1>4, <2>1
<1>6. ASSUME e.memory.id # id, id \in Memory!Known(l) PROVE Memory!Current(more, id) = Memory!Current(l, id)
  <2> DEFINE S == {i \in 1..n : l[i].memory.id = id}
  <2>1. S \in SUBSET (1..n) /\ S # {}
    BY <1>1, <1>6 DEF Memory!Known
  <2>2. PICK m \in S : \A k \in S : k <= m
    <3> HIDE DEF S
    <3> QED
      BY <1>1, <2>1, Maximum
  <2>3. m \in Nat /\ last(l, m) /\ DOMAIN l \subseteq Nat
    BY <1>1, <2>2
  <2>4. last(more, m) /\ more[m] = l[m] /\ DOMAIN more \subseteq Nat
    BY <1>1, <1>6, <2>2
  <2> HIDE DEF last
  <2>5. Memory!Current(l, id) = l[m].memory
    BY <1>4, <2>3
  <2>6. Memory!Current(more, id) = more[m].memory
    BY <1>4, <2>3, <2>4
  <2> QED
    BY <2>4, <2>5, <2>6
<1> QED
  BY <1>2, <1>5, <1>6 DEF more

\* What a call appends moves on what it has read, unless others have appended since.
LEMMA RaceAppend ==
  ASSUME MemoryInv, RaceInv, NEW c \in Call, Memory!AppendMemoryEvent(c)
  PROVE  /\ RaceInv'
         /\ \A id \in Memory!Known(log) :
              \/ Memory!MovesOn(Memory!Current(log, id).status, Memory!Current(log', id).status)
              \/ memoryCall'[c] # memoryCall[c] /\ (read[c] < Len(log) \/ Head(memoryCall[c]).action = "CREATED")
<1> DEFINE events == memoryCall[c]
<1>1. /\ events \in Seq(MemoryEvents) /\ log \in Seq(MemoryEvents) /\ memoryCall \in [Call -> Seq(MemoryEvents)]
      /\ read \in [Call -> Nat]
  BY DEF MemoryInv, MemoryTypes, RaceInv
<1>2. /\ events # << >> /\ log' = Append(log, Head(events)) /\ memoryCall' = [memoryCall EXCEPT ![c] = Tail(events)]
      /\ read' = [read EXCEPT ![c] = read[c] + 1]
  BY <1>1 DEF Memory!AppendMemoryEvent
<1>3. PICK e : e = Head(events)
  OBVIOUS
<1>4. /\ e \in MemoryEvents /\ e = events[1] /\ 1 \in DOMAIN events /\ Len(log') = Len(log) + 1 /\ Len(log) \in Nat
      /\ \A i \in DOMAIN Tail(events) : i + 1 \in DOMAIN events /\ Tail(events)[i] = events[i + 1] /\ i \in Nat /\ i >= 1
      /\ Tail(events) # events
  <2>1. Len(Tail(events)) # Len(events)
    BY <1>1, <1>2
  <2> QED
    BY <1>1, <1>2, <1>3, <2>1
<1>5. /\ Memory!Known(log') = Memory!Known(log) \cup {e.memory.id}
      /\ Memory!Current(log', e.memory.id) = e.memory
      /\ \A id \in Memory!Known(log) \ {e.memory.id} : Memory!Current(log', id) = Memory!Current(log, id)
  <2>1. PICK l : l = log
    OBVIOUS
  <2> QED
    BY <1>1, <1>2, <1>3, <1>4, <2>1, CurrentAppended
<1>6. /\ memoryCall'[c] = Tail(events) /\ read'[c] = read[c] + 1 /\ read' \in [Call -> Nat]
      /\ \A d \in Call \ {c} : memoryCall'[d] = memoryCall[d] /\ read'[d] = read[d]
  BY <1>1, <1>2
<1>7. /\ read[c] <= Len(log) /\ Distinct(events) /\ read[c] \in Nat
      /\ read[c] = Len(log) => MovesFrom(log, events)
  BY <1>1 DEF RaceInv
<1> HIDE DEF events
<1>8. ASSUME read[c] = Len(log) PROVE MovesFrom(log', Tail(events))
  <2> SUFFICES ASSUME NEW i \in DOMAIN Tail(events), Tail(events)[i].memory.id \in Memory!Known(log'),
                      Tail(events)[i].action # "CREATED"
               PROVE  Memory!MovesOn(Memory!Current(log', Tail(events)[i].memory.id).status, Tail(events)[i].memory.status)
    BY DEF MovesFrom
  <2>1. i + 1 \in DOMAIN events /\ Tail(events)[i] = events[i + 1] /\ 1 < i + 1
    BY <1>4
  <2>2. events[i + 1].memory.id # e.memory.id
    BY <1>4, <1>7, <2>1 DEF Distinct
  <2>3. events[i + 1].memory.id \in Memory!Known(log)
    BY <1>5, <2>1, <2>2
  <2>4. Memory!MovesOn(Memory!Current(log, events[i + 1].memory.id).status, events[i + 1].memory.status)
    BY <1>7, <1>8, <2>1, <2>3 DEF MovesFrom
  <2> QED
    BY <1>5, <2>1, <2>2, <2>3, <2>4
<1>9. Distinct(Tail(events))
  BY <1>4, <1>7 DEF Distinct
<1>10. RaceInv'
  <2>1. ASSUME NEW d \in Call
        PROVE  /\ read'[d] <= Len(log') /\ Distinct(memoryCall'[d])
               /\ read'[d] = Len(log') => MovesFrom(log', memoryCall'[d])
    <3>1. CASE d = c
      <4>1. read'[c] <= Len(log') /\ (read'[c] = Len(log') => read[c] = Len(log))
        BY <1>4, <1>6, <1>7
      <4> QED
        BY <1>6, <1>8, <1>9, <3>1, <4>1
    <3>2. CASE d # c
      <4>1. read[d] \in Nat /\ read[d] <= Len(log) /\ Distinct(memoryCall[d])
        BY <1>1 DEF RaceInv
      <4> QED
        BY <1>4, <1>6, <3>2, <4>1
    <3> QED
      BY <3>1, <3>2
  <2> QED
    BY <1>6, <2>1 DEF RaceInv
<1>11. ASSUME NEW id \in Memory!Known(log), read[c] = Len(log), e.action # "CREATED"
       PROVE  Memory!MovesOn(Memory!Current(log, id).status, Memory!Current(log', id).status)
  <2>1. CASE id = e.memory.id
    BY <1>4, <1>5, <1>7, <1>11, <2>1 DEF MovesFrom
  <2>2. CASE id # e.memory.id
    BY <1>5, <2>2 DEF Memory!MovesOn
  <2> QED
    BY <2>1, <2>2
<1> QED
  BY <1>3, <1>4, <1>6, <1>7, <1>10, <1>11 DEF events
\* A call that reads the whole log moves it on.
LEMMA RaceBegun ==
  ASSUME MemoryInv, RaceInv, NEW c \in Call, NEW events \in Seq(MemoryEvents), Memory!Begin(c, events),
         Distinct(events), MovesFrom(log, events)
  PROVE  RaceInv' /\ log' = log
<1>1. memoryCall' = [memoryCall EXCEPT ![c] = events] /\ read' = [read EXCEPT ![c] = Len(log)] /\ log' = log
  BY DEF Memory!Begin
<1>2. Len(log) \in Nat /\ memoryCall \in [Call -> Seq(MemoryEvents)] /\ read \in [Call -> Nat]
  BY DEF MemoryInv, MemoryTypes, RaceInv
<1>3. /\ memoryCall'[c] = events /\ read'[c] = Len(log) /\ read' \in [Call -> Nat]
      /\ \A d \in Call \ {c} : memoryCall'[d] = memoryCall[d] /\ read'[d] = read[d]
  BY <1>1, <1>2
<1>4. ASSUME NEW d \in Call
      PROVE  /\ read'[d] <= Len(log') /\ Distinct(memoryCall'[d])
             /\ read'[d] = Len(log') => MovesFrom(log', memoryCall'[d])
  <2>1. CASE d = c
    BY <1>1, <1>2, <1>3, <2>1
  <2>2. CASE d # c
    BY <1>1, <1>3, <2>2 DEF RaceInv
  <2> QED
    BY <2>1, <2>2
<1> QED
  BY <1>1, <1>3, <1>4 DEF RaceInv

\* One event: a memory remembered anew, one the log does not know, or one it moves on.
LEMMA RaceOneEvent ==
  ASSUME MemoryInv, RaceInv, NEW c \in Call, NEW memory \in Records, NEW action \in Actions \ {"SUPERSEDED"},
         Memory!Begin(c, <<Memory!AppendEvent(action, memory)>>),
         memory.id \in Memory!Known(log) /\ action # "CREATED" => Memory!MovesOn(Memory!Current(log, memory.id).status, memory.status)
  PROVE  RaceInv' /\ log' = log
<1> DEFINE events == <<Memory!AppendEvent(action, memory)>>
<1>1. /\ events \in Seq(MemoryEvents) /\ DOMAIN events = {1} /\ events[1].memory = memory /\ events[1].action = action
      /\ Memory!Begin(c, events)
  BY NewEvent
<1> HIDE DEF events
<1>2. Distinct(events)
  BY <1>1 DEF Distinct
<1>3. MovesFrom(log, events)
  BY <1>1 DEF MovesFrom
<1> QED
  BY <1>1, <1>2, <1>3, RaceBegun

LEMMA RaceActions ==
  ASSUME MemoryInv, RaceInv, NEW c \in Call
  PROVE
    /\ Memory!Remember(c) => RaceInv' /\ log' = log
    /\ Memory!CreateHandoff(c) => RaceInv' /\ log' = log
    /\ Memory!ValidateMemory(c) => RaceInv' /\ log' = log
    /\ Memory!PromoteMemory(c) => RaceInv' /\ log' = log
    /\ Memory!ArchiveMemory(c) => RaceInv' /\ log' = log
<1>1. (\A id \in Memory!FreshId : id \in Id /\ id \notin Memory!Known(log))
      /\ {"CANDIDATE", "VALIDATED", "ACTIVE", "REJECTED", "ARCHIVED"} \subseteq Memory!Status
      /\ {"CREATED", "VALIDATED", "REJECTED", "ARCHIVED", "PROMOTED"} \subseteq Actions \ {"SUPERSEDED"}
      /\ Memory!Active("project", FALSE) \in Said /\ Memory!Active("company", TRUE) \in Said /\ Given \subseteq Said
  BY MemoryAssumption DEF Memory!FreshId, Memory!Status, Actions, Memory!Namespace, Memory!Active, Said
<1>2. ASSUME NEW id \in Id, NEW given \in Said,
             Memory!Begin(c, <<Memory!AppendEvent("CREATED", Memory!NormalizedRecord(id, given))>>)
      PROVE  RaceInv' /\ log' = log
  <2> DEFINE memory == Memory!NormalizedRecord(id, given)
  <2>1. memory \in Records /\ Memory!Begin(c, <<Memory!AppendEvent("CREATED", memory)>>)
    BY <1>2, NewRecord
  <2> HIDE DEF memory
  <2> QED
    BY <1>1, <2>1, RaceOneEvent
<1>4. ASSUME Memory!Remember(c) PROVE RaceInv' /\ log' = log
  <2>1. PICK id \in Id, given \in Given :
          Memory!Begin(c, <<Memory!AppendEvent("CREATED", Memory!NormalizedRecord(id, given))>>)
    BY <1>4 DEF Memory!Remember
  <2> QED
    BY <1>1, <1>2, <2>1
<1>5. ASSUME Memory!CreateHandoff(c) PROVE RaceInv' /\ log' = log
  <2>1. PICK id \in Memory!FreshId :
          Memory!Begin(c, <<Memory!AppendEvent("CREATED", Memory!NormalizedRecord(id, Memory!Active("project", FALSE)))>>)
    BY <1>5 DEF Memory!CreateHandoff
  <2> QED
    BY <1>1, <1>2, <2>1
<1>6. ASSUME Memory!ArchiveMemory(c) PROVE RaceInv' /\ log' = log
  <2>1. PICK id \in Memory!Known(log) :
          Memory!Begin(c, <<Memory!AppendEvent("ARCHIVED", Memory!With(Memory!Current(log, id), "ARCHIVED"))>>)
    BY <1>6 DEF Memory!ArchiveMemory
  <2> DEFINE old == Memory!Current(log, id)
             memory == Memory!With(old, "ARCHIVED")
  <2>2. old \in Records /\ old.id = id
    BY CurrentIsSound
  <2>3. Memory!Begin(c, <<Memory!AppendEvent("ARCHIVED", memory)>>)
    BY <2>1
  <2>4. memory \in Records /\ memory.id = id /\ memory.status = "ARCHIVED"
    <3> HIDE DEF old
    <3> QED
      BY <1>1, <2>2, NewStatus
  <2> HIDE DEF memory
  <2>5. Memory!MovesOn(Memory!Current(log, memory.id).status, memory.status)
    BY <2>4 DEF Memory!MovesOn
  <2> QED
    BY <1>1, <2>3, <2>4, <2>5, RaceOneEvent
<1>7. ASSUME Memory!ValidateMemory(c) PROVE RaceInv' /\ log' = log
  <2>1. PICK id \in Memory!Known(log), status \in {"VALIDATED", "REJECTED"} :
          /\ Memory!Current(log, id).status = "CANDIDATE"
          /\ Memory!Begin(c, <<Memory!AppendEvent(status, [Memory!With(Memory!Current(log, id), status) EXCEPT !.evidence = TRUE])>>)
    BY <1>7 DEF Memory!ValidateMemory
  <2> DEFINE old == Memory!Current(log, id)
             moved == Memory!With(old, status)
             memory == [moved EXCEPT !.evidence = TRUE]
  <2>2. old \in Records /\ old.id = id /\ old.status = "CANDIDATE"
    BY <2>1, CurrentIsSound
  <2>3. Memory!Begin(c, <<Memory!AppendEvent(status, memory)>>)
    BY <2>1
  <2>4. moved \in Records /\ moved.id = id /\ moved.status = status
    <3> HIDE DEF old
    <3> QED
      BY <1>1, <2>2, NewStatus
  <2> HIDE DEF moved
  <2>5. memory \in Records /\ memory.id = id /\ memory.status = status
    BY <2>4 DEF Records
  <2> HIDE DEF memory
  <2>6. Memory!MovesOn(Memory!Current(log, memory.id).status, memory.status)
    BY <2>2, <2>5 DEF Memory!MovesOn
  <2> QED
    BY <1>1, <2>3, <2>5, <2>6, RaceOneEvent
<1>8. ASSUME Memory!PromoteMemory(c) PROVE RaceInv' /\ log' = log
  <2>1. PICK id \in Memory!Known(log), copy \in Memory!FreshId :
          Memory!Begin(c, <<Memory!AppendEvent("PROMOTED", [Memory!NormalizedRecord(copy, Memory!Active("company", TRUE)) EXCEPT
                                                              !.from = id])>>)
    BY <1>8 DEF Memory!PromoteMemory
  <2> DEFINE new == Memory!NormalizedRecord(copy, Memory!Active("company", TRUE))
             memory == [new EXCEPT !.from = id]
  <2>2. new \in Records /\ new.id = copy /\ id \in Id
    BY <1>1, NewRecord, KnownIds
  <2>3. Memory!Begin(c, <<Memory!AppendEvent("PROMOTED", memory)>>)
    BY <2>1
  <2> HIDE DEF new
  <2>4. memory \in Records /\ memory.id = copy
    BY <2>2 DEF Records
  <2> HIDE DEF memory
  <2> QED
    BY <1>1, <2>3, <2>4, RaceOneEvent
<1> QED
  BY <1>4, <1>5, <1>6, <1>7, <1>8

LEMMA RaceRecall ==
  ASSUME MemoryInv, RaceInv, NEW c \in Call, Memory!Recall(c) PROVE RaceInv' /\ log' = log
<1>1. PICK found \in SUBSET Memory!Known(log) : \E ranked \in Memory!SetToSeqs(found) :
        Memory!Begin(c, [i \in DOMAIN ranked |-> Memory!AppendEvent("RETRIEVED", Memory!Current(log, ranked[i]))])
  BY DEF Memory!Recall, Memory!Retrievable
<1>2. PICK ranked \in Memory!SetToSeqs(found) :
        Memory!Begin(c, [i \in DOMAIN ranked |-> Memory!AppendEvent("RETRIEVED", Memory!Current(log, ranked[i]))])
  BY <1>1
<1>3. Memory!Cardinality(found) \in Nat
  <2>1. Memory!Cardinality(found) = Cardinality(found)
    BY DEF Memory!Cardinality, Cardinality
  <2>2. IsFiniteSet(found)
    BY <1>1, KnownIds, FS_Subset
  <2> QED
    BY <2>1, <2>2, FS_CardinalityType
<1>4. PICK n \in Nat : ranked \in [1..n -> found] /\ \A i, j \in 1..n : ranked[i] = ranked[j] => i = j
  BY <1>2, <1>3 DEF Memory!SetToSeqs, Memory!IsInjective
<1> DEFINE events == [i \in 1..n |-> Memory!AppendEvent("RETRIEVED", Memory!Current(log, ranked[i]))]
<1>5. Memory!Begin(c, events)
  BY <1>2, <1>4
<1>6. ASSUME NEW i \in 1..n
      PROVE  /\ events[i] \in MemoryEvents /\ events[i].memory.id = ranked[i]
             /\ events[i].memory = Memory!Current(log, events[i].memory.id)
  <2> DEFINE memory == Memory!Current(log, ranked[i])
  <2>1. ranked[i] \in Memory!Known(log)
    BY <1>1, <1>4
  <2>2. memory \in Records /\ memory.id = ranked[i]
    BY <2>1, CurrentIsSound
  <2>3. events[i] = Memory!AppendEvent("RETRIEVED", memory) /\ memory = Memory!Current(log, ranked[i])
    OBVIOUS
  <2> HIDE DEF memory, events
  <2> QED
    BY <2>2, <2>3, NewEvent DEF Actions
<1>7. events \in Seq(MemoryEvents) /\ DOMAIN events = 1..n
  BY <1>6
<1> HIDE DEF events
<1>8. Distinct(events)
  BY <1>4, <1>6, <1>7 DEF Distinct
<1>9. MovesFrom(log, events)
  BY <1>6, <1>7 DEF MovesFrom, Memory!MovesOn
<1> QED
  BY <1>5, <1>7, <1>8, <1>9, RaceBegun

LEMMA RaceSupersede ==
  ASSUME MemoryInv, RaceInv, NEW c \in Call, Memory!SupersedeMemory(c) PROVE RaceInv' /\ log' = log
<1>1. PICK id \in Memory!Known(log), next \in Id, given \in Given :
        Memory!Begin(c, <<Memory!AppendEvent("SUPERSEDED", [Memory!With(Memory!Current(log, id), "SUPERSEDED") EXCEPT !.by = next]),
                          Memory!AppendEvent("CREATED", Memory!NormalizedRecord(next, given))>>)
  BY DEF Memory!SupersedeMemory
<1> DEFINE old == Memory!Current(log, id)
           moved == Memory!With(old, "SUPERSEDED")
           memory == [moved EXCEPT !.by = next]
           new == Memory!NormalizedRecord(next, given)
           first == Memory!AppendEvent("SUPERSEDED", memory)
           second == Memory!AppendEvent("CREATED", new)
<1>2. given \in Said /\ "SUPERSEDED" \in Memory!Status /\ "SUPERSEDED" \in Actions /\ "CREATED" \in Actions
  BY MemoryAssumption DEF Memory!Status, Actions, Said
<1>3. new \in Records
  BY <1>2, NewRecord
<1>4. old \in Records /\ old.id = id
  BY CurrentIsSound
<1>5. Memory!Begin(c, <<first, second>>)
  BY <1>1
<1> HIDE DEF old
<1>6. moved \in Records /\ moved.id = id /\ moved.status = "SUPERSEDED"
  BY <1>2, <1>4, NewStatus
<1> HIDE DEF moved, new
<1>7. memory \in Records /\ memory.id = id /\ memory.status = "SUPERSEDED" /\ memory.by = next
  BY <1>2, <1>6 DEF Records
<1> HIDE DEF memory
<1>8. /\ first \in MemoryEvents /\ first.memory = memory /\ second \in MemoryEvents /\ second.memory = new
      /\ second.action = "CREATED"
  BY <1>2, <1>3, <1>7, NewEvent, MemoryAssumption
<1> HIDE DEF first, second
<1> DEFINE events == <<first, second>>
<1>9. events \in Seq(MemoryEvents) /\ DOMAIN events = {1, 2} /\ events[1] = first /\ events[2] = second /\ Memory!Begin(c, events)
  BY <1>5, <1>8
<1> HIDE DEF events
<1>10. Distinct(events)
  BY <1>2, <1>3, <1>7, <1>8, <1>9 DEF Distinct
<1>11. MovesFrom(log, events)
  BY <1>2, <1>3, <1>7, <1>8, <1>9 DEF MovesFrom, Memory!MovesOn
<1> QED
  BY <1>9, <1>10, <1>11, RaceBegun

LEMMA RaceCrash ==
  ASSUME MemoryInv, RaceInv, NEW c \in Call, Memory!Crash(c) PROVE RaceInv' /\ log' = log
<1>1. memoryCall' = [memoryCall EXCEPT ![c] = << >>] /\ log' = log /\ read' = read
  BY DEF Memory!Crash
<1>2. memoryCall'[c] = << >> /\ \A d \in Call \ {c} : memoryCall'[d] = memoryCall[d]
  BY <1>1 DEF MemoryInv, MemoryTypes
<1>3. Distinct(<< >>) /\ MovesFrom(log, << >>)
  BY DEF Distinct, MovesFrom
<1>4. ASSUME NEW d \in Call
      PROVE  /\ read'[d] <= Len(log') /\ Distinct(memoryCall'[d])
             /\ read'[d] = Len(log') => MovesFrom(log', memoryCall'[d])
  <2>1. CASE d = c
    BY <1>1, <1>2, <1>3, <2>1 DEF RaceInv
  <2>2. CASE d # c
    BY <1>1, <1>2, <2>2 DEF RaceInv
  <2> QED
    BY <2>1, <2>2
<1> QED
  BY <1>1, <1>4 DEF RaceInv

\* The step that the four action properties are about.
StaysOrRaces ==
  \A id \in Memory!Known(log) :
    \/ Memory!MovesOn(Memory!Current(log, id).status, Memory!Current(log', id).status)
    \/ \E c \in Call : memoryCall'[c] # memoryCall[c] /\ (read[c] < Len(log) \/ Head(memoryCall[c]).action = "CREATED")

LEMMA RaceKept == MemoryInv /\ RaceInv /\ [Next]_vars => RaceInv' /\ StaysOrRaces
<1> SUFFICES ASSUME MemoryInv, RaceInv, [Next]_vars PROVE RaceInv' /\ StaysOrRaces
  OBVIOUS
<1>1. Memory!Next \/ UNCHANGED memoryVars
  BY DEF Next, vars
<1>2. ASSUME log' = log PROVE StaysOrRaces
  BY <1>2 DEF StaysOrRaces, Memory!MovesOn
<1>3. CASE Memory!Next
  <2>1. PICK c \in Call : \/ Memory!Remember(c) \/ Memory!CreateHandoff(c) \/ Memory!Recall(c) \/ Memory!ValidateMemory(c)
                          \/ Memory!PromoteMemory(c) \/ Memory!SupersedeMemory(c) \/ Memory!ArchiveMemory(c)
                          \/ Memory!AppendMemoryEvent(c) \/ Memory!Crash(c)
    BY <1>3 DEF Memory!Next
  <2>2. CASE Memory!AppendMemoryEvent(c)
    BY <2>2, RaceAppend DEF StaysOrRaces
  <2>3. CASE ~Memory!AppendMemoryEvent(c)
    BY <1>2, <2>1, <2>3, RaceActions, RaceRecall, RaceSupersede, RaceCrash
  <2> QED
    BY <2>2, <2>3
<1>4. CASE UNCHANGED memoryVars
  <2>1. UNCHANGED <<log, memoryCall, read>>
    BY <1>4 DEF memoryVars
  <2> QED
    BY <1>2, <2>1 DEF RaceInv
<1> QED
  BY <1>1, <1>3, <1>4

-----------------------------------------------------------------------------
(* Logs: what a retention has in hand covers the file it is about to write again. *)

Quiet(t) == \A i \in DOMAIN t : t[i].do \in {"append", "check", "retain"}

\* The last n of the three writes of a retention, and nothing like them behind.
Rewriting(t, type, n) ==
  /\ n \in DOMAIN t /\ t[n].do = "fill" /\ t[n].path = Logs!Raw(type)
  /\ n >= 2 => t[n - 1].do = "truncate" /\ t[n - 1].path = Logs!Raw(type)
  /\ n = 3 => t[1].do = "append" /\ t[1].path = Logs!Archive(type)
  /\ \A i \in DOMAIN t : i > n => t[i].do \in {"append", "check", "retain"}

\* What is in the file is about to be written to it or to the archive, is there already, or was exposed.
Covers(t, type, n, content, shown) ==
  content[Logs!Raw(type)] \subseteq t[n].rows \cup content[Logs!Archive(type)] \cup shown \cup (IF n = 3 THEN t[1].rows ELSE {})

CoverInv ==
  \A c \in Call : \/ Quiet(todo[c])
                  \/ \E type \in Types, n \in 1..3 : Rewriting(todo[c], type, n) /\ Covers(todo[c], type, n, file, exposed)

LEMMA RawPaths ==
  \A type, other \in Types : /\ Logs!Raw(type) # Logs!Archive(other)
                             /\ Logs!Raw(type) = Logs!Raw(other) => type = other
                             /\ Logs!Raw(type) \in Logs!Path /\ Logs!Archive(type) \in Logs!Path
BY PathsDiffer DEF Types, Logs!Raw, Logs!Archive

LEMMA CoverInit == Init => CoverInv
BY DEF Init, Logs!Init, CoverInv, Quiet

\* A call that begins, or dies, has nothing to rewrite.
LEMMA CoverBegun ==
  ASSUME CoverInv, todo \in [Call -> Seq(Steps)], NEW c \in Call, NEW steps, Quiet(steps),
         todo' = [todo EXCEPT ![c] = steps], file' = file, exposed \subseteq exposed'
  PROVE  CoverInv'
<1>1. ASSUME NEW d \in Call
      PROVE  \/ Quiet(todo'[d])
             \/ \E type \in Types, n \in 1..3 : Rewriting(todo'[d], type, n) /\ Covers(todo'[d], type, n, file', exposed')
  <2>1. CASE d = c
    BY <2>1
  <2>2. CASE d # c
    <3>1. todo'[d] = todo[d]
      BY <2>2
    <3>2. ASSUME NEW type \in Types, NEW n \in 1..3, Covers(todo[d], type, n, file, exposed)
          PROVE  Covers(todo[d], type, n, file', exposed')
      BY <3>2 DEF Covers
    <3> QED
      BY <3>1, <3>2 DEF CoverInv
  <2> QED
    BY <2>1, <2>2
<1> QED
  BY <1>1 DEF CoverInv

LEMMA QuietTail ==
  ASSUME NEW t \in Seq(Steps), t # << >>
  PROVE  /\ Tail(t) \in Seq(Steps)
         /\ \A i \in DOMAIN Tail(t) : i \in Nat /\ i >= 1 /\ i + 1 \in DOMAIN t /\ Tail(t)[i] = t[i + 1]
         /\ \A i \in DOMAIN t : i # 1 => i - 1 \in DOMAIN Tail(t) /\ Tail(t)[i - 1] = t[i]
         /\ Quiet(t) => Quiet(Tail(t))
         /\ \A type \in Types : Rewriting(t, type, 1) => Quiet(Tail(t))
         /\ \A type \in Types, n \in 2..3 : Rewriting(t, type, n) => Rewriting(Tail(t), type, n - 1)
<1>1. /\ Tail(t) \in Seq(Steps)
      /\ \A i \in DOMAIN Tail(t) : i \in Nat /\ i >= 1 /\ i + 1 \in DOMAIN t /\ Tail(t)[i] = t[i + 1]
      /\ \A i \in DOMAIN t : i # 1 => i - 1 \in DOMAIN Tail(t) /\ Tail(t)[i - 1] = t[i]
  OBVIOUS
<1> DEFINE rest == Tail(t)
<1> HIDE DEF rest
<1>2. Quiet(t) => Quiet(rest)
  BY <1>1 DEF Quiet, rest
<1>3. \A type \in Types : Rewriting(t, type, 1) => Quiet(rest)
  BY <1>1 DEF Quiet, Rewriting, rest
<1>4. ASSUME NEW type \in Types, NEW n \in 2..3, Rewriting(t, type, n) PROVE Rewriting(rest, type, n - 1)
  <2>1. /\ n \in DOMAIN t /\ t[n].do = "fill" /\ t[n].path = Logs!Raw(type)
        /\ t[n - 1].do = "truncate" /\ t[n - 1].path = Logs!Raw(type)
        /\ \A i \in DOMAIN t : i > n => t[i].do \in {"append", "check", "retain"}
    BY <1>4 DEF Rewriting
  <2>2. n - 1 \in DOMAIN rest /\ rest[n - 1] = t[n]
    BY <1>1, <2>1 DEF rest
  <2>3. n = 3 => rest[1] = t[2]
    <3>1. ASSUME n = 3 PROVE 1 \in DOMAIN rest
      <4>1. 2 \in DOMAIN rest
        BY <2>2, <3>1
      <4>2. rest \in Seq(Steps)
        BY <1>1 DEF rest
      <4> QED
        BY <4>1, <4>2
    <3> QED
      BY <1>1, <3>1 DEF rest
  <2>4. \A i \in DOMAIN rest : i > n - 1 => rest[i].do \in {"append", "check", "retain"}
    BY <1>1, <2>1 DEF rest
  <2> QED
    BY <2>1, <2>2, <2>3, <2>4 DEF Rewriting
<1> QED
  BY <1>1, <1>2, <1>3, <1>4 DEF rest

LEMMA CoverDecided ==
  ASSUME LogInv, CoverInv, NEW c \in Call, Logs!Decide(c) PROVE CoverInv' /\ file' = file
<1> DEFINE step == todo[c][1]
           rest == Tail(todo[c])
           new == IF step.do = "check" THEN Logs!AppendOnce(step.rows) ELSE Logs!RetentionWrites(step.path[2])
<1>1. /\ todo[c] # << >> /\ todo[c] \in Seq(Steps) /\ Head(todo[c]) = step /\ step \in Steps /\ step.do \in {"check", "retain"}
      /\ 1 \in DOMAIN todo[c] /\ todo \in [Call -> Seq(Steps)]
  BY DEF LogInv, Logs!Decide
<1>2. todo' = [todo EXCEPT ![c] = new \o rest] /\ UNCHANGED <<file, exposed>>
  BY <1>1 DEF Logs!Decide, LogInv
<1>3. Quiet(todo[c])
  <2>1. ASSUME NEW type \in Types, NEW n \in 1..3, Rewriting(todo[c], type, n) PROVE FALSE
    <3>1. CASE n = 1
      BY <1>1, <2>1, <3>1 DEF Rewriting
    <3>2. CASE n = 2
      BY <1>1, <2>1, <3>2 DEF Rewriting
    <3>3. CASE n = 3
      BY <1>1, <2>1, <3>3 DEF Rewriting
    <3> QED
      BY <3>1, <3>2, <3>3
  <2> QED
    BY <2>1 DEF CoverInv
<1>4. rest \in Seq(Steps) /\ Quiet(rest)
  BY <1>1, <1>3, QuietTail
<1> HIDE DEF rest
<1>5. ASSUME NEW short \in Seq(Steps), Quiet(short), new = short PROVE CoverInv'
  <2>1. Quiet(short \o rest)
    BY <1>4, <1>5 DEF Quiet
  <2>2. todo' = [todo EXCEPT ![c] = short \o rest] /\ file' = file /\ exposed \subseteq exposed'
    BY <1>2, <1>5
  <2> QED
    BY <1>1, <2>1, <2>2, CoverBegun
<1>6. CASE step.do = "check"
  <2>1. new = Logs!AppendOnce(step.rows)
    BY <1>6
  <2>2. step.rows \in SUBSET AllRows
    BY <1>1, <1>6 DEF Steps, Plain, Checks, Retains, OtherWrites, AlertWrites, InboxWrites, OneRow
  <2> HIDE DEF new
  <2>3. CASE Logs!Active(step.rows)
    <3>1. new = << >> /\ Quiet(<< >>) /\ << >> \in Seq(Steps)
      BY <2>1, <2>3 DEF Logs!AppendOnce, Quiet
    <3> QED
      BY <1>2, <1>5, <3>1
  <2>4. CASE ~Logs!Active(step.rows)
    <3> DEFINE w1 == Logs!Write(Logs!State("alerts"), step.rows)
               w2 == Logs!Write(Logs!State("inbox"), step.rows)
               w3 == Logs!Write(Logs!Raw("alerts"), step.rows)
    <3>1. new = <<w1, w2, w3>>
      BY <2>1, <2>4 DEF Logs!AppendOnce
    <3>2. w1.do = "append" /\ w2.do = "append" /\ w3.do = "append"
      BY DEF Logs!Write
    <3>3. w1 \in AlertWrites /\ w2 \in InboxWrites /\ w3 \in OtherWrites
      <4>1. step.rows \in OneRow
        BY <1>1, <1>6 DEF Steps, Plain, Checks, Retains, OtherWrites, AlertWrites, InboxWrites
      <4>2. Logs!Raw("alerts") \in Logs!Path \ {Alerts, Inbox}
        BY PathsDiffer DEF Types
      <4> QED
        BY <2>2, <4>1, <4>2 DEF Logs!Write, AlertWrites, InboxWrites, OtherWrites, Alerts, Inbox
    <3> HIDE DEF w1, w2, w3
    <3>4. <<w1, w2, w3>> \in Seq(Steps) /\ Quiet(<<w1, w2, w3>>)
      BY <3>2, <3>3 DEF Quiet, Steps, Plain
    <3> QED
      BY <1>2, <1>5, <3>1, <3>4
  <2> QED
    BY <2>3, <2>4
<1>7. CASE step.do = "retain"
  <2>1. step \in Retains
    BY <1>1, <1>7 DEF Steps, Plain, Checks, Retains, OtherWrites, AlertWrites, InboxWrites
  <2>2. PICK type \in Types : step.path = Logs!Raw(type)
    BY <2>1 DEF Retains
  <2>3. new = Logs!RetentionWrites(type)
    BY <1>7, <2>2, PathsDiffer
  <2> HIDE DEF new
  <2>4. CASE Logs!Old(type) = {}
    <3>1. new = << >> /\ Quiet(<< >>) /\ << >> \in Seq(Steps)
      BY <2>3, <2>4 DEF Logs!RetentionWrites, Quiet
    <3> QED
      BY <1>2, <1>5, <3>1
  <2>5. CASE Logs!Old(type) # {}
    <3> DEFINE keep == file[Logs!Raw(type)] \ Logs!Old(type)
               w1 == Logs!Write(Logs!Archive(type), Logs!Old(type))
               w2 == Logs!Truncate(Logs!Raw(type), keep)
               w3 == Logs!Fill(Logs!Raw(type), keep)
               writes == <<w1, w2, w3>>
               both == writes \o rest
    <3>1. new = writes
      BY <2>3, <2>5 DEF Logs!RetentionWrites
    <3>2. /\ w1.do = "append" /\ w1.path = Logs!Archive(type) /\ w1.rows = Logs!Old(type)
          /\ w2.do = "truncate" /\ w2.path = Logs!Raw(type)
          /\ w3.do = "fill" /\ w3.path = Logs!Raw(type) /\ w3.rows = keep
      BY DEF Logs!Write, Logs!Truncate, Logs!Fill
    <3>3. file[Logs!Raw(type)] \subseteq w3.rows \cup w1.rows
      BY <3>2
    <3> HIDE DEF w1, w2, w3
    <3>4. /\ DOMAIN both = 1..3 + Len(rest) /\ Len(rest) \in Nat /\ both[1] = w1 /\ both[2] = w2 /\ both[3] = w3
          /\ \A i \in DOMAIN both : i > 3 => i - 3 \in DOMAIN rest /\ both[i] = rest[i - 3]
      BY <1>4
    <3>5. todo' = [todo EXCEPT ![c] = both]
      BY <1>2, <3>1
    <3> HIDE DEF writes, both
    <3>6. Rewriting(both, type, 3)
      BY <1>4, <3>2, <3>4 DEF Rewriting, Quiet
    <3>7. Covers(both, type, 3, file', exposed')
      BY <1>2, <3>3, <3>4 DEF Covers
    <3>8. todo'[c] = both /\ \A d \in Call \ {c} : todo'[d] = todo[d]
      BY <1>1, <3>5
    <3>9. file' = file /\ exposed' = exposed
      BY <1>2
    <3>10. ASSUME NEW d \in Call
          PROVE  \/ Quiet(todo'[d])
                 \/ \E ty \in Types, n \in 1..3 : Rewriting(todo'[d], ty, n) /\ Covers(todo'[d], ty, n, file', exposed')
      <4>1. CASE d = c
        <5>1. 3 \in 1..3
          OBVIOUS
        <5> QED
          BY <3>6, <3>7, <3>8, <4>1, <5>1
      <4>2. CASE d # c
        BY <3>8, <3>9, <4>2 DEF CoverInv
      <4> QED
        BY <4>1, <4>2
    <3> QED
      BY <1>2, <3>10 DEF CoverInv
  <2> QED
    BY <2>4, <2>5
<1> QED
  BY <1>1, <1>2, <1>6, <1>7

\* What the file had is in the file or its archive, in the hands of a call, or exposed.
RowsStay ==
  \A type \in Types : \A row \in file[Logs!Raw(type)] :
    row \in file'[Logs!Raw(type)] \cup file'[Logs!Archive(type)] \cup Logs!InHand(Logs!Raw(type))' \cup exposed'

LEMMA CoverWritten ==
  ASSUME LogInv, CoverInv, NEW c \in Call, Logs!DoWrite(c) PROVE CoverInv' /\ RowsStay
<1> DEFINE step == todo[c][1]
           rest == Tail(todo[c])
           content == CASE step.do = "append" -> file[step.path] \cup step.rows
                        [] step.do = "truncate" -> {}
                        [] step.do = "fill" -> step.rows
<1>1. /\ todo[c] # << >> /\ todo[c] \in Seq(Steps) /\ Head(todo[c]) = step /\ step \in Steps
      /\ step.do \in {"append", "truncate", "fill"} /\ 1 \in DOMAIN todo[c] /\ todo \in [Call -> Seq(Steps)]
      /\ file \in [Logs!Path -> SUBSET AllRows]
  BY DEF LogInv, LogTypes, Logs!DoWrite
<1>2. /\ todo' = [todo EXCEPT ![c] = rest] /\ file' = [file EXCEPT ![step.path] = content]
      /\ exposed' = exposed \cup (IF Logs!AboutToReplace(step.path, c) THEN step.rows ELSE {})
  BY <1>1 DEF Logs!DoWrite, LogInv, LogTypes
<1>3. step.path \in Logs!Path
  BY <1>1, PathsDiffer DEF Steps, Plain, Checks, Retains, OtherWrites, AlertWrites, InboxWrites
<1>4. /\ step.do = "append" => content = file[step.path] \cup step.rows
      /\ step.do = "truncate" => content = {}
      /\ step.do = "fill" => content = step.rows
  OBVIOUS
<1>5. /\ rest \in Seq(Steps)
      /\ \A i \in DOMAIN todo[c] : i # 1 => i - 1 \in DOMAIN rest /\ rest[i - 1] = todo[c][i]
      /\ Quiet(todo[c]) => Quiet(rest)
      /\ \A type \in Types : Rewriting(todo[c], type, 1) => Quiet(rest)
      /\ \A type \in Types, n \in 2..3 : Rewriting(todo[c], type, n) => Rewriting(rest, type, n - 1)
  BY <1>1, QuietTail
<1> HIDE DEF content, rest
<1>6. file'[step.path] = content /\ \A p \in Logs!Path : p # step.path => file'[p] = file[p]
  BY <1>1, <1>2, <1>3
<1>7. todo'[c] = rest /\ \A d \in Call \ {c} : todo'[d] = todo[d]
  BY <1>1, <1>2
<1>8. exposed \subseteq exposed' /\ (Logs!AboutToReplace(step.path, c) => step.rows \subseteq exposed')
  BY <1>2
<1> HIDE DEF step
<1>9. \/ Quiet(todo[c]) /\ step.do = "append"
      \/ \E type \in Types, n \in 1..3 : Rewriting(todo[c], type, n) /\ Covers(todo[c], type, n, file, exposed)
  BY <1>1 DEF CoverInv, Quiet, step
<1>10. ASSUME NEW type \in Types, NEW n \in 1..3, Rewriting(todo[c], type, n)
       PROVE  /\ n = 1 => step.do = "fill" /\ step.path = Logs!Raw(type)
              /\ n = 2 => step.do = "truncate" /\ step.path = Logs!Raw(type)
              /\ n = 3 => step.do = "append" /\ step.path = Logs!Archive(type)
  BY <1>10 DEF Rewriting, step
<1>11. step.do = "append" \/ \E type \in Types : step.path = Logs!Raw(type)
  BY <1>9, <1>10
<1>12. \A type \in Types : file[Logs!Archive(type)] \subseteq file'[Logs!Archive(type)]
  <2> SUFFICES ASSUME NEW type \in Types PROVE file[Logs!Archive(type)] \subseteq file'[Logs!Archive(type)]
    OBVIOUS
  <2>1. CASE step.path = Logs!Archive(type)
    BY <1>4, <1>6, <1>11, <2>1, RawPaths
  <2>2. CASE step.path # Logs!Archive(type)
    BY <1>6, <2>2, RawPaths
  <2> QED
    BY <2>1, <2>2
<1>13. \A type \in Types : file'[Logs!Raw(type)] \subseteq file[Logs!Raw(type)] \cup (IF step.path = Logs!Raw(type) THEN step.rows ELSE {})
  <2> SUFFICES ASSUME NEW type \in Types
               PROVE  file'[Logs!Raw(type)] \subseteq file[Logs!Raw(type)] \cup (IF step.path = Logs!Raw(type) THEN step.rows ELSE {})
    OBVIOUS
  <2>1. CASE step.path = Logs!Raw(type)
    BY <1>1, <1>4, <1>6, <2>1 DEF step
  <2>2. CASE step.path # Logs!Raw(type)
    BY <1>6, <2>2, RawPaths
  <2> QED
    BY <2>1, <2>2
<1>14. ASSUME NEW d \in Call \ {c}, NEW type \in Types, NEW n \in 1..3, Rewriting(todo[d], type, n), Covers(todo[d], type, n, file, exposed)
       PROVE  Rewriting(todo'[d], type, n) /\ Covers(todo'[d], type, n, file', exposed')
  <2>1. step.path = Logs!Raw(type) => step.rows \subseteq exposed'
    <3>1. n \in DOMAIN todo[d] /\ todo[d][n].do = "fill" /\ todo[d][n].path = Logs!Raw(type)
      BY <1>14 DEF Rewriting
    <3> QED
      BY <1>8, <3>1 DEF Logs!AboutToReplace
  <2>2. todo'[d] = todo[d]
    BY <1>7
  <2>3. /\ file'[Logs!Raw(type)] \subseteq file[Logs!Raw(type)] \cup exposed'
        /\ file[Logs!Archive(type)] \subseteq file'[Logs!Archive(type)]
    BY <1>12, <1>13, <2>1
  <2> QED
    BY <1>8, <1>14, <2>2, <2>3 DEF Covers
<1>15. ASSUME NEW type \in Types, NEW n \in 2..3, Rewriting(todo[c], type, n), Covers(todo[c], type, n, file, exposed)
       PROVE  Rewriting(rest, type, n - 1) /\ Covers(rest, type, n - 1, file', exposed')
  <2>1. Rewriting(rest, type, n - 1)
    BY <1>5, <1>15
  <2>2. n \in DOMAIN todo[c] /\ rest[n - 1] = todo[c][n]
    BY <1>5, <1>15 DEF Rewriting
  <2>3. CASE n = 2
    <3>1. file'[Logs!Raw(type)] = {}
      BY <1>4, <1>6, <1>10, <1>15, <2>3
    <3> QED
      BY <2>1, <3>1 DEF Covers
  <2>4. CASE n = 3
    <3>1. step.do = "append" /\ step.path = Logs!Archive(type)
      BY <1>10, <1>15, <2>4
    <3>2. file'[Logs!Archive(type)] = file[Logs!Archive(type)] \cup step.rows /\ file'[Logs!Raw(type)] = file[Logs!Raw(type)]
      BY <1>4, <1>6, <3>1, RawPaths
    <3>3. file[Logs!Raw(type)] \subseteq todo[c][3].rows \cup file[Logs!Archive(type)] \cup exposed \cup step.rows
      BY <1>15, <2>4 DEF Covers, step
    <3>4. rest[2] = todo[c][3] /\ n - 1 = 2
      BY <2>2, <2>4
    <3>5. Covers(rest, type, 2, file', exposed')
      BY <1>8, <3>2, <3>3, <3>4 DEF Covers
    <3> QED
      BY <2>1, <3>4, <3>5
  <2> QED
    BY <2>3, <2>4
<1>16. CoverInv'
  <2>1. ASSUME NEW d \in Call
        PROVE  \/ Quiet(todo'[d])
               \/ \E type \in Types, n \in 1..3 : Rewriting(todo'[d], type, n) /\ Covers(todo'[d], type, n, file', exposed')
    <3>1. CASE d # c
      <4>1. CASE Quiet(todo[d])
        BY <1>7, <3>1, <4>1
      <4>2. CASE ~Quiet(todo[d])
        BY <1>14, <3>1, <4>2 DEF CoverInv
      <4> QED
        BY <4>1, <4>2
    <3>2. CASE d = c
      <4>1. CASE Quiet(todo[c])
        BY <1>5, <1>7, <3>2, <4>1
      <4>2. ASSUME NEW type \in Types, NEW n \in 1..3, Rewriting(todo[c], type, n), Covers(todo[c], type, n, file, exposed)
            PROVE  \/ Quiet(rest)
                   \/ \E k \in 1..3 : Rewriting(rest, type, k) /\ Covers(rest, type, k, file', exposed')
        <5>1. CASE n = 1
          BY <1>5, <4>2, <5>1
        <5>2. CASE n # 1
          <6>1. n \in 2..3 /\ n - 1 \in 1..3
            BY <5>2
          <6> QED
            BY <1>15, <4>2, <6>1
        <5> QED
          BY <5>1, <5>2
      <4> QED
        BY <1>7, <1>9, <3>2, <4>1, <4>2
    <3> QED
      BY <3>1, <3>2
  <2> QED
    BY <2>1 DEF CoverInv
<1>17. ASSUME NEW type \in Types, NEW row \in file[Logs!Raw(type)]
       PROVE  row \in file'[Logs!Raw(type)] \cup file'[Logs!Archive(type)] \cup Logs!InHand(Logs!Raw(type))' \cup exposed'
  <2>1. CASE step.path # Logs!Raw(type)
    BY <1>6, <2>1, RawPaths
  <2>2. CASE step.path = Logs!Raw(type) /\ step.do = "append"
    BY <1>4, <1>6, <2>2
  <2>3. ASSUME step.path = Logs!Raw(type), step.do # "append"
        PROVE  row \in file'[Logs!Raw(type)] \cup file'[Logs!Archive(type)] \cup Logs!InHand(Logs!Raw(type))' \cup exposed'
    <3>1. PICK ty \in Types, n \in 1..3 : Rewriting(todo[c], ty, n) /\ Covers(todo[c], ty, n, file, exposed)
      BY <1>9, <2>3
    <3>2. n \in {1, 2} /\ ty = type
      BY <1>10, <2>3, <3>1, RawPaths
    <3>3. row \in todo[c][n].rows \cup file[Logs!Archive(type)] \cup exposed
      BY <3>1, <3>2 DEF Covers
    <3>4. CASE n = 1
      <4>1. file'[Logs!Raw(type)] = todo[c][1].rows
        BY <1>4, <1>6, <1>10, <2>3, <3>1, <3>2, <3>4 DEF step
      <4> QED
        BY <1>8, <1>12, <3>3, <3>4, <4>1
    <3>5. CASE n = 2
      <4>1. 2 \in DOMAIN todo[c] /\ todo[c][2].path = Logs!Raw(type)
        BY <3>1, <3>2, <3>5 DEF Rewriting
      <4>2. 1 \in DOMAIN rest /\ rest[1] = todo[c][2]
        BY <1>5, <4>1
      <4>3. todo[c][2].rows \subseteq Logs!InHand(Logs!Raw(type))'
        BY <1>7, <4>1, <4>2 DEF Logs!InHand
      <4> QED
        BY <1>8, <1>12, <3>3, <3>5, <4>3
    <3> QED
      BY <3>2, <3>4, <3>5
  <2> QED
    BY <2>1, <2>2, <2>3
<1> QED
  BY <1>16, <1>17 DEF RowsStay

LEMMA CoverStarted ==
  ASSUME LogInv, CoverInv, NEW c \in Call, Logs!RecordTelemetry(c) \/ Logs!EvaluateAlerts(c) \/ Logs!ApplyRetention(c)
  PROVE  CoverInv' /\ file' = file
<1>1. ASSUME NEW steps, Logs!Begin(c, steps), Quiet(steps) PROVE CoverInv' /\ file' = file
  <2>1. todo' = [todo EXCEPT ![c] = steps] /\ file' = file /\ exposed' = exposed
    BY <1>1 DEF Logs!Begin
  <2>2. todo \in [Call -> Seq(Steps)]
    BY DEF LogInv
  <2> QED
    BY <1>1, <2>1, <2>2, CoverBegun
<1>2. CASE Logs!RecordTelemetry(c)
  <2>1. PICK s \in Subject :
          Logs!Begin(c, <<Logs!Write(Logs!State("telemetry"), {Logs!Row(rows + 1, s)}), Logs!Write(Logs!Raw("telemetry"), {Logs!Row(rows + 1, s)})>>)
    BY <1>2 DEF Logs!RecordTelemetry
  <2> DEFINE row == Logs!Row(rows + 1, s)
             w1 == Logs!Write(Logs!State("telemetry"), {row})
             w2 == Logs!Write(Logs!Raw("telemetry"), {row})
  <2>2. Logs!Begin(c, <<w1, w2>>)
    BY <2>1
  <2>3. w1.do = "append" /\ w2.do = "append"
    BY DEF Logs!Write
  <2> HIDE DEF w1, w2
  <2>4. Quiet(<<w1, w2>>)
    BY <2>3 DEF Quiet
  <2> QED
    BY <1>1, <2>2, <2>4
<1>3. CASE Logs!EvaluateAlerts(c)
  <2>1. PICK over \in SUBSET Subject : \E order \in Logs!SetToSeqs(over) :
          Logs!Begin(c, [i \in DOMAIN order |-> Logs!Check(Logs!Row(rows + i, order[i]))])
    BY <1>3 DEF Logs!EvaluateAlerts
  <2>2. PICK order : Logs!Begin(c, [i \in DOMAIN order |-> Logs!Check(Logs!Row(rows + i, order[i]))])
    BY <2>1
  <2> DEFINE steps == [i \in DOMAIN order |-> Logs!Check(Logs!Row(rows + i, order[i]))]
  <2>3. \A i \in DOMAIN steps : steps[i].do = "check"
    BY DEF Logs!Check
  <2>4. Logs!Begin(c, steps)
    BY <2>2
  <2> HIDE DEF steps
  <2>5. Quiet(steps)
    BY <2>3 DEF Quiet
  <2> QED
    BY <1>1, <2>4, <2>5
<1>4. CASE Logs!ApplyRetention(c)
  <2> DEFINE steps == [i \in DOMAIN Logs!HistoryType |-> Logs!Retain(Logs!HistoryType[i])]
  <2>1. Logs!Begin(c, steps) /\ \A i \in DOMAIN steps : steps[i].do = "retain"
    BY <1>4 DEF Logs!ApplyRetention, Logs!Retain
  <2> HIDE DEF steps
  <2>2. Quiet(steps)
    BY <2>1 DEF Quiet
  <2> QED
    BY <1>1, <2>1, <2>2
<1> QED
  BY <1>2, <1>3, <1>4

LEMMA CoverKept == LogInv /\ CoverInv /\ [Next]_vars => CoverInv' /\ RowsStay
<1> SUFFICES ASSUME LogInv, CoverInv, [Next]_vars PROVE CoverInv' /\ RowsStay
  OBVIOUS
<1>1. Logs!Next \/ UNCHANGED logsVars
  BY DEF Next, vars
<1>2. ASSUME file' = file PROVE RowsStay
  BY <1>2 DEF RowsStay
<1>3. ASSUME NEW c \in Call, Logs!RecordTelemetry(c) \/ Logs!EvaluateAlerts(c) \/ Logs!ApplyRetention(c) PROVE CoverInv' /\ RowsStay
  BY <1>2, <1>3, CoverStarted
<1>4. ASSUME NEW c \in Call, Logs!Decide(c) PROVE CoverInv' /\ RowsStay
  BY <1>2, <1>4, CoverDecided
<1>5. ASSUME NEW c \in Call, Logs!DoWrite(c) PROVE CoverInv' /\ RowsStay
  BY <1>5, CoverWritten
<1>6. ASSUME NEW c \in Call, Logs!Crash(c) PROVE CoverInv' /\ RowsStay
  <2>1. todo' = [todo EXCEPT ![c] = << >>] /\ file' = file /\ exposed \subseteq exposed'
    BY <1>6 DEF Logs!Crash
  <2>2. todo \in [Call -> Seq(Steps)] /\ Quiet(<< >>)
    BY DEF LogInv, Quiet
  <2> QED
    BY <1>2, <2>1, <2>2, CoverBegun
<1>7. CASE Logs!NextDay \/ UNCHANGED logsVars
  <2>1. file' = file /\ todo' = todo /\ exposed' = exposed
    BY <1>7 DEF Logs!NextDay, logsVars
  <2> QED
    BY <1>2, <2>1 DEF CoverInv
<1> QED
  BY <1>1, <1>3, <1>4, <1>5, <1>6, <1>7 DEF Logs!Next

-----------------------------------------------------------------------------
\* For any memories, files, fragments and replays, however calls overlap and die: the status of a memory goes back only
\* when its id is remembered again or another call came in between, a recorded row is lost only when another call came in
\* between, a cached fragment when one did or one died or wrote together with another while it filled the file, and a
\* comparison never falls back to an earlier replay (memory.mjs, store.mjs, cache.mjs, replay.mjs).
THEOREM LossesNeedARace == Spec => LostOnlyInARace
<1> DEFINE All == MemoryInv /\ RaceInv /\ LogInv /\ CoverInv /\ CacheInv /\ ReplayInv /\ StartsBounded
<1>1. Init => All
  BY MemoryInit, RaceInit, LogInit, CoverInit, CacheInit, ReplayInit, StartsInit
<1>2. All /\ [Next]_vars => All'
  BY MemoryKept, RaceKept, LogKept, CoverKept, CacheKept, ReplayAllKept, StartsKept
<1>3. All /\ [Next]_vars =>
        [\A id \in Memory!Known(log) :
           \/ Memory!MovesOn(Memory!Current(log, id).status, Memory!Current(log', id).status)
           \/ \E c \in Call : memoryCall'[c] # memoryCall[c] /\ (read[c] < Len(log) \/ Head(memoryCall[c]).action = "CREATED")]_(Memory!vars)
  BY RaceKept DEF StaysOrRaces
<1>4. All /\ [Next]_vars =>
        [\A i \in DOMAIN Logs!HistoryType : LET t == Logs!HistoryType[i] IN
           \A row \in file[Logs!Raw(t)] :
             row \in file'[Logs!Raw(t)] \cup file'[Logs!Archive(t)] \cup Logs!InHand(Logs!Raw(t))' \cup exposed']_(Logs!vars)
  <2>1. \A i \in DOMAIN Logs!HistoryType : Logs!HistoryType[i] \in Types
    BY PathsDiffer DEF Types
  <2> QED
    BY <2>1, CoverKept DEF RowsStay
<1>5. All /\ [Next]_vars =>
        [/\ cache = stored \/ spoilt \/ \E c \in Call : packetsCall[c].at = "fill"
         /\ \A c \in Call : packetsCall[c].at # "idle" /\ packetsCall'[c].at = "idle" =>
                              stored \subseteq stored' \cup packetsCall[c].missed]_(Packets!vars)
  BY CacheLostInARace
<1>6. All /\ All' /\ [Next]_vars =>
        [Replaying!compareReplay.status = "COMPARED" =>
           /\ Replaying!compareReplay'.status = "COMPARED"
           /\ replay[Replaying!compareReplay'.baseline].start >= replay[Replaying!compareReplay.baseline].start
           /\ replay[Replaying!compareReplay'.mcg].start >= replay[Replaying!compareReplay.mcg].start]_(Replaying!vars)
  BY ComparisonKept
<1> HIDE DEF All
<1> QED
  BY <1>1, <1>2, <1>3, <1>4, <1>5, <1>6, PTL
    DEF Spec, LostOnlyInARace, Memory!BackOnlyInARace, Logs!LostOnlyIfExposed, Packets!CachedStays, Replaying!ComparisonMovesOn
=============================================================================
