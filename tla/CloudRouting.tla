---------------------------- MODULE CloudRouting ----------------------------
(***************************************************************************)
(* ResourceRouter.route of packages/execution/src/cloud-fabric with the    *)
(* model registry, the scores, the quota router and what the learning      *)
(* router adds.  A call reads the quota of every adapter, ranks the models *)
(* and then asks health and quota again, model by model: quotas and health *)
(* change while it waits.  Scores are in points; rates are whole percents. *)
(***************************************************************************)
EXTENDS Integers, Sequences

CONSTANTS
  Call,
  Requirements,  \* what the calls ask for: capability, risk, complexity, phase, exclude, learned
  Quota,         \* quota snapshots: [percent, budget], None for what a provider does not tell
  Observed,      \* models that runs of the workforce observe
  MinSamples,    \* minimumValidatedSamples, 30 in the code
  MaxSamples,    \* bound on the observations of a model
  MaxChanges,    \* bound on the changes of quota and health
  None

VARIABLES
  quota, health,  \* of each adapter
  samples,        \* observations of each model: how many, how many successes
  changes,
  call,           \* each route in progress
  steady          \* history: the adapters that have been healthy, with quota, since each call began

vars == <<quota, health, samples, changes, call, steady>>

Adapter == {"codex", "claude", "antigravity"}     \* the router has no adapter for "gateway"

Model(id, provider, tier, risk, complexity, cost, latency, reliability, preferred, other) ==
  [id |-> id, provider |-> provider, tier |-> tier, max_risk |-> risk, max_complexity |-> complexity,
   cost |-> cost, latency |-> latency, reliability |-> reliability,
   preferred |-> preferred, capabilities |-> preferred \cup other]

\* `preferred` holds those of a model's capabilities that a tag of preferred_for contains or is contained in.
\* In the order of the ids, by which equal scores are ordered.
defaultModels == <<
  Model("claude-frontier", "claude", 3, 4, 4, 10, 6, 98, {"strategy"}, {"planning", "architecture", "review"}),
  Model("codex-luna", "codex", 1, 2, 2, 2, 2, 90, {"coding", "tests"}, {"documentation"}),
  Model("codex-sol", "codex", 3, 4, 4, 9, 6, 98, {"coding", "review"}, {"architecture", "debugging"}),
  Model("codex-terra", "codex", 2, 3, 3, 5, 4, 96, {"coding"}, {"review", "debugging"}),
  Model("deepseek-worker", "gateway", 1, 2, 2, 1, 3, 87, {"coding", "research", "tests"}, {"classification"}),
  Model("gemini-pro", "antigravity", 3, 4, 4, 8, 5, 96, {"research", "browser"}, {"planning", "vision", "review"}),
  Model("kimi-worker", "gateway", 2, 2, 3, 3, 4, 90, {"frontend"}, {"coding", "vision"}),
  Model("minimax-worker", "gateway", 1, 2, 2, 2, 3, 88, {"coding", "backoffice"}, {"documents", "classification"}),
  Model("qwen-worker", "gateway", 1, 2, 2, 2, 3, 86, {}, {"coding", "classification", "research"})>>

\* The places of the models that may do what is asked.
candidates(req) ==
  {i \in DOMAIN defaultModels : LET m == defaultModels[i] IN
     m.max_risk >= req.risk /\ m.max_complexity >= req.complexity /\ req.capability \subseteq m.capabilities}

quotaState(q) ==
  IF q.percent = None THEN IF q.budget = None THEN "UNKNOWN" ELSE IF q.budget > 0 THEN "GREEN" ELSE "RESERVE"
  ELSE IF q.percent > 50 THEN "GREEN" ELSE IF q.percent > 20 THEN "YELLOW" ELSE IF q.percent >= 10 THEN "RED" ELSE "RESERVE"

\* selectProviderBasedOnQuota: a quota that does not tell its budget is not verified.
Verified(q) == q.budget # None /\ q.budget > 0
Usable(p) == health[p] /\ Verified(quota[p])

\* The success rates of the models with enough observations.
historicalSuccess(id) ==
  IF id \in Observed /\ samples[id].all >= MinSamples THEN (100 * samples[id].good) \div samples[id].all ELSE None

\* Faulty variant of QuotaPoints: the reserve costs as much in every phase.
QuotaPointsAlike(state, phase) ==
  CASE state = "GREEN" -> 15 [] state = "YELLOW" -> 5 [] state = "RED" -> -15 [] state = "RESERVE" -> -60
    [] OTHER -> 0

\* Faulty variant of QuotaPoints: the reserve costs little in every phase.
QuotaPointsMild(state, phase) ==
  CASE state = "GREEN" -> 15 [] state = "YELLOW" -> 5 [] state = "RED" -> -15 [] state = "RESERVE" -> -10
    [] OTHER -> 0

QuotaPoints(state, phase) ==
  CASE state = "GREEN" -> 15 [] state = "YELLOW" -> 5 [] state = "RED" -> -15
    [] state = "RESERVE" -> IF phase = "execute" THEN -60 ELSE -10
    [] OTHER -> 0

scoreModel(m, req, seen, learned) ==
  (IF learned[m.id] # None THEN learned[m.id] ELSE m.reliability)
    + (IF req.phase # "execute" /\ m.tier = 3 THEN 35 ELSE 0)
    - (IF req.phase = "execute" THEN 3 ELSE 1) * m.cost - m.latency
    + QuotaPoints(seen[m.provider], req.phase)
    + (IF req.capability \cap m.preferred # {} THEN 8 ELSE 0)

\* A call has models left to try.
Idle == [at |-> "idle", req |-> None, seen |-> << >>, learned |-> << >>, left |-> {}, target |-> "none"]

Init ==
  /\ quota = [p \in Adapter |-> CHOOSE q \in Quota : Verified(q) /\ quotaState(q) = "GREEN"]
  /\ health = [p \in Adapter |-> TRUE]
  /\ samples = [id \in Observed |-> [all |-> 0, good |-> 0]]
  /\ changes = 0 /\ call = [c \in Call |-> Idle] /\ steady = [c \in Call |-> {}]

-----------------------------------------------------------------------------
(* The providers, and the runs that observe the models. *)

\* An adapter that is not usable at some time is not steady for the calls in progress.
Noted == steady' = [c \in Call |-> {p \in steady[c] : health'[p] /\ Verified(quota'[p])}]

ChangeQuota(p) ==
  /\ changes < MaxChanges /\ changes' = changes + 1
  /\ \E q \in Quota \ {quota[p]} : quota' = [quota EXCEPT ![p] = q]
  /\ UNCHANGED <<health, samples, call>> /\ Noted

ChangeHealth(p) ==
  /\ changes < MaxChanges /\ changes' = changes + 1
  /\ health' = [health EXCEPT ![p] = ~@]
  /\ UNCHANGED <<quota, samples, call>> /\ Noted

record(id) ==
  /\ samples[id].all < MaxSamples
  /\ \E good \in {0, 1} : samples' = [samples EXCEPT ![id] = [all |-> @.all + 1, good |-> @.good + good]]
  /\ UNCHANGED <<quota, health, changes, call, steady>>

-----------------------------------------------------------------------------
(* route *)

Goto(c, there) == call' = [call EXCEPT ![c] = there] /\ UNCHANGED <<quota, health, samples, changes>>
Asked(req) == Adapter \ req.exclude

\* A machine that only exists locally needs no model.  LearningResourceRouter hands its rates over.
route(c, req) ==
  /\ call[c].at = "idle"
  /\ IF req.capability \cap {"windows", "linux", "gpu"} # {}
     THEN Goto(c, [Idle EXCEPT !.at = "done", !.req = req, !.target = "local"]) /\ UNCHANGED steady
     ELSE /\ Goto(c, [Idle EXCEPT !.at = "quotas", !.req = req,
                        !.learned = [id \in {defaultModels[i].id : i \in DOMAIN defaultModels} |->
                                       IF req.learned THEN historicalSuccess(id) ELSE None]])
          /\ steady' = [steady EXCEPT ![c] = {p \in Asked(req) : Usable(p)}]

\* Adapters answer in any order; one that throws is UNKNOWN.
ReadQuota(c, p) ==
  /\ call[c].at = "quotas" /\ p \in Asked(call[c].req) \ DOMAIN call[c].seen
  /\ \E state \in {quotaState(quota[p]), "UNKNOWN"} :
       Goto(c, [call[c] EXCEPT !.seen = [a \in {p} \cup DOMAIN @ |-> IF a = p THEN state ELSE @[a]]])
  /\ UNCHANGED steady

\* The models of the adapters that were asked, and the order in which they are tried.
Ranked(s) == {i \in candidates(s.req) : defaultModels[i].provider \in DOMAIN s.seen}
Score(s, i) == scoreModel(defaultModels[i], s.req, s.seen, s.learned)
Before(s, i, k) == Score(s, i) > Score(s, k) \/ (Score(s, i) = Score(s, k) /\ i < k)
First(s) == CHOOSE i \in s.left : \A k \in s.left \ {i} : Before(s, i, k)

Rank(c) ==
  /\ call[c].at = "quotas" /\ DOMAIN call[c].seen = Asked(call[c].req)
  /\ Goto(c, [call[c] EXCEPT !.at = "health", !.left = Ranked(call[c])])
  /\ UNCHANGED steady

Provider(c) == defaultModels[First(call[c])].provider
NextModel(c) == Goto(c, [call[c] EXCEPT !.at = "health", !.left = @ \ {First(call[c])}])
Take(c) == Goto(c, [call[c] EXCEPT !.at = "done", !.target = defaultModels[First(call[c])].id])

\* selectProviderBasedOnQuota with one adapter: its health first.
CheckHealth(c) ==
  /\ call[c].at = "health" /\ call[c].left # {}
  /\ IF health[Provider(c)] THEN Goto(c, [call[c] EXCEPT !.at = "quota"]) ELSE NextModel(c)
  /\ UNCHANGED steady

\* Faulty variant of CheckQuota: the first model without quota ends the search.
CheckQuotaOnce(c) ==
  /\ call[c].at = "quota"
  /\ IF Verified(quota[Provider(c)]) THEN Take(c) ELSE Goto(c, [call[c] EXCEPT !.at = "done", !.target = "fallback"])
  /\ UNCHANGED steady

\* Then its quota: a model without goes to the next one.  An adapter that throws is one that is not healthy.
CheckQuota(c) ==
  /\ call[c].at = "quota"
  /\ IF Verified(quota[Provider(c)]) THEN Take(c) ELSE NextModel(c)
  /\ UNCHANGED steady

\* No model is left: a target without adapter.
Fallback(c) ==
  /\ call[c].at = "health" /\ call[c].left = {}
  /\ Goto(c, [call[c] EXCEPT !.at = "done", !.target = "fallback"])
  /\ UNCHANGED steady

Next ==
  \/ \E p \in Adapter : ChangeQuota(p) \/ ChangeHealth(p)
  \/ \E id \in Observed : record(id)
  \/ \E c \in Call : \/ Rank(c) \/ CheckHealth(c) \/ CheckQuota(c) \/ Fallback(c)
                      \/ \E p \in Adapter : ReadQuota(c, p)
                      \/ \E req \in Requirements : route(c, req)

Spec == Init /\ [][Next]_vars

-----------------------------------------------------------------------------
\* However quotas and health change while it looks, a route never falls back, and never takes a model of lower
\* score, past a model whose adapter has been healthy with verified quota all the time (resource-router.ts 91-109).
NoNeedlessFallback ==
  \A c \in Call : call[c].at = "done" /\ call[c].target # "local" =>
    \A i \in Ranked(call[c]) : defaultModels[i].provider \in steady[c] =>
      \E k \in Ranked(call[c]) : (k = i \/ Before(call[c], k, i)) /\ defaultModels[k].id = call[c].target

Plain(c) == call[c].at = "health" /\ \A id \in DOMAIN call[c].learned : call[c].learned[id] = None

\* For planning and verification a frontier model comes before every other, whatever quotas were read
\* (routing-policy.ts 31-48).
FrontierFirst ==
  \A c \in Call : Plain(c) /\ call[c].req.phase # "execute" =>
    \A i, k \in call[c].left : defaultModels[i].tier = 3 /\ defaultModels[k].tier # 3 => Before(call[c], i, k)

\* Work is executed on the reserve of a provider only after every model of a provider that is not down to its
\* reserve (routing-policy.ts 45-48).
ReserveIsLastResort ==
  \A c \in Call : Plain(c) /\ call[c].req.phase = "execute" =>
    LET state(i) == call[c].seen[defaultModels[i].provider] IN
    \A i, k \in call[c].left : state(i) = "RESERVE" /\ state(k) # "RESERVE" => Before(call[c], k, i)
=============================================================================
