----------------------------- MODULE EvalPairs -----------------------------
(***************************************************************************)
(* The evaluation suites of packages/execution/src/eval-runner.mjs and     *)
(* what packages/evidence/src (evals.mjs, scores.mjs) makes of the runs    *)
(* they save.  Suites of several processes share the files; a crash ends   *)
(* one between two of its writes.                                          *)
(* A rate is the percent of the runs; recall and grounding are one rate.   *)
(***************************************************************************)
EXTENDS Integers, Sequences, SequencesExt, FiniteSets, FiniteSetsExt

CONSTANTS
  Suite,
  Dataset,      \* the cases, in order
  Baselines,    \* what a lane may come to: [real, measured, total, context, right, invented]: whether the process
  Mcgs,         \* succeeded and told any usage, its tokens (None when not told, which they may be although it told
                \* some), whether the answer was right and made something up
  MIN_DATASET,  \* 30 in the code
  MaxCrash,     \* bound on the crashes
  None

VARIABLES
  suite,        \* each suite: where it is, the cases to come, the lanes of the case in hand
  runs,         \* state/evals/runs: the pairs, in the order of their files
  history,      \* the pairs in the history
  summaries,    \* state/evals/suites
  crashes

vars == <<suite, runs, history, summaries, crashes>>

NoSuite == [at |-> "idle", todo |-> << >>, baseline |-> None, mcg |-> None]

Init ==
  /\ suite = [s \in Suite |-> NoSuite] /\ runs = << >> /\ history = << >> /\ summaries = << >>
  /\ crashes = 0

-----------------------------------------------------------------------------
(* evals.mjs and scores.mjs: what the runs show. *)

\* Faulty variant of comparablePair: a lane whose process failed counts.
comparableIfMeasured(run) == run.baseline.measured /\ run.mcg.measured

\* Both lanes ran and told some usage; runPairedCase gives both the same settings.
comparablePair(run) == run.baseline.real /\ run.mcg.real /\ run.baseline.measured /\ run.mcg.measured

Comparable == {n \in DOMAIN runs : ~runs[n].torn /\ comparablePair(runs[n])}

\* The percent that some make of all, and the sum of what is known of each.
Rate(some, all) == IF all = {} THEN None ELSE (100 * Cardinality(some)) \div Cardinality(all)
SumOrNone(tokens) == IF DOMAIN tokens = {} \/ None \in Range(tokens) THEN None ELSE FoldFunction(+, 0, tokens)

\* One lane of each comparable pair.
Lane(lanes) == LET pairs == DOMAIN lanes IN
  [task_success |-> Rate({n \in pairs : lanes[n].right /\ ~lanes[n].invented}, pairs),
   recall |-> Rate({n \in pairs : lanes[n].right}, pairs),
   hallucination_rate |-> Rate({n \in pairs : lanes[n].invented}, pairs),
   total_tokens |-> SumOrNone([n \in pairs |-> lanes[n].total]),
   context_tokens |-> SumOrNone([n \in pairs |-> lanes[n].context])]

aggregatePairedEvaluations ==
  [dataset_size |-> Cardinality(Comparable),
   baseline |-> Lane([n \in Comparable |-> runs[n].baseline]),
   mcg |-> Lane([n \in Comparable |-> runs[n].mcg])]

Saving(before, after) ==
  IF before = None \/ after = None \/ before = 0 THEN None ELSE ((before - after) * 100) \div before

\* Faulty variant of qualityPreservingSavings: the quality is that of the recall alone.
savingsByRecall(baseline, mcg) ==
  [percent |-> Saving(baseline.total_tokens, mcg.total_tokens),
   qualified |-> Saving(baseline.total_tokens, mcg.context_tokens) \notin {None, 0} /\ mcg.recall >= 98]

\* The context tokens, or else the total: of each lane by itself.
qualityPreservingSavings(baseline, mcg) ==
  LET tokens(lane) == IF lane.context_tokens # None THEN lane.context_tokens ELSE lane.total_tokens
      context == Saving(tokens(baseline), tokens(mcg))
  IN [percent |-> Saving(baseline.total_tokens, mcg.total_tokens),
      qualified |-> /\ context # None /\ context > 0 /\ mcg.task_success >= 98 /\ mcg.recall >= 98
                    /\ mcg.hallucination_rate <= baseline.hallucination_rate]

trustScore(all) ==
  LET savings == qualityPreservingSavings(all.baseline, all.mcg) IN
  IF all.dataset_size = 0 THEN "UNVALIDATED"
  ELSE IF all.dataset_size < MIN_DATASET THEN "VALIDATING"
  ELSE IF savings.qualified THEN "VALIDATED" ELSE "DEGRADED"

\* Faulty variant of efficiencyScore: one pair more is asked for.
efficiencyOfMore(all) ==
  IF all.dataset_size <= MIN_DATASET THEN [status |-> "VALIDATING", score |-> None] ELSE [status |-> "VALIDATED", score |-> 0]

\* The dashboard hands over 100 for any success but none at all.
efficiencyScore(all) ==
  LET saving == Saving(all.baseline.total_tokens, all.mcg.total_tokens)
      success == IF all.mcg.task_success > 0 THEN 100 ELSE 0
      base == (30 * saving + 25 * success + 35 * all.mcg.recall + 10 * (100 - all.mcg.hallucination_rate)) \div 100
  IN IF all.dataset_size = 0 THEN [status |-> "UNVALIDATED", score |-> None]
     ELSE IF all.dataset_size < MIN_DATASET THEN [status |-> "VALIDATING", score |-> None]
     ELSE IF saving = None THEN [status |-> "UNVALIDATED", score |-> None]
     ELSE [status |-> "VALIDATED", score |-> Max({0, Min({100, base})})]

regressionWatch(all) ==
  IF all.dataset_size < MIN_DATASET THEN {"unvalidated"}
  ELSE {what \in {"task_success", "context_recall", "hallucination_rate", "total_tokens"} :
          CASE what = "task_success" -> all.mcg.task_success < all.baseline.task_success - 2
            [] what = "context_recall" -> all.mcg.recall < all.baseline.recall
            [] what = "hallucination_rate" -> all.mcg.hallucination_rate > all.baseline.hallucination_rate
            [] OTHER -> /\ all.baseline.total_tokens # None /\ all.mcg.total_tokens # None
                        /\ all.mcg.total_tokens > all.baseline.total_tokens}

-----------------------------------------------------------------------------
(* runValidationSuite *)

Goto(s, there) == suite' = [suite EXCEPT ![s] = there]

selectValidationCases(offset, limit) == SubSeq(Dataset, offset + 1, Min({Len(Dataset), offset + limit}))

runValidationSuite(s, offset, limit) ==
  /\ suite[s].at = "idle"
  /\ Goto(s, [NoSuite EXCEPT !.at = "baseline", !.todo = selectValidationCases(offset, limit)])
  /\ UNCHANGED <<runs, history, summaries, crashes>>

\* One lane after the other; a process that fails or is cancelled still makes a lane.
RunLane(s) ==
  /\ \/ suite[s].at = "baseline" /\ suite[s].todo # << >>
        /\ \E lane \in Baselines : Goto(s, [suite[s] EXCEPT !.at = "mcg", !.baseline = lane])
     \/ suite[s].at = "mcg" /\ \E lane \in Mcgs : Goto(s, [suite[s] EXCEPT !.at = "save", !.mcg = lane])
  /\ UNCHANGED <<runs, history, summaries, crashes>>

Pair(s, torn) == [by |-> s, case |-> Head(suite[s].todo), baseline |-> suite[s].baseline, mcg |-> suite[s].mcg, torn |-> torn]

NextCase(s) == Goto(s, [suite[s] EXCEPT !.at = "baseline", !.todo = Tail(@)])

\* Faulty variant of SavePair: the history first.
SavePairHistoryFirst(s) ==
  /\ \/ suite[s].at = "save" /\ history' = Append(history, Pair(s, FALSE)) /\ UNCHANGED runs
        /\ Goto(s, [suite[s] EXCEPT !.at = "history"])
     \/ suite[s].at = "history" /\ runs' = Append(runs, Pair(s, FALSE)) /\ UNCHANGED history /\ NextCase(s)
  /\ UNCHANGED <<summaries, crashes>>

\* saveEvaluation: the file, then the history.
SavePair(s) ==
  /\ \/ suite[s].at = "save" /\ runs' = Append(runs, Pair(s, FALSE)) /\ UNCHANGED history
        /\ Goto(s, [suite[s] EXCEPT !.at = "history"])
     \/ suite[s].at = "history" /\ history' = Append(history, Pair(s, FALSE)) /\ UNCHANGED runs /\ NextCase(s)
  /\ UNCHANGED <<summaries, crashes>>

\* The summary is about every run on disk, those of other suites included.
Summarize(s) ==
  /\ suite[s].at = "baseline" /\ suite[s].todo = << >>
  /\ summaries' = Append(summaries, [all |-> aggregatePairedEvaluations, trust |-> trustScore(aggregatePairedEvaluations)])
  /\ Goto(s, [suite[s] EXCEPT !.at = "done"])
  /\ UNCHANGED <<runs, history, crashes>>

\* The file in hand may be cut short.
CrashSuite(s) ==
  /\ suite[s].at \notin {"idle", "done"} /\ crashes < MaxCrash /\ crashes' = crashes + 1
  /\ Goto(s, [suite[s] EXCEPT !.at = "done"])
  /\ runs' \in {runs} \cup (IF suite[s].at = "save" THEN {Append(runs, Pair(s, TRUE))} ELSE {})
  /\ UNCHANGED <<history, summaries>>

Next ==
  \E s \in Suite :
       \/ RunLane(s) \/ SavePair(s) \/ Summarize(s) \/ CrashSuite(s)
       \/ \E offset \in 0..Len(Dataset), limit \in 1..Len(Dataset) : runValidationSuite(s, offset, limit)

Spec == Init /\ [][Next]_vars

-----------------------------------------------------------------------------
\* The tokens of a lane that are compared: of the context when every pair tells them, or else all.
Spent(lanes) == IF SumOrNone([n \in DOMAIN lanes |-> lanes[n].context]) # None
                THEN SumOrNone([n \in DOMAIN lanes |-> lanes[n].context])
                ELSE SumOrNone([n \in DOMAIN lanes |-> lanes[n].total])
\* As many pairs as the minimum, at least 98 of 100 of them right by mcg, which made up no more than the baseline and
\* spared tokens that every pair told.
EarnedBy(baseline, mcg) ==
  LET pairs == DOMAIN mcg
      right == {n \in pairs : mcg[n].right /\ ~mcg[n].invented}
      saving == Saving(Spent(baseline), Spent(mcg))
  IN /\ Cardinality(pairs) >= MIN_DATASET
     /\ 100 * Cardinality(right) >= 98 * Cardinality(pairs)
     /\ Rate({n \in pairs : mcg[n].invented}, pairs) <= Rate({n \in pairs : baseline[n].invented}, pairs)
     /\ saving # None /\ saving > 0
\* The pairs that may count: whole, real and measured in both lanes.
Sound(n) == /\ ~runs[n].torn /\ runs[n].baseline.real /\ runs[n].mcg.real
            /\ runs[n].baseline.measured /\ runs[n].mcg.measured
\* Every VALIDATED summary was earned by the sound pairs, and those alone, that were saved until then (evals.mjs 11-17).
ValidatedIsEarned ==
  \A n \in DOMAIN summaries : summaries[n].trust = "VALIDATED" =>
    \E seen \in 0..Len(runs) : LET counted == {k \in 1..seen : Sound(k)} IN
      EarnedBy([k \in counted |-> runs[k].baseline], [k \in counted |-> runs[k].mcg])

\* The sample gate is written three times, and all three open at the same number of pairs (evals.mjs 12, scores.mjs
\* 7, 33).
GatesAgree ==
  LET all == aggregatePairedEvaluations
      open == trustScore(all) \in {"VALIDATED", "DEGRADED"}
  IN /\ open <=> regressionWatch(all) # {"unvalidated"}
     /\ open <=> efficiencyScore(all).status \notin {"VALIDATING"} /\ all.dataset_size > 0

\* Trust and regressions, computed apart from the same runs, do not contradict each other: what is VALIDATED has lost
\* neither success nor honesty (evals.mjs 11, scores.mjs 36-38).
ValidatedHasNotRegressed ==
  LET all == aggregatePairedEvaluations IN
  trustScore(all) = "VALIDATED" => regressionWatch(all) \cap {"task_success", "hallucination_rate"} = {}

\* The history tells of no run without its file, and misses one only when its process has ended in between
\* (evals.mjs 13).
HistoryFollowsRuns ==
  /\ \A n \in DOMAIN history : history[n] \in Range(runs)
  /\ Cardinality({n \in DOMAIN runs : ~runs[n].torn}) - Len(history)
       <= crashes + Cardinality({s \in Suite : suite[s].at = "history"})
=============================================================================
