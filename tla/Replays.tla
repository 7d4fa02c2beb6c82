------------------------------ MODULE Replays ------------------------------
(***************************************************************************)
(* The replays of a task, with its evidence or without, of                 *)
(* packages/execution/src/replay.mjs, and their comparison.  Replays of    *)
(* several processes overlap, and a crash ends one between two writes.     *)
(***************************************************************************)
EXTENDS Naturals, Sequences, SequencesExt, FiniteSets

CONSTANTS
  Replay,
  MaxCrash      \* bound on the crashes

VARIABLES
  replay,       \* each replay, a baseline or an mcg one
  results,      \* the result.json files, in the order they were saved
  recorded,     \* the replays in the history
  told,         \* those that the telemetry knows
  crashes

vars == <<replay, results, recorded, told, crashes>>

Init ==
  /\ replay = [r \in Replay |-> [at |-> "idle", variant |-> "baseline", start |-> 0]]
  /\ results = << >> /\ recorded = {} /\ told = {} /\ crashes = 0

\* The context of the task, or else its objective.  Ids begin with the time: those of replays that begin at once are
\* ordered anyhow.
replayTask(r, variant) ==
  /\ replay[r].at = "idle"
  /\ replay' = [replay EXCEPT ![r].at = "run", ![r].variant = variant,
                  ![r].start = 1 + Cardinality({x \in Replay : replay[x].at # "idle"})]
  /\ UNCHANGED <<results, recorded, told, crashes>>

Goto(r, there) == replay' = [replay EXCEPT ![r].at = there]

\* The process ends, in whichever way.
EndRun(r) ==
  /\ replay[r].at = "run" /\ Goto(r, "result")
  /\ UNCHANGED <<results, recorded, told, crashes>>

\* Faulty variant of Save: the history first.
SaveHistoryFirst(r) ==
  /\ CASE replay[r].at = "result" -> recorded' = recorded \cup {r} /\ Goto(r, "history") /\ UNCHANGED <<results, told>>
       [] replay[r].at = "history" -> results' = Append(results, r) /\ Goto(r, "telemetry") /\ UNCHANGED <<recorded, told>>
       [] replay[r].at = "telemetry" -> told' = told \cup {r} /\ Goto(r, "done") /\ UNCHANGED <<results, recorded>>
       [] OTHER -> FALSE
  /\ UNCHANGED crashes

\* The result, the history, the telemetry.
Save(r) ==
  /\ CASE replay[r].at = "result" -> results' = Append(results, r) /\ Goto(r, "history") /\ UNCHANGED <<recorded, told>>
       [] replay[r].at = "history" -> recorded' = recorded \cup {r} /\ Goto(r, "telemetry") /\ UNCHANGED <<results, told>>
       [] replay[r].at = "telemetry" -> told' = told \cup {r} /\ Goto(r, "done") /\ UNCHANGED <<results, recorded>>
       [] OTHER -> FALSE
  /\ UNCHANGED crashes

Crash(r) ==
  /\ replay[r].at \notin {"idle", "done"} /\ crashes < MaxCrash /\ crashes' = crashes + 1
  /\ Goto(r, "done") /\ UNCHANGED <<results, recorded, told>>

Saved(variant) == {r \in Range(results) : replay[r].variant = variant}

\* Faulty variant of Newest: the one saved last.
NewestSaved(variant) == Last(SelectSeq(results, LAMBDA r : replay[r].variant = variant))

\* The last in the order of the directories.
Newest(variant) == CHOOSE r \in Saved(variant) : \A x \in Saved(variant) : replay[x].start <= replay[r].start

compareReplay ==
  IF Saved("baseline") = {} \/ Saved("mcg") = {} THEN [status |-> "BLOCKED"]
  ELSE [status |-> "COMPARED", baseline |-> Newest("baseline"), mcg |-> Newest("mcg")]

Next ==
  \E r \in Replay :
    \/ EndRun(r) \/ Save(r) \/ Crash(r)
    \/ \E variant \in {"baseline", "mcg"} : replayTask(r, variant)

Spec == Init /\ [][Next]_vars

-----------------------------------------------------------------------------
\* What the history knows has a result on disk, and what the telemetry knows is in the history; a replay is missing in
\* one of them only while it is saved, or when its process has ended in between (replay.mjs 61-77).
RecordsFollowResults ==
  /\ told \subseteq recorded /\ recorded \subseteq Range(results)
  /\ Cardinality(Range(results) \ told)
       <= crashes + Cardinality({r \in Replay : replay[r].at \in {"history", "telemetry"}})

\* A comparison, once there is one, never goes back to an older replay: one that began earlier and ended later changes
\* nothing (replay.mjs 82-93).
ComparisonMovesOn ==
  [][compareReplay.status = "COMPARED" =>
       /\ compareReplay'.status = "COMPARED"
       /\ replay[compareReplay'.baseline].start >= replay[compareReplay.baseline].start
       /\ replay[compareReplay'.mcg].start >= replay[compareReplay.mcg].start]_vars
=============================================================================
