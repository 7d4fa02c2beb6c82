----------------------------- MODULE TaskViews -----------------------------
(***************************************************************************)
(* Those who look at a task of the context gateway while its state is      *)
(* replaced (packages/context-gateway/src/core.mjs): waitForTerminal,      *)
(* which reads state.json and then watches it, and the reader of its       *)
(* result, who asks sliceEvidence for one page after the other.  How the   *)
(* state comes about is in TaskGateway.                                    *)
(***************************************************************************)
EXTENDS Naturals, Sequences, SequencesExt

CONSTANTS
  Waiter,
  Timed,      \* the waiters with a timeout
  Limit,      \* lines of a page
  Lengths,    \* lines a result may have
  MaxSaves    \* bound on the changes of the state

VARIABLES
  state,      \* state.json: its status, "gone" when the task is removed, the lines of its result, and how often it was saved
  wait,       \* each waiter: what it has read, whether its watcher has an event, or has lost the file
  reader      \* the reader of the result: the offset it goes on with, and the lines it has

vars == <<state, wait, reader>>

TERMINAL == {"DONE", "BLOCKED_OWNER"}

Waiting == [at |-> "idle", read |-> 0, since |-> 0, event |-> FALSE, blind |-> FALSE, timer |-> FALSE, answer |-> "none"]
Fresh == [at |-> "idle", offset |-> 0, got |-> << >>, began |-> 0]

Init ==
  /\ state = [status |-> "WORKING", lines |-> 0, version |-> 0]
  /\ wait = [w \in Waiter |-> Waiting]
  /\ reader = Fresh

-----------------------------------------------------------------------------
(* The state changes. *)

\* The file is replaced: whoever watches it has an event, and may have lost it, as watchers follow the file on some
\* systems and its name on others.
Replaced(there) ==
  /\ state' = there
  /\ \E lost \in SUBSET Waiter :
       wait' = [w \in Waiter |-> IF wait[w].at = "watching" /\ ~wait[w].blind
                                 THEN [wait[w] EXCEPT !.event = TRUE, !.blind = w \in lost] ELSE wait[w]]
  /\ UNCHANGED reader

saveState(status, lines) ==
  /\ state.status # "gone" /\ state.version < MaxSaves
  /\ Replaced([status |-> status, lines |-> lines, version |-> state.version + 1])

removeTask ==
  /\ state.status # "gone" /\ state.version < MaxSaves
  /\ Replaced([status |-> "gone", lines |-> 0, version |-> state.version + 1])

-----------------------------------------------------------------------------
(* waitForTerminal *)

\* compactResult
Answered(w, there) == [there EXCEPT !.at = "done", !.answer = state.status]
Failed(w, there, why) == [there EXCEPT !.at = "failed", !.answer = why]

\* What a read makes of a wait.
Look(w, there) ==
  CASE state.status = "gone" -> Failed(w, there, "gone")
    [] state.status \in TERMINAL -> Answered(w, there)
    [] OTHER -> there

Goto(w, there) == wait' = [wait EXCEPT ![w] = there] /\ UNCHANGED <<state, reader>>

waitForTerminal(w) ==
  /\ wait[w].at = "idle"
  /\ Goto(w, Look(w, [Waiting EXCEPT !.at = "read", !.read = state.version]))

\* A file that is gone cannot be watched.
StartWatch(w) ==
  /\ wait[w].at = "read"
  /\ Goto(w, IF state.status = "gone" THEN Failed(w, wait[w], "gone")
             ELSE [wait[w] EXCEPT !.at = "watching", !.since = state.version, !.timer = w \in Timed])

\* Faulty variant of Callback: only the first event is looked at.
CallbackOnce(w) ==
  /\ wait[w].at = "watching" /\ wait[w].event
  /\ Goto(w, IF wait[w].read > wait[w].since THEN [wait[w] EXCEPT !.event = FALSE]
             ELSE Look(w, [wait[w] EXCEPT !.event = FALSE, !.read = state.version]))

\* Faulty variant of Callback: an event stops the timer.
CallbackStopsTimer(w) ==
  /\ wait[w].at = "watching" /\ wait[w].event
  /\ Goto(w, Look(w, [wait[w] EXCEPT !.event = FALSE, !.read = state.version, !.timer = FALSE]))

\* An event of the watcher: the state is read again.
Callback(w) ==
  /\ wait[w].at = "watching" /\ wait[w].event
  /\ Goto(w, Look(w, [wait[w] EXCEPT !.event = FALSE, !.read = state.version]))

Timeout(w) ==
  /\ wait[w].at = "watching" /\ wait[w].timer
  /\ Goto(w, Failed(w, wait[w], "timeout"))

-----------------------------------------------------------------------------
(* sliceEvidence *)

\* Faulty variant of More: the last page, when it is full, is not the last.
MoreOrEqual(start, lines) == start + Limit <= lines

\* Whether a page tells to continue.
More(start, lines) == start + Limit < lines

Slice(start, lines) == [n \in 1..(IF start + Limit < lines THEN Limit ELSE IF start < lines THEN lines - start ELSE 0) |-> start + n]

\* Beyond the last line there is no page, except at the beginning.
sliceEvidence ==
  /\ reader.at # "done" /\ state.lines > 0
  /\ LET began == IF reader.at = "idle" THEN state.version ELSE reader.began
         page == Slice(reader.offset, state.lines)
     IN reader' = IF page = << >> /\ reader.offset > 0 THEN [reader EXCEPT !.at = "done", !.got = << >>]
                  ELSE [at |-> IF More(reader.offset, state.lines) THEN "more" ELSE "done", offset |-> reader.offset + Limit,
                        got |-> reader.got \o page, began |-> began]
  /\ UNCHANGED <<state, wait>>

Next ==
  \/ \E status \in TERMINAL \cup {"WORKING", "FAILED_FINAL"}, lines \in Lengths : saveState(status, lines)
  \/ removeTask
  \/ \E w \in Waiter : waitForTerminal(w) \/ StartWatch(w) \/ Callback(w) \/ Timeout(w)
  \/ sliceEvidence

\* The steps of a wait are taken, and timers fire.
Fairness == \A w \in Waiter : WF_vars(StartWatch(w)) /\ WF_vars(Callback(w)) /\ WF_vars(Timeout(w))
Spec == Init /\ [][Next]_vars /\ Fairness

-----------------------------------------------------------------------------
\* A wait misses a terminal state only if it was saved between the wait's first read and its watch, or after the watcher
\* has lost the file to an earlier change (core.mjs 165-170).
MissesOnlyInTheGap ==
  \A w \in Waiter : wait[w].at = "watching" /\ ~wait[w].event /\ state.status \in TERMINAL =>
    wait[w].blind \/ (wait[w].read < wait[w].since)

\* A wait with a timeout ends, whatever happens to the task, and also when its watcher has seen changes before
\* (core.mjs 173).
TimedWaitEnds == \A w \in Timed : (wait[w].at \in {"read", "watching"}) ~> (wait[w].at \in {"done", "failed"})

\* The pages that a reader is told to continue with are the whole result, each line once, when the result has not
\* changed meanwhile (core.mjs 185-190).
PagesJoin ==
  reader.at = "done" /\ reader.began = state.version => reader.got = [n \in 1..state.lines |-> n]
=============================================================================
