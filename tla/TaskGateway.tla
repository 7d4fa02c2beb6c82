----------------------------- MODULE TaskGateway -----------------------------
(***************************************************************************)
(* The events of one task in the context gateway: executors put files into *)
(* events/inbox, the daemon's consume (apps/cli/src/mcg.mjs 161-168, 191)  *)
(* hands each to ingest (packages/context-gateway/src/core.mjs 128-160),   *)
(* which updates state.json, events.jsonl and result.json.                 *)
(*                                                                         *)
(* The calls of consume in one process share its temporary file; `mcg      *)
(* cancel` is a process of its own that loads the state, changes it and    *)
(* saves it whatever the daemon is doing.  Events are well formed; what    *)
(* only feeds traces, telemetry, the bus and the history is left out, and  *)
(* the files written after result.json are written with it.                *)
(*                                                                         *)
(* raced and mark are history variables: no action reads them.             *)
(***************************************************************************)
EXTENDS Naturals, Sequences, FiniteSets

CONSTANTS File,        \* event files an executor may write
          Event,       \* events
          EventIn,     \* the event in each file
          Epoch,       \* event -> its epoch, or None
          SeqNo,       \* event -> its sequence, or None
          Snapshot,    \* events with snapshot: true
          Status,      \* event -> the internal state it carries
          Consumer,    \* calls of consume: how many may be in progress at once
          Canceller,   \* calls of `mcg cancel`
          MaxCrash,    \* how often the daemon dies (a bound of the check)
          None

States == {"DISPATCHED", "WORKING", "DONE", "BLOCKED", "FAILED_FINAL", "CANCELLED"}

ASSUME EventAssumption ==
  /\ EventIn \in [File -> Event]
  /\ SeqNo \in [Event -> Nat \cup {None}]
  /\ Status \in [Event -> States]
  /\ Snapshot \subseteq Event
  /\ None \notin Event \cup Nat \cup File
  /\ Consumer \cap Canceller = {}
  /\ MaxCrash \in Nat

VARIABLES arrived,   \* files written so far
          inbox,     \* files in events/inbox
          state,     \* state.json
          temp,      \* state.json.<pid>.tmp of the daemon
          log,       \* events.jsonl
          result,    \* result.json
          run,       \* each call of consume
          cancel,    \* each call of cancel
          daemon,    \* "down", "starting" (no watcher yet), "watching"
          signal,    \* the watcher has a change of the inbox to report
          crashes,
          raced,     \* calls whose read of the state another call has overtaken
          mark       \* events logged when such a call last wrote

history == <<raced, mark>>
vars == <<arrived, inbox, state, temp, log, result, run, cancel, daemon, signal, crashes, history>>

-----------------------------------------------------------------------------
(* ingest, as functions of the state it has read. *)

Externals == {"DONE", "BLOCKED_OWNER"}

NoResult == [status |-> None, from |-> None]

Dispatched == [internal |-> "DISPATCHED", external |-> None, last |-> None,
               epoch |-> None, seq |-> None]

\* Faulty variant of External: every state is shown to the owner.
ExternalAlways(e) == Status[e]

External(e) == CASE Status[e] = "DONE" -> "DONE"
                 [] Status[e] = "BLOCKED" -> "BLOCKED_OWNER"
                 [] OTHER -> None

EpochChanged(s, e) == Epoch[e] # None /\ s.epoch # None /\ Epoch[e] # s.epoch

ResyncRequired(s, e) == EpochChanged(s, e) /\ e \notin Snapshot

\* Faulty variant of Deduped: only the last event is recognised.
DedupedById(s, e) == s.last = e

Deduped(s, e) ==
  \/ s.last = e
  \/ ~EpochChanged(s, e) /\ SeqNo[e] # None /\ s.seq # None /\ SeqNo[e] <= s.seq

Updated(s, e) ==
  [internal |-> Status[e],
   external |-> External(e),
   last |-> e,
   epoch |-> IF Epoch[e] # None THEN Epoch[e] ELSE s.epoch,
   seq |-> IF EpochChanged(s, e) \/ SeqNo[e] # None THEN SeqNo[e] ELSE s.seq]

\* compactResult of an updated state.
Compact(s) == [status |-> s.external, from |-> s.last]

-----------------------------------------------------------------------------
Idle == [at |-> "idle", todo |-> {}, file |-> None, copy |-> Dispatched]

\* A call that has listed the inbox.
Listing == [at |-> "next", todo |-> inbox, file |-> None, copy |-> Dispatched]

AllIdle == \A c \in Consumer : run[c] = Idle

StateFiles ==
  [internal : States, external : Externals \cup {None}, last : Event \cup {None},
   epoch : {Epoch[e] : e \in Event} \cup {None}, seq : Nat \cup {None}]

Runs ==
  [at : {"idle", "next", "read", "write", "rename", "log", "result", "unlink"},
   todo : SUBSET File, file : File \cup {None}, copy : StateFiles]

TypeOK ==
  /\ inbox \subseteq arrived /\ arrived \subseteq File
  /\ state \in StateFiles
  /\ temp \in StateFiles \cup {None}
  /\ log \in Seq(Event)
  /\ result \in [status : Externals, from : Event] \cup {NoResult}
  /\ run \in [Consumer -> Runs]
  /\ cancel \in [Canceller -> [at : {"ready", "loaded", "done"}, copy : StateFiles]]
  /\ daemon \in {"down", "starting", "watching"}
  /\ signal \in BOOLEAN
  /\ crashes \in 0..MaxCrash
  /\ raced \subseteq Consumer \cup Canceller
  /\ mark \in Nat

Init ==
  /\ arrived = {} /\ inbox = {}
  /\ state = Dispatched
  /\ temp = None
  /\ log = << >>
  /\ result = NoResult
  /\ run = [c \in Consumer |-> Idle]
  /\ cancel = [k \in Canceller |-> [at |-> "ready", copy |-> Dispatched]]
  /\ daemon = "down"
  /\ signal = FALSE
  /\ crashes = 0
  /\ raced = {} /\ mark = 0

-----------------------------------------------------------------------------
(* History: which calls have been overtaken. *)

\* The calls that have read the state and are not done with it.
InProgress ==
  {c \in Consumer : run[c].at \in {"write", "rename", "log", "result", "unlink"}}
    \cup {k \in Canceller : cancel[k].at = "loaded"}

\* w saves the state: the others have read an older one.
Overtakes(w) == raced' = raced \cup (InProgress \ {w})

Finishes(w) == raced' = raced \ {w}

\* w writes; if it was overtaken, n events are logged after its step.
Marks(w, n) == mark' = IF w \in raced THEN n ELSE mark

-----------------------------------------------------------------------------
(* Executors, the daemon's life, and `mcg cancel`. *)

\* A change of the directory reaches the watcher only once there is one.
Changed == signal' = (signal \/ daemon = "watching")

Deliver(f) ==
  /\ f \notin arrived
  /\ arrived' = arrived \cup {f}
  /\ inbox' = inbox \cup {f}
  /\ Changed
  /\ UNCHANGED <<state, temp, log, result, run, cancel, daemon, crashes, history>>


\* The daemon consumes what is there before it watches.
StartDaemon(c) ==
  /\ daemon = "down"
  /\ daemon' = "starting"
  /\ run' = [run EXCEPT ![c] = Listing]
  /\ UNCHANGED <<arrived, inbox, state, temp, log, result, cancel, signal, crashes, history>>

Watch ==
  /\ daemon = "starting" /\ AllIdle
  /\ daemon' = "watching"
  /\ UNCHANGED <<arrived, inbox, state, temp, log, result, run, cancel, signal, crashes, history>>

\* A reported change calls consume, whether or not another call is in progress;
\* one change may be reported again.
Notice(c) ==
  /\ signal
  /\ run[c] = Idle
  /\ signal' \in BOOLEAN
  /\ run' = [run EXCEPT ![c] = Listing]
  /\ UNCHANGED <<arrived, inbox, state, temp, log, result, cancel, daemon, crashes, history>>

Crash ==
  /\ daemon # "down"
  /\ crashes < MaxCrash
  /\ crashes' = crashes + 1
  /\ daemon' = "down"
  /\ run' = [c \in Consumer |-> Idle]
  /\ signal' = FALSE
  /\ temp' = None
  /\ raced' = raced \cap Canceller
  /\ UNCHANGED <<arrived, inbox, state, log, result, cancel, mark>>

\* `mcg cancel` loads the state ...
CancelLoad(k) ==
  /\ cancel[k].at = "ready"
  /\ cancel' = [cancel EXCEPT ![k] = [at |-> "loaded",
                                     copy |-> [state EXCEPT !.internal = "CANCELLED"]]]
  /\ UNCHANGED <<arrived, inbox, state, temp, log, result, run, daemon, signal, crashes, history>>

\* ... and saves it, through a temporary file of its own process.
CancelSave(k) ==
  /\ cancel[k].at = "loaded"
  /\ state' = cancel[k].copy
  /\ cancel' = [cancel EXCEPT ![k] = [at |-> "done", copy |-> Dispatched]]
  /\ raced' = (raced \cup InProgress) \ {k}
  /\ Marks(k, Len(log))
  /\ UNCHANGED <<arrived, inbox, temp, log, result, run, daemon, signal, crashes>>

-----------------------------------------------------------------------------
(* One call of consume. *)

Step(c, here, next) == run[c].at = here /\ run' = [run EXCEPT ![c] = next]
At(c, here, there) == Step(c, here, [run[c] EXCEPT !.at = there])

\* ingest returns, or consume goes on to the next name.
Ends(c, here) == Step(c, here, [run[c] EXCEPT !.at = "unlink", !.copy = Dispatched])
Skips(c, here) == Step(c, here, [run[c] EXCEPT !.at = "next", !.file = None, !.copy = Dispatched])

\* The next name of the listing; a file that is gone meanwhile is skipped.
NextFile(c) ==
  /\ IF run[c].todo = {} THEN Step(c, "next", Idle)
     ELSE \E f \in run[c].todo :
            Step(c, "next", [run[c] EXCEPT !.at = IF f \in inbox THEN "read" ELSE "next",
                                           !.todo = @ \ {f},
                                           !.file = IF f \in inbox THEN f ELSE None])
  /\ UNCHANGED <<arrived, inbox, state, temp, log, result, cancel, daemon, signal, crashes, history>>

\* Faulty variant of Read: the file of an event that is not taken stays.
ReadKeepingFile(c) ==
  /\ run[c].at = "read"
  /\ LET e == EventIn[run[c].file] IN
     IF ResyncRequired(state, e) \/ Deduped(state, e)
     THEN Skips(c, "read")
     ELSE Step(c, "read", [run[c] EXCEPT !.at = "write", !.copy = Updated(state, e)])
  /\ UNCHANGED <<arrived, inbox, state, temp, log, result, cancel, daemon, signal, crashes, history>>

\* The event is compared with the state read; the file of one that is not
\* taken is removed all the same.
Read(c) ==
  /\ run[c].at = "read"
  /\ LET e == EventIn[run[c].file] IN
     IF ResyncRequired(state, e) \/ Deduped(state, e)
     THEN Ends(c, "read")
     ELSE Step(c, "read", [run[c] EXCEPT !.at = "write", !.copy = Updated(state, e)])
  /\ UNCHANGED <<arrived, inbox, state, temp, log, result, cancel, daemon, signal, crashes, history>>

\* atomicJson: writeFile of the temporary file, then rename.  A call that was
\* about to rename it has lost its own content.
WriteTemp(c) ==
  /\ At(c, "write", "rename")
  /\ temp' = run[c].copy
  /\ raced' = raced \cup {d \in Consumer \ {c} : run[d].at = "rename"}
  /\ UNCHANGED <<arrived, inbox, state, log, result, cancel, daemon, signal, crashes, mark>>

\* Faulty variant of Rename: the file goes before the state is replaced.
RenameAtOnce(c) ==
  /\ At(c, "rename", "log")
  /\ inbox' = inbox \ {run[c].file}
  /\ state' = temp
  /\ temp' = None
  /\ Overtakes(c)
  /\ Marks(c, Len(log))
  /\ UNCHANGED <<arrived, log, result, cancel, daemon, signal, crashes>>

\* The rename publishes whatever the file holds; it fails, and with it ingest,
\* if another call has renamed the file away.
Rename(c) ==
  /\ IF temp = None
     THEN Skips(c, "rename") /\ Finishes(c) /\ UNCHANGED <<state, mark>>
     ELSE At(c, "rename", "log") /\ state' = temp /\ Overtakes(c) /\ Marks(c, Len(log))
  /\ temp' = None
  /\ UNCHANGED <<arrived, inbox, log, result, cancel, daemon, signal, crashes>>

\* Faulty variant of AppendLog: a blocked task gets no result.
AppendLogDoneOnly(c) ==
  /\ IF run[c].copy.external = "DONE" THEN At(c, "log", "result") ELSE Ends(c, "log")
  /\ log' = Append(log, EventIn[run[c].file])
  /\ Marks(c, Len(log) + 1)
  /\ UNCHANGED <<arrived, inbox, state, temp, result, cancel, daemon, signal, crashes, raced>>

AppendLog(c) ==
  /\ IF run[c].copy.external \in Externals THEN At(c, "log", "result") ELSE Ends(c, "log")
  /\ log' = Append(log, EventIn[run[c].file])
  /\ Marks(c, Len(log) + 1)
  /\ UNCHANGED <<arrived, inbox, state, temp, result, cancel, daemon, signal, crashes, raced>>

WriteResult(c) ==
  /\ Ends(c, "result")
  /\ result' = Compact(run[c].copy)
  /\ Marks(c, Len(log))
  /\ UNCHANGED <<arrived, inbox, state, temp, log, cancel, daemon, signal, crashes, raced>>

\* The end of ingest, and the removal of the file: it fails if another call has
\* removed it.
Unlink(c) ==
  /\ Skips(c, "unlink")
  /\ inbox' = inbox \ {run[c].file}
  /\ IF run[c].file \in inbox THEN Changed ELSE UNCHANGED signal
  /\ Finishes(c)
  /\ UNCHANGED <<arrived, state, temp, log, result, cancel, daemon, crashes, mark>>

Consume(c) ==
  NextFile(c) \/ Read(c) \/ WriteTemp(c) \/ Rename(c) \/ AppendLog(c)
    \/ WriteResult(c) \/ Unlink(c)

Next ==
  \/ \E f \in File : Deliver(f)
  \/ \E c \in Consumer : StartDaemon(c) \/ Notice(c) \/ Consume(c)
  \/ \E k \in Canceller : CancelLoad(k) \/ CancelSave(k)
  \/ Watch \/ Crash

Spec == Init /\ [][Next]_vars

\* A daemon that runs goes on; it is started again after a crash.  Nothing makes
\* anybody cancel, nor a cancel that was begun go on.
Fairness ==
  /\ WF_vars(Watch)
  /\ \A c \in Consumer : WF_vars(StartDaemon(c)) /\ WF_vars(Notice(c)) /\ WF_vars(Consume(c))

FairSpec == Spec /\ Fairness

-----------------------------------------------------------------------------
(* Properties. *)

\* Within an epoch the log is in the order of the executor's sequence, and no
\* event is in it twice, whatever is delivered late or again, wherever the daemon
\* dies and whoever cancels (the comparison in ingest, core.mjs 139-141).  It
\* starts anew after a write of a call that another has overtaken.
LogInOrder ==
  \A i, j \in DOMAIN log :
     /\ mark < i /\ i < j
     /\ Epoch[log[i]] = Epoch[log[j]]
     /\ SeqNo[log[i]] # None /\ SeqNo[log[j]] # None
     => SeqNo[log[i]] < SeqNo[log[j]]

\* The file of an event is removed only when the state has reached the event, or
\* is in another epoch: a crash before that leaves the file for the next daemon
\* (mcg.mjs 165).  Only a call that another has overtaken may remove an event
\* that the state has lost.
RemovedWhenReflected ==
  [][\A f \in inbox \ inbox' :
       LET e == EventIn[f] IN
       \/ Epoch[e] = state.epoch /\ SeqNo[e] # None
            => state.seq # None /\ SeqNo[e] <= state.seq
       \/ \E c \in Consumer \cap raced : run[c].file = f /\ run[c] # run'[c]]_vars

\* Within an epoch the state goes back only where an overtaken call of consume or
\* of cancel saves what it made of an older one (core.mjs 141, mcg.mjs 138).
StateAdvances ==
  [][\/ state'.epoch = state.epoch /\ state.seq # None
          => state'.seq # None /\ state.seq <= state'.seq
     \/ \E c \in Consumer \cap raced : run[c].at = "rename" /\ run[c] # run'[c]
     \/ \E k \in Canceller \cap raced : cancel[k] # cancel'[k]]_vars

\* When no call of consume is in progress in a daemon that never died, the result of
\* a finished or blocked task is the one of its last event, also after calls have
\* overtaken each other as soon as one that was not overtaken has logged its event
\* (core.mjs 149-153).
ResultMatchesState ==
  AllIdle /\ crashes = 0 /\ mark < Len(log) /\ state.external # None => result = Compact(state)

\* What ingest keeps of a task agrees: the log with the executor's order, the result with the state.
RecordsAgree == LogInOrder /\ ResultMatchesState

\* A call is about to find that another has renamed its temporary file away.
Robbed(f) == temp = None /\ \E c \in Consumer : run[c].at = "rename" /\ run[c].file = f


\* tests/integration/daemon.integration.test.mjs:146: after the event DONE, the
\* last of its sequence, has been consumed, the task's state is DONE.
DoneIsReached ==
  AllIdle /\ inbox = {} /\ (\E f \in arrived : /\ Status[EventIn[f]] = "DONE"
                                               /\ \A g \in arrived : SeqNo[EventIn[g]] <= SeqNo[EventIn[f]])
     => state.internal \in {"DONE", "CANCELLED"}
=============================================================================
