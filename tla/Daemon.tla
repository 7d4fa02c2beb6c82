------------------------------- MODULE Daemon -------------------------------
(***************************************************************************)
(* The life of `mcg daemon` (apps/cli/src/mcg.mjs) and of its control      *)
(* endpoint (apps/edge/src/daemon/daemon-control.mjs): processes that race *)
(* for the file daemon.pid, publish daemon.control.json, shut down or die, *)
(* and `mcg daemon stop` commands that talk to them.                       *)
(*                                                                         *)
(* Every await of the code is a step of its own.  A process has a pid of   *)
(* its own and starts once.  The contents of daemon.pid are seen by name:  *)
(* a process that writes through a handle whose file another one has       *)
(* unlinked writes to nothing.  An error while the pid is written or the   *)
(* inbox read ends the process without cleaning up: that is Crash.         *)
(***************************************************************************)
EXTENDS Naturals, FiniteSets

CONSTANTS Proc,          \* the processes started by `mcg daemon`
          Stopper,       \* the processes started by `mcg daemon stop`
          Nobody,        \* no file, no pid, no process
          SerialStarts,  \* TRUE: one start at a time gets as far as an answer
          MaxCrash       \* how many processes die (a bound of the check)

ASSUME NobodyAssumption == Nobody \notin Proc
ASSUME SerialAssumption == SerialStarts \in BOOLEAN
ASSUME CrashAssumption == MaxCrash \in Nat

VARIABLES pc,       \* where each process is
          seen,     \* the pid a starting process has read in daemon.pid
          lock,     \* daemon.pid: who created it, and whether its pid is in it
          control,  \* daemon.control.json: whose endpoint it describes
          stop,     \* each stop command
          crashes   \* processes that have died so far

vars == <<pc, seen, lock, control, stop, crashes>>

-----------------------------------------------------------------------------
Starting == {"open", "read", "probe", "replace", "reopen"}
Serving == {"running", "removeControl", "closeServer"}
Holding == {"write", "consume", "listen", "unlinkLock"} \cup Serving
Gone == {"off", "refused", "exited", "crashed"}
Places == Starting \cup Holding \cup {"unlinkControl"} \cup Gone

Files == [by : Proc \cup {Nobody}, written : BOOLEAN]
NoFile == [by |-> Nobody, written |-> FALSE]

\* Faulty variant of Pid: the text of the file is taken for a pid.
PidUnparsed == <<lock.by, lock.written>>

\* What readFile(daemon.pid) shows: a pid, or Nobody for an empty string.
Pid == IF lock.written THEN lock.by ELSE Nobody

\* process.kill(pid, 0) does not throw ESRCH.  An empty file reads as
\* Number('') = 0, and signalling 0 succeeds.
Alive(pid) == pid = Nobody \/ pc[pid] \notin Gone

Goto(p, here, there) == pc[p] = here /\ pc' = [pc EXCEPT ![p] = there]

TypeOK ==
  /\ pc \in [Proc -> Places]
  /\ seen \in [Proc -> Proc \cup {Nobody}]
  /\ lock \in Files
  /\ control \in Proc \cup {Nobody}
  /\ stop \in [Stopper -> [at : {"idle", "pid", "post", "poll", "ok", "failed"},
                           to : Proc \cup {Nobody},
                           pid : Proc \cup {Nobody}]]
  /\ crashes \in 0..MaxCrash

Init ==
  /\ pc = [p \in Proc |-> "off"]
  /\ seen = [p \in Proc |-> Nobody]
  /\ lock = NoFile
  /\ control = Nobody
  /\ stop = [s \in Stopper |-> [at |-> "idle", to |-> Nobody, pid |-> Nobody]]
  /\ crashes = 0

-----------------------------------------------------------------------------
(* Starting: the exclusive open, and the recovery of a stale file. *)

Start(p) ==
  /\ SerialStarts => \A q \in Proc : pc[q] \notin Starting
  /\ Goto(p, "off", "open")
  /\ UNCHANGED <<seen, lock, control, stop, crashes>>

\* open(lockPath, 'wx') succeeds only if there is no file.
Create(p, here, otherwise) ==
  /\ IF lock = NoFile
     THEN Goto(p, here, "write") /\ lock' = [by |-> p, written |-> FALSE]
     ELSE Goto(p, here, otherwise) /\ UNCHANGED lock
  /\ UNCHANGED <<seen, control, stop, crashes>>

Open(p) == Create(p, "open", "read")

\* A file that has vanished meanwhile is an error other than ESRCH.
ReadLock(p) ==
  /\ Goto(p, "read", IF lock = NoFile THEN "refused" ELSE "probe")
  /\ seen' = [seen EXCEPT ![p] = Pid]
  /\ UNCHANGED <<lock, control, stop, crashes>>

\* Faulty variant of ProbePid: a process that does not serve yet counts as dead.
ProbeEndpointOnly(p) ==
  /\ Goto(p, "probe", IF seen[p] # Nobody /\ pc[seen[p]] \in Serving THEN "refused" ELSE "replace")
  /\ UNCHANGED <<seen, lock, control, stop, crashes>>

ProbePid(p) ==
  /\ Goto(p, "probe", IF Alive(seen[p]) THEN "refused" ELSE "replace")
  /\ UNCHANGED <<seen, lock, control, stop, crashes>>

\* Faulty variant of Replace: the stale file is not removed.
ReplaceNothing(p) ==
  /\ Goto(p, "replace", "reopen")
  /\ UNCHANGED <<seen, lock, control, stop, crashes>>

\* Whatever file is there now, not only the one that was read.
Replace(p) ==
  /\ Goto(p, "replace", "reopen")
  /\ lock' = NoFile
  /\ UNCHANGED <<seen, control, stop, crashes>>

Reopen(p) == Create(p, "reopen", "refused")

WritePid(p) ==
  /\ Goto(p, "write", "consume")
  /\ lock' = [lock EXCEPT !.written = @ \/ lock.by = p]
  /\ UNCHANGED <<seen, control, stop, crashes>>

Consume(p) ==
  /\ Goto(p, "consume", "listen")
  /\ UNCHANGED <<seen, lock, control, stop, crashes>>

\* Faulty variant of StartControl: a server that fails ends the process at once.
StartControlOrExit(p) ==
  /\ \/ Goto(p, "listen", "running") /\ control' = p
     \/ Goto(p, "listen", "exited") /\ UNCHANGED control
  /\ UNCHANGED <<seen, lock, stop, crashes>>

\* startDaemonControl: the server listens, then the descriptor is renamed
\* into place.  If it fails, the shutdown has no endpoint to close.
StartControl(p) ==
  /\ \/ Goto(p, "listen", "running") /\ control' = p
     \/ Goto(p, "listen", "unlinkLock") /\ UNCHANGED control
  /\ UNCHANGED <<seen, lock, stop, crashes>>

-----------------------------------------------------------------------------
(* Shutting down: control.close, then both files by name, then exit. *)

Signal(p) ==
  /\ Goto(p, "running", "removeControl")
  /\ UNCHANGED <<seen, lock, control, stop, crashes>>

\* Faulty variant of RemoveControl: daemon.pid goes with the descriptor.
RemoveFilesFirst(p) ==
  /\ Goto(p, "removeControl", "closeServer")
  /\ control' = Nobody
  /\ lock' = NoFile
  /\ UNCHANGED <<seen, stop, crashes>>

\* Faulty variant of RemoveControl: a missing descriptor is an error.
RemoveExistingControl(p) ==
  /\ control # Nobody
  /\ Goto(p, "removeControl", "closeServer")
  /\ control' = Nobody
  /\ UNCHANGED <<seen, lock, stop, crashes>>

RemoveControl(p) ==
  /\ Goto(p, "removeControl", "closeServer")
  /\ control' = Nobody
  /\ UNCHANGED <<seen, lock, stop, crashes>>

CloseServer(p) ==
  /\ Goto(p, "closeServer", "unlinkLock")
  /\ UNCHANGED <<seen, lock, control, stop, crashes>>

UnlinkLock(p) ==
  /\ Goto(p, "unlinkLock", "unlinkControl")
  /\ lock' = NoFile
  /\ UNCHANGED <<seen, control, stop, crashes>>

Exit(p) ==
  /\ Goto(p, "unlinkControl", "exited")
  /\ control' = Nobody
  /\ UNCHANGED <<seen, lock, stop, crashes>>

\* The process is killed; its files stay.
Crash(p) ==
  /\ pc[p] \notin Gone
  /\ crashes < MaxCrash
  /\ pc' = [pc EXCEPT ![p] = "crashed"]
  /\ crashes' = crashes + 1
  /\ UNCHANGED <<seen, lock, control, stop>>

-----------------------------------------------------------------------------
(* `mcg daemon stop`. *)

ReadControl(s) ==
  /\ stop[s].at = "idle"
  /\ stop' = [stop EXCEPT ![s] = [at |-> IF control = Nobody THEN "failed" ELSE "pid",
                                  to |-> control, pid |-> Nobody]]
  /\ UNCHANGED <<pc, seen, lock, control, crashes>>

ReadPid(s) ==
  /\ stop[s].at = "pid"
  /\ stop' = [stop EXCEPT ![s] = [at |-> "post", to |-> stop[s].to, pid |-> Pid]]
  /\ UNCHANGED <<pc, seen, lock, control, crashes>>

\* Only the process the descriptor names can answer 202; the first request
\* shuts it down.
PostStop(s) ==
  /\ stop[s].at = "post"
  /\ LET p == stop[s].to IN
     IF pc[p] \in Serving
     THEN /\ stop' = [stop EXCEPT ![s].at = "poll"]
          /\ pc' = IF pc[p] = "running" THEN [pc EXCEPT ![p] = "removeControl"] ELSE pc
     ELSE /\ stop' = [stop EXCEPT ![s].at = "failed"]
          /\ UNCHANGED pc
  /\ UNCHANGED <<seen, lock, control, crashes>>

\* The loop that reads daemon.pid until it is gone, or names another
\* process, or the deadline is over.
Poll(s) ==
  /\ stop[s].at = "poll"
  /\ \/ /\ Pid = Nobody \/ Pid # stop[s].pid
        /\ stop' = [stop EXCEPT ![s].at = "ok"]
     \/ stop' = [stop EXCEPT ![s].at = "failed"]
  /\ UNCHANGED <<pc, seen, lock, control, crashes>>

-----------------------------------------------------------------------------
Advance(p) ==
  \/ Open(p) \/ ReadLock(p) \/ ProbePid(p) \/ Replace(p) \/ Reopen(p)
  \/ WritePid(p) \/ Consume(p) \/ StartControl(p)
  \/ RemoveControl(p) \/ CloseServer(p) \/ UnlinkLock(p) \/ Exit(p)

StopStep(s) == ReadControl(s) \/ ReadPid(s) \/ PostStop(s) \/ Poll(s)

Next ==
  \/ \E p \in Proc : Advance(p) \/ Start(p) \/ Signal(p) \/ Crash(p)
  \/ \E s \in Stopper : StopStep(s)

Spec == Init /\ [][Next]_vars

\* A process that is started goes on unless it is killed: every await of the
\* code is on the file system or a socket of its own.
Fairness == \A p \in Proc : WF_vars(Advance(p))

FairSpec == Spec /\ Fairness

-----------------------------------------------------------------------------
(* Properties. *)

Holders == {p \in Proc : pc[p] \in Holding}

Holder == IF Holders = {} THEN Nobody ELSE CHOOSE p \in Holders : TRUE

Slot == INSTANCE DaemonSlot WITH holder <- Holder

\* At most one process holds the inbox, however starts, stops and deaths
\* follow one another, as long as starts do not overlap ("daemon already
\* running", mcg.mjs 155-158).
AtMostOneDaemon == \A p, q \in Holders : p = q

\* The same, as an implementation of one place: it is taken only when free.
OnePlace == Slot!Spec

\* When `mcg daemon stop` reports success, the daemon it spoke to serves no
\* more and has given up daemon.pid (daemon-control.mjs 88-101).
StopMeansStopped ==
  \A s \in Stopper : stop[s].at = "ok" => pc[stop[s].to] \notin Holding

\* Whoever started, raced or stopped, a daemon that is not killed leaves
\* nothing behind that could stop the next one (mcg.mjs 184-187).
CleanExit ==
  (crashes = 0 /\ \A p \in Proc : pc[p] \in Gone) => lock = NoFile /\ control = Nobody

\* Once a stop is accepted, the daemon ends (mcg.mjs 177-189).
AcceptedStopEnds ==
  \A s \in Stopper, p \in Proc :
     (stop[s].at = "poll" /\ stop[s].to = p) ~> (pc[p] \in Gone)

\* A start that meets the pid of a dead process becomes the daemon, unless it
\* is killed too (mcg.mjs 152-160).
StaleLock == Pid # Nobody /\ pc[Pid] = "crashed"
StaleLockRecovered ==
  \A p \in Proc : (pc[p] = "open" /\ StaleLock) ~> (pc[p] \in Holding \cup {"crashed"})

\* README.md:47, "A stale PID lock is recovered on the next start": no start
\* is refused over the file of a dead process.
StaleLockNeverRefuses ==
  [][\A p \in Proc : (pc[p] \in Starting /\ pc'[p] = "refused")
                        => ~(lock # NoFile /\ pc[lock.by] = "crashed")]_vars
=============================================================================
