---------------------------- MODULE ProcessRunner ----------------------------
(***************************************************************************)
(* One child process under runProcess ("executor",                         *)
(* packages/execution/src/executor.mjs) or under SafeCommandRunner.run     *)
(* ("command", apps/edge/src/bridge/command-runner.ts), whose policy may   *)
(* refuse the command.  Both resolve on the child's close, which Node      *)
(* reports when the child is gone and nobody holds its output pipes        *)
(* any more.  Heartbeats, digests and redaction are left out.              *)
(***************************************************************************)
EXTENDS Naturals

CONSTANTS maxOutputBytes,  \* of the command runner
          MaxBytes,        \* bound on what a child writes
          None

VARIABLES
  runner,   \* which of the two
  child,    \* "none", "running", "exited"
  code,     \* its exit code, None if a signal ended it
  held,     \* a descendant of the child holds the pipes
  signals,  \* signals sent to the child
  refused,  \* signals the system would not send to it
  timer,    \* "off", "set", "fired"
  hard,     \* timers of SIGKILL that are set: an abort behind a timeout sets another
  flags,    \* those of "timed_out", "cancelled", "spawn_error" that are set
  written,  \* bytes the child has written
  kept,     \* bytes the runner has kept
  truncated,
  result    \* what the promise was settled with

vars == <<runner, child, code, held, signals, refused, timer, hard, flags, written, kept, truncated, result>>

\* Faulty variant of classifyExit: the exit code is looked at first.
classifyByCode(c, f) ==
  IF c = 0 THEN "SUCCESS"
  ELSE IF "spawn_error" \in f THEN "SPAWN_ERROR"
  ELSE IF "timed_out" \in f THEN "TIMEOUT"
  ELSE IF "cancelled" \in f THEN "CANCELLED"
  ELSE IF c = None THEN "SIGNAL" ELSE "NON_ZERO"

classifyExit(c, f) ==
  IF "spawn_error" \in f THEN "SPAWN_ERROR"
  ELSE IF "timed_out" \in f THEN "TIMEOUT"
  ELSE IF "cancelled" \in f THEN "CANCELLED"
  ELSE IF c = 0 THEN "SUCCESS"
  ELSE IF c = None THEN "SIGNAL" ELSE "NON_ZERO"

Settled == result # None

Init ==
  /\ runner = None /\ child = "none" /\ code = None /\ held = FALSE
  /\ signals = {} /\ refused = {} /\ timer = "off" /\ hard = 0 /\ flags = {}
  /\ written = 0 /\ kept = 0 /\ truncated = FALSE /\ result = None

\* The executor's signal is aborted already, or the program cannot be started (the command runner rejects).
CannotStart ==
  /\ child = "none" /\ ~Settled
  /\ runner' \in {"executor", "command"}
  /\ \/ /\ runner' = "executor"
        /\ flags' = flags \cup {"cancelled"}
     \/ flags' = flags \cup {"spawn_error"}
  /\ result' = IF runner' = "executor" THEN classifyExit(None, flags') ELSE "rejected"
  /\ UNCHANGED <<child, code, held, signals, refused, timer, hard, written, kept, truncated>>

Spawn ==
  /\ child = "none" /\ ~Settled
  /\ runner' \in {"executor", "command"}
  /\ child' = "running" /\ timer' = "set"
  /\ UNCHANGED <<code, held, signals, refused, hard, flags, written, kept, truncated, result>>

-----------------------------------------------------------------------------
(* The child and its descendants. *)

Fork ==
  /\ child = "running"
  /\ held' = TRUE
  /\ UNCHANGED <<runner, child, code, signals, refused, timer, hard, flags, written, kept, truncated, result>>

LetGo ==
  /\ held
  /\ held' = FALSE
  /\ UNCHANGED <<runner, child, code, signals, refused, timer, hard, flags, written, kept, truncated, result>>

\* It exits by itself, or a signal ends it, of the runner or of anybody; SIGTERM it may also ignore.
ChildExits ==
  /\ child = "running"
  /\ child' = "exited" /\ code' \in {0, 1, None}
  /\ UNCHANGED <<runner, held, signals, refused, timer, hard, flags, written, kept, truncated, result>>

\* Faulty variant of append: a chunk that finds no room is dropped and nothing said.
appendUntold(n) ==
  /\ kept' = IF runner = "executor" \/ kept + n <= maxOutputBytes THEN kept + n ELSE maxOutputBytes
  /\ truncated' = (truncated \/ (runner = "command" /\ kept < maxOutputBytes /\ kept + n > maxOutputBytes))

\* The executor keeps everything, the command runner what fits.
append(n) ==
  IF runner = "executor" THEN kept' = kept + n /\ UNCHANGED truncated
  ELSE IF truncated THEN UNCHANGED <<kept, truncated>>
  ELSE IF kept + n <= maxOutputBytes THEN kept' = kept + n /\ UNCHANGED truncated
  ELSE kept' = maxOutputBytes /\ truncated' = TRUE

Output(n) ==
  /\ (child = "running" \/ held) /\ written + n <= MaxBytes /\ ~Settled /\ child # "none"
  /\ written' = written + n
  /\ append(n)
  /\ UNCHANGED <<runner, child, code, held, signals, refused, timer, hard, flags, result>>

-----------------------------------------------------------------------------
(* The runner's callbacks. *)

\* child.kill.  What is gone is not signalled.  A signal the system refuses is an error event: the executor remembers
\* it for its classification, the command runner rejects (a second one finds no listener there and is left out).
kill(signal, raised) ==
  \/ /\ signals' = IF child = "running" THEN signals \cup {signal} ELSE signals
     /\ flags' = raised
     /\ UNCHANGED <<refused, result>>
  \/ /\ child = "running" /\ ~(runner = "command" /\ Settled)
     /\ refused' = refused \cup {signal}
     /\ IF runner = "executor" THEN flags' = raised \cup {"spawn_error"} /\ UNCHANGED result
        ELSE flags' = raised /\ result' = "rejected"
     /\ UNCHANGED signals

\* SIGTERM, and a timer of SIGKILL.
stop(flag) == kill("SIGTERM", flags \cup {flag}) /\ hard' = hard + 1

Timeout ==
  /\ timer = "set" /\ ~Settled
  /\ timer' = "fired"
  /\ stop("timed_out")
  /\ UNCHANGED <<runner, child, code, held, written, kept, truncated>>

Abort ==
  /\ runner = "executor" /\ child # "none" /\ ~Settled /\ "cancelled" \notin flags
  /\ stop("cancelled")
  /\ UNCHANGED <<runner, child, code, held, timer, written, kept, truncated>>

\* Faulty variant of HardKill: SIGTERM again.
HardKillTerm ==
  /\ hard > 0
  /\ hard' = hard - 1
  /\ kill("SIGTERM", flags)
  /\ UNCHANGED <<runner, child, code, held, timer, written, kept, truncated>>

\* The executor's does nothing once the child has left an exit code.  A refused SIGKILL is not sent again.
HardKill ==
  /\ hard > 0
  /\ hard' = hard - 1
  /\ IF runner = "command" \/ (~Settled /\ code = None) THEN kill("SIGKILL", flags)
     ELSE UNCHANGED <<signals, refused, flags, result>>
  /\ UNCHANGED <<runner, child, code, held, timer, written, kept, truncated>>

\* finish: the first settlement counts, and clears the timers (the command runner's SIGKILL, and one of two of the
\* executor's, stays set).
Close ==
  /\ child = "exited" /\ ~held /\ ~Settled
  /\ timer' = "off" /\ hard' = IF runner = "executor" /\ hard > 0 THEN hard - 1 ELSE hard
  /\ result' = IF runner = "executor" THEN classifyExit(code, flags) ELSE "resolved"
  /\ UNCHANGED <<runner, child, code, held, signals, refused, flags, written, kept, truncated>>

Next ==
  \/ CannotStart \/ Spawn \/ Fork \/ LetGo \/ ChildExits \/ Timeout \/ Abort \/ HardKill \/ Close
  \/ \E n \in 1..MaxBytes : Output(n)

\* The timers of a process that lives fire, Node reports the close, and a SIGKILL that was sent ends the child.
Fairness == /\ WF_vars(Timeout) /\ WF_vars(HardKill) /\ WF_vars(Close)
            /\ WF_vars("SIGKILL" \in signals /\ ChildExits)

Spec == Init /\ [][Next]_vars /\ Fairness

-----------------------------------------------------------------------------
TypeOK ==
  /\ runner \in {None, "executor", "command"} /\ child \in {"none", "running", "exited"} /\ code \in {None, 0, 1} /\ held \in BOOLEAN
  /\ signals \subseteq {"SIGTERM", "SIGKILL"} /\ refused \subseteq {"SIGTERM", "SIGKILL"}
  /\ timer \in {"off", "set", "fired"} /\ hard \in 0..2
  /\ flags \subseteq {"timed_out", "cancelled", "spawn_error"}
  /\ kept <= written /\ written \in 0..MaxBytes /\ truncated \in BOOLEAN
  /\ result \in {None, "rejected", "resolved", "SPAWN_ERROR", "TIMEOUT", "CANCELLED", "SUCCESS", "SIGNAL", "NON_ZERO"}

\* A run ends, whatever the child makes of SIGTERM (executor.mjs 113-123, command-runner.ts 97-103), unless
\* the child is gone and a descendant it left behind holds the pipes, or SIGKILL was refused and the child goes on.
RunSettles ==
  child = "running" ~> \/ Settled \/ (child = "exited" /\ held)
                       \/ child = "running" /\ "SIGKILL" \in refused \ signals /\ hard = 0

\* The executor reports success only of a child that ended by itself with code 0 before anybody stopped it
\* (executor.mjs 23-30, 65-73), whichever of exit, timeout, abort and error comes first.
SuccessIsUndisturbed == result = "SUCCESS" => code = 0 /\ signals = {}

\* What the command runner keeps is cut at the limit, and said to be cut exactly if something is missing,
\* however the output falls into chunks (command-runner.ts 84-93).
CutIsTold ==
  runner = "command" => /\ kept = IF written <= maxOutputBytes THEN written ELSE maxOutputBytes
                        /\ truncated <=> written > kept
=============================================================================
