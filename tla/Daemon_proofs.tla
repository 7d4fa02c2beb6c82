---------------------------- MODULE Daemon_proofs ----------------------------
(***************************************************************************)
(* Proofs about Daemon for any processes, stop commands and deaths, when   *)
(* starts do not overlap.                                                  *)
(***************************************************************************)
EXTENDS Daemon, TLAPS

\* Every label of the code is a place, and the file system's values are files.
LEMMA PlaceNames ==
  /\ {"open", "read", "probe", "replace", "reopen", "write", "consume", "listen",
      "running", "removeControl", "closeServer", "unlinkLock", "unlinkControl",
      "off", "refused", "exited", "crashed"} = Places
  /\ NoFile \in Files
  BY DEF Places, Starting, Holding, Serving, Gone, NoFile, Files

\* Type correctness, for overlapping starts too.
THEOREM TypeCorrect == Spec => []TypeOK
<1>1. Init => TypeOK
  BY CrashAssumption, PlaceNames DEF Init, TypeOK
<1>2. TypeOK /\ [Next]_vars => TypeOK'
  <2> SUFFICES ASSUME TypeOK, [Next]_vars PROVE TypeOK'
    OBVIOUS
  <2> USE PlaceNames DEF TypeOK
  <2>1. ASSUME NEW p \in Proc, Advance(p) PROVE TypeOK'
    <3>1. pc' \in [Proc -> Places]
      BY <2>1 DEF Advance, Open, ReadLock, ProbePid, Replace, Reopen, Create, WritePid,
                  Consume, StartControl, RemoveControl, CloseServer, UnlinkLock, Exit, Goto
    <3>2. lock' \in Files
      <4>1. CASE Open(p) \/ Reopen(p)
        <5>1. lock' = [by |-> p, written |-> FALSE] \/ lock' = lock
          BY <4>1 DEF Open, Reopen, Create
        <5>2. [by |-> p, written |-> FALSE] \in Files
          BY DEF Files
        <5> QED
          BY <5>1, <5>2
      <4>2. CASE WritePid(p)
        BY <4>2 DEF WritePid, Files
      <4> QED
        BY <2>1, <4>1, <4>2 DEF Advance, ReadLock, ProbePid, Replace, Consume,
             StartControl, RemoveControl, CloseServer, UnlinkLock, Exit
    <3>3. seen' \in [Proc -> Proc \cup {Nobody}]
      BY <2>1 DEF Advance, Open, ReadLock, ProbePid, Replace, Reopen, Create, WritePid,
           Consume, StartControl, RemoveControl, CloseServer, UnlinkLock, Exit, Pid, Files
    <3>4. control' \in Proc \cup {Nobody} /\ UNCHANGED <<stop, crashes>>
      BY <2>1 DEF Advance, Open, ReadLock, ProbePid, Replace, Reopen, Create, WritePid,
           Consume, StartControl, RemoveControl, CloseServer, UnlinkLock, Exit
    <3> QED
      BY <3>1, <3>2, <3>3, <3>4
  <2>2. ASSUME NEW p \in Proc, Start(p) \/ Signal(p) PROVE TypeOK'
    BY <2>2 DEF Start, Signal, Goto
  <2>3. ASSUME NEW p \in Proc, Crash(p) PROVE TypeOK'
    BY <2>3, CrashAssumption DEF Crash
  <2>4. ASSUME NEW s \in Stopper, ReadControl(s) PROVE TypeOK'
    BY <2>4 DEF ReadControl
  <2>5. ASSUME NEW s \in Stopper, ReadPid(s) PROVE TypeOK'
    <3>1. Pid \in Proc \cup {Nobody}
      BY DEF Pid, Files
    <3> QED
      BY <2>5, <3>1 DEF ReadPid
  <2>6. ASSUME NEW s \in Stopper, PostStop(s) PROVE TypeOK'
    BY <2>6 DEF PostStop
  <2>7. ASSUME NEW s \in Stopper, Poll(s) PROVE TypeOK'
    BY <2>7 DEF Poll
  <2>8. CASE UNCHANGED vars
    BY <2>8 DEF vars
  <2> QED
    BY <2>1, <2>2, <2>3, <2>4, <2>5, <2>6, <2>7, <2>8 DEF Next, StopStep
<1> QED
  BY <1>1, <1>2, PTL DEF Spec

-----------------------------------------------------------------------------
(* The inductive invariant. *)

\* The file always names the process that holds the place.
FileNamesHolder ==
  \A p \in Holders : lock = [by |-> p, written |-> pc[p] # "write"]

OneStart == \A p, q \in Proc : pc[p] \in Starting /\ pc[q] \in Starting => p = q

\* While a start looks at a pid nobody else can take the place; when it has
\* found the pid dead, nobody has it.
StartIsInformed ==
  \A p \in Proc :
    /\ pc[p] = "probe" => \A q \in Holders : seen[p] \in {q, Nobody}
    /\ pc[p] \in {"replace", "reopen"} => Holders = {}

\* Processes that have published their endpoint, or never will again.
Published == Serving \cup {"unlinkLock", "unlinkControl", "exited", "crashed"}

StopsKnowTarget ==
  /\ control # Nobody => pc[control] \in Published
  /\ \A s \in Stopper :
       /\ stop[s].at \in {"pid", "post", "poll", "ok"} =>
            stop[s].to \in Proc /\ pc[stop[s].to] \in Published
       /\ stop[s].at = "post" /\ pc[stop[s].to] \in Serving => stop[s].pid = stop[s].to
       /\ stop[s].at = "poll" /\ pc[stop[s].to] \in Holding => stop[s].pid = stop[s].to

PlaceInv == FileNamesHolder /\ OneStart /\ StartIsInformed

StopInv == StopsKnowTarget /\ StopMeansStopped

LEMMA HolderUnique == FileNamesHolder => AtMostOneDaemon
  BY DEF FileNamesHolder, AtMostOneDaemon, Holders

\* The exclusive open: it succeeds only for the first of the holders.
LEMMA CreateKeepsPlace ==
  ASSUME TypeOK, PlaceInv, NEW p \in Proc, Open(p) \/ Reopen(p)
  PROVE  PlaceInv'
<1> USE DEF TypeOK, PlaceInv, FileNamesHolder, OneStart, StartIsInformed, Holders,
            Starting, Holding, Serving
<1>1. pc[p] \in Starting /\ UNCHANGED seen
  BY DEF Open, Reopen, Create, Goto
<1>2. CASE lock = NoFile
  <2>1. Holders = {}
    BY <1>2, NobodyAssumption DEF NoFile
  <2>2. pc' = [pc EXCEPT ![p] = "write"] /\ lock' = [by |-> p, written |-> FALSE]
    BY <1>2 DEF Open, Reopen, Create, Goto
  <2> QED
    BY <1>1, <2>1, <2>2
<1>3. CASE lock # NoFile
  <2>1. /\ pc' = [pc EXCEPT ![p] = "read"] \/ pc' = [pc EXCEPT ![p] = "refused"]
        /\ UNCHANGED lock
    BY <1>3 DEF Open, Reopen, Create, Goto
  <2> QED
    BY <1>1, <2>1
<1> QED
  BY <1>2, <1>3

\* A start reads the pid of whoever holds the place, and replaces the file of
\* a process that holds it no more.
LEMMA InspectKeepsPlace ==
  ASSUME TypeOK, PlaceInv, NEW p \in Proc, ReadLock(p) \/ ProbePid(p) \/ Replace(p)
  PROVE  PlaceInv'
<1> USE DEF TypeOK, PlaceInv, FileNamesHolder, OneStart, StartIsInformed, Holders,
            Starting, Holding, Serving
<1>1. CASE ReadLock(p)
  <2>1. \A q \in Holders : Pid \in {q, Nobody}
    BY DEF Pid
  <2> QED
    BY <1>1, <2>1 DEF ReadLock, Goto
<1>2. CASE ProbePid(p)
  <2>1. CASE Alive(seen[p])
    BY <1>2, <2>1 DEF ProbePid, Goto
  <2>2. CASE ~Alive(seen[p])
    <3>1. Holders = {}
      BY <1>2, <2>2 DEF ProbePid, Goto, Alive, Gone
    <3> QED
      BY <1>2, <2>2, <3>1 DEF ProbePid, Goto
  <2> QED
    BY <2>1, <2>2
<1>3. CASE Replace(p)
  BY <1>3 DEF Replace, Goto
<1> QED
  BY <1>1, <1>2, <1>3

\* Inside the place the file changes only when its pid is written and when it
\* is removed at the end.
LEMMA HoldingKeepsPlace ==
  ASSUME TypeOK, PlaceInv, NEW p \in Proc,
         WritePid(p) \/ Consume(p) \/ StartControl(p) \/ Signal(p)
           \/ RemoveControl(p) \/ CloseServer(p) \/ UnlinkLock(p)
  PROVE  PlaceInv'
<1> USE DEF TypeOK, PlaceInv, FileNamesHolder, OneStart, StartIsInformed, Holders,
            Starting, Holding, Serving
<1>1. CASE WritePid(p)
  BY <1>1, HolderUnique DEF WritePid, Goto, AtMostOneDaemon, Files
<1>2. CASE UnlinkLock(p)
  BY <1>2, HolderUnique DEF UnlinkLock, Goto, AtMostOneDaemon
<1>3. CASE Consume(p) \/ StartControl(p) \/ Signal(p) \/ RemoveControl(p) \/ CloseServer(p)
  BY <1>3 DEF Consume, StartControl, Signal, RemoveControl, CloseServer, Goto
<1> QED
  BY <1>1, <1>2, <1>3

\* Beginning a start alone, exiting and dying leave the file alone.
LEMMA OutsideKeepsPlace ==
  ASSUME TypeOK, PlaceInv, SerialStarts, NEW p \in Proc,
         Start(p) \/ Exit(p) \/ Crash(p)
  PROVE  PlaceInv'
<1> USE DEF TypeOK, PlaceInv, FileNamesHolder, OneStart, StartIsInformed, Holders,
            Starting, Holding, Serving
<1>1. CASE Start(p)
  BY <1>1 DEF Start, Goto
<1>2. CASE Exit(p)
  BY <1>2 DEF Exit, Goto
<1>3. CASE Crash(p)
  BY <1>3 DEF Crash
<1> QED
  BY <1>1, <1>2, <1>3

\* The stop command moves only a process that serves.
LEMMA StopKeepsPlace ==
  ASSUME TypeOK, PlaceInv, NEW s \in Stopper, StopStep(s)
  PROVE  PlaceInv'
<1> USE DEF TypeOK, PlaceInv, FileNamesHolder, OneStart, StartIsInformed, Holders,
            Starting, Holding, Serving
<1>1. CASE PostStop(s)
  BY <1>1 DEF PostStop
<1>2. CASE ReadControl(s) \/ ReadPid(s) \/ Poll(s)
  BY <1>2 DEF ReadControl, ReadPid, Poll
<1> QED
  BY <1>1, <1>2 DEF StopStep

LEMMA PlaceStep ==
  ASSUME TypeOK, PlaceInv, SerialStarts, [Next]_vars
  PROVE  PlaceInv'
<1>1. ASSUME NEW p \in Proc, Advance(p) \/ Start(p) \/ Signal(p) \/ Crash(p)
      PROVE  PlaceInv'
  BY <1>1, CreateKeepsPlace, InspectKeepsPlace, HoldingKeepsPlace, OutsideKeepsPlace
  DEF Advance
<1>2. ASSUME NEW s \in Stopper, StopStep(s) PROVE PlaceInv'
  BY <1>2, StopKeepsPlace
<1>3. CASE UNCHANGED vars
  BY <1>3 DEF vars, PlaceInv, FileNamesHolder, OneStart, StartIsInformed, Holders
<1> QED
  BY <1>1, <1>2, <1>3 DEF Next

LEMMA PlaceInvariant == ASSUME SerialStarts PROVE Spec => []PlaceInv
<1>1. Init => PlaceInv
  BY DEF Init, PlaceInv, FileNamesHolder, OneStart, StartIsInformed, Holders,
         Starting, Holding, Serving
<1>2. TypeOK /\ PlaceInv /\ [Next]_vars => PlaceInv'
  BY PlaceStep
<1> QED
  BY <1>1, <1>2, TypeCorrect, PTL DEF Spec

\* However starts, stops and deaths follow one another, at most one process
\* holds the inbox, as long as starts do not overlap.
THEOREM OneDaemon == ASSUME SerialStarts PROVE Spec => []AtMostOneDaemon
<1>1. PlaceInv => AtMostOneDaemon
  BY HolderUnique DEF PlaceInv
<1> QED
  BY <1>1, PlaceInvariant, PTL

-----------------------------------------------------------------------------
(* Daemon implements DaemonSlot. *)

LEMMA HolderIs ==
  ASSUME AtMostOneDaemon
  PROVE  /\ Holders = {} => Holder = Nobody
         /\ \A p \in Holders : Holder = p
  BY DEF AtMostOneDaemon, Holder

\* A step leaves the place alone, takes it when it is free, or frees it.
LEMMA PlaceMoves ==
  ASSUME TypeOK, PlaceInv, [Next]_vars
  PROVE  \/ Holders' = Holders
         \/ Holders = {} /\ \E p \in Proc : Holders' = {p}
         \/ Holders # {} /\ Holders' = {}
<1> USE DEF TypeOK, Holders, Holding, Serving
<1>1. ASSUME NEW p \in Proc, Open(p) \/ Reopen(p)
      PROVE  Holders' = Holders \/ (Holders = {} /\ Holders' = {p})
  <2>1. CASE lock = NoFile
    <3>1. Holders = {}
      BY <2>1, NobodyAssumption DEF NoFile, PlaceInv, FileNamesHolder
    <3>2. pc' = [pc EXCEPT ![p] = "write"]
      BY <1>1, <2>1 DEF Open, Reopen, Create, Goto
    <3> QED
      BY <3>1, <3>2
  <2>2. CASE lock # NoFile
    <3>1. /\ pc[p] \in {"open", "reopen"}
          /\ pc' = [pc EXCEPT ![p] = "read"] \/ pc' = [pc EXCEPT ![p] = "refused"]
      BY <1>1, <2>2 DEF Open, Reopen, Create, Goto
    <3> QED
      BY <3>1
  <2> QED
    BY <2>1, <2>2
<1>2. ASSUME NEW p \in Proc, UnlinkLock(p) PROVE Holders # {} /\ Holders' = {}
  <2>1. p \in Holders
    BY <1>2 DEF UnlinkLock, Goto
  <2>2. Holders = {p}
    BY <2>1, HolderUnique DEF PlaceInv, AtMostOneDaemon
  <2> QED
    BY <1>2, <2>2 DEF UnlinkLock, Goto
<1>3. ASSUME NEW p \in Proc, Crash(p)
      PROVE  Holders' = Holders \/ (Holders # {} /\ Holders' = {})
  <2>1. CASE p \in Holders
    <3>1. Holders = {p}
      BY <2>1, HolderUnique DEF PlaceInv, AtMostOneDaemon
    <3> QED
      BY <1>3, <3>1 DEF Crash
  <2>2. CASE p \notin Holders
    BY <1>3, <2>2 DEF Crash
  <2> QED
    BY <2>1, <2>2
<1>4. ASSUME NEW p \in Proc,
             ReadLock(p) \/ ProbePid(p) \/ Replace(p) \/ Start(p) \/ Exit(p)
      PROVE  Holders' = Holders
  BY <1>4 DEF ReadLock, ProbePid, Replace, Start, Exit, Goto
<1>5. ASSUME NEW p \in Proc,
             WritePid(p) \/ Consume(p) \/ StartControl(p) \/ Signal(p)
               \/ RemoveControl(p) \/ CloseServer(p)
      PROVE  Holders' = Holders
  BY <1>5 DEF WritePid, Consume, StartControl, Signal, RemoveControl, CloseServer, Goto
<1>6. ASSUME NEW s \in Stopper, StopStep(s) PROVE Holders' = Holders
  BY <1>6 DEF StopStep, ReadControl, ReadPid, PostStop, Poll
<1>7. CASE UNCHANGED vars
  BY <1>7 DEF vars
<1> QED
  BY <1>1, <1>2, <1>3, <1>4, <1>5, <1>6, <1>7 DEF Next, Advance

\* The daemon's files implement the abstract place: every step takes it when
\* it is free, gives it up, or is invisible.
THEOREM ImplementsSlot == ASSUME SerialStarts PROVE Spec => OnePlace
<1>1. Init => Slot!Init
  BY DEF Init, Slot!Init, Holder, Holders, Holding, Serving
<1>2. ASSUME TypeOK, TypeOK', PlaceInv, PlaceInv', [Next]_vars
      PROVE  [Slot!Next]_Holder
  <2>1. AtMostOneDaemon /\ AtMostOneDaemon'
    <3>1. FileNamesHolder' => AtMostOneDaemon'
      BY HolderUnique, PTL
    <3> QED
      BY <1>2, <3>1, HolderUnique DEF PlaceInv
  <2>2. /\ Holders = {} => Holder = Nobody
        /\ \A p \in Holders : Holder = p
    BY <2>1, HolderIs
  <2>3. /\ Holders' = {} => Holder' = Nobody
        /\ \A p \in Holders' : Holder' = p
    BY <2>1 DEF AtMostOneDaemon, Holder
  <2>4. Holders \subseteq Proc /\ Holders' \subseteq Proc
    BY DEF Holders
  <2>5. CASE Holders' = Holders
    <3>1. Holder' = Holder
      BY <2>2, <2>3, <2>5
    <3> QED
      BY <3>1
  <2>6. ASSUME NEW p \in Proc, Holders = {}, Holders' = {p} PROVE Slot!Next
    <3>1. Holder = Nobody /\ Holder' = p
      BY <2>2, <2>3, <2>6
    <3> QED
      BY <3>1 DEF Slot!Next, Slot!Take
  <2>7. CASE Holders # {} /\ Holders' = {}
    <3>1. Holder # Nobody /\ Holder' = Nobody
      BY <2>2, <2>3, <2>4, <2>7, NobodyAssumption
    <3> QED
      BY <3>1 DEF Slot!Next, Slot!Leave
  <2> QED
    BY <1>2, <2>5, <2>6, <2>7, PlaceMoves
<1> QED
  BY <1>1, <1>2, TypeCorrect, PlaceInvariant, PTL DEF Spec, OnePlace, Slot!Spec

-----------------------------------------------------------------------------
(* The stop command. *)

\* Once published, an endpoint is closed and never opened again.
LEMMA PublishedStays ==
  ASSUME TypeOK, [Next]_vars, NEW q \in Proc, pc[q] \in Published
  PROVE  /\ pc'[q] \in Published
         /\ pc'[q] \in Serving => pc[q] \in Serving
         /\ pc'[q] \in Holding => pc[q] \in Holding
<1> USE DEF TypeOK, Published, Holding, Serving
<1>1. ASSUME NEW p \in Proc, Advance(p) \/ Start(p) \/ Signal(p) \/ Crash(p)
      PROVE  \/ UNCHANGED pc
             \/ p # q /\ pc'[q] = pc[q]
             \/ p = q /\ pc[q] = "running" /\ pc'[q] = "removeControl"
             \/ p = q /\ pc[q] = "removeControl" /\ pc'[q] = "closeServer"
             \/ p = q /\ pc[q] = "closeServer" /\ pc'[q] = "unlinkLock"
             \/ p = q /\ pc[q] = "unlinkLock" /\ pc'[q] = "unlinkControl"
             \/ p = q /\ pc[q] = "unlinkControl" /\ pc'[q] = "exited"
             \/ p = q /\ pc'[q] = "crashed"
  BY <1>1 DEF Advance, Open, ReadLock, ProbePid, Replace, Reopen, Create, WritePid, Consume,
      StartControl, RemoveControl, CloseServer, UnlinkLock, Exit, Start, Signal, Crash, Goto
<1>2. ASSUME NEW s \in Stopper, StopStep(s)
      PROVE  \/ pc'[q] = pc[q]
             \/ pc[q] = "running" /\ pc'[q] = "removeControl"
  BY <1>2 DEF StopStep, ReadControl, ReadPid, PostStop, Poll
<1>3. CASE UNCHANGED vars
  BY <1>3 DEF vars
<1> QED
  BY <1>1, <1>2, <1>3 DEF Next

LEMMA PidNamesHolder ==
  ASSUME FileNamesHolder, NEW p \in Proc, pc[p] \in Holding, pc[p] # "write"
  PROVE  Pid = p
<1>1. lock = [by |-> p, written |-> pc[p] # "write"]
  BY DEF FileNamesHolder, Holders
<1>2. lock.by = p /\ lock.written = (pc[p] # "write")
  BY <1>1
<1>3. lock.written
  BY <1>2, Zenon
<1> QED
  BY <1>2, <1>3 DEF Pid

LEMMA ControlKnown ==
  ASSUME TypeOK, [Next]_vars, control # Nobody => pc[control] \in Published
  PROVE  control' # Nobody => pc'[control'] \in Published
<1>1. CASE UNCHANGED control
  BY <1>1, PublishedStays DEF TypeOK
<1>2. ASSUME NEW p \in Proc, StartControl(p), ~UNCHANGED control
      PROVE  control' = p /\ pc'[p] = "running"
  BY <1>2 DEF StartControl, Goto, TypeOK
<1>3. ASSUME NEW p \in Proc, RemoveControl(p) \/ Exit(p) PROVE control' = Nobody
  BY <1>3 DEF RemoveControl, Exit
<1>4. \/ UNCHANGED control
      \/ \E p \in Proc : StartControl(p) \/ RemoveControl(p) \/ Exit(p)
  BY DEF Next, Advance, Open, ReadLock, ProbePid, Replace, Reopen, Create, WritePid, Consume,
         CloseServer, UnlinkLock, Start, Signal, Crash, StopStep, ReadControl, ReadPid,
         PostStop, Poll, vars
<1> QED
  BY <1>1, <1>2, <1>3, <1>4 DEF Published, Serving

\* What one stop command knows survives the steps of everybody else.
LEMMA OthersKeepStop ==
  ASSUME TypeOK, StopInv, [Next]_vars, NEW s \in Stopper, stop'[s] = stop[s]
  PROVE  /\ stop'[s].at \in {"pid", "post", "poll", "ok"} =>
              stop'[s].to \in Proc /\ pc'[stop'[s].to] \in Published
         /\ stop'[s].at = "post" /\ pc'[stop'[s].to] \in Serving =>
              stop'[s].pid = stop'[s].to
         /\ stop'[s].at = "poll" /\ pc'[stop'[s].to] \in Holding =>
              stop'[s].pid = stop'[s].to
         /\ stop'[s].at = "ok" => pc'[stop'[s].to] \notin Holding
<1>1. CASE stop[s].at \in {"pid", "post", "poll", "ok"}
  BY <1>1, PublishedStays DEF StopInv, StopsKnowTarget, StopMeansStopped
<1>2. CASE stop[s].at \notin {"pid", "post", "poll", "ok"}
  BY <1>2
<1> QED
  BY <1>1, <1>2

\* Its own steps: the pid it remembers is the one of the process it asks, and
\* it reports success only when that process has given up the file.
LEMMA OwnStopStep ==
  ASSUME TypeOK, PlaceInv, StopInv, [Next]_vars, NEW s \in Stopper, StopStep(s)
  PROVE  /\ stop'[s].at \in {"pid", "post", "poll", "ok"} =>
              stop'[s].to \in Proc /\ pc'[stop'[s].to] \in Published
         /\ stop'[s].at = "post" /\ pc'[stop'[s].to] \in Serving =>
              stop'[s].pid = stop'[s].to
         /\ stop'[s].at = "poll" /\ pc'[stop'[s].to] \in Holding =>
              stop'[s].pid = stop'[s].to
         /\ stop'[s].at = "ok" => pc'[stop'[s].to] \notin Holding
<1>1. CASE ReadControl(s)
  BY <1>1 DEF ReadControl, TypeOK, StopInv, StopsKnowTarget
<1>2. CASE ReadPid(s)
  <2>1. stop[s].to \in Proc /\ pc[stop[s].to] \in Published
    BY <1>2 DEF ReadPid, StopInv, StopsKnowTarget
  <2>2. pc[stop[s].to] \in Serving => Pid = stop[s].to
    BY <2>1, PidNamesHolder DEF PlaceInv, Holding, Serving
  <2> QED
    BY <1>2, <2>1, <2>2 DEF ReadPid, TypeOK
<1>3. CASE PostStop(s)
  <2>1. stop[s].to \in Proc /\ pc[stop[s].to] \in Published
    BY <1>3 DEF PostStop, StopInv, StopsKnowTarget
  <2>2. pc'[stop[s].to] \in Published
    BY <2>1, PublishedStays
  <2>3. CASE pc[stop[s].to] \in Serving
    <3>1. stop'[s].at = "poll" /\ stop'[s].to = stop[s].to /\ stop'[s].pid = stop[s].pid
      BY <1>3, <2>3 DEF PostStop, TypeOK
    <3>2. stop[s].pid = stop[s].to
      BY <1>3, <2>3 DEF PostStop, StopInv, StopsKnowTarget
    <3> QED
      BY <2>1, <2>2, <3>1, <3>2
  <2>4. CASE pc[stop[s].to] \notin Serving
    BY <1>3, <2>4 DEF PostStop, TypeOK
  <2> QED
    BY <2>3, <2>4
<1>4. CASE Poll(s)
  <2>1. stop[s].to \in Proc /\ pc[stop[s].to] \in Published /\ UNCHANGED pc
    BY <1>4 DEF Poll, StopInv, StopsKnowTarget
  <2>2. stop'[s].to = stop[s].to /\ stop'[s].at \in {"ok", "failed"}
    BY <1>4 DEF Poll, TypeOK
  <2>3. ASSUME stop'[s].at = "ok" PROVE pc[stop[s].to] \notin Holding
    <3>1. Pid = Nobody \/ Pid # stop[s].pid
      BY <1>4, <2>3 DEF Poll, TypeOK
    <3>2. ASSUME pc[stop[s].to] \in Holding PROVE Pid = stop[s].to
      <4>1. pc[stop[s].to] # "write"
        BY <2>1 DEF Published, Serving
      <4> QED
        BY <2>1, <3>2, <4>1, PidNamesHolder DEF PlaceInv
    <3>3. pc[stop[s].to] \in Holding => stop[s].pid = stop[s].to
      BY <1>4 DEF Poll, StopInv, StopsKnowTarget
    <3> QED
      BY <2>1, <3>1, <3>2, <3>3, NobodyAssumption
  <2> QED
    BY <2>1, <2>2, <2>3
<1> QED
  BY <1>1, <1>2, <1>3, <1>4 DEF StopStep

LEMMA StopInvariantStep ==
  ASSUME TypeOK, PlaceInv, StopInv, [Next]_vars
  PROVE  StopInv'
<1>1. \A s \in Stopper : stop'[s] = stop[s] \/ StopStep(s)
  <2>1. ASSUME NEW p \in Proc, Advance(p) \/ Start(p) \/ Signal(p) \/ Crash(p)
        PROVE  UNCHANGED stop
    BY <2>1 DEF Advance, Open, ReadLock, ProbePid, Replace, Reopen, Create, WritePid, Consume,
        StartControl, RemoveControl, CloseServer, UnlinkLock, Exit, Start, Signal, Crash
  <2>2. ASSUME NEW q \in Stopper, StopStep(q), NEW s \in Stopper, s # q
        PROVE  stop'[s] = stop[s]
    BY <2>2 DEF StopStep, ReadControl, ReadPid, PostStop, Poll, TypeOK
  <2> QED
    BY <2>1, <2>2 DEF Next, vars
<1>2. control' # Nobody => pc'[control'] \in Published
  BY ControlKnown DEF StopInv, StopsKnowTarget
<1> QED
  BY <1>1, <1>2, OthersKeepStop, OwnStopStep DEF StopInv, StopsKnowTarget, StopMeansStopped

\* When `mcg daemon stop` reports success, the daemon it spoke to has stopped.
THEOREM StopIsHonest == ASSUME SerialStarts PROVE Spec => []StopMeansStopped
<1>1. Init => StopInv
  BY DEF Init, StopInv, StopsKnowTarget, StopMeansStopped
<1>2. TypeOK /\ PlaceInv /\ StopInv /\ [Next]_vars => StopInv'
  BY StopInvariantStep
<1>3. StopInv => StopMeansStopped
  BY DEF StopInv
<1> QED
  BY <1>1, <1>2, <1>3, TypeCorrect, PlaceInvariant, PTL DEF Spec
-----------------------------------------------------------------------------
(* What a daemon leaves behind.  As long as nobody died, daemon.pid is the      *)
(* file of a process that has still to remove it, and the descriptor describes  *)
(* one that has not begun to.                                                   *)

FilesHaveOwners ==
  crashes = 0 =>
    /\ lock # NoFile => lock.by \in Proc /\ pc[lock.by] \in Holding
    /\ control # Nobody => pc[control] \in {"running", "removeControl"}

LEMMA OwnersStep == ASSUME TypeOK, FilesHaveOwners, [Next]_vars PROVE FilesHaveOwners'
<1> USE DEF TypeOK, FilesHaveOwners, Holding, Serving
<1>1. ASSUME NEW p \in Proc, Open(p) \/ Reopen(p) PROVE FilesHaveOwners'
  <2>1. CASE lock = NoFile
    <3>1. /\ pc' = [pc EXCEPT ![p] = "write"] /\ lock' = [by |-> p, written |-> FALSE]
          /\ pc[p] \in {"open", "reopen"} /\ UNCHANGED <<control, crashes>>
      BY <1>1, <2>1 DEF Open, Reopen, Create, Goto
    <3> QED
      BY <3>1
  <2>2. CASE lock # NoFile
    <3>1. /\ pc' = [pc EXCEPT ![p] = "read"] \/ pc' = [pc EXCEPT ![p] = "refused"]
          /\ pc[p] \in {"open", "reopen"} /\ UNCHANGED <<lock, control, crashes>>
      BY <1>1, <2>2 DEF Open, Reopen, Create, Goto
    <3> QED
      BY <3>1
  <2> QED
    BY <2>1, <2>2
<1>2. ASSUME NEW p \in Proc, ReadLock(p) \/ ProbePid(p) \/ Start(p) PROVE FilesHaveOwners'
  BY <1>2 DEF ReadLock, ProbePid, Start, Goto
<1>3. ASSUME NEW p \in Proc, Replace(p) \/ UnlinkLock(p) PROVE FilesHaveOwners'
  BY <1>3 DEF Replace, UnlinkLock, Goto
<1>4. ASSUME NEW p \in Proc, WritePid(p) PROVE FilesHaveOwners'
  <2>1. /\ pc' = [pc EXCEPT ![p] = "consume"] /\ pc[p] = "write" /\ UNCHANGED <<control, crashes>>
        /\ lock'.by = lock.by
    BY <1>4 DEF WritePid, Goto, Files
  <2>2. ASSUME lock = NoFile PROVE lock' = NoFile
    <3>1. lock.by = Nobody /\ lock.written = FALSE /\ lock.by # p
      BY <2>2, NobodyAssumption DEF NoFile
    <3>2. (lock.written \/ lock.by = p) = FALSE
      BY <3>1, Zenon
    <3>3. lock' = [lock EXCEPT !.written = FALSE]
      BY <1>4, <3>2 DEF WritePid
    <3> QED
      BY <2>2, <3>3 DEF NoFile
  <2> QED
    BY <2>1, <2>2
<1>5. ASSUME NEW p \in Proc, Consume(p) \/ StartControl(p) \/ Signal(p) \/ CloseServer(p)
      PROVE  FilesHaveOwners'
  BY <1>5 DEF Consume, StartControl, Signal, CloseServer, Goto
<1>6. ASSUME NEW p \in Proc, RemoveControl(p) \/ Exit(p) PROVE FilesHaveOwners'
  BY <1>6 DEF RemoveControl, Exit, Goto
<1>7. ASSUME NEW p \in Proc, Crash(p) PROVE FilesHaveOwners'
  BY <1>7, CrashAssumption DEF Crash
<1>8. ASSUME NEW s \in Stopper, StopStep(s) PROVE FilesHaveOwners'
  BY <1>8 DEF StopStep, ReadControl, ReadPid, PostStop, Poll
<1>9. CASE UNCHANGED vars
  BY <1>9 DEF vars
<1> QED
  BY <1>1, <1>2, <1>3, <1>4, <1>5, <1>6, <1>7, <1>8, <1>9 DEF Next, Advance

\* However starts race and whatever is stopped, when all daemons have ended and none
\* was killed, neither daemon.pid nor the descriptor is left (mcg.mjs 184-187).  Here
\* starts may overlap.
THEOREM CleanExits == Spec => []CleanExit
<1>1. Init => FilesHaveOwners
  BY DEF Init, FilesHaveOwners
<1>2. TypeOK /\ FilesHaveOwners /\ [Next]_vars => FilesHaveOwners'
  BY OwnersStep
<1>3. TypeOK /\ FilesHaveOwners => CleanExit
  BY DEF TypeOK, FilesHaveOwners, CleanExit, Gone, Holding, Serving
<1> QED
  BY <1>1, <1>2, <1>3, TypeCorrect, PTL DEF Spec
=============================================================================
