------------------------- MODULE TaskGateway_proofs -------------------------
(***************************************************************************)
(* Proofs about TaskGateway for any events and files, any number of calls  *)
(* of consume and cancel that overlap in any way, and any deaths of the    *)
(* daemon.                                                                 *)
(***************************************************************************)
EXTENDS TaskGateway, TLAPS

-----------------------------------------------------------------------------
(* Types. *)

\* What ingest makes of a state and an event is a state.
LEMMA UpdatedType ==
  ASSUME NEW s \in StateFiles, NEW e \in Event
  PROVE  Updated(s, e) \in StateFiles
<1>1. Status[e] \in States /\ SeqNo[e] \in Nat \cup {None}
  BY EventAssumption
<1>2. External(e) \in Externals \cup {None}
  BY DEF External, Externals
<1>3. s.epoch \in {Epoch[d] : d \in Event} \cup {None} /\ s.seq \in Nat \cup {None}
  BY DEF StateFiles
<1> QED
  BY <1>1, <1>2, <1>3 DEF Updated, StateFiles

LEMMA FirstTypes == Dispatched \in StateFiles /\ Idle \in Runs
<1>1. Dispatched \in StateFiles
  BY DEF Dispatched, StateFiles, States
<1> QED
  BY <1>1 DEF Idle, Runs

\* A call at work on a file has a name from the inbox, and what it is about to
\* write came from an event.
WellFormed(r) ==
  /\ r \in Runs
  /\ r.at \notin {"idle", "next"} => r.file \in File
  /\ r.at \in {"write", "rename", "log", "result"} => r.copy.last \in Event
  /\ r.at = "result" => r.copy.external \in Externals

TypeInv == TypeOK /\ \A c \in Consumer : WellFormed(run[c])

\* The history variables keep their types.
LEMMA HistoryTypes ==
  ASSUME TypeOK, NEW w \in Consumer \cup Canceller
  PROVE  /\ InProgress \subseteq Consumer \cup Canceller
         /\ Overtakes(w) => raced' \subseteq Consumer \cup Canceller
         /\ Finishes(w) => raced' \subseteq Consumer \cup Canceller
         /\ \A n \in Nat : Marks(w, n) => mark' \in Nat
         /\ Len(log) \in Nat /\ Len(log) + 1 \in Nat
<1>1. Len(log) \in Nat /\ Len(log) + 1 \in Nat
  BY DEF TypeOK
<1> QED
  BY <1>1 DEF TypeOK, InProgress, Overtakes, Finishes, Marks

LEMMA ListingWellFormed == ASSUME inbox \subseteq File PROVE WellFormed(Listing)
  BY FirstTypes DEF WellFormed, Listing, Runs

LEMMA IdleWellFormed == WellFormed(Idle)
  BY FirstTypes DEF WellFormed, Idle

\* A call of consume keeps the types, whatever the other calls do.
LEMMA ConsumeTypes ==
  ASSUME TypeInv, NEW c \in Consumer, Consume(c)
  PROVE  TypeInv'
<1> USE DEF TypeInv, TypeOK
<1>1. run \in [Consumer -> Runs] /\ run[c] \in Runs /\ WellFormed(run[c])
  OBVIOUS
<1>2. ASSUME NEW r, WellFormed(r), run' = [run EXCEPT ![c] = r]
      PROVE  run' \in [Consumer -> Runs] /\ \A d \in Consumer : WellFormed(run'[d])
  BY <1>1, <1>2 DEF WellFormed
<1>3. /\ c \in Consumer \cup Canceller
      /\ \A a \in {"next", "read", "write", "rename", "log", "result", "unlink"} :
            LET q == [run[c] EXCEPT !.at = a] IN
            q \in Runs /\ q.at = a /\ q.file = run[c].file /\ q.copy = run[c].copy
  BY <1>1 DEF Runs
<1>4. /\ run[c].file \in File => WellFormed([run[c] EXCEPT !.at = "unlink", !.copy = Dispatched])
      /\ WellFormed([run[c] EXCEPT !.at = "next", !.file = None, !.copy = Dispatched])
  BY <1>1, FirstTypes DEF WellFormed, Runs
<1>5. CASE NextFile(c)
  <2>1. ASSUME NEW f \in run[c].todo
        PROVE  WellFormed([run[c] EXCEPT !.at = IF f \in inbox THEN "read" ELSE "next",
                                        !.todo = @ \ {f},
                                        !.file = IF f \in inbox THEN f ELSE None])
    <3>1. CASE f \in inbox
      BY <1>1, <3>1 DEF WellFormed, Runs
    <3>2. CASE f \notin inbox
      BY <1>1, <3>2 DEF WellFormed, Runs
    <3> QED
      BY <3>1, <3>2
  <2>2. \E q : WellFormed(q) /\ run' = [run EXCEPT ![c] = q]
    BY <1>5, <2>1, IdleWellFormed DEF NextFile, Step
  <2> QED
    BY <1>2, <1>5, <2>2 DEF NextFile, history
<1>6. CASE Read(c)
  <2> DEFINE e == EventIn[run[c].file]
  <2>1. run[c].at = "read" /\ run[c].file \in File
    BY <1>1, <1>6 DEF Read, WellFormed
  <2>2. e \in Event
    BY <2>1, EventAssumption
  <2>3. Updated(state, e) \in StateFiles /\ Updated(state, e).last = e
    BY <2>2, UpdatedType DEF Updated
  <2>4. WellFormed([run[c] EXCEPT !.at = "write", !.copy = Updated(state, e)])
    BY <1>1, <2>1, <2>2, <2>3 DEF WellFormed, Runs
  <2>5. \E q : WellFormed(q) /\ run' = [run EXCEPT ![c] = q]
    BY <1>4, <1>6, <2>1, <2>4 DEF Read, Ends, Step
  <2> QED
    BY <1>2, <1>6, <2>5 DEF Read, history
<1>7. CASE WriteTemp(c)
  <2>1. WellFormed([run[c] EXCEPT !.at = "rename"]) /\ run[c].copy \in StateFiles
    BY <1>1, <1>3, <1>7 DEF WriteTemp, At, Step, WellFormed, Runs
  <2>2. raced' \subseteq Consumer \cup Canceller /\ temp' = run[c].copy
    BY <1>7 DEF WriteTemp
  <2> QED
    BY <1>2, <1>7, <2>1, <2>2 DEF WriteTemp, At, Step
<1>8. CASE Rename(c)
  <2>1. WellFormed([run[c] EXCEPT !.at = "log"])
    BY <1>1, <1>3, <1>8 DEF Rename, At, Skips, Step, WellFormed
  <2>2. \E q : WellFormed(q) /\ run' = [run EXCEPT ![c] = q]
    BY <1>4, <1>8, <2>1 DEF Rename, At, Skips, Step
  <2>3. state' \in StateFiles /\ temp' = None
    BY <1>8 DEF Rename
  <2>4. raced' \subseteq Consumer \cup Canceller /\ mark' \in Nat
    BY <1>3, <1>8, HistoryTypes DEF Rename
  <2> QED
    BY <1>2, <1>8, <2>2, <2>3, <2>4 DEF Rename
<1>9. CASE AppendLog(c)
  <2>1. run[c].file \in File /\ run[c].copy.last \in Event
    BY <1>1, <1>9 DEF AppendLog, At, Ends, Step, WellFormed
  <2>2. run[c].copy.external \in Externals => WellFormed([run[c] EXCEPT !.at = "result"])
    BY <1>3, <2>1 DEF WellFormed
  <2>3. \E q : WellFormed(q) /\ run' = [run EXCEPT ![c] = q]
    BY <1>4, <1>9, <2>1, <2>2 DEF AppendLog, At, Ends, Step
  <2>4. log' \in Seq(Event)
    <3>1. EventIn[run[c].file] \in Event
      BY <2>1, EventAssumption
    <3> QED
      BY <1>9, <3>1 DEF AppendLog
  <2>5. mark' \in Nat
    BY <1>3, <1>9, HistoryTypes DEF AppendLog
  <2> QED
    BY <1>2, <1>9, <2>3, <2>4, <2>5 DEF AppendLog
<1>10. CASE WriteResult(c)
  <2>1. run[c].file \in File /\ run[c].copy.external \in Externals /\ run[c].copy.last \in Event
    BY <1>1, <1>10 DEF WriteResult, Ends, Step, WellFormed
  <2>2. Compact(run[c].copy) \in [status : Externals, from : Event]
    BY <2>1 DEF Compact
  <2>3. mark' \in Nat
    BY <1>3, <1>10, HistoryTypes DEF WriteResult
  <2> QED
    BY <1>2, <1>4, <1>10, <2>1, <2>2, <2>3 DEF WriteResult, Ends, Step
<1>11. CASE Unlink(c)
  <2>1. signal' \in BOOLEAN /\ raced' \subseteq Consumer \cup Canceller
    BY <1>3, <1>11, HistoryTypes DEF Unlink, Changed
  <2> QED
    BY <1>2, <1>4, <1>11, <2>1 DEF Unlink, Skips, Step
<1> QED
  BY <1>5, <1>6, <1>7, <1>8, <1>9, <1>10, <1>11 DEF Consume

LEMMA TypeStep == ASSUME TypeInv, [Next]_vars PROVE TypeInv'
<1> USE DEF TypeInv, TypeOK
<1>1. ASSUME NEW f \in File, Deliver(f) PROVE TypeInv'
  BY <1>1 DEF Deliver, Changed, history
<1>2. ASSUME NEW c \in Consumer, StartDaemon(c) \/ Notice(c) PROVE TypeInv'
  <2>1. WellFormed(Listing)
    BY ListingWellFormed
  <2>2. Listing \in Runs
    BY <2>1 DEF WellFormed
  <2> QED
    BY <1>2, <2>1, <2>2 DEF StartDaemon, Notice, history
<1>3. CASE Watch
  BY <1>3 DEF Watch, history
<1>4. CASE Crash
  <2>1. crashes' \in 0..MaxCrash
    BY <1>4, EventAssumption DEF Crash
  <2>2. run' \in [Consumer -> Runs] /\ \A c \in Consumer : WellFormed(run'[c])
    BY <1>4, FirstTypes, IdleWellFormed DEF Crash
  <2>3. temp' = None /\ signal' = FALSE /\ daemon' = "down"
    BY <1>4 DEF Crash
  <2> QED
    BY <1>4, <2>1, <2>2, <2>3 DEF Crash
<1>5. ASSUME NEW k \in Canceller, CancelLoad(k) \/ CancelSave(k) PROVE TypeInv'
  <2>1. CASE CancelLoad(k)
    <3>1. [state EXCEPT !.internal = "CANCELLED"] \in StateFiles
      BY DEF StateFiles, States
    <3> QED
      BY <2>1, <3>1 DEF CancelLoad, history
  <2>2. CASE CancelSave(k)
    <3>1. state' \in StateFiles
      BY <2>2 DEF CancelSave
    <3>2. cancel' \in [Canceller -> [at : {"ready", "loaded", "done"}, copy : StateFiles]]
      BY <2>2, FirstTypes DEF CancelSave
    <3>3. raced' \subseteq Consumer \cup Canceller /\ mark' \in Nat
      BY <2>2, HistoryTypes DEF CancelSave
    <3> QED
      BY <2>2, <3>1, <3>2, <3>3 DEF CancelSave
  <2> QED
    BY <1>5, <2>1, <2>2
<1>6. ASSUME NEW c \in Consumer, Consume(c) PROVE TypeInv'
  BY <1>6, ConsumeTypes
<1>7. CASE UNCHANGED vars
  BY <1>7 DEF vars, history
<1> QED
  BY <1>1, <1>2, <1>3, <1>4, <1>5, <1>6, <1>7 DEF Next

LEMMA TypeInvariant == Spec => []TypeInv
<1>1. Init => TypeInv
  <2> SUFFICES ASSUME Init PROVE TypeInv
    OBVIOUS
  <2>1. crashes \in 0..MaxCrash /\ log \in Seq(Event)
    BY EventAssumption DEF Init
  <2>2. run \in [Consumer -> Runs] /\ \A c \in Consumer : WellFormed(run[c])
    BY FirstTypes, IdleWellFormed DEF Init
  <2>3. /\ state \in StateFiles /\ signal \in BOOLEAN /\ result = NoResult
        /\ cancel \in [Canceller -> [at : {"ready", "loaded", "done"}, copy : StateFiles]]
    BY FirstTypes DEF Init
  <2> QED
    BY <2>1, <2>2, <2>3 DEF Init, TypeInv, TypeOK
<1>2. TypeInv /\ [Next]_vars => TypeInv'
  BY TypeStep
<1> QED
  BY <1>1, <1>2, PTL DEF Spec

\* The task's files and the calls at work on them are well typed in every
\* reachable state, however many calls overlap.
THEOREM GatewayTypes == Spec => []TypeOK
<1>1. TypeInv => TypeOK
  BY DEF TypeInv
<1> QED
  BY <1>1, TypeInvariant, PTL

-----------------------------------------------------------------------------
(* Calls that nobody has overtaken.                                         *)

\* A state has reached the event, or is in another epoch.
ReachedIn(s, e) ==
  Epoch[e] = s.epoch /\ SeqNo[e] # None => s.seq # None /\ SeqNo[e] <= s.seq

Reflected(e) == ReachedIn(state, e)

\* The event that a state names is one it has reached: a repetition of it is
\* safely dropped.
Sound(s) == s.last # None => ReachedIn(s, s.last)

ContentInv ==
  /\ Sound(state) /\ (temp # None => Sound(temp))
  /\ \A c \in Consumer : Sound(run[c].copy)
  /\ \A k \in Canceller : Sound(cancel[k].copy)

\* Until it is renamed, the new state is the one computed from the state on
\* disk, and the event is one that ingest takes.
Pending(r) ==
  LET e == EventIn[r.file] IN
  /\ ~ResyncRequired(state, e) /\ ~Deduped(state, e)
  /\ r.copy = Updated(state, e)

Progress(r) ==
  /\ r.at \in {"write", "rename"} => Pending(r)
  /\ r.at = "rename" => temp = r.copy
  /\ r.at \in {"log", "result", "unlink"} => Reflected(EventIn[r.file])

\* What cancel saves differs from the state in internal_state alone.
SameButInternal(s, t) ==
  s.epoch = t.epoch /\ s.seq = t.seq /\ s.last = t.last /\ s.external = t.external

ProgressInv == \A c \in Consumer \ raced : Progress(run[c])

CancelInv ==
  \A k \in Canceller \ raced : cancel[k].at = "loaded" => SameButInternal(cancel[k].copy, state)

GatewayInv == ContentInv /\ ProgressInv /\ CancelInv

\* A taken event leads to a state that has reached it.
LEMMA UpdateReflects ==
  ASSUME NEW s, NEW e \in Event
  PROVE  ReachedIn(Updated(s, e), e) /\ Updated(s, e).last = e /\ Sound(Updated(s, e))
<1>1. /\ Updated(s, e).last = e
      /\ SeqNo[e] # None => Updated(s, e).seq = SeqNo[e]
  BY DEF Updated
<1>2. SeqNo[e] # None => SeqNo[e] \in Nat
  BY EventAssumption
<1> QED
  BY <1>1, <1>2 DEF ReachedIn, Sound

\* An event that is dropped has been reached, or belongs to another epoch.
LEMMA DroppedReflects ==
  ASSUME TypeOK, Sound(state), NEW e \in Event,
         ResyncRequired(state, e) \/ Deduped(state, e)
  PROVE  Reflected(e)
<1>1. CASE ResyncRequired(state, e)
  BY <1>1 DEF ResyncRequired, EpochChanged, Reflected, ReachedIn
<1>2. CASE state.last = e
  BY <1>2, EventAssumption DEF Sound, Reflected
<1>3. CASE ~EpochChanged(state, e) /\ SeqNo[e] # None /\ state.seq # None /\ SeqNo[e] <= state.seq
  BY <1>3 DEF Reflected, ReachedIn
<1> QED
  BY <1>1, <1>2, <1>3 DEF Deduped

\* What a taken event does to the sequence.
LEMMA UpdateAdvances ==
  ASSUME TypeOK, NEW e \in Event, ~Deduped(state, e), state' = Updated(state, e)
  PROVE  state'.epoch = state.epoch /\ state.seq # None
           => state'.seq # None /\ state.seq <= state'.seq
<1> SUFFICES ASSUME state'.epoch = state.epoch, state.seq # None
             PROVE  state'.seq # None /\ state.seq <= state'.seq
  OBVIOUS
<1>1. /\ state'.epoch = IF Epoch[e] # None THEN Epoch[e] ELSE state.epoch
      /\ state'.seq = IF EpochChanged(state, e) \/ SeqNo[e] # None THEN SeqNo[e] ELSE state.seq
  BY DEF Updated
<1>2. ~EpochChanged(state, e)
  BY <1>1 DEF EpochChanged
<1>3. state.seq \in Nat /\ SeqNo[e] \in Nat \cup {None}
  BY EventAssumption DEF TypeOK, StateFiles
<1>4. CASE SeqNo[e] = None
  BY <1>1, <1>2, <1>3, <1>4
<1>5. CASE SeqNo[e] # None
  <2>1. ~(SeqNo[e] <= state.seq)
    BY <1>2, <1>5 DEF Deduped
  <2> QED
    BY <1>1, <1>3, <1>5, <2>1
<1> QED
  BY <1>4, <1>5

\* While state.json and the temporary file stay, a call keeps its progress.
LEMMA ProgressKept ==
  ASSUME UNCHANGED state, NEW r, Progress(r), r.at = "rename" => temp' = temp
  PROVE  Progress(r)'
BY DEF Progress, Pending, Reflected, ReachedIn, ResyncRequired, Deduped, EpochChanged, Updated,
       External

\* Only the call that is not in progress, or is overtaken, survives a save of
\* the state by another.
LEMMA SaveOvertakes ==
  ASSUME NEW w, raced \cup (InProgress \ {w}) \subseteq raced' \cup {w},
         \A d \in Consumer \ {w} : run'[d] = run[d],
         \A k \in Canceller \ {w} : cancel'[k] = cancel[k]
  PROVE  /\ \A d \in Consumer \ (raced' \cup {w}) : Progress(run[d])'
         /\ \A k \in Canceller \ (raced' \cup {w}) : cancel'[k].at # "loaded"
<1>1. ASSUME NEW d \in Consumer \ (raced' \cup {w}) PROVE Progress(run[d])'
  BY <1>1 DEF InProgress, Progress
<1>2. ASSUME NEW k \in Canceller \ (raced' \cup {w}) PROVE cancel'[k].at # "loaded"
  BY <1>2 DEF InProgress
<1> QED
  BY <1>1, <1>2

\* What the ways to go on do to a call.
LEMMA Moves ==
  ASSUME run \in [Consumer -> Runs], NEW c \in Consumer
  PROVE  /\ \A h : Ends(c, h) => /\ run[c].at = h /\ run'[c].at = "unlink"
                                /\ run'[c].file = run[c].file /\ run'[c].copy = Dispatched
         /\ \A h : Skips(c, h) => run[c].at = h /\ run'[c].at = "next" /\ run'[c].copy = Dispatched
         /\ At(c, "write", "rename") => run[c].at = "write" /\ run'[c].at = "rename"
         /\ At(c, "rename", "log") => run[c].at = "rename" /\ run'[c].at = "log"
         /\ At(c, "log", "result") => run[c].at = "log" /\ run'[c].at = "result"
         /\ At(c, "write", "rename") \/ At(c, "rename", "log") \/ At(c, "log", "result")
              => run'[c].file = run[c].file /\ run'[c].copy = run[c].copy
         /\ NextFile(c) => /\ run[c].at = "next" /\ run'[c].at \in {"idle", "next", "read"}
                           /\ run'[c].copy \in {run[c].copy, Dispatched}
         /\ \A e : Step(c, "read", [run[c] EXCEPT !.at = "write", !.copy = Updated(state, e)])
                     => /\ run'[c].at = "write" /\ run'[c].file = run[c].file
                        /\ run'[c].copy = Updated(state, e)
         /\ Consume(c) => \A d \in Consumer \ {c} : run'[d] = run[d]
<1> DEFINE E == [run[c] EXCEPT !.at = "unlink", !.copy = Dispatched]
           S == [run[c] EXCEPT !.at = "next", !.file = None, !.copy = Dispatched]
           A(t) == [run[c] EXCEPT !.at = t]
           W(u) == [run[c] EXCEPT !.at = "write", !.copy = u]
           Q(f) == [run[c] EXCEPT !.at = IF f \in inbox THEN "read" ELSE "next",
                                 !.todo = @ \ {f}, !.file = IF f \in inbox THEN f ELSE None]
<1>1. E.at = "unlink" /\ E.file = run[c].file /\ E.copy = Dispatched
  BY DEF Runs
<1>2. S.at = "next" /\ S.copy = Dispatched
  BY DEF Runs
<1>3. \A t : A(t).at = t /\ A(t).file = run[c].file /\ A(t).copy = run[c].copy
  BY DEF Runs
<1>4. \A u : W(u).at = "write" /\ W(u).file = run[c].file /\ W(u).copy = u
  BY DEF Runs
<1>5. \A f : Q(f).at \in {"next", "read"} /\ Q(f).copy = run[c].copy
  BY DEF Runs
<1>6. NextFile(c) => /\ run[c].at = "next"
                     /\ run' = [run EXCEPT ![c] = Idle] \/ \E f : run' = [run EXCEPT ![c] = Q(f)]
  BY DEF NextFile, Step
<1>7. \A e : Step(c, "read", [run[c] EXCEPT !.at = "write", !.copy = Updated(state, e)])
               => run'[c] = W(Updated(state, e))
  BY DEF Step
<1>8. /\ \A h : Ends(c, h) => run[c].at = h /\ run'[c] = E
      /\ \A h : Skips(c, h) => run[c].at = h /\ run'[c] = S
      /\ At(c, "write", "rename") => run[c].at = "write" /\ run'[c] = A("rename")
      /\ At(c, "rename", "log") => run[c].at = "rename" /\ run'[c] = A("log")
      /\ At(c, "log", "result") => run[c].at = "log" /\ run'[c] = A("result")
  BY DEF Ends, Skips, At, Step
<1>9. Consume(c) => \A d \in Consumer \ {c} : run'[d] = run[d]
  BY DEF Consume, NextFile, Read, WriteTemp, Rename, AppendLog, WriteResult, Unlink,
         At, Ends, Skips, Step
<1> HIDE DEF E, S, A, W, Q
<1>10. NextFile(c) => run'[c] = Idle \/ \E f : run'[c] = Q(f)
  BY <1>6
<1>11. NextFile(c) => run'[c].at \in {"idle", "next", "read"} /\ run'[c].copy \in {run[c].copy, Dispatched}
  BY <1>5, <1>10 DEF Idle
<1>12. \A h : Ends(c, h) => /\ run[c].at = h /\ run'[c].at = "unlink"
                           /\ run'[c].file = run[c].file /\ run'[c].copy = Dispatched
  BY <1>1, <1>8
<1>13. \A h : Skips(c, h) => run[c].at = h /\ run'[c].at = "next" /\ run'[c].copy = Dispatched
  BY <1>2, <1>8
<1>14. \A e : Step(c, "read", [run[c] EXCEPT !.at = "write", !.copy = Updated(state, e)])
                => /\ run'[c].at = "write" /\ run'[c].file = run[c].file
                   /\ run'[c].copy = Updated(state, e)
  <2> SUFFICES ASSUME NEW e,
                      Step(c, "read", [run[c] EXCEPT !.at = "write", !.copy = Updated(state, e)])
               PROVE  /\ run'[c].at = "write" /\ run'[c].file = run[c].file
                      /\ run'[c].copy = Updated(state, e)
    OBVIOUS
  <2>1. run'[c] = W(Updated(state, e))
    BY <1>7
  <2> QED
    BY <1>4, <2>1
<1>15. /\ At(c, "write", "rename") => run[c].at = "write" /\ run'[c].at = "rename"
       /\ At(c, "rename", "log") => run[c].at = "rename" /\ run'[c].at = "log"
       /\ At(c, "log", "result") => run[c].at = "log" /\ run'[c].at = "result"
       /\ At(c, "write", "rename") \/ At(c, "rename", "log") \/ At(c, "log", "result")
            => run'[c].file = run[c].file /\ run'[c].copy = run[c].copy
  BY <1>3, <1>8
<1> QED
  BY <1>6, <1>9, <1>11, <1>12, <1>13, <1>14, <1>15

\* One step of a call of consume.
LEMMA ConsumeProgress ==
  ASSUME TypeInv, GatewayInv, NEW c \in Consumer, Consume(c)
  PROVE  GatewayInv'
<1> DEFINE e == EventIn[run[c].file]
<1>1. /\ run[c] \in Runs /\ WellFormed(run[c]) /\ Sound(state) /\ Sound(run[c].copy)
      /\ run \in [Consumer -> Runs]
      /\ c \notin raced => Progress(run[c])
  BY DEF TypeInv, TypeOK, GatewayInv, ContentInv, ProgressInv
<1>0. run \in [Consumer -> Runs]
  BY <1>1
<1>2. run[c].at \notin {"idle", "next"} => e \in Event
  BY <1>1, EventAssumption DEF WellFormed
<1>3. Sound(Dispatched)
  BY DEF Sound, Dispatched
<1>4. UNCHANGED cancel /\ \A d \in Consumer \ {c} : run'[d] = run[d]
  BY <1>0, Moves DEF Consume, NextFile, Read, WriteTemp, Rename, AppendLog, WriteResult, Unlink
<1>5. ASSUME Sound(run'[c].copy), UNCHANGED <<state, temp>>, raced \subseteq raced' \cup {c},
             c \notin raced' => Progress(run[c])'
      PROVE  GatewayInv'
  <2>1. ContentInv'
    BY <1>4, <1>5 DEF GatewayInv, ContentInv, Sound, ReachedIn
  <2>2. ProgressInv'
    BY <1>4, <1>5, ProgressKept DEF GatewayInv, ProgressInv
  <2>3. CancelInv'
    <3>1. c \notin Canceller
      BY EventAssumption
    <3> QED
      BY <1>4, <1>5, <3>1 DEF GatewayInv, CancelInv, SameButInternal
  <2> QED
    BY <2>1, <2>2, <2>3 DEF GatewayInv
<1>6. CASE NextFile(c)
  <2>1. run'[c].at \in {"idle", "next", "read"} /\ run'[c].copy \in {run[c].copy, Dispatched}
    BY <1>0, <1>6, Moves
  <2>2. Progress(run[c])'
    BY <2>1 DEF Progress
  <2> QED
    BY <1>1, <1>3, <1>5, <1>6, <2>1, <2>2 DEF NextFile, history
<1>7. CASE Read(c)
  <2>1. run[c].at = "read" /\ e \in Event /\ UNCHANGED <<state, temp, raced>>
    BY <1>2, <1>7 DEF Read, history
  <2>2. CASE ResyncRequired(state, e) \/ Deduped(state, e)
    <3>1. run'[c].at = "unlink" /\ run'[c].file = run[c].file /\ run'[c].copy = Dispatched
      BY <1>0, Moves, <1>7, <2>2 DEF Read
    <3>2. PICK d \in Event : d = e
      BY <2>1
    <3>3. Reflected(d)
      BY <1>1, <2>2, <3>2, DroppedReflects DEF TypeInv
    <3>4. Progress(run[c])'
      BY <2>1, <3>1, <3>2, <3>3 DEF Progress, Reflected, ReachedIn
    <3> QED
      BY <1>3, <1>5, <2>1, <3>1, <3>4
  <2>3. CASE ~(ResyncRequired(state, e) \/ Deduped(state, e))
    <3>1. run'[c].at = "write" /\ run'[c].file = run[c].file /\ run'[c].copy = Updated(state, e)
      BY <1>0, Moves, <1>7, <2>3 DEF Read
    <3>2. Progress(run[c])'
      BY <2>1, <2>3, <3>1
      DEF Progress, Pending, ResyncRequired, Deduped, EpochChanged, Updated, External
    <3>3. PICK d \in Event : d = e
      BY <2>1
    <3>4. Sound(Updated(state, d))
      BY UpdateReflects
    <3>5. Sound(run'[c].copy)
      BY <3>1, <3>3, <3>4
    <3> QED
      BY <1>5, <2>1, <3>2, <3>5
  <2> QED
    BY <2>2, <2>3
<1>8. CASE WriteTemp(c)
  <2>1. /\ run[c].at = "write" /\ run'[c].at = "rename"
        /\ run'[c].file = run[c].file /\ run'[c].copy = run[c].copy
        /\ temp' = run[c].copy /\ UNCHANGED state
        /\ raced' = raced \cup {d \in Consumer \ {c} : run[d].at = "rename"}
    BY <1>0, Moves, <1>8 DEF WriteTemp
  <2>2. ContentInv'
    BY <1>1, <1>4, <2>1 DEF GatewayInv, ContentInv, Sound, ReachedIn
  <2>3. ASSUME NEW d \in Consumer \ raced' PROVE Progress(run[d])'
    <3>1. Progress(run[d])
      BY <2>1, <2>3 DEF GatewayInv, ProgressInv
    <3>2. CASE d = c
      BY <2>1, <3>1, <3>2
      DEF Progress, Pending, ResyncRequired, Deduped, EpochChanged, Updated, External
    <3>3. CASE d # c
      <4>1. run'[d] = run[d] /\ run[d].at # "rename"
        BY <1>4, <2>1, <2>3, <3>3
      <4> QED
        BY <2>1, <3>1, <4>1, ProgressKept
    <3> QED
      BY <3>2, <3>3
  <2>4. CancelInv'
    BY <1>4, <2>1 DEF GatewayInv, CancelInv, SameButInternal
  <2> QED
    BY <2>2, <2>3, <2>4 DEF GatewayInv, ProgressInv
<1>9. CASE Rename(c)
  <2>1. run[c].at = "rename" /\ e \in Event /\ temp' = None
    BY <1>2, <1>9 DEF Rename, At, Skips, Step
  <2>2. PICK d \in Event : d = e
    BY <2>1
  <2>3. CASE temp = None
    <3>1. run'[c].at = "next" /\ run'[c].copy = Dispatched /\ UNCHANGED state
      BY <1>0, Moves, <1>9, <2>3 DEF Rename
    <3>2. Progress(run[c])'
      BY <3>1 DEF Progress
    <3> QED
      BY <1>3, <1>5, <1>9, <2>1, <2>3, <3>1, <3>2 DEF Rename, Finishes
  <2>4. CASE temp # None
    <3>1. /\ run'[c].at = "log" /\ run'[c].file = run[c].file /\ run'[c].copy = run[c].copy
          /\ state' = temp /\ raced' = raced \cup (InProgress \ {c})
      BY <1>0, Moves, <1>9, <2>4 DEF Rename, Overtakes
    <3>2. ContentInv'
      BY <1>1, <1>4, <2>1, <2>4, <3>1 DEF GatewayInv, ContentInv, Sound, ReachedIn
    <3>3. ASSUME c \notin raced' PROVE Progress(run[c])'
      <4>1. temp = Updated(state, d)
        BY <1>1, <2>1, <2>2, <3>1, <3>3 DEF Progress, Pending
      <4>2. ReachedIn(Updated(state, d), d)
        BY UpdateReflects
      <4>3. Reflected(d)'
        BY <3>1, <4>1, <4>2 DEF Reflected, ReachedIn
      <4>4. EventIn[run'[c].file] = d
        BY <2>2, <3>1
      <4> QED
        BY <3>1, <4>3, <4>4 DEF Progress
    <3>4. /\ \A x \in Consumer \ (raced' \cup {c}) : Progress(run[x])'
          /\ \A k \in Canceller \ (raced' \cup {c}) : cancel'[k].at # "loaded"
      BY <1>4, <3>1, SaveOvertakes
    <3>5. ProgressInv' /\ CancelInv'
      <4>1. c \notin Canceller
        BY EventAssumption
      <4> QED
        BY <3>3, <3>4, <4>1 DEF ProgressInv, CancelInv
    <3> QED
      BY <3>2, <3>5 DEF GatewayInv
  <2> QED
    BY <2>3, <2>4
<1>10. CASE AppendLog(c) \/ WriteResult(c)
  <2>1. /\ run[c].at \in {"log", "result"} /\ run'[c].at \in {"result", "unlink"}
        /\ run'[c].file = run[c].file /\ run'[c].copy \in {run[c].copy, Dispatched}
        /\ UNCHANGED <<state, temp, raced>>
    BY <1>0, Moves, <1>10 DEF AppendLog, WriteResult
  <2>2. c \notin raced => Progress(run[c])'
    BY <1>1, <2>1 DEF Progress, Reflected, ReachedIn
  <2> QED
    BY <1>1, <1>3, <1>5, <2>1, <2>2
<1>11. CASE Unlink(c)
  <2>1. run'[c].at = "next" /\ run'[c].copy = Dispatched /\ UNCHANGED <<state, temp>>
    BY <1>0, Moves, <1>11 DEF Unlink
  <2>2. Progress(run[c])'
    BY <2>1 DEF Progress
  <2> QED
    BY <1>3, <1>5, <1>11, <2>1, <2>2 DEF Unlink, Finishes
<1> QED
  BY <1>6, <1>7, <1>8, <1>9, <1>10, <1>11 DEF Consume

LEMMA GatewayStep ==
  ASSUME TypeInv, GatewayInv, [Next]_vars
  PROVE  GatewayInv'
<1> USE DEF TypeInv, TypeOK
<1>1. ASSUME NEW c \in Consumer, Consume(c) PROVE GatewayInv'
  BY <1>1, ConsumeProgress
<1>2. ASSUME UNCHANGED <<state, temp, cancel>>, raced \cap Canceller \subseteq raced',
             \A d \in Consumer : \/ run'[d] = run[d] /\ (d \notin raced' => d \notin raced)
                                 \/ run'[d].at \in {"idle", "next"} /\ run'[d].copy = Dispatched
      PROVE  GatewayInv'
  <2>1. ContentInv'
    BY <1>2 DEF GatewayInv, ContentInv, Sound, ReachedIn, Dispatched
  <2>2. ProgressInv'
    <3>1. ASSUME NEW d \in Consumer \ raced' PROVE Progress(run[d])'
      <4>1. CASE run'[d] = run[d] /\ d \notin raced
        BY <1>2, <4>1, ProgressKept DEF GatewayInv, ProgressInv
      <4>2. CASE run'[d].at \in {"idle", "next"}
        BY <4>2 DEF Progress
      <4> QED
        BY <1>2, <3>1, <4>1, <4>2
    <3> QED
      BY <3>1 DEF ProgressInv
  <2>3. CancelInv'
    BY <1>2 DEF GatewayInv, CancelInv, SameButInternal
  <2> QED
    BY <2>1, <2>2, <2>3 DEF GatewayInv
<1>3. ASSUME NEW f \in File, Deliver(f) PROVE GatewayInv'
  BY <1>2, <1>3 DEF Deliver, history
<1>4. ASSUME NEW c \in Consumer, StartDaemon(c) \/ Notice(c) PROVE GatewayInv'
  <2>1. /\ UNCHANGED <<state, temp, cancel, raced>> /\ run' = [run EXCEPT ![c] = Listing]
        /\ Listing.at = "next" /\ Listing.copy = Dispatched
    BY <1>4 DEF StartDaemon, Notice, history, Listing
  <2> QED
    BY <1>2, <2>1
<1>5. CASE Watch
  BY <1>2, <1>5 DEF Watch, history
<1>6. CASE Crash
  <2>1. /\ UNCHANGED <<state, cancel>> /\ raced' = raced \cap Canceller /\ temp' = None
        /\ \A d \in Consumer : run'[d].at = "idle" /\ run'[d].copy = Dispatched
    BY <1>6 DEF Crash, Idle
  <2>2. ContentInv'
    BY <2>1 DEF GatewayInv, ContentInv, Sound, ReachedIn, Dispatched
  <2>3. ProgressInv'
    BY <2>1 DEF ProgressInv, Progress
  <2>4. CancelInv'
    BY <2>1 DEF GatewayInv, CancelInv, SameButInternal
  <2> QED
    BY <2>2, <2>3, <2>4 DEF GatewayInv
<1>7. ASSUME NEW k \in Canceller, CancelLoad(k) PROVE GatewayInv'
  <2>1. /\ UNCHANGED <<state, temp, run, raced>>
        /\ \A j \in Canceller \ {k} : cancel'[j] = cancel[j]
        /\ cancel'[k].copy = [state EXCEPT !.internal = "CANCELLED"]
    BY <1>7 DEF CancelLoad, history
  <2>2. SameButInternal(cancel'[k].copy, state)
    BY <2>1 DEF SameButInternal, StateFiles
  <2>3. ContentInv'
    BY <2>1, <2>2 DEF GatewayInv, ContentInv, Sound, ReachedIn, SameButInternal
  <2>4. ProgressInv'
    BY <2>1, ProgressKept DEF GatewayInv, ProgressInv
  <2>5. CancelInv'
    BY <2>1, <2>2 DEF GatewayInv, CancelInv, SameButInternal
  <2> QED
    BY <2>3, <2>4, <2>5 DEF GatewayInv
<1>8. ASSUME NEW k \in Canceller, CancelSave(k) PROVE GatewayInv'
  <2>1. /\ state' = cancel[k].copy /\ UNCHANGED <<temp, run>> /\ raced' = (raced \cup InProgress) \ {k}
        /\ \A j \in Canceller \ {k} : cancel'[j] = cancel[j]
        /\ cancel'[k].at = "done" /\ cancel'[k].copy = Dispatched
    BY <1>8 DEF CancelSave
  <2>2. ContentInv'
    BY <2>1 DEF GatewayInv, ContentInv, Sound, ReachedIn, Dispatched
  <2>3. k \notin Consumer
    BY EventAssumption
  <2>4. /\ \A d \in Consumer \ (raced' \cup {k}) : Progress(run[d])'
        /\ \A j \in Canceller \ (raced' \cup {k}) : cancel'[j].at # "loaded"
    BY <2>1, SaveOvertakes
  <2>5. ProgressInv' /\ CancelInv'
    BY <2>1, <2>3, <2>4 DEF ProgressInv, CancelInv
  <2> QED
    BY <2>2, <2>5 DEF GatewayInv
<1>9. CASE UNCHANGED vars
  BY <1>2, <1>9 DEF vars, history
<1> QED
  BY <1>1, <1>3, <1>4, <1>5, <1>6, <1>7, <1>8, <1>9 DEF Next

LEMMA GatewayInvariant == Spec => []GatewayInv
<1>1. Init => GatewayInv
  BY DEF Init, Dispatched, Idle, GatewayInv, ContentInv, ProgressInv, CancelInv, Sound, Progress
<1>2. TypeInv /\ GatewayInv /\ [Next]_vars => GatewayInv'
  BY GatewayStep
<1> QED
  BY <1>1, <1>2, TypeInvariant, PTL DEF Spec

-----------------------------------------------------------------------------
(* The theorems. *)

\* A save by a call that nobody has overtaken.
LEMMA RenameMoves ==
  ASSUME TypeInv, GatewayInv, NEW c \in Consumer \ raced, Rename(c), temp # None
  PROVE  /\ run[c].at = "rename" /\ run[c].file \in File /\ EventIn[run[c].file] \in Event
         /\ ~ResyncRequired(state, EventIn[run[c].file]) /\ ~Deduped(state, EventIn[run[c].file])
         /\ state' = Updated(state, EventIn[run[c].file]) /\ state' = run[c].copy
<1>1. run[c].at = "rename" /\ state' = temp
  BY DEF Rename, At, Step
<1>2. run[c].file \in File
  BY <1>1 DEF TypeInv, WellFormed
<1>3. EventIn[run[c].file] \in Event
  BY <1>2, EventAssumption
<1> QED
  BY <1>1, <1>2, <1>3 DEF GatewayInv, ProgressInv, Progress, Pending

\* The state goes back within an epoch only where a call that was overtaken saves
\* what it made of an older one, however many calls of consume and cancel overlap,
\* whatever is delivered, in which order and how often, and wherever the daemon dies.
THEOREM StateNeverGoesBack == Spec => StateAdvances
<1> DEFINE Advances == \/ state'.epoch = state.epoch /\ state.seq # None
                            => state'.seq # None /\ state.seq <= state'.seq
                       \/ \E c \in Consumer \cap raced : run[c].at = "rename" /\ run[c] # run'[c]
                       \/ \E k \in Canceller \cap raced : cancel[k] # cancel'[k]
<1>1. TypeInv /\ GatewayInv /\ [Next]_vars => [Advances]_vars
  <2> SUFFICES ASSUME TypeInv, GatewayInv, [Next]_vars PROVE Advances
    OBVIOUS
  <2>1. ASSUME state'.seq = state.seq, state.seq # None
        PROVE  state'.seq # None /\ state.seq <= state'.seq
    BY <2>1 DEF TypeInv, TypeOK, StateFiles
  <2>2. CASE UNCHANGED state
    BY <2>1, <2>2
  <2>3. ASSUME NEW c \in Consumer, Rename(c), temp # None PROVE Advances
    <3>1. CASE c \in raced
      <4>1. run[c].at = "rename" /\ run'[c].at = "log"
        BY <2>3 DEF Rename, At, Step, TypeInv, TypeOK, Runs
      <4> QED
        BY <3>1, <4>1
    <3>2. CASE c \notin raced
      <4>1. PICK e \in Event : ~Deduped(state, e) /\ state' = Updated(state, e)
        BY <2>3, <3>2, RenameMoves
      <4> QED
        BY <4>1, UpdateAdvances DEF TypeInv
    <3> QED
      BY <3>1, <3>2
  <2>4. ASSUME NEW k \in Canceller, CancelSave(k) PROVE Advances
    <3>1. cancel[k].at = "loaded" /\ cancel'[k].at = "done" /\ state' = cancel[k].copy
      BY <2>4 DEF CancelSave, TypeInv, TypeOK
    <3>2. CASE k \in raced
      BY <3>1, <3>2
    <3>3. CASE k \notin raced
      BY <2>1, <3>1, <3>3 DEF GatewayInv, CancelInv, SameButInternal
    <3> QED
      BY <3>2, <3>3
  <2> QED
    BY <2>2, <2>3, <2>4
    DEF Next, vars, Deliver, StartDaemon, Notice, Watch, Crash, Consume, NextFile, Read, CancelLoad,
        WriteTemp, AppendLog, WriteResult, Unlink, Rename
<1> QED
  BY <1>1, TypeInvariant, GatewayInvariant, PTL DEF Spec, StateAdvances

\* No event is removed from the inbox before the state has reached it, also when
\* daemons die in between, unless the call that removes it has been overtaken by
\* another writer of the state since it read it.
THEOREM NothingIsLost == Spec => RemovedWhenReflected
<1> DEFINE Kept(f) == LET e == EventIn[f] IN
                      \/ Epoch[e] = state.epoch /\ SeqNo[e] # None
                           => state.seq # None /\ SeqNo[e] <= state.seq
                      \/ \E c \in Consumer \cap raced : run[c].file = f /\ run[c] # run'[c]
<1>1. TypeInv /\ GatewayInv /\ [Next]_vars => [\A f \in inbox \ inbox' : Kept(f)]_vars
  <2> SUFFICES ASSUME TypeInv, GatewayInv, [Next]_vars, NEW f \in inbox \ inbox'
               PROVE  Kept(f)
    OBVIOUS
  <2>1. PICK c \in Consumer : Unlink(c)
    BY DEF Next, vars, Deliver, StartDaemon, Notice, Watch, Crash, CancelLoad, CancelSave, Consume,
           NextFile, Read, WriteTemp, Rename, AppendLog, WriteResult
  <2>2. run[c].at = "unlink" /\ f = run[c].file /\ run'[c].at = "next"
    BY <2>1 DEF Unlink, Skips, Step, TypeInv, TypeOK, Runs
  <2>3. CASE c \in raced
    BY <2>2, <2>3
  <2>4. CASE c \notin raced
    BY <2>2, <2>4 DEF GatewayInv, ProgressInv, Progress, Reflected, ReachedIn
  <2> QED
    BY <2>3, <2>4
<1> QED
  BY <1>1, TypeInvariant, GatewayInvariant, PTL DEF Spec, RemovedWhenReflected

-----------------------------------------------------------------------------
(* The records of a task: its log follows the executor's order, its result is   *)
(* the one of its state.  The log needs that epochs do not return: an executor   *)
(* that numbers its events names their epoch, and the state leaves an epoch for   *)
(* one epoch only.  An event of an old epoch that claims to be a snapshot would   *)
(* take the state back, and the log would repeat that epoch's numbers.           *)

EpochsDoNotReturn ==
  /\ \A e \in Event : SeqNo[e] # None => Epoch[e] # None
  /\ \A d, e \in Snapshot : None \in {Epoch[d], Epoch[e]} \/ Epoch[d] = Epoch[e]

Precedes(d, e) ==
  Epoch[d] = Epoch[e] /\ SeqNo[d] # None /\ SeqNo[e] # None => SeqNo[d] < SeqNo[e]

\* The state has reached what is in the log, which is of its epoch unless the state
\* is in the epoch it came to by a snapshot.
Logged(e) ==
  /\ Reflected(e)
  /\ \/ Epoch[e] \in {None, state.epoch}
     \/ state.epoch # None /\ \E d \in Snapshot : Epoch[d] = state.epoch

\* Between the rename and the append, the event is later than all in the log.
Appending(r) ==
  r.at = "log" =>
    /\ Epoch[EventIn[r.file]] \in {None, state.epoch}
    /\ \A i \in DOMAIN log : mark < i => Precedes(log[i], EventIn[r.file])

\* What has been logged since an overtaken call last wrote.
AllLogged == \A i \in DOMAIN log : mark < i => Logged(log[i])

\* A call that has saved its state has not written all that follows from it.
Reporting(r) == r.at \in {"log", "result"}

\* Of two calls that are reporting one has overtaken the other.
Alone == \A c, d \in Consumer \ raced : Reporting(run[c]) /\ Reporting(run[d]) => c = d

AppendingInv == \A c \in Consumer \ raced : Appending(run[c])

LogInv == LogInOrder /\ AllLogged /\ AppendingInv /\ Alone

\* A terminal state is on its way to result.json.
ResultInv ==
  /\ daemon = "down" => ~signal /\ AllIdle
  /\ \A c \in Consumer \ raced : Reporting(run[c]) => Compact(run[c].copy) = Compact(state)
  /\ crashes = 0 /\ mark < Len(log) /\ state.external # None /\ (\A c \in Consumer : ~Reporting(run[c]))
       => result = Compact(state)

\* The rename: what was logged stays reached, and the new event is later.
LEMMA UpdateLogged ==
  ASSUME TypeOK, EpochsDoNotReturn, NEW e \in Event, ~ResyncRequired(state, e), ~Deduped(state, e),
         state' = Updated(state, e), NEW d \in Event, Logged(d)
  PROVE  Logged(d)' /\ Precedes(d, e) /\ Epoch[e] \in {None, state'.epoch}
<1>1. /\ state'.epoch = IF Epoch[e] # None THEN Epoch[e] ELSE state.epoch
      /\ state'.seq = IF EpochChanged(state, e) \/ SeqNo[e] # None THEN SeqNo[e] ELSE state.seq
  BY DEF Updated
<1>2. /\ SeqNo[e] \in Nat \cup {None} /\ SeqNo[d] \in Nat \cup {None} /\ state.seq \in Nat \cup {None}
      /\ None \notin Nat
  BY EventAssumption DEF TypeOK, StateFiles
<1>3. SeqNo[d] # None => Epoch[d] # None
  BY DEF EpochsDoNotReturn
<1>4. CASE EpochChanged(state, e)
  <2>1. e \in Snapshot /\ Epoch[e] # None /\ state.epoch # None /\ Epoch[e] # state.epoch
    BY <1>4 DEF ResyncRequired, EpochChanged
  <2>2. Epoch[d] \in {None, state.epoch}
    BY <2>1, EventAssumption DEF Logged, EpochsDoNotReturn
  <2>3. Epoch[d] # Epoch[e] /\ state'.epoch = Epoch[e]
    BY <1>1, <2>1, <2>2
  <2> QED
    BY <2>1, <2>3 DEF Logged, Reflected, ReachedIn, Precedes
<1>5. CASE ~EpochChanged(state, e)
  <2>1. SeqNo[e] # None => state'.seq = SeqNo[e] /\ (state.seq # None => state.seq < SeqNo[e])
    BY <1>1, <1>2, <1>5 DEF Deduped
  <2>2. SeqNo[e] = None => state'.seq = state.seq
    BY <1>1, <1>5
  <2>3. state'.epoch = state.epoch \/ state.epoch = None
    BY <1>1, <1>5 DEF EpochChanged
  <2>4. CASE state'.epoch = state.epoch
    <3>1. Reflected(d)'
      BY <1>2, <2>1, <2>2, <2>4 DEF Logged, Reflected, ReachedIn
    <3>2. Precedes(d, e)
      <4> SUFFICES ASSUME Epoch[d] = Epoch[e], SeqNo[d] # None, SeqNo[e] # None
                   PROVE  SeqNo[d] < SeqNo[e]
        BY DEF Precedes
      <4>1. Epoch[d] = state.epoch
        BY <1>1, <1>3, <2>4
      <4> QED
        BY <1>2, <2>1, <4>1 DEF Logged, Reflected, ReachedIn
    <3> QED
      BY <1>1, <2>4, <3>1, <3>2 DEF Logged
  <2>5. CASE state'.epoch # state.epoch
    <3>1. Epoch[d] = None /\ SeqNo[d] = None
      BY <1>3, <2>3, <2>5 DEF Logged
    <3> QED
      BY <1>1, <3>1 DEF Logged, Reflected, ReachedIn, Precedes
  <2> QED
    BY <2>4, <2>5
<1> QED
  BY <1>4, <1>5

\* One event more at the end of the log.
LEMMA AppendInOrder ==
  ASSUME LogInOrder, log \in Seq(Event), NEW e \in Event, log' = Append(log, e),
         \A i \in DOMAIN log : mark < i => Precedes(log[i], e), UNCHANGED mark, mark \in Nat
  PROVE  LogInOrder' /\ \A i \in DOMAIN log' : log'[i] = e \/ (i \in DOMAIN log /\ log'[i] = log[i])
<1>1. /\ DOMAIN log' = 1 .. Len(log) + 1 /\ DOMAIN log = 1 .. Len(log) /\ Len(log) \in Nat
      /\ log'[Len(log) + 1] = e
      /\ \A i \in 1 .. Len(log) : log'[i] = log[i]
  OBVIOUS
<1>2. ASSUME NEW i \in DOMAIN log', NEW j \in DOMAIN log', mark < i, i < j,
             Epoch[log'[i]] = Epoch[log'[j]], SeqNo[log'[i]] # None, SeqNo[log'[j]] # None
      PROVE  SeqNo[log'[i]] < SeqNo[log'[j]]
  <2>1. i \in DOMAIN log /\ log'[i] = log[i]
    BY <1>1, <1>2
  <2>2. CASE j \in DOMAIN log
    BY <1>1, <1>2, <2>1, <2>2 DEF LogInOrder
  <2>3. CASE j \notin DOMAIN log
    <3>1. log'[j] = e
      BY <1>1, <1>2, <2>3
    <3> QED
      BY <1>2, <2>1, <3>1 DEF Precedes
  <2> QED
    BY <2>2, <2>3
<1>3. \A i \in DOMAIN log' : log'[i] = e \/ (i \in DOMAIN log /\ log'[i] = log[i])
  BY <1>1
<1> QED
  BY <1>2, <1>3 DEF LogInOrder

\* A write by an overtaken call leaves nothing in the log to speak of.
LEMMA NothingToSay ==
  ASSUME log' \in Seq(Event), mark' = Len(log')
  PROVE  /\ LogInOrder' /\ AllLogged'
         /\ \A r : r.at = "log" /\ Epoch[EventIn[r.file]] \in {None, state'.epoch} => Appending(r)'
<1>1. Len(log') \in Nat /\ DOMAIN log' = 1 .. Len(log')
  OBVIOUS
<1>2. \A i \in DOMAIN log' : ~(mark' < i)
  BY <1>1
<1> QED
  BY <1>2 DEF LogInOrder, AllLogged, Appending

\* The state, the log and the calls at work on them that a step leaves alone.
LEMMA LogKept ==
  ASSUME LogInv, UNCHANGED <<log, mark>>, state'.epoch = state.epoch, state'.seq = state.seq,
         \A c \in Consumer : \/ run'[c] = run[c] /\ (c \notin raced' => c \notin raced)
                             \/ ~Reporting(run'[c])
  PROVE  LogInv'
<1>1. LogInOrder' /\ AllLogged'
  BY DEF LogInv, LogInOrder, AllLogged, Logged, Reflected, ReachedIn
<1>2. AppendingInv'
  BY DEF LogInv, AppendingInv, Appending, Precedes, Reporting
<1>3. Alone'
  BY DEF LogInv, Alone, Reporting
<1> QED
  BY <1>1, <1>2, <1>3 DEF LogInv

\* A save by w, which is the only call left that nobody has overtaken.
LEMMA SaveAlone ==
  ASSUME NEW w, raced \cup (InProgress \ {w}) \subseteq raced' \cup {w},
         \A d \in Consumer \ {w} : run'[d] = run[d],
         w \in Consumer \ raced' => Appending(run[w])'
  PROVE  AppendingInv' /\ Alone'
<1>1. \A d \in Consumer \ raced' : d = w \/ ~Reporting(run'[d])
  BY DEF InProgress, Reporting
<1> QED
  BY <1>1 DEF AppendingInv, Alone, Reporting, Appending

LEMMA LogStep ==
  ASSUME EpochsDoNotReturn, TypeInv, GatewayInv, LogInv, [Next]_vars
  PROVE  LogInv'
<1> USE DEF TypeInv, TypeOK
<1>0. run \in [Consumer -> Runs] /\ Len(log) \in Nat /\ mark \in Nat
  OBVIOUS
<1>1. ASSUME NEW c \in Consumer, Rename(c) PROVE LogInv'
  <2> DEFINE e == EventIn[run[c].file]
  <2>1. UNCHANGED log /\ \A d \in Consumer \ {c} : run'[d] = run[d]
    BY <1>0, <1>1, Moves DEF Rename, Consume
  <2>2. CASE temp = None
    <3>1. run'[c].at = "next" /\ UNCHANGED <<state, mark>> /\ raced' = raced \ {c}
      BY <1>0, <1>1, <2>2, Moves DEF Rename, Finishes
    <3> QED
      BY <2>1, <3>1, LogKept DEF Reporting
  <2>3. CASE temp # None
    <3>1. /\ run'[c].at = "log" /\ run'[c].file = run[c].file
          /\ raced' = raced \cup (InProgress \ {c})
          /\ mark' = IF c \in raced THEN Len(log) ELSE mark
      BY <1>0, <1>1, <2>3, Moves DEF Rename, Overtakes, Marks
    <3>2. CASE c \in raced
      <4>1. LogInOrder' /\ AllLogged'
        BY <2>1, <3>1, <3>2, NothingToSay
      <4>2. AppendingInv' /\ Alone'
        BY <2>1, <3>1, <3>2, SaveAlone
      <4> QED
        BY <4>1, <4>2 DEF LogInv
    <3>3. CASE c \notin raced
      <4>1. /\ e \in Event /\ ~ResyncRequired(state, e) /\ ~Deduped(state, e)
            /\ state' = Updated(state, e)
        BY <1>1, <2>3, <3>3, RenameMoves
      <4>2. \A i \in DOMAIN log : log[i] \in Event
        OBVIOUS
      <4> HIDE DEF e
      <4>3. \A d \in Event : Logged(d) => Logged(d)' /\ Precedes(d, e)
        <5>1. PICK f \in Event : f = e
          BY <4>1
        <5> QED
          BY <4>1, <5>1, UpdateLogged
      <4>4. Epoch[e] \in {None, state'.epoch}
        BY <4>1 DEF Updated
      <4>5. AllLogged' /\ \A i \in DOMAIN log : mark < i => Precedes(log[i], e)
        <5> SUFFICES ASSUME NEW i \in DOMAIN log, mark < i PROVE Logged(log[i])' /\ Precedes(log[i], e)
          BY <2>1, <3>1, <3>3 DEF AllLogged
        <5>1. PICK d \in Event : d = log[i]
          BY <4>2
        <5>2. Logged(d)
          BY <5>1 DEF LogInv, AllLogged
        <5>3. Logged(d)' /\ Precedes(d, e) /\ d = log'[i]
          BY <2>1, <4>3, <5>1, <5>2
        <5> QED
          BY <5>1, <5>3 DEF Logged, Reflected, ReachedIn
      <4>6. Appending(run[c])'
        BY <2>1, <3>1, <3>3, <4>4, <4>5 DEF Appending, Precedes, e
      <4>7. AppendingInv' /\ Alone'
        BY <2>1, <3>1, <4>6, SaveAlone
      <4>8. LogInOrder'
        BY <2>1, <3>1, <3>3 DEF LogInv, LogInOrder
      <4> QED
        BY <4>5, <4>7, <4>8 DEF LogInv
    <3> QED
      BY <3>2, <3>3
  <2> QED
    BY <2>2, <2>3
<1>2. ASSUME NEW c \in Consumer, AppendLog(c) PROVE LogInv'
  <2> DEFINE e == EventIn[run[c].file]
  <2>1. /\ run[c].at = "log" /\ UNCHANGED <<state, raced>>
        /\ log' = Append(log, e) /\ run'[c].at \in {"result", "unlink"}
        /\ mark' = (IF c \in raced THEN Len(log) + 1 ELSE mark)
        /\ \A d \in Consumer \ {c} : run'[d] = run[d]
    BY <1>0, <1>2, Moves DEF AppendLog, Marks, Consume
  <2>2. run[c].file \in File
    BY <2>1 DEF WellFormed
  <2>3. e \in Event
    BY <2>2, EventAssumption
  <2>4. log' \in Seq(Event) /\ Len(log') = Len(log) + 1
    BY <2>1, <2>3
  <2>5. Alone'
    BY <2>1 DEF LogInv, Alone, Reporting
  <2>6. CASE c \in raced
    <3>1. LogInOrder' /\ AllLogged'
      BY <2>1, <2>4, <2>6, NothingToSay
    <3>2. \A i \in DOMAIN log' : ~(mark' < i)
      BY <2>1, <2>4, <2>6
    <3>3. AppendingInv'
      BY <2>1, <3>2 DEF LogInv, AppendingInv, Appending
    <3> QED
      BY <2>5, <3>1, <3>3 DEF LogInv
  <2>7. CASE c \notin raced
    <3>1. Epoch[e] \in {None, state.epoch} /\ \A i \in DOMAIN log : mark < i => Precedes(log[i], e)
      BY <2>1, <2>7 DEF LogInv, AppendingInv, Appending
    <3>2. Reflected(e)
      BY <2>1, <2>7 DEF GatewayInv, ProgressInv, Progress
    <3> HIDE DEF e
    <3>3. /\ LogInOrder'
          /\ \A i \in DOMAIN log' : log'[i] = e \/ (i \in DOMAIN log /\ log'[i] = log[i])
      BY <2>1, <2>3, <2>7, <3>1, AppendInOrder DEF LogInv
    <3>4. \A i \in DOMAIN log' : mark < i => Logged(log'[i])
      BY <3>1, <3>2, <3>3 DEF LogInv, AllLogged, Logged
    <3>5. AllLogged'
      BY <2>1, <2>7, <3>4 DEF AllLogged, Logged, Reflected, ReachedIn
    <3>6. \A d \in Consumer \ raced : ~(run'[d].at = "log")
      BY <2>1, <2>7 DEF LogInv, Alone, Reporting
    <3>7. AppendingInv'
      BY <2>1, <3>6 DEF AppendingInv, Appending
    <3> QED
      BY <2>5, <3>3, <3>5, <3>7 DEF LogInv
  <2> QED
    BY <2>6, <2>7
<1>3. ASSUME NEW c \in Consumer, WriteResult(c) PROVE LogInv'
  <2>1. /\ run[c].at = "result" /\ run'[c].at = "unlink" /\ UNCHANGED <<state, log, raced>>
        /\ mark' = (IF c \in raced THEN Len(log) ELSE mark)
        /\ \A d \in Consumer \ {c} : run'[d] = run[d]
    BY <1>0, <1>3, Moves DEF WriteResult, Marks, Consume
  <2>2. CASE c \in raced
    <3>1. LogInOrder' /\ AllLogged'
      BY <2>1, <2>2, NothingToSay
    <3>2. \A i \in DOMAIN log' : ~(mark' < i)
      BY <2>1, <2>2
    <3>3. AppendingInv' /\ Alone'
      BY <2>1, <3>2 DEF LogInv, AppendingInv, Appending, Alone, Reporting
    <3> QED
      BY <3>1, <3>3 DEF LogInv
  <2>3. CASE c \notin raced
    BY <2>1, <2>3, LogKept DEF Reporting
  <2> QED
    BY <2>2, <2>3
<1>4. ASSUME NEW c \in Consumer, NextFile(c) \/ Read(c) \/ WriteTemp(c) \/ Unlink(c) PROVE LogInv'
  <2>1. UNCHANGED <<state, log, mark>> /\ \A d \in Consumer \ {c} : run'[d] = run[d]
    BY <1>0, <1>4, Moves DEF NextFile, Read, WriteTemp, Unlink, Consume, history
  <2>2. raced \ {c} \subseteq raced'
    BY <1>4 DEF NextFile, Read, WriteTemp, Unlink, Finishes, history
  <2>3. run'[c].at \in {"idle", "next", "read", "write", "rename", "unlink"}
    <3>1. CASE Read(c)
      BY <1>0, <3>1, Moves DEF Read
    <3>2. CASE ~Read(c)
      BY <1>0, <1>4, <3>2, Moves DEF WriteTemp, Unlink
    <3> QED
      BY <3>1, <3>2
  <2> QED
    BY <2>1, <2>2, <2>3, LogKept DEF Reporting
<1>5. ASSUME NEW c \in Consumer, StartDaemon(c) \/ Notice(c) PROVE LogInv'
  <2>1. /\ run'[c].at = "next" /\ UNCHANGED <<state, log, mark, raced>>
        /\ \A d \in Consumer \ {c} : run'[d] = run[d]
    BY <1>5 DEF StartDaemon, Notice, Listing, history
  <2> QED
    BY <2>1, LogKept DEF Reporting
<1>6. CASE Crash
  <2>1. (\A c \in Consumer : run'[c].at = "idle") /\ UNCHANGED <<state, log, mark>>
    BY <1>6 DEF Crash, Idle
  <2> QED
    BY <2>1, LogKept DEF Reporting
<1>7. ASSUME NEW k \in Canceller, CancelSave(k) PROVE LogInv'
  <2>1. /\ cancel[k].at = "loaded" /\ UNCHANGED <<log, run>> /\ state' = cancel[k].copy
        /\ raced' = (raced \cup InProgress) \ {k}
        /\ mark' = IF k \in raced THEN Len(log) ELSE mark
    BY <1>7 DEF CancelSave, Marks
  <2>2. k \notin Consumer
    BY EventAssumption
  <2>3. AppendingInv' /\ Alone'
    BY <2>1, <2>2, SaveAlone
  <2>4. CASE k \in raced
    BY <2>1, <2>3, <2>4, NothingToSay DEF LogInv
  <2>5. CASE k \notin raced
    <3>1. SameButInternal(state', state)
      BY <2>1, <2>5 DEF GatewayInv, CancelInv
    <3>2. LogInOrder' /\ AllLogged'
      BY <2>1, <2>5, <3>1
      DEF LogInv, LogInOrder, AllLogged, Logged, Reflected, ReachedIn, SameButInternal
    <3> QED
      BY <2>3, <3>2 DEF LogInv
  <2> QED
    BY <2>4, <2>5
<1>8. CASE Watch \/ UNCHANGED vars \/ (\E f \in File : Deliver(f)) \/ \E k \in Canceller : CancelLoad(k)
  BY <1>8, LogKept DEF Watch, vars, Deliver, CancelLoad, history
<1> QED
  BY <1>1, <1>2, <1>3, <1>4, <1>5, <1>6, <1>7, <1>8 DEF Next, Consume

\* What a step leaves alone of the result and of the calls that write it.
LEMMA ResultKept ==
  ASSUME ResultInv, UNCHANGED <<state, result, crashes, log, mark>>,
         daemon' = "down" => ~signal' /\ AllIdle',
         \A c \in Consumer : \/ run'[c] = run[c] /\ (c \notin raced' => c \notin raced)
                             \/ ~Reporting(run'[c]) /\ ~Reporting(run[c])
  PROVE  ResultInv'
  BY DEF ResultInv, Reporting, Compact

LEMMA ResultStep ==
  ASSUME TypeInv, GatewayInv, LogInv, ResultInv, [Next]_vars
  PROVE  ResultInv'
<1> USE DEF TypeInv, TypeOK
<1>0. run \in [Consumer -> Runs] /\ Len(log) \in Nat /\ mark \in Nat
  OBVIOUS
<1>1. daemon' = "down" => ~signal' /\ AllIdle'
  <2>1. daemon = "down" => ~signal /\ AllIdle
    BY DEF ResultInv
  <2>2. ASSUME NEW c \in Consumer, Consume(c) PROVE daemon' = daemon /\ daemon # "down"
    <3>1. run[c].at # "idle"
      BY <1>0, <2>2, Moves
      DEF Consume, Read, WriteTemp, Rename, AppendLog, WriteResult, Unlink, Skips, Ends, At, Step
    <3>2. daemon' = daemon
      BY <2>2 DEF Consume, NextFile, Read, WriteTemp, Rename, AppendLog, WriteResult, Unlink
    <3> QED
      BY <2>1, <3>1, <3>2 DEF AllIdle, Idle
  <2> QED
    BY <2>1, <2>2
    DEF Next, vars, Deliver, Changed, StartDaemon, Notice, Watch, Crash, CancelLoad, CancelSave, AllIdle
<1>2. ASSUME NEW c \in Consumer, Rename(c) PROVE ResultInv'
  <2>1. /\ run[c].at = "rename" /\ UNCHANGED <<result, crashes, log>>
        /\ \A d \in Consumer \ {c} : run'[d] = run[d]
    BY <1>0, <1>2, Moves DEF Rename, Consume
  <2>2. CASE temp = None
    <3>1. run'[c].at = "next" /\ UNCHANGED <<state, mark>> /\ raced' = raced \ {c}
      BY <1>0, <1>2, <2>2, Moves DEF Rename, Finishes
    <3> QED
      BY <2>1, <3>1, <1>1, ResultKept DEF Reporting
  <2>3. CASE temp # None
    <3>1. /\ run'[c].at = "log" /\ run'[c].copy = run[c].copy
          /\ raced' = raced \cup (InProgress \ {c})
      BY <1>0, <1>2, <2>3, Moves DEF Rename, Overtakes
    <3>2. c \notin raced' => state' = run[c].copy
      BY <1>2, <2>3, <3>1, RenameMoves
    <3>3. \A d \in Consumer \ raced' : d = c \/ ~Reporting(run'[d])
      BY <2>1, <3>1 DEF InProgress, Reporting
    <3> QED
      BY <1>1, <3>1, <3>2, <3>3 DEF ResultInv, Reporting, Compact
  <2> QED
    BY <2>2, <2>3
<1>3. ASSUME NEW c \in Consumer, AppendLog(c) PROVE ResultInv'
  <2>1. /\ run[c].at = "log" /\ UNCHANGED <<state, result, crashes, raced>>
        /\ \A d \in Consumer \ {c} : run'[d] = run[d]
        /\ mark' = (IF c \in raced THEN Len(log) + 1 ELSE mark)
        /\ log' = Append(log, EventIn[run[c].file])
    BY <1>0, <1>3, Moves DEF AppendLog, Marks, Consume
  <2>2. /\ run[c].copy.external \in Externals => run'[c].at = "result" /\ run'[c].copy = run[c].copy
        /\ run[c].copy.external \notin Externals => run'[c].at = "unlink"
    BY <1>0, <1>3, Moves DEF AppendLog
  <2>3. c \notin raced => Compact(run[c].copy) = Compact(state)
    BY <2>1 DEF ResultInv, Reporting
  <2>4. \A d \in Consumer \ raced' : Reporting(run'[d]) => Compact(run'[d].copy) = Compact(state')
    <3> SUFFICES ASSUME NEW d \in Consumer \ raced', Reporting(run'[d])
                 PROVE  Compact(run'[d].copy) = Compact(state')
      OBVIOUS
    <3>1. CASE d = c
      BY <2>1, <2>2, <2>3, <3>1 DEF Reporting, Compact
    <3>2. CASE d # c
      BY <2>1, <3>2 DEF ResultInv, Compact
    <3> QED
      BY <3>1, <3>2
  <2>5. ASSUME mark' < Len(log'), state'.external # None, \A d \in Consumer : ~Reporting(run'[d])
        PROVE  FALSE
    <3>1. c \notin raced
      <4>1. run[c].file \in File
        BY <2>1 DEF WellFormed
      <4>2. EventIn[run[c].file] \in Event
        BY <4>1, EventAssumption
      <4>3. Len(log') = Len(log) + 1
        BY <2>1, <4>2
      <4> QED
        BY <1>0, <2>1, <2>5, <4>3
    <3>2. run[c].copy.external = state.external
      BY <2>3, <3>1 DEF Compact
    <3>3. run[c].copy.external \notin Externals
      BY <2>2, <2>5 DEF Reporting
    <3> QED
      BY <2>1, <2>5, <3>2, <3>3 DEF StateFiles
  <2> QED
    BY <1>1, <2>4, <2>5 DEF ResultInv
<1>4. ASSUME NEW c \in Consumer, WriteResult(c) PROVE ResultInv'
  <2>1. /\ run[c].at = "result" /\ run'[c].at = "unlink" /\ UNCHANGED <<state, crashes, log, raced>>
        /\ \A d \in Consumer \ {c} : run'[d] = run[d]
        /\ mark' = (IF c \in raced THEN Len(log) ELSE mark)
        /\ result' = Compact(run[c].copy)
    BY <1>0, <1>4, Moves DEF WriteResult, Marks, Consume
  <2>2. c \notin raced => result' = Compact(state')
    BY <2>1 DEF ResultInv, Reporting, Compact
  <2>3. c \in raced => ~(mark' < Len(log'))
    BY <1>0, <2>1
  <2>4. \A d \in Consumer \ raced' : Reporting(run'[d]) => Compact(run'[d].copy) = Compact(state')
    BY <2>1 DEF ResultInv, Reporting, Compact
  <2> QED
    BY <1>1, <2>2, <2>3, <2>4 DEF ResultInv
<1>5. ASSUME NEW c \in Consumer, NextFile(c) \/ Read(c) \/ WriteTemp(c) \/ Unlink(c) PROVE ResultInv'
  <2>1. /\ UNCHANGED <<state, result, crashes, log, mark>>
        /\ \A d \in Consumer \ {c} : run'[d] = run[d]
    BY <1>0, <1>5, Moves DEF NextFile, Read, WriteTemp, Unlink, Consume, history
  <2>2. raced \ {c} \subseteq raced'
    BY <1>5 DEF NextFile, Read, WriteTemp, Unlink, Finishes, history
  <2>3. /\ run[c].at \in {"next", "read", "write", "unlink"}
        /\ run'[c].at \in {"idle", "next", "read", "write", "rename", "unlink"}
    <3>1. CASE Read(c)
      BY <1>0, <3>1, Moves DEF Read
    <3>2. CASE ~Read(c)
      BY <1>0, <1>5, <3>2, Moves DEF WriteTemp, Unlink
    <3> QED
      BY <3>1, <3>2
  <2> QED
    BY <1>1, <2>1, <2>2, <2>3, ResultKept DEF Reporting
<1>6. ASSUME NEW c \in Consumer, StartDaemon(c) \/ Notice(c) PROVE ResultInv'
  <2>1. /\ run'[c].at = "next" /\ run[c].at = "idle"
        /\ UNCHANGED <<state, result, crashes, log, mark, raced>>
        /\ \A d \in Consumer \ {c} : run'[d] = run[d]
    BY <1>6 DEF StartDaemon, Notice, Listing, ResultInv, AllIdle, Idle, history
  <2> QED
    BY <1>1, <2>1, ResultKept DEF Reporting
<1>7. CASE Crash
  <2>1. crashes' # 0 /\ \A c \in Consumer : run'[c].at = "idle"
    BY <1>7 DEF Crash, Idle
  <2> QED
    BY <1>1, <2>1 DEF ResultInv, Reporting
<1>8. ASSUME NEW k \in Canceller, CancelSave(k) PROVE ResultInv'
  <2>1. /\ cancel[k].at = "loaded" /\ UNCHANGED <<log, run, result, crashes>> /\ state' = cancel[k].copy
        /\ raced' = (raced \cup InProgress) \ {k}
        /\ mark' = IF k \in raced THEN Len(log) ELSE mark
    BY <1>8 DEF CancelSave, Marks
  <2>2. \A d \in Consumer \ raced' : ~Reporting(run'[d])
    <3>1. k \notin Consumer
      BY EventAssumption
    <3> QED
      BY <2>1, <3>1 DEF InProgress, Reporting
  <2>3. CASE k \in raced
    <3>1. ~(mark' < Len(log'))
      BY <1>0, <2>1, <2>3
    <3> QED
      BY <1>1, <2>2, <3>1 DEF ResultInv
  <2>4. CASE k \notin raced
    <3>1. SameButInternal(state', state)
      BY <2>1, <2>4 DEF GatewayInv, CancelInv
    <3> QED
      BY <1>1, <2>1, <2>2, <2>4, <3>1 DEF ResultInv, SameButInternal, Compact
  <2> QED
    BY <2>3, <2>4
<1>9. CASE Watch \/ UNCHANGED vars \/ (\E f \in File : Deliver(f)) \/ \E k \in Canceller : CancelLoad(k)
  BY <1>9, <1>1, ResultKept DEF Watch, vars, Deliver, CancelLoad, history
<1> QED
  BY <1>2, <1>3, <1>4, <1>5, <1>6, <1>7, <1>8, <1>9 DEF Next, Consume

\* However many calls overlap, and wherever the daemon dies: what calls that nobody
\* has overtaken write to the log after the last write of one that was is in the
\* executor's order without repetitions, as long as epochs do not return; and the
\* result of a finished or blocked task is then the one of its last event, unless
\* the daemon died (core.mjs 139-153).
THEOREM RecordsAlwaysAgree ==
  ASSUME EpochsDoNotReturn PROVE Spec => []RecordsAgree
<1>1. Init => LogInv /\ ResultInv
  BY DEF Init, LogInv, LogInOrder, AllLogged, AppendingInv, Appending, Alone, ResultInv, Reporting,
         AllIdle, Idle, Dispatched
<1>2. TypeInv /\ GatewayInv /\ LogInv /\ [Next]_vars => LogInv'
  BY LogStep
<1>3. TypeInv /\ GatewayInv /\ LogInv /\ ResultInv /\ [Next]_vars => ResultInv'
  BY ResultStep
<1>4. LogInv /\ ResultInv => RecordsAgree
  BY DEF LogInv, ResultInv, RecordsAgree, ResultMatchesState, Reporting, AllIdle, Idle
<1> QED
  BY <1>1, <1>2, <1>3, <1>4, TypeInvariant, GatewayInvariant, PTL DEF Spec
=============================================================================
