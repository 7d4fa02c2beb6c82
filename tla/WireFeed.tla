------------------------------ MODULE WireFeed ------------------------------
(***************************************************************************)
(* The daemon's feed of one workspace: monitorWireLoop and monitorWire of  *)
(* apps/cli/src/mcg.mjs 30-66 over openWireFeed, wireSnapshot and          *)
(* acceptWireMutation of apps/edge/src/bridge/wire.mjs.  Messages of one   *)
(* connection arrive in order, but each is consumed by a call of its own,  *)
(* which awaits its snapshot and its write of wire.json: these end in any  *)
(* order.  TLS, framing and the summaries are left out.                    *)
(***************************************************************************)
EXTENDS Naturals, FiniteSets

CONSTANTS MaxEpoch, MaxSeq, MaxConn,  \* bounds: restarts of Wire, mutations of an epoch, connections
          MaxCalls,                   \* bound on the consume calls in flight
          None

VARIABLES
  wire,    \* Wire's epoch and its last sequence
  loop,    \* where monitorWireLoop is
  conn,    \* connections opened so far
  cursor,  \* the cursor of the present connection
  calls,   \* consume calls in flight: waiting for a snapshot or for the write of wire.json
  stored,  \* wire.json
  life     \* the daemon: "up", "aborting" (shutdown has aborted the loop), "down"

vars == <<wire, loop, conn, cursor, calls, stored, life>>

NoCursor == [epoch |-> None, seq |-> None]
Cursor == [epoch : 1..MaxEpoch, seq : (0..MaxSeq) \cup {None}]
Numbered == {c \in Cursor : c.seq # None}

Init ==
  /\ wire = [epoch |-> 1, seq |-> 0] /\ loop = "start" /\ conn = 0 /\ cursor = NoCursor
  /\ calls = {} /\ stored = NoCursor /\ life = "up"

-----------------------------------------------------------------------------
(* Wire: it restarts under a new epoch; its mutations are numbered. *)

Restart ==
  /\ wire.epoch < MaxEpoch
  /\ wire' = [epoch |-> wire.epoch + 1, seq |-> 0]
  /\ UNCHANGED <<loop, conn, cursor, calls, stored, life>>

Mutate ==
  /\ wire.seq < MaxSeq
  /\ wire' = [wire EXCEPT !.seq = @ + 1]
  /\ UNCHANGED <<loop, conn, cursor, calls, stored, life>>

-----------------------------------------------------------------------------
(* The loop.  A connection opens, fails (error), or is closed by Wire before it has answered: then *)
(* neither resolve nor reject is called.  One that opens after the abort does not see it any more. *)

Connect ==
  /\ loop = "start" /\ life = "up" /\ conn < MaxConn
  /\ loop' = "handshake" /\ conn' = conn + 1 /\ cursor' = NoCursor
  /\ UNCHANGED <<wire, calls, stored, life>>

Handshake ==
  /\ loop = "handshake"
  /\ loop' \in {IF life = "up" THEN "open" ELSE "deaf", "pause", "hung"}
  /\ UNCHANGED <<wire, conn, cursor, calls, stored, life>>

Open == loop \in {"open", "deaf"}

Closed ==
  /\ Open
  /\ loop' = "pause"
  /\ UNCHANGED <<wire, conn, cursor, calls, stored, life>>

\* Faulty variant of Resume: the loop connects once.
ResumeNever ==
  /\ loop = "pause"
  /\ loop' = "ended"
  /\ UNCHANGED <<wire, conn, cursor, calls, stored, life>>

\* The pause of a second, cut short by an abort; an aborted loop ends.
Resume ==
  /\ loop = "pause"
  /\ loop' = IF life = "up" THEN "start" ELSE "ended"
  /\ UNCHANGED <<wire, conn, cursor, calls, stored, life>>

\* waitForWireOrAbort: an abort ends the wait for the close.
AbortWait ==
  /\ life = "aborting" /\ loop \in {"open", "start"}
  /\ loop' = "ended"
  /\ UNCHANGED <<wire, conn, cursor, calls, stored, life>>

-----------------------------------------------------------------------------
(* consume: what is done with a mutation at the cursor. *)

\* Faulty variant of acceptWireMutation: an older mutation of the epoch is taken.
acceptAnySequence(event, state) ==
  IF event.epoch # state.epoch
    THEN IF state.epoch # None THEN [accepted |-> FALSE, resync |-> TRUE, state |-> state]
         ELSE [accepted |-> TRUE, resync |-> FALSE, state |-> event]
  ELSE [accepted |-> TRUE, resync |-> FALSE, state |-> event]

\* A mutation without a sequence leaves the one of its epoch.
acceptWireMutation(event, state) ==
  IF event.epoch # state.epoch
    THEN IF state.epoch # None THEN [accepted |-> FALSE, resync |-> TRUE, state |-> state]
         ELSE [accepted |-> TRUE, resync |-> FALSE, state |-> event]
  ELSE IF event.seq = None THEN [accepted |-> TRUE, resync |-> FALSE, state |-> state]
  ELSE IF state.seq # None /\ event.seq <= state.seq THEN [accepted |-> FALSE, resync |-> FALSE, state |-> state]
  ELSE [accepted |-> TRUE, resync |-> FALSE, state |-> event]

Call(at, to) == [conn |-> conn, at |-> at, to |-> to]

\* A mutation of Wire's present epoch, perhaps one sent again or without a sequence.
ReceiveMutation(seq) ==
  /\ Open /\ life # "down" /\ seq \in (1..wire.seq) \cup {None} /\ Cardinality(calls) < MaxCalls
  /\ LET event == [epoch |-> wire.epoch, seq |-> seq]
         answer == acceptWireMutation(event, cursor) IN
     /\ cursor' = answer.state
     /\ calls' = calls \cup (IF answer.resync THEN {Call("snapshot", event)}
                             ELSE IF answer.accepted THEN {Call("write", event)} ELSE {})
  /\ UNCHANGED <<wire, loop, conn, stored, life>>

\* A feed is saved with the cursor as it is.
ReceiveFeed ==
  /\ Open /\ life # "down" /\ Cardinality(calls) < MaxCalls
  /\ calls' = calls \cup {Call("write", cursor)}
  /\ UNCHANGED <<wire, loop, conn, cursor, stored, life>>

\* The snapshot is there: the cursor of that connection moves to the mutation that asked for it,
\* wherever it has moved meanwhile.  Or a request of the snapshot fails.
Snapshot(c) ==
  /\ c \in calls /\ c.at = "snapshot" /\ life # "down"
  /\ \/ /\ cursor' = IF c.conn = conn THEN c.to ELSE cursor
        /\ calls' = (calls \ {c}) \cup {[c EXCEPT !.at = "write"]}
     \/ calls' = calls \ {c} /\ UNCHANGED cursor
  /\ UNCHANGED <<wire, loop, conn, stored, life>>

saveWireState(c) ==
  /\ c \in calls /\ c.at = "write" /\ life # "down"
  /\ stored' = c.to
  /\ calls' = calls \ {c}
  /\ UNCHANGED <<wire, loop, conn, cursor, life>>

-----------------------------------------------------------------------------
(* shutdown: it aborts the loop and waits for its end, two seconds at most. *)

Abort ==
  /\ life = "up"
  /\ life' = "aborting"
  /\ UNCHANGED <<wire, loop, conn, cursor, calls, stored>>

\* Faulty variant of Exit: shutdown waits for the loop without a limit.
ExitAfterLoop ==
  /\ life = "aborting" /\ loop = "ended"
  /\ life' = "down"
  /\ UNCHANGED <<wire, loop, conn, cursor, calls, stored>>

Exit ==
  /\ life = "aborting"
  /\ life' = "down"
  /\ UNCHANGED <<wire, loop, conn, cursor, calls, stored>>

Loop == Connect \/ Handshake \/ Resume \/ AbortWait

Next ==
  \/ Restart \/ Mutate \/ Loop \/ Closed \/ Abort \/ Exit \/ ReceiveFeed
  \/ \E seq \in (1..MaxSeq) \cup {None} : ReceiveMutation(seq)
  \/ \E c \in calls : Snapshot(c) \/ saveWireState(c)

\* The loop goes on, and the two seconds of shutdown pass.
Fairness == WF_vars(Connect \/ Resume \/ AbortWait) /\ WF_vars(Exit)

Spec == Init /\ [][Next]_vars /\ Fairness

-----------------------------------------------------------------------------
TypeOK ==
  /\ wire \in Numbered /\ conn \in 0..MaxConn /\ life \in {"up", "aborting", "down"}
  /\ loop \in {"start", "handshake", "open", "deaf", "pause", "hung", "ended"}
  /\ cursor \in Cursor \cup {NoCursor} /\ stored \in Cursor \cup {NoCursor}
  /\ calls \subseteq [conn : 1..MaxConn, at : {"snapshot", "write"}, to : Cursor \cup {NoCursor}]

\* What comes again or late is not taken twice: within an epoch and a connection the cursor goes back
\* only where a snapshot asked for earlier is there after a later one (mcg.mjs 40).
CursorBackOnlyByResync ==
  [][conn' = conn /\ cursor'.epoch = cursor.epoch /\ cursor.seq # None /\ (cursor'.seq = None \/ cursor'.seq < cursor.seq)
       => \E c \in calls \ calls' : c.at = "snapshot" /\ c.to = cursor']_vars

\* A feed that closes once it is open is opened again (mcg.mjs 53-65), whatever its calls still wait for.
ReopensAfterClose == \A n \in 1..(MaxConn - 1) : (loop = "pause" /\ conn = n) ~> (conn > n \/ life # "up")

\* shutdown ends the process even if Wire has left the loop waiting for an answer (mcg.mjs 183).
ShutdownEnds == life = "aborting" ~> life = "down"
=============================================================================
