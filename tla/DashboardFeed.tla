---------------------------- MODULE DashboardFeed ----------------------------
(***************************************************************************)
(* How a change reaches the screens of the control center.  The server     *)
(* (createDashboardServer) reads the files for a snapshot on every event   *)
(* and every two seconds and signals each client; a page (dashboard-ui)    *)
(* answers a signal by loading the numbers itself, and polls once its      *)
(* stream has failed.  Snapshots carry the time they were taken, so two of *)
(* them are never equal and none is held back.                             *)
(***************************************************************************)
EXTENDS Naturals, FiniteSets

CONSTANTS
  Page,                                    \* open pages
  MaxVersion, MaxLoads, MaxFail, MaxPublish,   \* bounds: changes, loads of a page and publishes in flight, failures
  None

VARIABLES
  version,   \* how often the files behind the numbers changed
  publishes, \* publishes in flight: the client it answers or None, and the version it read or None
  clients,   \* the server's set of event streams
  stream,    \* per page: "none", "connecting" (accepted, first publish under way), "open", "closed"
  hears,     \* pages whose 'close' handler the server has registered
  signal,    \* an update is on its way to the page
  polling,   \* the page reloads every two seconds
  loads,     \* versions read by the loads of a page in flight, None before the read
  shown,     \* the version on the page
  failures, up

vars == <<version, publishes, clients, stream, hears, signal, polling, loads, shown, failures, up>>

\* Publishes and loads are told apart by a number, so that two of them may have read the
\* same version; the publish of a connection has its page for one.
Free(busy, limit) == {n \in 1..limit : \A x \in busy : x.n # n}
Begun(n, for) == [n |-> n, for |-> for, read |-> None]

Init ==
  /\ version = 0 /\ publishes = {} /\ clients = {} /\ hears = {} /\ failures = 0 /\ up = TRUE
  /\ stream = [p \in Page |-> "none"] /\ signal = [p \in Page |-> FALSE]
  /\ polling = [p \in Page |-> FALSE] /\ loads = [p \in Page |-> {Begun(1, p)}] /\ shown = [p \in Page |-> None]


Change ==
  /\ version < MaxVersion /\ version' = version + 1
  /\ UNCHANGED <<publishes, clients, stream, hears, signal, polling, loads, shown, failures, up>>
\* An event on the bus, a line of events.jsonl, or the timer: publish().
Publish ==
  /\ up /\ \E n \in Free(publishes, MaxPublish) : publishes' = publishes \cup {Begun(n, None)}
  /\ UNCHANGED <<version, clients, stream, hears, signal, polling, loads, shown, failures, up>>

\* snapshot(): reads the files.
ReadSnapshot(b) ==
  /\ up /\ b \in publishes /\ b.read = None
  /\ publishes' = (publishes \ {b}) \cup {[b EXCEPT !.read = version]}
  /\ UNCHANGED <<version, clients, stream, hears, signal, polling, loads, shown, failures, up>>
\* The write to every client; for the publish of a connection the handler then registers 'close'.
Write(b) ==
  /\ up /\ b \in publishes /\ b.read # None
  /\ publishes' = publishes \ {b}
  /\ signal' = [p \in Page |-> signal[p] \/ (p \in clients /\ stream[p] \in {"connecting", "open"})]
  /\ hears' = IF b.for = None THEN hears ELSE hears \cup {b.for}
  /\ stream' = IF b.for = None THEN stream ELSE [stream EXCEPT ![b.for] = IF @ = "connecting" THEN "open" ELSE @]
  /\ UNCHANGED <<version, clients, polling, loads, shown, failures, up>>
\* A read fails: every caller swallows it but the connection's, whose answer has begun, so that the error
\* answer throws and the process ends.
SnapshotFails(b) ==
  /\ up /\ b \in publishes /\ b.read = None /\ failures < MaxFail
  /\ failures' = failures + 1 /\ publishes' = publishes \ {b} /\ up' = (b.for = None)
  /\ UNCHANGED <<version, clients, stream, hears, signal, polling, loads, shown>>

\* GET /api/events.
Connect(p) ==
  /\ up /\ stream[p] = "none"
  /\ stream' = [stream EXCEPT ![p] = "connecting"] /\ clients' = clients \cup {p}
  /\ publishes' = publishes \cup {Begun(p, p)}
  /\ UNCHANGED <<version, hears, signal, polling, loads, shown, failures, up>>

\* Faulty variant of StreamFails: the page does not start to poll.
StreamFailsSilently(p) ==
  /\ stream[p] # "closed" /\ (~up \/ (stream[p] # "none" /\ failures < MaxFail))
  /\ failures' = IF up THEN failures + 1 ELSE failures
  /\ stream' = [stream EXCEPT ![p] = "closed"]
  /\ signal' = [signal EXCEPT ![p] = FALSE]
  /\ clients' = IF p \in hears THEN clients \ {p} ELSE clients
  /\ UNCHANGED <<version, publishes, hears, polling, loads, shown, up>>

\* The page's stream fails: it closes it and polls from then on; the server forgets a client it hears of.
StreamFails(p) ==
  /\ stream[p] # "closed" /\ (~up \/ (stream[p] # "none" /\ failures < MaxFail))
  /\ failures' = IF up THEN failures + 1 ELSE failures
  /\ stream' = [stream EXCEPT ![p] = "closed"] /\ polling' = [polling EXCEPT ![p] = TRUE]
  /\ signal' = [signal EXCEPT ![p] = FALSE]
  /\ clients' = IF p \in hears THEN clients \ {p} ELSE clients
  /\ UNCHANGED <<version, publishes, hears, loads, shown, up>>
\* load(): one when the page opens (Init), one for each update, one every two seconds while polling.
StartLoad(p) == \E n \in Free(loads[p], MaxLoads) : loads' = [loads EXCEPT ![p] = @ \cup {Begun(n, p)}]
Update(p) ==
  /\ signal[p] /\ signal' = [signal EXCEPT ![p] = FALSE] /\ StartLoad(p)
  /\ UNCHANGED <<version, publishes, clients, stream, hears, polling, shown, failures, up>>
Poll(p) ==
  /\ polling[p] /\ StartLoad(p)
  /\ UNCHANGED <<version, publishes, clients, stream, hears, signal, polling, shown, failures, up>>
ReadLoad(p, b) ==
  /\ up /\ b \in loads[p] /\ b.read = None
  /\ loads' = [loads EXCEPT ![p] = (@ \ {b}) \cup {[b EXCEPT !.read = version]}]
  /\ UNCHANGED <<version, publishes, clients, stream, hears, signal, polling, shown, failures, up>>
\* renderStats: the last answer to arrive is shown.
Render(p, b) ==
  /\ b \in loads[p] /\ b.read # None
  /\ loads' = [loads EXCEPT ![p] = @ \ {b}] /\ shown' = [shown EXCEPT ![p] = b.read]
  /\ UNCHANGED <<version, publishes, clients, stream, hears, signal, polling, failures, up>>
LoadFails(p, b) ==
  /\ b \in loads[p] /\ b.read = None /\ (~up \/ failures < MaxFail)
  /\ failures' = IF up THEN failures + 1 ELSE failures
  /\ loads' = [loads EXCEPT ![p] = @ \ {b}]
  /\ UNCHANGED <<version, publishes, clients, stream, hears, signal, polling, shown, up>>

Next ==
  \/ Change \/ Publish
  \/ \E b \in publishes : ReadSnapshot(b) \/ Write(b) \/ SnapshotFails(b)
  \/ \E p \in Page : \/ Connect(p) \/ StreamFails(p) \/ Update(p) \/ Poll(p)
                     \/ \E b \in loads[p] : ReadLoad(p, b) \/ Render(p, b) \/ LoadFails(p, b)

\* The timers fire, pages open their stream, and whatever was begun goes on.
Publishing(n) == \E b \in publishes : b.n = n /\ (ReadSnapshot(b) \/ Write(b))
Loading(p, n) == \E b \in loads[p] : b.n = n /\ (ReadLoad(p, b) \/ Render(p, b))
Fairness ==
  /\ WF_vars(Publish) /\ \A n \in (1..MaxPublish) \cup Page : WF_vars(Publishing(n))
  /\ \A p \in Page : /\ WF_vars(Connect(p)) /\ WF_vars(Update(p)) /\ WF_vars(Poll(p))
                      /\ \A n \in 1..MaxLoads : WF_vars(Loading(p, n))
Spec == Init /\ [][Next]_vars /\ Fairness

-----------------------------------------------------------------------------
\* While the server lives, every page ends up with the current numbers once changes and failures stop,
\* however publishes and loads overlap and whether its stream lives or not.
ScreensCatchUp == <>[]up => \A p \in Page : <>[](shown[p] = version)

\* "falha ao ler dashboard": a snapshot that fails is answered or swallowed, and the server goes on.  Does
\* not hold: the error answer to an event stream comes after its header, throws, and ends the process.
ErrorsAreAnswered == up
=============================================================================
