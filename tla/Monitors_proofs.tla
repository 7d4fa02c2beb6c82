--------------------------- MODULE Monitors_proofs ---------------------------
(***************************************************************************)
(* What the parts of Monitors promise, for every value of the constants:   *)
(* the probe of the MCP servers, and the views of a task.                  *)
(***************************************************************************)
EXTENDS Monitors, Sequences, TLAPS

-----------------------------------------------------------------------------
(* Probing: what is said is what a server has answered. *)

Good == {"result", "versions"}
Outcomes == Good \cup {"error", "timeout", "failed", "http-status-401", "http-status-404", "http-failure"}
Health == {"HEALTHY", "UNAVAILABLE", "AUTH_REQUIRED", "UNHEALTHY"}
Methods == {"idle", "server/discover", "initialize", "notifications/initialized", "tools/list"}

ProbeType ==
  /\ results \in Seq(Health) /\ probe \in [at : Methods, id : Nat, modern : BOOLEAN]
  /\ (\A a \in said : a.id \in Nat) /\ \A m \in wire : m.reply \in Outcomes

\* What waits to be read has been said by the server that is probed.
WireIsSaid == \A m \in wire : [server |-> Len(results) + 1, id |-> m.id, reply |-> m.reply] \in said

\* Beyond its initialization a server has answered well an earlier request.
HasAnswered ==
  probe.at \in {"notifications/initialized", "tools/list"} =>
    \E a \in said : a.server = Len(results) + 1 /\ a.id < probe.id /\ a.reply \in Good

\* Who is healthy has answered two requests well.
Earned ==
  \A s \in 1..Len(results) : results[s] = "HEALTHY" =>
    \E a, b \in said : a.server = s /\ b.server = s /\ a.id < b.id /\ b.reply \in Good /\ a.reply \in Good

ProbeInv == ProbeType /\ WireIsSaid /\ HasAnswered /\ Earned

LEMMA ProbeInit == Init => ProbeInv
BY DEF Init, Probing!Init, Probing!NoProbe, ProbeInv, ProbeType, WireIsSaid, HasAnswered, Earned, Methods

LEMMA ProbeStep == [Next]_vars => [Probing!Next]_probingVars
BY DEF Next, vars

\* A report ends a probe; it says that the server is healthy for one outcome only.
LEMMA ReportKeeps ==
  ASSUME ProbeInv, NEW outcome, Probing!Report(outcome), said \subseteq said', \A a \in said' : a.id \in Nat,
         outcome = "listed" => /\ probe.at = "tools/list"
                               /\ \E r \in Good : [server |-> Len(results) + 1, id |-> probe.id, reply |-> r] \in said'
  PROVE  ProbeInv'
<1> DEFINE n == Len(results) + 1
           h == Probing!health(outcome)
<1>1. h \in Health /\ (h = "HEALTHY" => outcome = "listed")
  BY DEF Probing!health, Health
<1>2. results' = Append(results, h) /\ probe' = Probing!NoProbe /\ wire' = {}
  BY DEF Probing!Report
<1> HIDE DEF h
<1>3. results \in Seq(Health) /\ n \in Nat
  BY DEF ProbeInv, ProbeType
<1>4. results' \in Seq(Health) /\ Len(results') = n /\ results'[n] = h /\ \A s \in 1..Len(results) : results'[s] = results[s]
  BY <1>1, <1>2, <1>3
<1>5. ProbeType' /\ WireIsSaid' /\ HasAnswered'
  <2>1. probe' \in [at : Methods, id : Nat, modern : BOOLEAN] /\ probe'.at = "idle"
    BY <1>2 DEF Probing!NoProbe, Methods
  <2>2. WireIsSaid'
    BY <1>2 DEF WireIsSaid
  <2> QED
    BY <1>2, <1>4, <2>1, <2>2 DEF ProbeType, HasAnswered
<1>6. ASSUME h = "HEALTHY"
      PROVE  \E a, b \in said' : a.server = n /\ b.server = n /\ a.id < b.id /\ b.reply \in Good /\ a.reply \in Good
  <2>1. PICK r \in Good : [server |-> n, id |-> probe.id, reply |-> r] \in said'
    BY <1>1, <1>6
  <2>2. PICK a \in said : a.server = n /\ a.id < probe.id /\ a.reply \in Good
    BY <1>1, <1>6 DEF ProbeInv, HasAnswered
  <2> DEFINE b == [server |-> n, id |-> probe.id, reply |-> r]
  <2>3. b.server = n /\ b.id = probe.id /\ b.reply = r
    OBVIOUS
  <2> HIDE DEF b
  <2> QED
    BY <2>1, <2>2, <2>3 DEF b
<1>7. Earned'
  <2> SUFFICES ASSUME NEW s \in 1..n, results'[s] = "HEALTHY"
               PROVE  \E a, b \in said' : a.server = s /\ b.server = s /\ a.id < b.id /\ b.reply \in Good /\ a.reply \in Good
    BY <1>4 DEF Earned
  <2>1. CASE s = n
    BY <1>4, <1>6, <2>1
  <2>2. CASE s # n
    <3>1. s \in 1..Len(results) /\ results[s] = "HEALTHY"
      BY <1>3, <1>4, <2>2
    <3> QED
      BY <3>1 DEF ProbeInv, Earned
  <2> QED
    BY <2>1, <2>2
<1> QED
  BY <1>5, <1>7 DEF ProbeInv

\* A request that goes out: beyond the initialization only after a good answer to the one before.
LEMMA SendKeeps ==
  ASSUME ProbeInv, NEW method \in Methods, NEW modern \in BOOLEAN, Probing!Send(method, modern), said \subseteq said', \A a \in said' : a.id \in Nat, wire' = wire,
         method \in {"notifications/initialized", "tools/list"} =>
           \/ probe.at \in {"notifications/initialized", "tools/list"}
           \/ \E r \in Good : [server |-> Len(results) + 1, id |-> probe.id, reply |-> r] \in said'
  PROVE  ProbeInv'
<1>1. results' = results /\ probe' = [at |-> method, id |-> probe.id + 1, modern |-> modern]
  BY DEF Probing!Send
<1>2. probe.id \in Nat /\ ProbeType' /\ WireIsSaid' /\ Earned'
  BY <1>1 DEF ProbeInv, ProbeType, WireIsSaid, Earned
<1>3. ASSUME method \in {"notifications/initialized", "tools/list"}
      PROVE  \E a \in said' : a.server = Len(results) + 1 /\ a.id < probe.id + 1 /\ a.reply \in Good
  <2>1. CASE \E r \in Good : [server |-> Len(results) + 1, id |-> probe.id, reply |-> r] \in said'
    <3>1. PICK r \in Good : [server |-> Len(results) + 1, id |-> probe.id, reply |-> r] \in said'
      BY <2>1
    <3> DEFINE b == [server |-> Len(results) + 1, id |-> probe.id, reply |-> r]
    <3>2. b.server = Len(results) + 1 /\ b.id = probe.id /\ b.reply = r
      OBVIOUS
    <3>3. b \in said'
      BY <3>1
    <3> HIDE DEF b
    <3>4. b.id < probe.id + 1
      BY <1>2, <3>2
    <3> QED
      BY <3>2, <3>3, <3>4
  <2>2. CASE probe.at \in {"notifications/initialized", "tools/list"}
    <3>1. PICK a \in said : a.server = Len(results) + 1 /\ a.id < probe.id /\ a.reply \in Good
      BY <2>2 DEF ProbeInv, HasAnswered
    <3>2. a.id \in Nat
      BY DEF ProbeInv, ProbeType
    <3> QED
      BY <1>2, <3>1, <3>2
  <2> QED
    BY <1>3, <2>1, <2>2
<1>4. HasAnswered'
  BY <1>1, <1>3 DEF HasAnswered
<1> QED
  BY <1>2, <1>4 DEF ProbeInv

\* What a reply means keeps the invariant: only what the server has said of the request that is out is good.
LEMMA SettleKeeps ==
  ASSUME ProbeInv, NEW reply \in Outcomes, Probing!Settle(reply), said \subseteq said', \A a \in said' : a.id \in Nat,
         reply \in Good => [server |-> Len(results) + 1, id |-> probe.id, reply |-> reply] \in said'
  PROVE  ProbeInv'
<1> DEFINE Answered == \E r \in Good : [server |-> Len(results) + 1, id |-> probe.id, reply |-> r] \in said'
<1>1. reply \in Good => Answered
  OBVIOUS
<1> HIDE DEF Answered
<1>2. probe.at \in Methods
  BY DEF ProbeInv, ProbeType
<1>3. CASE probe.at = "server/discover"
  <2> DEFINE method == IF Probing!Modern(reply) THEN "tools/list" ELSE "initialize"
  <2>1. Probing!Modern(reply) \in BOOLEAN /\ (Probing!Modern(reply) => reply \in Good)
    BY DEF Probing!Modern, Good
  <2>2. Probing!Send(method, Probing!Modern(reply)) /\ wire' = wire
    BY <1>3 DEF Probing!Settle
  <2>3. method \in Methods /\ (method \in {"notifications/initialized", "tools/list"} => Answered)
    BY <1>1, <2>1 DEF Methods
  <2> HIDE DEF method
  <2> QED
    BY <2>1, <2>2, <2>3, SendKeeps DEF Answered
<1>4. CASE probe.at = "initialize" /\ reply \in Good
  <2> DEFINE method == IF Probing!Transport = "http" THEN "notifications/initialized" ELSE "tools/list"
  <2>1. Probing!Send(method, FALSE) /\ wire' = wire
    BY <1>4 DEF Probing!Settle, Good
  <2>2. method \in Methods
    BY DEF Methods
  <2> HIDE DEF method
  <2> QED
    BY <1>1, <1>4, <2>1, <2>2, SendKeeps DEF Answered
<1>5. CASE probe.at = "notifications/initialized" /\ reply \in Good \cup {"error"}
  <2>1. Probing!Send("tools/list", FALSE) /\ wire' = wire
    BY <1>5 DEF Probing!Settle, Good
  <2> QED
    BY <1>5, <2>1, SendKeeps DEF Methods
<1>6. CASE probe.at = "tools/list" /\ reply \in Good
  <2>1. Probing!Report("listed")
    BY <1>6 DEF Probing!Settle, Good
  <2> QED
    BY <1>1, <1>6, <2>1, ReportKeeps DEF Answered
<1>7. CASE ~(\/ probe.at = "server/discover"
             \/ probe.at = "initialize" /\ reply \in Good
             \/ probe.at = "notifications/initialized" /\ reply \in Good \cup {"error"}
             \/ probe.at = "tools/list" /\ reply \in Good)
  <2> DEFINE outcome == IF reply # "error" THEN reply
                        ELSE IF probe.at = "initialize" THEN "legacy-initialize-failed" ELSE "tools-list-failed"
  <2>1. Probing!Report(outcome)
    BY <1>7 DEF Probing!Settle, Good
  <2>2. outcome # "listed"
    BY DEF Outcomes, Good
  <2> HIDE DEF outcome
  <2> QED
    BY <2>1, <2>2, ReportKeeps
<1> QED
  BY <1>3, <1>4, <1>5, <1>6, <1>7

LEMMA ProbeInductive == ProbeInv /\ [Next]_vars => ProbeInv'
<1> SUFFICES ASSUME ProbeInv, [Probing!Next]_probingVars PROVE ProbeInv'
  BY ProbeStep
<1> DEFINE now == Len(results) + 1
<1>0. said' = said => said \subseteq said' /\ \A a \in said' : a.id \in Nat
  BY DEF ProbeInv, ProbeType
<1>1. CASE Probing!StartProbe
  <2>1. ASSUME NEW outcome \in {"missing-transport", "package-runner-disabled", "insecure-endpoint"}, Probing!Report(outcome)
        PROVE  ProbeInv'
    BY <1>0, <1>1, <2>1, ReportKeeps DEF Probing!StartProbe
  <2>2. ASSUME Probing!Send("server/discover", FALSE), wire' = wire PROVE ProbeInv'
    BY <1>0, <1>1, <2>2, SendKeeps DEF Probing!StartProbe, Methods
  <2> QED
    BY <1>1, <2>1, <2>2 DEF Probing!StartProbe
<1>2. CASE Probing!Timeout
  <2>1. Probing!Settle("timeout") /\ said' = said
    BY <1>2 DEF Probing!Timeout, Probing!Proceed
  <2> QED
    BY <1>0, <2>1, SettleKeeps DEF Outcomes, Good
<1>3. CASE Probing!SpawnFails
  <2>1. Probing!Settle("failed") /\ said' = said
    BY <1>3 DEF Probing!SpawnFails
  <2> QED
    BY <1>0, <2>1, SettleKeeps DEF Outcomes, Good
<1>4. ASSUME NEW m \in wire, Probing!ReadReply(m) PROVE ProbeInv'
  <2>1. [server |-> now, id |-> m.id, reply |-> m.reply] \in said /\ said' = said /\ m.reply \in Outcomes
    BY <1>4 DEF ProbeInv, ProbeType, WireIsSaid, Probing!ReadReply
  <2>2. CASE m.id = probe.id
    <3>1. Probing!Settle(m.reply)
      BY <1>4, <2>2 DEF Probing!ReadReply, Probing!Proceed
    <3> QED
      BY <1>0, <2>1, <2>2, <3>1, SettleKeeps
  <2>3. CASE m.id # probe.id
    <3>1. wire' = wire \ {m} /\ results' = results /\ probe' = probe
      BY <1>4, <2>3 DEF Probing!ReadReply
    <3> QED
      BY <2>1, <3>1 DEF ProbeInv, ProbeType, WireIsSaid, HasAnswered, Earned
  <2> QED
    BY <2>2, <2>3
<1>5. ASSUME NEW reply \in Outcomes, Probing!HttpAnswers(reply) PROVE ProbeInv'
  <2> DEFINE answer == [server |-> now, id |-> probe.id, reply |-> reply]
  <2>1. Probing!Settle(reply) /\ said' = said \cup {answer}
    BY <1>5 DEF Probing!HttpAnswers, Probing!Proceed, Probing!Now
  <2>2. answer.id \in Nat
    BY DEF ProbeInv, ProbeType
  <2>3. said \subseteq said' /\ answer \in said' /\ \A a \in said' : a.id \in Nat
    BY <2>1, <2>2 DEF ProbeInv, ProbeType
  <2> QED
    BY <2>1, <2>3, SettleKeeps
<1>6. ASSUME NEW reply \in Probing!Replies, NEW id \in 1..probe.id, Probing!ChildAnswers(id, reply) PROVE ProbeInv'
  <2> DEFINE answer == [server |-> now, id |-> id, reply |-> reply]
             message == [id |-> id, reply |-> reply]
  <2>1. /\ said' = said \cup {answer} /\ wire' = wire \cup {message}
        /\ results' = results /\ probe' = probe
    BY <1>6 DEF Probing!ChildAnswers, Probing!Now
  <2>2. id \in Nat /\ reply \in Outcomes
    BY DEF ProbeInv, ProbeType, Probing!Replies, Outcomes, Good
  <2>3. ProbeType'
    BY <2>1, <2>2 DEF ProbeInv, ProbeType
  <2>4. WireIsSaid'
    BY <2>1 DEF ProbeInv, WireIsSaid
  <2>5. HasAnswered' /\ Earned'
    BY <2>1 DEF ProbeInv, HasAnswered, Earned
  <2> QED
    BY <2>3, <2>4, <2>5 DEF ProbeInv
<1>7. ASSUME NEW s \in Probing!Server, Probing!ChildExits(s) \/ Probing!Kill(s) PROVE ProbeInv'
  BY <1>7 DEF Probing!ChildExits, Probing!Kill, ProbeInv, ProbeType, WireIsSaid, HasAnswered, Earned
<1>8. CASE UNCHANGED probingVars
  BY <1>8 DEF probingVars, ProbeInv, ProbeType, WireIsSaid, HasAnswered, Earned
<1>9. Probing!Replies \subseteq Outcomes /\ {"http-status-401", "http-status-404", "http-failure"} \subseteq Outcomes
  BY DEF Probing!Replies, Outcomes, Good
<1> QED
  BY <1>1, <1>2, <1>3, <1>4, <1>5, <1>6, <1>7, <1>8, <1>9 DEF Probing!Next, Probing!Step

\* A server is asked for its tools only when it has said that it speaks the protocol, and is reported healthy only on
\* two good answers of its own, for any configurations and however late or disordered the answers, exits and timeouts
\* are (provider-discovery.mjs 173-207).
THEOREM HealthyIsAlwaysEarned == Spec => []HealthyIsEarned
<1>1. ProbeInv => HealthyIsEarned
  BY DEF ProbeInv, ProbeType, HasAnswered, Earned, Good, HealthyIsEarned, Probing!InitializedFirst,
         Probing!HealthyIsEarned, Probing!Now
<1> QED
  BY ProbeInit, ProbeInductive, <1>1, PTL DEF Spec

-----------------------------------------------------------------------------
(* Views: what a wait and a reader of the result make of a state that changes under them. *)

Statuses == Views!TERMINAL \cup {"WORKING", "FAILED_FINAL", "gone"}
Waits == [at : {"idle", "read", "watching", "done", "failed"}, read : Nat, since : Nat, event : BOOLEAN, blind : BOOLEAN,
          timer : BOOLEAN, answer : Statuses \cup {"none", "timeout"}]

ViewsType ==
  /\ state \in [status : Statuses, lines : Nat, version : Nat]
  /\ wait \in [Waiter -> Waits]
  /\ reader \in [at : {"idle", "more", "done"}, offset : Nat, got : Seq(Nat), began : Nat]

\* A state that ended the task after the read and before the watch, or before an event that is still to come, or after
\* the watcher lost the file, is all that a wait has not seen.
Sees(w) ==
  /\ w.at = "read" => w.read <= state.version /\ (state.status \in Views!TERMINAL => w.read < state.version)
  /\ w.at = "watching" /\ ~w.event /\ ~w.blind /\ state.status \in Views!TERMINAL => w.read < w.since

\* A reader that goes on has the lines up to its offset, and there are more, unless the result has changed.
ReaderOK ==
  /\ reader.at = "idle" => reader.offset = 0 /\ reader.got = << >>
  /\ reader.at # "idle" => reader.began <= state.version
  /\ reader.began = state.version /\ reader.at = "more" =>
       reader.offset < state.lines /\ reader.got = [n \in 1..reader.offset |-> n]
  /\ reader.began = state.version /\ reader.at = "done" => reader.got = [n \in 1..state.lines |-> n]

ViewsInv == ViewsType /\ (\A w \in Waiter : Sees(wait[w])) /\ ReaderOK

LEMMA ViewsInit == Init => ViewsInv
<1> SUFFICES ASSUME Views!Init PROVE ViewsInv
  BY DEF Init
<1>1. Views!Waiting \in Waits /\ Views!Waiting.at = "idle"
  BY DEF Views!Waiting, Waits
<1> QED
  BY <1>1 DEF Views!Init, Views!Fresh, ViewsInv, ViewsType, Sees, ReaderOK, Statuses

LEMMA ViewsStep == [Next]_vars => [Views!Next]_viewsVars
BY DEF Next, vars

\* The state is replaced: nobody has seen it, and nobody who watches misses the event.
LEMMA ReplacedKeeps ==
  ASSUME ViewsInv, NEW there \in [status : Statuses, lines : Nat, version : Nat], Views!Replaced(there),
         there.version = state.version + 1
  PROVE  ViewsInv'
<1>1. PICK lost \in SUBSET Waiter :
        wait' = [w \in Waiter |-> IF wait[w].at = "watching" /\ ~wait[w].blind
                                  THEN [wait[w] EXCEPT !.event = TRUE, !.blind = w \in lost] ELSE wait[w]]
  BY DEF Views!Replaced
<1>2. state' = there /\ reader' = reader
  BY DEF Views!Replaced
<1>3. state.version \in Nat
  BY DEF ViewsInv, ViewsType
<1>4. ASSUME NEW w \in Waiter PROVE wait'[w] \in Waits /\ Sees(wait[w])'
  <2> DEFINE loses == w \in lost
             seen == [wait[w] EXCEPT !.event = TRUE, !.blind = loses]
  <2>1. wait[w] \in Waits /\ Sees(wait[w])
    BY DEF ViewsInv, ViewsType
  <2>2. CASE wait[w].at = "watching" /\ ~wait[w].blind
    <3>0. wait'[w] = IF wait[w].at = "watching" /\ ~wait[w].blind THEN seen ELSE wait[w]
      BY <1>1
    <3>1. wait'[w] = seen
      BY <2>2, <3>0, Zenon
    <3>2. loses \in BOOLEAN
      OBVIOUS
    <3> HIDE DEF loses
    <3>3. seen \in Waits /\ seen.at = "watching" /\ seen.event = TRUE
      BY <2>1, <2>2, <3>2 DEF Waits
    <3> HIDE DEF seen
    <3> QED
      BY <3>1, <3>3 DEF Sees
  <2>3. CASE ~(wait[w].at = "watching" /\ ~wait[w].blind)
    <3>1. wait'[w] = wait[w] /\ wait[w].read \in Nat /\ wait[w].blind \in BOOLEAN
      BY <1>1, <2>1, <2>3 DEF Waits
    <3> QED
      BY <1>2, <1>3, <2>1, <2>3, <3>1 DEF Sees
  <2> QED
    BY <2>2, <2>3
<1>5. ViewsType'
  BY <1>1, <1>2, <1>4 DEF ViewsInv, ViewsType
<1>6. ReaderOK'
  BY <1>2, <1>3 DEF ViewsInv, ViewsType, ReaderOK
<1> QED
  BY <1>4, <1>5, <1>6 DEF ViewsInv

\* A wait goes on: its own new state is all that there is to see.
LEMMA GotoKeeps ==
  ASSUME ViewsInv, NEW w \in Waiter, NEW there \in Waits, Views!Goto(w, there), Sees(there)
  PROVE  ViewsInv'
<1>1. wait' = [wait EXCEPT ![w] = there] /\ state' = state /\ reader' = reader
  BY DEF Views!Goto
<1>2. wait' \in [Waiter -> Waits] /\ \A v \in Waiter : wait'[v] = there \/ wait'[v] = wait[v]
  BY <1>1 DEF ViewsInv, ViewsType
<1>3. ASSUME NEW v \in Waiter PROVE Sees(wait[v])'
  BY <1>1, <1>2 DEF ViewsInv, Sees
<1> QED
  BY <1>1, <1>2, <1>3 DEF ViewsInv, ViewsType, ReaderOK

\* What a look makes of a wait that has just read: only of a state that is not terminal it goes on.
LEMMA LookSees ==
  ASSUME ViewsInv, NEW w \in Waiter, NEW there \in Waits, there.read = state.version
  PROVE  Views!Look(w, there) \in Waits /\ Sees(Views!Look(w, there))
<1> DEFINE looked == Views!Look(w, there)
<1>1. state.status \in Statuses /\ state.version \in Nat
  BY DEF ViewsInv, ViewsType
<1>2. CASE state.status = "gone" \/ state.status \in Views!TERMINAL
  <2>1. looked \in Waits /\ looked.at \in {"done", "failed"}
    BY <1>1, <1>2 DEF Views!Look, Views!Answered, Views!Failed, Waits, Statuses
  <2> HIDE DEF looked
  <2> QED
    BY <2>1 DEF Sees, looked
<1>3. CASE ~(state.status = "gone" \/ state.status \in Views!TERMINAL)
  <2>1. looked = there
    BY <1>3 DEF Views!Look
  <2> QED
    BY <1>1, <1>3, <2>1 DEF Sees
<1> QED
  BY <1>2, <1>3

LEMMA WaitKeeps ==
  ASSUME ViewsInv, NEW w \in Waiter,
         Views!waitForTerminal(w) \/ Views!StartWatch(w) \/ Views!Callback(w) \/ Views!Timeout(w)
  PROVE  ViewsInv'
<1>1. wait[w] \in Waits /\ Sees(wait[w]) /\ state.version \in Nat /\ state.status \in Statuses
  BY DEF ViewsInv, ViewsType
<1>2. CASE Views!waitForTerminal(w)
  <2> DEFINE there == [Views!Waiting EXCEPT !.at = "read", !.read = state.version]
  <2>1. there \in Waits /\ there.read = state.version
    BY <1>1 DEF Views!Waiting, Waits
  <2>2. Views!Goto(w, Views!Look(w, there))
    BY <1>2 DEF Views!waitForTerminal
  <2> HIDE DEF there
  <2> QED
    BY <2>1, <2>2, LookSees, GotoKeeps
<1>3. CASE Views!StartWatch(w)
  <2> DEFINE timed == w \in Timed
             gone == Views!Failed(w, wait[w], "gone")
             there == [wait[w] EXCEPT !.at = "watching", !.since = state.version, !.timer = timed]
  <2>1. gone \in Waits /\ gone.at = "failed"
    BY <1>1 DEF Views!Failed, Waits, Statuses
  <2>2. Views!Goto(w, IF state.status = "gone" THEN gone ELSE there) /\ wait[w].at = "read" /\ timed \in BOOLEAN
    BY <1>3 DEF Views!StartWatch
  <2> HIDE DEF timed
  <2>3. there \in Waits /\ there.at = "watching" /\ there.since = state.version /\ there.read = wait[w].read
    BY <1>1, <2>2 DEF Waits
  <2> HIDE DEF gone, there
  <2>4. Sees(gone) /\ Sees(there)
    BY <1>1, <2>1, <2>2, <2>3 DEF Sees
  <2> QED
    BY <2>1, <2>2, <2>3, <2>4, GotoKeeps
<1>4. CASE Views!Callback(w)
  <2> DEFINE there == [wait[w] EXCEPT !.event = FALSE, !.read = state.version]
  <2>1. there \in Waits /\ there.read = state.version
    BY <1>1 DEF Waits
  <2>2. Views!Goto(w, Views!Look(w, there))
    BY <1>4 DEF Views!Callback
  <2> HIDE DEF there
  <2> QED
    BY <2>1, <2>2, LookSees, GotoKeeps
<1>5. CASE Views!Timeout(w)
  <2> DEFINE there == Views!Failed(w, wait[w], "timeout")
  <2>1. there \in Waits /\ there.at = "failed"
    BY <1>1 DEF Views!Failed, Waits
  <2>2. Views!Goto(w, there)
    BY <1>5 DEF Views!Timeout
  <2> HIDE DEF there
  <2> QED
    BY <2>1, <2>2, GotoKeeps DEF Sees
<1> QED
  BY <1>2, <1>3, <1>4, <1>5

\* The pages of a result that does not change join.
LEMMA SliceJoins ==
  ASSUME NEW offset \in Nat, NEW lines \in Nat, NEW got, got = [n \in 1..offset |-> n], offset < lines \/ offset = 0
  PROVE  LET joined == got \o Views!Slice(offset, lines)
         IN  /\ joined \in Seq(Nat)
             /\ Views!More(offset, lines) => offset + Limit < lines /\ joined = [n \in 1..offset + Limit |-> n]
             /\ ~Views!More(offset, lines) => joined = [n \in 1..lines |-> n]
<1> DEFINE size == IF offset + Limit < lines THEN Limit ELSE IF offset < lines THEN lines - offset ELSE 0
           page == [n \in 1..size |-> offset + n]
           joined == got \o page
<1>1. Limit \in Nat /\ size \in Nat
  BY ViewsAssumption
<1>2. Views!Slice(offset, lines) = page
  BY DEF Views!Slice
<1>3. offset + size = IF offset + Limit < lines THEN offset + Limit ELSE lines
  BY <1>1
<1> HIDE DEF size
<1>4. got \in Seq(Nat) /\ Len(got) = offset /\ page \in Seq(Nat) /\ Len(page) = size
  BY <1>1
<1>5. joined \in Seq(Nat) /\ joined = [n \in 1..offset + size |-> n]
  <2>1. (\A n \in 1..offset : got[n] = n) /\ \A n \in 1..size : page[n] = offset + n
    OBVIOUS
  <2> HIDE DEF page
  <2>2. joined \in Seq(Nat) /\ Len(joined) = offset + size
    BY <1>4
  <2>3. \A n \in 1..offset : joined[n] = got[n]
    BY <1>1, <1>4
  <2>4. \A n \in 1..size : joined[offset + n] = page[n]
    BY <1>1, <1>4
  <2> HIDE DEF joined
  <2>5. ASSUME NEW n \in 1..offset + size PROVE joined[n] = n
    <3>1. CASE n <= offset
      <4>1. n \in 1..offset
        BY <1>1, <3>1
      <4> QED
        BY <2>1, <2>3, <4>1
    <3>2. CASE n > offset
      <4> DEFINE m == n - offset
      <4>1. m \in 1..size /\ n = offset + m
        BY <1>1, <3>2
      <4> HIDE DEF m
      <4> QED
        BY <2>1, <2>4, <4>1
    <3> QED
      BY <1>1, <3>1, <3>2
  <2>6. DOMAIN joined = 1..offset + size /\ joined = [n \in DOMAIN joined |-> joined[n]]
    BY <2>2
  <2> QED
    BY <2>2, <2>5, <2>6
<1>6. got \o Views!Slice(offset, lines) = joined
  BY <1>2
<1> HIDE DEF joined, page
<1> QED
  BY <1>3, <1>5, <1>6 DEF Views!More

LEMMA SliceKeeps == ASSUME ViewsInv, Views!sliceEvidence PROVE ViewsInv'
<1> DEFINE began == IF reader.at = "idle" THEN state.version ELSE reader.began
           page == Views!Slice(reader.offset, state.lines)
           joined == reader.got \o page
           more == Views!More(reader.offset, state.lines)
<1>1. /\ ViewsType /\ ReaderOK /\ reader.at # "done" /\ state.lines \in Nat /\ state.version \in Nat /\ reader.offset \in Nat
      /\ state' = state /\ wait' = wait /\ Limit \in Nat
  BY ViewsAssumption DEF Views!sliceEvidence, ViewsInv, ViewsType
<1>2. /\ began \in Nat /\ began <= state.version
      /\ began = state.version => /\ reader.got = [n \in 1..reader.offset |-> n]
                                 /\ (reader.offset < state.lines \/ reader.offset = 0)
  BY <1>1 DEF ViewsType, ReaderOK
<1>3. page \in Seq(Nat) /\ (page = << >> => state.lines <= reader.offset)
  <2> DEFINE size == IF reader.offset + Limit < state.lines THEN Limit
                     ELSE IF reader.offset < state.lines THEN state.lines - reader.offset ELSE 0
  <2>1. size \in Nat /\ (size = 0 => state.lines <= reader.offset)
    BY <1>1, ViewsAssumption
  <2>2. page = [n \in 1..size |-> reader.offset + n]
    BY DEF Views!Slice
  <2> HIDE DEF size, page
  <2>3. page \in Seq(Nat) /\ Len(page) = size
    BY <1>1, <2>1, <2>2
  <2> QED
    BY <2>1, <2>3
<1>4. joined \in Seq(Nat) /\ reader.got \in Seq(Nat)
  <2>1. reader.got \in Seq(Nat)
    BY <1>1 DEF ViewsType
  <2> HIDE DEF page
  <2> QED
    BY <1>3, <2>1
<1>5. began = state.version =>
        /\ more => reader.offset + Limit < state.lines /\ joined = [n \in 1..reader.offset + Limit |-> n]
        /\ ~more => joined = [n \in 1..state.lines |-> n]
  BY <1>1, <1>2, SliceJoins
<1>6. reader' = IF page = << >> /\ reader.offset > 0 THEN [reader EXCEPT !.at = "done", !.got = << >>]
                ELSE [at |-> IF more THEN "more" ELSE "done", offset |-> reader.offset + Limit, got |-> joined, began |-> began]
  BY DEF Views!sliceEvidence
<1> HIDE DEF began, page, joined, more
<1>7. CASE page = << >> /\ reader.offset > 0
  <2> DEFINE none == << >>
             over == [reader EXCEPT !.at = "done", !.got = none]
  <2>0. reader' = over
    BY <1>6, <1>7
  <2>1. /\ reader \in [at : {"idle", "more", "done"}, offset : Nat, got : Seq(Nat), began : Nat]
        /\ none \in Seq(Nat)
    BY <1>1 DEF ViewsType
  <2> HIDE DEF none
  <2>2. over \in [at : {"idle", "more", "done"}, offset : Nat, got : Seq(Nat), began : Nat]
    BY <2>1
  <2>3. over.at = "done" /\ over.began = reader.began
    BY <2>1
  <2> HIDE DEF over
  <2>4. reader.at # "idle" /\ reader.began # state.version
    BY <1>1, <1>3, <1>7, <2>1 DEF ReaderOK
  <2> QED
    BY <1>1, <2>0, <2>2, <2>3, <2>4 DEF ViewsInv, ViewsType, ReaderOK, Sees
<1>8. CASE ~(page = << >> /\ reader.offset > 0)
  <2>1. /\ reader' \in [at : {"idle", "more", "done"}, offset : Nat, got : Seq(Nat), began : Nat]
        /\ reader'.at = (IF more THEN "more" ELSE "done") /\ reader'.began = began
        /\ reader'.offset = reader.offset + Limit /\ reader'.got = joined
    BY <1>1, <1>2, <1>4, <1>6, <1>8
  <2> QED
    BY <1>1, <1>2, <1>5, <2>1 DEF ViewsInv, ViewsType, ReaderOK, Sees
<1> QED
  BY <1>7, <1>8

LEMMA ViewsInductive == ViewsInv /\ [Next]_vars => ViewsInv'
<1> SUFFICES ASSUME ViewsInv, [Views!Next]_viewsVars PROVE ViewsInv'
  BY ViewsStep
<1>1. state.version \in Nat
  BY DEF ViewsInv, ViewsType
<1>2. ASSUME NEW status \in Views!TERMINAL \cup {"WORKING", "FAILED_FINAL"}, NEW lines \in Lengths,
             Views!saveState(status, lines)
      PROVE  ViewsInv'
  <2>1. [status |-> status, lines |-> lines, version |-> state.version + 1] \in [status : Statuses, lines : Nat, version : Nat]
    BY <1>1, ViewsAssumption DEF Statuses
  <2> QED
    BY <1>2, <2>1, ReplacedKeeps DEF Views!saveState
<1>3. CASE Views!removeTask
  <2>1. [status |-> "gone", lines |-> 0, version |-> state.version + 1] \in [status : Statuses, lines : Nat, version : Nat]
    BY <1>1 DEF Statuses
  <2> QED
    BY <1>3, <2>1, ReplacedKeeps DEF Views!removeTask
<1>4. CASE UNCHANGED viewsVars
  BY <1>4 DEF viewsVars, ViewsInv, ViewsType, ReaderOK, Sees
<1> QED
  BY <1>2, <1>3, <1>4, WaitKeeps, SliceKeeps DEF Views!Next

\* A wait misses a terminal state only in the gaps of its watcher, and the pages of a result that has not changed join
\* to the whole of it, for any number of waits and saves and any length of results and pages (core.mjs 165-190).
THEOREM WaitsMissOnlyInTheGap == Spec => []WaitMissesOnlyInTheGap
<1>1. ViewsInv => WaitMissesOnlyInTheGap
  <2> SUFFICES ASSUME ViewsInv PROVE Views!MissesOnlyInTheGap /\ Views!PagesJoin
    BY DEF WaitMissesOnlyInTheGap
  <2>1. Views!MissesOnlyInTheGap
    BY DEF ViewsInv, Sees, Views!MissesOnlyInTheGap
  <2>2. Views!PagesJoin
    BY DEF ViewsInv, ReaderOK, Views!PagesJoin
  <2> QED
    BY <2>1, <2>2
<1> QED
  BY ViewsInit, ViewsInductive, <1>1, PTL DEF Spec
=============================================================================
