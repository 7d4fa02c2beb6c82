------------------------------ MODULE McpProbe ------------------------------
(***************************************************************************)
(* probeConfiguredMcpServers of packages/context-gateway/src/              *)
(* provider-discovery.mjs: the MCP servers that the configurations of      *)
(* three providers name are probed one after the other, over stdio or      *)
(* HTTP, with the modern protocol or, when it is not understood, the       *)
(* legacy one.  A server may answer late, wrongly, or never.               *)
(***************************************************************************)
EXTENDS Naturals, Sequences, SequencesExt, FiniteSetsExt

CONSTANTS
  Files,    \* the configurations, in the order they are read: [provider, servers]; servers is a sequence of
            \* transports, None for a file that cannot be read
  Wanted,   \* options.provider, or None
  None

VARIABLES
  results,  \* what is reported of the servers probed so far
  probe,    \* the probe in progress: the request that is out, and which protocol it speaks
  wire,     \* the answers of the child that are not read yet: those to requests given up included
  child,    \* the child of each server: "none", "running", "signalled" and running on, "exited"
  ended,    \* an error that nobody handles has ended the process
  said      \* history: what each server has answered to each request

vars == <<results, probe, wire, child, ended, said>>

\* Faulty variant of collect: a file that cannot be read hides those after it.
collectUntilUnreadable ==
  LET unreadable == {n \in DOMAIN Files : Files[n].servers = None}
      read == IF unreadable = {} THEN Files ELSE SubSeq(Files, 1, Min(unreadable) - 1)
  IN FlattenSeq([n \in DOMAIN read |-> read[n].servers])

\* A file that is missing or broken has no servers; the others count.
collect ==
  LET wanted == SelectSeq(Files, LAMBDA f : f.servers # None /\ Wanted \in {None, f.provider})
  IN FlattenSeq([n \in DOMAIN wanted |-> wanted[n].servers])

Server == 1..Len(FlattenSeq([n \in DOMAIN Files |-> IF Files[n].servers = None THEN << >> ELSE Files[n].servers]))
Now == Len(results) + 1
Transport == collect[Now]

NoProbe == [at |-> "idle", id |-> 0, modern |-> FALSE]

Init ==
  /\ results = << >> /\ probe = NoProbe /\ wire = {}
  /\ child = [s \in Server |-> "none"] /\ ended = FALSE /\ said = {}

-----------------------------------------------------------------------------
\* UNAVAILABLE is what does not speak the protocol; AUTH_REQUIRED what refuses without credentials.
health(outcome) ==
  CASE outcome = "listed" -> "HEALTHY"
    [] outcome \in {"missing-transport", "package-runner-disabled", "legacy-initialize-failed", "tools-list-failed",
                    "http-status-404"} -> "UNAVAILABLE"
    [] outcome = "http-status-401" -> "AUTH_REQUIRED"
    [] OTHER -> "UNHEALTHY"

Report(outcome) ==
  /\ results' = Append(results, health(outcome))
  /\ probe' = NoProbe
  /\ wire' = {}

Send(method, modern) ==
  /\ probe' = [at |-> method, id |-> probe.id + 1, modern |-> modern]
  /\ UNCHANGED results

\* A package runner is not started, an endpoint that is neither local nor encrypted not asked.
StartProbe ==
  /\ ~ended /\ probe.at = "idle" /\ Now <= Len(collect)
  /\ CASE Transport = "none" -> Report("missing-transport") /\ UNCHANGED child
       [] Transport = "package" -> Report("package-runner-disabled") /\ UNCHANGED child
       [] Transport = "insecure" -> Report("insecure-endpoint") /\ UNCHANGED child
       [] Transport = "http" -> Send("server/discover", FALSE) /\ UNCHANGED <<wire, child>>
       [] OTHER -> Send("server/discover", FALSE) /\ child' = [child EXCEPT ![Now] = "running"] /\ UNCHANGED wire
  /\ UNCHANGED <<ended, said>>

\* Faulty variant of Modern: whatever answers speaks the modern protocol.
ModernIfAnswered(reply) == reply \notin {"timeout", "failed"}

\* Over HTTP only a server that tells its versions is modern; over stdio every result is.
Modern(reply) == reply = "versions" \/ (reply = "result" /\ Transport = "stdio")

\* What a reply, or the lack of one, means for the request that is out.
Settle(reply) ==
  CASE probe.at = "server/discover" ->
         Send(IF Modern(reply) THEN "tools/list" ELSE "initialize", Modern(reply)) /\ UNCHANGED wire
    [] probe.at = "initialize" /\ reply \in {"result", "versions"} ->
         Send(IF Transport = "http" THEN "notifications/initialized" ELSE "tools/list", FALSE) /\ UNCHANGED wire
    [] probe.at = "notifications/initialized" /\ reply \in {"result", "versions", "error"} ->
         Send("tools/list", FALSE) /\ UNCHANGED wire
    [] probe.at = "tools/list" /\ reply \in {"result", "versions"} -> Report("listed")
    [] OTHER ->
         Report(IF reply # "error" THEN reply
                ELSE IF probe.at = "initialize" THEN "legacy-initialize-failed" ELSE "tools-list-failed")

\* A request written to a child that has exited: either nothing happens, or its stdin fails and nobody handles it.
Proceed(reply) ==
  /\ Settle(reply)
  /\ ended' \in IF Transport = "stdio" /\ child[Now] = "exited" /\ probe'.at # "idle" THEN BOOLEAN ELSE {FALSE}

-----------------------------------------------------------------------------
(* The servers. *)

\* A child may answer each request once, at any time and in any order, one given up included.
ChildAnswers(id, reply) ==
  /\ probe.at # "idle" /\ Transport = "stdio" /\ child[Now] = "running"
  /\ id \in 1..probe.id /\ \A a \in said : a.server # Now \/ a.id # id
  /\ wire' = wire \cup {[id |-> id, reply |-> reply]}
  /\ said' = said \cup {[server |-> Now, id |-> id, reply |-> reply]}
  /\ UNCHANGED <<results, probe, child, ended>>

ChildExits(s) ==
  /\ child[s] \in {"running", "signalled"} /\ child' = [child EXCEPT ![s] = "exited"]
  /\ UNCHANGED <<results, probe, wire, ended, said>>

\* An HTTP answer belongs to the request; a refusal without a message is an error of its own.
HttpAnswers(reply) ==
  /\ ~ended /\ probe.at # "idle" /\ Transport = "http"
  /\ said' = said \cup {[server |-> Now, id |-> probe.id, reply |-> reply]}
  /\ Proceed(reply) /\ UNCHANGED child

-----------------------------------------------------------------------------
(* probeStdio *)

\* Faulty variant of ReadReply: the next line answers the request that is out, whatever its id.
ReadReplyInOrder(message) ==
  /\ ~ended /\ probe.at # "idle" /\ message \in wire
  /\ Proceed(message.reply)
  /\ UNCHANGED <<child, said>>

\* Only the reply to the request that is out settles it: replies holds no handlers for the others.
ReadReply(message) ==
  /\ ~ended /\ probe.at # "idle" /\ message \in wire
  /\ IF message.id = probe.id THEN Proceed(message.reply)
     ELSE wire' = wire \ {message} /\ UNCHANGED <<results, probe, ended>>
  /\ UNCHANGED <<child, said>>

\* Each request has a timer of its own, over HTTP as well.
Timeout ==
  /\ ~ended /\ probe.at # "idle" /\ Proceed("timeout")
  /\ UNCHANGED <<child, said>>

\* The command cannot be run and there is no child: the request that is out fails.
SpawnFails ==
  /\ ~ended /\ probe.at = "server/discover" /\ Transport = "stdio" /\ child[Now] = "running"
  /\ \A a \in said : a.server # Now
  /\ child' = [child EXCEPT ![Now] = "none"]
  /\ Settle("failed") /\ UNCHANGED <<ended, said>>

\* The child of a probe that is over gets SIGTERM 100 ms later, once.  Nobody waits for its exit, and it may ignore it.
Kill(s) ==
  /\ ~ended /\ child[s] = "running" /\ s < Now
  /\ child' = [child EXCEPT ![s] = "signalled"]
  /\ UNCHANGED <<results, probe, wire, ended, said>>

Replies == {"result", "versions", "error"}
Step == StartProbe \/ Timeout
Next ==
  \/ Step \/ SpawnFails
  \/ \E message \in wire : ReadReply(message)
  \/ \E s \in Server : ChildExits(s) \/ Kill(s)
  \/ \E reply \in Replies : HttpAnswers(reply) \/ \E id \in 1..probe.id : ChildAnswers(id, reply)
  \/ \E reply \in {"http-status-401", "http-status-404", "http-failure"} : HttpAnswers(reply)

\* Timers fire while the process lives; servers need neither answer nor exit.
Fairness == WF_vars(Step) /\ \A s \in Server : WF_vars(Kill(s))
Spec == Init /\ [][Next]_vars /\ Fairness

-----------------------------------------------------------------------------
\* A server is asked for its tools only when it has said that it speaks the protocol: it has answered the discovery,
\* or the initialization after it, however late the answers to requests given up come (provider-discovery.mjs 173-206).
InitializedFirst ==
  probe.at = "tools/list" =>
    \E a \in said : a.server = Now /\ a.id < probe.id /\ a.reply \in {"result", "versions"}

\* HEALTHY is a server that has itself answered the last of at least two requests, the list of its tools, with a
\* result: no answer to another request passes for it (provider-discovery.mjs 178-207).
HealthyIsEarned ==
  \A s \in DOMAIN results : results[s] = "HEALTHY" =>
    \E a, b \in said : a.server = s /\ b.server = s /\ a.id < b.id /\ b.reply \in {"result", "versions"}
                         /\ a.reply \in {"result", "versions"}

\* Every server that any readable file names is reported, whatever the servers before it do, or a child that exits has
\* ended the process; and every child has been told to end or has ended (provider-discovery.mjs 211-246).
EveryServerIsReported ==
  LET named == {n \in DOMAIN Files : Files[n].servers # None /\ Wanted \in {None, Files[n].provider}}
  IN <>(ended \/ (/\ Len(results) = Cardinality(UNION {{n} \X (DOMAIN Files[n].servers) : n \in named})
                  /\ \A s \in Server : child[s] # "running"))
=============================================================================
