----------------------------- MODULE MCServices -----------------------------
(* An instance of Services for TLC. *)
EXTENDS Services, TLC

CONSTANTS taskA, taskB, fileF, fileG

ChainDeps == taskA :> {} @@ taskB :> {taskA}

\* Executions: escalations with all tiers, without a worker and exclusive, retries, and delegations.
Ports(first, second, third) == [worker |-> first, professional |-> second, frontier |-> third]
Execution(mode, ports, exclusive) == [mode |-> mode, ports |-> ports, exclusive |-> exclusive]
Executions == {Execution("escalate", Ports("gateway", "codex", "claude"), FALSE),
               Execution("escalate", Ports("none", "antigravity", "claude"), FALSE),
               Execution("escalate", Ports("gateway", "none", "codex"), TRUE),
               Execution("retry", Ports("claude", "none", "none"), FALSE),
               Execution("retry", Ports("codex", "none", "none"), FALSE),
               Execution("delegate", Ports("none", "none", "none"), FALSE),
               Execution("delegate", Ports("bare gateway", "none", "none"), FALSE)}

\* Batches that read, read again if changed, search, and name a path outside.
small == <<"p">>
medium == <<"q", "q">>
large == <<"p", "p", "p">>
Texts == {small, medium, large}
Contents == fileF :> small @@ fileG :> medium
Op(kind, file, expected) == [kind |-> kind, file |-> file, expected |-> expected]
Sent == {<<Op("read", fileF, None), Op("read-if-changed", fileG, small)>>,
         <<Op("read-if-changed", fileF, medium), Op("search", None, None)>>, <<Op("outside", None, None)>>}
=============================================================================
