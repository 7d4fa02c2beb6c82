------------------------------ MODULE Monitors ------------------------------
(***************************************************************************)
(* The parts that watch others, side by side: a behaviour of this module   *)
(* is one of one of the parts, which is told by "which", and the others    *)
(* stay as they are.  A fairness condition of a part is one of this module *)
(* while the part runs.                                                    *)
(***************************************************************************)
EXTENDS Naturals

CONSTANTS
  None,                                                  \* of several parts
  Files, Wanted,                                         \* Probing
  Page, MaxVersion, MaxLoads, MaxFail, MaxPublish,       \* Feed
  Waiter, Timed, Limit, Lengths, MaxSaves                \* Views

VARIABLES
  which,   \* the part that runs
  results, probe, wire, child, ended, said,
  version, publishes, clients, stream, hears, signal, polling, loads, shown, failures, up,
  state, wait, reader

\* A page has at least one line.
ASSUME ViewsAssumption == Limit \in Nat \ {0} /\ Lengths \subseteq Nat

Probing == INSTANCE McpProbe
Feed == INSTANCE DashboardFeed
Views == INSTANCE TaskViews

probingVars == <<results, probe, wire, child, ended, said>>
feedVars == <<version, publishes, clients, stream, hears, signal, polling, loads, shown, failures, up>>
viewsVars == <<state, wait, reader>>

Parts == {"Probing", "Feed", "Views"}

Init == which \in Parts /\ Probing!Init /\ Feed!Init /\ Views!Init

Next ==
  \/ which = "Probing" /\ Probing!Next /\ UNCHANGED <<which, feedVars, viewsVars>>
  \/ which = "Feed" /\ Feed!Next /\ UNCHANGED <<which, probingVars, viewsVars>>
  \/ which = "Views" /\ Views!Next /\ UNCHANGED <<which, probingVars, feedVars>>

vars == <<which, probingVars, feedVars, viewsVars>>

\* The fairness of every part, while that part runs.
Fairness ==
  /\ WF_probingVars(which = "Probing" /\ Probing!Step)
  /\ \A s \in Probing!Server : WF_probingVars(which = "Probing" /\ Probing!Kill(s))
  /\ WF_feedVars(which = "Feed" /\ Feed!Publish)
  /\ \A n \in (1..MaxPublish) \cup Page : WF_feedVars(which = "Feed" /\ Feed!Publishing(n))
  /\ \A p \in Page : /\ WF_feedVars(which = "Feed" /\ Feed!Connect(p))
                      /\ WF_feedVars(which = "Feed" /\ Feed!Update(p))
                      /\ WF_feedVars(which = "Feed" /\ Feed!Poll(p))
                      /\ \A n \in 1..MaxLoads : WF_feedVars(which = "Feed" /\ Feed!Loading(p, n))
  /\ \A w \in Waiter : /\ WF_viewsVars(which = "Views" /\ Views!StartWatch(w))
                        /\ WF_viewsVars(which = "Views" /\ Views!Callback(w))
                        /\ WF_viewsVars(which = "Views" /\ Views!Timeout(w))

Spec == Init /\ [][Next]_vars /\ Fairness

-----------------------------------------------------------------------------
\* A server is asked for its tools only when it speaks the protocol, and HEALTHY is earned by its own answers, however
\* late the answers to requests given up come (provider-discovery.mjs).
HealthyIsEarned == which = "Probing" => Probing!InitializedFirst /\ Probing!HealthyIsEarned

\* A wait misses a terminal state only in the gaps of its watcher, and the pages of a result join to the whole of it
\* (core.mjs).
WaitMissesOnlyInTheGap == which = "Views" => Views!MissesOnlyInTheGap /\ Views!PagesJoin

\* Every server of a readable configuration is reported and no child is left that was not told to end
\* (provider-discovery.mjs), and a wait with a timeout ends (core.mjs).
WatchersEnd == (which = "Probing" => Probing!EveryServerIsReported) /\ Views!TimedWaitEnds

\* Every page ends up with the current numbers, whether its stream lives or not (dashboard.mjs).
ScreensCatchUp == which = "Feed" => Feed!ScreensCatchUp
=============================================================================
