----------------------------- MODULE MCMonitors -----------------------------
(* An instance of Monitors for TLC. *)
EXTENDS Monitors

\* Three configurations, one of which cannot be read, with a server of every transport.
Configurations == <<[provider |-> "claude", servers |-> <<"stdio", "package">>],
                    [provider |-> "codex", servers |-> None],
                    [provider |-> "antigravity", servers |-> <<"http", "insecure", "none">>]>>
=============================================================================
