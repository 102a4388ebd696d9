--------------------------- MODULE MCAgentLifecycle ---------------------------
(* AgentLifecycle with a few subjects and runs of jobs.                      *)
EXTENDS AgentLifecycle, TLC

CONSTANTS ping, exec,   \* command subjects
          r1, r2,       \* runs of scheduled jobs
          inventory     \* the run at startup

Kinds == (r1 :> "metrics") @@ (r2 :> "service") @@ (inventory :> "inventory")
OneKind == (r1 :> "metrics") @@ (inventory :> "inventory")
=============================================================================
