-------------------------- MODULE MCCommandHandlers --------------------------
(* CommandHandlers on small sets of requests.                               *)
EXTENDS CommandHandlers, TLC

CONSTANTS ping, health1, exec1, exec2

\* Two commands in line on one subject, a ping and a health check.
SubjectOf == (ping :> "ping") @@ (health1 :> "health")
             @@ (exec1 :> "exec") @@ (exec2 :> "exec")

HealthOnly == health1 :> "health"
=============================================================================
