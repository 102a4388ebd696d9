-------------------------- MODULE MCServiceControl --------------------------
(* ServiceControl with one service that exists and one that does not.       *)
EXTENDS ServiceControl, TLC

CONSTANTS spooler, ghost, restart1, stop1, start1, other1

TargetOf == (restart1 :> spooler) @@ (stop1 :> spooler)
            @@ (start1 :> spooler) @@ (other1 :> ghost)
ActionOf == (restart1 :> "restart") @@ (stop1 :> "stop")
            @@ (start1 :> "start") @@ (other1 :> "stop")
CheckList == <<ghost, spooler>>
=============================================================================
