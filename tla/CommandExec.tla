----------------------------- MODULE CommandExec -----------------------------
(***************************************************************************)
(* Running a command with a timeout: ExecuteCommand and executePowerShell  *)
(* of tasks/exec_windows.go.                                               *)
(*                                                                         *)
(* The handler of the exec subject starts a runner goroutine that calls    *)
(* cmd.Run, and selects between the runner's result, sent on a channel of  *)
(* capacity one, and a timer.  cmd.Run creates the process, then sets      *)
(* cmd.Process, and after the process has exited waits until its output    *)
(* pipes are closed; a process the command has started holds them, too.    *)
(* The handler reads cmd.Process without synchronisation.                  *)
(*                                                                         *)
(* The exec subject hands over one request at a time, so calls follow each *)
(* other; what an earlier call left running overlaps with the later ones.  *)
(***************************************************************************)
EXTENDS Naturals, FiniteSets

CONSTANT Calls    \* how many exec requests arrive, one after the other

ASSUME CallsAssumption == Calls \in Nat \ {0}

Call == 1 .. Calls

VARIABLES
    call,       \* the handler's position in each call
    result,     \* what each call returned
    runner,     \* the runner goroutine's position
    visible,    \* cmd.Process is set
    process,    \* the PowerShell process
    exitCode,   \* its exit code, once it has exited
    child,      \* a process it started still holds the output pipes
    done,       \* the channel holds the runner's result
    expired,    \* the timer has fired
    missed      \* history: calls that gave up before cmd.Process was set

vars == <<call, result, runner, visible, process, exitCode, child, done, expired, missed>>

ExitCodes == {0, 1}

Init ==
    /\ call = [c \in Call |-> "waiting"]
    /\ result = [c \in Call |-> "none"]
    /\ runner = [c \in Call |-> "none"]
    /\ visible = [c \in Call |-> FALSE]
    /\ process = [c \in Call |-> "none"]
    /\ exitCode = [c \in Call |-> 0]
    /\ child = [c \in Call |-> FALSE]
    /\ done = [c \in Call |-> FALSE]
    /\ expired = [c \in Call |-> FALSE]
    /\ missed = {}

-----------------------------------------------------------------------------
(* The handler.                                                            *)

\* The request is the next one and the previous call has returned.
MayBegin(c) ==
    /\ call[c] = "waiting"
    /\ \A b \in Call : b < c => call[b] = "returned"

\* Seeded fault: the return after a command that is not allowed is missing.
DenyAndRun(c) ==
    /\ MayBegin(c)
    /\ call' = [call EXCEPT ![c] = "select"]
    /\ result' = [result EXCEPT ![c] = "denied"]
    /\ runner' = [runner EXCEPT ![c] = "start"]
    /\ UNCHANGED <<visible, process, exitCode, child, done, expired, missed>>

\* Not in the whitelist, or no such script.
Deny(c) ==
    /\ MayBegin(c)
    /\ call' = [call EXCEPT ![c] = "returned"]
    /\ result' = [result EXCEPT ![c] = "denied"]
    /\ UNCHANGED <<runner, visible, process, exitCode, child, done, expired, missed>>

\* The command is allowed: go cmd.Run(), and wait.
Begin(c) ==
    /\ MayBegin(c)
    /\ call' = [call EXCEPT ![c] = "select"]
    /\ runner' = [runner EXCEPT ![c] = "start"]
    /\ UNCHANGED <<result, visible, process, exitCode, child, done, expired, missed>>

TimerFires(c) ==
    /\ call[c] = "select" /\ ~expired[c]
    /\ expired' = [expired EXCEPT ![c] = TRUE]
    /\ UNCHANGED <<call, result, runner, visible, process, exitCode, child, done, missed>>

\* case err := <-done.  The exit code and the output decide the result.
ReceiveResult(c) ==
    /\ call[c] = "select" /\ done[c]
    /\ done' = [done EXCEPT ![c] = FALSE]
    /\ call' = [call EXCEPT ![c] = "returned"]
    /\ result' = [result EXCEPT ![c] =
          IF process[c] = "none" THEN "not started"
          ELSE IF exitCode[c] = 0 THEN "success" ELSE "exit code"]
    /\ UNCHANGED <<runner, visible, process, exitCode, child, expired, missed>>

\* case <-time.After(timeout); with both ready either may be chosen.
TakeTimeout(c) ==
    /\ call[c] = "select" /\ expired[c]
    /\ call' = [call EXCEPT ![c] = "kill"]
    /\ UNCHANGED <<result, runner, visible, process, exitCode, child, done, expired, missed>>

\* Seeded fault: the process is not killed.
ReturnWithoutKill(c) ==
    /\ call[c] = "kill"
    /\ call' = [call EXCEPT ![c] = "returned"]
    /\ result' = [result EXCEPT ![c] = "timeout"]
    /\ missed' = IF visible[c] THEN missed ELSE missed \cup {c}
    /\ UNCHANGED <<runner, visible, process, exitCode, child, done, expired>>

\* Seeded fault: after the kill the runner's result is awaited.
KillAndWait(c) ==
    /\ call[c] = "kill" /\ done[c]
    /\ call' = [call EXCEPT ![c] = "returned"]
    /\ result' = [result EXCEPT ![c] = "timeout"]
    /\ UNCHANGED <<runner, visible, process, exitCode, child, done, expired, missed>>

\* Kill, if the runner has got as far as setting cmd.Process.  Only the process
\* itself dies: what it started goes on.
KillAndReturn(c) ==
    /\ call[c] = "kill"
    /\ call' = [call EXCEPT ![c] = "returned"]
    /\ result' = [result EXCEPT ![c] = "timeout"]
    /\ IF visible[c] /\ process[c] = "running"
       THEN /\ process' = [process EXCEPT ![c] = "exited"]
            /\ exitCode' = [exitCode EXCEPT ![c] = 1]
       ELSE UNCHANGED <<process, exitCode>>
    /\ missed' = IF visible[c] THEN missed ELSE missed \cup {c}
    /\ UNCHANGED <<runner, visible, child, done, expired>>

-----------------------------------------------------------------------------
(* The runner: cmd.Run = Start, then Wait.                                 *)

\* The process cannot be created: an error that is not an ExitError.
StartFails(c) ==
    /\ runner[c] = "start"
    /\ runner' = [runner EXCEPT ![c] = "send"]
    /\ UNCHANGED <<call, result, visible, process, exitCode, child, done, expired, missed>>

CreateProcess(c) ==
    /\ runner[c] = "start"
    /\ runner' = [runner EXCEPT ![c] = "created"]
    /\ process' = [process EXCEPT ![c] = "running"]
    /\ UNCHANGED <<call, result, visible, exitCode, child, done, expired, missed>>

SetProcess(c) ==
    /\ runner[c] = "created"
    /\ runner' = [runner EXCEPT ![c] = "wait"]
    /\ visible' = [visible EXCEPT ![c] = TRUE]
    /\ UNCHANGED <<call, result, process, exitCode, child, done, expired, missed>>

\* Seeded fault: the end of the process is enough.
ProcessEnded(c) == process[c] = "exited"

\* The process has exited and the pipes are at their end.
OutputComplete(c) == process[c] = "exited" /\ ~child[c]

WaitReturns(c) ==
    /\ runner[c] = "wait" /\ OutputComplete(c)
    /\ runner' = [runner EXCEPT ![c] = "send"]
    /\ UNCHANGED <<call, result, visible, process, exitCode, child, done, expired, missed>>

\* Seeded fault: make(chan error), whose send needs a receiver.
HasReceiver(c) == call[c] = "select" /\ ~done[c]

\* make(chan error, 1)
HasRoom(c) == ~done[c]

SendResult(c) ==
    /\ runner[c] = "send" /\ HasRoom(c)
    /\ runner' = [runner EXCEPT ![c] = "finished"]
    /\ done' = [done EXCEPT ![c] = TRUE]
    /\ UNCHANGED <<call, result, visible, process, exitCode, child, expired, missed>>

-----------------------------------------------------------------------------
(* The processes, which end when they like, or never.                      *)

ProcessExits(c) ==
    /\ process[c] = "running"
    /\ process' = [process EXCEPT ![c] = "exited"]
    /\ \E code \in ExitCodes : exitCode' = [exitCode EXCEPT ![c] = code]
    /\ UNCHANGED <<call, result, runner, visible, child, done, expired, missed>>

StartsChild(c) ==
    /\ process[c] = "running" /\ ~child[c]
    /\ child' = [child EXCEPT ![c] = TRUE]
    /\ UNCHANGED <<call, result, runner, visible, process, exitCode, done, expired, missed>>

ChildExits(c) ==
    /\ child[c]
    /\ child' = [child EXCEPT ![c] = FALSE]
    /\ UNCHANGED <<call, result, runner, visible, process, exitCode, done, expired, missed>>

-----------------------------------------------------------------------------
HandlerStep(c) == ReceiveResult(c) \/ TakeTimeout(c) \/ KillAndReturn(c)
RunnerStep(c) == StartFails(c) \/ CreateProcess(c) \/ SetProcess(c)
                 \/ WaitReturns(c) \/ SendResult(c)
ProcessStep(c) == ProcessExits(c) \/ StartsChild(c) \/ ChildExits(c)

\* Every request was answered; runners may wait for processes for ever.
AllReturned == (\A c \in Call : call[c] = "returned") /\ UNCHANGED vars

Next ==
    \/ \E c \in Call : Deny(c) \/ Begin(c) \/ TimerFires(c)
                       \/ HandlerStep(c) \/ RunnerStep(c) \/ ProcessStep(c)
    \/ AllReturned

\* Goroutines run when they can, timers fire, the next request is taken; about
\* the processes nothing is assumed.
Fairness ==
    \A c \in Call :
        /\ WF_vars(Deny(c) \/ Begin(c)) /\ WF_vars(TimerFires(c))
        /\ WF_vars(HandlerStep(c)) /\ WF_vars(RunnerStep(c))

Spec == Init /\ [][Next]_vars /\ Fairness

-----------------------------------------------------------------------------
(* Properties.                                                             *)

TypeOK ==
    /\ call \in [Call -> {"waiting", "select", "kill", "returned"}]
    /\ result \in [Call -> {"none", "denied", "not started", "success", "exit code",
                            "timeout"}]
    /\ runner \in [Call -> {"none", "start", "created", "wait", "send", "finished"}]
    /\ visible \in [Call -> BOOLEAN]
    /\ process \in [Call -> {"none", "running", "exited"}]
    /\ exitCode \in [Call -> ExitCodes]
    /\ child \in [Call -> BOOLEAN]
    /\ done \in [Call -> BOOLEAN]
    /\ expired \in [Call -> BOOLEAN]
    /\ missed \subseteq Call
    /\ \A c \in Call : result[c] = "none" <=> call[c] # "returned"

\* The handler reads stdout and stderr, which the runner's copying goroutines
\* fill, only when nothing writes to them any more; and it reports success only
\* of a process that exited with code 0.
ResultIsFinal ==
    \A c \in Call :
        result[c] \in {"success", "exit code"} =>
            /\ runner[c] = "finished" /\ process[c] = "exited" /\ ~child[c]
            /\ result[c] = "success" <=> exitCode[c] = 0

\* A command still runs while a later one is handled only if its process was
\* just being created when its time was up: serialising the subject and killing
\* what times out otherwise keep two commands from running at once.
OverlapOnlyWhileStarting ==
    \A b, c \in Call :
        b < c /\ call[c] # "waiting" /\ process[b] = "running" => b \in missed

\* The timeout bounds every call, whatever the process and its children do.
EveryCallReturns == \A c \in Call : <>(call[c] = "returned")

\* A runner whose process and pipes have ended finishes, also when the handler
\* has gone: the channel has room for its result.
RunnerFinishes ==
    \A c \in Call : (runner[c] = "wait" /\ OutputComplete(c)) ~> (runner[c] = "finished")

\* "Kill the process if it times out", exec_windows.go:202: no process runs on
\* after its call has returned with a timeout.
TimedOutIsKilled ==
    \A c \in Call : result[c] = "timeout" => process[c] # "running"
=============================================================================
