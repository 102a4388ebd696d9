------------------------- MODULE CommandExec_proofs -------------------------
(***************************************************************************)
(* Proofs about CommandExec for any number of calls: a reported result is  *)
(* final, and two commands overlap only in the way the code leaves open.   *)
(***************************************************************************)
EXTENDS CommandExec, TLAPS

\* What the runner's position says about its process, and what a process that
\* outlives its call says about the handler's kill.
RunnerInv ==
    \A c \in Call :
        /\ runner[c] \in {"none", "start"} => process[c] = "none"
        /\ runner[c] \in {"created", "wait"} => process[c] # "none"
        /\ runner[c] \in {"send", "finished"} =>
              process[c] = "none" \/ OutputComplete(c)
        /\ process[c] = "none" => ~child[c]
        /\ visible[c] => runner[c] \in {"wait", "send", "finished"}
        /\ done[c] => runner[c] = "finished"
ReturnInv ==
    \A c \in Call :
        /\ call[c] = "waiting" => runner[c] = "none"
        /\ call[c] = "returned" /\ process[c] = "running" => c \in missed
        /\ call[c] = "returned" /\ runner[c] \in {"start", "created"} => c \in missed
        /\ result[c] = "denied" => runner[c] = "none"
        /\ result[c] = "not started" => runner[c] = "finished" /\ process[c] = "none"
Serial == \A b, c \in Call : b < c /\ call[c] # "waiting" => call[b] = "returned"

IInv == TypeOK /\ RunnerInv /\ ReturnInv /\ Serial /\ ResultIsFinal

LEMMA IInvInit == Init => IInv
BY DEF Init, IInv, TypeOK, RunnerInv, ReturnInv, Serial, ResultIsFinal, ExitCodes

LEMMA TypeStep == TypeOK /\ [Next]_vars => TypeOK'
<1> SUFFICES ASSUME TypeOK, [Next]_vars PROVE TypeOK'
  OBVIOUS
<1> USE DEF TypeOK, ExitCodes
<1>1. ASSUME NEW c \in Call, Deny(c) PROVE TypeOK'
  BY <1>1 DEF Deny, MayBegin
<1>2. ASSUME NEW c \in Call, Begin(c) PROVE TypeOK'
  BY <1>2 DEF Begin, MayBegin
<1>3. ASSUME NEW c \in Call, TimerFires(c) PROVE TypeOK'
  BY <1>3 DEF TimerFires
<1>4. ASSUME NEW c \in Call, ReceiveResult(c) PROVE TypeOK'
  <2>1. PICK res \in {"not started", "success", "exit code"} :
          result' = [result EXCEPT ![c] = res]
    BY <1>4 DEF ReceiveResult
  <2> QED BY <1>4, <2>1 DEF ReceiveResult
<1>5. ASSUME NEW c \in Call, TakeTimeout(c) PROVE TypeOK'
  BY <1>5 DEF TakeTimeout
<1>6. ASSUME NEW c \in Call, KillAndReturn(c) PROVE TypeOK'
  BY <1>6 DEF KillAndReturn
<1>7. ASSUME NEW c \in Call, StartFails(c) PROVE TypeOK'
  BY <1>7 DEF StartFails
<1>8. ASSUME NEW c \in Call, CreateProcess(c) PROVE TypeOK'
  BY <1>8 DEF CreateProcess
<1>9. ASSUME NEW c \in Call, SetProcess(c) PROVE TypeOK'
  BY <1>9 DEF SetProcess
<1>10. ASSUME NEW c \in Call, WaitReturns(c) PROVE TypeOK'
  BY <1>10 DEF WaitReturns
<1>11. ASSUME NEW c \in Call, SendResult(c) PROVE TypeOK'
  BY <1>11 DEF SendResult
<1>12. ASSUME NEW c \in Call, ProcessExits(c) PROVE TypeOK'
  BY <1>12 DEF ProcessExits
<1>13. ASSUME NEW c \in Call, StartsChild(c) PROVE TypeOK'
  BY <1>13 DEF StartsChild
<1>14. ASSUME NEW c \in Call, ChildExits(c) PROVE TypeOK'
  BY <1>14 DEF ChildExits
<1>15. CASE UNCHANGED vars
  BY <1>15 DEF vars
<1> QED
  BY <1>1, <1>2, <1>3, <1>4, <1>5, <1>6, <1>7, <1>8, <1>9, <1>10, <1>11, <1>12, <1>13, <1>14, <1>15
  DEF Next, HandlerStep, RunnerStep, ProcessStep, AllReturned

\* The runner's part: it is at "send" only after Wait has seen the process
\* exited and the pipes closed, and neither comes back.
LEMMA RunnerStepInv == IInv /\ [Next]_vars => RunnerInv'
<1> SUFFICES ASSUME IInv, [Next]_vars PROVE RunnerInv'
  OBVIOUS
<1> USE DEF IInv, TypeOK, RunnerInv, OutputComplete
<1>1. ASSUME NEW c \in Call, Deny(c) PROVE RunnerInv'
  BY <1>1 DEF Deny, MayBegin
<1>2. ASSUME NEW c \in Call, Begin(c) PROVE RunnerInv'
  BY <1>2 DEF Begin, MayBegin, ReturnInv
<1>3. ASSUME NEW c \in Call, TimerFires(c) PROVE RunnerInv'
  BY <1>3 DEF TimerFires
<1>4. ASSUME NEW c \in Call, ReceiveResult(c) PROVE RunnerInv'
  BY <1>4 DEF ReceiveResult
<1>5. ASSUME NEW c \in Call, TakeTimeout(c) PROVE RunnerInv'
  BY <1>5 DEF TakeTimeout
<1>6. ASSUME NEW c \in Call, KillAndReturn(c) PROVE RunnerInv'
  <2>1. \/ process' = process
        \/ process[c] = "running" /\ process' = [process EXCEPT ![c] = "exited"]
    BY <1>6 DEF KillAndReturn
  <2>2. UNCHANGED <<runner, visible, child, done>>
    BY <1>6 DEF KillAndReturn
  <2>3. CASE process' = process
    BY <2>2, <2>3
  <2>4. CASE process[c] = "running" /\ process' = [process EXCEPT ![c] = "exited"]
    BY <2>2, <2>4
  <2> QED BY <2>1, <2>3, <2>4
<1>7. ASSUME NEW c \in Call, StartFails(c) PROVE RunnerInv'
  BY <1>7 DEF StartFails
<1>8. ASSUME NEW c \in Call, CreateProcess(c) PROVE RunnerInv'
  BY <1>8 DEF CreateProcess
<1>9. ASSUME NEW c \in Call, SetProcess(c) PROVE RunnerInv'
  BY <1>9 DEF SetProcess
<1>10. ASSUME NEW c \in Call, WaitReturns(c) PROVE RunnerInv'
  BY <1>10 DEF WaitReturns
<1>11. ASSUME NEW c \in Call, SendResult(c) PROVE RunnerInv'
  BY <1>11 DEF SendResult, HasRoom
<1>12. ASSUME NEW c \in Call, ProcessExits(c) PROVE RunnerInv'
  BY <1>12 DEF ProcessExits
<1>13. ASSUME NEW c \in Call, StartsChild(c) PROVE RunnerInv'
  BY <1>13 DEF StartsChild
<1>14. ASSUME NEW c \in Call, ChildExits(c) PROVE RunnerInv'
  BY <1>14 DEF ChildExits
<1>15. CASE UNCHANGED vars
  BY <1>15 DEF vars
<1> QED
  BY <1>1, <1>2, <1>3, <1>4, <1>5, <1>6, <1>7, <1>8, <1>9, <1>10, <1>11, <1>12, <1>13, <1>14, <1>15
  DEF Next, HandlerStep, RunnerStep, ProcessStep, AllReturned

\* The handler's part.
LEMMA ReturnStepInv == IInv /\ [Next]_vars => ReturnInv'
<1> SUFFICES ASSUME IInv, [Next]_vars PROVE ReturnInv'
  OBVIOUS
<1> USE DEF IInv, TypeOK, RunnerInv, ReturnInv, OutputComplete
<1>1. ASSUME NEW c \in Call, Deny(c) PROVE ReturnInv'
  BY <1>1 DEF Deny, MayBegin
<1>2. ASSUME NEW c \in Call, Begin(c) PROVE ReturnInv'
  BY <1>2 DEF Begin, MayBegin
<1>3. ASSUME NEW c \in Call, TimerFires(c) PROVE ReturnInv'
  BY <1>3 DEF TimerFires
<1>4. ASSUME NEW c \in Call, ReceiveResult(c) PROVE ReturnInv'
  BY <1>4 DEF ReceiveResult
<1>5. ASSUME NEW c \in Call, TakeTimeout(c) PROVE ReturnInv'
  BY <1>5 DEF TakeTimeout
<1>6. ASSUME NEW c \in Call, KillAndReturn(c) PROVE ReturnInv'
  <2>1. CASE visible[c] /\ process[c] = "running"
    <3>1. process' = [process EXCEPT ![c] = "exited"] /\ missed' = missed
      BY <1>6, <2>1 DEF KillAndReturn
    <3>2. /\ call' = [call EXCEPT ![c] = "returned"]
          /\ result' = [result EXCEPT ![c] = "timeout"] /\ runner' = runner
      BY <1>6 DEF KillAndReturn
    <3> QED BY <1>6, <2>1, <3>1, <3>2
  <2>2. CASE ~visible[c] \/ process[c] # "running"
    <3>1. process' = process
      BY <1>6, <2>2 DEF KillAndReturn
    <3>2. missed' = IF visible[c] THEN missed ELSE missed \cup {c}
      BY <1>6 DEF KillAndReturn
    <3>3. /\ call' = [call EXCEPT ![c] = "returned"]
          /\ result' = [result EXCEPT ![c] = "timeout"] /\ runner' = runner
      BY <1>6 DEF KillAndReturn
    <3> QED BY <1>6, <2>2, <3>1, <3>2, <3>3
  <2> QED BY <2>1, <2>2
<1>7. ASSUME NEW c \in Call, StartFails(c) PROVE ReturnInv'
  BY <1>7 DEF StartFails
<1>8. ASSUME NEW c \in Call, CreateProcess(c) PROVE ReturnInv'
  BY <1>8 DEF CreateProcess
<1>9. ASSUME NEW c \in Call, SetProcess(c) PROVE ReturnInv'
  BY <1>9 DEF SetProcess
<1>10. ASSUME NEW c \in Call, WaitReturns(c) PROVE ReturnInv'
  BY <1>10 DEF WaitReturns
<1>11. ASSUME NEW c \in Call, SendResult(c) PROVE ReturnInv'
  BY <1>11 DEF SendResult
<1>12. ASSUME NEW c \in Call, ProcessExits(c) PROVE ReturnInv'
  BY <1>12 DEF ProcessExits
<1>13. ASSUME NEW c \in Call, StartsChild(c) PROVE ReturnInv'
  BY <1>13 DEF StartsChild
<1>14. ASSUME NEW c \in Call, ChildExits(c) PROVE ReturnInv'
  BY <1>14 DEF ChildExits
<1>15. CASE UNCHANGED vars
  BY <1>15 DEF vars
<1> QED
  BY <1>1, <1>2, <1>3, <1>4, <1>5, <1>6, <1>7, <1>8, <1>9, <1>10, <1>11, <1>12, <1>13, <1>14, <1>15
  DEF Next, HandlerStep, RunnerStep, ProcessStep, AllReturned

\* Calls follow each other: only the next one leaves "waiting", once.
LEMMA SerialStep == IInv /\ [Next]_vars => Serial'
<1> SUFFICES ASSUME IInv, [Next]_vars PROVE Serial'
  OBVIOUS
<1>1. \A c \in Call : c \in Nat
  BY CallsAssumption DEF Call
<1>2. call \in [Call -> {"waiting", "select", "kill", "returned"}] /\ Serial
  BY DEF IInv, TypeOK
<1>3. \/ call' = call
      \/ \E c \in Call : MayBegin(c) /\ \E p \in {"returned", "select"} :
            call' = [call EXCEPT ![c] = p]
      \/ \E c \in Call : call[c] = "select" /\ \E p \in {"returned", "kill"} :
            call' = [call EXCEPT ![c] = p]
      \/ \E c \in Call : call[c] = "kill" /\ call' = [call EXCEPT ![c] = "returned"]
  BY DEF Next, HandlerStep, RunnerStep, ProcessStep, AllReturned, vars, Deny, Begin,
         TimerFires, ReceiveResult, TakeTimeout, KillAndReturn, StartFails,
         CreateProcess, SetProcess, WaitReturns, SendResult, ProcessExits,
         StartsChild, ChildExits
<1>4. CASE call' = call
  BY <1>2, <1>4 DEF Serial
<1>5. ASSUME NEW c \in Call, MayBegin(c), NEW p \in {"returned", "select"},
             call' = [call EXCEPT ![c] = p]
      PROVE  Serial'
  BY <1>1, <1>2, <1>5 DEF Serial, MayBegin
<1>6. ASSUME NEW c \in Call, call[c] \in {"select", "kill"},
             NEW p \in {"returned", "kill"}, call' = [call EXCEPT ![c] = p]
      PROVE  Serial'
  BY <1>1, <1>2, <1>6 DEF Serial
<1> QED BY <1>3, <1>4, <1>5, <1>6

LEMMA ResultStepInv == IInv /\ [Next]_vars => ResultIsFinal'
<1> SUFFICES ASSUME IInv, [Next]_vars PROVE ResultIsFinal'
  OBVIOUS
<1> USE DEF IInv, TypeOK, RunnerInv, ReturnInv, ResultIsFinal, OutputComplete
<1>1. ASSUME NEW c \in Call, Deny(c) PROVE ResultIsFinal'
  BY <1>1 DEF Deny, MayBegin
<1>2. ASSUME NEW c \in Call, Begin(c) PROVE ResultIsFinal'
  BY <1>2 DEF Begin, MayBegin
<1>3. ASSUME NEW c \in Call, TimerFires(c) PROVE ResultIsFinal'
  BY <1>3 DEF TimerFires
<1>4. ASSUME NEW c \in Call, ReceiveResult(c) PROVE ResultIsFinal'
  BY <1>4 DEF ReceiveResult
<1>5. ASSUME NEW c \in Call, TakeTimeout(c) PROVE ResultIsFinal'
  BY <1>5 DEF TakeTimeout
<1>6. ASSUME NEW c \in Call, KillAndReturn(c) PROVE ResultIsFinal'
  <2>1. /\ result' = [result EXCEPT ![c] = "timeout"]
        /\ UNCHANGED <<runner, child>>
    BY <1>6 DEF KillAndReturn
  <2>2. \A d \in Call \ {c} : process'[d] = process[d] /\ exitCode'[d] = exitCode[d]
    <3>1. CASE visible[c] /\ process[c] = "running"
      <4>1. /\ process' = [process EXCEPT ![c] = "exited"]
            /\ exitCode' = [exitCode EXCEPT ![c] = 1]
        BY <1>6, <3>1 DEF KillAndReturn
      <4> QED BY <4>1
    <3>2. CASE ~(visible[c] /\ process[c] = "running")
      BY <1>6, <3>2 DEF KillAndReturn
    <3> QED BY <3>1, <3>2
  <2>3. \A d \in Call \ {c} : result'[d] = result[d] /\ runner'[d] = runner[d] /\ child'[d] = child[d]
    BY <2>1
  <2>4. result'[c] = "timeout"
    BY <2>1
  <2> HIDE DEF IInv, TypeOK, RunnerInv, ReturnInv
  <2>5. ResultIsFinal
    BY DEF IInv
  <2> QED BY <2>2, <2>3, <2>4, <2>5
<1>7. ASSUME NEW c \in Call, StartFails(c) PROVE ResultIsFinal'
  BY <1>7 DEF StartFails
<1>8. ASSUME NEW c \in Call, CreateProcess(c) PROVE ResultIsFinal'
  BY <1>8 DEF CreateProcess
<1>9. ASSUME NEW c \in Call, SetProcess(c) PROVE ResultIsFinal'
  BY <1>9 DEF SetProcess
<1>10. ASSUME NEW c \in Call, WaitReturns(c) PROVE ResultIsFinal'
  BY <1>10 DEF WaitReturns
<1>11. ASSUME NEW c \in Call, SendResult(c) PROVE ResultIsFinal'
  BY <1>11 DEF SendResult
<1>12. ASSUME NEW c \in Call, ProcessExits(c) PROVE ResultIsFinal'
  <2>1. process[c] = "running" /\ UNCHANGED <<result, runner, child>>
    BY <1>12 DEF ProcessExits
  <2>2. \A d \in Call \ {c} : process'[d] = process[d] /\ exitCode'[d] = exitCode[d]
    BY <1>12 DEF ProcessExits
  <2>3. result[c] \notin {"success", "exit code"}
    BY <2>1
  <2> QED BY <2>1, <2>2, <2>3
<1>13. ASSUME NEW c \in Call, StartsChild(c) PROVE ResultIsFinal'
  BY <1>13 DEF StartsChild
<1>14. ASSUME NEW c \in Call, ChildExits(c) PROVE ResultIsFinal'
  BY <1>14 DEF ChildExits
<1>15. CASE UNCHANGED vars
  BY <1>15 DEF vars
<1> QED
  BY <1>1, <1>2, <1>3, <1>4, <1>5, <1>6, <1>7, <1>8, <1>9, <1>10, <1>11, <1>12, <1>13, <1>14, <1>15
  DEF Next, HandlerStep, RunnerStep, ProcessStep, AllReturned

LEMMA IInvStep == IInv /\ [Next]_vars => IInv'
BY TypeStep, RunnerStepInv, ReturnStepInv, SerialStep, ResultStepInv DEF IInv

LEMMA Invariant == Spec => []IInv
BY IInvInit, IInvStep, PTL DEF Spec

\* The variables keep their types.  A call that was denied has no timer, runner or
\* process.
THEOREM TypeCorrect == Spec => []TypeOK
<1>1. IInv => TypeOK
  BY DEF IInv
<1> QED BY <1>1, Invariant, PTL

\* A result that is reported was read when nothing could write to the output
\* any more, and success means exit code 0.
THEOREM ReportedIsFinal == Spec => []ResultIsFinal
<1>1. IInv => ResultIsFinal
  BY DEF IInv
<1> QED BY <1>1, Invariant, PTL

\* Commands overlap only when the earlier one's process was being created as
\* its time ran out.
THEOREM OverlapIsStarting == Spec => []OverlapOnlyWhileStarting
<1>1. IInv => OverlapOnlyWhileStarting
  BY DEF IInv, ReturnInv, Serial, OverlapOnlyWhileStarting
<1> QED BY <1>1, Invariant, PTL
=============================================================================
