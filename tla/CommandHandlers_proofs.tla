----------------------- MODULE CommandHandlers_proofs -----------------------
(***************************************************************************)
(* Proofs about CommandHandlers for any number of requests: the counters   *)
(* of the health report agree with the answers whenever the handlers are   *)
(* idle, and a health check counts every command answered before it.       *)
(***************************************************************************)
EXTENDS CommandHandlers, FiniteSetTheorems, SequenceTheorems, TLAPS

\* TypeOK, the queues apart from the rest.
QueueOK == queue \in [Subjects -> Seq(Requests)]
StateOK ==
    /\ sent \subseteq Requests
    /\ current \in [Subjects -> Requests \cup {None}]
    /\ at \in [Subjects -> {"idle", "pong", "parse", "count", "execute", "recover",
                            "record", "reply", "agent", "tasks", "reconnects", "connected",
                            "status"}]
    /\ outcome \in [Subjects -> Outcomes]
    /\ \A s \in Subjects : current[s] = None <=> at[s] = "idle"
DataOK ==
    /\ snap \in Snap
    /\ reply \in [Requests -> [calls : Nat, n : Nat, status : Status, snap : Snap]]
    /\ stats \in [processed : Nat, errored : Nat]
    /\ taskStats \in [count : Nat, failures : Nat]
    /\ connected \in BOOLEAN /\ reconnects \in Nat
    /\ known \in [Requests -> Nat]

LEMMA TypeParts == TypeOK <=> QueueOK /\ StateOK /\ DataOK
BY DEF TypeOK, QueueOK, StateOK, DataOK

\* Requests wait in the line of their own subject, once and unanswered; the one a
\* handler works on is unanswered, too, unless it was rejected.
Waiting(r, s) == r \in sent /\ Subject[r] = s /\ reply[r].calls = 0 /\ r # current[s]
LineInv ==
    /\ \A s \in Subjects :
          /\ \A i \in 1..Len(queue[s]) : Waiting(queue[s][i], s)
          /\ \A i, j \in 1..Len(queue[s]) : queue[s][i] = queue[s][j] => i = j
          /\ current[s] # None =>
                /\ current[s] \in sent /\ Subject[current[s]] = s
                /\ at[s] # "count" => reply[current[s]].calls = 0
    /\ \A r \in Requests : reply[r].calls > 0 => r \in sent
    /\ \A r \in Requests : reply[r].n <= reply[r].calls

OutcomeInv ==
    \A s \in Commands :
        /\ at[s] \in {"record", "reply"} => outcome[s] \in {"success", "error"}
        /\ at[s] = "count" => /\ reply[current[s]].calls > 0
                              /\ reply[current[s]].status = "rejected"

\* The requests the counters stand for: those answered, but for a rejected one
\* that is still to be counted, and those counted that are still to be answered.
ToCount(r) == \E s \in Commands : current[s] = r /\ at[s] = "count"
ToAnswer(r) == \E s \in Commands : current[s] = r /\ at[s] = "reply"
ToAnswerError(r) == \E s \in Commands : current[s] = r /\ at[s] = "reply" /\ outcome[s] = "error"
Answered(r, statuses) == reply[r].calls > 0 /\ reply[r].status \in statuses
Processed ==
    {r \in Requests : \/ Answered(r, {"success", "error", "rejected"}) /\ ~ToCount(r)
                      \/ ToAnswer(r)}
Errored ==
    {r \in Requests : \/ Answered(r, {"error", "rejected"}) /\ ~ToCount(r)
                      \/ ToAnswerError(r)}
CountInv ==
    /\ stats.processed = Cardinality(Processed)
    /\ stats.errored = Cardinality(Errored)

\* What was known when a health check was sent is counted before it is read.
KnownInv ==
    /\ \A r \in sent : known[r] <= stats.processed
    /\ \A r \in Requests \ sent : known[r] = 0
    /\ at["health"] \notin {"idle", "agent"} => snap.processed >= known[current["health"]]

IInv == TypeOK /\ LineInv /\ OutcomeInv /\ CountInv /\ KnownInv /\ HealthCoversAnswered

USE RequestsAssumption, BoundsAssumption

LEMMA IInvInit == Init => IInv
<1> SUFFICES ASSUME Init PROVE IInv
  OBVIOUS
<1> USE DEF Init
<1>1. QueueOK /\ StateOK
  BY DEF QueueOK, StateOK, Outcomes
<1>2. DataOK
  BY DEF DataOK, Snap, NoSnap, NoReply, Status
<1>3. LineInv /\ OutcomeInv /\ HealthCoversAnswered
  BY DEF LineInv, OutcomeInv, HealthCoversAnswered, NoReply, Subjects, Commands, Waiting
<1>4. Processed = {} /\ Errored = {}
  BY DEF Processed, Errored, Answered, ToAnswer, ToAnswerError, NoReply, Subjects, Commands
<1>5. CountInv
  BY <1>4, FS_EmptySet DEF CountInv
<1>6. KnownInv
  BY DEF KnownInv, Subjects, Prompt
<1> QED BY <1>1, <1>2, <1>3, <1>5, <1>6, TypeParts DEF IInv

LEMMA SubjectsListed ==
    /\ Commands \subseteq Subjects /\ "ping" \in Subjects /\ "health" \in Subjects
    /\ Subject \in [Requests -> Subjects]
    /\ "ping" \notin Commands /\ "health" \notin Commands
BY DEF Subjects, Commands, Prompt

\* What a reply says, and that it changes nothing for any other request.
LEMMA RespondSays ==
    ASSUME DataOK, NEW s, NEW c \in Requests, c = current[s],
           NEW status, NEW shown, Respond(s, status, shown)
    PROVE  /\ reply'[c].calls = reply[c].calls + 1
           /\ reply'[c].n \in {reply[c].n, reply[c].n + 1}
           /\ reply'[c].status = status /\ reply'[c].snap = shown
           /\ \A r \in Requests : r # c => reply'[r] = reply[r]
<1>1. PICK arrives \in {0, 1} :
         reply' = [reply EXCEPT ![c] = [calls |-> @.calls + 1, n |-> @.n + arrives,
                                        status |-> status, snap |-> shown]]
  BY DEF Respond
<1>2. reply'[c] = [calls |-> reply[c].calls + 1, n |-> reply[c].n + arrives,
                   status |-> status, snap |-> shown]
  BY <1>1 DEF DataOK
<1>3. reply[c].n \in Nat
  BY DEF DataOK
<1>4. \A n \in Nat : \A k \in {0, 1} : n + k \in {n, n + 1}
  OBVIOUS
<1>5. reply[c].n + arrives \in {reply[c].n, reply[c].n + 1}
  BY <1>3, <1>4
<1>6. \A r \in Requests : r # c => reply'[r] = reply[r]
  BY <1>1 DEF DataOK
<1> QED BY <1>2, <1>5, <1>6

LEMMA RespondTyped ==
    ASSUME DataOK, NEW s \in Subjects, current[s] \in Requests,
           NEW status \in Status, NEW shown \in Snap, Respond(s, status, shown)
    PROVE  reply' \in [Requests -> [calls : Nat, n : Nat, status : Status, snap : Snap]]
<1>1. PICK arrives \in {0, 1} :
         reply' = [reply EXCEPT ![current[s]] =
                      [calls |-> @.calls + 1, n |-> @.n + arrives,
                       status |-> status, snap |-> shown]]
  BY DEF Respond
<1>2. arrives \in Nat
  OBVIOUS
<1> QED BY <1>1, <1>2 DEF DataOK

LEMMA HealthStatusTyped == \A seen \in Snap : HealthStatus(seen) \in Status
BY DEF HealthStatus, Status

\* A handler at work has a request.
LEMMA HasRequest ==
    ASSUME StateOK, NEW s \in Subjects, at[s] # "idle"
    PROVE  current[s] \in Requests
BY DEF StateOK

LEMMA QueueStep == QueueOK /\ [Next]_vars => QueueOK'
<1> SUFFICES ASSUME QueueOK, [Next]_vars PROVE QueueOK'
  OBVIOUS
<1> USE DEF QueueOK
<1>1. ASSUME NEW r \in Requests, Send(r) PROVE QueueOK'
  <2>1. Append(queue[Subject[r]], r) \in Seq(Requests)
    BY SubjectsListed
  <2>2. queue' \in {queue, [queue EXCEPT ![Subject[r]] = Append(@, r)]}
    BY <1>1 DEF Send
  <2> QED BY <2>1, <2>2
<1>2. ASSUME NEW s \in Subjects, Deliver(s) PROVE QueueOK'
  <2>1. Tail(queue[s]) \in Seq(Requests)
    BY <1>2 DEF Deliver
  <2> QED BY <1>2, <2>1 DEF Deliver
<1>3. CASE UNCHANGED queue
  BY <1>3
<1>4. ASSUME NEW s \in Commands, CommandStep(s) \/ Execute(s) PROVE UNCHANGED queue
  BY <1>4 DEF CommandStep, Execute, Parse, Reject, CountRejected, Recover, Record, Reply
<1>5. ASSUME Disconnect \/ Reconnect \/ RecordMetrics \/ Pong \/ HealthStep \/ AllHandled
      PROVE  UNCHANGED queue
  BY <1>5 DEF Disconnect, Reconnect, RecordMetrics, Pong, HealthStep, ReadAgent, ReadTasks,
              ReadReconnects, ReadConnected, ReplyHealth, AllHandled, vars
<1> QED BY <1>1, <1>2, <1>3, <1>4, <1>5 DEF Next, vars

LEMMA StateStep == QueueOK /\ StateOK /\ [Next]_vars => StateOK'
<1> SUFFICES ASSUME QueueOK, StateOK, [Next]_vars PROVE StateOK'
  OBVIOUS
<1> USE DEF StateOK, handlers, conn
<1>1. ASSUME NEW r \in Requests, Send(r) PROVE StateOK'
  BY <1>1 DEF Send
<1>2. CASE Disconnect \/ Reconnect \/ RecordMetrics
  BY <1>2 DEF Disconnect, Reconnect, RecordMetrics
<1>3. ASSUME NEW s \in Subjects, Deliver(s) PROVE StateOK'
  <2>1. Head(queue[s]) \in Requests
    BY <1>3 DEF QueueOK, Deliver
  <2>2. FirstStep(s) \in {"pong", "agent", "parse"}
    BY DEF FirstStep
  <2> QED BY <1>3, <2>1, <2>2 DEF Deliver
<1>4. ASSUME NEW s \in Subjects, Return(s), UNCHANGED sent PROVE StateOK'
  BY <1>4 DEF Return, Outcomes
<1>5. ASSUME NEW s \in Subjects, at[s] # "idle", UNCHANGED <<sent, current>>,
             NEW step \in {"count", "execute", "recover", "record", "reply", "tasks",
                           "reconnects", "connected", "status"}, Goto(s, step),
             outcome' \in [Subjects -> Outcomes]
      PROVE  StateOK'
  BY <1>5 DEF Goto
<1>6. ASSUME NEW s \in Commands, CommandStep(s) PROVE StateOK'
  <2>1. CASE Parse(s) \/ Reject(s)
    BY <1>5, <2>1, SubjectsListed DEF Parse, Reject
  <2>2. CASE CountRejected(s) \/ Recover(s) \/ Reply(s)
    BY <1>4, <2>2, SubjectsListed DEF CountRejected, Recover, Reply
  <2>3. CASE Record(s)
    BY <1>5, <2>3, SubjectsListed DEF Record
  <2> QED BY <1>6, <2>1, <2>2, <2>3 DEF CommandStep
<1>7. ASSUME NEW s \in Commands, Execute(s) PROVE StateOK'
  <2>1. PICK result \in {"success", "error", "panic"} :
           /\ outcome' = [outcome EXCEPT ![s] = result]
           /\ Goto(s, IF result = "panic" THEN "recover" ELSE "record")
    BY <1>7 DEF Execute
  <2>2. outcome' \in [Subjects -> Outcomes]
    BY <2>1 DEF Outcomes
  <2>3. at[s] # "idle" /\ UNCHANGED <<sent, current>>
    BY <1>7 DEF Execute
  <2> QED BY <1>5, <2>1, <2>2, <2>3, SubjectsListed
<1>8. CASE Pong
  BY <1>4, <1>8, SubjectsListed DEF Pong
<1>9. CASE HealthStep
  <2>1. CASE ReplyHealth
    BY <1>4, <2>1, SubjectsListed DEF ReplyHealth
  <2>2. CASE ReadAgent \/ ReadTasks \/ ReadReconnects \/ ReadConnected
    BY <1>5, <2>2, SubjectsListed DEF ReadAgent, ReadTasks, ReadReconnects, ReadConnected
  <2> QED BY <1>9, <2>1, <2>2 DEF HealthStep
<1>10. CASE UNCHANGED vars
  BY <1>10 DEF vars
<1> QED
  BY <1>1, <1>2, <1>3, <1>6, <1>7, <1>8, <1>9, <1>10 DEF Next, AllHandled

LEMMA DataStep == StateOK /\ DataOK /\ [Next]_vars => DataOK'
<1> SUFFICES ASSUME StateOK, DataOK, [Next]_vars PROVE DataOK'
  OBVIOUS
<1> USE DEF handlers, conn
<1>0. NoSnap \in Snap
  BY DEF NoSnap, Snap
<1>1. ASSUME NEW r \in Requests, Send(r) PROVE DataOK'
  <2>1. Cardinality(AnsweredCommands) \in Nat
    BY FS_Subset, FS_CardinalityType DEF AnsweredCommands
  <2> QED BY <1>1, <2>1 DEF Send, DataOK
<1>2. CASE Disconnect \/ Reconnect \/ RecordMetrics
  <2>1. CASE Disconnect \/ Reconnect
    <3>1. connected' = FALSE \/ connected' = TRUE
      BY <2>1 DEF Disconnect, Reconnect
    <3>3. reconnects' = reconnects \/ reconnects' = reconnects + 1
      BY <2>1 DEF Disconnect, Reconnect
    <3>4. connected' \in BOOLEAN
      BY <3>1
    <3>5. reconnects' \in Nat
      BY <3>3 DEF DataOK
    <3>2. UNCHANGED <<snap, reply, stats, taskStats, known>>
      BY <2>1 DEF Disconnect, Reconnect
    <3> QED BY <3>2, <3>4, <3>5 DEF DataOK
  <2>2. CASE RecordMetrics
    <3>1. taskStats' \in [count : Nat, failures : Nat]
      BY <2>2 DEF RecordMetrics, DataOK
    <3> QED BY <2>2, <3>1 DEF RecordMetrics, DataOK
  <2> QED BY <1>2, <2>1, <2>2
<1>3. ASSUME NEW s \in Subjects, Deliver(s) PROVE DataOK'
  BY <1>3 DEF Deliver, DataOK
<1>4. ASSUME NEW s \in Subjects, at[s] # "idle", NEW status \in Status, NEW shown \in Snap,
             Respond(s, status, shown), Return(s),
             UNCHANGED <<stats, taskStats, conn, known>>
      PROVE  DataOK'
  <2>1. reply' \in [Requests -> [calls : Nat, n : Nat, status : Status, snap : Snap]]
    BY <1>4, HasRequest, RespondTyped
  <2>2. snap' \in Snap
    BY <1>0, <1>4 DEF Return, DataOK
  <2> QED BY <1>4, <2>1, <2>2 DEF DataOK
<1>5. ASSUME NEW s \in Commands, CommandStep(s) PROVE DataOK'
  <2>1. CASE Parse(s)
    BY <2>1 DEF Parse, DataOK
  <2>2. CASE Reject(s)
    <3>1. at[s] # "idle" /\ Respond(s, "rejected", NoSnap) /\ "rejected" \in Status
      BY <2>2 DEF Reject, Status
    <3>2. reply' \in [Requests -> [calls : Nat, n : Nat, status : Status, snap : Snap]]
      BY <1>0, <3>1, HasRequest, RespondTyped, SubjectsListed
    <3> QED BY <2>2, <3>2 DEF Reject, DataOK
  <2>3. CASE CountRejected(s)
    BY <2>3, SubjectsListed DEF CountRejected, CountError, Return, DataOK
  <2>4. CASE Recover(s)
    BY <1>0, <1>4, <2>4, SubjectsListed DEF Recover, Status
  <2>5. CASE Record(s)
    BY <2>5 DEF Record, CountError, CountSuccess, DataOK
  <2>6. CASE Reply(s)
    <3>1. outcome[s] \in Status
      BY SubjectsListed DEF StateOK, Outcomes, Status
    <3> QED BY <1>0, <1>4, <2>6, <3>1, SubjectsListed DEF Reply
  <2> QED BY <1>5, <2>1, <2>2, <2>3, <2>4, <2>5, <2>6 DEF CommandStep
<1>6. ASSUME NEW s \in Commands, Execute(s) PROVE DataOK'
  BY <1>6 DEF Execute, DataOK
<1>7. CASE Pong
  BY <1>0, <1>4, <1>7, SubjectsListed DEF Pong, Status
<1>8. CASE ReplyHealth
  <2>1. snap \in Snap /\ HealthStatus(snap) \in Status
    BY HealthStatusTyped DEF DataOK
  <2> QED BY <1>4, <1>8, <2>1, SubjectsListed DEF ReplyHealth
<1>9. CASE ReadAgent \/ ReadTasks \/ ReadReconnects \/ ReadConnected
  BY <1>9 DEF ReadAgent, ReadTasks, ReadReconnects, ReadConnected, DataOK, Snap
<1>10. CASE UNCHANGED vars
  BY <1>10 DEF vars, DataOK
<1> QED
  BY <1>1, <1>2, <1>3, <1>5, <1>6, <1>7, <1>8, <1>9, <1>10 DEF Next, HealthStep, AllHandled

-----------------------------------------------------------------------------
(* A step of a handler changes its own place in the code and the reply to  *)
(* the request it works on, and nothing of any other.                      *)
HandlerStep(s) ==
    /\ at[s] # "idle" /\ current[s] \in Requests
    /\ current' \in {current, [current EXCEPT ![s] = None]}
    /\ \A t \in Subjects : t # s => at'[t] = at[t] /\ outcome'[t] = outcome[t]
    /\ \A r \in Requests : r # current[s] => reply'[r] = reply[r]
    /\ \A r \in Requests :
          reply[r].n <= reply[r].calls => reply'[r].n <= reply'[r].calls
    /\ sent' = sent /\ queue' = queue

LEMMA HandlersStep ==
    ASSUME StateOK, DataOK
    PROVE  /\ \A s \in Commands : CommandStep(s) \/ Execute(s) => HandlerStep(s)
           /\ Pong => HandlerStep("ping")
           /\ HealthStep => HandlerStep("health")
<1> USE DEF handlers
<1>1. ASSUME NEW s \in Subjects, at[s] # "idle",
             \/ UNCHANGED reply
             \/ \E status \in Status, shown \in Snap : Respond(s, status, shown),
             \/ Return(s)
             \/ /\ UNCHANGED current
                /\ \A t \in Subjects : t # s => at'[t] = at[t] /\ outcome'[t] = outcome[t],
             UNCHANGED <<sent, queue>>
      PROVE  HandlerStep(s)
  <2>1. current[s] \in Requests
    BY <1>1, HasRequest
  <2>2. \A r \in Requests : r # current[s] => reply'[r] = reply[r]
    BY <1>1, <2>1, RespondSays
  <2>3. \A t \in Subjects : t # s => at'[t] = at[t] /\ outcome'[t] = outcome[t]
    BY <1>1 DEF Return, Goto, StateOK
  <2>4. current' \in {current, [current EXCEPT ![s] = None]}
    BY <1>1 DEF Return
  <2>5. ASSUME NEW r \in Requests, reply[r].n <= reply[r].calls
        PROVE  reply'[r].n <= reply'[r].calls
    <3>1. CASE reply'[r] = reply[r]
      BY <2>5, <3>1
    <3>2. CASE r = current[s] /\ ~UNCHANGED reply
      <4>1. /\ reply'[r].calls = reply[r].calls + 1
            /\ reply'[r].n \in {reply[r].n, reply[r].n + 1}
        BY <1>1, <2>1, <3>2, RespondSays
      <4>2. reply[r].n \in Nat /\ reply[r].calls \in Nat
        BY DEF DataOK
      <4>3. \A n, k \in Nat : n <= k => n <= k + 1 /\ n + 1 <= k + 1
        OBVIOUS
      <4> QED BY <2>5, <4>1, <4>2, <4>3, Zenon
    <3> QED BY <2>2, <3>1, <3>2
  <2> QED BY <1>1, <2>1, <2>2, <2>3, <2>4, <2>5 DEF HandlerStep
<1>2. NoSnap \in Snap /\ snap \in Snap
  BY DEF NoSnap, Snap, DataOK
<1>6. \A s \in Subjects : \A step : Goto(s, step) => \A t \in Subjects : t # s => at'[t] = at[t]
  BY DEF Goto, StateOK
<1>3. ASSUME NEW s \in Commands, CommandStep(s) \/ Execute(s) PROVE HandlerStep(s)
  <2>1. s \in Subjects /\ outcome[s] \in Status
    BY SubjectsListed DEF StateOK, Outcomes, Status
  <2>2. CASE Parse(s) \/ Reject(s)
    BY <1>1, <1>2, <1>6, <2>1, <2>2 DEF Parse, Reject, Status
  <2>3. CASE CountRejected(s)
    BY <1>1, <2>1, <2>3 DEF CountRejected
  <2>4. CASE Execute(s)
    <3>1. PICK result \in {"success", "error", "panic"} :
             /\ outcome' = [outcome EXCEPT ![s] = result]
             /\ Goto(s, IF result = "panic" THEN "recover" ELSE "record")
      BY <2>4 DEF Execute
    <3>2. \A t \in Subjects : t # s => at'[t] = at[t] /\ outcome'[t] = outcome[t]
      <4>1. \A t \in Subjects : t # s => at'[t] = at[t]
        BY <1>6, <2>1, <3>1
      <4> QED BY <3>1, <4>1 DEF StateOK
    <3> QED BY <1>1, <2>1, <2>4, <3>2 DEF Execute
  <2>5. CASE Recover(s) \/ Reply(s)
    BY <1>1, <1>2, <2>1, <2>5 DEF Recover, Reply, Status
  <2>6. CASE Record(s)
    BY <1>1, <1>6, <2>1, <2>6 DEF Record
  <2> QED BY <1>3, <2>2, <2>3, <2>4, <2>5, <2>6 DEF CommandStep
<1>4. ASSUME Pong PROVE HandlerStep("ping")
  BY <1>1, <1>2, <1>4, SubjectsListed DEF Pong, Status
<1>5. ASSUME HealthStep PROVE HandlerStep("health")
  <2>1. CASE ReplyHealth
    BY <1>1, <1>2, <2>1, HealthStatusTyped, SubjectsListed DEF ReplyHealth
  <2>2. CASE ReadAgent \/ ReadTasks \/ ReadReconnects \/ ReadConnected
    BY <1>1, <1>6, <2>2, SubjectsListed DEF ReadAgent, ReadTasks, ReadReconnects, ReadConnected
  <2> QED BY <1>5, <2>1, <2>2 DEF HealthStep
<1> QED BY <1>3, <1>4, <1>5

\* The line of every subject survives a step that leaves its request unanswered,
\* rejects it, or is done with it.
LEMMA HandlerLine ==
    ASSUME StateOK, QueueOK, DataOK, LineInv, NEW s \in Subjects, HandlerStep(s),
           current'[s] # None /\ at'[s] # "count" => reply'[current[s]].calls = 0
    PROVE  LineInv'
<1> USE DEF HandlerStep
<1>1. current[s] # None /\ current[s] \in sent /\ Subject[current[s]] = s
  BY DEF LineInv
<1>2. \A t \in Subjects : current'[t] \in {current[t], None} /\ (t # s => current'[t] = current[t])
  BY DEF StateOK
<1>3. ASSUME NEW t \in Subjects, NEW i \in 1..Len(queue'[t]) PROVE Waiting(queue[t][i], t)'
  <2>1. Waiting(queue[t][i], t) /\ queue[t][i] \in Requests
    BY <1>3 DEF LineInv, QueueOK
  <2>2. queue[t][i] # current[s]
    BY <1>1, <2>1 DEF Waiting
  <2>3. queue[t][i] # current'[t]
    BY <1>2, <2>1 DEF Waiting
  <2> QED BY <2>1, <2>2, <2>3 DEF Waiting
<1>4. ASSUME NEW t \in Subjects, current'[t] # None
      PROVE  /\ current'[t] \in sent' /\ Subject[current'[t]] = t
             /\ at'[t] # "count" => reply'[current'[t]].calls = 0
  <2>1. current'[t] = current[t] /\ current[t] \in sent /\ Subject[current[t]] = t
    BY <1>2, <1>4 DEF LineInv
  <2>2. CASE t = s
    BY <1>4, <2>1, <2>2
  <2>3. CASE t # s
    BY <1>1, <2>1, <2>3 DEF LineInv, StateOK
  <2> QED BY <2>2, <2>3
<1>5. ASSUME NEW r \in Requests, reply'[r].calls > 0 PROVE r \in sent'
  BY <1>1, <1>5 DEF LineInv
<1>6. \A t \in Subjects : \A i, j \in 1..Len(queue'[t]) : queue'[t][i] = queue'[t][j] => i = j
  BY DEF LineInv
<1>7. \A r \in Requests : reply'[r].n <= reply'[r].calls
  BY DEF LineInv
<1> QED BY <1>3, <1>4, <1>5, <1>6, <1>7 DEF LineInv

LEMMA SendLine ==
    ASSUME StateOK, QueueOK, DataOK, LineInv, NEW r \in Requests, Send(r)
    PROVE  LineInv'
<1> USE DEF Send, handlers
<1>1. reply[r].calls = 0 /\ \A s \in Subjects : current[s] # r
  BY DEF LineInv, DataOK, StateOK
<1>2. \A s \in Subjects : \A i \in 1..Len(queue[s]) : queue[s][i] # r
  BY DEF LineInv, Waiting
<1>3. ASSUME NEW s \in Subjects
      PROVE  \/ queue'[s] = queue[s]
             \/ Subject[r] = s /\ queue'[s] = Append(queue[s], r)
  BY SubjectsListed DEF QueueOK
<1>5. /\ UNCHANGED <<current, at, reply>> /\ sent' = sent \cup {r}
  OBVIOUS
<1> HIDE DEF Send
<1>4. ASSUME NEW s \in Subjects
      PROVE  /\ \A i \in 1..Len(queue'[s]) : Waiting(queue[s][i], s)'
             /\ \A i, j \in 1..Len(queue'[s]) : queue'[s][i] = queue'[s][j] => i = j
  <2>1. \A i \in 1..Len(queue[s]) : Waiting(queue[s][i], s) /\ queue[s][i] # r
    BY <1>2 DEF LineInv
  <2>2. CASE queue'[s] = queue[s]
    BY <1>5, <2>1, <2>2 DEF Waiting, LineInv
  <2>3. CASE Subject[r] = s /\ queue'[s] = Append(queue[s], r)
    <3>1. queue[s] \in Seq(Requests)
      BY DEF QueueOK
    <3>2. /\ Len(queue'[s]) = Len(queue[s]) + 1
          /\ \A i \in 1..Len(queue[s]) : queue'[s][i] = queue[s][i]
          /\ queue'[s][Len(queue[s]) + 1] = r
      BY <2>3, <3>1
    <3>3. Len(queue[s]) \in Nat
      BY <3>1
    <3>4. \A i \in 1..Len(queue'[s]) : i \in 1..Len(queue[s]) \/ i = Len(queue[s]) + 1
      BY <3>2, <3>3
    <3>5. \A i \in 1..Len(queue'[s]) : Waiting(queue[s][i], s)'
      BY <1>1, <1>5, <2>1, <2>3, <3>2, <3>4 DEF Waiting
    <3>6. \A i, j \in 1..Len(queue'[s]) : queue'[s][i] = queue'[s][j] => i = j
      BY <2>1, <3>2, <3>4 DEF LineInv
    <3> QED BY <3>5, <3>6
  <2> QED BY <1>3, <2>2, <2>3
<1> QED BY <1>4, <1>5 DEF LineInv

LEMMA DeliverLine ==
    ASSUME StateOK, QueueOK, DataOK, LineInv, NEW s \in Subjects, Deliver(s)
    PROVE  LineInv'
<1> DEFINE r == Head(queue[s])
<1>1. queue[s] \in Seq(Requests) /\ queue[s] # <<>>
  BY DEF QueueOK, Deliver
<1>2. /\ Len(queue[s]) \in Nat \ {0} /\ r = queue[s][1]
      /\ Len(Tail(queue[s])) = Len(queue[s]) - 1
      /\ \A i \in 1..Len(queue[s]) - 1 : Tail(queue[s])[i] = queue[s][i + 1]
  BY <1>1
<1>3. Waiting(r, s) /\ r \in Requests
  BY <1>1, <1>2 DEF LineInv
<1>4. /\ sent' = sent /\ reply' = reply
      /\ \A t \in Subjects : t # s => /\ current'[t] = current[t] /\ at'[t] = at[t]
                                      /\ queue'[t] = queue[t]
      /\ current'[s] = r /\ queue'[s] = Tail(queue[s])
  BY DEF Deliver, StateOK, QueueOK
<1>5. ASSUME NEW t \in Subjects
      PROVE  /\ \A i \in 1..Len(queue'[t]) : Waiting(queue[t][i], t)'
             /\ \A i, j \in 1..Len(queue'[t]) : queue'[t][i] = queue'[t][j] => i = j
             /\ current'[t] # None =>
                  /\ current'[t] \in sent' /\ Subject[current'[t]] = t
                  /\ at'[t] # "count" => reply'[current'[t]].calls = 0
  <2>1. CASE t # s
    BY <1>4, <2>1 DEF LineInv, Waiting
  <2>2. CASE t = s
    <3>1. ASSUME NEW i \in 1..Len(queue'[s])
          PROVE  /\ i + 1 \in 1..Len(queue[s]) /\ i + 1 # 1
                 /\ queue'[s][i] = queue[s][i + 1]
      BY <1>2, <1>4
    <3>2. 1 \in 1..Len(queue[s])
      BY <1>2
    <3>3. ASSUME NEW i \in 1..Len(queue'[s]) PROVE Waiting(queue[s][i], s)'
      <4>1. Waiting(queue[s][i + 1], s)
        BY <3>1 DEF LineInv
      <4>2. queue[s][i + 1] # r
        BY <1>2, <3>1, <3>2 DEF LineInv
      <4> QED BY <1>4, <3>1, <4>1, <4>2 DEF Waiting
    <3>4. ASSUME NEW i \in 1..Len(queue'[s]), NEW j \in 1..Len(queue'[s]),
                 queue'[s][i] = queue'[s][j]
          PROVE  i = j
      <4>1. i + 1 = j + 1
        BY <3>1, <3>4 DEF LineInv
      <4> QED BY <4>1
    <3> HIDE DEF r
    <3>5. current'[s] \in sent' /\ Subject[current'[s]] = s /\ reply'[current'[s]].calls = 0
      BY <1>3, <1>4 DEF Waiting
    <3> QED BY <2>2, <3>3, <3>4, <3>5
  <2> QED BY <2>1, <2>2
<1> QED BY <1>4, <1>5 DEF LineInv

\* The reply of a handler that returns goes to a request no longer at work.
LEMMA LineStep == TypeOK /\ LineInv /\ OutcomeInv /\ [Next]_vars => LineInv'
<1> SUFFICES ASSUME QueueOK, StateOK, DataOK, LineInv, OutcomeInv, [Next]_vars PROVE LineInv'
  BY TypeParts
<1>1. CASE UNCHANGED <<sent, queue, current, at, reply>>
  BY <1>1 DEF LineInv, Waiting
<1>2. CASE Disconnect \/ Reconnect \/ RecordMetrics \/ AllHandled \/ UNCHANGED vars
  BY <1>1, <1>2 DEF Disconnect, Reconnect, RecordMetrics, AllHandled, vars, handlers
<1>3. ASSUME NEW s \in Subjects, HandlerStep(s),
             current'[s] # None /\ at'[s] # "count" => at[s] # "count" /\ reply' = reply
      PROVE  LineInv'
  <2>1. current'[s] # None /\ at'[s] # "count" => reply'[current[s]].calls = 0
    BY <1>3, RequestsAssumption DEF LineInv, HandlerStep
  <2> QED BY <1>3, <2>1, HandlerLine
<1>4. ASSUME NEW s \in Commands, CommandStep(s) \/ Execute(s) PROVE LineInv'
  <2>1. s \in Subjects /\ HandlerStep(s)
    BY <1>4, HandlersStep, SubjectsListed
  <2>2. current'[s] # None /\ at'[s] # "count" => at[s] # "count" /\ reply' = reply
    <3>1. CASE CountRejected(s) \/ Recover(s) \/ Reply(s)
      BY <2>1, <3>1 DEF CountRejected, Recover, Reply, Return, StateOK
    <3>2. CASE Parse(s) \/ Reject(s) \/ Record(s)
      BY <2>1, <3>2 DEF Parse, Reject, Record, Goto, StateOK
    <3>3. CASE Execute(s)
      BY <3>3 DEF Execute
    <3> QED BY <1>4, <3>1, <3>2, <3>3 DEF CommandStep
  <2> QED BY <1>3, <2>1, <2>2
<1>5. CASE Pong \/ HealthStep
  <2>1. CASE Pong
    <3>1. current'["ping"] = None
      BY <2>1, SubjectsListed DEF Pong, Return, StateOK
    <3> QED BY <1>3, <2>1, <3>1, HandlersStep, SubjectsListed
  <2>2. CASE ReplyHealth
    <3>1. current'["health"] = None
      BY <2>2, SubjectsListed DEF ReplyHealth, Return, StateOK
    <3> QED BY <1>3, <2>2, <3>1, HandlersStep, SubjectsListed DEF HealthStep
  <2>3. CASE ReadAgent \/ ReadTasks \/ ReadReconnects \/ ReadConnected
    <3>1. at["health"] # "count" /\ reply' = reply
      BY <2>3 DEF ReadAgent, ReadTasks, ReadReconnects, ReadConnected
    <3> QED BY <1>3, <2>3, <3>1, HandlersStep, SubjectsListed DEF HealthStep
  <2> QED BY <1>5, <2>1, <2>2, <2>3 DEF HealthStep
<1> QED BY <1>2, <1>4, <1>5, SendLine, DeliverLine DEF Next

\* No two handlers work on one request.
LEMMA OneHandler ==
    ASSUME StateOK, LineInv, NEW s \in Subjects, HandlerStep(s)
    PROVE  \A t \in Subjects : t # s => /\ current'[t] = current[t]
                                        /\ current[t] # current[s]
                                        /\ at[t] # "idle" => current[t] \in Requests
BY DEF StateOK, LineInv, HandlerStep

LEMMA HandlerOutcome ==
    ASSUME StateOK, LineInv, OutcomeInv, NEW s \in Subjects, HandlerStep(s),
           s \in Commands =>
              /\ at'[s] \in {"record", "reply"} => outcome'[s] \in {"success", "error"}
              /\ at'[s] = "count" => /\ current'[s] = current[s]
                                     /\ reply'[current[s]].calls > 0
                                     /\ reply'[current[s]].status = "rejected"
    PROVE  OutcomeInv'
<1> SUFFICES ASSUME NEW t \in Commands
             PROVE  /\ at'[t] \in {"record", "reply"} => outcome'[t] \in {"success", "error"}
                    /\ at'[t] = "count" => /\ reply'[current'[t]].calls > 0
                                           /\ reply'[current'[t]].status = "rejected"
  BY DEF OutcomeInv
<1>1. CASE t = s
  BY <1>1
<1>2. CASE t # s
  <2>1. at'[t] = at[t] /\ outcome'[t] = outcome[t]
    BY <1>2, SubjectsListed DEF HandlerStep
  <2>2. ASSUME at[t] = "count" PROVE reply'[current'[t]] = reply[current[t]]
    <3>1. /\ current'[t] = current[t] /\ current[t] # current[s]
          /\ current[t] \in Requests
      <4>1. \A u \in Subjects : u # s => /\ current'[u] = current[u]
                                         /\ current[u] # current[s]
                                         /\ at[u] # "idle" => current[u] \in Requests
        BY OneHandler
      <4>2. t \in Subjects
        BY SubjectsListed
      <4> QED BY <1>2, <2>2, <4>1, <4>2
    <3> QED BY <3>1 DEF HandlerStep
  <2> QED BY <2>1, <2>2 DEF OutcomeInv
<1> QED BY <1>1, <1>2

LEMMA OutcomeStep == TypeOK /\ LineInv /\ OutcomeInv /\ [Next]_vars => OutcomeInv'
<1> SUFFICES ASSUME StateOK, DataOK, LineInv, OutcomeInv, [Next]_vars PROVE OutcomeInv'
  BY TypeParts
<1> USE SubjectsListed
<1>1. CASE UNCHANGED <<current, at, outcome, reply>>
  BY <1>1 DEF OutcomeInv
<1>2. ASSUME NEW r \in Requests, Send(r) PROVE OutcomeInv'
  BY <1>1, <1>2 DEF Send, handlers
<1>3. CASE Disconnect \/ Reconnect \/ RecordMetrics \/ AllHandled \/ UNCHANGED vars
  BY <1>1, <1>3 DEF Disconnect, Reconnect, RecordMetrics, AllHandled, vars, handlers
<1>4. ASSUME NEW s \in Subjects, Deliver(s) PROVE OutcomeInv'
  <2>1. FirstStep(s) \in {"pong", "agent", "parse"}
    BY DEF FirstStep
  <2>2. \A t \in Subjects :
           \/ at'[t] \in {"pong", "agent", "parse"}
           \/ at'[t] = at[t] /\ current'[t] = current[t]
    <3>1. \A t \in Subjects : t # s => at'[t] = at[t] /\ current'[t] = current[t]
      BY <1>4 DEF Deliver, StateOK
    <3>2. at'[s] \in {"pong", "agent", "parse"}
      BY <1>4, <2>1 DEF Deliver, StateOK
    <3> QED BY <3>1, <3>2
  <2>3. outcome' = outcome /\ reply' = reply
    BY <1>4 DEF Deliver
  <2> QED BY <2>2, <2>3 DEF OutcomeInv
<1>5. ASSUME NEW s \in Commands, CommandStep(s) \/ Execute(s) PROVE OutcomeInv'
  <2>1. HandlerStep(s)
    BY <1>5, HandlersStep
  <2>2. ASSUME at'[s] \notin {"record", "reply", "count"} PROVE OutcomeInv'
    BY <2>1, <2>2, HandlerOutcome
  <2>3. CASE CountRejected(s) \/ Recover(s) \/ Reply(s)
    <3>1. at'[s] = "idle"
      BY <2>3 DEF CountRejected, Recover, Reply, Return, StateOK
    <3> QED BY <2>2, <3>1
  <2>4. CASE Parse(s)
    <3>1. at'[s] = "execute"
      BY <2>4 DEF Parse, Goto, StateOK
    <3> QED BY <2>2, <3>1
  <2>5. CASE Reject(s)
    <3>1. at'[s] = "count" /\ current'[s] = current[s] /\ current[s] \in Requests
      BY <2>1, <2>5 DEF Reject, Goto, StateOK, HandlerStep
    <3>2. /\ reply'[current[s]].calls = reply[current[s]].calls + 1
          /\ reply'[current[s]].status = "rejected"
      BY <2>5, <3>1, RespondSays DEF Reject
    <3>3. reply[current[s]].calls \in Nat
      BY <3>1 DEF DataOK
    <3>4. reply'[current[s]].calls > 0 /\ reply'[current[s]].status = "rejected"
      BY <3>2, <3>3
    <3> QED BY <2>1, <3>1, <3>4, HandlerOutcome
  <2>6. CASE Execute(s)
    <3>1. PICK result \in {"success", "error", "panic"} :
             /\ outcome' = [outcome EXCEPT ![s] = result]
             /\ Goto(s, IF result = "panic" THEN "recover" ELSE "record")
      BY <2>6 DEF Execute
    <3>2. outcome'[s] = result /\ at'[s] = IF result = "panic" THEN "recover" ELSE "record"
      BY <3>1 DEF Goto, StateOK
    <3> QED BY <2>1, <3>2, HandlerOutcome
  <2>7. CASE Record(s)
    <3>1. at[s] = "record" /\ at'[s] = "reply" /\ outcome'[s] = outcome[s]
      BY <2>7 DEF Record, Goto, StateOK
    <3> QED BY <2>1, <3>1, HandlerOutcome DEF OutcomeInv
  <2> QED BY <1>5, <2>3, <2>4, <2>5, <2>6, <2>7 DEF CommandStep
<1>6. CASE Pong \/ HealthStep
  <2>1. HandlerStep("ping") \/ HandlerStep("health")
    BY <1>6, HandlersStep
  <2> QED BY <2>1, HandlerOutcome
<1> QED BY <1>2, <1>3, <1>4, <1>5, <1>6 DEF Next

-----------------------------------------------------------------------------
(* The counters.  A step of handler s changes who counts for current[s] at *)
(* most, and there the handler's place in the code decides.                *)
LEMMA OthersCounted ==
    ASSUME StateOK, LineInv, NEW s \in Subjects, HandlerStep(s),
           NEW r \in Requests, r # current[s]
    PROVE  /\ r \in Processed' <=> r \in Processed
           /\ r \in Errored' <=> r \in Errored
<1>0. /\ current'[s] # r /\ current[s] # r
      /\ \A t \in Subjects : t # s =>
            current'[t] = current[t] /\ at'[t] = at[t] /\ outcome'[t] = outcome[t]
  BY OneHandler DEF HandlerStep, StateOK
<1>1. \A t \in Subjects :
         current'[t] = r => t # s /\ current[t] = r /\ at'[t] = at[t] /\ outcome'[t] = outcome[t]
  BY <1>0
<1>2. \A t \in Subjects :
         current[t] = r => t # s /\ current'[t] = r /\ at'[t] = at[t] /\ outcome'[t] = outcome[t]
  BY <1>0
<1>3. reply'[r] = reply[r]
  BY DEF HandlerStep
<1>4. ToCount(r)' <=> ToCount(r)
  BY <1>1, <1>2, SubjectsListed DEF ToCount
<1>5. ToAnswer(r)' <=> ToAnswer(r)
  BY <1>1, <1>2, SubjectsListed DEF ToAnswer
<1>6. ToAnswerError(r)' <=> ToAnswerError(r)
  BY <1>1, <1>2, SubjectsListed DEF ToAnswerError
<1> QED BY <1>3, <1>4, <1>5, <1>6 DEF Processed, Errored, Answered

LEMMA OwnPlace ==
    ASSUME StateOK, LineInv, NEW s \in Subjects, HandlerStep(s), NEW c, c = current[s]
    PROVE  /\ ToCount(c) <=> s \in Commands /\ at[s] = "count"
           /\ ToAnswer(c) <=> s \in Commands /\ at[s] = "reply"
           /\ ToAnswerError(c) <=>
                 s \in Commands /\ at[s] = "reply" /\ outcome[s] = "error"
<1>1. ASSUME NEW t \in Commands PROVE current[t] = c <=> t = s
  <2>1. \A u \in Subjects : u # s => current'[u] = current[u] /\ current[u] # current[s]
    BY OneHandler
  <2>2. t \in Subjects
    BY SubjectsListed
  <2> QED BY <2>1, <2>2
<1>2. ToCount(c) <=> s \in Commands /\ at[s] = "count"
  BY <1>1 DEF ToCount
<1>3. ToAnswer(c) <=> s \in Commands /\ at[s] = "reply"
  BY <1>1 DEF ToAnswer
<1>4. ToAnswerError(c) <=> s \in Commands /\ at[s] = "reply" /\ outcome[s] = "error"
  BY <1>1 DEF ToAnswerError
<1> QED BY <1>2, <1>3, <1>4

LEMMA OwnNextPlace ==
    ASSUME StateOK, LineInv, NEW s \in Subjects, HandlerStep(s), NEW c, c = current[s]
    PROVE  /\ ToCount(c)' <=> s \in Commands /\ current'[s] = c /\ at'[s] = "count"
           /\ ToAnswer(c)' <=> s \in Commands /\ current'[s] = c /\ at'[s] = "reply"
           /\ ToAnswerError(c)' <=> /\ s \in Commands /\ current'[s] = c
                                    /\ at'[s] = "reply" /\ outcome'[s] = "error"
<1>1. ASSUME NEW t \in Commands PROVE current'[t] = c => t = s
  <2>1. \A u \in Subjects : u # s => current'[u] = current[u] /\ current[u] # current[s]
    BY OneHandler
  <2>2. t \in Subjects
    BY SubjectsListed
  <2> QED BY <2>1, <2>2
<1>2. ToCount(c)' <=> s \in Commands /\ current'[s] = c /\ at'[s] = "count"
  BY <1>1 DEF ToCount
<1>3. ToAnswer(c)' <=> s \in Commands /\ current'[s] = c /\ at'[s] = "reply"
  BY <1>1 DEF ToAnswer
<1>4. ToAnswerError(c)' <=> /\ s \in Commands /\ current'[s] = c
                            /\ at'[s] = "reply" /\ outcome'[s] = "error"
  BY <1>1 DEF ToAnswerError
<1> QED BY <1>2, <1>3, <1>4

LEMMA CountedFinite == IsFiniteSet(Processed) /\ IsFiniteSet(Errored)
BY FS_Subset DEF Processed, Errored

\* A step after which nobody else counts, and the counters stay.
LEMMA StillCounted ==
    ASSUME StateOK, LineInv, CountInv, NEW s \in Subjects, HandlerStep(s),
           NEW c \in Requests, c = current[s],
           c \in Processed' <=> c \in Processed, c \in Errored' <=> c \in Errored,
           UNCHANGED stats
    PROVE  CountInv'
<1>1. \A r \in Requests : (r \in Processed' <=> r \in Processed)
                          /\ (r \in Errored' <=> r \in Errored)
  BY OthersCounted
<1>2. Processed' = Processed
  BY <1>1 DEF Processed
<1>3. Errored' = Errored
  BY <1>1 DEF Errored
<1> QED BY <1>2, <1>3 DEF CountInv

\* A step that counts the request it works on.
LEMMA OneMoreProcessed ==
    ASSUME StateOK, LineInv, CountInv, NEW s \in Subjects, HandlerStep(s),
           NEW c \in Requests, c = current[s], c \notin Processed, c \in Processed'
    PROVE  Cardinality(Processed') = stats.processed + 1
<1>1. \A r \in Requests : r # c => (r \in Processed' <=> r \in Processed)
  BY OthersCounted
<1>2. Processed' = Processed \cup {c}
  BY <1>1 DEF Processed
<1>3. Cardinality(Processed \cup {c}) = Cardinality(Processed) + 1
  <2>1. IsFiniteSet(Processed) /\ c \notin Processed
    BY CountedFinite
  <2> QED BY <2>1, FS_AddElement, Zenon
<1>4. Cardinality(Processed) = stats.processed
  BY DEF CountInv
<1> QED BY <1>2, <1>3, <1>4, Zenon

LEMMA OneMoreErrored ==
    ASSUME StateOK, LineInv, CountInv, NEW s \in Subjects, HandlerStep(s),
           NEW c \in Requests, c = current[s], c \notin Errored, c \in Errored'
    PROVE  Cardinality(Errored') = stats.errored + 1
<1>1. \A r \in Requests : r # c => (r \in Errored' <=> r \in Errored)
  BY OthersCounted
<1>2. Errored' = Errored \cup {c}
  BY <1>1 DEF Errored
<1>3. Cardinality(Errored \cup {c}) = Cardinality(Errored) + 1
  <2>1. IsFiniteSet(Errored) /\ c \notin Errored
    BY CountedFinite
  <2> QED BY <2>1, FS_AddElement, Zenon
<1>4. Cardinality(Errored) = stats.errored
  BY DEF CountInv
<1> QED BY <1>2, <1>3, <1>4, Zenon

LEMMA AsManyErrored ==
    ASSUME StateOK, LineInv, CountInv, NEW s \in Subjects, HandlerStep(s),
           NEW c \in Requests, c = current[s], c \in Errored' <=> c \in Errored
    PROVE  Cardinality(Errored') = stats.errored
<1>1. \A r \in Requests : r \in Errored' <=> r \in Errored
  BY OthersCounted
<1>2. Errored' = Errored
  BY <1>1 DEF Errored
<1> QED BY <1>2 DEF CountInv

\* What the reply to the request at work says.
LEMMA OwnReply ==
    ASSUME StateOK, DataOK, LineInv, NEW s \in Subjects, NEW c \in Requests, c = current[s],
           at[s] # "count"
    PROVE  /\ reply[c].calls = 0
           /\ \A status, shown : Respond(s, status, shown) =>
                 reply'[c].calls > 0 /\ reply'[c].status = status
<1>1. reply[c].calls = 0
  BY RequestsAssumption DEF LineInv
<1>2. ASSUME NEW status, NEW shown, Respond(s, status, shown)
      PROVE  reply'[c].calls > 0 /\ reply'[c].status = status
  <2>1. reply'[c].calls = reply[c].calls + 1 /\ reply'[c].status = status
    BY <1>2, RespondSays
  <2> QED BY <1>1, <2>1
<1> QED BY <1>1, <1>2

\* Counters and answers move together, a handler's step at a time.
LEMMA CommandCount ==
    ASSUME StateOK, DataOK, LineInv, OutcomeInv, CountInv,
           NEW s \in Commands, CommandStep(s) \/ Execute(s)
    PROVE  CountInv'
<1>1. s \in Subjects /\ HandlerStep(s)
  BY HandlersStep, SubjectsListed
<1>2. PICK c \in Requests : c = current[s]
  BY <1>1 DEF HandlerStep
<1>3. /\ ToCount(c) <=> at[s] = "count"
      /\ ToAnswer(c) <=> at[s] = "reply"
      /\ ToAnswerError(c) <=> at[s] = "reply" /\ outcome[s] = "error"
  BY <1>1, <1>2, OwnPlace
<1>4. /\ ToCount(c)' <=> current'[s] = c /\ at'[s] = "count"
      /\ ToAnswer(c)' <=> current'[s] = c /\ at'[s] = "reply"
      /\ ToAnswerError(c)' <=> current'[s] = c /\ at'[s] = "reply" /\ outcome'[s] = "error"
  BY <1>1, <1>2, OwnNextPlace
<1>5. /\ c \in Processed <=> \/ Answered(c, {"success", "error", "rejected"}) /\ ~ToCount(c)
                             \/ ToAnswer(c)
      /\ c \in Errored <=> \/ Answered(c, {"error", "rejected"}) /\ ~ToCount(c)
                           \/ ToAnswerError(c)
  BY DEF Processed, Errored
<1>6. /\ c \in Processed' <=> \/ Answered(c, {"success", "error", "rejected"})' /\ ~ToCount(c)'
                              \/ ToAnswer(c)'
      /\ c \in Errored' <=> \/ Answered(c, {"error", "rejected"})' /\ ~ToCount(c)'
                            \/ ToAnswerError(c)'
  BY DEF Processed, Errored
<1>7. at[s] # "count" => reply[c].calls = 0
  BY <1>1, <1>2, OwnReply
<1>8. CASE Parse(s) \/ Execute(s)
  <2>1. at[s] \in {"parse", "execute"} /\ at'[s] \in {"execute", "recover", "record"}
    BY <1>1, <1>8 DEF Parse, Execute, Goto, StateOK
  <2>2. UNCHANGED <<stats, reply>>
    BY <1>8 DEF Parse, Execute
  <2>3. c \in Processed' <=> c \in Processed
    BY <1>3, <1>4, <1>5, <1>6, <1>7, <2>1, <2>2 DEF Answered
  <2>4. c \in Errored' <=> c \in Errored
    BY <1>3, <1>4, <1>5, <1>6, <1>7, <2>1, <2>2 DEF Answered
  <2> QED BY <1>1, <1>2, <2>2, <2>3, <2>4, StillCounted
<1>9. CASE Reject(s)
  <2>1. at[s] = "parse" /\ at'[s] = "count" /\ current'[s] = c /\ UNCHANGED stats
    BY <1>1, <1>2, <1>9 DEF Reject, Goto, StateOK
  <2>2. c \notin Processed /\ c \notin Errored
    BY <1>3, <1>5, <1>7, <2>1 DEF Answered
  <2>3. c \notin Processed' /\ c \notin Errored'
    BY <1>4, <1>6, <2>1
  <2> QED BY <1>1, <1>2, <2>1, <2>2, <2>3, StillCounted
<1>10. CASE CountRejected(s)
  <2>1. at[s] = "count" /\ at'[s] = "idle" /\ UNCHANGED reply
    BY <1>1, <1>10 DEF CountRejected, Return, StateOK
  <2>2. reply[c].calls > 0 /\ reply[c].status = "rejected"
    BY <1>2, <2>1 DEF OutcomeInv
  <2>3. c \notin Processed /\ c \notin Errored
    BY <1>3, <1>5, <2>1
  <2>4. c \in Processed' /\ c \in Errored'
    BY <1>4, <1>6, <2>1, <2>2 DEF Answered
  <2>5. /\ Cardinality(Processed') = stats.processed + 1
        /\ Cardinality(Errored') = stats.errored + 1
    BY <1>1, <1>2, <2>3, <2>4, OneMoreProcessed, OneMoreErrored
  <2> QED BY <1>10, <2>5 DEF CountRejected, CountError, CountInv
<1>11. CASE Record(s)
  <2>1. at[s] = "record" /\ at'[s] = "reply" /\ outcome'[s] = outcome[s] /\ current'[s] = c
    BY <1>1, <1>2, <1>11 DEF Record, Goto, StateOK
  <2>2. c \notin Processed /\ c \notin Errored
    BY <1>3, <1>5, <1>7, <2>1 DEF Answered
  <2>3. c \in Processed' /\ (c \in Errored' <=> outcome[s] = "error")
    <3>1. UNCHANGED reply
      BY <1>11 DEF Record
    <3> QED BY <1>4, <1>6, <1>7, <2>1, <3>1 DEF Answered
  <2>4. Cardinality(Processed') = stats.processed + 1
    BY <1>1, <1>2, <2>2, <2>3, OneMoreProcessed
  <2>5. CASE outcome[s] = "error"
    <3>1. Cardinality(Errored') = stats.errored + 1
      BY <1>1, <1>2, <2>2, <2>3, <2>5, OneMoreErrored
    <3> QED BY <1>11, <2>4, <2>5, <3>1 DEF Record, CountError, CountInv
  <2>6. CASE outcome[s] # "error"
    <3>1. Cardinality(Errored') = stats.errored
      BY <1>1, <1>2, <2>2, <2>3, <2>6, AsManyErrored
    <3> QED BY <1>11, <2>4, <2>6, <3>1 DEF Record, CountSuccess, CountInv, DataOK
  <2> QED BY <2>5, <2>6
<1>12. CASE Recover(s)
  <2>1. at[s] = "recover" /\ at'[s] = "idle" /\ UNCHANGED stats
    BY <1>1, <1>12 DEF Recover, Return, StateOK
  <2>2. reply'[c].status = "panic"
    BY <1>1, <1>2, <1>12, <2>1, OwnReply DEF Recover
  <2>3. c \notin Processed /\ c \notin Errored
    BY <1>3, <1>5, <1>7, <2>1 DEF Answered
  <2>4. c \notin Processed' /\ c \notin Errored'
    BY <1>4, <1>6, <2>1, <2>2 DEF Answered
  <2> QED BY <1>1, <1>2, <2>1, <2>3, <2>4, StillCounted
<1>13. CASE Reply(s)
  <2>1. at[s] = "reply" /\ at'[s] = "idle" /\ UNCHANGED stats
    BY <1>1, <1>13 DEF Reply, Return, StateOK
  <2>2. reply'[c].calls > 0 /\ reply'[c].status = outcome[s]
    BY <1>1, <1>2, <1>13, <2>1, OwnReply DEF Reply
  <2>3. outcome[s] \in {"success", "error"}
    BY <2>1 DEF OutcomeInv
  <2>4. c \in Processed /\ c \in Processed'
    BY <1>3, <1>4, <1>5, <1>6, <2>1, <2>2, <2>3 DEF Answered
  <2>5. c \in Errored <=> c \in Errored'
    BY <1>3, <1>4, <1>5, <1>6, <1>7, <2>1, <2>2, <2>3 DEF Answered
  <2> QED BY <1>1, <1>2, <2>1, <2>4, <2>5, StillCounted
<1> QED BY <1>8, <1>9, <1>10, <1>11, <1>12, <1>13 DEF CommandStep

LEMMA PromptCount ==
    ASSUME StateOK, DataOK, LineInv, CountInv, NEW s \in {"ping", "health"}, HandlerStep(s),
           at[s] # "count", UNCHANGED stats,
           \/ UNCHANGED reply
           \/ Respond("ping", "pong", NoSnap) /\ s = "ping"
           \/ Respond("health", HealthStatus(snap), snap) /\ s = "health"
    PROVE  CountInv'
<1>1. s \in Subjects /\ s \notin Commands
  BY SubjectsListed
<1>2. PICK c \in Requests : c = current[s]
  BY DEF HandlerStep
<1>3. ~ToCount(c) /\ ~ToAnswer(c) /\ ~ToAnswerError(c)
  BY <1>1, <1>2, OwnPlace
<1>4. ~ToCount(c)' /\ ~ToAnswer(c)' /\ ~ToAnswerError(c)'
  BY <1>1, <1>2, OwnNextPlace
<1>5. reply[c].calls = 0
  BY <1>1, <1>2, OwnReply
<1>6. reply'[c] = reply[c] \/ reply'[c].status \in {"pong", "healthy", "degraded", "unhealthy"}
  BY <1>1, <1>2, OwnReply DEF HealthStatus
<1>7. c \notin Processed /\ c \notin Errored
  BY <1>3, <1>5 DEF Processed, Errored, Answered
<1>8. c \notin Processed'
  BY <1>4, <1>5, <1>6 DEF Processed, Answered
<1>9. c \notin Errored'
  BY <1>4, <1>5, <1>6 DEF Errored, Answered
<1> QED BY <1>1, <1>2, <1>7, <1>8, <1>9, StillCounted

LEMMA CountStep == TypeOK /\ LineInv /\ OutcomeInv /\ CountInv /\ [Next]_vars => CountInv'
<1> SUFFICES ASSUME StateOK, DataOK, LineInv, OutcomeInv, CountInv, [Next]_vars PROVE CountInv'
  BY TypeParts
<1>1. CASE UNCHANGED <<current, at, outcome, reply, stats>>
  <2>1. Processed' = Processed /\ Errored' = Errored
    BY <1>1 DEF Processed, Errored, Answered, ToCount, ToAnswer, ToAnswerError
  <2> QED BY <1>1, <2>1 DEF CountInv
<1>2. ASSUME NEW r \in Requests, Send(r) PROVE CountInv'
  BY <1>1, <1>2 DEF Send, handlers
<1>3. CASE Disconnect \/ Reconnect \/ RecordMetrics \/ AllHandled \/ UNCHANGED vars
  BY <1>1, <1>3 DEF Disconnect, Reconnect, RecordMetrics, AllHandled, vars, handlers
<1>4. ASSUME NEW s \in Subjects, Deliver(s) PROVE CountInv'
  <2>1. FirstStep(s) \in {"pong", "agent", "parse"}
    BY DEF FirstStep
  <2>2. UNCHANGED <<outcome, reply, stats>> /\ at[s] = "idle"
    BY <1>4 DEF Deliver, Free
  <2>3. /\ at'[s] \in {"pong", "agent", "parse"}
        /\ \A t \in Subjects : t # s => at'[t] = at[t] /\ current'[t] = current[t]
    BY <1>4, <2>1 DEF Deliver, StateOK
  <2>4. \A t \in Commands : \A r : \A place \in {"count", "reply"} :
           current'[t] = r /\ at'[t] = place <=> current[t] = r /\ at[t] = place
    BY <2>2, <2>3, SubjectsListed
  <2>5. \A r : ToCount(r)' <=> ToCount(r)
    BY <2>4 DEF ToCount
  <2>6. \A r : ToAnswer(r)' <=> ToAnswer(r)
    BY <2>4 DEF ToAnswer
  <2>7. \A r : ToAnswerError(r)' <=> ToAnswerError(r)
    BY <2>2, <2>4 DEF ToAnswerError
  <2>8. Processed' = Processed
    BY <2>2, <2>5, <2>6 DEF Processed, Answered
  <2>9. Errored' = Errored
    BY <2>2, <2>5, <2>7 DEF Errored, Answered
  <2> QED BY <2>2, <2>8, <2>9 DEF CountInv
<1>5. CASE Pong
  BY <1>5, PromptCount, HandlersStep DEF Pong
<1>6. CASE HealthStep
  <2>1. CASE ReplyHealth
    BY <1>6, <2>1, PromptCount, HandlersStep DEF ReplyHealth
  <2>2. CASE ReadAgent \/ ReadTasks \/ ReadReconnects \/ ReadConnected
    BY <1>6, <2>2, PromptCount, HandlersStep
       DEF ReadAgent, ReadTasks, ReadReconnects, ReadConnected
  <2> QED BY <1>6, <2>1, <2>2 DEF HealthStep
<1> QED BY <1>2, <1>3, <1>4, <1>5, <1>6, CommandCount DEF Next

-----------------------------------------------------------------------------
(* What a health check counts.                                             *)

\* Every command a control plane has the answer of is counted.
LEMMA AnsweredAreCounted ==
    ASSUME StateOK, DataOK, LineInv, OutcomeInv, CountInv
    PROVE  Cardinality(AnsweredCommands) <= stats.processed
<1>1. \A r \in AnsweredCommands : ~ToCount(r)
  BY DEF AnsweredCommands, ToCount, OutcomeInv
<1>3. \A r \in AnsweredCommands : reply[r].calls > 0
  BY DEF AnsweredCommands, LineInv, DataOK
<1>2. AnsweredCommands \subseteq Processed
  BY <1>1, <1>3 DEF AnsweredCommands, Processed, Answered
<1> QED BY <1>2, CountedFinite, FS_Subset DEF CountInv

\* The counters only grow.
LEMMA Monotone == DataOK /\ [Next]_vars => stats'.processed >= stats.processed
<1> SUFFICES ASSUME DataOK, [Next]_vars PROVE stats'.processed >= stats.processed
  OBVIOUS
<1>1. stats.processed \in Nat
  BY DEF DataOK
<1>2. CASE UNCHANGED stats
  BY <1>1, <1>2
<1>3. CASE CountError \/ CountSuccess
  BY <1>1, <1>3 DEF CountError, CountSuccess, DataOK
<1>4. ASSUME NEW s \in Commands, CommandStep(s) \/ Execute(s)
      PROVE  UNCHANGED stats \/ CountError \/ CountSuccess
  BY <1>4 DEF CommandStep, Execute, Parse, Reject, CountRejected, Recover, Record, Reply
<1>5. CASE Pong \/ HealthStep
  BY <1>2, <1>5 DEF Pong, HealthStep, ReadAgent, ReadTasks, ReadReconnects, ReadConnected,
                    ReplyHealth
<1>6. CASE Disconnect \/ Reconnect \/ RecordMetrics \/ AllHandled \/ UNCHANGED vars
  BY <1>2, <1>6 DEF Disconnect, Reconnect, RecordMetrics, AllHandled, vars
<1>7. ASSUME NEW r \in Requests, Send(r) PROVE UNCHANGED stats
  BY <1>7 DEF Send
<1>8. ASSUME NEW s \in Subjects, Deliver(s) PROVE UNCHANGED stats
  BY <1>8 DEF Deliver
<1> QED BY <1>2, <1>3, <1>4, <1>5, <1>6, <1>7, <1>8 DEF Next

\* The health check at work keeps what it has read and what was known.
Read == at["health"] \notin {"idle", "agent"} => snap.processed >= known[current["health"]]

LEMMA ReadStep ==
    TypeOK /\ LineInv /\ KnownInv /\ [Next]_vars => Read'
<1> SUFFICES ASSUME StateOK, DataOK, LineInv, KnownInv, [Next]_vars PROVE Read'
  BY TypeParts
<1> USE SubjectsListed
<1>1. Read
  BY DEF KnownInv, Read
<1>2. CASE UNCHANGED <<at["health"], current["health"], snap, known>>
  BY <1>1, <1>2 DEF Read
<1>3. CASE at'["health"] \in {"idle", "agent"}
  BY <1>3 DEF Read
<1>4. ASSUME NEW r \in Requests, Send(r) PROVE Read'
  <2>1. UNCHANGED <<at, current, snap>>
    BY <1>4 DEF Send, handlers
  <2>2. at["health"] # "idle" => known'[current["health"]] = known[current["health"]]
    BY <1>4 DEF Send, StateOK, DataOK, LineInv
  <2> QED BY <1>1, <2>1, <2>2 DEF Read
<1>5. ASSUME NEW s \in Subjects, Deliver(s) PROVE Read'
  <2>1. CASE s = "health"
    <3>1. at'["health"] = "agent"
      BY <1>5, <2>1 DEF Deliver, FirstStep, StateOK
    <3> QED BY <1>3, <3>1
  <2>2. CASE s # "health"
    BY <1>2, <1>5, <2>2 DEF Deliver, StateOK
  <2> QED BY <2>1, <2>2
<1>6. ASSUME NEW s \in Commands, CommandStep(s) \/ Execute(s) PROVE Read'
  <2>1. HandlerStep(s) /\ s # "health"
    BY <1>6, HandlersStep
  <2>2. UNCHANGED <<at["health"], current["health"]>>
    BY <2>1, OneHandler
       DEF HandlerStep
  <2>3. UNCHANGED <<snap, known>>
    BY <1>6, <2>1 DEF CommandStep, Execute, Parse, Reject, CountRejected, Recover, Record, Reply,
                      Return
  <2> QED BY <1>2, <2>2, <2>3
<1>7. CASE Pong
  BY <1>2, <1>7 DEF Pong, Return, StateOK
<1>8. CASE HealthStep
  <2>1. CASE ReplyHealth
    <3>1. at'["health"] = "idle"
      BY <2>1 DEF ReplyHealth, Return, StateOK
    <3> QED BY <1>3, <3>1
  <2>2. CASE ReadAgent
    <3>1. current["health"] \in sent /\ UNCHANGED <<current, known>>
      BY <2>2 DEF ReadAgent, LineInv, StateOK
    <3>2. snap'.processed = stats.processed
      BY <2>2 DEF ReadAgent, DataOK, Snap
    <3> QED BY <3>1, <3>2 DEF Read, KnownInv
  <2>3. CASE ReadTasks \/ ReadReconnects \/ ReadConnected
    <3>1. at["health"] \notin {"idle", "agent"} /\ UNCHANGED <<current, known>>
      BY <2>3 DEF ReadTasks, ReadReconnects, ReadConnected
    <3>2. snap'.processed = snap.processed
      BY <2>3 DEF ReadTasks, ReadReconnects, ReadConnected, DataOK, Snap
    <3> QED BY <1>1, <3>1, <3>2 DEF Read
  <2> QED BY <1>8, <2>1, <2>2, <2>3 DEF HealthStep
<1>9. CASE Disconnect \/ Reconnect \/ RecordMetrics \/ AllHandled \/ UNCHANGED vars
  BY <1>2, <1>9 DEF Disconnect, Reconnect, RecordMetrics, AllHandled, vars, handlers
<1> QED BY <1>4, <1>5, <1>6, <1>7, <1>8, <1>9 DEF Next

LEMMA KnownStep == IInv /\ [Next]_vars => KnownInv'
<1> SUFFICES ASSUME IInv, [Next]_vars PROVE KnownInv'
  OBVIOUS
<1>1. StateOK /\ DataOK /\ KnownInv
  BY TypeParts DEF IInv
<1>2. Read'
  BY ReadStep DEF IInv
<1>3. stats.processed \in Nat /\ stats'.processed \in Nat /\ stats'.processed >= stats.processed
  BY <1>1, Monotone, DataStep DEF DataOK
<1>4. CASE UNCHANGED <<sent, known>>
  <2>1. \A r \in sent' : known'[r] <= stats'.processed
    BY <1>1, <1>3, <1>4 DEF KnownInv, DataOK, StateOK
  <2>2. \A r \in Requests \ sent' : known'[r] = 0
    BY <1>1, <1>4 DEF KnownInv
  <2> QED BY <1>2, <2>1, <2>2 DEF KnownInv, Read
<1>5. ASSUME NEW r \in Requests, Send(r) PROVE KnownInv'
  <2>1. /\ \A q \in Requests : q # r => known'[q] = known[q]
        /\ known'[r] \in {0, Cardinality(AnsweredCommands)}
        /\ stats' = stats /\ sent' = sent \cup {r} /\ sent \subseteq Requests
    BY <1>1, <1>5 DEF Send, DataOK, StateOK, KnownInv
  <2>2. Cardinality(AnsweredCommands) <= stats.processed
    BY <1>1, AnsweredAreCounted DEF IInv
  <2>3. \A q \in sent' : known'[q] <= stats'.processed
    BY <1>1, <1>3, <2>1, <2>2 DEF KnownInv
  <2>4. \A q \in Requests \ sent' : known'[q] = 0
    BY <1>1, <2>1 DEF KnownInv
  <2> QED BY <1>2, <2>3, <2>4 DEF KnownInv, Read
<1>6. ASSUME NEW s \in Subjects, Deliver(s) PROVE KnownInv'
  BY <1>4, <1>6 DEF Deliver
<1>7. ASSUME NEW s \in Commands, CommandStep(s) \/ Execute(s) PROVE UNCHANGED <<sent, known>>
  BY <1>7 DEF CommandStep, Execute, Parse, Reject, CountRejected, Recover, Record, Reply
<1>8. ASSUME Pong \/ HealthStep PROVE UNCHANGED <<sent, known>>
  BY <1>8 DEF Pong, HealthStep, ReadAgent, ReadTasks, ReadReconnects, ReadConnected, ReplyHealth
<1>9. ASSUME Disconnect \/ Reconnect \/ RecordMetrics \/ AllHandled \/ UNCHANGED vars
      PROVE  UNCHANGED <<sent, known>>
  BY <1>9 DEF Disconnect, Reconnect, RecordMetrics, AllHandled, vars
<1> QED BY <1>4, <1>5, <1>6, <1>7, <1>8, <1>9 DEF Next

LEMMA HealthStepCovers == IInv /\ [Next]_vars => HealthCoversAnswered'
<1> SUFFICES ASSUME IInv, [Next]_vars, NEW r \in Requests, Subject[r] = "health",
                    reply'[r].calls > 0
             PROVE  reply'[r].snap.processed >= known'[r]
  BY DEF HealthCoversAnswered
<1> USE SubjectsListed
<1>1. StateOK /\ DataOK /\ LineInv /\ KnownInv
  BY TypeParts DEF IInv
<1>2. CASE reply'[r] = reply[r] /\ known'[r] = known[r]
  BY <1>2 DEF IInv, HealthCoversAnswered
<1>3. ASSUME NEW q \in Requests, Send(q) PROVE reply'[r] = reply[r] /\ known'[r] = known[r]
  <2>1. reply' = reply /\ r \in sent /\ r # q
    BY <1>1, <1>3 DEF Send, LineInv
  <2> QED BY <1>1, <1>3, <2>1 DEF Send, DataOK
<1>4. ASSUME NEW s \in Subjects, Deliver(s) PROVE reply'[r] = reply[r] /\ known'[r] = known[r]
  BY <1>4 DEF Deliver
<1>5. ASSUME NEW s \in Subjects, s # "health", HandlerStep(s), UNCHANGED known
      PROVE  reply'[r] = reply[r] /\ known'[r] = known[r]
  <2>1. r # current[s]
    BY <1>1, <1>5, RequestsAssumption DEF HandlerStep, LineInv
  <2> QED BY <1>5, <2>1 DEF HandlerStep
<1>6. ASSUME NEW s \in Commands, CommandStep(s) \/ Execute(s)
      PROVE  reply'[r] = reply[r] /\ known'[r] = known[r]
  <2>1. HandlerStep(s) /\ s # "health"
    BY <1>1, <1>6, HandlersStep
  <2>2. UNCHANGED known
    BY <1>6 DEF CommandStep, Execute, Parse, Reject, CountRejected, Recover, Record, Reply
  <2> QED BY <1>5, <2>1, <2>2
<1>7. CASE Pong
  <2>1. HandlerStep("ping") /\ UNCHANGED known
    BY <1>1, <1>7, HandlersStep DEF Pong
  <2> QED BY <1>2, <1>5, <2>1
<1>8. CASE HealthStep
  <2>1. CASE ReplyHealth
    <3>1. CASE r = current["health"]
      <4>1. snap.processed >= known[r]
        BY <1>1, <2>1, <3>1 DEF ReplyHealth, KnownInv
      <4>2. reply'[r].snap = snap
        BY <1>1, <2>1, <3>1, RespondSays DEF ReplyHealth
      <4>3. known' = known
        BY <2>1 DEF ReplyHealth
      <4> QED BY <4>1, <4>2, <4>3
    <3>2. CASE r # current["health"]
      <4>1. reply'[r] = reply[r] /\ known' = known
        <5>1. current["health"] \in Requests
          BY <1>1, <2>1, HasRequest DEF ReplyHealth
        <5> QED BY <1>1, <2>1, <3>2, <5>1, RespondSays DEF ReplyHealth
      <4> QED BY <1>2, <4>1
    <3> QED BY <3>1, <3>2
  <2>2. CASE ReadAgent \/ ReadTasks \/ ReadReconnects \/ ReadConnected
    BY <1>2, <2>2 DEF ReadAgent, ReadTasks, ReadReconnects, ReadConnected
  <2> QED BY <1>8, <2>1, <2>2 DEF HealthStep
<1>9. CASE Disconnect \/ Reconnect \/ RecordMetrics \/ AllHandled \/ UNCHANGED vars
  BY <1>2, <1>9 DEF Disconnect, Reconnect, RecordMetrics, AllHandled, vars
<1> QED BY <1>2, <1>3, <1>4, <1>6, <1>7, <1>8, <1>9 DEF Next

LEMMA IInvStep == IInv /\ [Next]_vars => IInv'
<1> SUFFICES ASSUME IInv, [Next]_vars PROVE IInv'
  OBVIOUS
<1>1. QueueOK' /\ StateOK' /\ DataOK'
  <2>1. QueueOK /\ StateOK /\ DataOK
    BY TypeParts DEF IInv
  <2> QED BY <2>1, QueueStep, StateStep, DataStep
<1>2. TypeOK'
  BY <1>1 DEF TypeOK, QueueOK, StateOK, DataOK
<1>3. LineInv' /\ OutcomeInv' /\ CountInv'
  BY LineStep, OutcomeStep, CountStep DEF IInv
<1> QED BY <1>2, <1>3, KnownStep, HealthStepCovers DEF IInv

LEMMA Always == Spec => []IInv
BY IInvInit, IInvStep, PTL DEF Spec

-----------------------------------------------------------------------------
(* The theorems.                                                           *)

\* Every variable keeps its type, and a handler at work has its request.
THEOREM TypeCorrect == Spec => []TypeOK
<1>1. IInv => TypeOK
  BY DEF IInv
<1> QED BY <1>1, Always, PTL

\* A reply that was made arrived or was refused.
RepliedTo(statuses) == {r \in Requests : Answered(r, statuses)}

LEMMA ReceivedOrRefused ==
    ASSUME DataOK, LineInv, NEW statuses
    PROVE  Cardinality(RepliedTo(statuses)) = Received(statuses) + Refused(statuses)
<1> DEFINE R == {r \in Requests : reply[r].n > 0 /\ reply[r].status \in statuses}
           F == {r \in Requests : /\ reply[r].calls > 0 /\ reply[r].n = 0
                                  /\ reply[r].status \in statuses}
<1>1. \A r \in Requests : reply[r].calls > 0 <=> reply[r].n > 0 \/ (reply[r].calls > 0 /\ reply[r].n = 0)
  BY DEF DataOK, LineInv
<1>2. RepliedTo(statuses) = R \cup F
  BY <1>1 DEF RepliedTo, Answered
<1>3. R \cap F = {}
  OBVIOUS
<1>4. IsFiniteSet(R) /\ IsFiniteSet(F)
  BY FS_Subset
<1> HIDE DEF R, F
<1>5. Cardinality(R \cup F) = Cardinality(R) + Cardinality(F)
  <2>1. Cardinality(R \cup F) = Cardinality(R) + Cardinality(F) - Cardinality(R \cap F)
    BY <1>4, FS_Union
  <2>2. Cardinality(R \cap F) = 0
    BY <1>3, FS_EmptySet
  <2>3. Cardinality(R) \in Nat /\ Cardinality(F) \in Nat
    BY <1>4, FS_CardinalityType
  <2> QED BY <2>1, <2>2, <2>3
<1> QED BY <1>2, <1>5 DEF Received, Refused, R, F

\* Whenever no command is at work, the health report's counters stand for the
\* answers that arrived and the replies that were refused (RecordCommandSuccess, RecordCommandError and the handlers).
THEOREM StatsAgree == Spec => []StatsMatchAnswers
<1>1. IInv => StatsMatchAnswers
  <2> SUFFICES ASSUME IInv, \A s \in Commands : at[s] = "idle" PROVE StatsMatchAnswers
    BY DEF StatsMatchAnswers
  <2>1. \A r : ~ToCount(r) /\ ~ToAnswer(r) /\ ~ToAnswerError(r)
    BY DEF ToCount, ToAnswer, ToAnswerError
  <2>2. Processed = RepliedTo({"success", "error", "rejected"})
    BY <2>1 DEF Processed, Answered, RepliedTo
  <2>3. Errored = RepliedTo({"error", "rejected"})
    BY <2>1 DEF Errored, Answered, RepliedTo
  <2>4. DataOK /\ LineInv
    BY TypeParts DEF IInv
  <2>5. \A statuses : Cardinality(RepliedTo(statuses)) = Received(statuses) + Refused(statuses)
    BY <2>4, ReceivedOrRefused
  <2> QED BY <2>2, <2>3, <2>5 DEF IInv, CountInv, StatsMatchAnswers
<1> QED BY <1>1, Always, PTL

\* A health check counts every command that was answered before it was sent:
\* each command is recorded before its reply.
THEOREM HealthIsCurrent == Spec => []HealthCoversAnswered
<1>1. IInv => HealthCoversAnswered
  BY DEF IInv
<1> QED BY <1>1, Always, PTL

-----------------------------------------------------------------------------
(* The handlers implement RequestReply: the line of a subject is the       *)
(* request at work while it is unanswered, and the queue behind it.        *)
RRLine == [s \in Subjects |-> Unanswered(s) \o queue[s]]
RRAnswers == [r \in Requests |-> reply[r].n]
RRRefused == [r \in Requests |-> reply[r].calls - reply[r].n]

LEMMA HeadAndTail ==
    ASSUME NEW S, NEW q \in Seq(S), q # <<>>
    PROVE  <<Head(q)>> \o Tail(q) = q
BY SeqEqual, ConcatProperties, HeadTailProperties

LEMMA OneThenRest ==
    ASSUME NEW S, NEW q \in Seq(S), NEW c \in S
    PROVE  <<c>> \o q # <<>> /\ Head(<<c>> \o q) = c
<1>1. <<c>> \in Seq(S) /\ Len(<<c>>) = 1
  OBVIOUS
<1>2. Len(<<c>> \o q) = 1 + Len(q) /\ (<<c>> \o q)[1] = c /\ Len(q) \in Nat
  BY <1>1, ConcatProperties
<1> QED BY <1>1, <1>2

LEMMA RestAfterOne ==
    ASSUME NEW S, NEW q \in Seq(S), NEW c \in S
    PROVE  Tail(<<c>> \o q) = q
<1>1. <<c>> \in Seq(S) /\ Len(<<c>>) = 1
  OBVIOUS
<1>2. /\ <<c>> \o q \in Seq(S) /\ Len(<<c>> \o q) = 1 + Len(q) /\ Len(q) \in Nat
      /\ \A i \in 1..Len(q) : (<<c>> \o q)[i + 1] = q[i]
  BY <1>1, ConcatProperties
<1>3. <<c>> \o q # <<>>
  BY OneThenRest
<1>4. /\ Tail(<<c>> \o q) \in Seq(S) /\ Len(Tail(<<c>> \o q)) = Len(q)
      /\ \A i \in 1..Len(q) : Tail(<<c>> \o q)[i] = (<<c>> \o q)[i + 1]
  BY <1>2, <1>3, HeadTailProperties
<1> QED BY <1>2, <1>4, SeqEqual

LEMMA OneMoreBehind ==
    ASSUME NEW S, NEW a \in Seq(S), NEW q \in Seq(S), NEW r \in S
    PROVE  a \o Append(q, r) = Append(a \o q, r)
<1>1. Append(q, r) \in Seq(S) /\ a \o q \in Seq(S)
  BY ConcatProperties
<1>2. Append(q, r) = q \o <<r>> /\ Append(a \o q, r) = (a \o q) \o <<r>> /\ <<r>> \in Seq(S)
  BY <1>1, AppendIsConcat
<1> QED BY <1>2, ConcatAssociative

LEMMA UnansweredTyped ==
    ASSUME StateOK PROVE \A s \in Subjects : Unanswered(s) \in Seq(Requests)
BY DEF Unanswered, StateOK

\* Nothing a control plane sees changes.
LEMMA Stutters ==
    ASSUME UNCHANGED sent,
           \A s \in Subjects : Unanswered(s)' \o queue'[s] = Unanswered(s) \o queue[s],
           UNCHANGED reply
    PROVE  UNCHANGED RR!vars
BY DEF RR!vars

\* The lines of the other subjects stay as they are.
LEMMA OtherLines ==
    ASSUME StateOK, LineInv, NEW s \in Subjects, HandlerStep(s)
    PROVE  \A t \in Subjects : t # s => Unanswered(t)' = Unanswered(t)
<1> SUFFICES ASSUME NEW t \in Subjects, t # s PROVE Unanswered(t)' = Unanswered(t)
  OBVIOUS
<1>1. \A u \in Subjects : u # s => /\ current'[u] = current[u]
                                   /\ current[u] # current[s]
                                   /\ at[u] # "idle" => current[u] \in Requests
  BY OneHandler
<1>2. current'[t] = current[t]
  BY <1>1
<1>3. current[t] # None => reply'[current[t]] = reply[current[t]]
  BY <1>1 DEF HandlerStep, StateOK
<1> QED BY <1>2, <1>3 DEF Unanswered

\* A step of a handler that does not answer.
LEMMA SilentStep ==
    ASSUME StateOK, LineInv, NEW s \in Subjects, HandlerStep(s), reply' = reply,
           current'[s] # current[s] => current'[s] = None /\ reply[current[s]].calls # 0
    PROVE  UNCHANGED RR!vars
<1>1. Unanswered(s)' = Unanswered(s)
  BY DEF Unanswered
<1>2. \A t \in Subjects : Unanswered(t)' = Unanswered(t)
  BY <1>1, OtherLines
<1>3. UNCHANGED <<sent, queue>>
  BY DEF HandlerStep
<1> QED BY <1>2, <1>3, Stutters

\* A step that answers the request at work.
LEMMA AnswerStep ==
    ASSUME QueueOK, StateOK, DataOK, LineInv, NEW s \in Subjects, HandlerStep(s), at[s] # "count",
           NEW status, NEW shown, Respond(s, status, shown)
    PROVE  RR!Answer(s)
<1>1. PICK c \in Requests : c = current[s]
  BY DEF HandlerStep
<1>2. reply[c].calls = 0 /\ reply'[c].calls = 1
  <2>1. reply'[c].calls = reply[c].calls + 1
    BY <1>1, RespondSays
  <2>2. reply[c].calls = 0
    BY <1>1, OwnReply
  <2> QED BY <2>1, <2>2
<1>3. Unanswered(s) = <<c>>
  BY <1>1, <1>2, RequestsAssumption DEF Unanswered
<1>4. Unanswered(s)' = <<>>
  <2>1. current'[s] \in {c, None}
    BY <1>1 DEF HandlerStep, StateOK
  <2> QED BY <1>2, <2>1 DEF Unanswered
<1>5. queue' = queue /\ queue[s] \in Seq(Requests) /\ sent' = sent
  BY DEF HandlerStep, QueueOK
<1>6. RRLine[s] = <<c>> \o queue[s] /\ RRLine'[s] = queue[s]
  BY <1>3, <1>4, <1>5, ConcatEmptySeq DEF RRLine
<1>7. RRLine[s] # <<>> /\ Head(RRLine[s]) = c
  BY <1>5, <1>6, OneThenRest
<1>8. Tail(RRLine[s]) = queue[s]
  BY <1>5, <1>6, RestAfterOne
<1>9. \A t \in Subjects : t # s => RRLine'[t] = RRLine[t]
  BY <1>5, OtherLines DEF RRLine
<1>10. RRLine' = [RRLine EXCEPT ![s] = Tail(@)]
  <2>1. \A t \in Subjects : RRLine'[t] = [RRLine EXCEPT ![s] = Tail(@)][t]
    BY <1>6, <1>8, <1>9 DEF RRLine
  <2> QED BY <2>1 DEF RRLine
<1>11. reply'[c].calls = reply[c].calls + 1 /\ reply'[c].n \in {reply[c].n, reply[c].n + 1}
  BY <1>1, RespondSays
<1>12. reply[c].n \in Nat /\ reply[c].calls \in Nat
  BY DEF DataOK
<1>13. \A r \in Requests : r # c => reply'[r] = reply[r]
  BY <1>1 DEF HandlerStep
<1>14. CASE reply'[c].n = reply[c].n + 1
  <2>1. reply'[c].calls - reply'[c].n = reply[c].calls - reply[c].n
    BY <1>11, <1>12, <1>14
  <2>2. RRAnswers' = [RRAnswers EXCEPT ![c] = @ + 1]
    <3>1. \A r \in Requests : RRAnswers'[r] = [RRAnswers EXCEPT ![c] = @ + 1][r]
      BY <1>13, <1>14 DEF RRAnswers
    <3> QED BY <3>1 DEF RRAnswers
  <2>3. RRRefused' = RRRefused
    <3>1. \A r \in Requests : RRRefused'[r] = RRRefused[r]
      BY <1>13, <2>1 DEF RRRefused
    <3> QED BY <3>1 DEF RRRefused
  <2> QED BY <1>5, <1>7, <1>10, <2>2, <2>3 DEF RR!Answer, RRLine, RRAnswers, RRRefused
<1>15. CASE reply'[c].n = reply[c].n
  <2>1. reply'[c].calls - reply'[c].n = (reply[c].calls - reply[c].n) + 1
    BY <1>11, <1>12, <1>15
  <2>2. RRAnswers' = RRAnswers
    <3>1. \A r \in Requests : RRAnswers'[r] = RRAnswers[r]
      BY <1>13, <1>15 DEF RRAnswers
    <3> QED BY <3>1 DEF RRAnswers
  <2>3. RRRefused' = [RRRefused EXCEPT ![c] = @ + 1]
    <3>1. \A r \in Requests : RRRefused'[r] = [RRRefused EXCEPT ![c] = @ + 1][r]
      BY <1>13, <2>1 DEF RRRefused
    <3> QED BY <3>1 DEF RRRefused
  <2> QED BY <1>5, <1>7, <1>10, <2>2, <2>3 DEF RR!Answer, RRLine, RRAnswers, RRRefused
<1> QED BY <1>11, <1>14, <1>15

\* A request is published.
LEMMA SendStep ==
    ASSUME QueueOK, StateOK, NEW r \in Requests, Send(r)
    PROVE  RR!Send(r)
<1>1. UNCHANGED <<current, reply>> /\ r \notin sent /\ sent' = sent \cup {r}
  BY DEF Send, handlers
<1>2. \A s \in Subjects : Unanswered(s)' = Unanswered(s)
  BY <1>1 DEF Unanswered
<1>3. RRAnswers' = RRAnswers /\ RRRefused' = RRRefused
  BY <1>1 DEF RRAnswers, RRRefused
<1>4. CASE queue' = queue
  <2>1. RRLine' = RRLine
    BY <1>2, <1>4 DEF RRLine
  <2> QED BY <1>1, <1>3, <2>1 DEF RR!Send, RRLine, RRAnswers, RRRefused
<1>5. CASE queue' = [queue EXCEPT ![Subject[r]] = Append(@, r)]
  <2> DEFINE s == Subject[r]
  <2>1. s \in Subjects /\ queue[s] \in Seq(Requests)
    BY SubjectsListed DEF QueueOK
  <2>2. queue'[s] = Append(queue[s], r)
    BY <1>5, <2>1 DEF QueueOK
  <2>3. Unanswered(s) \o queue'[s] = Append(Unanswered(s) \o queue[s], r)
    BY <2>1, <2>2, UnansweredTyped, OneMoreBehind
  <2> HIDE DEF s
  <2>4. RRLine'[s] = Append(RRLine[s], r)
    BY <1>2, <2>1, <2>3 DEF RRLine
  <2>5. \A t \in Subjects : t # s => queue'[t] = queue[t]
    BY <1>5 DEF s, QueueOK
  <2>6. \A t \in Subjects : t # s => RRLine'[t] = RRLine[t]
    BY <1>2, <2>5 DEF RRLine
  <2>7. RRLine' = [RRLine EXCEPT ![s] = Append(@, r)]
    BY <2>4, <2>6 DEF RRLine
  <2> QED BY <1>1, <1>3, <2>7 DEF RR!Send, RRLine, RRAnswers, RRRefused, s
<1> QED BY <1>4, <1>5 DEF Send

\* A request passes from the queue to its handler.
LEMMA DeliverStep ==
    ASSUME QueueOK, StateOK, DataOK, LineInv, NEW s \in Subjects, Deliver(s)
    PROVE  UNCHANGED RR!vars
<1> DEFINE r == Head(queue[s])
<1>1. queue[s] \in Seq(Requests) /\ queue[s] # <<>>
  BY DEF QueueOK, Deliver
<1>2. UNCHANGED <<sent, reply>> /\ at[s] = "idle"
  BY DEF Deliver, Free
<1>3. \A t \in Subjects : t # s => current'[t] = current[t] /\ queue'[t] = queue[t]
  BY DEF Deliver, StateOK, QueueOK
<1>4. current'[s] = r /\ queue'[s] = Tail(queue[s])
  BY DEF Deliver, StateOK, QueueOK
<1>5. r \in Requests /\ reply[r].calls = 0
  <2>1. r = queue[s][1] /\ 1 \in 1..Len(queue[s]) /\ r \in Requests
    BY <1>1
  <2> QED BY <2>1 DEF LineInv, Waiting
<1>6. <<r>> \o Tail(queue[s]) = queue[s]
  BY <1>1, HeadAndTail
<1> HIDE DEF r
<1>7. Unanswered(s) = <<>> /\ Unanswered(s)' = <<r>>
  BY <1>2, <1>4, <1>5, RequestsAssumption DEF Unanswered, StateOK
<1>8. Unanswered(s)' \o queue'[s] = Unanswered(s) \o queue[s]
  BY <1>1, <1>4, <1>6, <1>7, ConcatEmptySeq
<1>9. \A t \in Subjects : t # s => Unanswered(t)' = Unanswered(t)
  BY <1>2, <1>3 DEF Unanswered
<1>10. \A t \in Subjects : Unanswered(t)' \o queue'[t] = Unanswered(t) \o queue[t]
  BY <1>3, <1>8, <1>9
<1> QED BY <1>2, <1>10, Stutters

LEMMA RefinesStep == IInv /\ [Next]_vars => [RR!Next]_(RR!vars)
<1> SUFFICES ASSUME QueueOK, StateOK, DataOK, LineInv, OutcomeInv, [Next]_vars
             PROVE  RR!Next \/ UNCHANGED RR!vars
  BY TypeParts DEF IInv
<1> USE SubjectsListed
<1>1. ASSUME NEW r \in Requests, Send(r) PROVE RR!Next
  BY <1>1, SendStep DEF RR!Next
<1>2. ASSUME NEW s \in Subjects, RR!Answer(s) PROVE RR!Next
  BY <1>2 DEF RR!Next
<1>3. CASE UNCHANGED <<sent, queue, current, reply>>
  <2>1. \A s \in Subjects : Unanswered(s)' = Unanswered(s)
    BY <1>3 DEF Unanswered
  <2> QED BY <1>3, <2>1, Stutters
<1>4. CASE Disconnect \/ Reconnect \/ RecordMetrics \/ AllHandled \/ UNCHANGED vars
  BY <1>3, <1>4 DEF Disconnect, Reconnect, RecordMetrics, AllHandled, vars, handlers
<1>5. ASSUME NEW s \in Commands, CommandStep(s) \/ Execute(s) PROVE RR!Next \/ UNCHANGED RR!vars
  <2>1. s \in Subjects /\ HandlerStep(s)
    BY <1>5, HandlersStep
  <2>2. CASE Reject(s) \/ Recover(s) \/ Reply(s)
    <3>1. at[s] # "count" /\ \E status, shown : Respond(s, status, shown)
      BY <2>2 DEF Reject, Recover, Reply
    <3> QED BY <1>2, <2>1, <3>1, AnswerStep
  <2>3. CASE CountRejected(s)
    <3>1. at[s] = "count" /\ reply' = reply
      BY <2>3 DEF CountRejected
    <3>2. current'[s] = None
      BY <2>1, <2>3 DEF CountRejected, Return, StateOK
    <3>3. reply[current[s]].calls # 0
      BY <3>1 DEF OutcomeInv
    <3> QED BY <2>1, <3>1, <3>2, <3>3, SilentStep
  <2>4. CASE Parse(s) \/ Execute(s) \/ Record(s)
    <3>1. current'[s] = current[s] /\ reply' = reply
      BY <2>4 DEF Parse, Execute, Record
    <3> QED BY <2>1, <3>1, SilentStep
  <2> QED BY <1>5, <2>2, <2>3, <2>4 DEF CommandStep
<1>6. CASE Pong
  <2>1. HandlerStep("ping") /\ at["ping"] # "count" /\ Respond("ping", "pong", NoSnap)
    BY <1>6, HandlersStep DEF Pong
  <2> QED BY <1>2, <2>1, AnswerStep
<1>7. CASE HealthStep
  <2>1. HandlerStep("health")
    BY <1>7, HandlersStep
  <2>2. CASE ReplyHealth
    <3>1. at["health"] # "count" /\ Respond("health", HealthStatus(snap), snap)
      BY <2>2 DEF ReplyHealth
    <3> QED BY <1>2, <2>1, <3>1, AnswerStep
  <2>3. CASE ReadAgent \/ ReadTasks \/ ReadReconnects \/ ReadConnected
    <3>1. current'["health"] = current["health"] /\ reply' = reply
      BY <2>3 DEF ReadAgent, ReadTasks, ReadReconnects, ReadConnected
    <3> QED BY <2>1, <3>1, SilentStep
  <2> QED BY <1>7, <2>2, <2>3 DEF HealthStep
<1> QED BY <1>1, <1>4, <1>5, <1>6, <1>7, DeliverStep DEF Next

\* The safety part of ImplementsRequestReply: whatever the handlers do, seen
\* from a control plane every request that arrives is replied to once and in the
\* order of its subject, and lacks an answer only if that reply was refused.
THEOREM AnswersOnceInOrder == Spec => RR!Init /\ [][RR!Next]_(RR!vars)
<1>1. Init => RR!Init
  <2> SUFFICES ASSUME Init PROVE RR!Init
    OBVIOUS
  <2>1. \A s \in Subjects : Unanswered(s) = <<>> /\ queue[s] = <<>>
    BY DEF Init, Unanswered
  <2>2. <<>> \o <<>> = <<>>
    OBVIOUS
  <2>3. \A s \in Subjects : Unanswered(s) \o queue[s] = <<>>
    BY <2>1, <2>2
  <2>4. \A r \in Requests : reply[r].n = 0 /\ reply[r].calls - reply[r].n = 0
    BY DEF Init, NoReply
  <2> QED BY <2>3, <2>4 DEF RR!Init, Init
<1>2. IInv /\ [Next]_vars => [RR!Next]_(RR!vars)
  BY RefinesStep
<1> QED BY <1>1, <1>2, Always, PTL DEF Spec
=============================================================================
