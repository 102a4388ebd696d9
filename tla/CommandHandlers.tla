--------------------------- MODULE CommandHandlers ---------------------------
(***************************************************************************)
(* The command side of the agent: nats/handlers.go, and the statistics of  *)
(* tasks/executor.go it updates and reports.                               *)
(*                                                                         *)
(* SubscribeAll makes five subscriptions.  The NATS client runs each one's *)
(* callback in a goroutine of its own: requests of one subject are handled *)
(* one after the other, those of different subjects at the same time.      *)
(* A handler is therefore a sequence of steps here, one for each access to *)
(* the shared statistics and each reply.                                   *)
(*                                                                         *)
(* Abstracted: what a command does (succeed, fail, panic) is a choice; the *)
(* payloads, timestamps and the last error's text are left out.            *)
(***************************************************************************)
EXTENDS Naturals, FiniteSets, Sequences

CONSTANTS
    Requests,         \* the requests a control plane may send
    Subject,          \* the subject of each
    None,             \* no request
    ReconnectLimit,   \* reconnects beyond which health is "degraded" (10)
    MaxEvents         \* bound: scrapes that end and connections lost, together

Commands == {"service", "logs", "exec"}
Prompt == {"ping", "health"}
Subjects == Commands \cup Prompt

ASSUME RequestsAssumption ==
    /\ Subject \in [Requests -> Subjects]
    /\ None \notin Requests
    /\ IsFiniteSet(Requests)
ASSUME BoundsAssumption ==
    ReconnectLimit \in Nat /\ MaxEvents \in Nat

VARIABLES
    sent,           \* requests published by the control plane
    queue,          \* per subscription, the messages not yet handed over
    current,        \* per subscription, the request its handler works on
    at,             \* and where in the handler it is
    outcome,        \* what the command came to
    snap,           \* what handleHealth has gathered so far
    reply,          \* per request: replies made, those that got through, the last one
    stats,          \* ExecutorStats: commands processed, errored
    taskStats,      \* TaskStats: scrapes succeeded, failed
    connected, reconnects,
    known           \* history: commands answered when a health check was sent

handlers == <<current, at, outcome, snap>>
conn == <<connected, reconnects>>
vars == <<sent, queue, handlers, reply, stats, taskStats, conn, known>>

Outcomes == {"none", "success", "error", "panic"}
NoSnap == [processed |-> 0, errored |-> 0, count |-> 0, failures |-> 0,
           connected |-> FALSE, reconnects |-> 0]
Snap == [processed : Nat, errored : Nat, count : Nat, failures : Nat,
         connected : BOOLEAN, reconnects : Nat]
Status == {"none", "pong", "success", "error", "rejected", "panic",
           "healthy", "degraded", "unhealthy"}
NoReply == [calls |-> 0, n |-> 0, status |-> "none", snap |-> NoSnap]

Init ==
    /\ sent = {}
    /\ queue = [s \in Subjects |-> <<>>]
    /\ current = [s \in Subjects |-> None]
    /\ at = [s \in Subjects |-> "idle"]
    /\ outcome = [s \in Subjects |-> "none"]
    /\ snap = NoSnap
    /\ reply = [r \in Requests |-> NoReply]
    /\ stats = [processed |-> 0, errored |-> 0]
    /\ taskStats = [count |-> 0, failures |-> 0]
    /\ connected = TRUE /\ reconnects = 0
    /\ known = [r \in Requests |-> 0]

-----------------------------------------------------------------------------
(* Around the handlers.                                                    *)

\* Commands whose answer a control plane has and that were carried out.
AnsweredCommands ==
    {r \in Requests : reply[r].n > 0 /\ reply[r].status \in {"success", "error"}}

\* A request is published; without a connection nobody keeps it.
Send(r) ==
    /\ r \notin sent
    /\ sent' = sent \cup {r}
    /\ queue' = IF connected THEN [queue EXCEPT ![Subject[r]] = Append(@, r)] ELSE queue
    /\ known' = IF Subject[r] = "health"
                THEN [known EXCEPT ![r] = Cardinality(AnsweredCommands)] ELSE known
    /\ UNCHANGED <<handlers, reply, stats, taskStats, conn>>

Events == taskStats.count + taskStats.failures + reconnects + (IF connected THEN 0 ELSE 1)

Disconnect ==
    /\ connected /\ Events < MaxEvents
    /\ connected' = FALSE
    /\ UNCHANGED <<sent, queue, handlers, reply, stats, taskStats, reconnects, known>>

Reconnect ==
    /\ ~connected
    /\ connected' = TRUE /\ reconnects' = reconnects + 1
    /\ UNCHANGED <<sent, queue, handlers, reply, stats, taskStats, known>>

\* The scheduler's RecordMetricsSuccess and RecordMetricsFailure.
RecordMetrics ==
    /\ Events < MaxEvents
    /\ \/ taskStats' = [taskStats EXCEPT !.count = @ + 1]
       \/ taskStats' = [taskStats EXCEPT !.failures = @ + 1]
    /\ UNCHANGED <<sent, queue, handlers, reply, stats, conn, known>>

-----------------------------------------------------------------------------
(* Steps of a handler.                                                     *)

\* Seeded fault: one goroutine serves every subscription.
AllFree(s) == \A t \in Subjects : at[t] = "idle"

\* The goroutine of a subscription hands over one message at a time.
Free(s) == at[s] = "idle"

FirstStep(s) == CASE s = "ping" -> "pong"
                  [] s = "health" -> "agent"
                  [] OTHER -> "parse"

Deliver(s) ==
    /\ Free(s) /\ queue[s] # <<>>
    /\ current' = [current EXCEPT ![s] = Head(queue[s])]
    /\ queue' = [queue EXCEPT ![s] = Tail(@)]
    /\ at' = [at EXCEPT ![s] = FirstStep(s)]
    /\ UNCHANGED <<sent, outcome, snap, reply, stats, taskStats, conn, known>>

Goto(s, step) == at' = [at EXCEPT ![s] = step]

\* msg.Respond.  It fails when the reply is larger than the server's max_payload,
\* the reconnect buffer is full or the connection closed, and what it accepted may
\* be lost with the connection; its error is ignored, and the handler goes on.
Respond(s, status, shown) ==
    \E arrives \in {0, 1} :
        reply' = [reply EXCEPT ![current[s]] =
                     [calls |-> @.calls + 1, n |-> @.n + arrives,
                      status |-> status, snap |-> shown]]

\* Seeded fault: the message handled last is still taken for the current one.
ReturnKeepsRequest(s) ==
    /\ at' = [at EXCEPT ![s] = "idle"]
    /\ outcome' = [outcome EXCEPT ![s] = "none"]
    /\ snap' = IF s = "health" THEN NoSnap ELSE snap
    /\ UNCHANGED current

\* The callback returns and its locals are gone.
Return(s) ==
    /\ at' = [at EXCEPT ![s] = "idle"]
    /\ current' = [current EXCEPT ![s] = None]
    /\ outcome' = [outcome EXCEPT ![s] = "none"]
    /\ snap' = IF s = "health" THEN NoSnap ELSE snap

Pong ==
    /\ at["ping"] = "pong"
    /\ Respond("ping", "pong", NoSnap)
    /\ Return("ping")
    /\ UNCHANGED <<sent, queue, stats, taskStats, conn, known>>

\* json.Unmarshal accepts the request.
Parse(s) ==
    /\ at[s] = "parse"
    /\ Goto(s, "execute")
    /\ UNCHANGED <<sent, queue, current, outcome, snap, reply, stats, taskStats, conn, known>>

\* Seeded fault: the return after a request that does not parse is missing.
RejectAndGoOn(s) ==
    /\ at[s] = "parse"
    /\ Respond(s, "rejected", NoSnap)
    /\ Goto(s, "execute")
    /\ UNCHANGED <<sent, queue, current, outcome, snap, stats, taskStats, conn, known>>

\* It does not: here, unlike below, the reply goes out before it is counted.
Reject(s) ==
    /\ at[s] = "parse"
    /\ Respond(s, "rejected", NoSnap)
    /\ Goto(s, "count")
    /\ UNCHANGED <<sent, queue, current, outcome, snap, stats, taskStats, conn, known>>

\* Seeded faults: an error is not counted as processed; a success is not counted.
CountErrorOnly == stats' = [stats EXCEPT !.errored = @ + 1]
CountNothing == UNCHANGED stats

\* RecordCommandError: an error is counted as processed, too.
CountError == stats' = [processed |-> stats.processed + 1, errored |-> stats.errored + 1]
\* RecordCommandSuccess
CountSuccess == stats' = [stats EXCEPT !.processed = @ + 1]

CountRejected(s) ==
    /\ at[s] = "count"
    /\ CountError
    /\ Return(s)
    /\ UNCHANGED <<sent, queue, reply, taskStats, conn, known>>

\* ControlService, FetchLogLines or ExecuteCommand returns, or panics.
Execute(s) ==
    /\ at[s] = "execute"
    /\ \E result \in {"success", "error", "panic"} :
          /\ outcome' = [outcome EXCEPT ![s] = result]
          /\ Goto(s, IF result = "panic" THEN "recover" ELSE "record")
    /\ UNCHANGED <<sent, queue, current, snap, reply, stats, taskStats, conn, known>>

\* handleWithRecovery answers for a handler that panicked; nothing is counted.
Recover(s) ==
    /\ at[s] = "recover"
    /\ Respond(s, "panic", NoSnap)
    /\ Return(s)
    /\ UNCHANGED <<sent, queue, stats, taskStats, conn, known>>

Record(s) ==
    /\ at[s] = "record"
    /\ IF outcome[s] = "error" THEN CountError ELSE CountSuccess
    /\ Goto(s, "reply")
    /\ UNCHANGED <<sent, queue, current, outcome, snap, reply, taskStats, conn, known>>

Reply(s) ==
    /\ at[s] = "reply"
    /\ Respond(s, outcome[s], NoSnap)
    /\ Return(s)
    /\ UNCHANGED <<sent, queue, stats, taskStats, conn, known>>

-----------------------------------------------------------------------------
(* handleHealth: four reads, one after the other, then the reply.     *)

\* GetAgentMetrics
ReadAgent ==
    /\ at["health"] = "agent"
    /\ snap' = [snap EXCEPT !.processed = stats.processed, !.errored = stats.errored]
    /\ Goto("health", "tasks")
    /\ UNCHANGED <<sent, queue, current, outcome, reply, stats, taskStats, conn, known>>

\* GetTaskMetrics
ReadTasks ==
    /\ at["health"] = "tasks"
    /\ snap' = [snap EXCEPT !.count = taskStats.count, !.failures = taskStats.failures]
    /\ Goto("health", "reconnects")
    /\ UNCHANGED <<sent, queue, current, outcome, reply, stats, taskStats, conn, known>>

\* getNATSHealth asks for the statistics, then whether it is connected.
ReadReconnects ==
    /\ at["health"] = "reconnects"
    /\ snap' = [snap EXCEPT !.reconnects = reconnects]
    /\ Goto("health", "connected")
    /\ UNCHANGED <<sent, queue, current, outcome, reply, stats, taskStats, conn, known>>

ReadConnected ==
    /\ at["health"] = "connected"
    /\ snap' = [snap EXCEPT !.connected = connected]
    /\ Goto("health", "status")
    /\ UNCHANGED <<sent, queue, current, outcome, reply, stats, taskStats, conn, known>>

\* determineHealthStatus: a failure "rate" relative to the successes.
HealthStatus(seen) ==
    CASE ~seen.connected -> "unhealthy"
      [] seen.connected /\ seen.reconnects > ReconnectLimit -> "degraded"
      [] seen.connected /\ seen.reconnects <= ReconnectLimit
           /\ seen.count > 0 /\ 2 * seen.failures > seen.count -> "degraded"
      [] OTHER -> "healthy"

ReplyHealth ==
    /\ at["health"] = "status"
    /\ Respond("health", HealthStatus(snap), snap)
    /\ Return("health")
    /\ UNCHANGED <<sent, queue, stats, taskStats, conn, known>>

-----------------------------------------------------------------------------
HealthStep == ReadAgent \/ ReadTasks \/ ReadReconnects \/ ReadConnected \/ ReplyHealth

\* What a command handler does without waiting for Windows.
CommandStep(s) == Parse(s) \/ Reject(s) \/ CountRejected(s) \/ Recover(s)
                  \/ Record(s) \/ Reply(s)

\* Everything was sent and handled.
AllHandled ==
    /\ sent = Requests
    /\ \A s \in Subjects : at[s] = "idle" /\ queue[s] = <<>>
    /\ UNCHANGED vars

Next ==
    \/ \E r \in Requests : Send(r)
    \/ Disconnect \/ Reconnect \/ RecordMetrics
    \/ \E s \in Subjects : Deliver(s)
    \/ \E s \in Commands : CommandStep(s) \/ Execute(s)
    \/ Pong \/ HealthStep
    \/ AllHandled

\* A goroutine that can run does run.  Nothing is assumed of Execute: a call
\* into Windows may never return.
Fairness ==
    /\ \A s \in Subjects : WF_vars(Deliver(s))
    /\ \A s \in Commands : WF_vars(CommandStep(s))
    /\ WF_vars(Pong) /\ WF_vars(HealthStep)

Spec == Init /\ [][Next]_vars /\ Fairness

-----------------------------------------------------------------------------
(* Properties.                                                             *)

TypeOK ==
    /\ sent \subseteq Requests
    /\ queue \in [Subjects -> Seq(Requests)]
    /\ current \in [Subjects -> Requests \cup {None}]
    /\ at \in [Subjects -> {"idle", "pong", "parse", "count", "execute", "recover",
                            "record", "reply", "agent", "tasks", "reconnects", "connected",
                            "status"}]
    /\ outcome \in [Subjects -> Outcomes]
    /\ snap \in Snap
    /\ reply \in [Requests -> [calls : Nat, n : Nat, status : Status, snap : Snap]]
    /\ stats \in [processed : Nat, errored : Nat]
    /\ taskStats \in [count : Nat, failures : Nat]
    /\ connected \in BOOLEAN /\ reconnects \in Nat
    /\ known \in [Requests -> Nat]
    /\ \A s \in Subjects : current[s] = None <=> at[s] = "idle"

Received(statuses) ==
    Cardinality({r \in Requests : reply[r].n > 0 /\ reply[r].status \in statuses})
Refused(statuses) ==
    Cardinality({r \in Requests : /\ reply[r].calls > 0 /\ reply[r].n = 0
                                  /\ reply[r].status \in statuses})

\* When no handler is at work, the counters of the health report stand for the
\* answers the control plane has and the replies it never got, and for nothing
\* else: every command was processed except those that panicked, and errored counts
\* the error answers and the requests that did not parse.
StatsMatchAnswers ==
    (\A s \in Commands : at[s] = "idle") =>
        LET done == {"success", "error", "rejected"}
            bad == {"error", "rejected"}
        IN  /\ stats.processed = Received(done) + Refused(done)
            /\ stats.errored = Received(bad) + Refused(bad)

\* A control plane that has the answer to a command and then asks for the
\* health finds the command counted: it is recorded before it is answered.
HealthCoversAnswered ==
    \A r \in Requests :
        Subject[r] = "health" /\ reply[r].calls > 0 => reply[r].snap.processed >= known[r]

\* A ping or health check that reached the agent is replied to even while the
\* commands hang: the five subscriptions do not share a goroutine.  Whether the
\* reply arrives is another matter.
PromptlyAnswered ==
    \A r \in {q \in Requests : Subject[q] \in Prompt} :
        (\E i \in DOMAIN queue[Subject[r]] : queue[Subject[r]][i] = r)
            ~> (reply[r].calls > 0)

\* "DEGRADED: High metrics failure rate (>50% failures)", handlers.go:519: an
\* agent most of whose scrapes failed does not report itself healthy.
FailingMetricsDegrade ==
    \A r \in Requests :
        reply[r].status = "healthy" => reply[r].snap.failures <= reply[r].snap.count

\* Every request that arrives is replied to exactly once, in order, and only a reply
\* that was refused leaves it without an answer: the line of a subject is the
\* request being handled, until it is replied to, and the queue.
Unanswered(s) ==
    IF current[s] # None /\ reply[current[s]].calls = 0 THEN <<current[s]>> ELSE <<>>

RR == INSTANCE RequestReply WITH
        line <- [s \in Subjects |-> Unanswered(s) \o queue[s]],
        answers <- [r \in Requests |-> reply[r].n],
        refused <- [r \in Requests |-> reply[r].calls - reply[r].n]

ImplementsRequestReply == RR!Spec
=============================================================================
