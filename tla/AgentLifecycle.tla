---------------------------- MODULE AgentLifecycle ----------------------------
(***************************************************************************)
(* The life of the agent's process: program.Start and program.Stop of      *)
(* cmd/win-agent/main.go, agent.New, Run and Shutdown, the parts of        *)
(* scheduler.go that create, start, run and stop the jobs, and Connect,    *)
(* PublishTelemetry, Drain and Close of nats/client.go.                    *)
(*                                                                         *)
(* Two goroutines may shut the agent down: agent.Run, on a signal, and the *)
(* service framework, through program.Stop.  An interrupt of the           *)
(* interactive program reaches both; a service is only told to stop.  The  *)
(* process ends when Stop returns, whatever else is running.               *)
(*                                                                         *)
(* External, as the code relies on them: gocron's Shutdown waits for the   *)
(* runs it started, for a bounded time; nats.go's Conn.Drain starts the    *)
(* draining and returns, the connection closes later.                      *)
(*                                                                         *)
(* Abstracted: a run of a job happens once and is one of Runs; each        *)
(* command subject gets one request; what commands and runs compute is     *)
(* left to CommandHandlers and MetricsScrape.                              *)
(***************************************************************************)
EXTENDS Naturals, FiniteSets

CONSTANTS
    Subjects,   \* command subjects
    Runs,       \* runs of scheduled jobs
    Startup,    \* the inventory run scheduleTasks starts itself
    Kind        \* what a run publishes

AllRuns == Runs \cup {Startup}

ASSUME StartupAssumption == Startup \notin Runs
ASSUME KindAssumption ==
    /\ Kind \in [AllRuns -> {"heartbeat", "metrics", "service", "inventory"}]
    /\ Kind[Startup] = "inventory"

VARIABLES
    mode,          \* how the program was started
    boot,          \* position in program.Start and agent.New
    conn,          \* the NATS connection
    subscribed,    \* subjects subscribed so far
    request,       \* per subject, what became of its request
    sched,         \* the gocron scheduler
    run,           \* per run, its position
    counted,       \* runs recorded in TaskStats as a success, as a failure
    delivered,     \* runs whose message PublishAsync accepted
    signalled,     \* who has been told to shut down
    pos,           \* per caller of agent.Shutdown, its position
    unclean,       \* callers to whom gocron reported an error
    drained,       \* callers to whom Drain reported "completed successfully"
    alive          \* the process

work == <<request, run, counted, delivered>>
shutdown == <<signalled, pos, unclean, drained>>
vars == <<mode, boot, conn, subscribed, work, sched, shutdown, alive>>

Callers == {"run", "stop"}
Active == {"collect", "publish", "publish error", "record"}

Init ==
    /\ mode \in {"service", "interactive"}
    /\ boot = "connect" /\ conn = "none" /\ subscribed = {}
    /\ request = [s \in Subjects |-> "unsent"]
    /\ sched = "none"
    /\ run = [r \in AllRuns |-> "none"]
    /\ counted = [success |-> {}, failure |-> {}] /\ delivered = {}
    /\ signalled = {}
    /\ pos = [k \in Callers |-> "none"]
    /\ unclean = {} /\ drained = {}
    /\ alive = TRUE

-----------------------------------------------------------------------------
(* program.Start: agent.New, then agent.Run in a goroutine.                *)

\* The configuration is loaded and nats.Connect succeeds.
Connect ==
    /\ boot = "connect"
    /\ boot' = "jetstream" /\ conn' = "open"
    /\ UNCHANGED <<mode, subscribed, work, sched, shutdown, alive>>

\* js.AccountInfo answers.
JetStreamAvailable ==
    /\ boot = "jetstream" /\ conn = "open"
    /\ boot' = "subscribe"
    /\ UNCHANGED <<mode, conn, subscribed, work, sched, shutdown, alive>>

\* SubscribeAll: from now on requests of this subject are handled, long before
\* the jobs exist.
Subscribe(s) ==
    /\ boot = "subscribe" /\ s \notin subscribed /\ conn # "closed"
    /\ subscribed' = subscribed \cup {s}
    /\ boot' = IF subscribed' = Subjects THEN "schedule" ELSE boot
    /\ UNCHANGED <<mode, conn, work, sched, shutdown, alive>>

\* The inventory goes out from a goroutine gocron knows nothing of.
StartInventory ==
    /\ boot = "schedule" /\ run[Startup] = "none"
    /\ run' = [run EXCEPT ![Startup] = "collect"]
    /\ UNCHANGED <<mode, boot, conn, subscribed, request, counted, delivered, sched,
                   shutdown, alive>>

\* Seeded fault: agent.Run is not called.
JobsCreatedOnly ==
    /\ boot = "schedule"
    /\ boot' = "started" /\ sched' = "created"
    /\ UNCHANGED <<mode, conn, subscribed, work, shutdown, alive>>

\* Every enabled job is created (the inventory may be disabled).
JobsCreated ==
    /\ boot = "schedule"
    /\ boot' = "started" /\ sched' = "created"
    /\ pos' = [pos EXCEPT !["run"] = "begin"]
    /\ UNCHANGED <<mode, conn, subscribed, work, signalled, unclean, drained, alive>>

\* Seeded fault: the connection is closed only where NewClient fails.
StartFailsOpen ==
    /\ boot \in {"connect", "jetstream", "subscribe", "schedule"}
    /\ boot' = "failed"
    /\ conn' = IF boot = "jetstream" THEN "closed" ELSE conn
    /\ UNCHANGED <<mode, subscribed, work, sched, shutdown, alive>>

\* A step of agent.New fails: an open connection is closed.
StartFails ==
    /\ boot \in {"connect", "jetstream", "subscribe", "schedule"}
    /\ boot' = "failed"
    /\ conn' = IF boot = "connect" THEN conn ELSE "closed"
    /\ UNCHANGED <<mode, subscribed, work, sched, shutdown, alive>>

\* agent.Run; gocron ignores a start after its shutdown.
RunStarts ==
    /\ pos["run"] = "begin"
    /\ pos' = [pos EXCEPT !["run"] = "waiting"]
    /\ sched' = IF sched = "created" THEN "started" ELSE sched
    /\ UNCHANGED <<mode, boot, conn, subscribed, work, signalled, unclean, drained, alive>>

-----------------------------------------------------------------------------
(* The connection and the command handlers.                                *)

Disconnect ==
    /\ conn = "open"
    /\ conn' = "reconnecting"
    /\ UNCHANGED <<mode, boot, subscribed, work, sched, shutdown, alive>>

\* The client reconnects, or has used up max_reconnects.
ReconnectEnds ==
    /\ conn = "reconnecting"
    /\ conn' \in {"open", "closed"}
    /\ UNCHANGED <<mode, boot, subscribed, work, sched, shutdown, alive>>

Arrive(s) ==
    /\ conn = "open" /\ s \in subscribed /\ request[s] = "unsent"
    /\ request' = [request EXCEPT ![s] = "queued"]
    /\ UNCHANGED <<mode, boot, conn, subscribed, run, counted, delivered, sched,
                   shutdown, alive>>

\* The subscription's goroutine calls the handler.
Handle(s) ==
    /\ conn # "closed" /\ request[s] = "queued"
    /\ request' = [request EXCEPT ![s] = "busy"]
    /\ UNCHANGED <<mode, boot, conn, subscribed, run, counted, delivered, sched,
                   shutdown, alive>>

\* Its reply is refused by a closed connection, which is only logged.
Answer(s) ==
    /\ request[s] = "busy"
    /\ request' = [request EXCEPT ![s] = IF conn = "closed" THEN "lost" ELSE "answered"]
    /\ UNCHANGED <<mode, boot, conn, subscribed, run, counted, delivered, sched,
                   shutdown, alive>>

\* The draining that Conn.Drain has started ends.
DrainEnds ==
    /\ conn = "draining"
    /\ conn' = "closed"
    /\ UNCHANGED <<mode, boot, subscribed, work, sched, shutdown, alive>>

-----------------------------------------------------------------------------
(* Runs of jobs, each wrapped in wrapTaskWithRecovery.                     *)

JobFires(r) ==
    /\ sched = "started" /\ run[r] = "none"
    /\ run' = [run EXCEPT ![r] = "collect"]
    /\ UNCHANGED <<mode, boot, conn, subscribed, request, counted, delivered, sched,
                   shutdown, alive>>

Collect(r) ==
    /\ run[r] = "collect"
    /\ run' = [run EXCEPT ![r] = "publish"]
    /\ UNCHANGED <<mode, boot, conn, subscribed, request, counted, delivered, sched,
                   shutdown, alive>>

\* ScrapeMetrics or GetServiceStatuses fails: the error is published instead,
\* and a failed scrape is counted before it is.
CollectFails(r) ==
    /\ run[r] = "collect" /\ Kind[r] \in {"metrics", "service"}
    /\ run' = [run EXCEPT ![r] = "publish error"]
    /\ counted' = IF Kind[r] = "metrics"
                  THEN [counted EXCEPT !.failure = @ \cup {r}] ELSE counted
    /\ UNCHANGED <<mode, boot, conn, subscribed, request, delivered, sched, shutdown, alive>>

\* It panics, the inventory cannot be collected, or the data cannot be
\* marshalled: no message, and nothing is counted.
GiveUp(r) ==
    /\ run[r] = "collect"
    /\ run' = [run EXCEPT ![r] = "done"]
    /\ UNCHANGED <<mode, boot, conn, subscribed, request, counted, delivered, sched,
                   shutdown, alive>>

\* PublishAsync accepts the message.  After an error message the run is over, a
\* report is still to be counted: its message is on its way before it is.
Publish(r) ==
    /\ run[r] \in {"publish", "publish error"} /\ conn # "closed"
    /\ run' = [run EXCEPT ![r] = IF run[r] = "publish" THEN "record" ELSE "done"]
    /\ delivered' = delivered \cup {r}
    /\ UNCHANGED <<mode, boot, conn, subscribed, request, counted, sched, shutdown, alive>>

\* RecordHeartbeat, RecordMetricsSuccess, RecordServiceCheck, RecordInventory.
Record(r) ==
    /\ run[r] = "record"
    /\ run' = [run EXCEPT ![r] = "done"]
    /\ counted' = [counted EXCEPT !.success = @ \cup {r}]
    /\ UNCHANGED <<mode, boot, conn, subscribed, request, delivered, sched, shutdown, alive>>

\* Seeded fault: the return after a report that was refused is missing.
RefusedGoesOn(r) ==
    /\ run[r] \in {"publish", "publish error"}
    /\ run' = [run EXCEPT ![r] = IF run[r] = "publish" THEN "record" ELSE "done"]
    /\ UNCHANGED <<mode, boot, conn, subscribed, request, counted, delivered, sched,
                   shutdown, alive>>

\* It refuses: the connection is draining or closed, or too many messages
\* wait for their acknowledgement.
PublishFails(r) ==
    /\ run[r] \in {"publish", "publish error"}
    /\ run' = [run EXCEPT ![r] = "done"]
    /\ UNCHANGED <<mode, boot, conn, subscribed, request, counted, delivered, sched,
                   shutdown, alive>>

-----------------------------------------------------------------------------
(* Shutting down.                                                          *)

\* The service is told to stop, or Ctrl-C is pressed: then agent.Run is told,
\* too, if it listens already.
StopRequested ==
    /\ boot = "started" /\ signalled = {}
    /\ signalled' = IF mode = "interactive" /\ pos["run"] = "waiting"
                    THEN Callers ELSE {"stop"}
    /\ UNCHANGED <<mode, boot, conn, subscribed, work, sched, pos, unclean, drained, alive>>

MayBeginShutdown(k) ==
    k \in signalled /\ pos[k] = IF k = "run" THEN "waiting" ELSE "none"

\* Seeded fault: the connection is drained before the scheduler is stopped.
DrainFirst(k) ==
    /\ MayBeginShutdown(k)
    /\ pos' = [pos EXCEPT ![k] = "scheduler"]
    /\ sched' = IF sched \in {"created", "started"} THEN "stopping" ELSE sched
    /\ conn' = IF conn = "open" THEN "draining" ELSE conn
    /\ UNCHANGED <<mode, boot, subscribed, work, signalled, unclean, drained, alive>>

\* agent.Shutdown calls scheduler.Shutdown: no job fires any more.
BeginShutdown(k) ==
    /\ MayBeginShutdown(k)
    /\ pos' = [pos EXCEPT ![k] = "scheduler"]
    /\ sched' = IF sched \in {"created", "started"} THEN "stopping" ELSE sched
    /\ UNCHANGED <<mode, boot, conn, subscribed, work, signalled, unclean, drained, alive>>

\* gocron's runs have ended: it says so to one caller.
SchedulerStopped(k) ==
    /\ pos[k] = "scheduler" /\ sched = "stopping"
    /\ \A r \in Runs : run[r] \notin Active
    /\ sched' = "stopped"
    /\ pos' = [pos EXCEPT ![k] = "drain"]
    /\ UNCHANGED <<mode, boot, conn, subscribed, work, signalled, unclean, drained, alive>>

\* Seeded fault: the wait for the runs is not bounded.
SchedulerWaitsOn(k) ==
    /\ pos[k] = "scheduler" /\ sched = "stopped"
    /\ pos' = [pos EXCEPT ![k] = "drain"]
    /\ unclean' = unclean \cup {k}
    /\ UNCHANGED <<mode, boot, conn, subscribed, work, sched, signalled, drained, alive>>

\* It has waited long enough for them, or another caller has had its answer.
SchedulerTimesOut(k) ==
    /\ pos[k] = "scheduler"
    /\ sched' = "stopped"
    /\ pos' = [pos EXCEPT ![k] = "drain"]
    /\ unclean' = unclean \cup {k}
    /\ UNCHANGED <<mode, boot, conn, subscribed, work, signalled, drained, alive>>

\* Client.Drain: a connection that is closed stays so, one that is not
\* connected is closed, with an error; otherwise Conn.Drain returns at once.
Drain(k) ==
    /\ pos[k] = "drain"
    /\ pos' = [pos EXCEPT ![k] = "returned"]
    /\ \/ conn = "closed" /\ UNCHANGED <<conn, drained>>
       \/ conn = "reconnecting" /\ conn' = "closed" /\ UNCHANGED drained
       \/ conn \in {"open", "draining"} /\ conn' = "draining" /\ drained' = drained \cup {k}
    /\ UNCHANGED <<mode, boot, subscribed, work, sched, signalled, unclean, alive>>

\* Conn.Drain has not returned within drain_timeout: the connection is closed.
DrainTimesOut(k) ==
    /\ pos[k] = "drain" /\ conn # "closed"
    /\ pos' = [pos EXCEPT ![k] = "returned"]
    /\ conn' = "closed"
    /\ UNCHANGED <<mode, boot, subscribed, work, sched, signalled, unclean, drained, alive>>

\* Start has failed, or Stop has returned: main returns.
ProcessEnds ==
    /\ boot = "failed" \/ pos["stop"] = "returned"
    /\ alive' = FALSE
    /\ UNCHANGED <<mode, boot, conn, subscribed, work, sched, shutdown>>

-----------------------------------------------------------------------------
StartStep == Connect \/ JetStreamAvailable \/ (\E s \in Subjects : Subscribe(s))
             \/ StartInventory \/ JobsCreated \/ StartFails \/ RunStarts
ConnStep == Disconnect \/ ReconnectEnds \/ DrainEnds
HandlerStep(s) == Arrive(s) \/ Handle(s) \/ Answer(s)
RunStep(r) == Collect(r) \/ CollectFails(r) \/ GiveUp(r) \/ Publish(r)
              \/ Record(r) \/ PublishFails(r)
ShutdownStep(k) == BeginShutdown(k) \/ SchedulerStopped(k) \/ SchedulerTimesOut(k)
                   \/ Drain(k) \/ DrainTimesOut(k)

Next ==
    \/ /\ alive
       /\ \/ StartStep \/ ConnStep \/ StopRequested \/ ProcessEnds
          \/ \E s \in Subjects : HandlerStep(s)
          \/ \E r \in Runs : JobFires(r)
          \/ \E r \in AllRuns : RunStep(r)
          \/ \E k \in Callers : ShutdownStep(k)
    \/ ~alive /\ UNCHANGED vars

\* gocron and Drain give up waiting after a time, and main returns.  Handlers
\* and runs may hang.
Fairness ==
    /\ WF_vars(alive /\ ShutdownStep("stop"))
    /\ WF_vars(alive /\ ProcessEnds)

Spec == Init /\ [][Next]_vars /\ Fairness

-----------------------------------------------------------------------------
(* Properties.                                                             *)

TypeOK ==
    /\ mode \in {"service", "interactive"}
    /\ boot \in {"connect", "jetstream", "subscribe", "schedule", "started", "failed"}
    /\ conn \in {"none", "open", "reconnecting", "draining", "closed"}
    /\ subscribed \subseteq Subjects
    /\ request \in [Subjects -> {"unsent", "queued", "busy", "answered", "lost"}]
    /\ sched \in {"none", "created", "started", "stopping", "stopped"}
    /\ run \in [AllRuns -> Active \cup {"none", "done"}]
    /\ counted \in [success : SUBSET AllRuns, failure : SUBSET AllRuns]
    /\ delivered \subseteq AllRuns
    /\ signalled \subseteq Callers
    /\ pos \in [Callers -> {"none", "begin", "waiting", "scheduler", "drain", "returned"}]
    /\ unclean \subseteq Callers /\ drained \subseteq Callers
    /\ alive \in BOOLEAN
    /\ pos["run"] = "none" <=> boot # "started"

\* The scheduler is stopped before the connection is drained: while it drains,
\* no scheduled run has work to publish, unless gocron gave up waiting and
\* reported so to one of the callers of Shutdown.
QuietAtDrain ==
    conn = "draining" /\ unclean = {} => \A r \in Runs : run[r] \notin Active

\* A start that fails, at whichever step, leaves no connection over which commands
\* arrive, although subscriptions and the inventory run were there before it
\* failed; nor is it opened again by a reconnect that was under way.
FailedStartIsClosed ==
    boot = "failed" => conn \in {"none", "closed"}

\* TaskStats, which the health report shows, against what was handed to JetStream: a
\* run is counted as a success only after its report was accepted, and as one or the
\* other only; a message of a scrape is counted, except while the run is between the
\* publication and the count, which the end of the process may make for ever.
CountedWasDelivered ==
    /\ counted.success \subseteq delivered \ counted.failure
    /\ \A r \in delivered :
          Kind[r] = "metrics" /\ run[r] # "record" => r \in counted.success \cup counted.failure

\* Told to stop, the process ends, even if a run or a handler hangs and whether
\* or not agent.Run shuts down at the same time.
StopEnds == "stop" \in signalled ~> ~alive

\* "Drain NATS connection (wait for in-flight messages)", agent.go:112; "waiting
\* for in-flight messages to complete", client.go:256: when Drain has completed
\* successfully, no handler is at work any more.
DrainWaitsForHandlers == drained # {} => \A s \in Subjects : request[s] # "busy"
=============================================================================
