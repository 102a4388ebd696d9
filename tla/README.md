# Verification of win-agent

TLA+ models of `win-agent`, a Windows management agent: it is driven by commands
over NATS request/reply, and publishes heartbeats, metrics, service states and an
inventory to JetStream.  The models follow the Go source; `PROJECT.json` maps each
definition to the lines it stands for.

## 1. Inventory

| Component | Source | State | Operations | Modelled by |
|---|---|---|---|---|
| Metrics collector | `internal/tasks/metrics.go`, cache in `executor.go` | last CPU and disk counters, last timestamp | `ScrapeMetrics` (fetch, CPU section, disk section, validation) | `MetricsScrape` |
| Command handlers | `internal/nats/handlers.go` | none of their own; one goroutine per subscription | ping, service, logs, exec, health; panic recovery | `CommandHandlers`, `RequestReply` |
| Statistics | `internal/tasks/executor.go` | `ExecutorStats`, `TaskStats`, a lock each | `Record*`, `Get*Metrics` | `CommandHandlers`, `AgentLifecycle` |
| Command execution | `internal/tasks/exec_windows.go` | runner goroutine, channel, process | `ExecuteCommand` with a timeout | `CommandExec` |
| Agent process | `internal/agent/agent.go`, `cmd/win-agent/main.go` | position in start and shutdown | `New`, `Run`, `Shutdown`, `Start`, `Stop` | `AgentLifecycle` |
| Scheduler | `internal/scheduler/scheduler.go` | gocron jobs | baseline loop, four jobs, `Shutdown` | `MetricsScrape` (baseline), `AgentLifecycle` (jobs), `AgentConfig` (which are accepted) |
| NATS client | `internal/nats/client.go` | the connection | connect, subscribe, publish, drain, close | `AgentLifecycle`, `CommandHandlers`, `AgentConfig` (options) |
| Service control | `internal/tasks/service_windows.go` | none (the service manager's) | start, stop, restart with polling; service check | `ServiceControl` |
| Log retrieval | `internal/tasks/logs.go` | none | two readers of the last lines, path check | `LogTail` |
| Configuration | `internal/config/config.go` | none | load, defaults, validation | `AgentConfig` |
| Inventory, heartbeat, rounding, stubs, logger | other files | none | pure I/O and constructors | not modelled |

How they interact: `agent.New` connects, subscribes the handlers and only then
builds the scheduler, whose construction runs the metrics baseline; so commands are
handled while the agent is still starting.  The handlers and the jobs share one
`Executor`, each part of it under its own lock.  The NATS client calls each
subscription's handler in a goroutine of its own; gocron runs each job in a
goroutine and starts a job again while its last run is still working.  Two
goroutines, `agent.Run` and the service framework, may shut the agent down.

What is hard in this code, and what makes each part correct:

* *Metrics.*  Rates are differences against a cache that overlapping runs share,
  with two locked sections per scrape, the clock read between them, counters that
  restart, scrapes that fail half way.  Correct: nothing impossible is published;
  a scrape nobody disturbed is sane whatever failed before; the baseline serves its
  purpose and never blocks the start for good.
* *Commands.*  Handlers of different subjects interleave; a handler may fail, panic
  or hang, and a reply may be refused.  Correct: one reply per request, in order;
  counters that agree with the replies; ping and health not held up by a hung command.
* *Execution.*  A timeout races the end of the process, the creation of the process
  and children that hold its pipes.  Correct: every call returns; output is read
  when it is final; nothing leaks or overlaps.
* *Process.*  A start may fail at every step; shutdown may run twice at once while
  jobs and handlers are working.  Correct: a failed start leaves no connection behind;
  a message is published before it is counted as a success, and only then; the scheduler is quiet before the connection drains; stop always ends.

* *Services.*  The agent learns of a service's state only by asking, every 500 ms, and
  the service changes by itself or because somebody else asked.  Correct: a success
  claims only what happened; a service the agent left down is reported; every wait ends.
* *Logs.*  The size decides between two readers, and the file is written to or
  truncated while it is read.  Correct: the answer is the last lines of one state of the
  file, or an error; which reader was chosen matters only for unusual files.
* *Configuration.*  What `validate` lets pass is used much later by code that checks
  little.  Correct: agents' subjects do not meet; an agent identifies itself as
  configured; what is accepted can be started.

The hazards, each at its line and with the properties aimed at it, are listed in
`PROJECT.json`.

## 2. Modules

| Module | What it is |
|---|---|
| `MetricsScrape` | host, cache, the steps of a scrape, the baseline loop |
| `CommandHandlers` | five subscriptions, handlers step by step, statistics, health report |
| `RequestReply` | abstract: what a control plane is promised |
| `CommandExec` | handler, runner, process and child of an exec request |
| `AgentLifecycle` | start, connection, handlers and jobs in flight, two shutdowns |
| `ServiceControl` | service manager, a control request, the service check |
| `LogTail` | a log file, its writer, the two readers |
| `AgentConfig` | configuration files of several hosts, and what a start makes of them |
| `MC*` | the instances TLC checks |
| `*_proofs` | theorems and their proofs |

Definitions marked "Seeded fault" are not part of a specification: each is the
form a plausible bug would give the definition that follows it, and replacing that
definition by it makes TLC report the property it is paired with in `PROJECT.json`.

### MetricsScrape

A *scraper* is one run of the job.  Its `pc` walks through `Fetch` (the HTTP request,
or `FetchFails`), `CPUSection` (the first lock), `ReadClock` (`now := time.Now()`,
metrics.go:290, outside the lock), `DiskSection` (the second lock, in which the first
scrape stores a baseline, a later one computes rates, and one that finds a timestamp
not before its own does neither), `Validate`, and back to its caller.  `lastCPU`,
`lastDisk` and `lastTimestamp` are `metricsCache`.  The host ticks, and a volume may
be attached again, which restarts its counters.  A rate is kept as the pair of bytes
and seconds whose quotient it is.  `established` says that the baseline loop succeeded
(`baselineErr == nil`, scheduler.go:97), at its first attempt or a later one.  `fresh` (runs under whose sample no other run has
written the cache) and `base` (the incarnation cached counters come from) are history
variables used by properties only.

Abstracted: names of metrics, sums over cores, rounding, and the gauges for memory and
disk space, whose checks pass or fail by choice.  A CPU counter that restarts without
the agent restarting is left out: it happens when the machine restarts.

### CommandHandlers and RequestReply

Per subscription: the message queue of the NATS client, the request at hand and the
position in the handler.  A handler's steps are its accesses to shared state:
parsing, execution, counting, reply; where a request does not parse the reply comes
before the count, as in the code.  `msg.Respond` may fail, because the reply is larger than
the server accepts, the reconnect buffer is full or the connection closed, and what it
took may be lost with the connection; every handler ignores its error.  `Respond` therefore
counts a reply that was made (`calls`) and, or not, one that arrived (`n`): a log fetch of
10000 lines may well be counted as a success and never be answered.  `handleHealth` is five steps, since each of its
sources is read by itself; `HealthCoversAnswered` claims the count of processed commands
only, not that the parts of a report stem from one moment.  What a command does is a choice between success,
error and panic.  `RequestReply` has one line of requests per subject; the oldest one
is replied to once, and the reply arrives or is refused, after which the request stays
without an answer.  The refinement maps the line to the request at hand, until its reply is
made, followed by the queue.

### CommandExec

The handler's select, the runner goroutine in `cmd.Run` (split where the process is
created, where `cmd.Process` becomes visible, and where `Wait` returns, which needs
both the process's end and its pipes'), the channel of capacity one, the process and
a child.  The exec subject hands over one request at a time, so calls are serial;
what an earlier call left behind is not.

### AgentLifecycle

`boot` is the position in `program.Start` and `agent.New`; `pos` the position of each
caller of `agent.Shutdown`; `run` the position of each run of a job.  gocron and
nats.go are external and modelled as the code relies on them: gocron's `Shutdown`
returns without error only when the runs it started have ended, and gives up after a
bounded time; `Conn.Drain` starts the draining and returns.  An interrupt of the
interactive program reaches `agent.Run` and the framework; a service gets a stop.
A run publishes (`Publish`, `PublishFails`) and then counts (`Record`), two steps between
which other goroutines, a shutdown and the end of the process may come: a metrics message
may be out that is not counted yet, or never will be.

### ServiceControl

`state` is the service manager's; `Settle` and `Event` change it, at any moment and not
by the agent's doing.  `pc` walks through `ControlService`: `Open` or `Refuse`, the stop
and the start, each of which the manager accepts or not, and the two waits.  A wait is
`waitForServiceState` query by query; `MaxPolls` is the number of queries that fit into
its 30 s, after which, or earlier if queries are slow, `TimesOut` answers.  The service
check fills in its list beside it, one service at a step.  `been` and `cause` are history
variables: what a service went through since a request asked for it, and the request
that stopped it.

What the code does and a reader may not expect, and the properties therefore allow: a
`start` is answered when the manager has accepted it, not when the service runs, and
success says what happened, not what still holds.  The text of that answer, "started
successfully" (service_windows.go:48), claims more than `SuccessIsTrue` does for a start.

### LogTail

`Open` takes the size and chooses the reader.  Both readers fill `buffer` from the file
and work through it a byte at a step, `ReadForward` and `ScanByte` (`bufio.Scanner` on a
small file, up to wherever its end is by then), `ReadBackward` and `CollectByte` (the two
loops of `readLastNLines`); `found` has the lines so far and the one in progress.
`EndOfFile`, `ScanFails`, `ReadFails` and `Finish` answer.  The program that writes the log
appends (`AppendByte`) and truncates (`Truncate`) between any two of these.

The properties compare each reader with `TextLines` and `VisibleLines`, which say what the
lines of a file are without reading it: as the sets of positions at which they end, and
the positions that belong to each.  They record the difference between the two: the backward
reader skips empty lines, drops every CR and reverses the lines rune by rune, which
garbles characters of more than one byte (`CollectedTail` claims the contents of the
other lines only); the forward one fails on a line at the scanner's limit, even one
that was not asked for (`ScannedTail`).  `PlainTail` says that for plain text the choice
of the reader makes no difference.  A file that is truncated and filled again beyond the
offset `readLastNLines` has reached is answered with old and new contents mixed, which the
code cannot notice: `CollectedTail` excludes that case, and `ScannedTail` any truncation.

### AgentConfig

`file` and `disk` belong to the operators.  `Load` or `LoadFails` is `config.Load`: the
defaults (`WithDefaults`), then `Valid`, whose parts are named for the blocks of
`validate`.  `Connect`, `Subscribe` and `Schedule`, each with its failure, are the steps
of `agent.New` that use the configuration.  What the connection was given is in
`presents`: secret, certificate, and how it checks the server (`ServerCheck`).  With
`insecure_skip_verify` the authority that is named is still read, and a bad file ends the
start, but the server is not checked; `ConnectsAsConfigured` says that this happens only
then.  A subject is the sequence of its symbols:
prefix, dot, device id, dot, and the words of the command or the report.  Any number of
hosts share the server.

`validate` bounds the heartbeat's and the metrics' interval only.  With an interval of
0 for the service check or the inventory, `gocron` refuses the job, and the agent ends
after it has connected and subscribed (`LateRefusalIsUnchecked`); for the inventory's
interval it has also sent the startup inventory by then.

## 3. Runs

| Run | Instance | Shows |
|---|---|---|
| `metrics_overlap` | 2 overlapping runs, 1 volume with 2 incarnations, time 1..3 | types; `PublishedSane`; `CleanScrapeIsSane` |
| `metrics_sequential` | 1 run at a time, 2 volumes, time 1..3, a baseline that succeeds at the first or the second of 2 attempts, or not | `PublishedSane`; `BaselineGivesCPU`; `BaselineEnds` |
| `metrics_write_rate` | 1 volume, any transfer | violated: `WriteRateReported` |
| `commands` | 4 requests, two of them in line on one subject; 1 lost connection or 1 scrape; any reply refused | types; `StatsMatchAnswers`; `HealthCoversAnswered`; refinement of `RequestReply`; `PromptlyAnswered` |
| `health_rate` | 1 health check, 3 scrapes | violated: `FailingMetricsDegrade` |
| `exec` | 2 calls | types; `ResultIsFinal`; `OverlapOnlyWhileStarting`; `EveryCallReturns`; `RunnerFinishes` |
| `exec_kill` | 1 call | violated: `TimedOutIsKilled` |
| `lifecycle` | 2 subjects, 2 runs and the startup inventory, both start modes | types; `QuietAtDrain`; `FailedStartIsClosed`; `CountedWasDelivered`; `StopEnds` |
| `service_control` | 4 requests, 1 service and one that does not exist, 2 queries per wait, 2 events | types; `SuccessIsTrue`; `DownIsReported`; `ReportComplete`; `EveryCallReturns` |
| `log_tail` | all files of up to 4 bytes and some longer; 1 to 3 lines; chunks of 2, limit 3; 2 writes | types; `ScannedTail`; `CollectedTail`; `PlainTail`; `FetchEnds` |
| `config` | 2 hosts, 94 files, 1 change of a file | types; `OneAddressee`; `TelemetryIsNoCommand`; `ConnectsAsConfigured`; `LateRefusalIsUnchecked` |
| `lifecycle_drain` | 1 subject, 1 run | violated: `DrainWaitsForHandlers` |

The four violated properties state what a comment of the source says; the findings in
`PROJECT.json` quote it and describe the counterexample.

*Bounds.*  `MaxClock`, `MaxEpoch` and `Transfers` bound the host, `MaxRetries` the
baseline loop (3 in the code; two attempts give success at the first, success at the
last after a failure, and failure), `MaxEvents` of `CommandHandlers` the environment of the
health check, scrapes and lost connections together.  Two runs are enough for every way one run can disturb another, since a scrape
compares its sample only with the last write of the cache; three ticks give a
baseline, a disturbed and a following scrape, and two incarnations one restart of the
counters.  Two requests on a subject show order and reuse of the goroutine.  In
`exec`, the second call meets everything a first one can leave behind.  `MaxPolls` is 60
in the code: two queries give a wait that succeeds at once, after a sleep, or not at
all; `MaxEvents` of `ServiceControl`, two, lets a service pass through a state and leave it.  In
`log_tail` the sizes shrink together (1 MB, 4096 bytes and 64 kB become 4, 2 and 3):
small and large files, several chunks with a line across their boundary, and lines at
the scanner's limit all occur.  In `config` one host takes part with names that could
be mistaken for the other's, the other with every section good and bad; one change
suffices for a file that goes bad between `validate` and its use.  Every run
checks deadlock; `AtBound`, `AllHandled`, `AllReturned`, `Answered` and the ended process
are the only states in which nothing more happens.

*Fairness.*  Weak fairness is assumed of goroutines that can run: a step of a scrape
(its only wait is the HTTP request, which gives up after 30 s), a delivery to an idle
subscription, a handler's step outside Windows, a timer, gocron's and `Drain`'s timeouts,
the steps of `ControlService`, of the service check and of the log readers (calls that
return), and the return of `main`.  Nothing is assumed of commands, processes, services,
scheduled runs, the control plane, the operators or the connection; `AgentConfig` states
no fairness.

## 4. Proofs

`tlapm` checks every proof; the theorems hold for all values of the constants.

* `MetricsScrape_proofs`: `TypeCorrect`, `PublishedIsSane`, `CleanRunsAreSane`,
  `BaselineIsUsed`.  For the second, the inductive invariant
  adds to the types that a run past `ReadClock` holds a positive time (`ClockRead`), and
  that from validation on the cache has a timestamp (`Stamped`).  The second is what
  makes `PublishedSane` inductive: `validateMetrics` skips its counter checks while the
  cache has none, and the run's own disk section has just stored one.  For the third,
  `Lag` says that every sample lags behind the host's counters, the cache too, and behind
  the sample of a run that is still alone; a counter of an earlier incarnation of its
  volume lags behind anything.  `BaselineStamped` says that a baseline loop that
  succeeded has left a timestamp.
* `CommandHandlers_proofs`: `TypeCorrect`, `StatsAgree`, `HealthIsCurrent`, and
  `AnswersOnceInOrder`, the safety part of the refinement of `RequestReply`.  `LineInv` says
  that a request waits in the line of its own subject, once and unanswered, and that no
  two handlers have the same one.  `StatsMatchAnswers` holds only between handlers; what
  is inductive is `CountInv`: the counters are the numbers of requests replied to, less a
  rejected one still to be counted, plus those counted and still to be replied to.  It does
  not ask what became of a reply; `ReceivedOrRefused` splits the number at the end.
  `KnownInv` follows a health check from the moment it was sent.  `HandlerStep` states once
  what a step of a handler leaves alone, and every action is shown to be one.
* `CommandExec_proofs`: `TypeCorrect`, `ReportedIsFinal` and `OverlapIsStarting`.  The
  invariant relates the runner's position to the process and the pipes (`RunnerInv`), a
  result to the position of handler and runner (`ReturnInv`), and says that calls are serial.
* `AgentLifecycle_proofs`: `TypeCorrect`, `QuietWhenDraining`, `FailedStartCloses`,
  `CountsAreDelivered`.  `BootInv` says nothing can be shut down before the start is done,
  `StopInv` that a caller past the scheduler leaves it stopped and, if no error was
  reported, its runs ended, `CountInv` how far a run at work has got: before `Publish` it has
  delivered nothing, before `Record` it is not counted as a success.
* `ServiceControl_proofs`: `TypeCorrect`, `SuccessesAreTrue`, `FailuresAreReported`,
  `ReportsAreComplete`.  `ProgressInv` says what each position in `ControlService` implies
  about what the service has been through, `CauseInv` that a service stopped by a request
  is that request's target, `CheckInv` that the entries so far are those of the
  services before `next`.
* `AgentConfig_proofs`: `TypeCorrect`, `AgentsAreApart`, `TelemetryIsApart`,
  `IdentifiesItself`, `LateRefusals`.  The first two rest on lemmas about sequences: a
  device id has no dot, so what comes after the last dot of a subject, before it, and so
  on, is determined, whatever dots the prefix has.
* `LogTail_proofs`: `TypeCorrect`, `ForwardIsTail`, `BackwardIsTail`, `ReadersAgree`,
  `ReadersAdvance`.  What a
  reader has found so far is a function of the file and of how much of it has been read;
  the invariant says which, and that the buffer holds the bytes that come next.
  `ScanInv`: the scanner, q bytes into the file, has the lines that end there, none of
  them at the limit, and the beginning of the next; appending changes nothing before q.
  `CollectInv`: the backward reader, with q bytes before it, has the visible lines that
  begin behind them, each reversed, and the reversed end of the line that goes across q.
  It is about the file as it was opened, which the file still begins with unless it was
  truncated; then it is empty until it is written to again, and every read fails.  `TextStep`
  and `CollectedStep` show that one byte of `Scan` and of `Collect` goes from q to q + 1 and
  from q to q - 1, `AllLines` and `CollectedIsTail` that at the end the lines are those of
  the file.  `PlaceInv` says what each place in the code implies otherwise, for instance
  that no line is in progress when the backward reader has enough.  `ReadersAgree` follows
  from the two others: in plain text the lines and the visible lines are the same.
  `ReadersAdvance` is what `FetchEnds` rests on: each step of `FetchLogLines` lowers `Left`, and
  only an append to a file that is being scanned raises it, so `readLastNLines` ends whatever
  the owner does, and `readAllLines` unless the owner appends for ever.
  TLC finds no violation of `PlaceInv`, `ScanInv` and `CollectInv` on the instance of `log_tail`.

The lines of a file are picked by rank from sets of positions, so nothing in `LogTail` is
recursive.  The first lemmas of its proofs say how ranks behave when a position is added
before or behind all others; that there is an element of every rank rests on `LeastNat`,
which is derived from the library's well-foundedness of finite sets under inclusion, in
place of its induction theorems, which take an operator.

Assumed: the named `ASSUME`s on the constants, and the behaviour of the external parts
described above.  Only model-checked: the liveness properties (proofs under fairness and
`ENABLED` are beyond the prover) and the liveness part of the refinement of
`RequestReply`.  Every safety property of a passing run is a theorem.

## 5. Plan

`MetricsScrape`, `CommandHandlers`, `CommandExec` and `AgentLifecycle` came first, as the
parts where goroutines meet; then `ServiceControl`, `LogTail` and `AgentConfig`, which
depend on an environment that changes by itself.  What is left, in this order:

1. The goroutine that waits for the acknowledgement of a publish, beside the drain.
2. The whitelist and script paths of `ExecuteCommand` as predicates.
3. Measures like `Left` for the waits of `ServiceControl` and for the baseline loop, the
   provable part of their liveness.

## 6. Not modelled

What nats.go does with the options it is given, the inventory's collectors
(registry reads without state), the whitelist of commands and the check of log paths
(string matching on the host's file system; a choice of allowed or denied in
`CommandExec` and `LogTail`), the wait for a publish's acknowledgement (it only logs),
log rotation by the logging library, the stubs for other
platforms, `PublishTelemetrySync` (no caller), a kill of the process (nothing is
persisted, so a restart is a new start), and payload formatting.
