---------------------------- MODULE MetricsScrape ----------------------------
(***************************************************************************)
(* The metrics collector of the agent: tasks/metrics.go (ScrapeMetrics,    *)
(* parsePrometheusMetrics, validateMetrics), the metricsCache of           *)
(* tasks/executor.go, and the baseline loop that scheduler/scheduler.go    *)
(* runs before any job exists.  What publishMetrics does with the outcome  *)
(* of a later scrape is not in this module.                                *)
(*                                                                         *)
(* CPU use and disk rates are differences of counters, so every scrape     *)
(* compares its sample with what the previous one left in the cache.  The  *)
(* cache is locked twice per scrape (CPU, then disks) and the clock is     *)
(* read between the two, outside the lock.  gocron runs a job again while  *)
(* its last run is still working, so scrapes may overlap: a scraper here   *)
(* is one such run.                                                        *)
(*                                                                         *)
(* Abstracted: whether the memory and disk space gauges pass their checks  *)
(* is a choice made where they are checked; a rate is kept as the pair     *)
(* [bytes, secs] it is the quotient of, so rounding is left out.           *)
(***************************************************************************)
EXTENDS Naturals, Integers, FiniteSets

CONSTANTS
    Scrapers,      \* runs of the metrics job that may be alive together
    Drives,        \* volumes windows_exporter can report
    SizedDrives,   \* those whose size rounds to more than 0 GB
    MaxRetries,    \* attempts of the baseline loop (3 in the code)
    MaxClock,      \* bound: how far time runs
    MaxEpoch,      \* bound: incarnations of a drive's counters
    Transfers      \* bound: what a drive may transfer in one tick, as [r, w]

ASSUME ScrapersAssumption == Scrapers # {}
ASSUME DrivesAssumption == SizedDrives \subseteq Drives
ASSUME BoundsAssumption ==
    /\ MaxRetries \in Nat \ {0}
    /\ MaxClock \in Nat \ {0}
    /\ MaxEpoch \in Nat \ {0}
    /\ Transfers \subseteq [r : Nat, w : Nat]

VARIABLES
    \* The host, seen through windows_exporter.
    clock, cpu, drive,
    \* Executor.metricsCache.
    lastCPU, lastDisk, lastTimestamp,
    \* One scrape in progress: its position and its locals.
    pc, sample, now, report,
    \* The scheduler: the turns of its baseline loop, whether the loop is over and
    \* whether one of its scrapes succeeded, and when the job last fired.
    attempt, baselined, established, lastStart,
    \* History: the scrapers no other run has written the cache under, and
    \* the incarnation the cached counters of each drive come from.
    fresh, base

host == <<clock, cpu, drive>>
cache == <<lastCPU, lastDisk, lastTimestamp>>
locals == <<sample, now, report>>
sched == <<attempt, baselined, established, lastStart>>
history == <<fresh, base>>
vars == <<host, cache, pc, locals, sched, history>>

ZeroTime == 0     \* time.Time{}; the clock starts at 1
Counters == [r : Nat, w : Nat]
Volume == [r : Nat, w : Nat, epoch : Nat]
Rate == [bytes : Int, secs : Nat]
NoRate == [bytes |-> 0, secs |-> 0]
NoCPU == [busy |-> 0, total |-> 0]

Sample == [cpu : BOOLEAN, total : Nat, idle : Nat, present : SUBSET Drives,
           disk : [Drives -> Volume]]
NoVolume == [r |-> 0, w |-> 0, epoch |-> 0]
NoSample == [cpu |-> FALSE, total |-> 0, idle |-> 0, present |-> {},
             disk |-> [d \in Drives |-> NoVolume]]
Report == [cpu : [busy : Int, total : Nat],
           read : [Drives -> Rate], write : [Drives -> Rate]]
NoReport == [cpu |-> NoCPU, read |-> [d \in Drives |-> NoRate],
             write |-> [d \in Drives |-> NoRate]]

-----------------------------------------------------------------------------
(* The computation of one report.                                          *)

\* Seeded fault: a previous sample is recognised by its idle time.
CPUShareByIdle(smp) ==
    LET total == smp.total - lastCPU.total
        idle == smp.idle - lastCPU.idle
    IN  IF lastTimestamp # ZeroTime /\ smp.total > 0 /\ lastCPU.idle > 0 /\ total > 0
        THEN [busy |-> total - idle, total |-> total]
        ELSE NoCPU

\* The CPU share since the cached sample; NoCPU when there is none, or when
\* the counters have not advanced.
CPUShare(smp) ==
    LET total == smp.total - lastCPU.total
        idle == smp.idle - lastCPU.idle
    IN  IF lastTimestamp # ZeroTime /\ smp.total > 0 /\ lastCPU.total > 0 /\ total > 0
        THEN [busy |-> total - idle, total |-> total]
        ELSE NoCPU

\* A counter of zero in the cache counts as "no previous measurement".
RateOf(current, previous, secs) ==
    IF previous > 0 THEN [bytes |-> current - previous, secs |-> secs] ELSE NoRate

\* What the read pass leaves of a drive's cache entry: an entry without read
\* bytes is replaced by a new one, its write bytes included.
AfterRead(entry, current) ==
    [r |-> current, w |-> IF entry.r = 0 THEN 0 ELSE entry.w]

\* The drives a report lists.
Listed(rep, smp) ==
    {d \in smp.present : \/ d \in SizedDrives
                         \/ rep.read[d].bytes > 0
                         \/ rep.write[d].bytes > 0}

SaneCPU(rep) == 0 <= rep.cpu.busy /\ rep.cpu.busy <= rep.cpu.total
SaneRates(rep, smp) ==
    \A d \in Listed(rep, smp) : rep.read[d].bytes >= 0 /\ rep.write[d].bytes >= 0

\* Seeded fault: validateMetrics does not check the rates.
ValidWithoutRates(rep, smp) == lastTimestamp # ZeroTime => SaneCPU(rep)

\* validateMetrics on the counter metrics, which it skips while the cache has
\* no timestamp.
Valid(rep, smp) == lastTimestamp # ZeroTime => SaneCPU(rep) /\ SaneRates(rep, smp)

-----------------------------------------------------------------------------
Init ==
    /\ clock = 1
    /\ cpu = [idle |-> 0, busy |-> 1]
    /\ \E moved \in [Drives -> Transfers] :
          drive = [d \in Drives |-> [r |-> moved[d].r, w |-> moved[d].w, epoch |-> 1]]
    /\ lastCPU = [total |-> 0, idle |-> 0]
    /\ lastDisk = [d \in Drives |-> [r |-> 0, w |-> 0]]
    /\ lastTimestamp = ZeroTime
    /\ pc = [s \in Scrapers |-> "idle"]
    /\ sample = [s \in Scrapers |-> NoSample]
    /\ now = [s \in Scrapers |-> ZeroTime]
    /\ report = [s \in Scrapers |-> NoReport]
    /\ attempt = 0 /\ baselined = FALSE /\ established = FALSE /\ lastStart = 0
    /\ fresh = {} /\ base = [d \in Drives |-> 0]

-----------------------------------------------------------------------------
(* The host.                                                               *)

\* Time passes, the CPU is busy or idle, drives may transfer.
Tick ==
    /\ clock < MaxClock
    /\ clock' = clock + 1
    /\ \E idle \in {0, 1} :
          cpu' = [idle |-> cpu.idle + idle, busy |-> cpu.busy + (1 - idle)]
    /\ \E moved \in [Drives -> Transfers] :
          drive' = [d \in Drives |-> [drive[d] EXCEPT !.r = @ + moved[d].r,
                                                      !.w = @ + moved[d].w]]
    /\ UNCHANGED <<cache, pc, locals, sched, history>>

\* A volume is detached and attached again: its counters restart at zero.
Reattach(d) ==
    /\ drive[d].epoch < MaxEpoch
    /\ drive' = [drive EXCEPT ![d] = [r |-> 0, w |-> 0, epoch |-> @.epoch + 1]]
    /\ UNCHANGED <<clock, cpu, cache, pc, locals, sched, history>>

-----------------------------------------------------------------------------
(* Starting a scrape.                                                      *)

\* One turn of the baseline loop, alone: the jobs are not created yet.
BeginBaseline(s) ==
    /\ ~baselined /\ attempt < MaxRetries
    /\ \A t \in Scrapers : pc[t] = "idle"
    /\ attempt' = attempt + 1
    /\ pc' = [pc EXCEPT ![s] = "fetch"]
    /\ UNCHANGED <<host, cache, locals, baselined, established, lastStart, history>>

\* The metrics job fires, an interval (here: at least one tick) after it last
\* did, whether or not that run has ended.
BeginScheduled(s) ==
    /\ baselined /\ lastStart < clock
    /\ pc[s] = "idle"
    /\ lastStart' = clock
    /\ pc' = [pc EXCEPT ![s] = "fetch"]
    /\ UNCHANGED <<host, cache, locals, attempt, baselined, established, history>>

-----------------------------------------------------------------------------
(* ScrapeMetrics.                                                          *)

\* The exporter answers with the counters of this moment.
Fetch(s) ==
    /\ pc[s] = "fetch"
    /\ \E hasCPU \in BOOLEAN, present \in SUBSET Drives :
          sample' = [sample EXCEPT ![s] =
              [cpu |-> hasCPU,
               total |-> IF hasCPU THEN cpu.idle + cpu.busy ELSE 0,
               idle |-> IF hasCPU THEN cpu.idle ELSE 0,
               present |-> present,
               disk |-> [d \in Drives |->
                            IF d \in present THEN drive[d] ELSE NoVolume]]]
    /\ pc' = [pc EXCEPT ![s] = "cpu"]
    /\ fresh' = fresh \cup {s}
    /\ UNCHANGED <<host, cache, now, report, sched, base>>

\* No answer within 30 s, a status other than 200 or a body that does not
\* decode: the cache is not touched.
FetchFails(s) ==
    /\ pc[s] = "fetch"
    /\ pc' = [pc EXCEPT ![s] = "failed"]
    /\ UNCHANGED <<host, cache, locals, sched, history>>

\* The first locked section.
CPUSection(s) ==
    /\ pc[s] = "cpu"
    /\ pc' = [pc EXCEPT ![s] = "now"]
    /\ \/ /\ sample[s].cpu
          /\ report' = [report EXCEPT ![s].cpu = CPUShare(sample[s])]
          /\ lastCPU' = [total |-> sample[s].total, idle |-> sample[s].idle]
          /\ fresh' = fresh \cap {s}
       \/ /\ ~sample[s].cpu
          /\ UNCHANGED <<report, lastCPU, fresh>>
    /\ UNCHANGED <<host, lastDisk, lastTimestamp, sample, now, sched, base>>

\* now := time.Now(), before the lock is taken.
ReadClock(s) ==
    /\ pc[s] = "now"
    /\ pc' = [pc EXCEPT ![s] = "disk"]
    /\ now' = [now EXCEPT ![s] = clock]
    /\ UNCHANGED <<host, cache, sample, report, sched, history>>

\* Seeded fault: time is taken to have passed since the last scrape.
AlwaysAdvanced(s) == TRUE

\* timeDelta > 0.
Advanced(s) == now[s] > lastTimestamp

\* Seeded fault: the baseline of a counter that restarted is not lowered.
StoreOnlyHigher(s) ==
    LET higher(x, y) == IF x > y THEN x ELSE y
    IN  /\ lastDisk' = [d \in Drives |->
              [r |-> higher(sample[s].disk[d].r, lastDisk[d].r),
               w |-> higher(sample[s].disk[d].w, lastDisk[d].w)]]
        /\ base' = [d \in Drives |->
              IF d \in sample[s].present THEN sample[s].disk[d].epoch ELSE base[d]]

\* Both passes store the counters of the drives the sample has.
StoreDisks(s) ==
    /\ lastDisk' = [d \in Drives |->
          IF d \in sample[s].present
          THEN [r |-> sample[s].disk[d].r, w |-> sample[s].disk[d].w]
          ELSE lastDisk[d]]
    /\ base' = [d \in Drives |->
          IF d \in sample[s].present THEN sample[s].disk[d].epoch ELSE base[d]]

\* The very first scrape: a baseline, no rates.
DiskBaseline(s) ==
    /\ lastTimestamp = ZeroTime
    /\ StoreDisks(s)
    /\ UNCHANGED report

\* A later scrape: rates over the time since the last timestamp.
DiskRates(s) ==
    LET secs == now[s] - lastTimestamp
        disk == sample[s].disk
    IN  /\ lastTimestamp # ZeroTime /\ Advanced(s)
        /\ report' = [report EXCEPT
              ![s].read = [d \in Drives |->
                  IF d \in sample[s].present
                  THEN RateOf(disk[d].r, lastDisk[d].r, secs) ELSE NoRate],
              ![s].write = [d \in Drives |->
                  IF d \in sample[s].present
                  THEN RateOf(disk[d].w, AfterRead(lastDisk[d], disk[d].r).w, secs)
                  ELSE NoRate]]
        /\ StoreDisks(s)

\* An overlapping run has left a timestamp that is not earlier.
DiskSkipped(s) ==
    /\ lastTimestamp # ZeroTime /\ ~Advanced(s)
    /\ UNCHANGED <<report, lastDisk, base>>

\* The second locked section.
DiskSection(s) ==
    /\ pc[s] = "disk"
    /\ DiskBaseline(s) \/ DiskRates(s) \/ DiskSkipped(s)
    /\ lastTimestamp' = now[s]
    /\ pc' = [pc EXCEPT ![s] = "validate"]
    /\ fresh' = fresh \cap {s}
    /\ UNCHANGED <<host, lastCPU, sample, now, sched>>

\* The gauges (memory, disk space) are always checked, with either result.
Validate(s) ==
    /\ pc[s] = "validate"
    /\ \E gaugesSane \in BOOLEAN :
          pc' = [pc EXCEPT ![s] = IF gaugesSane /\ Valid(report[s], sample[s])
                                  THEN "publish" ELSE "failed"]
    /\ UNCHANGED <<host, cache, locals, sched, history>>

-----------------------------------------------------------------------------
(* What the callers do with the outcome.                                   *)

\* ScrapeMetrics has returned and its locals are gone.
Return(s) ==
    /\ pc' = [pc EXCEPT ![s] = "idle"]
    /\ sample' = [sample EXCEPT ![s] = NoSample]
    /\ now' = [now EXCEPT ![s] = ZeroTime]
    /\ report' = [report EXCEPT ![s] = NoReport]
    /\ fresh' = fresh \ {s}
    /\ UNCHANGED <<host, cache, base>>

BaselineSucceeds(s) ==
    /\ pc[s] = "publish" /\ ~baselined
    /\ baselined' = TRUE /\ established' = TRUE
    /\ Return(s)
    /\ UNCHANGED <<attempt, lastStart>>

\* Seeded fault: the last attempt is not recognised.
BaselineFailsOpen(s) ==
    /\ pc[s] = "failed" /\ ~baselined
    /\ baselined' = (attempt > MaxRetries)
    /\ Return(s)
    /\ UNCHANGED <<attempt, established, lastStart>>

\* The agent goes on without a baseline after the last attempt.
BaselineFails(s) ==
    /\ pc[s] = "failed" /\ ~baselined
    /\ baselined' = (attempt = MaxRetries)
    /\ Return(s)
    /\ UNCHANGED <<attempt, established, lastStart>>

\* A scheduled run hands its report, or its error, to publishMetrics.
ScrapeEnds(s) ==
    /\ pc[s] \in {"publish", "failed"} /\ baselined
    /\ Return(s)
    /\ UNCHANGED sched

-----------------------------------------------------------------------------
\* The steps of one run.
Step(s) ==
    \/ Fetch(s) \/ FetchFails(s) \/ CPUSection(s) \/ ReadClock(s)
    \/ DiskSection(s) \/ Validate(s)
    \/ BaselineSucceeds(s) \/ BaselineFails(s) \/ ScrapeEnds(s)

\* The bounds are exhausted and every run has ended.
AtBound ==
    /\ clock = MaxClock /\ baselined
    /\ \A s \in Scrapers : pc[s] = "idle"
    /\ UNCHANGED vars

Next ==
    \/ Tick
    \/ \E d \in Drives : Reattach(d)
    \/ \E s \in Scrapers : BeginBaseline(s) \/ BeginScheduled(s) \/ Step(s)
    \/ AtBound

\* The HTTP client gives up after 30 s and nothing else in a scrape waits but
\* for a lock held over straight-line code: a run always goes on.
Fairness ==
    /\ \A s \in Scrapers : WF_vars(Step(s))
    /\ WF_vars(\E s \in Scrapers : BeginBaseline(s))

Spec == Init /\ [][Next]_vars /\ Fairness

-----------------------------------------------------------------------------
(* Properties.                                                             *)

TypeOK ==
    /\ clock \in Nat \ {0}
    /\ cpu \in [idle : Nat, busy : Nat]
    /\ drive \in [Drives -> Volume]
    /\ lastCPU \in [total : Nat, idle : Nat]
    /\ lastDisk \in [Drives -> Counters]
    /\ lastTimestamp \in Nat
    /\ pc \in [Scrapers -> {"idle", "fetch", "cpu", "now", "disk", "validate",
                            "publish", "failed"}]
    /\ sample \in [Scrapers -> Sample]
    /\ now \in [Scrapers -> Nat]
    /\ report \in [Scrapers -> Report]
    /\ attempt \in 0 .. MaxRetries
    /\ baselined \in BOOLEAN /\ established \in BOOLEAN
    /\ lastStart \in Nat
    /\ fresh \subseteq Scrapers
    /\ base \in [Drives -> Nat]

\* No report with a CPU share outside 0..100 % or a negative rate is handed to
\* the publisher, however many runs overlap: validateMetrics asks the cache
\* again whether this is the first scrape, and by then it never is.
PublishedSane ==
    \A s \in Scrapers :
        pc[s] = "publish" => SaneCPU(report[s]) /\ SaneRates(report[s], sample[s])

\* A run that no other run overlapped, on drives whose counters did not restart
\* since they were cached, always computes sane values: one failed, skipped or
\* garbled scrape never makes the following ones fail.
CleanScrapeIsSane ==
    [][\A s \in Scrapers :
          /\ pc[s] = "disk" /\ pc'[s] = "validate"
          /\ s \in fresh
          /\ \A d \in sample[s].present : base[d] \in {0, sample[s].disk[d].epoch}
          => SaneCPU(report'[s]) /\ SaneRates(report'[s], sample[s])]_vars

\* Once the baseline loop has succeeded, at whichever attempt, every report of a run that no other
\* run overlapped has a CPU share, as soon as CPU time was ever sampled and has
\* advanced: what the baseline is taken for (scheduler.go:83-84, 117-119).
BaselineGivesCPU ==
    [][\A s \in Scrapers :
          /\ pc[s] = "cpu" /\ pc'[s] = "now"
          /\ s \in fresh /\ established
          /\ sample[s].cpu /\ lastCPU.total \in 1 .. sample[s].total - 1
          => report'[s].cpu.total > 0]_vars

\* After two scrapes of a drive that had been written to before the first, the
\* second one reports its write rate ("Read/Write rate (requires previous
\* measurement)", metrics.go:31-32).
WriteRateReported ==
    [][\A s \in Scrapers, d \in Drives :
          /\ pc[s] = "disk" /\ pc'[s] = "validate"
          /\ s \in fresh /\ lastTimestamp # ZeroTime /\ now[s] > lastTimestamp
          /\ d \in sample[s].present /\ lastDisk[d].w > 0
          => report'[s].write[d].secs > 0]_vars

\* Startup never hangs on the baseline: after at most MaxRetries attempts the
\* jobs are created, whatever the exporter does.
BaselineEnds == <>baselined
=============================================================================
