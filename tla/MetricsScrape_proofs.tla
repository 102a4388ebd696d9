------------------------ MODULE MetricsScrape_proofs ------------------------
(***************************************************************************)
(* Proofs about MetricsScrape for any number of overlapping runs, volumes  *)
(* and ticks: type correctness; that no report with an impossible CPU      *)
(* share or rate reaches the publisher; that a run no other overlaps never *)
(* computes one; and that a baseline, once there, is used.                 *)
(***************************************************************************)
EXTENDS MetricsScrape, TLAPS

\* What a report may hold once the cache has a timestamp, and that it has one
\* when a run validates: the clock is past zero from the start, so the second
\* locked section always leaves a timestamp, and nothing clears it.
ClockRead == \A s \in Scrapers : pc[s] = "disk" => now[s] # ZeroTime
Stamped ==
    \A s \in Scrapers : pc[s] \in {"validate", "publish"} => lastTimestamp # ZeroTime

IInv == TypeOK /\ ClockRead /\ Stamped /\ PublishedSane

\* Each section of a scrape keeps the types: a difference of two counters is
\* an integer, an interval is stored only when it is positive.
LEMMA CPUShareType ==
    ASSUME TypeOK, NEW s \in Scrapers
    PROVE  CPUShare(sample[s]) \in [busy : Int, total : Nat]
<1>1. sample[s].total \in Nat /\ sample[s].idle \in Nat
      /\ lastCPU.total \in Nat /\ lastCPU.idle \in Nat
  BY DEF TypeOK, Sample
<1> QED BY <1>1 DEF CPUShare, NoCPU

LEMMA RateOfType ==
    ASSUME NEW x \in Nat, NEW y \in Nat, NEW secs \in Nat
    PROVE  RateOf(x, y, secs) \in Rate
BY DEF RateOf, NoRate, Rate

LEMMA StoreDisksType ==
    ASSUME TypeOK, NEW s \in Scrapers, StoreDisks(s)
    PROVE  lastDisk' \in [Drives -> Counters] /\ base' \in [Drives -> Nat]
<1>1. \A d \in Drives : sample[s].disk[d] \in Volume
  BY DEF TypeOK, Sample
<1>2. lastDisk \in [Drives -> Counters] /\ base \in [Drives -> Nat]
  BY DEF TypeOK
<1> QED BY <1>1, <1>2 DEF StoreDisks, Counters, Volume

LEMMA DiskRatesType ==
    ASSUME TypeOK, NEW s \in Scrapers, DiskRates(s)
    PROVE  report' \in [Scrapers -> Report]
<1> DEFINE secs == now[s] - lastTimestamp
           disk == sample[s].disk
           read == [d \in Drives |->
                      IF d \in sample[s].present
                      THEN RateOf(disk[d].r, lastDisk[d].r, secs) ELSE NoRate]
           write == [d \in Drives |->
                      IF d \in sample[s].present
                      THEN RateOf(disk[d].w, AfterRead(lastDisk[d], disk[d].r).w, secs)
                      ELSE NoRate]
<1>1. secs \in Nat
  BY DEF TypeOK, DiskRates, Advanced
<1>2. ASSUME NEW d \in Drives
      PROVE  /\ disk[d].r \in Nat /\ disk[d].w \in Nat
             /\ lastDisk[d].r \in Nat
             /\ AfterRead(lastDisk[d], disk[d].r).w \in Nat
  BY DEF TypeOK, Sample, Volume, Counters, AfterRead
<1>3. NoRate \in Rate
  BY DEF NoRate, Rate
<1> HIDE DEF secs, disk
<1>4. read \in [Drives -> Rate]
  BY <1>1, <1>2, <1>3, RateOfType
<1>5. write \in [Drives -> Rate]
  BY <1>1, <1>2, <1>3, RateOfType
<1>6. report' = [report EXCEPT ![s].read = read, ![s].write = write]
  BY DEF DiskRates, secs, disk
<1> HIDE DEF read, write
<1>7. report \in [Scrapers -> Report]
  BY DEF TypeOK
<1> QED BY <1>4, <1>5, <1>6, <1>7 DEF Report

\* Every step keeps the types.
LEMMA TypeStep == TypeOK /\ [Next]_vars => TypeOK'
<1> SUFFICES ASSUME TypeOK, [Next]_vars PROVE TypeOK'
  OBVIOUS
<1> USE DEF host, cache, locals, sched, history
<1>1. CASE Tick
  <2>1. clock \in Nat /\ cpu \in [idle : Nat, busy : Nat] /\ drive \in [Drives -> Volume]
    BY DEF TypeOK
  <2>2. cpu' \in [idle : Nat, busy : Nat]
    <3>1. PICK idle \in {0, 1} :
            cpu' = [idle |-> cpu.idle + idle, busy |-> cpu.busy + (1 - idle)]
      BY <1>1 DEF Tick
    <3> QED BY <2>1, <3>1
  <2>3. drive' \in [Drives -> Volume]
    <3>1. PICK moved \in [Drives -> Transfers] :
            drive' = [d \in Drives |-> [drive[d] EXCEPT !.r = @ + moved[d].r,
                                                       !.w = @ + moved[d].w]]
      BY <1>1 DEF Tick
    <3>2. \A d \in Drives : moved[d].r \in Nat /\ moved[d].w \in Nat
      BY BoundsAssumption
    <3>3. ASSUME NEW d \in Drives
          PROVE  [drive[d] EXCEPT !.r = @ + moved[d].r, !.w = @ + moved[d].w] \in Volume
      <4>1. drive[d] \in [r : Nat, w : Nat, epoch : Nat]
        BY <2>1 DEF Volume
      <4>2. drive[d].r + moved[d].r \in Nat /\ drive[d].w + moved[d].w \in Nat
        BY <3>2, <4>1
      <4> QED BY <4>1, <4>2 DEF Volume
    <3> QED BY <3>1, <3>3
  <2>4. clock' \in Nat \ {0}
    <3>1. clock' = clock + 1
      BY <1>1 DEF Tick
    <3> QED BY <2>1, <3>1
  <2>5. UNCHANGED <<lastCPU, lastDisk, lastTimestamp, pc, sample, now, report,
                    attempt, baselined, established, lastStart, fresh, base>>
    BY <1>1 DEF Tick
  <2> QED BY <2>2, <2>3, <2>4, <2>5 DEF TypeOK
<1> USE DEF TypeOK
<1>2. ASSUME NEW d \in Drives, Reattach(d) PROVE TypeOK'
  BY <1>2 DEF Reattach, Volume
<1>3. ASSUME NEW s \in Scrapers, BeginBaseline(s) PROVE TypeOK'
  BY <1>3, BoundsAssumption DEF BeginBaseline
<1>4. ASSUME NEW s \in Scrapers, BeginScheduled(s) PROVE TypeOK'
  BY <1>4 DEF BeginScheduled
<1>5. ASSUME NEW s \in Scrapers, Fetch(s) PROVE TypeOK'
  <2>1. PICK hasCPU \in BOOLEAN, present \in SUBSET Drives :
          sample' = [sample EXCEPT ![s] =
              [cpu |-> hasCPU,
               total |-> IF hasCPU THEN cpu.idle + cpu.busy ELSE 0,
               idle |-> IF hasCPU THEN cpu.idle ELSE 0,
               present |-> present,
               disk |-> [d \in Drives |->
                            IF d \in present THEN drive[d] ELSE NoVolume]]]
    BY <1>5 DEF Fetch
  <2>2. [d \in Drives |-> IF d \in present THEN drive[d] ELSE NoVolume]
          \in [Drives -> Volume]
    BY DEF NoVolume, Volume
  <2>3. sample' \in [Scrapers -> Sample]
    BY <2>1, <2>2 DEF Sample
  <2> QED BY <1>5, <2>3 DEF Fetch
<1>6. ASSUME NEW s \in Scrapers, FetchFails(s) PROVE TypeOK'
  BY <1>6 DEF FetchFails
<1>7. ASSUME NEW s \in Scrapers, CPUSection(s) PROVE TypeOK'
  <2>1. report' \in [Scrapers -> Report]
    <3>1. CPUShare(sample[s]) \in [busy : Int, total : Nat]
      BY CPUShareType
    <3>2. \/ report' = report
          \/ report' = [report EXCEPT ![s].cpu = CPUShare(sample[s])]
      BY <1>7 DEF CPUSection
    <3>3. \A rep \in Report, share \in [busy : Int, total : Nat] :
             [rep EXCEPT !.cpu = share] \in Report
      BY DEF Report
    <3>4. report[s] \in Report
      OBVIOUS
    <3>5. [report[s] EXCEPT !.cpu = CPUShare(sample[s])] \in Report
      BY <3>1, <3>3, <3>4, Zenon
    <3> QED BY <3>2, <3>5
  <2>2. lastCPU' \in [total : Nat, idle : Nat]
    BY <1>7 DEF CPUSection, Sample
  <2> QED BY <1>7, <2>1, <2>2 DEF CPUSection
<1>8. ASSUME NEW s \in Scrapers, ReadClock(s) PROVE TypeOK'
  BY <1>8 DEF ReadClock
<1>9. ASSUME NEW s \in Scrapers, DiskSection(s) PROVE TypeOK'
  <2>1. /\ report' \in [Scrapers -> Report]
        /\ lastDisk' \in [Drives -> Counters]
        /\ base' \in [Drives -> Nat]
    <3>1. CASE DiskBaseline(s)
      BY <3>1, StoreDisksType DEF DiskBaseline
    <3>2. CASE DiskRates(s)
      BY <3>2, StoreDisksType, DiskRatesType DEF DiskRates
    <3>3. CASE DiskSkipped(s)
      BY <3>3 DEF DiskSkipped
    <3> QED BY <1>9, <3>1, <3>2, <3>3 DEF DiskSection
  <2> QED BY <1>9, <2>1 DEF DiskSection
<1>10. ASSUME NEW s \in Scrapers, Validate(s) PROVE TypeOK'
  BY <1>10 DEF Validate
<1>11. ASSUME NEW s \in Scrapers, Return(s),
              attempt' \in 0 .. MaxRetries, baselined' \in BOOLEAN,
              established' \in BOOLEAN, lastStart' \in Nat
       PROVE  TypeOK'
  <2>1. NoSample \in Sample
    BY DEF NoSample, Sample, NoVolume, Volume
  <2>2. NoReport \in Report
    BY DEF NoReport, Report, NoRate, Rate, NoCPU
  <2> QED BY <1>11, <2>1, <2>2 DEF Return, ZeroTime
<1>12. ASSUME NEW s \in Scrapers, BaselineSucceeds(s) PROVE TypeOK'
  BY <1>11, <1>12 DEF BaselineSucceeds
<1>13. ASSUME NEW s \in Scrapers, BaselineFails(s) PROVE TypeOK'
  BY <1>11, <1>13 DEF BaselineFails
<1>14. ASSUME NEW s \in Scrapers, ScrapeEnds(s) PROVE TypeOK'
  BY <1>11, <1>14 DEF ScrapeEnds
<1>15. CASE UNCHANGED vars
  BY <1>15 DEF vars
<1> QED
  BY <1>1, <1>2, <1>3, <1>4, <1>5, <1>6, <1>7, <1>8, <1>9, <1>10, <1>12, <1>13,
     <1>14, <1>15 DEF Next, Step, AtBound

LEMMA TypeInit == Init => TypeOK
<1> SUFFICES ASSUME Init PROVE TypeOK
  OBVIOUS
<1>1. drive \in [Drives -> Volume]
  <2>1. PICK moved \in [Drives -> Transfers] :
          drive = [d \in Drives |-> [r |-> moved[d].r, w |-> moved[d].w, epoch |-> 1]]
    BY DEF Init
  <2>2. \A d \in Drives : moved[d].r \in Nat /\ moved[d].w \in Nat
    BY BoundsAssumption
  <2> QED BY <2>1, <2>2 DEF Volume
<1>2. NoSample \in Sample
  BY DEF NoSample, Sample, NoVolume, Volume
<1>3. NoReport \in Report
  BY DEF NoReport, Report, NoRate, Rate, NoCPU
<1>4. lastDisk \in [Drives -> Counters]
  BY DEF Init, Counters
<1>5. /\ sample \in [Scrapers -> Sample] /\ report \in [Scrapers -> Report]
      /\ now \in [Scrapers -> Nat]
  BY <1>2, <1>3 DEF Init, ZeroTime
<1>6. attempt \in 0 .. MaxRetries
  BY BoundsAssumption DEF Init
<1>7. /\ clock \in Nat \ {0} /\ cpu \in [idle : Nat, busy : Nat]
      /\ lastCPU \in [total : Nat, idle : Nat] /\ lastTimestamp \in Nat
  BY DEF Init, ZeroTime
<1>8. /\ pc \in [Scrapers -> {"idle", "fetch", "cpu", "now", "disk", "validate",
                              "publish", "failed"}]
      /\ baselined \in BOOLEAN /\ established \in BOOLEAN /\ lastStart \in Nat
      /\ fresh \subseteq Scrapers /\ base \in [Drives -> Nat]
  BY DEF Init
<1> QED BY <1>1, <1>4, <1>5, <1>6, <1>7, <1>8 DEF TypeOK

\* TypeOK is an invariant for every value of the constants.
THEOREM TypeCorrect == Spec => []TypeOK
BY TypeInit, TypeStep, PTL DEF Spec

-----------------------------------------------------------------------------
(* The safety of what is published.                                        *)

LEMMA IInvInit == Init => IInv
<1> SUFFICES ASSUME Init PROVE ClockRead /\ Stamped /\ PublishedSane
  BY TypeInit DEF IInv
<1>1. \A s \in Scrapers : pc[s] = "idle"
  BY DEF Init
<1> QED BY <1>1 DEF ClockRead, Stamped, PublishedSane

\* A run at "publish" keeps its report and sample while others step, and gets
\* there only through Validate, with a stamped cache.
LEMMA IInvStep == IInv /\ [Next]_vars => IInv'
<1> SUFFICES ASSUME IInv, [Next]_vars PROVE ClockRead' /\ Stamped' /\ PublishedSane'
  BY TypeStep DEF IInv
<1> USE DEF IInv, ClockRead, Stamped, host, cache, locals, sched, history
<1>0. /\ pc \in [Scrapers -> {"idle", "fetch", "cpu", "now", "disk", "validate",
                               "publish", "failed"}]
      /\ sample \in [Scrapers -> Sample] /\ now \in [Scrapers -> Nat]
      /\ report \in [Scrapers -> Report] /\ clock \in Nat \ {0}
  BY DEF TypeOK
<1> DEFINE Kept(s) == pc'[s] = pc[s] /\ sample'[s] = sample[s] /\ report'[s] = report[s]
<1>a. ASSUME NEW s \in Scrapers, pc'[s] = "publish", Kept(s)
      PROVE  SaneCPU(report'[s]) /\ SaneRates(report'[s], sample'[s])
  BY <1>a DEF PublishedSane, SaneCPU, SaneRates, Listed
<1>b. ASSUME NEW s \in Scrapers,
             lastTimestamp' = lastTimestamp,
             \A t \in Scrapers \ {s} : Kept(t) /\ now'[t] = now[t],
             pc'[s] \notin {"disk", "validate", "publish"}
      PROVE  ClockRead' /\ Stamped' /\ PublishedSane'
  <2>1. ClockRead' /\ Stamped'
    BY <1>b
  <2>2. PublishedSane'
    BY <1>a, <1>b DEF PublishedSane
  <2> QED BY <2>1, <2>2
<1>1. CASE Tick
  BY <1>1, <1>a DEF Tick, PublishedSane
<1>2. ASSUME NEW d \in Drives, Reattach(d) PROVE ClockRead' /\ Stamped' /\ PublishedSane'
  BY <1>2, <1>a DEF Reattach, PublishedSane
<1>3. ASSUME NEW s \in Scrapers, BeginBaseline(s) \/ BeginScheduled(s) \/ Fetch(s)
                                 \/ FetchFails(s) \/ CPUSection(s)
      PROVE  ClockRead' /\ Stamped' /\ PublishedSane'
  BY <1>0, <1>3, <1>b
  DEF BeginBaseline, BeginScheduled, Fetch, FetchFails, CPUSection
<1>4. ASSUME NEW s \in Scrapers, ReadClock(s)
      PROVE  ClockRead' /\ Stamped' /\ PublishedSane'
  <2>1. ClockRead' /\ Stamped'
    BY <1>0, <1>4 DEF ReadClock, ZeroTime
  <2>2. PublishedSane'
    BY <1>0, <1>4, <1>a DEF ReadClock, PublishedSane
  <2> QED BY <2>1, <2>2
<1>5. ASSUME NEW s \in Scrapers, DiskSection(s)
      PROVE  ClockRead' /\ Stamped' /\ PublishedSane'
  <2>1. ClockRead' /\ Stamped'
    BY <1>0, <1>5 DEF DiskSection
  <2>2. \A t \in Scrapers \ {s} : Kept(t)
    BY <1>0, <1>5 DEF DiskSection, DiskBaseline, DiskRates, DiskSkipped
  <2>3. pc'[s] # "publish"
    BY <1>0, <1>5 DEF DiskSection
  <2>4. PublishedSane'
    BY <1>a, <2>2, <2>3 DEF PublishedSane
  <2> QED BY <2>1, <2>4
<1>6. ASSUME NEW s \in Scrapers, Validate(s)
      PROVE  ClockRead' /\ Stamped' /\ PublishedSane'
  <2>1. ClockRead' /\ Stamped'
    BY <1>0, <1>6 DEF Validate
  <2>2. ASSUME pc'[s] = "publish"
        PROVE  SaneCPU(report'[s]) /\ SaneRates(report'[s], sample'[s])
    <3>1. Valid(report[s], sample[s])
      BY <1>0, <1>6, <2>2 DEF Validate
    <3>2. SaneCPU(report[s]) /\ SaneRates(report[s], sample[s])
      BY <1>6, <3>1 DEF Validate, Valid
    <3> QED BY <1>6, <3>2 DEF Validate, SaneCPU, SaneRates, Listed
  <2>3. \A t \in Scrapers \ {s} : Kept(t)
    BY <1>0, <1>6 DEF Validate
  <2>4. PublishedSane'
    BY <1>a, <2>2, <2>3 DEF PublishedSane
  <2> QED BY <2>1, <2>4
<1>7. ASSUME NEW s \in Scrapers, BaselineSucceeds(s) \/ BaselineFails(s) \/ ScrapeEnds(s)
      PROVE  ClockRead' /\ Stamped' /\ PublishedSane'
  BY <1>0, <1>7, <1>b DEF BaselineSucceeds, BaselineFails, ScrapeEnds, Return
<1>8. CASE UNCHANGED vars
  BY <1>8, <1>a DEF vars, PublishedSane
<1> QED
  BY <1>1, <1>2, <1>3, <1>4, <1>5, <1>6, <1>7, <1>8 DEF Next, Step, AtBound

\* However many runs overlap, nothing with an impossible CPU share or a
\* negative rate is handed to the publisher.
THEOREM PublishedIsSane == Spec => []PublishedSane
<1>1. IInv => PublishedSane
  BY DEF IInv
<1> QED BY <1>1, IInvInit, IInvStep, PTL DEF Spec
-----------------------------------------------------------------------------
(* A run that no other overlaps.                                           *)

\* CPU times p were taken no later than q.
CPUBefore(p, q) ==
    /\ p.idle <= p.total
    /\ p.idle <= q.idle
    /\ p.total - p.idle <= q.total - q.idle

\* Counters p of a volume were taken no later than q, in the same incarnation
\* of the volume or in an earlier one.
VolumeBefore(p, q) ==
    /\ p.epoch <= q.epoch
    /\ p.epoch = q.epoch => p.r <= q.r /\ p.w <= q.w

HostCPU == [total |-> cpu.idle + cpu.busy, idle |-> cpu.idle]
Entry(d) == [r |-> lastDisk[d].r, w |-> lastDisk[d].w, epoch |-> base[d]]

\* The cache and every sample lag behind the host, and the cache behind the
\* sample of a run that is still alone.
CPULags ==
    /\ CPUBefore(lastCPU, HostCPU)
    /\ \A s \in Scrapers : CPUBefore(sample[s], HostCPU)
    /\ \A s \in fresh : pc[s] = "cpu" /\ sample[s].cpu => CPUBefore(lastCPU, sample[s])
DrivesLag ==
    /\ \A d \in Drives : drive[d].epoch # 0 /\ VolumeBefore(Entry(d), drive[d])
    /\ \A d \in Drives : base[d] = 0 => lastDisk[d].r = 0 /\ lastDisk[d].w = 0
SamplesLag ==
    \A s \in Scrapers : \A d \in sample[s].present :
        sample[s].disk[d].epoch # 0 /\ VolumeBefore(sample[s].disk[d], drive[d])
EntriesLag ==
    \A s \in fresh : \A d \in sample[s].present :
        pc[s] \in {"cpu", "now", "disk"} => VolumeBefore(Entry(d), sample[s].disk[d])

\* What the report of a run holds before its second locked section.
Unrated(s) == \A d \in Drives : report[s].read[d] = NoRate /\ report[s].write[d] = NoRate
ReportSoFar ==
    \A s \in Scrapers :
        /\ pc[s] \in {"idle", "fetch", "cpu"} => report[s].cpu = NoCPU
        /\ pc[s] \in {"idle", "fetch", "cpu", "now", "disk"} => Unrated(s)
        /\ s \in fresh /\ pc[s] \in {"now", "disk"} => SaneCPU(report[s])

Lag == TypeOK /\ CPULags /\ DrivesLag /\ SamplesLag /\ EntriesLag /\ ReportSoFar

\* A baseline that succeeded has left a timestamp.
BaselineStamped == established => lastTimestamp # ZeroTime

LEMMA CPUBeforeTransitive ==
    ASSUME NEW p, NEW q, NEW r,
           p.total \in Nat, p.idle \in Nat, q.total \in Nat, q.idle \in Nat,
           r.total \in Nat, r.idle \in Nat,
           CPUBefore(p, q), CPUBefore(q, r)
    PROVE  CPUBefore(p, r)
BY DEF CPUBefore

LEMMA VolumeBeforeTransitive ==
    ASSUME NEW p, NEW q, NEW r,
           p.r \in Nat, p.w \in Nat, p.epoch \in Nat,
           q.r \in Nat, q.w \in Nat, q.epoch \in Nat,
           r.r \in Nat, r.w \in Nat, r.epoch \in Nat,
           VolumeBefore(p, q), VolumeBefore(q, r)
    PROVE  VolumeBefore(p, r)
BY DEF VolumeBefore

\* CPU times only grow.  The cache takes the times of a sample, and whoever
\* overwrites it ends the solitude of all other runs.
LEMMA CPULagsStep == TypeOK /\ CPULags /\ [Next]_vars => CPULags'
<1> SUFFICES ASSUME TypeOK, CPULags, [Next]_vars PROVE CPULags'
  OBVIOUS
<1> USE DEF host, cache, locals, sched, history
<1>0. /\ cpu \in [idle : Nat, busy : Nat] /\ lastCPU \in [total : Nat, idle : Nat]
      /\ sample \in [Scrapers -> Sample]
      /\ pc \in [Scrapers -> {"idle", "fetch", "cpu", "now", "disk", "validate",
                               "publish", "failed"}]
      /\ fresh \subseteq Scrapers
  BY DEF TypeOK
<1>a. \A s \in Scrapers : sample[s].total \in Nat /\ sample[s].idle \in Nat
  BY <1>0 DEF Sample
<1>b. HostCPU.total \in Nat /\ HostCPU.idle \in Nat /\ CPUBefore(HostCPU, HostCPU)
  BY <1>0 DEF HostCPU, CPUBefore
<1>q. ASSUME UNCHANGED <<cpu, lastCPU, sample>>,
             \A t \in fresh' : t \in fresh /\ (pc'[t] = "cpu" => pc[t] = "cpu")
      PROVE  CPULags'
  BY <1>q DEF CPULags, CPUBefore, HostCPU
<1>1. CASE Tick
  <2>1. PICK idle \in {0, 1} :
          cpu' = [idle |-> cpu.idle + idle, busy |-> cpu.busy + (1 - idle)]
    BY <1>1 DEF Tick
  <2>2. /\ HostCPU'.total \in Nat /\ HostCPU'.idle \in Nat
        /\ CPUBefore(HostCPU, HostCPU')
    BY <1>0, <2>1 DEF HostCPU, CPUBefore
  <2>3. UNCHANGED <<lastCPU, pc, sample, fresh>>
    BY <1>1 DEF Tick
  <2>4. CPUBefore(lastCPU, HostCPU')
    BY <1>0, <1>b, <2>2, CPUBeforeTransitive DEF CPULags
  <2>5. \A s \in Scrapers : CPUBefore(sample[s], HostCPU')
    BY <1>a, <1>b, <2>2, CPUBeforeTransitive DEF CPULags
  <2> QED BY <2>3, <2>4, <2>5 DEF CPULags
<1>2. ASSUME NEW d \in Drives, Reattach(d) PROVE CPULags'
  BY <1>2, <1>q DEF Reattach
<1>3. ASSUME NEW s \in Scrapers, BeginBaseline(s) \/ BeginScheduled(s) \/ FetchFails(s)
                                 \/ ReadClock(s) \/ DiskSection(s) \/ Validate(s)
      PROVE  CPULags'
  BY <1>0, <1>3, <1>q
  DEF BeginBaseline, BeginScheduled, FetchFails, ReadClock, DiskSection, Validate
<1>4. ASSUME NEW s \in Scrapers, Fetch(s) PROVE CPULags'
  <2>1. /\ CPUBefore(sample'[s], HostCPU)
        /\ sample'[s].cpu => CPUBefore(lastCPU, sample'[s])
    <3>1. PICK hasCPU \in BOOLEAN, present \in SUBSET Drives :
            sample' = [sample EXCEPT ![s] =
                [cpu |-> hasCPU,
                 total |-> IF hasCPU THEN cpu.idle + cpu.busy ELSE 0,
                 idle |-> IF hasCPU THEN cpu.idle ELSE 0,
                 present |-> present,
                 disk |-> [d \in Drives |->
                              IF d \in present THEN drive[d] ELSE NoVolume]]]
      BY <1>4 DEF Fetch
    <3>2. /\ sample'[s].cpu = hasCPU
          /\ sample'[s].total = IF hasCPU THEN cpu.idle + cpu.busy ELSE 0
          /\ sample'[s].idle = IF hasCPU THEN cpu.idle ELSE 0
      BY <1>0, <3>1
    <3> QED BY <1>0, <3>2 DEF CPULags, CPUBefore, HostCPU
  <2>2. \A t \in Scrapers \ {s} : sample'[t] = sample[t] /\ pc'[t] = pc[t]
    BY <1>0, <1>4 DEF Fetch
  <2>3. UNCHANGED <<cpu, lastCPU>> /\ fresh' = fresh \cup {s}
    BY <1>4 DEF Fetch
  <2> QED BY <1>0, <2>1, <2>2, <2>3 DEF CPULags, HostCPU
<1>5. ASSUME NEW s \in Scrapers, CPUSection(s) PROVE CPULags'
  <2>1. UNCHANGED <<cpu, sample>> /\ pc' = [pc EXCEPT ![s] = "now"]
    BY <1>5 DEF CPUSection
  <2>2. CASE sample[s].cpu
    <3>1. /\ lastCPU' = [total |-> sample[s].total, idle |-> sample[s].idle]
          /\ fresh' = fresh \cap {s}
      BY <1>5, <2>2 DEF CPUSection
    <3>2. CPUBefore(lastCPU', HostCPU)
      BY <3>1 DEF CPULags, CPUBefore
    <3> QED BY <1>0, <2>1, <3>1, <3>2 DEF CPULags, HostCPU
  <2>3. CASE ~sample[s].cpu
    BY <1>0, <1>5, <1>q, <2>1, <2>3 DEF CPUSection
  <2> QED BY <2>2, <2>3
<1>6. ASSUME NEW s \in Scrapers, Return(s) PROVE CPULags'
  <2>1. sample'[s] = NoSample /\ \A t \in Scrapers \ {s} : sample'[t] = sample[t]
    BY <1>0, <1>6 DEF Return
  <2>2. CPUBefore(NoSample, HostCPU)
    BY <1>0 DEF NoSample, CPUBefore, HostCPU
  <2>3. UNCHANGED <<cpu, lastCPU>> /\ fresh' = fresh \ {s} /\ pc' = [pc EXCEPT ![s] = "idle"]
    BY <1>6 DEF Return
  <2> QED BY <1>0, <2>1, <2>2, <2>3 DEF CPULags, HostCPU
<1>7. CASE UNCHANGED vars
  BY <1>7, <1>q DEF vars
<1> QED
  BY <1>1, <1>2, <1>3, <1>4, <1>5, <1>6, <1>7
  DEF Next, Step, AtBound, BaselineSucceeds, BaselineFails, ScrapeEnds

\* Volumes only move on: their counters grow, or restart in a later incarnation.
LEMMA DrivesMoveOn ==
    ASSUME TypeOK, [Next]_vars, NEW d \in Drives
    PROVE  /\ drive[d] \in Volume /\ drive'[d] \in Volume
           /\ VolumeBefore(drive[d], drive'[d])
<1> USE DEF host, cache, locals, sched, history
<1>0. drive \in [Drives -> Volume]
  BY DEF TypeOK
<1>a. VolumeBefore(drive[d], drive[d])
  BY <1>0 DEF VolumeBefore, Volume
<1>1. CASE Tick
  <2>1. PICK moved \in [Drives -> Transfers] :
          drive' = [e \in Drives |-> [drive[e] EXCEPT !.r = @ + moved[e].r,
                                                     !.w = @ + moved[e].w]]
    BY <1>1 DEF Tick
  <2>2. moved[d].r \in Nat /\ moved[d].w \in Nat
    BY BoundsAssumption
  <2>3. /\ drive'[d].r = drive[d].r + moved[d].r
        /\ drive'[d].w = drive[d].w + moved[d].w
        /\ drive'[d].epoch = drive[d].epoch
    BY <1>0, <2>1 DEF Volume
  <2>4. drive'[d] \in Volume
    BY TypeStep DEF TypeOK
  <2> QED BY <1>0, <2>2, <2>3, <2>4 DEF VolumeBefore, Volume
<1>2. ASSUME NEW e \in Drives, Reattach(e)
      PROVE  drive'[d] \in Volume /\ VolumeBefore(drive[d], drive'[d])
  BY <1>0, <1>2 DEF Reattach, VolumeBefore, Volume
<1>3. CASE UNCHANGED drive
  BY <1>0, <1>3, <1>a
<1>4. Tick \/ (\E e \in Drives : Reattach(e)) \/ UNCHANGED drive
  BY DEF Next, Step, AtBound, vars, BeginBaseline, BeginScheduled, Fetch, FetchFails,
         CPUSection, ReadClock, DiskSection, Validate, Return,
         BaselineSucceeds, BaselineFails, ScrapeEnds
<1> QED BY <1>0, <1>1, <1>2, <1>3, <1>4

\* A run's samples are what it fetched until it returns.
LEMMA SamplesLagStep == TypeOK /\ SamplesLag /\ DrivesLag /\ [Next]_vars => SamplesLag'
<1> SUFFICES ASSUME TypeOK, SamplesLag, DrivesLag, [Next]_vars,
                    NEW s \in Scrapers, NEW d \in sample'[s].present
             PROVE  /\ sample'[s].disk[d].epoch # 0
                    /\ VolumeBefore(sample'[s].disk[d], drive'[d])
  BY DEF SamplesLag
<1> USE DEF host, cache, locals, sched, history
<1>0. sample \in [Scrapers -> Sample] /\ drive \in [Drives -> Volume]
  BY DEF TypeOK
<1>1. d \in Drives
  BY TypeStep DEF TypeOK, Sample
<1>2. CASE sample'[s] = sample[s]
  <2>1. sample[s].disk[d] \in Volume
    BY <1>0, <1>1 DEF Sample
  <2>2. drive[d] \in Volume /\ drive'[d] \in Volume /\ VolumeBefore(drive[d], drive'[d])
    BY <1>1, DrivesMoveOn
  <2>3. sample[s].disk[d].epoch # 0 /\ VolumeBefore(sample[s].disk[d], drive[d])
    BY <1>2 DEF SamplesLag
  <2>4. VolumeBefore(sample[s].disk[d], drive'[d])
    BY <2>1, <2>2, <2>3, VolumeBeforeTransitive DEF Volume
  <2> QED BY <1>2, <2>3, <2>4
<1>3. CASE Fetch(s)
  <2>1. PICK hasCPU \in BOOLEAN, present \in SUBSET Drives :
          sample' = [sample EXCEPT ![s] =
              [cpu |-> hasCPU,
               total |-> IF hasCPU THEN cpu.idle + cpu.busy ELSE 0,
               idle |-> IF hasCPU THEN cpu.idle ELSE 0,
               present |-> present,
               disk |-> [e \in Drives |->
                            IF e \in present THEN drive[e] ELSE NoVolume]]]
    BY <1>3 DEF Fetch
  <2>2. /\ sample'[s].present = present
        /\ sample'[s].disk = [e \in Drives |->
                                IF e \in present THEN drive[e] ELSE NoVolume]
    BY <1>0, <2>1
  <2>3. sample'[s].disk[d] = drive[d] /\ drive'[d] = drive[d]
    BY <1>1, <1>3, <2>2 DEF Fetch
  <2>4. VolumeBefore(drive[d], drive[d])
    BY <1>0, <1>1 DEF VolumeBefore, Volume
  <2> QED BY <1>1, <2>3, <2>4 DEF DrivesLag
<1>4. CASE Return(s)
  BY <1>0, <1>4 DEF Return, NoSample
<1>5. sample'[s] = sample[s] \/ Fetch(s) \/ Return(s)
  <2>1. ASSUME NEW t \in Scrapers, Fetch(t) \/ Return(t) PROVE t # s => sample'[s] = sample[s]
    BY <1>0, <2>1 DEF Fetch, Return
  <2>2. (\E t \in Scrapers : Fetch(t) \/ Return(t)) \/ UNCHANGED sample
    BY DEF Next, Step, AtBound, vars, Tick, Reattach, BeginBaseline, BeginScheduled,
           FetchFails, CPUSection, ReadClock, DiskSection, Validate,
           BaselineSucceeds, BaselineFails, ScrapeEnds
  <2> QED BY <2>1, <2>2
<1> QED BY <1>2, <1>3, <1>4, <1>5

\* The cache holds zeros or what some sample had.
LEMMA StoreDisksKeepsLag ==
    ASSUME TypeOK, DrivesLag, SamplesLag, NEW s \in Scrapers, StoreDisks(s),
           UNCHANGED drive
    PROVE  DrivesLag'
<1> SUFFICES ASSUME NEW d \in Drives
             PROVE  /\ drive'[d].epoch # 0 /\ VolumeBefore(Entry(d)', drive'[d])
                    /\ base'[d] = 0 => lastDisk'[d].r = 0 /\ lastDisk'[d].w = 0
  BY DEF DrivesLag
<1>1. CASE d \in sample[s].present
  <2>1. /\ lastDisk'[d].r = sample[s].disk[d].r
        /\ lastDisk'[d].w = sample[s].disk[d].w
        /\ base'[d] = sample[s].disk[d].epoch
    BY <1>1 DEF StoreDisks
  <2>2. sample[s].disk[d].epoch # 0 /\ VolumeBefore(sample[s].disk[d], drive[d])
    BY <1>1 DEF SamplesLag
  <2> QED BY <2>1, <2>2 DEF DrivesLag, Entry, VolumeBefore
<1>2. CASE d \notin sample[s].present
  <2>1. lastDisk'[d] = lastDisk[d] /\ base'[d] = base[d]
    BY <1>2 DEF StoreDisks
  <2> QED BY <2>1 DEF DrivesLag, Entry, VolumeBefore
<1> QED BY <1>1, <1>2

LEMMA DrivesLagStep == TypeOK /\ DrivesLag /\ SamplesLag /\ [Next]_vars => DrivesLag'
<1> SUFFICES ASSUME TypeOK, DrivesLag, SamplesLag, [Next]_vars PROVE DrivesLag'
  OBVIOUS
<1> USE DEF host, cache, locals, sched, history
<1>1. CASE UNCHANGED <<lastDisk, base>>
  <2> SUFFICES ASSUME NEW d \in Drives
               PROVE  drive'[d].epoch # 0 /\ VolumeBefore(Entry(d), drive'[d])
    BY <1>1 DEF DrivesLag, Entry
  <2>1. drive[d] \in Volume /\ drive'[d] \in Volume /\ VolumeBefore(drive[d], drive'[d])
    BY DrivesMoveOn
  <2>2. Entry(d).r \in Nat /\ Entry(d).w \in Nat /\ Entry(d).epoch \in Nat
    BY DEF TypeOK, Entry, Counters
  <2>3. VolumeBefore(Entry(d), drive'[d])
    BY <2>1, <2>2, VolumeBeforeTransitive DEF DrivesLag, Volume
  <2>4. drive[d].epoch # 0
    BY DEF DrivesLag
  <2> QED BY <2>1, <2>3, <2>4 DEF VolumeBefore, Volume
<1>2. ASSUME NEW s \in Scrapers, DiskSection(s), ~UNCHANGED <<lastDisk, base>>
      PROVE  DrivesLag'
  <2>1. StoreDisks(s) /\ UNCHANGED drive
    BY <1>2 DEF DiskSection, DiskBaseline, DiskRates, DiskSkipped
  <2> QED BY <2>1, StoreDisksKeepsLag
<1>3. UNCHANGED <<lastDisk, base>> \/ \E s \in Scrapers : DiskSection(s)
  BY DEF Next, Step, AtBound, vars, Tick, Reattach, BeginBaseline, BeginScheduled,
     Fetch, FetchFails, CPUSection, ReadClock, Validate, Return,
     BaselineSucceeds, BaselineFails, ScrapeEnds
<1> QED BY <1>1, <1>2, <1>3

\* A run fetches what the cache lags behind, and another run's store ends its
\* solitude.
LEMMA EntriesLagStep == TypeOK /\ EntriesLag /\ DrivesLag /\ [Next]_vars => EntriesLag'
<1> SUFFICES ASSUME TypeOK, EntriesLag, DrivesLag, [Next]_vars,
                    NEW s \in fresh', NEW d \in sample'[s].present,
                    pc'[s] \in {"cpu", "now", "disk"}
             PROVE  VolumeBefore(Entry(d)', sample'[s].disk[d])
  BY DEF EntriesLag
<1> USE DEF host, cache, locals, sched, history
<1>0. /\ sample \in [Scrapers -> Sample]
      /\ pc \in [Scrapers -> {"idle", "fetch", "cpu", "now", "disk", "validate",
                               "publish", "failed"}]
      /\ s \in Scrapers /\ d \in Drives
  BY TypeStep DEF TypeOK, Sample
<1>1. CASE /\ UNCHANGED <<lastDisk, base>> /\ sample'[s] = sample[s]
           /\ s \in fresh /\ pc[s] \in {"cpu", "now", "disk"}
  BY <1>0, <1>1 DEF EntriesLag, Entry
<1>2. CASE Fetch(s)
  <2>1. PICK hasCPU \in BOOLEAN, present \in SUBSET Drives :
          sample' = [sample EXCEPT ![s] =
              [cpu |-> hasCPU,
               total |-> IF hasCPU THEN cpu.idle + cpu.busy ELSE 0,
               idle |-> IF hasCPU THEN cpu.idle ELSE 0,
               present |-> present,
               disk |-> [e \in Drives |->
                            IF e \in present THEN drive[e] ELSE NoVolume]]]
    BY <1>2 DEF Fetch
  <2>2. /\ sample'[s].present = present
        /\ sample'[s].disk = [e \in Drives |->
                                IF e \in present THEN drive[e] ELSE NoVolume]
    BY <1>0, <2>1
  <2>3. sample'[s].disk[d] = drive[d] /\ UNCHANGED <<lastDisk, base>>
    BY <1>0, <1>2, <2>2 DEF Fetch
  <2>4. VolumeBefore(Entry(d), drive[d])
    BY <1>0 DEF DrivesLag
  <2> QED BY <2>3, <2>4 DEF Entry
<1>3. ASSUME NEW t \in Scrapers, Fetch(t), t # s
      PROVE  /\ UNCHANGED <<lastDisk, base>> /\ sample'[s] = sample[s]
             /\ s \in fresh /\ pc[s] \in {"cpu", "now", "disk"}
  BY <1>0, <1>3 DEF Fetch
<1>4. ASSUME NEW t \in Scrapers, CPUSection(t)
      PROVE  /\ UNCHANGED <<lastDisk, base>> /\ sample'[s] = sample[s]
             /\ s \in fresh /\ pc[s] \in {"cpu", "now", "disk"}
  BY <1>0, <1>4 DEF CPUSection
<1>5. ASSUME NEW t \in Scrapers, DiskSection(t) PROVE FALSE
  BY <1>0, <1>5 DEF DiskSection
<1>6. ASSUME NEW t \in Scrapers, Return(t)
      PROVE  /\ UNCHANGED <<lastDisk, base>> /\ sample'[s] = sample[s]
             /\ s \in fresh /\ pc[s] \in {"cpu", "now", "disk"}
  BY <1>0, <1>6 DEF Return
<1>7. ASSUME NEW t \in Scrapers, BeginBaseline(t) \/ BeginScheduled(t) \/ FetchFails(t)
                                 \/ ReadClock(t) \/ Validate(t)
      PROVE  /\ UNCHANGED <<lastDisk, base>> /\ sample'[s] = sample[s]
             /\ s \in fresh /\ pc[s] \in {"cpu", "now", "disk"}
  BY <1>0, <1>7 DEF BeginBaseline, BeginScheduled, FetchFails, ReadClock, Validate
<1>8. CASE Tick \/ (\E e \in Drives : Reattach(e)) \/ UNCHANGED vars
  BY <1>0, <1>1, <1>8 DEF Tick, Reattach, vars
<1> QED
  BY <1>1, <1>2, <1>3, <1>4, <1>5, <1>6, <1>7, <1>8
  DEF Next, Step, AtBound, BaselineSucceeds, BaselineFails, ScrapeEnds

\* What a run alone computes from a cache that lags behind its sample.
LEMMA ShareIsSane ==
    ASSUME NEW smp, smp.total \in Nat, smp.idle \in Nat,
           lastCPU.total \in Nat, lastCPU.idle \in Nat, CPUBefore(lastCPU, smp)
    PROVE  /\ 0 <= CPUShare(smp).busy
           /\ CPUShare(smp).busy <= CPUShare(smp).total
BY DEF CPUShare, NoCPU, CPUBefore

LEMMA RateIsSane ==
    ASSUME NEW x \in Nat, NEW y \in Nat, NEW secs \in Nat, y = 0 \/ y <= x
    PROVE  RateOf(x, y, secs).bytes >= 0
BY DEF RateOf, NoRate

\* The report of a run changes in its own sections only.
LEMMA ReportSoFarStep == TypeOK /\ CPULags /\ ReportSoFar /\ [Next]_vars => ReportSoFar'
<1> SUFFICES ASSUME TypeOK, CPULags, ReportSoFar, [Next]_vars PROVE ReportSoFar'
  OBVIOUS
<1> USE DEF host, cache, locals, sched, history
<1>0. /\ lastCPU \in [total : Nat, idle : Nat] /\ sample \in [Scrapers -> Sample]
      /\ report \in [Scrapers -> Report]
      /\ pc \in [Scrapers -> {"idle", "fetch", "cpu", "now", "disk", "validate",
                               "publish", "failed"}]
      /\ fresh \subseteq Scrapers
  BY DEF TypeOK
<1> DEFINE Good(s) ==
             /\ pc[s] \in {"idle", "fetch", "cpu"} => report[s].cpu = NoCPU
             /\ pc[s] \in {"idle", "fetch", "cpu", "now", "disk"} => Unrated(s)
             /\ s \in fresh /\ pc[s] \in {"now", "disk"} => SaneCPU(report[s])
<1>a. ASSUME NEW s \in Scrapers, pc'[s] = pc[s], report'[s] = report[s],
             s \in fresh' /\ pc[s] \in {"now", "disk"} => s \in fresh
      PROVE  Good(s)'
  BY <1>a DEF ReportSoFar, Unrated, SaneCPU
<1>1. ASSUME UNCHANGED <<pc, report, fresh>> PROVE ReportSoFar'
  <2>1. ASSUME NEW s \in Scrapers PROVE Good(s)'
    BY <1>1, <1>a
  <2> QED BY <2>1 DEF ReportSoFar
<1>2. ASSUME NEW s \in Scrapers, BeginBaseline(s) \/ BeginScheduled(s) \/ FetchFails(s)
                                 \/ ReadClock(s) \/ Validate(s) \/ Fetch(s)
      PROVE  ReportSoFar'
  <2>1. /\ UNCHANGED report
        /\ pc'[s] \in {"fetch", "failed", "disk", "publish", "cpu"}
        /\ pc'[s] \in {"fetch", "cpu"} => pc[s] \in {"idle", "fetch"}
        /\ pc'[s] = "disk" => pc[s] = "now" /\ UNCHANGED fresh
    BY <1>0, <1>2
    DEF BeginBaseline, BeginScheduled, FetchFails, ReadClock, Validate, Fetch
  <2>2. Good(s)'
    BY <2>1 DEF ReportSoFar, Unrated, SaneCPU
  <2>3. ASSUME NEW t \in Scrapers, t # s PROVE Good(t)'
    <3>1. pc'[t] = pc[t] /\ (t \in fresh' => t \in fresh)
      BY <1>0, <1>2, <2>3
      DEF BeginBaseline, BeginScheduled, FetchFails, ReadClock, Validate, Fetch
    <3> QED BY <1>a, <2>1, <3>1
  <2> QED BY <2>2, <2>3 DEF ReportSoFar
<1>3. ASSUME NEW s \in Scrapers, CPUSection(s) PROVE ReportSoFar'
  <2>1. /\ pc[s] = "cpu" /\ pc'[s] = "now" /\ fresh' \subseteq fresh
        /\ \A t \in Scrapers \ {s} : pc'[t] = pc[t] /\ report'[t] = report[t]
    BY <1>0, <1>3 DEF CPUSection
  <2>2. /\ report'[s].read = report[s].read /\ report'[s].write = report[s].write
        /\ report'[s].cpu = IF sample[s].cpu THEN CPUShare(sample[s]) ELSE report[s].cpu
    BY <1>0, <1>3 DEF CPUSection, Report
  <2>3. ASSUME s \in fresh PROVE SaneCPU(report'[s])
    <3>1. CASE sample[s].cpu
      <4>1. CPUBefore(lastCPU, sample[s])
        BY <2>1, <2>3, <3>1 DEF CPULags
      <4>2. sample[s].total \in Nat /\ sample[s].idle \in Nat
        BY <1>0 DEF Sample
      <4>3. /\ 0 <= CPUShare(sample[s]).busy
            /\ CPUShare(sample[s]).busy <= CPUShare(sample[s]).total
        BY <1>0, <4>1, <4>2, ShareIsSane
      <4> QED BY <2>2, <3>1, <4>3 DEF SaneCPU
    <3>2. CASE ~sample[s].cpu
      BY <2>1, <2>2, <3>2 DEF ReportSoFar, SaneCPU, NoCPU
    <3> QED BY <3>1, <3>2
  <2>4. Good(s)'
    BY <2>1, <2>2, <2>3 DEF ReportSoFar, Unrated
  <2>5. ASSUME NEW t \in Scrapers, t # s PROVE Good(t)'
    BY <1>a, <2>1, <2>5
  <2> QED BY <2>4, <2>5 DEF ReportSoFar
<1>4. ASSUME NEW s \in Scrapers, DiskSection(s) PROVE ReportSoFar'
  <2>1. /\ pc'[s] = "validate" /\ fresh' \subseteq fresh
        /\ \A t \in Scrapers \ {s} : pc'[t] = pc[t] /\ report'[t] = report[t]
    BY <1>0, <1>4 DEF DiskSection, DiskBaseline, DiskRates, DiskSkipped
  <2>2. ASSUME NEW t \in Scrapers, t # s PROVE Good(t)'
    BY <1>a, <2>1, <2>2
  <2>3. Good(s)'
    BY <2>1
  <2> QED BY <2>2, <2>3 DEF ReportSoFar
<1>5. ASSUME NEW s \in Scrapers, Return(s) PROVE ReportSoFar'
  <2>1. /\ pc'[s] = "idle" /\ report'[s] = NoReport /\ fresh' \subseteq fresh
        /\ \A t \in Scrapers \ {s} : pc'[t] = pc[t] /\ report'[t] = report[t]
    BY <1>0, <1>5 DEF Return
  <2>2. Good(s)'
    BY <2>1 DEF NoReport, Unrated
  <2>3. ASSUME NEW t \in Scrapers, t # s PROVE Good(t)'
    BY <1>a, <2>1, <2>3
  <2> QED BY <2>2, <2>3 DEF ReportSoFar
<1> QED
  BY <1>1, <1>2, <1>3, <1>4, <1>5
  DEF Next, Step, AtBound, vars, Tick, Reattach, BaselineSucceeds, BaselineFails, ScrapeEnds

LEMMA LagInit == Init => Lag
<1> SUFFICES ASSUME Init PROVE CPULags /\ DrivesLag /\ SamplesLag /\ EntriesLag /\ ReportSoFar
  BY TypeInit DEF Lag
<1>1. CPULags
  BY DEF Init, CPULags, CPUBefore, HostCPU, NoSample
<1>2. DrivesLag
  <2>1. PICK moved \in [Drives -> Transfers] :
          drive = [d \in Drives |-> [r |-> moved[d].r, w |-> moved[d].w, epoch |-> 1]]
    BY DEF Init
  <2> QED BY <2>1 DEF Init, DrivesLag, VolumeBefore, Entry
<1>3. SamplesLag /\ EntriesLag
  BY DEF Init, SamplesLag, EntriesLag, NoSample
<1>4. ReportSoFar
  BY DEF Init, ReportSoFar, Unrated, NoReport
<1> QED BY <1>1, <1>2, <1>3, <1>4

LEMMA LagStep == Lag /\ [Next]_vars => Lag'
BY TypeStep, CPULagsStep, DrivesLagStep, SamplesLagStep, EntriesLagStep, ReportSoFarStep
DEF Lag

\* A run gets from one section to the next by its own step only.
LEMMA OwnSections ==
    ASSUME TypeOK, [Next]_vars, NEW s \in Scrapers
    PROVE  /\ pc[s] = "disk" /\ pc'[s] = "validate" => DiskSection(s)
           /\ pc[s] = "cpu" /\ pc'[s] = "now" => CPUSection(s)
<1> USE DEF host, cache, locals, sched, history
<1>0. pc \in [Scrapers -> {"idle", "fetch", "cpu", "now", "disk", "validate",
                            "publish", "failed"}]
  BY DEF TypeOK
<1>1. ASSUME NEW t \in Scrapers, BeginBaseline(t) \/ BeginScheduled(t) \/ Step(t)
      PROVE  t # s => pc'[s] = pc[s]
  BY <1>0, <1>1 DEF BeginBaseline, BeginScheduled, Step, Fetch, FetchFails, CPUSection,
     ReadClock, DiskSection, Validate, Return, BaselineSucceeds, BaselineFails, ScrapeEnds
<1>2. ASSUME BeginBaseline(s) \/ BeginScheduled(s) \/ Step(s)
      PROVE  DiskSection(s) \/ CPUSection(s) \/ pc[s] \notin {"cpu", "disk"}
             \/ pc'[s] \notin {"now", "validate"}
  BY <1>0, <1>2 DEF BeginBaseline, BeginScheduled, Step, Fetch, FetchFails,
     ReadClock, Validate, Return, BaselineSucceeds, BaselineFails, ScrapeEnds
<1>3. /\ DiskSection(s) => pc[s] = "disk"
      /\ CPUSection(s) => pc[s] = "cpu"
  BY DEF DiskSection, CPUSection
<1>4. \/ \E t \in Scrapers : BeginBaseline(t) \/ BeginScheduled(t) \/ Step(t)
      \/ pc' = pc
  BY DEF Next, AtBound, vars, Tick, Reattach
<1> QED BY <1>1, <1>2, <1>3, <1>4

\* The rates of a run alone, on volumes that were not attached again.
LEMMA CleanRates ==
    ASSUME Lag, NEW s \in Scrapers, DiskSection(s), s \in fresh, pc[s] = "disk",
           \A d \in sample[s].present : base[d] \in {0, sample[s].disk[d].epoch}
    PROVE  SaneCPU(report'[s]) /\ SaneRates(report'[s], sample[s])
<1> USE DEF Lag
<1>0. report \in [Scrapers -> Report] /\ now \in [Scrapers -> Nat] /\ lastTimestamp \in Nat
  BY DEF TypeOK
<1>1. SaneCPU(report[s]) /\ Unrated(s)
  BY DEF ReportSoFar
<1>2. CASE DiskBaseline(s) \/ DiskSkipped(s)
  <2>1. report'[s] = report[s]
    BY <1>2 DEF DiskBaseline, DiskSkipped
  <2>2. \A d \in sample[s].present : d \in Drives
    BY DEF TypeOK, Sample
  <2> QED BY <1>1, <2>1, <2>2 DEF SaneRates, Listed, Unrated, NoRate, SaneCPU
<1>3. CASE DiskRates(s)
  <2> DEFINE secs == now[s] - lastTimestamp
             disk == sample[s].disk
  <2>1. secs \in Nat
    BY <1>0, <1>3 DEF DiskRates, Advanced
  <2>2. /\ report'[s].cpu = report[s].cpu
        /\ report'[s].read = [d \in Drives |->
              IF d \in sample[s].present
              THEN RateOf(disk[d].r, lastDisk[d].r, secs) ELSE NoRate]
        /\ report'[s].write = [d \in Drives |->
              IF d \in sample[s].present
              THEN RateOf(disk[d].w, AfterRead(lastDisk[d], disk[d].r).w, secs)
              ELSE NoRate]
    BY <1>0, <1>3 DEF DiskRates, Report
  <2> HIDE DEF secs
  <2>3. ASSUME NEW d \in sample[s].present
        PROVE  report'[s].read[d].bytes >= 0 /\ report'[s].write[d].bytes >= 0
    <3>1. /\ d \in Drives
          /\ disk[d].r \in Nat /\ disk[d].w \in Nat
          /\ lastDisk[d].r \in Nat /\ lastDisk[d].w \in Nat
      BY DEF TypeOK, Sample, Volume, Counters
    <3>2. lastDisk[d].r = 0 \/ lastDisk[d].r <= disk[d].r
      BY <3>1 DEF EntriesLag, DrivesLag, VolumeBefore, Entry
    <3>3. lastDisk[d].w = 0 \/ lastDisk[d].w <= disk[d].w
      BY <3>1 DEF EntriesLag, DrivesLag, VolumeBefore, Entry
    <3> DEFINE prev == AfterRead(lastDisk[d], disk[d].r).w
    <3>4. prev \in Nat /\ (prev = 0 \/ prev <= disk[d].w)
      BY <3>1, <3>3 DEF AfterRead
    <3>5. RateOf(disk[d].r, lastDisk[d].r, secs).bytes >= 0
      BY <2>1, <3>1, <3>2, RateIsSane
    <3> HIDE DEF prev
    <3>6. RateOf(disk[d].w, prev, secs).bytes >= 0
      BY <2>1, <3>1, <3>4, RateIsSane
    <3> QED BY <2>2, <3>1, <3>5, <3>6 DEF prev
  <2> QED BY <1>1, <2>2, <2>3 DEF SaneRates, Listed, SaneCPU
<1> QED BY <1>2, <1>3 DEF DiskSection

\* A run that no other run overlaps, on volumes whose counters did not restart,
\* computes sane values, whatever failed, was skipped or overlapped before it.
THEOREM CleanRunsAreSane == Spec => CleanScrapeIsSane
<1>1. Lag /\ [Next]_vars =>
        [\A s \in Scrapers :
            /\ pc[s] = "disk" /\ pc'[s] = "validate"
            /\ s \in fresh
            /\ \A d \in sample[s].present : base[d] \in {0, sample[s].disk[d].epoch}
            => SaneCPU(report'[s]) /\ SaneRates(report'[s], sample[s])]_vars
  BY OwnSections, CleanRates DEF Lag
<1> QED BY <1>1, LagInit, LagStep, PTL DEF Spec, CleanScrapeIsSane

-----------------------------------------------------------------------------
(* What a successful baseline is good for.                                 *)

\* A baseline that succeeded has made a report, and so has left a timestamp; nothing
\* clears a timestamp.
LEMMA BaselineStampedStep ==
    IInv /\ BaselineStamped /\ [Next]_vars => BaselineStamped'
<1> SUFFICES ASSUME IInv, BaselineStamped, [Next]_vars PROVE BaselineStamped'
  OBVIOUS
<1> USE DEF host, cache, locals, sched, history, BaselineStamped
<1>1. CASE UNCHANGED <<established, lastTimestamp>>
  BY <1>1
<1>2. ASSUME NEW s \in Scrapers, DiskSection(s) PROVE BaselineStamped'
  BY <1>2 DEF DiskSection, IInv, ClockRead
<1>3. ASSUME NEW s \in Scrapers, BaselineSucceeds(s) PROVE BaselineStamped'
  BY <1>3 DEF BaselineSucceeds, Return, IInv, Stamped
<1> QED
  BY <1>1, <1>2, <1>3
  DEF Next, Step, AtBound, vars, Tick, Reattach, BeginBaseline, BeginScheduled, Fetch,
      FetchFails, CPUSection, ReadClock, Validate, BaselineFails, ScrapeEnds, Return

\* After a baseline that succeeded, CPU times that have advanced give a share.
THEOREM BaselineIsUsed == Spec => BaselineGivesCPU
<1>1. Init => BaselineStamped
  BY DEF Init, BaselineStamped
<1>2. ASSUME IInv, BaselineStamped, [Next]_vars, NEW s \in Scrapers,
             pc[s] = "cpu", pc'[s] = "now", established,
             sample[s].cpu, lastCPU.total \in 1 .. sample[s].total - 1
      PROVE  report'[s].cpu.total > 0
  <2>1. CPUSection(s)
    BY <1>2, OwnSections DEF IInv
  <2>2. /\ sample[s].total \in Nat /\ sample[s].idle \in Nat /\ lastCPU.total \in Nat
        /\ lastCPU.idle \in Nat /\ report \in [Scrapers -> Report]
    BY <1>2 DEF IInv, TypeOK, Sample
  <2>3. CPUShare(sample[s]).total > 0
    BY <1>2, <2>2 DEF BaselineStamped, CPUShare
  <2>4. report'[s].cpu = CPUShare(sample[s])
    BY <1>2, <2>1, <2>2 DEF CPUSection, Report
  <2> QED BY <2>3, <2>4
<1>3. IInv /\ BaselineStamped /\ [Next]_vars =>
        [\A s \in Scrapers :
            /\ pc[s] = "cpu" /\ pc'[s] = "now"
            /\ s \in fresh /\ established
            /\ sample[s].cpu /\ lastCPU.total \in 1 .. sample[s].total - 1
            => report'[s].cpu.total > 0]_vars
  BY <1>2
<1> QED
  BY <1>1, <1>3, IInvInit, IInvStep, BaselineStampedStep, PTL DEF Spec, BaselineGivesCPU
=============================================================================
