------------------------- MODULE AgentLifecycle_proofs -------------------------
(***************************************************************************)
(* Proofs about AgentLifecycle, for any subjects and runs.  The invariant  *)
(* says what each phase guarantees to the next: before the start is done   *)
(* nothing can be shut down, a caller that gets to Drain leaves a stopped  *)
(* scheduler behind, and a run that is at work has published nothing.      *)
(***************************************************************************)
EXTENDS AgentLifecycle, TLAPS

BootInv ==
    /\ boot = "connect" => conn = "none"
    /\ boot # "started" => /\ sched = "none" /\ signalled = {}
                           /\ pos["run"] = "none" /\ pos["stop"] = "none"
    /\ boot = "failed" => conn \in {"none", "closed"}

StopInv ==
    /\ \A k \in Callers : pos[k] \in {"drain", "returned"} => sched = "stopped"
    /\ conn = "draining" => sched = "stopped"
    /\ sched = "stopped" /\ unclean = {} => \A r \in Runs : run[r] \notin Active

CountInv ==
    /\ \A r \in AllRuns :
          /\ run[r] \in Active \cup {"none"} => r \notin counted.success
          /\ run[r] \in {"none", "collect", "publish", "publish error"} => r \notin delivered
          /\ run[r] \in {"none", "collect", "publish", "record"} => r \notin counted.failure
          /\ run[r] = "record" => r \in delivered
          /\ run[r] = "publish error" /\ Kind[r] = "metrics" => r \in counted.failure
    /\ CountedWasDelivered

IInv == TypeOK /\ BootInv /\ StopInv /\ CountInv

LEMMA IInvInit == Init => IInv
<1> SUFFICES ASSUME Init PROVE IInv
  OBVIOUS
<1>1. TypeOK
  BY DEF Init, TypeOK, Callers
<1>2. BootInv
  BY DEF Init, BootInv, Callers
<1>3. StopInv
  BY DEF Init, StopInv
<1>4. CountInv
  <2>1. \A r \in AllRuns : run[r] = "none"
    BY DEF Init
  <2>2. counted.success = {} /\ counted.failure = {} /\ delivered = {}
    BY DEF Init
  <2> QED BY <2>1, <2>2 DEF CountInv, CountedWasDelivered
<1> QED BY <1>1, <1>2, <1>3, <1>4 DEF IInv

\* Every step keeps the types.
LEMMA TypeStep == TypeOK /\ [Next]_vars => TypeOK'
<1> SUFFICES ASSUME TypeOK, [Next]_vars PROVE TypeOK'
  OBVIOUS
<1> USE DEF TypeOK
<1>1. CASE StartStep
  <2>1. CASE Connect \/ JetStreamAvailable \/ StartFails
    BY <2>1 DEF Connect, JetStreamAvailable, StartFails, work, shutdown
  <2>2. ASSUME NEW s \in Subjects, Subscribe(s) PROVE TypeOK'
    BY <2>2 DEF Subscribe, work, shutdown
  <2>3. CASE StartInventory
    BY <2>3 DEF StartInventory, shutdown, Active
  <2>4. CASE JobsCreated
    BY <2>4 DEF JobsCreated, work, Callers
  <2>5. CASE RunStarts
    BY <2>5 DEF RunStarts, work
  <2> QED BY <1>1, <2>1, <2>2, <2>3, <2>4, <2>5 DEF StartStep
<1>2. CASE ConnStep
  BY <1>2 DEF ConnStep, Disconnect, ReconnectEnds, DrainEnds, work, shutdown
<1>3. CASE StopRequested
  BY <1>3 DEF StopRequested, work, Callers
<1>4. CASE ProcessEnds
  BY <1>4 DEF ProcessEnds, work, shutdown
<1>5. ASSUME NEW s \in Subjects, HandlerStep(s) PROVE TypeOK'
  BY <1>5 DEF HandlerStep, Arrive, Handle, Answer, shutdown
<1>6. ASSUME NEW r \in Runs, JobFires(r) PROVE TypeOK'
  BY <1>6 DEF JobFires, shutdown, AllRuns, Active
<1>7. ASSUME NEW r \in AllRuns, RunStep(r) PROVE TypeOK'
  <2>1. CASE Collect(r)
    BY <2>1 DEF Collect, shutdown, Active
  <2>4. CASE GiveUp(r) \/ PublishFails(r)
    BY <2>4 DEF GiveUp, PublishFails, shutdown
  <2>2. CASE CollectFails(r)
    BY <2>2 DEF CollectFails, shutdown, Active
  <2>3. CASE Publish(r)
    BY <2>3 DEF Publish, shutdown, Active
  <2>5. CASE Record(r)
    BY <2>5 DEF Record, shutdown, Active
  <2> QED BY <1>7, <2>1, <2>2, <2>3, <2>4, <2>5 DEF RunStep
<1>8. ASSUME NEW k \in Callers, ShutdownStep(k) PROVE TypeOK'
  <2>1. CASE BeginShutdown(k)
    BY <2>1 DEF BeginShutdown, MayBeginShutdown, work, Callers
  <2>2. CASE SchedulerStopped(k)
    BY <2>2 DEF SchedulerStopped, work, Callers
  <2>4. CASE SchedulerTimesOut(k)
    BY <2>4 DEF SchedulerTimesOut, work, Callers
  <2>3. CASE Drain(k)
    <3>1. /\ pos' = [pos EXCEPT ![k] = "returned"] /\ pos[k] = "drain"
          /\ conn' \in {conn, "closed", "draining"} /\ drained' \in {drained, drained \cup {k}}
          /\ UNCHANGED <<mode, boot, subscribed, request, sched, run, counted, delivered,
                         signalled, unclean, alive>>
      BY <2>3 DEF Drain, work
    <3> QED BY <3>1 DEF Callers
  <2>5. CASE DrainTimesOut(k)
    BY <2>5 DEF DrainTimesOut, work, Callers
  <2> QED BY <1>8, <2>1, <2>2, <2>3, <2>4, <2>5 DEF ShutdownStep
<1>9. CASE UNCHANGED vars
  BY <1>9 DEF vars, work, shutdown
<1> QED BY <1>1, <1>2, <1>3, <1>4, <1>5, <1>6, <1>7, <1>8, <1>9 DEF Next

\* Starting: nothing is stopped, and no connection is left, before it is done.
LEMMA BootStep == IInv /\ [Next]_vars => BootInv'
<1> SUFFICES ASSUME IInv, [Next]_vars PROVE BootInv'
  OBVIOUS
<1> USE DEF IInv, TypeOK, BootInv, Callers
<1>1. CASE StartStep
  BY <1>1 DEF StartStep, Connect, JetStreamAvailable, Subscribe, StartInventory,
              JobsCreated, StartFails, RunStarts, shutdown
<1>2. CASE ConnStep
  BY <1>2 DEF ConnStep, Disconnect, ReconnectEnds, DrainEnds, StopInv, shutdown
<1>3. CASE StopRequested
  BY <1>3 DEF StopRequested
<1>4. CASE ProcessEnds
  BY <1>4 DEF ProcessEnds, shutdown
<1>5. ASSUME NEW s \in Subjects, HandlerStep(s) PROVE BootInv'
  BY <1>5 DEF HandlerStep, Arrive, Handle, Answer, shutdown
<1>6. ASSUME NEW r \in Runs, JobFires(r) PROVE BootInv'
  BY <1>6 DEF JobFires, shutdown
<1>7. ASSUME NEW r \in AllRuns, RunStep(r) PROVE BootInv'
  BY <1>7 DEF RunStep, Collect, CollectFails, GiveUp, Publish, Record, PublishFails, shutdown
<1>8. ASSUME NEW k \in Callers, ShutdownStep(k) PROVE BootInv'
  <2>1. pos[k] # "none" \/ k \in signalled
    BY <1>8 DEF ShutdownStep, BeginShutdown, MayBeginShutdown, SchedulerStopped,
                SchedulerTimesOut, Drain, DrainTimesOut
  <2>2. boot = "started" /\ boot' = "started"
    BY <1>8, <2>1 DEF ShutdownStep, BeginShutdown, SchedulerStopped,
                SchedulerTimesOut, Drain, DrainTimesOut
  <2> QED BY <2>2
<1>9. CASE UNCHANGED vars
  BY <1>9 DEF vars, shutdown
<1> QED BY <1>1, <1>2, <1>3, <1>4, <1>5, <1>6, <1>7, <1>8, <1>9 DEF Next

\* Stopping: Drain comes after the scheduler's shutdown, a clean shutdown after
\* the runs, and a stopped scheduler starts no more of them.
LEMMA StopStep == IInv /\ [Next]_vars => StopInv'
<1> SUFFICES ASSUME IInv, [Next]_vars PROVE StopInv'
  OBVIOUS
<1> USE DEF IInv, TypeOK, StopInv
<1>1. CASE StartStep
  <2>1. sched' = sched \/ (sched # "stopped" /\ sched' # "stopped")
    BY <1>1 DEF StartStep, Connect, JetStreamAvailable, Subscribe, StartInventory,
                JobsCreated, StartFails, RunStarts, BootInv
  <2>2. \A k \in Callers : pos'[k] \in {"drain", "returned"} => pos[k] \in {"drain", "returned"}
    BY <1>1 DEF StartStep, Connect, JetStreamAvailable, Subscribe, StartInventory,
                JobsCreated, StartFails, RunStarts, shutdown, Callers
  <2>3. conn' = "draining" => conn = "draining"
    BY <1>1 DEF StartStep, Connect, JetStreamAvailable, Subscribe, StartInventory,
                JobsCreated, StartFails, RunStarts
  <2>4. unclean' = unclean /\ \A r \in Runs : run'[r] = run[r]
    BY <1>1, StartupAssumption
    DEF StartStep, Connect, JetStreamAvailable, Subscribe, StartInventory,
        JobsCreated, StartFails, RunStarts, shutdown, work, AllRuns
  <2>5. sched' # sched => sched # "stopped" /\ sched' # "stopped"
    BY <2>1
  <2>6. \A k \in Callers : pos'[k] \in {"drain", "returned"} => sched' = "stopped"
    BY <2>2, <2>5
  <2>7. conn' = "draining" => sched' = "stopped"
    BY <2>3, <2>5
  <2> QED BY <2>4, <2>5, <2>6, <2>7
<1>2. CASE ConnStep
  BY <1>2 DEF ConnStep, Disconnect, ReconnectEnds, DrainEnds, work, shutdown
<1>3. CASE StopRequested
  BY <1>3 DEF StopRequested, work
<1>4. CASE ProcessEnds
  BY <1>4 DEF ProcessEnds, work, shutdown
<1>5. ASSUME NEW s \in Subjects, HandlerStep(s) PROVE StopInv'
  BY <1>5 DEF HandlerStep, Arrive, Handle, Answer, shutdown
<1>6. ASSUME NEW r \in Runs, JobFires(r) PROVE StopInv'
  BY <1>6 DEF JobFires, shutdown
<1>7. ASSUME NEW r \in AllRuns, RunStep(r) PROVE StopInv'
  <2>1. run[r] \in Active /\ UNCHANGED <<conn, sched, shutdown>>
    BY <1>7 DEF RunStep, Collect, CollectFails, GiveUp, Publish, Record, PublishFails, Active
  <2>2. \A q \in Runs : q # r => run'[q] = run[q]
    BY <1>7 DEF RunStep, Collect, CollectFails, GiveUp, Publish, Record, PublishFails, AllRuns
  <2>3. r \in Runs => sched # "stopped" \/ unclean # {}
    BY <2>1
  <2> QED BY <2>1, <2>2, <2>3 DEF shutdown, AllRuns
<1>8. ASSUME NEW k \in Callers, ShutdownStep(k) PROVE StopInv'
  <2>1. CASE BeginShutdown(k)
    BY <2>1 DEF BeginShutdown, work
  <2>2. CASE SchedulerStopped(k)
    BY <2>2 DEF SchedulerStopped, work
  <2>3. CASE SchedulerTimesOut(k)
    BY <2>3 DEF SchedulerTimesOut, work
  <2>4. CASE Drain(k) \/ DrainTimesOut(k)
    BY <2>4 DEF Drain, DrainTimesOut, work
  <2> QED BY <1>8, <2>1, <2>2, <2>3, <2>4 DEF ShutdownStep
<1>9. CASE UNCHANGED vars
  BY <1>9 DEF vars, work, shutdown
<1> QED BY <1>1, <1>2, <1>3, <1>4, <1>5, <1>6, <1>7, <1>8, <1>9 DEF Next

\* Counting: a run is counted and publishes at most once.
LEMMA CountStep == IInv /\ [Next]_vars => CountInv'
<1> SUFFICES ASSUME IInv, [Next]_vars PROVE CountInv'
  OBVIOUS
<1> USE DEF IInv, TypeOK, CountInv, CountedWasDelivered, Active
<1>1. CASE StartStep
  BY <1>1 DEF StartStep, Connect, JetStreamAvailable, Subscribe, StartInventory,
              JobsCreated, StartFails, RunStarts, work, AllRuns
<1>2. CASE ConnStep
  BY <1>2 DEF ConnStep, Disconnect, ReconnectEnds, DrainEnds, work
<1>3. CASE StopRequested
  BY <1>3 DEF StopRequested, work
<1>4. CASE ProcessEnds
  BY <1>4 DEF ProcessEnds, work
<1>5. ASSUME NEW s \in Subjects, HandlerStep(s) PROVE CountInv'
  BY <1>5 DEF HandlerStep, Arrive, Handle, Answer
<1>6. ASSUME NEW r \in Runs, JobFires(r) PROVE CountInv'
  BY <1>6 DEF JobFires, AllRuns
<1>7. ASSUME NEW r \in AllRuns, RunStep(r) PROVE CountInv'
  <2>1. CASE Collect(r)
    BY <2>1 DEF Collect
  <2>2. CASE CollectFails(r)
    BY <2>2 DEF CollectFails
  <2>3. CASE GiveUp(r) \/ PublishFails(r)
    BY <2>3 DEF GiveUp, PublishFails
  <2>4. CASE Publish(r)
    <3>1. /\ run[r] \in {"publish", "publish error"} /\ counted' = counted
          /\ delivered' = delivered \cup {r}
          /\ run'[r] = IF run[r] = "publish" THEN "record" ELSE "done"
          /\ \A q \in AllRuns : q # r => run'[q] = run[q]
      BY <2>4 DEF Publish
    <3>2. r \notin counted.success /\ r \notin delivered
      BY <3>1
    <3>3. CASE run[r] = "publish"
      BY <3>1, <3>2, <3>3
    <3>4. CASE run[r] = "publish error"
      BY <3>1, <3>2, <3>4
    <3> QED BY <3>1, <3>3, <3>4
  <2>5. CASE Record(r)
    BY <2>5 DEF Record
  <2> QED BY <1>7, <2>1, <2>2, <2>3, <2>4, <2>5 DEF RunStep
<1>8. ASSUME NEW k \in Callers, ShutdownStep(k) PROVE CountInv'
  BY <1>8 DEF ShutdownStep, BeginShutdown, SchedulerStopped, SchedulerTimesOut,
              Drain, DrainTimesOut, work
<1>9. CASE UNCHANGED vars
  BY <1>9 DEF vars, work
<1> QED BY <1>1, <1>2, <1>3, <1>4, <1>5, <1>6, <1>7, <1>8, <1>9 DEF Next

LEMMA Invariant == Spec => []IInv
<1>1. IInv /\ [Next]_vars => IInv'
  BY TypeStep, BootStep, StopStep, CountStep DEF IInv
<1> QED BY IInvInit, <1>1, PTL DEF Spec

\* The variables keep their types, with any number of jobs and messages.
THEOREM TypeCorrect == Spec => []TypeOK
<1>1. IInv => TypeOK
  BY DEF IInv
<1> QED BY <1>1, Invariant, PTL

\* The connection drains only when no scheduled run is at work any more, or
\* gocron has reported that it gave up waiting: agent.Shutdown's order, with two
\* callers at once.
THEOREM QuietWhenDraining == Spec => []QuietAtDrain
<1>1. IInv => QuietAtDrain
  BY DEF IInv, StopInv, QuietAtDrain
<1> QED BY <1>1, Invariant, PTL

\* A start that fails leaves no open connection.
THEOREM FailedStartCloses == Spec => []FailedStartIsClosed
<1>1. IInv => FailedStartIsClosed
  BY DEF IInv, BootInv, FailedStartIsClosed
<1> QED BY <1>1, Invariant, PTL

\* A success is counted only after the report was accepted by JetStream's client, and
\* an accepted scrape stays uncounted only between the two steps of its run.
THEOREM CountsAreDelivered == Spec => []CountedWasDelivered
<1>1. IInv => CountedWasDelivered
  BY DEF IInv, CountInv
<1> QED BY <1>1, Invariant, PTL
=============================================================================
