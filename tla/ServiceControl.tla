---------------------------- MODULE ServiceControl ----------------------------
(***************************************************************************)
(* tasks/service_windows.go: ControlService, which starts, stops and       *)
(* restarts services, and GetServiceStatuses, which reports their states.  *)
(*                                                                         *)
(* Both are clients of the Windows service manager and keep no state: what *)
(* makes them hard is that a service changes state by itself, or because   *)
(* somebody else asked for it, between any two of their calls, and that    *)
(* they learn of it only by asking every 500 ms.  The service subject      *)
(* hands over one request at a time; the service check is a scheduled job  *)
(* that runs beside it.                                                    *)
(*                                                                         *)
(* Abstracted: a request that is refused before it has changed anything is *)
(* one outcome, whatever refused it; the pending states of pausing are     *)
(* left out, pausing and continuing take one step.                         *)
(***************************************************************************)
EXTENDS Naturals, Sequences

CONSTANTS
    Services,     \* names of services
    Installed,    \* those the machine has
    Allowed,      \* commands.allowed_services
    Checked,      \* tasks.service_check.services
    Requests,     \* requests to the service subject
    Target,       \* the service each is about
    Action,       \* and what to do with it
    None,         \* no request
    MaxPolls,     \* queries that fit into one wait (30 s, one every 500 ms)
    MaxEvents     \* bound: changes of state the agent did not ask for

ASSUME ServicesAssumption ==
    Installed \subseteq Services /\ Allowed \subseteq Services
ASSUME CheckedAssumption == Checked \in Seq(Services)
ASSUME RequestsAssumption ==
    /\ Target \in [Requests -> Services]
    /\ Action \in [Requests -> {"start", "stop", "restart", "other"}]
    /\ None \notin Requests
ASSUME BoundsAssumption == MaxPolls \in Nat \ {0} /\ MaxEvents \in Nat

VARIABLES
    state,      \* per service, its state in the service manager
    events,     \* changes nobody asked the agent for
    current,    \* the request ControlService works on
    pc,         \* and where it is
    polls,      \* queries of the present wait
    result,     \* per request, what was answered
    next,       \* the service check: the entry to fill in next, 0: no check
    entries,    \* what it has found so far
    report,     \* the list it returned, until the next check
    been,       \* history: per request, what its service went through since
    cause       \* history: per service, the request that stopped it

control == <<current, pc, polls>>
check == <<next, entries, report>>
history == <<been, cause>>
vars == <<state, events, control, result, check, history>>

States == {"Stopped", "StartPending", "Running", "StopPending", "Paused"}
Milestones == {"stop", "stopped", "start", "running"}
Waits == {"await stopped", "await running"}

Init ==
    /\ state \in [Services -> {"Stopped", "Running"}]
    /\ events = 0
    /\ current = None /\ pc = "idle" /\ polls = 0
    /\ result = [r \in Requests |-> "none"]
    /\ next = 0 /\ entries = <<>> /\ report = <<>>
    /\ been = [r \in Requests |-> {}]
    /\ cause = [s \in Services |-> None]

-----------------------------------------------------------------------------
(* The services.                                                           *)

\* What the request at hand sees its service go through: that it stopped after
\* the agent's stop was accepted, that it ran after the agent's start was.
Reached(r, new) ==
    {m \in {"stopped"} : new = "Stopped" /\ "stop" \in been[r]}
        \cup {m \in {"running"} : new = "Running" /\ "start" \in been[r]}

Enter(s, new) ==
    /\ state' = [state EXCEPT ![s] = new]
    /\ been' = [r \in Requests |->
                  IF r = current /\ Target[r] = s THEN been[r] \cup Reached(r, new)
                  ELSE been[r]]
    /\ cause' = IF new = "StartPending" THEN [cause EXCEPT ![s] = None] ELSE cause
    /\ UNCHANGED <<control, result, check>>

\* A pending change completes, at any time or never.
Settle(s) ==
    /\ \/ state[s] = "StartPending" /\ Enter(s, "Running")
       \/ state[s] = "StopPending" /\ Enter(s, "Stopped")
    /\ UNCHANGED events

\* A service ends by itself or does not come up; somebody else, or the service's
\* recovery, starts, stops, pauses or continues it.
Event(s) ==
    /\ events < MaxEvents
    /\ events' = events + 1
    /\ \/ state[s] \in {"Running", "StartPending", "Paused"} /\ Enter(s, "Stopped")
       \/ state[s] = "Stopped" /\ Enter(s, "StartPending")
       \/ state[s] \in {"Running", "Paused"} /\ Enter(s, "StopPending")
       \/ state[s] = "Running" /\ Enter(s, "Paused")
       \/ state[s] = "Paused" /\ Enter(s, "Running")

-----------------------------------------------------------------------------
(* ControlService.                                                         *)

Take(r) ==
    /\ current = None /\ result[r] = "none"
    /\ current' = r /\ pc' = "open" /\ polls' = 0
    /\ UNCHANGED <<state, events, result, check, history>>

Answer(outcome) ==
    /\ result' = [result EXCEPT ![current] = outcome]
    /\ current' = None /\ pc' = "idle" /\ polls' = 0

\* The service is allowed and there, and the action is one of the three.
Open ==
    /\ pc = "open"
    /\ Target[current] \in Allowed \cap Installed
    /\ Action[current] \in {"start", "stop", "restart"}
    /\ pc' = IF Action[current] = "start" THEN "start" ELSE "stop"
    /\ UNCHANGED <<state, events, current, polls, result, check, history>>

\* It is not, or the manager cannot be reached or the service not opened.
Refuse ==
    /\ pc = "open"
    /\ Answer("error")
    /\ UNCHANGED <<state, events, check, history>>

\* Control(Stop) reaches a service that runs.
StopAccepted ==
    /\ pc = "stop"
    /\ LET s == Target[current] IN
         /\ state[s] \in {"Running", "Paused"}
         /\ state' = [state EXCEPT ![s] = "StopPending"]
         /\ cause' = [cause EXCEPT ![s] = current]
    /\ been' = [been EXCEPT ![current] = @ \cup {"stop"}]
    /\ pc' = "await stopped" /\ polls' = 0
    /\ UNCHANGED <<events, current, result, check>>

\* It is stopped already, or pending, or does not take the control.
StopRefused ==
    /\ pc = "stop"
    /\ Answer("error")
    /\ UNCHANGED <<state, events, check, history>>

\* Start of a stopped service.  A start request is answered at once, a restart
\* waits for the service to run.
StartAccepted ==
    /\ pc = "start"
    /\ LET s == Target[current] IN
         /\ state[s] = "Stopped"
         /\ state' = [state EXCEPT ![s] = "StartPending"]
         /\ cause' = [cause EXCEPT ![s] = None]
    /\ been' = [been EXCEPT ![current] = @ \cup {"start"}]
    /\ IF Action[current] = "start" THEN Answer("ok")
       ELSE /\ pc' = "await running" /\ polls' = 0
            /\ UNCHANGED <<current, result>>
    /\ UNCHANGED <<events, check>>

\* Seeded fault: the error of the start that belongs to a restart is dropped.
StartRefusedSilently ==
    /\ pc = "start"
    /\ Answer(IF Action[current] = "restart" THEN "ok" ELSE "error")
    /\ UNCHANGED <<state, events, check, history>>

\* It runs already, is disabled, or its process does not come up.
StartRefused ==
    /\ pc = "start"
    /\ Answer("error")
    /\ UNCHANGED <<state, events, check, history>>

\* Seeded fault: both waits of a restart are for the first one's state.
AlwaysStopped == "Stopped"

\* waitForServiceState: the state waited for.
Goal == IF pc = "await stopped" THEN "Stopped" ELSE "Running"

\* A query sees it: a restart goes on to its start, otherwise all is done.
PollSees ==
    /\ pc \in Waits /\ polls < MaxPolls
    /\ state[Target[current]] = Goal
    /\ IF pc = "await stopped" /\ Action[current] = "restart"
       THEN pc' = "start" /\ polls' = 0 /\ UNCHANGED <<current, result>>
       ELSE Answer("ok")
    /\ UNCHANGED <<state, events, check, history>>

\* Seeded fault: one query more than the time allows.
PollOnceMore ==
    /\ pc \in Waits /\ polls <= MaxPolls
    /\ state[Target[current]] # Goal
    /\ polls' = polls + 1
    /\ UNCHANGED <<state, events, current, pc, result, check, history>>

\* A query does not; sleep for 500 ms.
PollMisses ==
    /\ pc \in Waits /\ polls < MaxPolls
    /\ state[Target[current]] # Goal
    /\ polls' = polls + 1
    /\ UNCHANGED <<state, events, current, pc, result, check, history>>

\* The query itself fails.
QueryFails ==
    /\ pc \in Waits /\ polls < MaxPolls
    /\ Answer("error")
    /\ UNCHANGED <<state, events, check, history>>

\* Seeded fault: the deadline is looked at only once the state is reached.
TimesOutAtGoal ==
    /\ pc \in Waits /\ polls = MaxPolls
    /\ state[Target[current]] = Goal
    /\ Answer("error")
    /\ UNCHANGED <<state, events, check, history>>

\* The deadline has passed: after all the queries, or after fewer slow ones.  There
\* is no query after the last sleep.
TimesOut ==
    /\ pc \in Waits
    /\ Answer("error")
    /\ UNCHANGED <<state, events, check, history>>

ControlStep ==
    \/ Open \/ Refuse
    \/ StopAccepted \/ StopRefused \/ StartAccepted \/ StartRefused
    \/ PollSees \/ PollMisses \/ QueryFails \/ TimesOut

-----------------------------------------------------------------------------
(* GetServiceStatuses.                                                     *)

BeginCheck ==
    /\ next = 0
    /\ next' = 1 /\ entries' = <<>> /\ report' = <<>>
    /\ UNCHANGED <<state, events, control, result, history>>

Entry(status) == [name |-> Checked[next], status |-> status]

ReadStatus ==
    /\ next \in DOMAIN Checked
    /\ Checked[next] \in Installed
    /\ entries' = Append(entries, Entry(state[Checked[next]]))
    /\ next' = next + 1
    /\ UNCHANGED <<state, events, control, result, report, history>>

\* Seeded fault: the loop ends at the first service that cannot be read.
ReadFailsAndEnds ==
    /\ next \in DOMAIN Checked
    /\ entries' = Append(entries, Entry("Error"))
    /\ next' = Len(Checked) + 1
    /\ UNCHANGED <<state, events, control, result, report, history>>

\* The service cannot be opened or queried: it is listed with an error.
ReadFails ==
    /\ next \in DOMAIN Checked
    /\ entries' = Append(entries, Entry("Error"))
    /\ next' = next + 1
    /\ UNCHANGED <<state, events, control, result, report, history>>

EndCheck ==
    /\ next = Len(Checked) + 1
    /\ report' = entries
    /\ next' = 0 /\ entries' = <<>>
    /\ UNCHANGED <<state, events, control, result, history>>

CheckStep == ReadStatus \/ ReadFails \/ EndCheck

-----------------------------------------------------------------------------
Next ==
    \/ \E s \in Installed : Settle(s) \/ Event(s)
    \/ \E r \in Requests : Take(r)
    \/ ControlStep
    \/ BeginCheck \/ CheckStep

\* The agent's two goroutines run when they can.  Nothing is assumed of services:
\* one may stay pending for ever.
Fairness == WF_vars(ControlStep) /\ WF_vars(CheckStep)

Spec == Init /\ [][Next]_vars /\ Fairness

-----------------------------------------------------------------------------
(* Properties.                                                             *)

Entries == Seq([name : Services, status : States \cup {"Error"}])

CheckTypes ==
    /\ next \in 0..(Len(Checked) + 1)
    /\ entries \in Entries /\ report \in Entries

TypeOK ==
    /\ state \in [Services -> States]
    /\ events \in 0..MaxEvents
    /\ current \in Requests \cup {None}
    /\ pc \in {"idle", "open", "stop", "start"} \cup Waits
    /\ current = None <=> pc = "idle"
    /\ polls \in 0..MaxPolls
    /\ result \in [Requests -> {"none", "ok", "error"}]
    /\ CheckTypes
    /\ been \in [Requests -> SUBSET Milestones]
    /\ cause \in [Services -> Requests \cup {None}]

\* What a success claims has happened.
Claimed(action) ==
    CASE action = "start" -> {"start"}
      [] action = "stop" -> {"stop", "stopped"}
      [] action = "restart" -> Milestones
      [] OTHER -> Milestones \cup {"impossible"}

\* A request answered with success is no guess: a stopped service did stop after
\* the agent asked it to, a restarted one stopped, was started by the agent and
\* ran after that, whatever else happened to it between the polls.
SuccessIsTrue ==
    \A r \in Requests : result[r] = "ok" => Claimed(Action[r]) \subseteq been[r]

\* A service that is down since the agent stopped it was to be stopped, or the
\* restart that stopped it said that it failed.
DownIsReported ==
    \A s \in Services :
        cause[s] # None /\ result[cause[s]] = "ok" => Action[cause[s]] = "stop"

\* A published list has the configured services, each once and in their order,
\* even when some of them cannot be read.
ReportComplete ==
    report # <<>> =>
        /\ Len(report) = Len(Checked)
        /\ \A i \in DOMAIN report : report[i].name = Checked[i]

\* A request is answered even when its service hangs in a pending state.
EveryCallReturns == \A r \in Requests : current = r ~> result[r] # "none"
=============================================================================
