------------------------ MODULE ServiceControl_proofs ------------------------
(***************************************************************************)
(* Proofs about ServiceControl for any services, requests and number of    *)
(* polls: what a success claims has happened, a restart that leaves its    *)
(* service down says so, and a list of statuses is complete.               *)
(***************************************************************************)
EXTENDS ServiceControl, TLAPS

\* The position in ControlService says what its service went through so far.
ProgressInv ==
    current # None =>
        /\ result[current] = "none"
        /\ pc = "stop" => Action[current] \in {"stop", "restart"}
        /\ pc = "await stopped" =>
              /\ Action[current] \in {"stop", "restart"}
              /\ "stop" \in been[current]
              /\ state[Target[current]] = "Stopped" => "stopped" \in been[current]
        /\ pc = "start" =>
              \/ Action[current] = "start"
              \/ Action[current] = "restart" /\ {"stop", "stopped"} \subseteq been[current]
        /\ pc = "await running" =>
              /\ Action[current] = "restart"
              /\ {"stop", "stopped", "start"} \subseteq been[current]
              /\ state[Target[current]] = "Running" => "running" \in been[current]

\* A request that stopped a service is about it, and has not started it again.
CauseInv ==
    \A s \in Services : cause[s] # None =>
        /\ Target[cause[s]] = s
        /\ cause[s] = current \/ result[cause[s]] # "none"
        /\ Action[cause[s]] \in {"stop", "restart"}
        /\ cause[s] = current => pc \in {"await stopped", "start"}

\* The check has dealt with the entries before the next one.
CheckInv ==
    next > 0 => /\ Len(entries) = next - 1
                /\ \A i \in 1..(next - 1) : entries[i].name = Checked[i]

CallInv == ProgressInv /\ CauseInv /\ SuccessIsTrue /\ DownIsReported
IInv == TypeOK /\ CallInv /\ CheckInv /\ ReportComplete

USE ServicesAssumption, RequestsAssumption, BoundsAssumption

\* A change of state by itself or by somebody else.
LEMMA Changes ==
    ASSUME NEW s \in Installed, Settle(s) \/ Event(s), TypeOK
    PROVE  events' \in 0..MaxEvents /\ \E new \in States : Enter(s, new)
<1>1. CASE Settle(s)
  BY <1>1 DEF Settle, States, TypeOK
<1>2. CASE Event(s)
  <2>1. events' \in 0..MaxEvents
    BY <1>2 DEF Event, TypeOK
  <2>2. \E new \in States : Enter(s, new)
    BY <1>2 DEF Event, States
  <2> QED BY <2>1, <2>2
<1> QED BY <1>1, <1>2

\* A step of ControlService is one of the request at hand and no other's.
LEMMA AtWork == TypeOK /\ ControlStep => current \in Requests /\ pc # "idle"
BY DEF TypeOK, ControlStep, Open, Refuse, StopAccepted, StopRefused, StartAccepted,
       StartRefused, PollSees, PollMisses, QueryFails, TimesOut, Waits

GivesUp == Refuse \/ StopRefused \/ StartRefused \/ QueryFails \/ TimesOut

LEMMA GivingUp == GivesUp => Answer("error") /\ UNCHANGED <<state, events, check, history>>
BY DEF GivesUp, Refuse, StopRefused, StartRefused, QueryFails, TimesOut

\* What TypeOK says of the variables ControlService changes.
ControlTypes ==
    /\ state \in [Services -> States]
    /\ current \in Requests \cup {None}
    /\ pc \in {"idle", "open", "stop", "start"} \cup Waits
    /\ current = None <=> pc = "idle"
    /\ polls \in 0..MaxPolls
    /\ result \in [Requests -> {"none", "ok", "error"}]
    /\ been \in [Requests -> SUBSET Milestones]
    /\ cause \in [Services -> Requests \cup {None}]

LEMMA TypeParts == TypeOK <=> ControlTypes /\ events \in 0..MaxEvents /\ CheckTypes
BY DEF TypeOK, ControlTypes

\* The types when a wait begins.
LEMMA WaitTypes ==
    ASSUME ControlTypes, current \in Requests, NEW wait \in Waits,
           pc' = wait, polls' = 0, UNCHANGED <<current, result>>,
           state' \in [Services -> States], cause' \in [Services -> Requests \cup {None}],
           been' \in [Requests -> SUBSET Milestones]
    PROVE  ControlTypes'
<1>1. polls' \in 0..MaxPolls
  BY BoundsAssumption
<1>2. pc' # "idle" /\ pc' \in {"idle", "open", "stop", "start"} \cup Waits
  BY DEF Waits
<1>3. current' # None /\ current' \in Requests
  BY RequestsAssumption
<1> QED BY <1>1, <1>2, <1>3 DEF ControlTypes

LEMMA ControlTypesStep == ControlTypes /\ ControlStep => ControlTypes'
<1> SUFFICES ASSUME ControlTypes, ControlStep PROVE ControlTypes'
  OBVIOUS
<1>1. current \in Requests /\ pc # "idle"
  BY DEF ControlTypes, ControlStep, Open, Refuse, StopAccepted, StopRefused, StartAccepted,
         StartRefused, PollSees, PollMisses, QueryFails, TimesOut, Waits
<1>2. ASSUME NEW outcome \in {"ok", "error"}, Answer(outcome), UNCHANGED <<state, been, cause>>
      PROVE  ControlTypes'
  BY <1>1, <1>2 DEF ControlTypes, Answer
<1>3. CASE Open
  BY <1>1, <1>3 DEF ControlTypes, Open, history
<1>4. CASE GivesUp
  BY <1>2, <1>4, GivingUp DEF history
<1>5. CASE StopAccepted
  <2>1. state' \in [Services -> States] /\ cause' \in [Services -> Requests \cup {None}]
    BY <1>1, <1>5 DEF ControlTypes, StopAccepted, States
  <2>2. been' \in [Requests -> SUBSET Milestones]
    BY <1>1, <1>5 DEF ControlTypes, StopAccepted, Milestones
  <2>3. pc' = "await stopped" /\ polls' = 0 /\ UNCHANGED <<current, result>>
    BY <1>5 DEF StopAccepted
  <2> QED BY <1>1, <2>1, <2>2, <2>3, WaitTypes DEF Waits
<1>6. CASE StartAccepted
  <2>1. state' \in [Services -> States] /\ cause' \in [Services -> Requests \cup {None}]
    BY <1>1, <1>6 DEF ControlTypes, StartAccepted, States
  <2>2. been' \in [Requests -> SUBSET Milestones]
    BY <1>1, <1>6 DEF ControlTypes, StartAccepted, Milestones
  <2>3. \/ Answer("ok")
        \/ pc' = "await running" /\ polls' = 0 /\ UNCHANGED <<current, result>>
    BY <1>6 DEF StartAccepted
  <2>4. CASE Answer("ok")
    BY <1>1, <2>1, <2>2, <2>4 DEF ControlTypes, Answer
  <2>5. CASE pc' = "await running" /\ polls' = 0 /\ UNCHANGED <<current, result>>
    BY <1>1, <2>1, <2>2, <2>5, WaitTypes DEF Waits
  <2> QED BY <2>3, <2>4, <2>5
<1>7. CASE PollSees
  <2>1. UNCHANGED <<state, been, cause>>
    BY <1>7 DEF PollSees, history
  <2>2. \/ Answer("ok")
        \/ pc' = "start" /\ polls' = 0 /\ UNCHANGED <<current, result>>
    BY <1>7 DEF PollSees
  <2> QED BY <1>1, <1>2, <2>1, <2>2 DEF ControlTypes
<1>8. CASE PollMisses
  BY <1>1, <1>8 DEF ControlTypes, PollMisses, history
<1> QED BY <1>3, <1>4, <1>5, <1>6, <1>7, <1>8 DEF ControlStep, GivesUp

LEMMA CheckTypesStep == TypeOK /\ (BeginCheck \/ CheckStep) => CheckTypes'
<1> SUFFICES ASSUME TypeOK, BeginCheck \/ CheckStep PROVE CheckTypes'
  OBVIOUS
<1>0. Len(Checked) \in Nat /\ <<>> \in Entries
  BY CheckedAssumption DEF Entries
<1>1. CASE BeginCheck
  BY <1>0, <1>1 DEF CheckTypes, BeginCheck
<1>2. CASE ReadStatus \/ ReadFails
  <2>1. next \in DOMAIN Checked /\ next' = next + 1 /\ report' = report
    BY <1>2 DEF ReadStatus, ReadFails
  <2>2. next \in 1..Len(Checked) /\ Checked[next] \in Services
    BY <2>1, CheckedAssumption
  <2>3. PICK status \in States \cup {"Error"} : entries' = Append(entries, Entry(status))
    <3>1. CASE ReadStatus
      <4>1. state[Checked[next]] \in States
        BY <2>2 DEF TypeOK
      <4> QED BY <3>1, <4>1 DEF ReadStatus
    <3>2. CASE ReadFails
      BY <3>2 DEF ReadFails
    <3> QED BY <1>2, <3>1, <3>2
  <2>4. Entry(status) \in [name : Services, status : States \cup {"Error"}]
    BY <2>2 DEF Entry
  <2>5. entries' \in Entries
    BY <2>3, <2>4 DEF TypeOK, CheckTypes, Entries
  <2> QED BY <1>0, <2>1, <2>2, <2>5 DEF TypeOK, CheckTypes
<1>3. CASE EndCheck
  BY <1>0, <1>3 DEF TypeOK, CheckTypes, EndCheck
<1> QED BY <1>1, <1>2, <1>3 DEF CheckStep

LEMMA TypeStep == TypeOK /\ [Next]_vars => TypeOK'
<1> SUFFICES ASSUME TypeOK, [Next]_vars PROVE TypeOK'
  OBVIOUS
<1>1. ASSUME NEW s \in Installed, Settle(s) \/ Event(s) PROVE TypeOK'
  <2>1. PICK new \in States : Enter(s, new)
    BY <1>1, Changes
  <2>2. events' \in 0..MaxEvents
    BY <1>1, Changes
  <2>3. state' \in [Services -> States] /\ cause' \in [Services -> Requests \cup {None}]
    BY <2>1 DEF Enter, TypeOK
  <2>4. \A r \in Requests : Reached(r, new) \subseteq Milestones
    BY DEF Reached, Milestones
  <2>5. been' \in [Requests -> SUBSET Milestones]
    BY <2>1, <2>4 DEF Enter, TypeOK
  <2> QED BY <2>1, <2>2, <2>3, <2>5 DEF Enter, TypeOK, CheckTypes, control, check
<1>2. ASSUME NEW r \in Requests, Take(r) PROVE TypeOK'
  BY <1>2 DEF Take, TypeOK, CheckTypes, check, history
<1>3. CASE ControlStep
  <2>1. UNCHANGED <<events, check>>
    BY <1>3 DEF ControlStep, Open, Refuse, StopAccepted, StopRefused, StartAccepted,
                StartRefused, PollSees, PollMisses, QueryFails, TimesOut
  <2> QED BY <1>3, <2>1, TypeParts, ControlTypesStep DEF CheckTypes, TypeOK, ControlTypes, check
<1>4. CASE BeginCheck \/ CheckStep
  <2>1. UNCHANGED <<state, events, control, result, history>>
    BY <1>4 DEF BeginCheck, CheckStep, ReadStatus, ReadFails, EndCheck
  <2> QED BY <1>4, <2>1, CheckTypesStep DEF TypeOK, control, history
<1>5. CASE UNCHANGED vars
  BY <1>5 DEF vars, TypeOK, CheckTypes, control, check, history
<1> QED BY <1>1, <1>2, <1>3, <1>4, <1>5 DEF Next

\* An answer is right if a success is claimed only of what happened.
LEMMA Answering ==
    ASSUME TypeOK, CallInv, current \in Requests,
           NEW outcome \in {"ok", "error"}, Answer(outcome), UNCHANGED <<state, been, cause>>,
           outcome = "ok" => /\ Claimed(Action[current]) \subseteq been[current]
                             /\ \A s \in Services : cause[s] = current => Action[current] = "stop"
    PROVE  CallInv'
<1>1. current' = None /\ result' = [result EXCEPT ![current] = outcome]
  BY DEF Answer
<1>2. \A r \in Requests : result'[r] = IF r = current THEN outcome ELSE result[r]
  BY <1>1 DEF TypeOK
<1>3. SuccessIsTrue'
  BY <1>2 DEF CallInv, SuccessIsTrue
<1>4. CauseInv'
  <2>1. ASSUME NEW s \in Services, cause[s] # None
        PROVE  result'[cause[s]] # "none" /\ cause[s] # None
    <3>1. cause[s] \in Requests
      BY <2>1 DEF TypeOK
    <3>2. cause[s] = current \/ result[cause[s]] # "none"
      BY <2>1 DEF CallInv, CauseInv
    <3> QED BY <1>2, <2>1, <3>1, <3>2
  <2> QED BY <1>1, <2>1 DEF CallInv, CauseInv
<1>5. DownIsReported'
  BY <1>2 DEF CallInv, DownIsReported, TypeOK
<1> QED BY <1>1, <1>3, <1>4, <1>5 DEF CallInv, ProgressInv

\* The calls: a wait ends with success only in the state waited for, which the
\* service has entered since the agent's own request.
LEMMA CallStep == TypeOK /\ CallInv /\ [Next]_vars => CallInv'
<1> SUFFICES ASSUME TypeOK, CallInv, [Next]_vars PROVE CallInv'
  OBVIOUS
<1>1. ASSUME NEW s \in Installed, Settle(s) \/ Event(s) PROVE CallInv'
  <2>1. PICK new \in States : Enter(s, new)
    BY <1>1, Changes
  <2>2. UNCHANGED <<current, pc, result>>
    BY <2>1 DEF Enter, control
  <2>3. \A r \in Requests : been[r] \subseteq been'[r]
    BY <2>1 DEF Enter
  <2>4. \A t \in Services : cause'[t] = cause[t] \/ cause'[t] = None
    BY <2>1 DEF Enter, TypeOK
  <2>5. ASSUME current # None, Target[current] = s
        PROVE  /\ state'[s] = "Stopped" /\ "stop" \in been[current] => "stopped" \in been'[current]
               /\ state'[s] = "Running" /\ "start" \in been[current] => "running" \in been'[current]
    <3>1. current \in Requests /\ state'[s] = new
      BY <2>1, <2>5 DEF Enter, TypeOK
    <3>2. been'[current] = been[current] \cup Reached(current, new)
      BY <2>1, <2>5, <3>1 DEF Enter
    <3> QED BY <3>1, <3>2 DEF Reached
  <2>6. ASSUME current # None, Target[current] # s
        PROVE  state'[Target[current]] = state[Target[current]]
    BY <2>1, <2>6 DEF Enter, TypeOK
  <2>7. ASSUME current # None PROVE ProgressInv'
    <3>1. current \in Requests /\ been[current] \subseteq been'[current]
      BY <2>3, <2>7 DEF TypeOK
    <3>2. CASE Target[current] = s
      BY <2>2, <2>5, <2>7, <3>1, <3>2 DEF CallInv, ProgressInv
    <3>3. CASE Target[current] # s
      BY <2>2, <2>6, <2>7, <3>1, <3>3 DEF CallInv, ProgressInv
    <3> QED BY <3>2, <3>3
  <2>8. ProgressInv'
    BY <2>2, <2>7 DEF ProgressInv
  <2>9. CauseInv'
    BY <2>2, <2>4 DEF CallInv, CauseInv
  <2>10. DownIsReported'
    BY <2>2, <2>4 DEF CallInv, DownIsReported
  <2>11. SuccessIsTrue'
    BY <2>2, <2>3 DEF CallInv, SuccessIsTrue
  <2> QED BY <2>8, <2>9, <2>10, <2>11 DEF CallInv
<1>2. ASSUME NEW r \in Requests, Take(r) PROVE CallInv'
  <2>1. current = None /\ result[r] = "none" /\ current' = r /\ pc' = "open"
        /\ UNCHANGED <<state, result, been, cause>>
    BY <1>2 DEF Take, history
  <2>2. \A s \in Services : cause[s] # r
    BY <2>1, <1>2 DEF CallInv, CauseInv, DownIsReported
  <2>3. ProgressInv'
    BY <2>1 DEF ProgressInv
  <2>4. CauseInv'
    BY <2>1, <2>2 DEF CallInv, CauseInv
  <2> QED BY <2>1, <2>3, <2>4 DEF CallInv, SuccessIsTrue, DownIsReported
<1>3. CASE ControlStep
  <2>1. current \in Requests /\ current # None
    BY <1>3, AtWork
  <2>2. CASE Open
    BY <2>1, <2>2 DEF Open, history, CallInv, ProgressInv, CauseInv, SuccessIsTrue, DownIsReported
  <2>3. CASE GivesUp
    BY <2>1, <2>3, GivingUp, Answering DEF history
  <2>4. CASE StopAccepted
    <3>1. UNCHANGED <<current, result>> /\ pc = "stop" /\ pc' = "await stopped"
      BY <2>4 DEF StopAccepted
    <3>2. /\ \A r \in Requests : been[r] \subseteq been'[r]
          /\ "stop" \in been'[current]
      BY <2>1, <2>4 DEF StopAccepted, TypeOK
    <3>3. Target[current] \in Services /\ state'[Target[current]] = "StopPending"
      BY <2>1, <2>4 DEF StopAccepted, TypeOK
    <3>4. \A s \in Services : cause'[s] = IF s = Target[current] THEN current ELSE cause[s]
      BY <2>1, <2>4 DEF StopAccepted, TypeOK
    <3>5. Action[current] \in {"stop", "restart"} /\ result[current] = "none"
      BY <2>1, <3>1 DEF CallInv, ProgressInv
    <3>6. ProgressInv'
      BY <2>1, <3>1, <3>2, <3>3, <3>5 DEF ProgressInv
    <3>7. SuccessIsTrue'
      BY <3>1, <3>2 DEF CallInv, SuccessIsTrue
    <3>8. CauseInv'
      BY <2>1, <3>1, <3>4, <3>5 DEF CallInv, CauseInv
    <3>9. DownIsReported'
      BY <3>1, <3>4, <3>5 DEF CallInv, DownIsReported
    <3> QED BY <3>6, <3>7, <3>8, <3>9 DEF CallInv
  <2>5. CASE StartAccepted
    <3>1. pc = "start"
      BY <2>5 DEF StartAccepted
    <3>2. /\ \A r \in Requests : been[r] \subseteq been'[r]
          /\ "start" \in been'[current]
      BY <2>1, <2>5 DEF StartAccepted, TypeOK
    <3>3. state'[Target[current]] = "StartPending"
      BY <2>1, <2>5 DEF StartAccepted, TypeOK
    <3>4. \A s \in Services : cause'[s] = IF s = Target[current] THEN None ELSE cause[s]
      BY <2>1, <2>5 DEF StartAccepted, TypeOK
    <3>5. \A s \in Services : cause'[s] # current
      <4> SUFFICES ASSUME NEW s \in Services, cause'[s] = current PROVE FALSE
        OBVIOUS
      <4>1. s # Target[current] /\ cause[s] = current
        BY <2>1, <3>4
      <4> QED BY <2>1, <4>1 DEF CallInv, CauseInv
    <3>6. CASE Action[current] = "start"
      <4>1. current' = None /\ result' = [result EXCEPT ![current] = "ok"]
        BY <2>5, <3>6 DEF StartAccepted, Answer
      <4>2. \A r \in Requests : result'[r] = IF r = current THEN "ok" ELSE result[r]
        BY <4>1 DEF TypeOK
      <4>3. SuccessIsTrue'
        BY <3>2, <3>6, <4>2 DEF CallInv, SuccessIsTrue, Claimed
      <4>4. CauseInv'
        <5>1. ASSUME NEW s \in Services, cause'[s] # None
              PROVE  /\ cause'[s] = cause[s] /\ cause[s] # None /\ cause[s] # current
                     /\ result'[cause[s]] # "none"
          <6>1. cause'[s] = cause[s] /\ cause[s] \in Requests
            BY <3>4, <5>1 DEF TypeOK
          <6>2. result[cause[s]] # "none" /\ cause[s] # current
            BY <3>5, <5>1, <6>1 DEF CallInv, CauseInv
          <6> QED BY <4>2, <5>1, <6>1, <6>2
        <5> QED BY <4>1, <5>1 DEF CallInv, CauseInv
      <4>5. DownIsReported'
        BY <3>4, <3>5, <4>2 DEF CallInv, DownIsReported, TypeOK
      <4> QED BY <4>1, <4>3, <4>4, <4>5 DEF CallInv, ProgressInv
    <3>7. CASE Action[current] = "restart"
      <4>1. pc' = "await running" /\ UNCHANGED <<current, result>>
        BY <2>5, <3>7 DEF StartAccepted
      <4>2. {"stop", "stopped"} \subseteq been[current] /\ result[current] = "none"
        BY <2>1, <3>1, <3>7 DEF CallInv, ProgressInv
      <4>3. ProgressInv'
        BY <2>1, <3>2, <3>3, <3>7, <4>1, <4>2 DEF ProgressInv
      <4>4. SuccessIsTrue'
        BY <3>2, <4>1 DEF CallInv, SuccessIsTrue
      <4>5. CauseInv' /\ DownIsReported'
        BY <3>4, <3>5, <4>1 DEF CallInv, CauseInv, DownIsReported
      <4> QED BY <4>3, <4>4, <4>5 DEF CallInv
    <3> QED BY <2>1, <3>1, <3>6, <3>7 DEF CallInv, ProgressInv
  <2>6. CASE PollSees
    <3>1. UNCHANGED <<state, been, cause>> /\ pc \in Waits /\ state[Target[current]] = Goal
      BY <2>6 DEF PollSees, history
    <3>2. CASE pc = "await stopped" /\ Action[current] = "restart"
      <4>1. pc' = "start" /\ UNCHANGED <<current, result>>
        BY <2>6, <3>2 DEF PollSees
      <4>2. {"stop", "stopped"} \subseteq been[current] /\ result[current] = "none"
        BY <2>1, <3>1, <3>2 DEF CallInv, ProgressInv, Goal
      <4>3. ProgressInv'
        BY <2>1, <3>1, <3>2, <4>1, <4>2 DEF ProgressInv
      <4>4. CauseInv'
        BY <3>1, <4>1 DEF CallInv, CauseInv
      <4> QED BY <3>1, <4>1, <4>3, <4>4 DEF CallInv, SuccessIsTrue, DownIsReported
    <3>3. CASE pc = "await stopped" /\ Action[current] # "restart"
      <4>1. Answer("ok")
        BY <2>6, <3>3 DEF PollSees
      <4>2. Action[current] = "stop" /\ {"stop", "stopped"} \subseteq been[current]
        BY <2>1, <3>1, <3>3 DEF CallInv, ProgressInv, Goal
      <4>3. Claimed(Action[current]) \subseteq been[current]
        BY <4>2 DEF Claimed
      <4> QED BY <2>1, <3>1, <4>1, <4>2, <4>3, Answering
    <3>4. CASE pc = "await running"
      <4>1. Answer("ok")
        BY <2>6, <3>4 DEF PollSees
      <4>2. Action[current] = "restart" /\ Milestones \subseteq been[current]
        BY <2>1, <3>1, <3>4 DEF CallInv, ProgressInv, Goal, Milestones
      <4>3. Claimed(Action[current]) \subseteq been[current]
        BY <4>2 DEF Claimed
      <4>4. \A s \in Services : cause[s] # current
        BY <2>1, <3>4 DEF CallInv, CauseInv
      <4> QED BY <2>1, <3>1, <4>1, <4>3, <4>4, Answering
    <3> QED BY <3>1, <3>2, <3>3, <3>4 DEF Waits
  <2>7. CASE PollMisses
    BY <2>1, <2>7 DEF PollMisses, history, CallInv, ProgressInv, CauseInv, SuccessIsTrue,
                      DownIsReported
  <2> QED BY <1>3, <2>2, <2>3, <2>4, <2>5, <2>6, <2>7 DEF ControlStep, GivesUp
<1>4. CASE BeginCheck \/ CheckStep \/ UNCHANGED vars
  <2>1. UNCHANGED <<state, current, pc, result, been, cause>>
    BY <1>4 DEF BeginCheck, CheckStep, ReadStatus, ReadFails, EndCheck, control, history, vars
  <2> QED BY <2>1 DEF CallInv, ProgressInv, CauseInv, SuccessIsTrue, DownIsReported
<1> QED BY <1>1, <1>2, <1>3, <1>4 DEF Next

\* The check: an entry is added for every service, readable or not.
LEMMA CheckStepInv == IInv /\ [Next]_vars => CheckInv' /\ ReportComplete'
<1> SUFFICES ASSUME IInv, [Next]_vars PROVE CheckInv' /\ ReportComplete'
  OBVIOUS
<1> USE DEF IInv, TypeOK, CheckInv, ReportComplete, Entries
<1>1. ASSUME NEW s \in Installed, Settle(s) \/ Event(s) PROVE CheckInv' /\ ReportComplete'
  <2>1. UNCHANGED check
    BY <1>1, Changes DEF Enter
  <2> QED BY <2>1 DEF check
<1>2. ASSUME NEW r \in Requests, Take(r) PROVE CheckInv' /\ ReportComplete'
  BY <1>2 DEF Take, check
<1>3. CASE ControlStep
  <2>1. UNCHANGED check
    BY <1>3 DEF ControlStep, Open, Refuse, StopAccepted, StopRefused, StartAccepted,
                StartRefused, PollSees, PollMisses, QueryFails, TimesOut
  <2> QED BY <2>1 DEF check
<1>4. CASE BeginCheck
  BY <1>4 DEF BeginCheck
<1>5. CASE ReadStatus \/ ReadFails
  <2>1. PICK status \in States \cup {"Error"} : entries' = Append(entries, Entry(status))
    BY <1>5 DEF ReadStatus, ReadFails
  <2>2. next' = next + 1 /\ report' = report /\ next \in 1..Len(Checked)
    BY <1>5 DEF ReadStatus, ReadFails
  <2> QED BY <2>1, <2>2 DEF Entry
<1>6. CASE EndCheck
  BY <1>6 DEF EndCheck
<1>7. CASE UNCHANGED vars
  BY <1>7 DEF vars, check
<1> QED BY <1>1, <1>2, <1>3, <1>4, <1>5, <1>6, <1>7 DEF Next, CheckStep

LEMMA IInvInit == Init => IInv
<1> SUFFICES ASSUME Init PROVE IInv
  OBVIOUS
<1>1. TypeOK
  BY CheckedAssumption DEF Init, TypeOK, CheckTypes, Entries, States, Milestones, Waits
<1>2. CallInv
  BY DEF Init, CallInv, ProgressInv, CauseInv, SuccessIsTrue, DownIsReported
<1>3. CheckInv /\ ReportComplete
  BY DEF Init, CheckInv, ReportComplete
<1> QED BY <1>1, <1>2, <1>3 DEF IInv

LEMMA Invariance == Spec => []IInv
<1>1. IInv /\ [Next]_vars => IInv'
  BY TypeStep, CallStep, CheckStepInv DEF IInv
<1> QED BY IInvInit, <1>1, PTL DEF Spec

\* The variables keep their types: in particular no wait makes more queries than
\* its deadline leaves time for.
THEOREM TypeCorrect == Spec => []TypeOK
<1>1. IInv => TypeOK
  BY DEF IInv
<1> QED BY Invariance, <1>1, PTL

\* A stop or restart that is answered with success has happened, however the
\* services change between the polls.
THEOREM SuccessesAreTrue == Spec => []SuccessIsTrue
<1>1. IInv => SuccessIsTrue
  BY DEF IInv, CallInv
<1> QED BY Invariance, <1>1, PTL

\* A restart that leaves its service down is answered with an error.
THEOREM FailuresAreReported == Spec => []DownIsReported
<1>1. IInv => DownIsReported
  BY DEF IInv, CallInv
<1> QED BY Invariance, <1>1, PTL

\* A list of statuses has every configured service, in order.
THEOREM ReportsAreComplete == Spec => []ReportComplete
<1>1. IInv => ReportComplete
  BY DEF IInv
<1> QED BY Invariance, <1>1, PTL
=============================================================================
