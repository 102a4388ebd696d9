-------------------------- MODULE AgentConfig_proofs --------------------------
(***************************************************************************)
(* Proofs about AgentConfig for any number of hosts, any alphabet and any  *)
(* files operators write: no two agents with different names share a       *)
(* subject, no telemetry is taken for a command, and what validate accepts *)
(* is enough for the steps that come after it.                             *)
(***************************************************************************)
EXTENDS AgentConfig, SequenceTheorems, TLAPS

InText(x, text) == \E i \in DOMAIN text : text[i] = x

\* Two equal concatenations whose second parts are equally long: their lengths,
\* their first parts, their second parts.
LEMMA SameLengths ==
    ASSUME NEW S, NEW x \in Seq(S), NEW y \in Seq(S), NEW s \in Seq(S), NEW t \in Seq(S),
           x \o s = y \o t, Len(s) = Len(t)
    PROVE  Len(x) = Len(y)
<1>1. Len(x \o s) = Len(x) + Len(s)
  BY ConcatProperties
<1>2. Len(y \o t) = Len(y) + Len(t)
  BY ConcatProperties
<1> QED BY <1>1, <1>2, LenProperties

LEMMA SameHead ==
    ASSUME NEW S, NEW x \in Seq(S), NEW y \in Seq(S), NEW s \in Seq(S), NEW t \in Seq(S),
           x \o s = y \o t, Len(s) = Len(t)
    PROVE  x = y
<1>1. Len(x) = Len(y) /\ Len(x) \in Nat /\ Len(s) \in Nat
  BY SameLengths, LenProperties
<1>2. \A i \in 1..Len(x) : x[i] = y[i]
  <2> TAKE i \in 1..Len(x)
  <2>1. i \in 1..(Len(x) + Len(s)) /\ i <= Len(x) /\ i <= Len(y)
    BY <1>1
  <2>2. (x \o s)[i] = x[i] /\ (y \o t)[i] = y[i]
    BY <2>1, <1>1, ConcatProperties
  <2> QED BY <2>2
<1> QED BY <1>1, <1>2, SeqEqual

LEMMA SameTail ==
    ASSUME NEW S, NEW x \in Seq(S), NEW y \in Seq(S), NEW s \in Seq(S), NEW t \in Seq(S),
           x \o s = y \o t, Len(s) = Len(t)
    PROVE  s = t
<1>1. Len(x) = Len(y) /\ Len(x) \in Nat /\ Len(s) \in Nat
  BY SameLengths, LenProperties
<1>2. \A i \in 1..Len(s) : s[i] = t[i]
  <2> TAKE i \in 1..Len(s)
  <2>1. /\ i + Len(x) \in 1..(Len(x) + Len(s)) /\ ~(i + Len(x) <= Len(x))
        /\ (i + Len(x)) - Len(x) = i
    BY <1>1
  <2>2. (x \o s)[i + Len(x)] = s[i] /\ (y \o t)[i + Len(x)] = t[i]
    BY <2>1, <1>1, ConcatProperties
  <2> QED BY <2>2
<1> QED BY <1>2, SeqEqual

\* What comes after the last dot is determined.
LEMMA LastToken ==
    ASSUME NEW S, Dot \in S, NEW p \in Seq(S), NEW q \in Seq(S),
           NEW i \in Seq(S), NEW j \in Seq(S),
           ~InText(Dot, i), ~InText(Dot, j), p \o <<Dot>> \o i = q \o <<Dot>> \o j
    PROVE  i = j
<1> DEFINE x == p \o <<Dot>>
           y == q \o <<Dot>>
<1>1. <<Dot>> \in Seq(S) /\ Len(<<Dot>>) = 1
  OBVIOUS
<1>2. /\ x \in Seq(S) /\ Len(x) = Len(p) + 1 /\ x[Len(p) + 1] = Dot
      /\ y \in Seq(S) /\ Len(y) = Len(q) + 1 /\ y[Len(q) + 1] = Dot
  BY <1>1, ConcatProperties, LenProperties
<1>3. Len(p) \in Nat /\ Len(q) \in Nat /\ Len(i) \in Nat /\ Len(j) \in Nat
  BY LenProperties
<1>4. x \o i = y \o j
  OBVIOUS
<1> HIDE DEF x, y
<1>5. Len(p) + 1 + Len(i) = Len(q) + 1 + Len(j)
  BY <1>2, <1>4, ConcatProperties
<1>6. ~(Len(i) < Len(j))
  <2> SUFFICES ASSUME Len(i) < Len(j) PROVE FALSE
    OBVIOUS
  <2>1. (x \o i)[Len(p) + 1] = Dot
    BY <1>2, <1>3, ConcatProperties
  <2>2. /\ Len(p) + 1 \in 1..(Len(y) + Len(j)) /\ ~(Len(p) + 1 <= Len(y))
        /\ Len(p) + 1 - Len(y) \in 1..Len(j)
    BY <1>2, <1>3, <1>5
  <2>3. (y \o j)[Len(p) + 1] = j[Len(p) + 1 - Len(y)]
    BY <1>2, <2>2, ConcatProperties
  <2> QED BY <2>1, <2>2, <2>3, <1>4 DEF InText
<1>7. ~(Len(j) < Len(i))
  <2> SUFFICES ASSUME Len(j) < Len(i) PROVE FALSE
    OBVIOUS
  <2>1. (y \o j)[Len(q) + 1] = Dot
    BY <1>2, <1>3, ConcatProperties
  <2>2. /\ Len(q) + 1 \in 1..(Len(x) + Len(i)) /\ ~(Len(q) + 1 <= Len(x))
        /\ Len(q) + 1 - Len(x) \in 1..Len(i)
    BY <1>2, <1>3, <1>5
  <2>3. (x \o i)[Len(q) + 1] = i[Len(q) + 1 - Len(x)]
    BY <1>2, <2>2, ConcatProperties
  <2> QED BY <2>1, <2>2, <2>3, <1>4 DEF InText
<1>8. Len(i) = Len(j)
  BY <1>6, <1>7, <1>3
<1> QED BY <1>2, <1>4, <1>8, SameTail

LEMMA BeforeLastToken ==
    ASSUME NEW S, Dot \in S, NEW p \in Seq(S), NEW q \in Seq(S),
           NEW i \in Seq(S), NEW j \in Seq(S),
           ~InText(Dot, i), ~InText(Dot, j), p \o <<Dot>> \o i = q \o <<Dot>> \o j
    PROVE  p = q
<1>1. i = j
  BY LastToken
<1>2. <<Dot>> \in Seq(S) /\ p \o <<Dot>> \in Seq(S) /\ q \o <<Dot>> \in Seq(S)
  BY ConcatProperties
<1>3. p \o <<Dot>> = q \o <<Dot>>
  BY <1>1, <1>2, SameHead
<1> QED BY <1>2, <1>3, SameHead

-----------------------------------------------------------------------------
Symbols == Chars \cup Words

USE FilesAssumption, DefaultsAssumption, BoundsAssumption

\* A name as it was validated: what Load lets into cfg.
ValidNames(c) == c \in Config /\ ValidDeviceID(c.device_id)

LEMMA NamesAreSymbols ==
    ASSUME NEW c, ValidNames(c)
    PROVE  /\ c.subject_prefix \in Seq(Symbols)
           /\ c.device_id \in Seq(Symbols)
           /\ ~InText(Dot, c.device_id)
<1>1. c.subject_prefix \in Seq(Chars) /\ c.device_id \in Seq(Chars)
  BY DEF ValidNames, Config, Text
<1>2. Chars \subseteq Symbols
  BY DEF Symbols
<1>3. ~InText(Dot, c.device_id)
  BY CharsAssumption DEF ValidNames, ValidDeviceID, OfToken, InText
<1> QED BY <1>1, <1>2, <1>3, SeqMonotonic

\* Subjects with equally long tails are equal only if everything in them is.
LEMMA JoinTail ==
    ASSUME NEW c, NEW d, ValidNames(c), ValidNames(d),
           NEW s \in Seq(Symbols), NEW t \in Seq(Symbols),
           Len(s) = Len(t), Join(c, s) = Join(d, t)
    PROVE  s = t
<1>1. /\ c.subject_prefix \o <<Dot>> \o c.device_id \o <<Dot>> \in Seq(Symbols)
      /\ d.subject_prefix \o <<Dot>> \o d.device_id \o <<Dot>> \in Seq(Symbols)
  <2>1. <<Dot>> \in Seq(Symbols)
    BY DEF Symbols, Chars
  <2> QED BY <2>1, NamesAreSymbols, ConcatProperties
<1> QED BY <1>1, SameTail DEF Join

LEMMA JoinNames ==
    ASSUME NEW c, NEW d, ValidNames(c), ValidNames(d),
           NEW s \in Seq(Symbols), NEW t \in Seq(Symbols),
           Len(s) = Len(t), Join(c, s) = Join(d, t)
    PROVE  c.subject_prefix \o <<Dot>> \o c.device_id = d.subject_prefix \o <<Dot>> \o d.device_id
<1> DEFINE x == c.subject_prefix \o <<Dot>> \o c.device_id
           y == d.subject_prefix \o <<Dot>> \o d.device_id
<1>1. <<Dot>> \in Seq(Symbols) /\ x \in Seq(Symbols) /\ y \in Seq(Symbols)
  <2>1. <<Dot>> \in Seq(Symbols)
    BY DEF Symbols, Chars
  <2> QED BY <2>1, NamesAreSymbols, ConcatProperties
<1>2. x \o <<Dot>> \in Seq(Symbols) /\ y \o <<Dot>> \in Seq(Symbols)
  BY <1>1, ConcatProperties
<1>3. (x \o <<Dot>>) \o s = (y \o <<Dot>>) \o t
  BY DEF Join
<1> HIDE DEF x, y
<1>4. x \o <<Dot>> = y \o <<Dot>>
  BY <1>2, <1>3, SameHead
<1>5. x = y
  BY <1>1, <1>4, SameHead
<1> QED BY <1>5 DEF x, y

LEMMA JoinPrefix ==
    ASSUME NEW c, NEW d, ValidNames(c), ValidNames(d),
           NEW s \in Seq(Symbols), NEW t \in Seq(Symbols),
           Len(s) = Len(t), Join(c, s) = Join(d, t)
    PROVE  c.subject_prefix = d.subject_prefix
<1>1. Dot \in Symbols
  BY DEF Symbols, Chars
<1>2. c.subject_prefix \o <<Dot>> \o c.device_id = d.subject_prefix \o <<Dot>> \o d.device_id
  BY JoinNames
<1> QED BY <1>1, <1>2, NamesAreSymbols, BeforeLastToken, Zenon

LEMMA JoinDevice ==
    ASSUME NEW c, NEW d, ValidNames(c), ValidNames(d),
           NEW s \in Seq(Symbols), NEW t \in Seq(Symbols),
           Len(s) = Len(t), Join(c, s) = Join(d, t)
    PROVE  c.device_id = d.device_id
<1>1. Dot \in Symbols
  BY DEF Symbols, Chars
<1>2. c.subject_prefix \o <<Dot>> \o c.device_id = d.subject_prefix \o <<Dot>> \o d.device_id
  BY JoinNames
<1> QED BY <1>1, <1>2, NamesAreSymbols, LastToken, Zenon

-----------------------------------------------------------------------------
\* What validate lets through, as far as later steps rely on it.
Accepted(c) ==
    /\ ValidNames(c)
    /\ c.auth # "none" => c.secret
    /\ c.tls => ("cert" \in c.named <=> "key" \in c.named)
    /\ ValidIntervals(c.tasks)

Subjects(c) == {Join(c, tail) : tail \in CommandTails}
Presented(c) == [secret |-> c.auth # "none" /\ c.secret,
                 certificate |-> "cert" \in TLSFiles(c),
                 server |-> ServerCheck(c)]

\* What the progress of a start says about the configuration and the connection.
HostInv(h) ==
    /\ phase[h] \in {"loaded", "connected", "subscribed", "running"} =>
          Accepted(cfg[h]) /\ refusal[h] = "none"
    /\ phase[h] \in {"connected", "subscribed", "running"} => presents[h] = Presented(cfg[h])
    /\ subs[h] = IF phase[h] \in {"subscribed", "running"} THEN Subjects(cfg[h]) ELSE {}
    /\ refusal[h] = "schedule" =>
          \E t \in {"service_check", "inventory"} : cfg[h].tasks[t] = 0

IInv == TypeOK /\ \A h \in Hosts : HostInv(h)

LEMMA TailsAreSymbols ==
    \A tail \in CommandTails : tail \in Seq(Symbols) /\ Len(tail) = 3
<1>1. \A x, y, z \in Symbols : <<x, y, z>> \in Seq(Symbols) /\ Len(<<x, y, z>>) = 3
  OBVIOUS
<1>2. {"cmd", Dot, "ping", "service", "logs", "exec", "health"} \subseteq Symbols
  BY DEF Symbols, Chars, Words
<1>3. ASSUME NEW tail \in CommandTails PROVE tail \in Seq(Symbols) /\ Len(tail) = 3
  <2>1. PICK name \in {"ping", "service", "logs", "exec", "health"} : tail = <<"cmd", Dot, name>>
    BY <1>3 DEF CommandTails
  <2>2. "cmd" \in Symbols /\ Dot \in Symbols /\ name \in Symbols
    BY <1>2
  <2> QED BY <1>1, <2>1, <2>2
<1> QED BY <1>3

LEMMA TaskTailsAreSymbols == \A t \in Tasks : TaskTail[t] \in Seq(Symbols)
<1>1. \A x, y, z \in Symbols : <<x>> \in Seq(Symbols) /\ <<x, y, z>> \in Seq(Symbols)
  OBVIOUS
<1>2. {"heartbeat", "telemetry", Dot, "system", "service", "inventory"} \subseteq Symbols
  BY DEF Symbols, Chars, Words
<1>3. /\ TaskTail["heartbeat"] = <<"heartbeat">>
      /\ TaskTail["system_metrics"] = <<"telemetry", Dot, "system">>
      /\ TaskTail["service_check"] = <<"telemetry", Dot, "service">>
      /\ TaskTail["inventory"] = <<"telemetry", Dot, "inventory">>
  BY DEF TaskTail
<1>4. TaskTail["heartbeat"] \in Seq(Symbols)
  BY <1>1, <1>2, <1>3
<1>5. TaskTail["system_metrics"] \in Seq(Symbols)
  <2>1. "telemetry" \in Symbols /\ Dot \in Symbols /\ "system" \in Symbols
    BY <1>2
  <2> QED BY <1>1, <1>3, <2>1
<1>6. TaskTail["service_check"] \in Seq(Symbols)
  <2>1. "telemetry" \in Symbols /\ Dot \in Symbols /\ "service" \in Symbols
    BY <1>2
  <2> QED BY <1>1, <1>3, <2>1
<1>7. TaskTail["inventory"] \in Seq(Symbols)
  <2>1. "telemetry" \in Symbols /\ Dot \in Symbols /\ "inventory" \in Symbols
    BY <1>2
  <2> QED BY <1>1, <1>3, <2>1
<1> QED BY <1>4, <1>5, <1>6, <1>7 DEF Tasks

LEMMA JoinIsSubject ==
    ASSUME NEW c, ValidNames(c), NEW tail \in Seq(Symbols)
    PROVE  Join(c, tail) \in Seq(Symbols)
<1>1. <<Dot>> \in Seq(Symbols)
  BY DEF Symbols, Chars
<1> QED BY <1>1, NamesAreSymbols, ConcatProperties DEF Join

LEMMA DefaultsTyped == \A f \in File : WithDefaults(f) \in Config
<1> SUFFICES ASSUME NEW f \in File PROVE WithDefaults(f) \in Config
  OBVIOUS
<1> DEFINE prefix == IF f.subject_prefix = Unset THEN DefaultPrefix ELSE f.subject_prefix
           tasks == [t \in Tasks |-> IF f.tasks[t] = Unset THEN DefaultTask[t] ELSE f.tasks[t]]
           timeout == IF f.timeout = Unset THEN 30 ELSE f.timeout
<1>1. WithDefaults(f) = [[[f EXCEPT !.subject_prefix = prefix]
                              EXCEPT !.tasks = tasks] EXCEPT !.timeout = timeout]
  BY DEF WithDefaults, File
<1>2. tasks \in [Tasks -> Nat \cup {Off}]
  <2>1. \A t \in Tasks : DefaultTask[t] \in Nat
    BY DEF DefaultTask, Tasks
  <2>2. \A t \in Tasks : f.tasks[t] \in Nat \cup {Off, Unset}
    BY DEF File
  <2> QED BY <2>1, <2>2
<1>3. prefix \in Text /\ timeout \in Nat
  BY DEF File
<1> HIDE DEF prefix, tasks, timeout
<1> QED BY <1>1, <1>2, <1>3 DEF Config, File

LEMMA AcceptsAccepted ==
    ASSUME NEW h \in Hosts, TypeOK, Accepts(h)
    PROVE  Accepted(WithDefaults(file[h]))
<1>1. file[h] \in File
  BY DEF TypeOK, Accepts
<1>2. WithDefaults(file[h]) \in Config
  BY <1>1, DefaultsTyped
<1> QED BY <1>2 DEF Accepts, Valid, Accepted, ValidNames, ValidAuth, ValidTLS

LEMMA SubjectsTyped ==
    ASSUME NEW c, ValidNames(c)
    PROVE  Subjects(c) \subseteq Seq(Chars \cup Words)
BY TailsAreSymbols, JoinIsSubject DEF Subjects, Symbols

LEMMA IInvInit == Init => IInv
<1> SUFFICES ASSUME Init PROVE IInv
  OBVIOUS
<1>1. file \in [Hosts -> File \cup {Garbled}]
  BY DEF Init
<1>2. TypeOK
  BY <1>1 DEF Init, TypeOK, Phases, Steps, Nothing, ServerChecks
<1>3. \A h \in Hosts : HostInv(h)
  BY DEF Init, HostInv
<1> QED BY <1>2, <1>3 DEF IInv

LEMMA TypeStep == IInv /\ [Next]_vars => TypeOK'
<1> SUFFICES ASSUME IInv, [Next]_vars PROVE TypeOK'
  OBVIOUS
<1> USE DEF TypeOK, operator
<1>0. TypeOK
  BY DEF IInv
<1>1. ASSUME NEW h \in Hosts, Edit(h) PROVE TypeOK'
  BY <1>0, <1>1 DEF Edit
<1>2. ASSUME NEW h \in Hosts, Replace(h) PROVE TypeOK'
  BY <1>0, <1>2 DEF Replace
<1>3. ASSUME NEW h \in Hosts, Load(h) PROVE TypeOK'
  <2>1. WithDefaults(file[h]) \in Config
    BY <1>0, <1>3, AcceptsAccepted DEF Load, Accepted, ValidNames
  <2> QED BY <1>0, <1>3, <2>1 DEF Load, Phases, Steps
<1>4. ASSUME NEW h \in Hosts, NEW step \in Steps, Refuse(h, step), cfg' \in {cfg, [cfg EXCEPT ![h] = NoConfig]}
      PROVE  TypeOK'
  BY <1>0, <1>4 DEF Refuse, Phases, Nothing, ServerChecks
<1>5. ASSUME NEW h \in Hosts, Connect(h) PROVE TypeOK'
  <2>1. Presented(cfg[h]) \in [secret : BOOLEAN, certificate : BOOLEAN, server : ServerChecks]
    <3>1. cfg[h] \in Config
      BY <1>5 DEF Connect, IInv, HostInv, Accepted, ValidNames
    <3>2. ServerCheck(cfg[h]) \in ServerChecks
      BY DEF ServerCheck, ServerChecks
    <3> QED BY <3>1, <3>2 DEF Presented, Config
  <2>2. presents' = [presents EXCEPT ![h] = Presented(cfg[h])]
    BY <1>5 DEF Connect, Presented
  <2> QED BY <1>0, <1>5, <2>1, <2>2 DEF Connect, Phases
<1>6. ASSUME NEW h \in Hosts, Subscribe(h) PROVE TypeOK'
  <2>1. Subjects(cfg[h]) \subseteq Seq(Chars \cup Words)
    BY <1>6, SubjectsTyped DEF Subscribe, IInv, HostInv, Accepted
  <2>2. subs' = [subs EXCEPT ![h] = Subjects(cfg[h])]
    BY <1>6 DEF Subscribe, Subjects
  <2>3. subs' \in [Hosts -> SUBSET Seq(Chars \cup Words)]
    BY <1>0, <2>1, <2>2
  <2>4. phase' \in [Hosts -> Phases] /\ UNCHANGED <<operator, cfg, presents, refusal>>
    BY <1>0, <1>6 DEF Subscribe, Phases
  <2> QED BY <1>0, <2>3, <2>4
<1>7. ASSUME NEW h \in Hosts, Schedule(h) PROVE TypeOK'
  BY <1>0, <1>7 DEF Schedule, Phases
<1>8. ASSUME NEW h \in Hosts, Stop(h) PROVE TypeOK'
  BY <1>0, <1>8 DEF Stop, Phases, Nothing, ServerChecks
<1>9. CASE UNCHANGED vars
  BY <1>0, <1>9 DEF vars
<1>10. ASSUME NEW h \in Hosts,
              LoadFails(h) \/ ConnectFails(h) \/ SubscribeFails(h) \/ ScheduleFails(h)
       PROVE  TypeOK'
  <2>1. \E step \in Steps : Refuse(h, step) /\ cfg' \in {cfg, [cfg EXCEPT ![h] = NoConfig]}
    BY <1>10 DEF LoadFails, ConnectFails, SubscribeFails, ScheduleFails, Steps
  <2> QED BY <2>1, <1>4
<1> QED
  BY <1>1, <1>2, <1>3, <1>5, <1>6, <1>7, <1>8, <1>9, <1>10 DEF Next, StartStep

\* gocron refuses what validate accepted only for an interval of 0 that validate
\* does not look at.
LEMMA RefusedForZero ==
    ASSUME NEW c, Accepted(c), ~Schedulable(c)
    PROVE  \E t \in {"service_check", "inventory"} : c.tasks[t] = 0
<1>1. PICK t \in Tasks : c.tasks[t] = 0
  BY DEF Schedulable
<1>2. Off # 0
  BY DEF DefaultsAssumption
<1>3. t # "heartbeat" /\ t # "system_metrics"
  BY <1>1, <1>2 DEF Accepted, ValidIntervals
<1> QED BY <1>1, <1>3 DEF Tasks

LEMMA HostStep == IInv /\ [Next]_vars => \A h \in Hosts : HostInv(h)'
<1> SUFFICES ASSUME IInv, [Next]_vars, NEW g \in Hosts PROVE HostInv(g)'
  OBVIOUS
<1> USE DEF HostInv, operator
<1>0. HostInv(g) /\ TypeOK
  BY DEF IInv
<1>1. ASSUME NEW h \in Hosts, Edit(h) \/ Replace(h) PROVE HostInv(g)'
  BY <1>0, <1>1 DEF Edit, Replace
<1>2. ASSUME NEW h \in Hosts, StartStep(h) \/ Stop(h), g # h PROVE HostInv(g)'
  <2>1. /\ phase'[g] = phase[g] /\ cfg'[g] = cfg[g] /\ presents'[g] = presents[g]
        /\ subs'[g] = subs[g] /\ refusal'[g] = refusal[g]
    BY <1>0, <1>2 DEF StartStep, Load, LoadFails, Connect, ConnectFails, Subscribe, SubscribeFails,
                      Schedule, ScheduleFails, Stop, Refuse, TypeOK
  <2> QED BY <1>0, <2>1
<1>3. CASE Load(g)
  <2>1. Accepted(WithDefaults(file[g]))
    BY <1>0, <1>3, AcceptsAccepted DEF Load
  <2>2. /\ phase[g] \in {"stopped", "refused"} /\ phase'[g] = "loaded" /\ refusal'[g] = "none"
        /\ cfg'[g] = WithDefaults(file[g]) /\ subs'[g] = subs[g]
    BY <1>0, <1>3 DEF Load, TypeOK
  <2> QED BY <1>0, <2>1, <2>2
<1>4. ASSUME LoadFails(g) \/ ConnectFails(g) \/ SubscribeFails(g) PROVE HostInv(g)'
  BY <1>0, <1>4 DEF LoadFails, ConnectFails, SubscribeFails, Refuse, TypeOK
<1>5. CASE Connect(g)
  <2>1. presents'[g] = Presented(cfg[g])
    BY <1>0, <1>5 DEF Connect, Presented, TypeOK
  <2>2. /\ phase[g] = "loaded" /\ phase'[g] = "connected" /\ cfg'[g] = cfg[g]
        /\ subs'[g] = subs[g] /\ refusal'[g] = refusal[g]
    BY <1>0, <1>5 DEF Connect, TypeOK
  <2> QED BY <1>0, <2>1, <2>2
<1>6. CASE Subscribe(g)
  <2>1. subs'[g] = Subjects(cfg[g])
    BY <1>0, <1>6 DEF Subscribe, Subjects, TypeOK
  <2>2. /\ phase[g] = "connected" /\ phase'[g] = "subscribed" /\ cfg'[g] = cfg[g]
        /\ presents'[g] = presents[g] /\ refusal'[g] = refusal[g]
    BY <1>0, <1>6 DEF Subscribe, TypeOK
  <2> QED BY <1>0, <2>1, <2>2
<1>7. CASE Schedule(g)
  BY <1>0, <1>7 DEF Schedule, TypeOK
<1>8. CASE ScheduleFails(g)
  <2>1. \E t \in {"service_check", "inventory"} : cfg[g].tasks[t] = 0
    BY <1>0, <1>8, RefusedForZero DEF ScheduleFails
  <2>2. phase'[g] = "refused" /\ cfg'[g] = cfg[g] /\ subs'[g] = {}
    BY <1>0, <1>8 DEF ScheduleFails, Refuse, TypeOK
  <2> QED BY <2>1, <2>2
<1>9. CASE Stop(g)
  BY <1>0, <1>9 DEF Stop, TypeOK
<1>10. CASE UNCHANGED vars
  BY <1>0, <1>10 DEF vars
<1> QED
  BY <1>1, <1>2, <1>3, <1>4, <1>5, <1>6, <1>7, <1>8, <1>9, <1>10 DEF Next, StartStep

LEMMA Invariant == Spec => []IInv
<1>1. IInv /\ [Next]_vars => IInv'
  BY TypeStep, HostStep DEF IInv
<1> QED BY IInvInit, <1>1, PTL DEF Spec

\* The variables keep their types: what Load returns has no gaps, and a subject is
\* made of symbols.
THEOREM TypeCorrect == Spec => []TypeOK
<1>1. IInv => TypeOK
  BY DEF IInv
<1> QED BY <1>1, Invariant, PTL

\* Two agents listen on a common subject only if they have the same prefix and the
\* same device id, in any alphabet and with names of any length.
THEOREM AgentsAreApart == Spec => []OneAddressee
<1>1. ASSUME IInv, NEW g \in Hosts, NEW h \in Hosts, subs[g] \cap subs[h] # {}
      PROVE  /\ cfg[g].subject_prefix = cfg[h].subject_prefix
             /\ cfg[g].device_id = cfg[h].device_id
  <2>1. HostInv(g) /\ HostInv(h)
    BY <1>1 DEF IInv
  <2>2. /\ subs[g] = Subjects(cfg[g]) /\ ValidNames(cfg[g])
        /\ subs[h] = Subjects(cfg[h]) /\ ValidNames(cfg[h])
    BY <1>1, <2>1 DEF HostInv, Accepted
  <2>3. PICK s \in CommandTails, t \in CommandTails : Join(cfg[g], s) = Join(cfg[h], t)
    BY <1>1, <2>2 DEF Subjects
  <2>4. s \in Seq(Symbols) /\ t \in Seq(Symbols) /\ Len(s) = Len(t)
    BY TailsAreSymbols
  <2>5. cfg[g].subject_prefix = cfg[h].subject_prefix
    BY <2>2, <2>3, <2>4, JoinPrefix
  <2>6. cfg[g].device_id = cfg[h].device_id
    BY <2>2, <2>3, <2>4, JoinDevice
  <2> QED BY <2>5, <2>6
<1>2. IInv => OneAddressee
  BY <1>1 DEF OneAddressee
<1> QED BY <1>2, Invariant, PTL

\* A task's subject is no command's, whoever publishes and whoever listens.
LEMMA TaskIsNoCommand ==
    ASSUME NEW c, NEW d, ValidNames(c), ValidNames(d),
           NEW task \in Tasks, NEW tail \in CommandTails
    PROVE  Join(c, TaskTail[task]) # Join(d, tail)
<1> SUFFICES ASSUME Join(c, TaskTail[task]) = Join(d, tail) PROVE FALSE
  OBVIOUS
<1>1. PICK name \in {"ping", "service", "logs", "exec", "health"} : tail = <<"cmd", Dot, name>>
  BY DEF CommandTails
<1>2. TaskTail[task] \in Seq(Symbols) /\ tail \in Seq(Symbols) /\ Len(tail) = 3
  BY TaskTailsAreSymbols, TailsAreSymbols
<1>3. CASE task # "heartbeat"
  <2>1. Len(TaskTail[task]) = 3 /\ TaskTail[task][1] = "telemetry"
    BY <1>3 DEF TaskTail, Tasks
  <2>2. TaskTail[task] = tail
    BY <1>2, <2>1, JoinTail
  <2> QED BY <1>1, <2>1, <2>2
<1>4. CASE task = "heartbeat"
  <2> DEFINE x == c.subject_prefix \o <<Dot>> \o c.device_id \o <<Dot>>
             y == d.subject_prefix \o <<Dot>> \o d.device_id \o <<Dot>>
             front == <<"cmd", Dot>>
  <2>1. /\ <<Dot>> \in Seq(Symbols) /\ front \in Seq(Symbols)
        /\ <<"heartbeat">> \in Seq(Symbols) /\ <<name>> \in Seq(Symbols)
    BY DEF Symbols, Chars, Words
  <2>2. x \in Seq(Symbols) /\ y \in Seq(Symbols)
    BY <2>1, NamesAreSymbols, ConcatProperties
  <2>3. x \o <<"heartbeat">> = y \o tail
    BY <1>4 DEF Join, TaskTail
  <2>4. tail = front \o <<name>>
    BY <1>1
  <2> HIDE DEF x, y, front
  <2>5. y \o tail = (y \o front) \o <<name>>
    BY <2>1, <2>2, <2>4, ConcatAssociative
  <2>6. y \o front \in Seq(Symbols)
    BY <2>1, <2>2, ConcatProperties
  <2>7. x \o <<"heartbeat">> = (y \o front) \o <<name>> /\ Len(<<"heartbeat">>) = Len(<<name>>)
    BY <2>3, <2>5
  <2>8. <<"heartbeat">> = <<name>>
    BY <2>1, <2>2, <2>6, <2>7, SameTail
  <2> QED BY <2>8
<1> QED BY <1>3, <1>4

\* No agent takes another's telemetry, or its own, for a command.
THEOREM TelemetryIsApart == Spec => []TelemetryIsNoCommand
<1>1. ASSUME IInv, NEW g \in Hosts, NEW h \in Hosts, NEW subject,
             subject \in Telemetry(g), subject \in subs[h]
      PROVE  FALSE
  <2>1. PICK task \in Tasks : subject = Join(cfg[g], TaskTail[task])
    BY <1>1 DEF Telemetry
  <2>2. ValidNames(cfg[g])
    BY <1>1 DEF Telemetry, IInv, HostInv, Accepted
  <2>3. ValidNames(cfg[h]) /\ subs[h] = Subjects(cfg[h])
    BY <1>1 DEF IInv, HostInv, Accepted
  <2>4. PICK tail \in CommandTails : subject = Join(cfg[h], tail)
    BY <1>1, <2>3 DEF Subjects
  <2> QED BY <2>1, <2>2, <2>3, <2>4, TaskIsNoCommand
<1>2. IInv => TelemetryIsNoCommand
  BY <1>1 DEF TelemetryIsNoCommand
<1> QED BY <1>2, Invariant, PTL

\* A connected agent presents what its configuration names, and checks the server
\* with the authority named there unless it was configured to skip the check.
THEOREM IdentifiesItself == Spec => []ConnectsAsConfigured
<1>1. ASSUME IInv, NEW h \in Hosts, phase[h] \in {"connected", "subscribed", "running"}
      PROVE  /\ cfg[h].auth # "none" => presents[h].secret
             /\ cfg[h].tls =>
                   /\ cfg[h].named \cap {"cert", "key"} # {} => presents[h].certificate
                   /\ cfg[h].skip_verify <=> presents[h].server = "skipped"
                   /\ "ca" \in cfg[h].named /\ ~cfg[h].skip_verify => presents[h].server = "named"
  <2>1. Accepted(cfg[h]) /\ presents[h] = Presented(cfg[h])
    BY <1>1 DEF IInv, HostInv
  <2>2. /\ presents[h].secret = (cfg[h].auth # "none" /\ cfg[h].secret)
        /\ presents[h].certificate = ("cert" \in TLSFiles(cfg[h]))
        /\ presents[h].server = ServerCheck(cfg[h])
    BY <2>1 DEF Presented
  <2>3. cfg[h].auth # "none" => cfg[h].secret
    BY <2>1 DEF Accepted
  <2>4. ASSUME cfg[h].tls, cfg[h].named \cap {"cert", "key"} # {}
        PROVE  "cert" \in TLSFiles(cfg[h])
    BY <2>1, <2>4 DEF Accepted, TLSFiles, Certificates
  <2>5. cfg[h].tls /\ "ca" \in cfg[h].named => "ca" \in TLSFiles(cfg[h])
    BY DEF TLSFiles
  <2>6. ASSUME cfg[h].tls
        PROVE  cfg[h].skip_verify <=> ServerCheck(cfg[h]) = "skipped"
    BY <2>6 DEF ServerCheck
  <2>7. ASSUME cfg[h].tls, "ca" \in cfg[h].named, ~cfg[h].skip_verify
        PROVE  ServerCheck(cfg[h]) = "named"
    BY <2>5, <2>7 DEF ServerCheck
  <2> QED BY <2>2, <2>3, <2>4, <2>6, <2>7, Zenon
<1>2. IInv => ConnectsAsConfigured
  BY <1>1 DEF ConnectsAsConfigured
<1> QED BY <1>2, Invariant, PTL

\* The scheduler refuses an accepted configuration only for an interval of 0 that
\* validate does not look at.
THEOREM LateRefusals == Spec => []LateRefusalIsUnchecked
<1>1. IInv => LateRefusalIsUnchecked
  BY DEF IInv, HostInv, LateRefusalIsUnchecked
<1> QED BY <1>1, Invariant, PTL
=============================================================================
