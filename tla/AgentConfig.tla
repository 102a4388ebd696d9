----------------------------- MODULE AgentConfig -----------------------------
(***************************************************************************)
(* From the configuration file to the running agent: config.Load with its  *)
(* defaults and validation, and what agent.New makes of the result: the    *)
(* TLS and authentication options of the connection, the subjects, and the *)
(* periodic jobs.                                                          *)
(*                                                                         *)
(* Each host has one agent, one configuration file and the files it names. *)
(* An operator edits these at any time, while the agent is running or in   *)
(* the middle of its start: only the file as Load read it counts, but the  *)
(* files it names are looked at twice, by validate and when they are used. *)
(* All hosts share one NATS server, and what keeps their traffic apart are *)
(* the subjects alone.                                                     *)
(*                                                                         *)
(* Abstracted: a task is its interval in seconds, or Off; a secret, a list *)
(* of services or URLs is there or not; the logging section is sensible or *)
(* not.  A string that becomes part of a subject is a sequence of symbols. *)
(***************************************************************************)
EXTENDS Naturals, Sequences

CONSTANTS
    Hosts,
    Files,          \* per host, the configuration files its operator may write
    TokenChars,     \* symbols of [a-zA-Z0-9_-]
    OtherChars,     \* all others but the dot
    DefaultPrefix,  \* "agents"
    MaxPrefix,      \* longest subject prefix (50)
    Unset,          \* a key the file does not have
    Off,            \* a task that is not enabled
    Garbled,        \* a file that is not YAML
    NoConfig,       \* nothing loaded
    MaxEdits        \* bound: what operators change

Dot == "."
Chars == TokenChars \cup OtherChars \cup {Dot}
Text == Seq(Chars)

\* The words every agent's subjects end in.
Words == {"cmd", "ping", "service", "logs", "exec", "health",
          "heartbeat", "telemetry", "system", "inventory"}

Tasks == {"heartbeat", "system_metrics", "service_check", "inventory"}
TLSPaths == {"cert", "key", "ca"}
Paths == TLSPaths \cup {"creds", "scripts"}
AuthTypes == {"creds", "token", "userpass", "none"}

\* What Load makes of a file.
Config == [device_id : Text, subject_prefix : Text, urls : BOOLEAN,
           auth : AuthTypes \cup {"other"}, secret : BOOLEAN, tls : BOOLEAN,
           skip_verify : BOOLEAN, named : SUBSET (Paths \ {"creds"}),
           tasks : [Tasks -> Nat \cup {Off}],
           services : BOOLEAN, timeout : Nat, logging : BOOLEAN]

\* A file may leave out what has a default.
File == [device_id : Text, subject_prefix : Text \cup {Unset}, urls : BOOLEAN,
         auth : AuthTypes \cup {"other"}, secret : BOOLEAN, tls : BOOLEAN,
         skip_verify : BOOLEAN, named : SUBSET (Paths \ {"creds"}),
         tasks : [Tasks -> Nat \cup {Off, Unset}],
         services : BOOLEAN, timeout : Nat \cup {Unset}, logging : BOOLEAN]

ASSUME FilesAssumption == Files \in [Hosts -> SUBSET File] /\ Garbled \notin File
ASSUME CharsAssumption == Dot \notin TokenChars \cup OtherChars /\ TokenChars \cap OtherChars = {}
ASSUME DefaultsAssumption ==
    /\ DefaultPrefix \in Text /\ MaxPrefix \in Nat
    /\ Unset \notin Text \cup Nat \cup {Off} /\ Off \notin Nat /\ NoConfig \notin Config
ASSUME BoundsAssumption == MaxEdits \in Nat

VARIABLES
    file,       \* per host, the configuration file
    disk,       \* per host and path, whether there is something usable there
    edits,      \* changes made so far
    phase,      \* per host, how far the agent has come
    cfg,        \* per host, the configuration loaded by the last start
    presents,   \* per host, what the connection identifies itself with, and how
                \* it checks the server
    subs,       \* per host, the subjects subscribed to
    refusal     \* per host, which step ended the last start

operator == <<file, disk, edits>>
vars == <<operator, phase, cfg, presents, subs, refusal>>

Nothing == [secret |-> FALSE, certificate |-> FALSE, server |-> "unset"]
ServerChecks == {"unset", "skipped", "system", "named"}
Phases == {"stopped", "loaded", "connected", "subscribed", "running", "refused"}
Steps == {"none", "load", "connect", "subscribe", "schedule"}

Init ==
    /\ file \in [Hosts -> UNION {Files[h] : h \in Hosts} \cup {Garbled}]
    /\ \A h \in Hosts : file[h] \in Files[h] \cup {Garbled}
    /\ disk = [h \in Hosts |-> [p \in Paths |-> "good"]]
    /\ edits = 0
    /\ phase = [h \in Hosts |-> "stopped"]
    /\ cfg = [h \in Hosts |-> NoConfig]
    /\ presents = [h \in Hosts |-> Nothing]
    /\ subs = [h \in Hosts |-> {}]
    /\ refusal = [h \in Hosts |-> "none"]

-----------------------------------------------------------------------------
(* The operators.                                                          *)

Edit(h) ==
    /\ edits < MaxEdits
    /\ \E f \in Files[h] \cup {Garbled} : file' = [file EXCEPT ![h] = f]
    /\ edits' = edits + 1
    /\ UNCHANGED <<disk, phase, cfg, presents, subs, refusal>>

\* A file is removed, replaced or spoilt.
Replace(h) ==
    /\ edits < MaxEdits
    /\ \E p \in Paths, content \in {"good", "bad", "missing"} :
          disk' = [disk EXCEPT ![h][p] = content]
    /\ edits' = edits + 1
    /\ UNCHANGED <<file, phase, cfg, presents, subs, refusal>>

-----------------------------------------------------------------------------
(* config.Load                                                             *)

DefaultTask == [heartbeat |-> 60, system_metrics |-> 300,
                service_check |-> 60, inventory |-> 86400]

\* setDefaults, then the file over it
WithDefaults(f) ==
    [f EXCEPT !.subject_prefix = IF @ = Unset THEN DefaultPrefix ELSE @,
              !.tasks = [t \in Tasks |-> IF f.tasks[t] = Unset THEN DefaultTask[t] ELSE f.tasks[t]],
              !.timeout = IF @ = Unset THEN 30 ELSE @]

OfToken(text) == \A i \in DOMAIN text : text[i] \in TokenChars

\* Seeded fault: the device id is held to the rules for prefixes.
ValidDeviceIDAsPrefix(id) ==
    /\ id # <<>>
    /\ id[1] # Dot /\ id[Len(id)] # Dot
    /\ \A i \in DOMAIN id : id[i] \in TokenChars \cup {Dot}

ValidDeviceID(id) == id # <<>> /\ OfToken(id)

\* validateSubjectPrefix: tokens, none of them empty, separated by dots.
ValidPrefix(prefix) ==
    /\ prefix # <<>> /\ Len(prefix) <= MaxPrefix
    /\ prefix[1] # Dot /\ prefix[Len(prefix)] # Dot
    /\ \A i \in 1..(Len(prefix) - 1) : ~(prefix[i] = Dot /\ prefix[i + 1] = Dot)
    /\ \A i \in DOMAIN prefix : prefix[i] \in TokenChars \cup {Dot}

\* The credentials are there, and the file too if they are in one.
ValidAuth(c, there) ==
    /\ c.auth \in AuthTypes
    /\ c.auth # "none" => c.secret
    /\ c.auth = "creds" => "creds" \in there

\* Seeded fault: a certificate needs no key.
ValidTLSUnpaired(c, there) ==
    c.tls => c.named \cap TLSPaths \subseteq there

\* Certificate and key come together, and every file named exists.
ValidTLS(c, there) ==
    c.tls => /\ "cert" \in c.named <=> "key" \in c.named
             /\ c.named \cap TLSPaths \subseteq there

\* Seeded fault: the heartbeat's interval is not checked.
ValidIntervalsOfMetrics(tasks) ==
    tasks["system_metrics"] # Off => tasks["system_metrics"] >= 30

ValidIntervals(tasks) ==
    /\ tasks["heartbeat"] # Off => tasks["heartbeat"] >= 10
    /\ tasks["system_metrics"] # Off => tasks["system_metrics"] >= 30
    /\ Off \notin {tasks["heartbeat"], tasks["system_metrics"]} =>
          tasks["heartbeat"] <= tasks["system_metrics"]

\* validate; os.Stat finds the paths in "there", "dirs" are directories.
Valid(c, there, dirs) ==
    /\ ValidDeviceID(c.device_id) /\ ValidPrefix(c.subject_prefix)
    /\ c.urls /\ ValidAuth(c, there) /\ ValidTLS(c, there)
    /\ "scripts" \in c.named => "scripts" \in dirs
    /\ c.tasks["service_check"] # Off => c.services
    /\ ValidIntervals(c.tasks)
    /\ c.timeout \in 5..300
    /\ c.logging

There(h) == {p \in Paths : disk[h][p] # "missing"}
Usable(h) == {p \in Paths : disk[h][p] = "good"}

\* ReadInConfig and Unmarshal, then validate.
Accepts(h) ==
    /\ file[h] # Garbled
    /\ Valid(WithDefaults(file[h]), There(h), Usable(h))

\* Seeded fault: the defaults are validated, but not returned.
LoadAsWritten(h) ==
    /\ phase[h] \in {"stopped", "refused"}
    /\ Accepts(h)
    /\ phase' = [phase EXCEPT ![h] = "loaded"]
    /\ cfg' = [cfg EXCEPT ![h] = file[h]]
    /\ refusal' = [refusal EXCEPT ![h] = "none"]
    /\ UNCHANGED <<operator, presents, subs>>

Load(h) ==
    /\ phase[h] \in {"stopped", "refused"}
    /\ Accepts(h)
    /\ phase' = [phase EXCEPT ![h] = "loaded"]
    /\ cfg' = [cfg EXCEPT ![h] = WithDefaults(file[h])]
    /\ refusal' = [refusal EXCEPT ![h] = "none"]
    /\ UNCHANGED <<operator, presents, subs>>

\* The start ends with an error: the connection is closed, the process ends.
\* What was loaded stays in cfg, for the properties.
Refuse(h, step) ==
    /\ phase' = [phase EXCEPT ![h] = "refused"]
    /\ refusal' = [refusal EXCEPT ![h] = step]
    /\ presents' = [presents EXCEPT ![h] = Nothing]
    /\ subs' = [subs EXCEPT ![h] = {}]
    /\ UNCHANGED operator

LoadFails(h) ==
    /\ phase[h] \in {"stopped", "refused"}
    /\ ~Accepts(h)
    /\ cfg' = [cfg EXCEPT ![h] = NoConfig]
    /\ Refuse(h, "load")

-----------------------------------------------------------------------------
(* agent.New                                                               *)

\* createTLSConfig: a certificate is loaded only if a key is named as well.
Certificates(c) == IF {"cert", "key"} \subseteq c.named THEN {"cert", "key"} ELSE {}
TLSFiles(c) == IF c.tls THEN (c.named \cap {"ca"}) \cup Certificates(c) ELSE {}

\* Whose certificates the server's own is checked with.  The authority that is
\* named is loaded even if the check is skipped.
ServerCheck(c) ==
    CASE ~c.tls -> "unset"
      [] c.tls /\ c.skip_verify -> "skipped"
      [] c.tls /\ ~c.skip_verify /\ "ca" \in TLSFiles(c) -> "named"
      [] OTHER -> "system"

CredsFile(c) == {p \in {"creds"} : c.auth = "creds"}

\* NewClient reads the files and connects, presenting what it was given.
Connect(h) ==
    /\ phase[h] = "loaded"
    /\ TLSFiles(cfg[h]) \cup CredsFile(cfg[h]) \subseteq Usable(h)
    /\ phase' = [phase EXCEPT ![h] = "connected"]
    /\ presents' = [presents EXCEPT ![h] =
                      [secret |-> cfg[h].auth # "none" /\ cfg[h].secret,
                       certificate |-> "cert" \in TLSFiles(cfg[h]),
                       server |-> ServerCheck(cfg[h])]]
    /\ UNCHANGED <<operator, cfg, subs, refusal>>

\* A file has gone bad since, or there is no server that lets the agent in.
ConnectFails(h) ==
    /\ phase[h] = "loaded"
    /\ Refuse(h, "connect")
    /\ UNCHANGED cfg

Join(c, tail) == c.subject_prefix \o <<Dot>> \o c.device_id \o <<Dot>> \o tail
CommandTails == {<<"cmd", Dot, name>> : name \in {"ping", "service", "logs", "exec", "health"}}

\* Seeded fault: "telemetry" is left out of the subjects.
ShortTail == [heartbeat |-> <<"heartbeat">>, system_metrics |-> <<"system">>,
              service_check |-> <<"service">>, inventory |-> <<"inventory">>]

TaskTail == [heartbeat |-> <<"heartbeat">>,
             system_metrics |-> <<"telemetry", Dot, "system">>,
             service_check |-> <<"telemetry", Dot, "service">>,
             inventory |-> <<"telemetry", Dot, "inventory">>]

\* SubscribeAll
Subscribe(h) ==
    /\ phase[h] = "connected"
    /\ phase' = [phase EXCEPT ![h] = "subscribed"]
    /\ subs' = [subs EXCEPT ![h] = {Join(cfg[h], tail) : tail \in CommandTails}]
    /\ UNCHANGED <<operator, cfg, presents, refusal>>

SubscribeFails(h) ==
    /\ phase[h] = "connected"
    /\ Refuse(h, "subscribe")
    /\ UNCHANGED cfg

\* gocron takes no job that is to run every 0 seconds.
Schedulable(c) == \A t \in Tasks : c.tasks[t] # 0

\* scheduleTasks, and Run
Schedule(h) ==
    /\ phase[h] = "subscribed"
    /\ Schedulable(cfg[h])
    /\ phase' = [phase EXCEPT ![h] = "running"]
    /\ UNCHANGED <<operator, cfg, presents, subs, refusal>>

ScheduleFails(h) ==
    /\ phase[h] = "subscribed"
    /\ ~Schedulable(cfg[h])
    /\ Refuse(h, "schedule")
    /\ UNCHANGED cfg

\* The service is stopped; a new start reads the file again.
Stop(h) ==
    /\ phase[h] = "running"
    /\ phase' = [phase EXCEPT ![h] = "stopped"]
    /\ cfg' = [cfg EXCEPT ![h] = NoConfig]
    /\ presents' = [presents EXCEPT ![h] = Nothing]
    /\ subs' = [subs EXCEPT ![h] = {}]
    /\ UNCHANGED <<operator, refusal>>

-----------------------------------------------------------------------------
StartStep(h) ==
    \/ Load(h) \/ LoadFails(h) \/ Connect(h) \/ ConnectFails(h)
    \/ Subscribe(h) \/ SubscribeFails(h) \/ Schedule(h) \/ ScheduleFails(h)

Next == \E h \in Hosts : Edit(h) \/ Replace(h) \/ StartStep(h) \/ Stop(h)

Spec == Init /\ [][Next]_vars

-----------------------------------------------------------------------------
(* Properties.                                                             *)

TypeOK ==
    /\ file \in [Hosts -> File \cup {Garbled}]
    /\ disk \in [Hosts -> [Paths -> {"good", "bad", "missing"}]]
    /\ edits \in 0..MaxEdits
    /\ phase \in [Hosts -> Phases]
    /\ cfg \in [Hosts -> Config \cup {NoConfig}]
    /\ presents \in [Hosts -> [secret : BOOLEAN, certificate : BOOLEAN,
                            server : ServerChecks]]
    /\ subs \in [Hosts -> SUBSET Seq(Chars \cup Words)]
    /\ refusal \in [Hosts -> Steps]

Telemetry(h) ==
    IF phase[h] = "running"
    THEN {Join(cfg[h], TaskTail[t]) : t \in {u \in Tasks : cfg[h].tasks[u] # Off}}
    ELSE {}

\* Hosts share a command subject only if they have the same prefix and the same
\* device id: a command reaches the agent it is addressed to and no other one,
\* whatever prefixes and ids the operators choose and validate lets pass.
OneAddressee ==
    \A g, h \in Hosts : subs[g] \cap subs[h] # {} =>
        /\ cfg[g].subject_prefix = cfg[h].subject_prefix
        /\ cfg[g].device_id = cfg[h].device_id

\* No agent publishes its telemetry on a subject where an agent takes it for a
\* command, even if a device is named after a part of a subject ("cmd").
TelemetryIsNoCommand ==
    \A g, h \in Hosts : Telemetry(g) \cap subs[h] = {}

\* An agent that is connected identifies itself as it was configured to: by
\* the secret its authentication needs and by the certificate it names.  With TLS
\* it checks the server, against the authority it names if it names one, unless
\* insecure_skip_verify is set, and only then is the check skipped.
\* createTLSConfig passes over a certificate without a key, so this rests on what
\* validate let through.
ConnectsAsConfigured ==
    \A h \in Hosts : phase[h] \in {"connected", "subscribed", "running"} =>
        /\ cfg[h].auth # "none" => presents[h].secret
        /\ cfg[h].tls =>
              /\ cfg[h].named \cap {"cert", "key"} # {} => presents[h].certificate
              /\ cfg[h].skip_verify <=> presents[h].server = "skipped"
              /\ "ca" \in cfg[h].named /\ ~cfg[h].skip_verify => presents[h].server = "named"

\* A configuration that was accepted is refused by the scheduler, when the agent
\* is already connected and takes commands, only for one of the two intervals that
\* validate does not look at.  (For that of service_check nothing else has happened
\* yet; for that of inventory the startup inventory has gone out as well.)
LateRefusalIsUnchecked ==
    \A h \in Hosts : refusal[h] = "schedule" =>
        \E t \in {"service_check", "inventory"} : cfg[h].tasks[t] = 0
=============================================================================
