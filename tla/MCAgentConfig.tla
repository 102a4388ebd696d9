---------------------------- MODULE MCAgentConfig ----------------------------
(* AgentConfig on two hosts: one whose file differs from a plain one in its *)
(* names, one whose file differs in names or in a section.                  *)
EXTENDS AgentConfig, TLC

CONSTANTS h1, h2

a == <<"a">>
Plain == [device_id |-> a, subject_prefix |-> Unset, urls |-> TRUE,
          auth |-> "none", secret |-> FALSE, tls |-> FALSE,
          skip_verify |-> FALSE, named |-> {},
          tasks |-> [t \in Tasks |-> Unset], services |-> TRUE,
          timeout |-> Unset, logging |-> TRUE]

\* Names: one symbol or two, a dot within, at an end or doubled, a wildcard, a
\* word that subjects use, nothing at all.
Named == {[Plain EXCEPT !.device_id = id, !.subject_prefix = prefix] :
             id \in {a, <<"cmd">>, <<"a", ".", "a">>, <<"*">>, <<>>},
             prefix \in {Unset, <<"a", ".", "a">>, <<"a", ".", "cmd">>,
                         <<"a", ".", ".", "a">>, <<".", "a">>, <<"a", "*">>}}

\* Intervals at their bounds, 0 and off.
Timed == {[Plain EXCEPT !.tasks = ("heartbeat" :> hb) @@ ("system_metrics" :> sm)
                                  @@ ("service_check" :> sc) @@ ("inventory" :> inv)] :
             hb \in {0, 10, 301}, sm \in {Unset, 29, Off}, sc \in {0, Off},
             inv \in {0, Unset}}

\* Identification: every kind, complete or not.
Secured == {[Plain EXCEPT !.auth = kind, !.secret = secret] :
               kind \in {"creds", "userpass", "other"}, secret \in BOOLEAN}
           \cup {[Plain EXCEPT !.tls = TRUE, !.skip_verify = skip, !.named = paths] :
                    skip \in BOOLEAN, paths \in SUBSET {"cert", "key", "ca"}}

Odd == {[Plain EXCEPT !.urls = FALSE], [Plain EXCEPT !.services = FALSE],
        [Plain EXCEPT !.timeout = 4], [Plain EXCEPT !.timeout = 301],
        [Plain EXCEPT !.logging = FALSE], [Plain EXCEPT !.named = {"scripts"}]}

\* One host takes part only with names that could be mistaken for the other's.
AllFiles == (h1 :> {f \in Named : Len(f.device_id) = 1 /\ f.subject_prefix \in
                       {Unset, <<"a", ".", "a">>, <<"a", ".", "cmd">>}})
            @@ (h2 :> Named \cup Timed \cup Secured \cup Odd)
=============================================================================
