---------------------------- MODULE RequestReply ----------------------------
(***************************************************************************)
(* What the agent promises a control plane that sends it commands: every   *)
(* request that reaches a subject is replied to once, the requests of one  *)
(* subject in the order they came, and a ping or a health check whatever   *)
(* the other subjects are doing.  A reply may be refused on its way out;   *)
(* it is not made again, and its request stays without an answer.          *)
(***************************************************************************)
EXTENDS Naturals, Sequences

CONSTANTS
    Requests,
    Subjects,
    Subject,    \* the subject a request is sent to
    Prompt      \* subjects answered without waiting for Windows

VARIABLES
    sent,       \* requests the control plane has published
    line,       \* per subject, the requests not replied to yet, oldest first
    answers,    \* per request, how many answers arrived
    refused     \* per request, how many replies did not

vars == <<sent, line, answers, refused>>

Init ==
    /\ sent = {}
    /\ line = [s \in Subjects |-> <<>>]
    /\ answers = [r \in Requests |-> 0]
    /\ refused = [r \in Requests |-> 0]

\* A request reaches its subject, or is lost on the way: core NATS keeps
\* nothing for a subscriber that is not connected.
Send(r) ==
    /\ r \notin sent
    /\ sent' = sent \cup {r}
    /\ \/ line' = [line EXCEPT ![Subject[r]] = Append(@, r)]
       \/ UNCHANGED line
    /\ UNCHANGED <<answers, refused>>

\* The oldest request of a subject is replied to: the one reply arrives or not.
Answer(s) ==
    /\ line[s] # <<>>
    /\ \/ /\ answers' = [answers EXCEPT ![Head(line[s])] = @ + 1]
          /\ UNCHANGED refused
       \/ /\ refused' = [refused EXCEPT ![Head(line[s])] = @ + 1]
          /\ UNCHANGED answers
    /\ line' = [line EXCEPT ![s] = Tail(@)]
    /\ UNCHANGED sent

Next == (\E r \in Requests : Send(r)) \/ (\E s \in Subjects : Answer(s))

Spec == Init /\ [][Next]_vars /\ \A s \in Prompt : WF_vars(Answer(s))
=============================================================================
