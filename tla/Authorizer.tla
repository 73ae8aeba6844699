----------------------------- MODULE Authorizer ------------------------------
(***************************************************************************)
(* What external authorization promises the query path: a request is       *)
(* allowed only if the policy server, asked about this very input while    *)
(* the request was waiting, allowed it with no strings attached.  Anything *)
(* else is a denial, or no answer.                                         *)
(***************************************************************************)
CONSTANTS Call, Input, NoInput

VARIABLES
    question,   \* the input each call asks about
    ruling,     \* what the policy server decided on it
    answer      \* what the call is told

vars == <<question, ruling, answer>>

Init ==
    /\ question = [c \in Call |-> NoInput]
    /\ ruling = [c \in Call |-> "none"]
    /\ answer = [c \in Call |-> "none"]

Ask(c) ==
    /\ question[c] = NoInput
    /\ \E i \in Input : question' = [question EXCEPT ![c] = i]
    /\ \E v \in {"none", "unavailable"} : answer' = [answer EXCEPT ![c] = v]
    /\ UNCHANGED ruling

Decide(c) ==
    /\ question[c] # NoInput /\ ruling[c] = "none" /\ answer[c] = "none"
    /\ \E d \in {"allow", "deny", "conditional"} : ruling' = [ruling EXCEPT ![c] = d]
    /\ UNCHANGED <<question, answer>>

\* What was decided on the input of a call: two calls may ask the same.
DecidedOn(i) == {ruling[d] : d \in {d \in Call : question[d] = i}}

Answer(c) ==
    /\ question[c] # NoInput /\ answer[c] = "none"
    /\ \/ "allow" \in DecidedOn(question[c]) /\ answer' = [answer EXCEPT ![c] = "allowed"]
       \/ DecidedOn(question[c]) \cap {"deny", "conditional"} # {}
          /\ answer' = [answer EXCEPT ![c] = "denied"]
       \/ answer' = [answer EXCEPT ![c] = "unavailable"]
       \/ answer' = [answer EXCEPT ![c] = "canceled"]
    /\ UNCHANGED <<question, ruling>>

Forget(c) ==
    /\ answer[c] # "none"
    /\ question' = [question EXCEPT ![c] = NoInput]
    /\ ruling' = [ruling EXCEPT ![c] = "none"]
    /\ answer' = [answer EXCEPT ![c] = "none"]

Next == \E c \in Call : Ask(c) \/ Decide(c) \/ Answer(c) \/ Forget(c)

Spec == Init /\ [][Next]_vars
=============================================================================
