----------------------------- MODULE HttpExchange -----------------------------
(***************************************************************************)
(* What Http.send() promises a script: the host may fail a request, and    *)
(* otherwise answers it once, with the response it has received; one that  *)
(* it cannot carry as it is may become any other.                          *)
(***************************************************************************)
CONSTANTS
    Requests,     \* calls of send()
    Responses,    \* what a callback may be shown
    NoResponse,   \* nothing received yet, one of Responses
    Garbled,      \* a response that cannot be carried, none of Responses
    Unanswered    \* stands for the response of a request without an answer

VARIABLES
    stage,        \* how far each request has got
    received,     \* what the host has received of its response
    answer        \* the response its JavaScript callback was given

Init ==
    /\ stage = [r \in Requests |-> "unsent"]
    /\ received = [r \in Requests |-> NoResponse]
    /\ answer = [r \in Requests |-> Unanswered]

Send(r) ==
    /\ stage[r] = "unsent"
    /\ \E s \in {"sent", "failed"} : stage' = [stage EXCEPT ![r] = s]
    /\ UNCHANGED <<received, answer>>

Receive(r) ==
    /\ stage[r] = "sent"
    /\ received'[r] \in Responses \cup {Garbled}
    /\ received' = [received EXCEPT ![r] = received'[r]]
    /\ \E s \in {"sent", "failed"} : stage' = [stage EXCEPT ![r] = s]
    /\ UNCHANGED answer

Fail(r) ==
    /\ stage[r] = "sent"
    /\ stage' = [stage EXCEPT ![r] = "failed"]
    /\ UNCHANGED <<received, answer>>

Answer(r) ==
    /\ stage[r] = "sent"
    /\ stage' = [stage EXCEPT ![r] = "answered"]
    /\ answer'[r] \in IF received[r] = Garbled THEN Responses ELSE {received[r]}
    /\ answer' = [answer EXCEPT ![r] = answer'[r]]
    /\ UNCHANGED received

Next == \E r \in Requests : Send(r) \/ Receive(r) \/ Fail(r) \/ Answer(r)

Spec == Init /\ [][Next]_<<stage, received, answer>>
=============================================================================
