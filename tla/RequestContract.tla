-------------------------- MODULE RequestContract --------------------------
(***************************************************************************)
(* What Device promises a caller of read() and write(), without queues,    *)
(* locks or a reader thread.                                               *)
(*                                                                         *)
(* Messages are announced one after another, and a reply is offered, in    *)
(* the same instant, to every open request for its key that has no offer   *)
(* yet.  A failure of the transport is announced once and for all: it is   *)
(* offered to every open request, and every later one is refused.  A       *)
(* request with an offer ends with it, unless its caller has given up.     *)
(***************************************************************************)
EXTENDS Integers

CONSTANTS Caller, Key

VARIABLES
    phase,     \* "idle", "open" (may be offered something), "ended"
    asked,     \* the key of the caller's latest request
    offer,     \* what an open request has been offered
    result,    \* what the latest request ended with
    announced, \* how many messages have been announced
    broken     \* a failure has been announced

vars == <<phase, asked, offer, result, announced, broken>>

Result(kind, at) == [kind |-> kind, at |-> at]
Nothing == Result("none", 0)
Failure == Result("failure", 0)
GivenUp == {Result("timeout", 0), Result("writeError", 0)}

\* How a request may end with an offer: an error reply may be raised, and a
\* reply the register cannot decode is.
Verdicts(o) ==
    IF o.kind = "reply" THEN {Result(k, o.at) : k \in {"reply", "deviceError", "parseError"}}
    ELSE {o}

Init ==
    /\ phase = [c \in Caller |-> "idle"]
    /\ asked \in [Caller -> Key]
    /\ offer = [c \in Caller |-> Nothing]
    /\ result = [c \in Caller |-> Nothing]
    /\ announced = 0 /\ broken = FALSE

Begin(c) ==
    /\ phase[c] = "idle" /\ ~broken
    /\ phase' = [phase EXCEPT ![c] = "open"]
    /\ \E k \in Key : asked' = [asked EXCEPT ![c] = k]
    /\ result' = [result EXCEPT ![c] = Nothing]
    /\ UNCHANGED <<offer, announced, broken>>

Refuse(c) ==
    /\ phase[c] = "idle" /\ broken
    /\ result' = [result EXCEPT ![c] = Failure]
    /\ UNCHANGED <<phase, asked, offer, announced, broken>>

Unanswered(c) == phase[c] = "open" /\ offer[c] = Nothing

\* The next message answers key k.
Answer(k) ==
    /\ announced' = announced + 1
    /\ offer' = [c \in Caller |->
          IF Unanswered(c) /\ asked[c] = k THEN Result("reply", announced') ELSE offer[c]]
    /\ UNCHANGED <<phase, asked, result, broken>>

\* The next message is an event.
Pass ==
    /\ announced' = announced + 1
    /\ UNCHANGED <<phase, asked, offer, result, broken>>

Break ==
    /\ broken' = TRUE
    /\ offer' = [c \in Caller |-> IF Unanswered(c) THEN Failure ELSE offer[c]]
    /\ UNCHANGED <<phase, asked, result, announced>>

End(c) ==
    /\ phase[c] = "open"
    /\ \E r \in GivenUp \cup (IF offer[c] = Nothing THEN {} ELSE Verdicts(offer[c])) :
          result' = [result EXCEPT ![c] = r]
    /\ phase' = [phase EXCEPT ![c] = "ended"]
    /\ offer' = [offer EXCEPT ![c] = Nothing]
    /\ UNCHANGED <<asked, announced, broken>>

Return(c) ==
    /\ phase[c] = "ended"
    /\ \E r \in Verdicts(result[c]) : result' = [result EXCEPT ![c] = r]
    /\ phase' = [phase EXCEPT ![c] = "idle"]
    /\ UNCHANGED <<asked, offer, announced, broken>>

Next ==
    \/ \E c \in Caller : Begin(c) \/ Refuse(c) \/ End(c) \/ Return(c)
    \/ \E k \in Key : Answer(k)
    \/ Pass \/ Break

Spec == Init /\ [][Next]_vars
=============================================================================
