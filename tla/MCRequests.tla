----------------------------- MODULE MCRequests -----------------------------
(* Small instances of Requests for TLC.                                    *)
EXTENDS Requests, TLC

CONSTANTS c1, c2, a

Msg(address, type, error, fits) ==
    [address |-> address, type |-> type, error |-> error, fits |-> fits]

\* One register: an error reply to a read and an event.
OneRegister == {Msg(a, "Read", TRUE, FALSE), Msg(a, "Event", FALSE, TRUE)}

\* The least traffic that lets requests be answered.
Replies == {Msg(a, "Read", FALSE, TRUE), Msg(a, "Write", FALSE, TRUE)}

\* A single kind of reply, for the deepest interleavings.
OneReply == {Msg(a, "Read", FALSE, TRUE)}

CallerSymmetry == Permutations(Caller)
=============================================================================
