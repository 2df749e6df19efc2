--------------------------- MODULE MCSubscriptions ---------------------------
(* A small instance of Subscriptions for TLC.                              *)
EXTENDS Subscriptions, TLC

CONSTANTS addrA, addrB, regA

Msg(address, type, fits) == [address |-> address, type |-> type, fits |-> fits]

Events == {{"Event"}}
OneRegister == regA :> addrA

\* An event that decodes, a write that does not, and an event of an address for
\* which there is no register class.
WithForeign ==
    {Msg(addrA, "Event", {regA}), Msg(addrA, "Write", {}), Msg(addrB, "Event", {})}
=============================================================================
