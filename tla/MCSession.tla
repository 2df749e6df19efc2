----------------------------- MODULE MCSession -----------------------------
(* Small instances of Session for TLC: two user threads.                   *)
EXTENDS Session, TLC

CONSTANTS u1, u2
=============================================================================
