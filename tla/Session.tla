------------------------------ MODULE Session ------------------------------
(***************************************************************************)
(* The life of a harp.device.client.Device over a SerialTransport: open(), *)
(* close() and __enter__/__exit__ of _device.py as a whole, with the       *)
(* threads they start and join, and the port of _serial.py under them.     *)
(*                                                                         *)
(* close() takes no lock and may be called by any user thread, and by a    *)
(* handler, which runs on an event thread; each statement that reads or    *)
(* writes an attribute of the device is a step.  The i-th open() starts    *)
(* event thread i and reader i.  What requests and handlers do is in       *)
(* Requests and Subscriptions; here a message is only a token that starts  *)
(* handlers.  open() is called on a device nobody is opening or closing:   *)
(* the code gives no protection to callers that do otherwise.              *)
(***************************************************************************)
EXTENDS Integers, Sequences

CONSTANTS
    User,          \* threads that open and close the device
    HandlersClose, \* handlers call close() too
    JoinMayTimeOut, \* a handler may outlast the join of close()
    MaxOpen,       \* bound: calls of open()
    MaxMessage     \* bound: messages read

ASSUME UserAssumption == User \cap Int = {}
ASSUME BoundAssumption ==
    /\ HandlersClose \in BOOLEAN /\ JoinMayTimeOut \in BOOLEAN
    /\ MaxOpen \in Nat /\ MaxMessage \in Nat

VARIABLES
    running, thread, eventThread, \* _running, _thread and _event_thread; 0 for None
    port,           \* SerialTransport._serial: None, an open port or a closed one
    queue,          \* _event_queue
    reader, event,  \* where reader i and event thread i stand
    call, joined,   \* where each thread stands in open() or close(), the thread it joins
    opens, messages, \* calls of open(), messages read
    released        \* a close() has returned since the last open(), without raising

attributes == <<running, thread, eventThread, port>>
threads == <<queue, reader, event, messages>>
vars == <<attributes, threads, call, joined, opens, released>>

Thread == 1..MaxOpen
Closer == User \cup (IF HandlersClose THEN Thread ELSE {})
Stop == "stop"
Message == "message"

Opening == {"start events", "start reader", "identify"}
Closing == {"read thread", "join reader", "await reader", "read event thread",
            "join events", "await events", "release"}

Quiet == \A c \in Closer : call[c] = "out"

Init ==
    /\ running = FALSE /\ thread = 0 /\ eventThread = 0 /\ port = "none"
    /\ queue = <<>>
    /\ reader = [i \in Thread |-> "off"] /\ event = [i \in Thread |-> "off"]
    /\ call = [c \in Closer |-> "out"] /\ joined = [c \in Closer |-> 0]
    /\ opens = 0 /\ messages = 0 /\ released = TRUE

At(c, here, there) == call[c] = here /\ call' = [call EXCEPT ![c] = there]

-----------------------------------------------------------------------------
(* open()                                                                  *)

\* open(), directly or by __enter__, which does nothing on a running device.
MayOpen(u) == Quiet /\ ~running /\ opens < MaxOpen

OpenPort(u) ==
    /\ MayOpen(u)
    /\ At(u, "out", "start events")
    /\ port' = "open" /\ running' = TRUE
    /\ opens' = opens + 1 /\ released' = FALSE
    /\ UNCHANGED <<thread, eventThread, threads, joined>>

\* TransportError, out of the constructor of serial.Serial, with nothing stored, or out
\* of the assignment to dtr, with the port open and kept.  open() passes it on and
\* starts nothing.
OpenFails(u) ==
    /\ MayOpen(u)
    /\ port' \in {port, "open"}
    /\ released' = FALSE
    /\ UNCHANGED <<running, thread, eventThread, threads, call, opens, joined>>

StartEvents(u) ==
    /\ At(u, "start events", "start reader")
    /\ eventThread' = opens
    /\ event' = [event EXCEPT ![opens] = "get"]
    /\ UNCHANGED <<running, thread, port, queue, reader, messages, opens, released, joined>>

StartReader(u) ==
    /\ At(u, "start reader", "identify")
    /\ thread' = opens
    /\ reader' = [reader EXCEPT ![opens] = "reading"]
    /\ UNCHANGED <<running, eventThread, port, queue, event, messages, opens, released, joined>>

\* The device is who it should be, or nobody asks: open() returns.
Identified(u) ==
    /\ At(u, "identify", "out")
    /\ UNCHANGED <<attributes, threads, opens, released, joined>>

\* Another WhoAmI, no reply, an error reply or a failure: close(), then raise.
NotIdentified(u) ==
    /\ At(u, "identify", "read thread")
    /\ running' = FALSE
    /\ UNCHANGED <<thread, eventThread, port, threads, opens, released, joined>>

-----------------------------------------------------------------------------
(* close(), on any thread                                                  *)

Opened == \A u \in User : call[u] \notin Opening

\* A user thread calls it: on its own, or as __exit__.
UserCloses(u) ==
    /\ Opened
    /\ At(u, "out", "read thread")
    /\ running' = FALSE
    /\ UNCHANGED <<thread, eventThread, port, threads, opens, released, joined>>

HandlerCloses(t) ==
    /\ Opened
    /\ event[t] = "handler"
    /\ At(t, "out", "read thread")
    /\ running' = FALSE
    /\ event' = [event EXCEPT ![t] = "closing"]
    /\ UNCHANGED <<thread, eventThread, port, queue, reader, messages, opens, released, joined>>

\* The caller is back out of close().  A handler returns then, or _safe_call catches
\* what close() raised.
Returned(c) ==
    IF c \in Thread THEN event' = [event EXCEPT ![c] = "get"] ELSE UNCHANGED event

ReadThread(c) ==
    /\ At(c, "read thread", IF thread = 0 THEN "read event thread" ELSE "join reader")
    /\ UNCHANGED <<attributes, threads, opens, released, joined>>

\* The thread to join is read again, and once: what becomes of the attribute during the
\* join does not matter.
JoinReader(c) ==
    /\ thread # 0
    /\ At(c, "join reader", "await reader")
    /\ joined' = [joined EXCEPT ![c] = thread]
    /\ UNCHANGED <<attributes, threads, opens, released>>

\* Mutant: close() does not wait for the reader.
ReaderNotAwaited(c) == TRUE

\* transport.read returns within its timeout, so that the join of two seconds suffices.
ReaderEnded(c) == reader[joined[c]] = "off"

AwaitReader(c) ==
    /\ At(c, "await reader", "read event thread")
    /\ ReaderEnded(c)
    /\ thread' = 0
    /\ joined' = [joined EXCEPT ![c] = 0]
    /\ UNCHANGED <<running, eventThread, port, threads, opens, released>>

\* Mutant: no sentinel is queued.
NoSentinel(c) == queue
\* Mutant: a handler queues none for the thread it runs on.
NotForItself(c) == IF eventThread \in {0, c} THEN queue ELSE Append(queue, Stop)

Sentinel(c) == IF eventThread = 0 THEN queue ELSE Append(queue, Stop)

ReadEventThread(c) ==
    /\ At(c, "read event thread", IF eventThread = 0 THEN "release" ELSE "join events")
    /\ queue' = Sentinel(c)
    /\ UNCHANGED <<attributes, reader, event, messages, opens, released, joined>>

JoinEvents(c) ==
    /\ eventThread \notin {0, c}
    /\ At(c, "join events", "await events")
    /\ joined' = [joined EXCEPT ![c] = eventThread]
    /\ UNCHANGED <<attributes, threads, opens, released>>

\* The join of two seconds returns: the thread has ended, or a handler takes longer.
EventsEnded(c) ==
    \/ event[joined[c]] = "off"
    \/ JoinMayTimeOut /\ event[joined[c]] \in {"handler", "closing"}

AwaitEvents(c) ==
    /\ At(c, "await events", "release")
    /\ EventsEnded(c)
    /\ eventThread' = 0
    /\ joined' = [joined EXCEPT ![c] = 0]
    /\ UNCHANGED <<running, thread, port, threads, opens, released>>

\* The thread to join has become None, another close() having been faster, or is the
\* thread that calls: AttributeError or RuntimeError, and the rest of close() is lost.
CannotJoin(c) ==
    \/ call[c] = "join reader" /\ thread = 0
    \/ call[c] = "join events" /\ eventThread \in {0, c}

CloseRaises(c) ==
    /\ CannotJoin(c)
    /\ call' = [call EXCEPT ![c] = "out"]
    /\ Returned(c)
    /\ UNCHANGED <<attributes, queue, reader, messages, opens, released, joined>>

\* Mutant: the port is left to the next close().
PortKept == port

\* SerialTransport.close: the port object stays, so that a second close() is harmless.
PortClosed == IF port = "none" THEN "none" ELSE "closed"

\* The transport is closed and the subscriptions dropped.
Release(c) ==
    /\ At(c, "release", "out")
    /\ port' = PortClosed
    /\ released' = TRUE
    /\ Returned(c)
    /\ UNCHANGED <<running, thread, eventThread, queue, reader, messages, opens, joined>>

Close(c) ==
    \/ ReadThread(c) \/ JoinReader(c) \/ AwaitReader(c)
    \/ ReadEventThread(c) \/ JoinEvents(c) \/ AwaitEvents(c)
    \/ CloseRaises(c) \/ Release(c)

-----------------------------------------------------------------------------
(* The threads of the device                                               *)

ReaderStops(i) ==
    /\ reader[i] = "reading" /\ ~running
    /\ reader' = [reader EXCEPT ![i] = "off"]
    /\ UNCHANGED <<attributes, queue, event, messages, call, opens, released, joined>>

\* transport.read raises: a TransportError, which ends the loop, or anything else that
\* pyserial lets out, which ends the thread.
ReaderFails(i) ==
    /\ reader[i] = "reading"
    /\ reader' = [reader EXCEPT ![i] = "off"]
    /\ UNCHANGED <<attributes, queue, event, messages, call, opens, released, joined>>

\* A message comes; the reader may have entered transport.read before _running fell.
ReadMessage(i) ==
    /\ reader[i] = "reading" /\ port = "open" /\ messages < MaxMessage
    /\ messages' = messages + 1
    /\ queue' = Append(queue, Message)
    /\ UNCHANGED <<attributes, reader, event, call, opens, released, joined>>

Get(t) ==
    /\ event[t] = "get" /\ queue # <<>>
    /\ queue' = Tail(queue)
    /\ event' = [event EXCEPT ![t] = IF Head(queue) = Stop THEN "off" ELSE "handler"]
    /\ UNCHANGED <<attributes, reader, messages, call, opens, released, joined>>

HandlerReturns(t) ==
    /\ event[t] = "handler"
    /\ event' = [event EXCEPT ![t] = "get"]
    /\ UNCHANGED <<attributes, queue, reader, messages, call, opens, released, joined>>

Open(u) ==
    \/ OpenPort(u) \/ OpenFails(u) \/ StartEvents(u) \/ StartReader(u)
    \/ Identified(u) \/ NotIdentified(u)

EventThread(t) == Get(t) \/ HandlerReturns(t)

Next ==
    \/ \E u \in User : Open(u) \/ UserCloses(u)
    \/ \E c \in Closer : Close(c)
    \/ \E t \in Closer \cap Thread : HandlerCloses(t)
    \/ \E i \in Thread :
          ReaderStops(i) \/ ReaderFails(i) \/ ReadMessage(i) \/ EventThread(i)

\* Threads are scheduled, and handlers end.
Fairness ==
    /\ \A c \in Closer : WF_vars(Close(c))
    /\ \A i \in Thread : WF_vars(ReaderStops(i)) /\ WF_vars(EventThread(i))

Spec == Init /\ [][Next]_vars
SpecFair == Spec /\ Fairness

-----------------------------------------------------------------------------
\* Two readers never share the transport, the framer and the waiters, whatever threads
\* closed the device before it was opened again, and no reader is left behind a close()
\* that returned (the join of the reader in close()).
OneReader ==
    /\ \A i, j \in Thread : reader[i] = "reading" /\ reader[j] = "reading" => i = j
    /\ released => \A i \in Thread : reader[i] = "off"

\* As soon as one of the close() calls since the last open() has returned, the port is
\* closed and no thread is kept, whether others of them are still under way, have raised
\* or came from a handler (close() and SerialTransport.close).
ClosedIsReleased ==
    released => port # "open" /\ thread = 0 /\ eventThread = 0 /\ ~running

\* Every close() comes to its end: a user thread that waits for an event thread, and a
\* handler on that thread that closes too, do not wait for each other, and the sentinel
\* reaches the thread that is waited for (close() and _event_loop).
CloseEnds == \A c \in Closer : call[c] \in Closing ~> call[c] = "out"

\* No event thread of any session outlives the last close() for good, also when a handler
\* closed the device and it was opened over the thread that was left (the sentinel).
ThreadsEnd == released /\ opens = MaxOpen ~> \A t \in Thread : event[t] = "off"

\* "Call handler ... each time the device emits a message": an open device that nobody is
\* opening or closing has an event thread (open() and _event_loop).
EventsAreServed == running /\ Quiet => \E t \in Thread : event[t] # "off"
=============================================================================
