------------------------------ MODULE Requests ------------------------------
(***************************************************************************)
(* Requests and replies of harp.device.client.Device (_device.py).        *)
(*                                                                         *)
(* Any number of caller threads run _request: each registers a fresh queue *)
(* (a "waiter") under the key of its request, writes its frame and blocks  *)
(* on the queue.  One reader thread (_read_loop) takes chunks from the     *)
(* transport, and offers every reply to the waiters registered under its   *)
(* key (_dispatch), or the transport's failure to all of them              *)
(* (_fault_pending).  Both take the waiters under _pending_lock and fill   *)
(* their queues after releasing it.  A lifecycle thread opens and closes   *)
(* the device; the device at the far end may send any message at any time. *)
(*                                                                         *)
(* A critical section of _pending_lock is one action.  A message is named  *)
(* by its position in the stream of messages that reached the transport.   *)
(***************************************************************************)
EXTENDS Integers, Sequences, FiniteSets

CONSTANTS
    Caller,       \* threads that call read() and write()
    Address,      \* register addresses
    Traffic,      \* the messages the device may send
    RaiseOnError, \* the constructor's raise_on_error
    MaxRequest,   \* bound: requests registered, by all callers
    MaxArrival,   \* bound: messages sent by the device
    MaxOpen       \* bound: calls of open()

ReplyType == {"Read", "Write"}
Key == Address \X ReplyType

\* What the request protocol reads of a frame.  "fits" tells whether decode()
\* accepts it: its payload type and byte count are those of the register.
Message == [address : Address, type : ReplyType \cup {"Event"},
            error : BOOLEAN, fits : BOOLEAN]

ASSUME TrafficAssumption == Traffic \subseteq Message
ASSUME AddressAssumption == Address # {}
ASSUME RaiseOnErrorAssumption == RaiseOnError \in BOOLEAN
ASSUME BoundAssumption ==
    MaxRequest \in Nat /\ MaxArrival \in Nat /\ MaxOpen \in Nat

VARIABLES
    life,       \* where the lifecycle thread stands in open() and close()
    running,    \* _running
    opens,      \* calls of open() so far
    rpc,        \* where the reader thread stands
    targets,    \* the local list "waiting": queues still to be filled
    stream,     \* messages that reached the transport, in order
    taken,      \* how many of them transport.read() has returned
    handled,    \* how many of them _dispatch has finished with
    eventQueue, \* _event_queue, as positions in stream
    fault,      \* _fault is set
    pending,    \* _pending: the waiters registered under each key
    box,        \* what a waiter's queue.get() returns: its first item
    pc,         \* where each caller stands in _request
    made,       \* requests registered so far, each with a queue of its own
    mine,       \* the queue of the caller's latest request
    key,        \* the key of the caller's latest request
    born,       \* messages dispatched when that request registered
    outcome     \* what the latest request returned or raised

lifeVars   == <<life, running, opens>>
readerVars == <<rpc, targets, taken, handled, eventQueue>>
callerVars == <<pc, made, mine, key, born, outcome>>
vars == <<lifeVars, readerVars, stream, fault, pending, box, callerVars>>

-----------------------------------------------------------------------------
(* Waiters, items and outcomes                                             *)

\* One queue.SimpleQueue per registered request: it is never reused.
Waiter == 1..MaxRequest

Result(kind, at) == [kind |-> kind, at |-> at]
Nothing   == Result("none", 0)
Failure   == Result("failure", 0)     \* the TransportError the reader met
TimedOut  == Result("timeout", 0)     \* TimeoutError
WriteFail == Result("writeError", 0)  \* the TransportError of transport.write
Reply(i)  == Result("reply", i)

Position == 1..MaxArrival
Item == {Nothing, Failure} \cup {Reply(i) : i \in Position}
Outcome == {Nothing, Failure, TimedOut, WriteFail} \cup
    {Result(kind, i) : kind \in {"reply", "deviceError", "parseError"}, i \in Position}

Waiting(c)  == pc[c] = "wait"
InFlight(c) == pc[c] \in {"write", "wait", "cleanup"}

\* Message i answers key k.
Answers(i, k) == <<stream[i].address, stream[i].type>> = k

\* How many messages have been offered to the requests registered at the time.
Offered == IF rpc \in {"put", "enqueue"} THEN handled + 1 ELSE handled

-----------------------------------------------------------------------------
Init ==
    /\ life = "closed" /\ running = FALSE /\ opens = 0
    /\ rpc = "off" /\ targets = {}
    /\ stream = <<>> /\ taken = 0 /\ handled = 0 /\ eventQueue = <<>>
    /\ fault = FALSE
    /\ pending = [k \in Key |-> {}]
    /\ box = [w \in Waiter |-> Nothing]
    /\ pc = [c \in Caller |-> "idle"]
    /\ made = 0 /\ mine = [c \in Caller |-> 0]
    /\ key = [c \in Caller |-> CHOOSE k \in Key : TRUE]
    /\ born = [c \in Caller |-> 0]
    /\ outcome = [c \in Caller |-> Nothing]

-----------------------------------------------------------------------------
(* The lifecycle thread                                                    *)

\* open(): transport.open() succeeds.  When it raises, nothing has changed.
OpenTransport ==
    /\ life = "closed" /\ opens < MaxOpen
    /\ life' = "opening" /\ opens' = opens + 1
    /\ UNCHANGED <<running, readerVars, stream, fault, pending, box, callerVars>>

\* open(): _running is set and the reader thread starts.
StartReader ==
    /\ life = "opening"
    /\ life' = "open" /\ running' = TRUE /\ rpc' = "top"
    /\ UNCHANGED <<opens, targets, taken, handled, eventQueue, stream, fault,
                   pending, box, callerVars>>

\* close(): _running is cleared; the thread then joins the reader.
StopRunning ==
    /\ life = "open"
    /\ life' = "stopping" /\ running' = FALSE
    /\ UNCHANGED <<opens, readerVars, stream, fault, pending, box, callerVars>>

\* Mutant: the join gives up on a reader that still runs.
ReaderNotJoined == TRUE

ReaderJoined == rpc = "off"

\* close(): the reader is joined and the transport closed; messages that were
\* not read are lost with it.  No other thread touches the transport's input.
CloseTransport ==
    /\ life = "stopping" /\ ReaderJoined
    /\ life' = "closed"
    /\ stream' = SubSeq(stream, 1, taken)
    /\ UNCHANGED <<running, opens, readerVars, fault, pending, box, callerVars>>

Lifecycle == OpenTransport \/ StartReader \/ StopRunning \/ CloseTransport

-----------------------------------------------------------------------------
(* A caller: read() and write() through _request                           *)

\* Under the lock: a recorded failure is raised at once.
Refuse(c) ==
    /\ pc[c] = "idle" /\ fault
    /\ outcome' = [outcome EXCEPT ![c] = Failure]
    /\ UNCHANGED <<lifeVars, readerVars, stream, fault, pending, box,
                   pc, made, mine, key, born>>

FreshQueue == made + 1

\* Mutant: _fault is not looked at, or was before the lock was taken.
Unchecked == TRUE

MayWait == ~fault

\* Under the lock: otherwise the waiter is registered.
Register(c, k) ==
    /\ pc[c] = "idle" /\ MayWait /\ made < MaxRequest
    /\ made' = made + 1
    /\ mine' = [mine EXCEPT ![c] = FreshQueue]
    /\ key' = [key EXCEPT ![c] = k]
    /\ born' = [born EXCEPT ![c] = Offered]
    /\ outcome' = [outcome EXCEPT ![c] = Nothing]
    /\ pending' = [pending EXCEPT ![k] = @ \cup {FreshQueue}]
    /\ pc' = [pc EXCEPT ![c] = "write"]
    /\ UNCHANGED <<lifeVars, readerVars, stream, fault, box>>

Write(c) ==
    /\ pc[c] = "write" /\ life # "closed"
    /\ pc' = [pc EXCEPT ![c] = "wait"]
    /\ UNCHANGED <<lifeVars, readerVars, stream, fault, pending, box,
                   made, mine, key, born, outcome>>

\* transport.write may always raise TransportError, and does when closed.
WriteFails(c) ==
    /\ pc[c] = "write"
    /\ outcome' = [outcome EXCEPT ![c] = WriteFail]
    /\ pc' = [pc EXCEPT ![c] = "cleanup"]
    /\ UNCHANGED <<lifeVars, readerVars, stream, fault, pending, box,
                   made, mine, key, born>>

\* What _request raises or returns for the item q.get() returned.
Raised(item) ==
    IF item.kind = "reply" /\ stream[item.at].error /\ RaiseOnError
    THEN Result("deviceError", item.at) ELSE item

Receive(c) ==
    /\ Waiting(c) /\ box[mine[c]] # Nothing
    /\ outcome' = [outcome EXCEPT ![c] = Raised(box[mine[c]])]
    /\ pc' = [pc EXCEPT ![c] = "cleanup"]
    /\ UNCHANGED <<lifeVars, readerVars, stream, fault, pending, box,
                   made, mine, key, born>>

\* Mutant: the wait has no timeout of its own once the device is closing.
ExpiresWhileOpen(c) == box[mine[c]] = Nothing /\ running

Expires(c) == box[mine[c]] = Nothing

\* q.get(timeout) raises queue.Empty.
Timeout(c) ==
    /\ Waiting(c) /\ Expires(c)
    /\ outcome' = [outcome EXCEPT ![c] = TimedOut]
    /\ pc' = [pc EXCEPT ![c] = "cleanup"]
    /\ UNCHANGED <<lifeVars, readerVars, stream, fault, pending, box,
                   made, mine, key, born>>

\* The finally block removes the waiter under the lock; read() and write()
\* then decode the reply they got.
Decoded(o) ==
    IF o.kind = "reply" /\ ~stream[o.at].fits THEN Result("parseError", o.at) ELSE o

Removed(c) == {mine[c]}

Cleanup(c) ==
    /\ pc[c] = "cleanup"
    /\ pending' = [pending EXCEPT ![key[c]] = @ \ Removed(c)]
    /\ outcome' = [outcome EXCEPT ![c] = Decoded(@)]
    /\ pc' = [pc EXCEPT ![c] = "idle"]
    /\ UNCHANGED <<lifeVars, readerVars, stream, fault, box, made, mine, key, born>>

Proceed(c) == Write(c) \/ WriteFails(c) \/ Receive(c) \/ Cleanup(c)
Call(c) == Refuse(c) \/ \E k \in Key : Register(c, k)

-----------------------------------------------------------------------------
(* The reader thread                                                       *)

\* while self._running
Loop ==
    /\ rpc = "top"
    /\ rpc' = IF running THEN "read" ELSE "off"
    /\ UNCHANGED <<lifeVars, targets, taken, handled, eventQueue, stream, fault,
                   pending, box, callerVars>>

\* transport.read() returns bytes, which complete some of the messages.
ReadChunk ==
    /\ rpc = "read"
    /\ \E n \in (taken + 1)..Len(stream) : taken' = n
    /\ rpc' = "frame"
    /\ UNCHANGED <<lifeVars, targets, handled, eventQueue, stream, fault,
                   pending, box, callerVars>>

\* transport.read() returns b'' after its idle timeout.
ReadIdle ==
    /\ rpc = "read" /\ taken = Len(stream)
    /\ rpc' = "top"
    /\ UNCHANGED <<lifeVars, targets, taken, handled, eventQueue, stream, fault,
                   pending, box, callerVars>>

ReadFails ==
    /\ rpc = "read"
    /\ rpc' = "failed"
    /\ UNCHANGED <<lifeVars, targets, taken, handled, eventQueue, stream, fault,
                   pending, box, callerVars>>

\* The failure is expected, and reported to nobody, while shutting down.
JudgeFailure ==
    /\ rpc = "failed"
    /\ rpc' = IF running THEN "sweep" ELSE "off"
    /\ UNCHANGED <<lifeVars, targets, taken, handled, eventQueue, stream, fault,
                   pending, box, callerVars>>

\* Mutant: _pending is cleared before its queues are listed.
NoneLeft == {}

AllWaiters == UNION {pending[k] : k \in Key}

\* _fault_pending, under the lock.
Sweep ==
    /\ rpc = "sweep"
    /\ fault' = TRUE
    /\ targets' = AllWaiters
    /\ pending' = [k \in Key |-> {}]
    /\ rpc' = "report"
    /\ UNCHANGED <<lifeVars, taken, handled, eventQueue, stream, box, callerVars>>

\* Mutant: a queue keeps only the latest item.
PutOver(w, item) == box' = [box EXCEPT ![w] = item]

\* The first item put in a queue is the one its request gets.
Put(w, item) == box' = [box EXCEPT ![w] = IF @ = Nothing THEN item ELSE @]

\* _fault_pending, after the lock: one queue at a time, then the thread ends.
Report(w) ==
    /\ rpc = "report" /\ w \in targets
    /\ Put(w, Failure)
    /\ targets' = targets \ {w}
    /\ UNCHANGED <<lifeVars, rpc, taken, handled, eventQueue, stream, fault,
                   pending, callerVars>>

Reported ==
    /\ rpc = "report" /\ targets = {}
    /\ rpc' = "off"
    /\ UNCHANGED <<lifeVars, targets, taken, handled, eventQueue, stream, fault,
                   pending, box, callerVars>>

\* The chunk holds no further complete frame.
ChunkDone ==
    /\ rpc = "frame" /\ handled = taken
    /\ rpc' = "top"
    /\ UNCHANGED <<lifeVars, targets, taken, handled, eventQueue, stream, fault,
                   pending, box, callerVars>>

\* Mutant: a reply answers any request for its address.
ByAddress(m) == UNION {pending[<<m.address, type>>] : type \in ReplyType}
\* Mutant: a reply answers one request only.
OneOf(m) ==
    LET waiting == pending[<<m.address, m.type>>]
    IN  IF waiting = {} THEN {} ELSE {CHOOSE w \in waiting : TRUE}

WaitersFor(m) == pending[<<m.address, m.type>>]

\* _dispatch of the next message: the waiters are copied under the lock.
Dispatch ==
    LET next == stream[handled + 1] IN
    /\ rpc = "frame" /\ handled < taken
    /\ IF next.type = "Event"
         THEN rpc' = "enqueue" /\ UNCHANGED targets
         ELSE rpc' = "put" /\ targets' = WaitersFor(next)
    /\ UNCHANGED <<lifeVars, taken, handled, eventQueue, stream, fault,
                   pending, box, callerVars>>

\* _dispatch, after the lock: one queue at a time.
PutReply(w) ==
    /\ rpc = "put" /\ w \in targets
    /\ Put(w, Reply(handled + 1))
    /\ targets' = targets \ {w}
    /\ UNCHANGED <<lifeVars, rpc, taken, handled, eventQueue, stream, fault,
                   pending, callerVars>>

PutDone ==
    /\ rpc = "put" /\ targets = {}
    /\ rpc' = "enqueue"
    /\ UNCHANGED <<lifeVars, targets, taken, handled, eventQueue, stream, fault,
                   pending, box, callerVars>>

\* Mutant: replies are not events.
EventsOnly(i) == IF stream[i].type = "Event" THEN Append(eventQueue, i) ELSE eventQueue

Queued(i) == Append(eventQueue, i)

\* Mutant: one frame is drained per chunk read.
BackToTop == "top"

AfterMessage == "frame"

\* _dispatch hands every message to the event thread.
Enqueue ==
    /\ rpc = "enqueue"
    /\ eventQueue' = Queued(handled + 1)
    /\ handled' = handled + 1
    /\ rpc' = AfterMessage
    /\ UNCHANGED <<lifeVars, targets, taken, stream, fault, pending, box, callerVars>>

Reader ==
    \/ Loop \/ ReadChunk \/ ReadIdle \/ ReadFails \/ JudgeFailure \/ Sweep
    \/ \E w \in Waiter : Report(w) \/ PutReply(w)
    \/ Reported \/ ChunkDone \/ Dispatch \/ PutDone \/ Enqueue

-----------------------------------------------------------------------------
(* The device at the far end sends a message: a reply, late, repeated or   *)
(* unasked for, or an event.                                               *)

Arrive(m) ==
    /\ life # "closed" /\ Len(stream) < MaxArrival
    /\ stream' = Append(stream, m)
    /\ UNCHANGED <<lifeVars, readerVars, fault, pending, box, callerVars>>

Next ==
    \/ Lifecycle
    \/ Reader
    \/ \E c \in Caller : Call(c) \/ Proceed(c) \/ Timeout(c)
    \/ \E m \in Traffic : Arrive(m)

Spec == Init /\ [][Next]_vars

\* Every thread that can run does; close(), once begun, goes on; nothing obliges
\* the device to send, a caller to call, or a timeout to expire.
Scheduling ==
    /\ WF_vars(Reader)
    /\ \A c \in Caller : WF_vars(Proceed(c))
    /\ WF_vars(StartReader) /\ WF_vars(CloseTransport)

SpecScheduled == Spec /\ Scheduling

-----------------------------------------------------------------------------
(* Invariants                                                              *)

\* Every variable keeps the type the code gives it; a request in flight has a
\* queue, and the reader dispatches a message it has read.
TypeOK ==
    /\ life \in {"closed", "opening", "open", "stopping"}
    /\ running \in BOOLEAN /\ opens \in 0..MaxOpen
    /\ rpc \in {"off", "top", "read", "failed", "sweep", "report",
                "frame", "put", "enqueue"}
    /\ targets \subseteq Waiter
    /\ stream \in Seq(Traffic) /\ Len(stream) \in 0..MaxArrival
    /\ taken \in 0..Len(stream) /\ handled \in 0..taken
    /\ eventQueue \in Seq(Position)
    /\ fault \in BOOLEAN
    /\ pending \in [Key -> SUBSET Waiter]
    /\ box \in [Waiter -> Item]
    /\ pc \in [Caller -> {"idle", "write", "wait", "cleanup"}]
    /\ made \in 0..MaxRequest /\ mine \in [Caller -> 0..MaxRequest]
    /\ key \in [Caller -> Key]
    /\ born \in [Caller -> 0..MaxArrival]
    /\ outcome \in [Caller -> Outcome]
    /\ \A c \in Caller : mine[c] <= made /\ (InFlight(c) => mine[c] > 0)
    /\ rpc \in {"put", "enqueue"} => handled < taken

\* No lost wakeup: a request whose queue is empty can still be reached.  The
\* reader finds it in _pending as long as no failure is recorded, and holds it
\* among the queues it is filling once one is (_request against _fault_pending).
NoLostWakeup ==
    \A c \in Caller :
        pc[c] \in {"write", "wait"} /\ box[mine[c]] = Nothing =>
            IF fault THEN mine[c] \in targets ELSE mine[c] \in pending[key[c]]

\* _pending holds exactly the requests in flight, each once, under its own key,
\* and nothing once a failure is recorded: no waiter outlives its request,
\* however it ended (the finally block of _request).
PendingExact ==
    \A k \in Key :
        pending[k] = IF fault THEN {} ELSE {mine[c] : c \in {d \in Caller : InFlight(d) /\ key[d] = k}}

\* A request that got a reply got the first message of its address and type
\* dispatched after it registered: none is skipped, and none of an earlier
\* request's replies, nor an event, is taken for it (_dispatch).
FirstAnswer(c, i) ==
    /\ born[c] < i /\ i <= Offered /\ Answers(i, key[c])
    /\ \A j \in (born[c] + 1)..(i - 1) : ~Answers(j, key[c])

RepliesAreFirst ==
    \A c \in Caller : outcome[c].at # 0 => FirstAnswer(c, outcome[c].at)

\* What callers and handlers learn comes in the order of the stream.  Whoever got a
\* reply finds every earlier message on the event queue already; and a request whose
\* queue is still empty has missed nothing that a handler may know, since no message
\* that answers it is on the event queue before it was put in the request's own
\* (_dispatch: the replies first, then the event).
Enqueued(i) == \E n \in DOMAIN eventQueue : eventQueue[n] = i

DispatchedInOrder ==
    \A c \in Caller :
        /\ \A i \in 1..(outcome[c].at - 1) : Enqueued(i)
        /\ pc[c] \in {"write", "wait"} /\ box[mine[c]] = Nothing =>
              \A i \in Position : Enqueued(i) /\ born[c] < i => ~Answers(i, key[c])

-----------------------------------------------------------------------------
(* Action and liveness properties                                          *)

\* A request that times out missed nothing: the reader has not finished
\* dispatching any message that answers it, even one shared with another
\* request for the same register (queue.Empty in _request).
TimeoutIsHonest ==
    [][\A c \in Caller :
        Waiting(c) /\ pc'[c] = "cleanup" /\ outcome'[c] = TimedOut =>
            \A j \in (born[c] + 1)..handled : ~Answers(j, key[c])]_vars

\* Every call of read() or write() ends, with the reply, the failure or the
\* timeout, even across close(), if a blocked wait reaches its REPLY_TIMEOUT
\* (_request).
TimeoutsExpire == \A c \in Caller : WF_vars(Timeout(c))

EveryRequestReturns ==
    TimeoutsExpire => \A c \in Caller : InFlight(c) ~> pc[c] = "idle"

\* A failure of the transport releases every waiting request, without its
\* timeout (_fault_pending).
FailureReleases ==
    \A c \in Caller : (rpc = "sweep" /\ Waiting(c)) ~> ~Waiting(c)

\* A waiting request whose answer has reached the transport is released, without
\* its timeout, unless the device is closed first (_read_loop, _dispatch).
AnswerReleases ==
    \A c \in Caller :
        (/\ Waiting(c) /\ running
         /\ \E i \in (born[c] + 1)..Len(stream) : Answers(i, key[c]))
        ~> (~Waiting(c) \/ ~running)

-----------------------------------------------------------------------------
(* The contract                                                            *)

\* What a request has been offered: what its queue holds, or what the reader
\* took it from _pending to put there.
Offer(c) ==
    IF pc[c] \notin {"write", "wait"} THEN Nothing
    ELSE IF box[mine[c]] # Nothing THEN box[mine[c]]
    ELSE IF mine[c] \notin targets THEN Nothing
    ELSE IF fault THEN Failure ELSE Reply(handled + 1)

Phase(c) ==
    CASE pc[c] = "idle" -> "idle"
      [] pc[c] \in {"write", "wait"} -> "open"
      [] pc[c] = "cleanup" -> "ended"

Contract == INSTANCE RequestContract WITH
    phase <- [c \in Caller |-> Phase(c)],
    asked <- key,
    offer <- [c \in Caller |-> Offer(c)],
    result <- outcome,
    announced <- Offered,
    broken <- fault

\* Filling the queues one at a time, outside the lock and against timeouts and new
\* requests, looks to the callers like a single instant: the moment the reader
\* copies the waiters (_dispatch, _fault_pending).
KeepsContract == Contract!Spec

-----------------------------------------------------------------------------
(* The inductive invariant.  PendingExact and NoLostWakeup speak of the    *)
(* queues of requests in flight; what makes them inductive is that these   *)
(* queues are distinct, that a queue not yet made is empty and nowhere, and *)
(* that the reader fills queues only in the two places it does.            *)
(* RepliesAreFirst speaks of what a request returned; what makes it        *)
(* inductive is what its queue held, or had missed, before.                *)

\* A reader runs only between open() and the join of close(): a device never has
\* two.
OneReader == rpc # "off" => life \in {"open", "stopping"}

\* No two requests share a queue (q is a fresh SimpleQueue in _request).
OwnQueues ==
    \A c, d \in Caller : c # d /\ mine[c] # 0 => mine[c] # mine[d]

\* A queue not yet made is empty, and the reader does not hold it.
Unmade ==
    /\ \A w \in targets : w <= made
    /\ \A w \in Waiter : w > made => box[w] = Nothing

\* What the reader holds: queues registered under the key of the message it
\* dispatches, or those the failure it reports swept.
Held ==
    /\ targets # {} => rpc = (IF fault THEN "report" ELSE "put")
    /\ rpc = "put" => \A c \in Caller :
            InFlight(c) /\ mine[c] \in targets => Answers(handled + 1, key[c])

\* Where the requests, their queues and the reader stand.
Structure ==
    TypeOK /\ OneReader /\ OwnQueues /\ Unmade /\ Held /\ PendingExact /\ NoLostWakeup

\* No message up to the n-th, of those dispatched since it registered, answers the
\* request of c.
NoAnswerUpTo(c, n) == \A j \in (born[c] + 1)..n : ~Answers(j, key[c])

\* The messages offered to c, none of them its answer, while its queue is empty.
\* The one being dispatched is not yet among them if the reader still holds c.
MissedNothing(c) ==
    NoAnswerUpTo(c, IF mine[c] \in targets THEN handled ELSE Offered)

\* What a request's queue holds, against the stream: RepliesAreFirst before the
\* request looks into its queue.
TracedFor(c) ==
    /\ born[c] <= Offered
    /\ InFlight(c) /\ mine[c] \in targets => born[c] <= handled
    /\ pc[c] \in {"write", "wait"} =>
          /\ box[mine[c]] = Nothing => MissedNothing(c)
          /\ box[mine[c]].kind = "reply" => FirstAnswer(c, box[mine[c]].at)

Traced == \A c \in Caller : TracedFor(c)

\* What is on the event queue.
EventsQueued == eventQueue = [i \in 1..handled |-> i]

\* Inductive: it holds initially and every step preserves it.
IInv == Structure /\ Traced /\ RepliesAreFirst /\ EventsQueued

-----------------------------------------------------------------------------
(* What the documentation of Device says, and the code does not do         *)

\* "every later request reports the same failure rather than waiting for a
\* reply that cannot arrive" (_device.py:110-112): where a failure is recorded,
\* no reader is left that could receive a reply.
FaultMeansNoReply == fault => rpc \in {"report", "off"}

=============================================================================
