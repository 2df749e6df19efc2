--------------------------- MODULE Subscriptions ---------------------------
(***************************************************************************)
(* Event delivery of harp.device.client.Device (_device.py): subscribe,    *)
(* subscribe_all, Subscription.unsubscribe, _remove_subscription,          *)
(* _event_loop, _deliver_event, _safe_call, and the parts of open() and    *)
(* close() that start, stop and join the event thread.                     *)
(*                                                                         *)
(* Any thread, a handler included, may subscribe and unsubscribe at any    *)
(* time: each does its work in one critical section of _sub_lock.  The     *)
(* event thread takes messages from _event_queue; for each it copies the   *)
(* subscriptions under the lock and calls the handlers after releasing it. *)
(* A subscription is named by the order of its creation, a message by the  *)
(* order in which the reader queued it.                                    *)
(***************************************************************************)
EXTENDS Integers, Sequences, FiniteSets

CONSTANTS
    Address, Register,
    AddressOf,      \* the address of each register class
    Filter,         \* the sets of message types subscribers ask for
    Traffic,        \* the messages the device may send
    NoRegister,     \* the register of a catch-all subscription, and of no address
    MaxSub,         \* bound: subscriptions made
    MaxMessage,     \* bound: messages queued
    MaxOpen         \* bound: calls of open()

MessageType == {"Read", "Write", "Event"}

\* "fits" names the register classes whose decode() accepts the message.
Message == [address : Address, type : MessageType, fits : SUBSET Register]

ASSUME RegisterAssumption ==
    AddressOf \in [Register -> Address] /\ NoRegister \notin Register
ASSUME TrafficAssumption == Traffic \subseteq Message
ASSUME FilterAssumption == Filter \subseteq SUBSET MessageType
ASSUME BoundAssumption ==
    MaxSub \in Nat /\ MaxMessage \in Nat /\ MaxOpen \in Nat

VARIABLES
    sub,           \* the Subscription objects made: register and message types
    active,        \* their _active
    removed,       \* _remove_subscription has run for them, or close() has
    since,         \* messages queued before each was made
    subscriptions, \* _subscriptions; <<>> for a key that is absent
    registers,     \* _registers; NoRegister for a key that is absent
    catchAll,      \* _catch_all
    stream,        \* messages queued so far, with the session they arrived in
    queue,         \* _event_queue
    life, opens,   \* where open() and close() stand, calls of open()
    epc, current, todo, \* each event thread: place, message, calls still to make
    log            \* handler calls begun, in order, with the thread each runs on

subVars    == <<sub, active, removed, since, subscriptions, registers, catchAll>>
threadVars == <<epc, current, todo, log>>
vars == <<subVars, stream, queue, life, opens, threadVars>>

-----------------------------------------------------------------------------
Stop == 0              \* the None that ends an event loop
Sub == 1..Len(sub)
Thread == 1..MaxOpen   \* every open() starts an event thread

CallOf(s, form) == [sub |-> s, form |-> form]

\* Thread t calls a handler with the message it delivers.
LogOf(t, call) == [at |-> current[t], sub |-> call.sub, form |-> call.form, by |-> t]

Listed(s) ==
    \/ \E a \in Address : \E p \in 1..Len(subscriptions[a]) : subscriptions[a][p] = s
    \/ \E p \in 1..Len(catchAll) : catchAll[p] = s

\* list.remove: a subscription is in a list once at most.
Without(list, s) ==
    IF \E p \in 1..Len(list) : list[p] = s
      THEN LET p == CHOOSE p \in 1..Len(list) : list[p] = s
           IN  SubSeq(list, 1, p - 1) \o SubSeq(list, p + 1, Len(list))
      ELSE list

Init ==
    /\ sub = <<>> /\ active = <<>> /\ removed = <<>> /\ since = <<>>
    /\ subscriptions = [a \in Address |-> <<>>]
    /\ registers = [a \in Address |-> NoRegister]
    /\ catchAll = <<>>
    /\ stream = <<>> /\ queue = <<>>
    /\ life = "closed" /\ opens = 0
    /\ epc = [t \in Thread |-> "off"]
    /\ current = [t \in Thread |-> 0]
    /\ todo = [t \in Thread |-> <<>>]
    /\ log = <<>>

-----------------------------------------------------------------------------
(* Subscribing, from any thread                                            *)

Create(register, types) ==
    /\ Len(sub) < MaxSub
    /\ sub' = Append(sub, [register |-> register, types |-> types])
    /\ active' = Append(active, TRUE)
    /\ removed' = Append(removed, FALSE)
    /\ since' = Append(since, Len(stream))

Subscribe(register, types) ==
    LET a == AddressOf[register] IN
    /\ Create(register, types)
    /\ subscriptions' = [subscriptions EXCEPT ![a] = Append(@, Len(sub) + 1)]
    /\ registers' = [registers EXCEPT ![a] = register]
    /\ UNCHANGED <<catchAll, stream, queue, life, opens, threadVars>>

SubscribeAll(types) ==
    /\ Create(NoRegister, types)
    /\ catchAll' = Append(catchAll, Len(sub) + 1)
    /\ UNCHANGED <<subscriptions, registers, stream, queue, life, opens, threadVars>>

\* Mutant: the register of an address outlives its last subscription.
RegisterKept(a, left) == registers[a]

\* The register of address a once its subscriptions are those left.
RegisterAfter(a, left) == IF left = <<>> THEN NoRegister ELSE registers[a]

\* unsubscribe() of an active subscription: _remove_subscription, under the lock.
\* Two threads may both get this far; the second removes nothing.
Remove(s) ==
    LET a == AddressOf[sub[s].register]
        left == Without(subscriptions[a], s)
    IN
    /\ active[s]
    /\ removed' = [removed EXCEPT ![s] = TRUE]
    /\ IF sub[s].register = NoRegister
         THEN /\ catchAll' = Without(catchAll, s)
              /\ UNCHANGED <<subscriptions, registers>>
         ELSE /\ subscriptions' = [subscriptions EXCEPT ![a] = left]
              /\ registers' = [registers EXCEPT ![a] = RegisterAfter(a, left)]
              /\ UNCHANGED catchAll
    /\ UNCHANGED <<sub, active, since, stream, queue, life, opens, threadVars>>

\* unsubscribe() then clears _active and returns.
Deactivate(s) ==
    /\ active[s] /\ removed[s]
    /\ active' = [active EXCEPT ![s] = FALSE]
    /\ UNCHANGED <<sub, removed, since, subscriptions, registers, catchAll, stream,
                   queue, life, opens, threadVars>>

User ==
    \/ \E types \in Filter :
          SubscribeAll(types) \/ \E register \in Register : Subscribe(register, types)
    \/ \E s \in Sub : Remove(s) \/ Deactivate(s)

-----------------------------------------------------------------------------
(* open(), close() and the reader                                          *)

Open ==
    /\ life = "closed" /\ opens < MaxOpen
    /\ life' = "open" /\ opens' = opens + 1
    /\ epc' = [epc EXCEPT ![opens'] = "get"]
    /\ UNCHANGED <<subVars, stream, queue, current, todo, log>>

\* The reader's _dispatch queues every message it reads.
Emit(m) ==
    /\ life = "open" /\ Len(stream) < MaxMessage
    /\ stream' = Append(stream, [msg |-> m, session |-> opens])
    /\ queue' = Append(queue, Len(stream) + 1)
    /\ UNCHANGED <<subVars, life, opens, threadVars>>

\* Mutant: what is left in the queue is thrown away.
StopAlone == <<Stop>>

StopLast == Append(queue, Stop)

\* close(), once the reader is joined: the sentinel is queued.
PutStop ==
    /\ life = "open"
    /\ life' = "joining"
    /\ queue' = StopLast
    /\ UNCHANGED <<subVars, stream, opens, threadVars>>

\* The join of two seconds returns: the thread has ended, or its handlers, all that takes
\* time on it, take longer.
Joined == epc[opens] \in {"off", "handler"}

\* close(), behind the join: all subscriptions are dropped, and the device may be opened
\* again, over a thread that still runs.
Clear ==
    /\ life = "joining" /\ Joined
    /\ life' = "closed"
    /\ removed' = [s \in Sub |-> TRUE]
    /\ subscriptions' = [a \in Address |-> <<>>]
    /\ registers' = [a \in Address |-> NoRegister]
    /\ catchAll' = <<>>
    /\ UNCHANGED <<sub, active, since, stream, queue, opens, threadVars>>

-----------------------------------------------------------------------------
(* An event thread                                                         *)

Get(t) ==
    /\ epc[t] = "get" /\ queue # <<>>
    /\ queue' = Tail(queue)
    /\ current' = [current EXCEPT ![t] = Head(queue)]
    /\ epc' = [epc EXCEPT ![t] = IF Head(queue) = Stop THEN "off" ELSE "snapshot"]
    /\ UNCHANGED <<subVars, stream, life, opens, todo, log>>

Calls(list, form) == [p \in 1..Len(list) |-> CallOf(list[p], form)]

\* The typed handlers are called only if the register decodes the message.
TypedCalls(m) ==
    IF registers[m.address] \in m.fits
    THEN Calls(subscriptions[m.address], registers[m.address])
    ELSE <<>>

\* Mutant: whether a subscription is in place is told by its _active.
CallsByFlag(m) == Calls(SelectSeq([s \in Sub |-> s], LAMBDA s : active[s]), NoRegister)

CallsFor(m) == TypedCalls(m) \o Calls(catchAll, NoRegister)

\* _deliver_event: the lists are copied under the lock.  What follows until the
\* first call reads nothing another thread may change.
Snapshot(t) ==
    /\ epc[t] = "snapshot"
    /\ todo' = [todo EXCEPT ![t] = CallsFor(stream[current[t]].msg)]
    /\ epc' = [epc EXCEPT ![t] = "calls"]
    /\ UNCHANGED <<subVars, stream, queue, life, opens, current, log>>

\* The p-th subscription copied asked for messages of this type.
Due(t, p) == stream[current[t]].msg.type \in sub[todo[t][p].sub].types

\* The first handler due is called; those before it are passed over.
BeginCall(t) ==
    /\ epc[t] = "calls"
    /\ \E p \in 1..Len(todo[t]) :
          /\ Due(t, p) /\ \A q \in 1..(p - 1) : ~Due(t, q)
          /\ todo' = [todo EXCEPT ![t] = SubSeq(@, p, Len(@))]
          /\ log' = Append(log, LogOf(t, todo[t][p]))
    /\ epc' = [epc EXCEPT ![t] = "handler"]
    /\ UNCHANGED <<subVars, stream, queue, life, opens, current>>

HandlerReturns(t) ==
    /\ epc[t] = "handler"
    /\ epc' = [epc EXCEPT ![t] = "calls"]
    /\ todo' = [todo EXCEPT ![t] = Tail(@)]
    /\ UNCHANGED <<subVars, stream, queue, life, opens, current, log>>

\* Mutant: an exception ends the delivery of the message.
NoneAfterRaise(t) == <<>>

\* Mutant: an exception is retried.
SameAfterRaise(t) == todo[t]

AfterRaise(t) == Tail(todo[t])

\* Mutant: an exception ends the thread.
DiesOfRaise == "off"

SurvivesRaise == "calls"

\* _safe_call logs what the handler raises.
HandlerRaises(t) ==
    /\ epc[t] = "handler"
    /\ epc' = [epc EXCEPT ![t] = SurvivesRaise]
    /\ todo' = [todo EXCEPT ![t] = AfterRaise(t)]
    /\ UNCHANGED <<subVars, stream, queue, life, opens, current, log>>

Delivered(t) ==
    /\ epc[t] = "calls" /\ \A p \in 1..Len(todo[t]) : ~Due(t, p)
    /\ epc' = [epc EXCEPT ![t] = "get"]
    /\ todo' = [todo EXCEPT ![t] = <<>>]
    /\ UNCHANGED <<subVars, stream, queue, life, opens, current, log>>

EventLoop(t) == Get(t) \/ Snapshot(t) \/ BeginCall(t) \/ Delivered(t)
Handler(t) == HandlerReturns(t) \/ HandlerRaises(t)

-----------------------------------------------------------------------------
Next ==
    \/ User
    \/ Open \/ PutStop \/ Clear
    \/ \E m \in Traffic : Emit(m)
    \/ \E t \in Thread : EventLoop(t) \/ Handler(t)

Spec == Init /\ [][Next]_vars

\* The event thread is scheduled, handlers end, and close() goes on; nobody is
\* obliged to send, to subscribe or to close.
SpecFair ==
    /\ Spec /\ WF_vars(Clear)
    /\ \A t \in Thread : WF_vars(EventLoop(t)) /\ WF_vars(Handler(t))

-----------------------------------------------------------------------------
(* Invariants                                                              *)

\* An address has a register exactly while it has subscriptions, so a message for
\* a subscribed address is never dropped for want of one, and the register is one
\* of that address (subscribe, _remove_subscription).
RegistersMatch ==
    \A a \in Address :
        /\ registers[a] = NoRegister <=> subscriptions[a] = <<>>
        /\ registers[a] # NoRegister => AddressOf[registers[a]] = a

\* Messages the handler of s should see: of its address and types, and readable
\* with its register.
Wanted(s) ==
    {i \in 1..Len(stream) :
        LET m == stream[i].msg IN
        /\ m.type \in sub[s].types
        /\ sub[s].register # NoRegister =>
              m.address = AddressOf[sub[s].register] /\ sub[s].register \in m.fits}

Got(s) == {log[p].at : p \in {q \in 1..Len(log) : log[q].sub = s}}

Finished(i) ==
    /\ \A p \in 1..Len(queue) : queue[p] # i
    /\ \A t \in Thread : current[t] = i => epc[t] \in {"off", "get"}

\* A subscription gets only messages it asked for, and as long as it is in place
\* it has got all those queued since it was made and fully delivered, whatever
\* other subscriptions come and go, and whatever handlers raise (_deliver_event).
DeliveryComplete ==
    \A s \in Sub :
        /\ Got(s) \subseteq Wanted(s)
        /\ ~removed[s] => \A i \in Wanted(s) : since[s] < i /\ Finished(i) => i \in Got(s)

\* Of two calls of one kind, typed or catch-all, that for the earlier subscription
\* comes first.
Precedes(x, y) == (x.form = NoRegister <=> y.form = NoRegister) => x.sub < y.sub

\* Also where a join timed out and several event threads share the queue: no message
\* is delivered by two of them, each goes from a message only to later ones, and for one
\* message each kind of handler is called in subscription order, nobody twice, whatever
\* is subscribed, cancelled or raised meanwhile (_event_loop, _deliver_event).
HandlersInOrder ==
    \A p, q \in 1..Len(log) : p < q =>
        /\ log[p].by = log[q].by => log[p].at <= log[q].at
        /\ log[p].at = log[q].at => log[p].by = log[q].by /\ Precedes(log[p], log[q])

\* Every event thread that close() left behind has a sentinel of its own in the queue, and
\* an open device has a thread for which there is none.  So a device opened over a
\* slow handler keeps its thread, whichever of the two takes the sentinel, and threads
\* do not pile up (the sentinel and the join of close(), open()).
Live == {t \in Thread : epc[t] # "off"}
Sentinels == {p \in 1..Len(queue) : queue[p] = Stop}

SentinelPerThread ==
    Cardinality(Live) = Cardinality(Sentinels) + (IF life = "open" THEN 1 ELSE 0)

-----------------------------------------------------------------------------
(* Action and liveness properties                                          *)

\* Once a subscription is out of the lists and of the delivery under way, it stays
\* out, and its handler is never called again (unsubscribe, close).
Gone(s) ==
    /\ ~Listed(s)
    /\ \A t \in Thread : \A p \in 1..Len(todo[t]) : todo[t][p].sub # s

GoneForGood == [][\A s \in Sub : Gone(s) => Gone(s)' /\ Got(s)' = Got(s)]_vars

\* Every message queued is delivered to the end, if handlers end (_event_loop).
EveryMessageFinished == \A i \in 1..MaxMessage : i <= Len(stream) ~> Finished(i)

-----------------------------------------------------------------------------
(* The inductive invariant                                                 *)

Known == Register \cup {NoRegister}
Place == {"off", "get", "snapshot", "calls", "handler"}
Delivering(t) == epc[t] \in {"snapshot", "calls", "handler"}
Calling(t) == epc[t] \in {"calls", "handler"}
Positions(list) == 1..Len(list)

\* Every variable keeps its type; a thread that was started delivers a message it took.
TypeOK ==
    /\ sub \in Seq([register : Known, types : Filter])
    /\ active \in Seq(BOOLEAN) /\ removed \in Seq(BOOLEAN) /\ since \in Seq(Nat)
    /\ Len(active) = Len(sub) /\ Len(removed) = Len(sub) /\ Len(since) = Len(sub)
    /\ subscriptions \in [Address -> Seq(Nat)] /\ registers \in [Address -> Known]
    /\ catchAll \in Seq(Nat)
    /\ stream \in Seq([msg : Traffic, session : Nat]) /\ queue \in Seq(Nat)
    /\ life \in {"closed", "open", "joining"} /\ opens \in 0..MaxOpen
    /\ epc \in [Thread -> Place] /\ current \in [Thread -> Nat]
    /\ todo \in [Thread -> Seq([sub : Nat, form : Known])]
    /\ log \in Seq([at : Nat, sub : Nat, form : Known, by : Thread])
    /\ \A p \in Positions(queue) : queue[p] <= Len(stream)
    /\ \A t \in Thread :
          /\ Delivering(t) => current[t] \in 1..Len(stream)
          /\ epc[t] = "handler" => todo[t] # <<>>
          /\ epc[t] # "off" => t <= opens

\* A list has the subscriptions of its address, or those to all, and every
\* subscription that was not removed is in its own.
ListsRight ==
    /\ \A a \in Address : \A p \in Positions(subscriptions[a]) :
          LET s == subscriptions[a][p] IN
          s \in Sub /\ sub[s].register # NoRegister /\ AddressOf[sub[s].register] = a
    /\ \A p \in Positions(catchAll) :
          catchAll[p] \in Sub /\ sub[catchAll[p]].register = NoRegister
    /\ \A s \in Sub : ~removed[s] => Listed(s)

\* A handler is called, or may be, in the form its subscription is for.
Suits(call, m) ==
    LET register == sub[call.sub].register IN
    /\ call.sub \in Sub
    /\ call.form = NoRegister <=> register = NoRegister
    /\ call.form # NoRegister =>
          /\ AddressOf[call.form] = m.address /\ AddressOf[register] = m.address
          /\ call.form \in m.fits

CallsSuit ==
    /\ \A t \in Thread : Calling(t) =>
          \A p \in Positions(todo[t]) : Suits(todo[t][p], stream[current[t]].msg)
    /\ \A p \in Positions(log) :
          /\ log[p].at \in 1..Len(stream)
          /\ Suits(log[p], stream[log[p].at].msg)
          /\ stream[log[p].at].msg.type \in sub[log[p].sub].types

\* What a subscription in place wants it has got, or will when the queue and the
\* calls under way come to it.
Coming(s, i) ==
    \/ i \in Got(s)
    \/ \E p \in Positions(queue) : queue[p] = i
    \/ \E t \in Thread :
          /\ current[t] = i
          /\ \/ epc[t] = "snapshot"
             \/ Calling(t) /\ \E p \in Positions(todo[t]) : todo[t][p].sub = s

NothingMissed ==
    /\ \A s \in Sub : ~removed[s] => \A i \in Wanted(s) : since[s] < i => Coming(s, i)
    /\ \A t \in Thread : epc[t] = "handler" => current[t] \in Got(todo[t][1].sub)

\* Two classes of one address: subscribe() with the second replaces the first.
OneClassPerAddress ==
    \A r, q \in Register : AddressOf[r] = AddressOf[q] => r = q

Rising(list) == \A p, q \in Positions(list) : p < q => list[p] < list[q]

ListsRise == Rising(catchAll) /\ \A a \in Address : Rising(subscriptions[a])

\* Messages are queued in order, and after all that is delivered.
QueueRises ==
    /\ \A p, q \in Positions(queue) :
          p < q /\ queue[p] # Stop /\ queue[q] # Stop => queue[p] < queue[q]
    /\ \A q \in Positions(queue) : queue[q] # Stop =>
          /\ \A p \in Positions(log) : log[p].at < queue[q]
          /\ \A t \in Thread : Delivering(t) => current[t] < queue[q]

\* The first call of thread t that it has not begun.
FirstToCome(t) == IF epc[t] = "handler" THEN 2 ELSE 1

\* A message is delivered by one thread; it is the latest of that thread, and the calls
\* still to come for it are in order, and after those begun.
OneDeliverer ==
    /\ \A t, u \in Thread : t # u /\ Delivering(t) /\ Delivering(u) => current[t] # current[u]
    /\ \A t \in Thread : Delivering(t) => \A p \in Positions(log) :
          /\ log[p].by = t => log[p].at <= current[t]
          /\ log[p].at = current[t] => log[p].by = t /\ epc[t] # "snapshot"

CallsRise ==
    \A t \in Thread : Calling(t) =>
        /\ \A p, q \in Positions(todo[t]) : p < q => Precedes(todo[t][p], todo[t][q])
        /\ \A p \in Positions(log) : \A q \in FirstToCome(t)..Len(todo[t]) :
              log[p].at = current[t] => Precedes(log[p], todo[t][q])

Ordered == ListsRise /\ QueueRises /\ OneDeliverer /\ CallsRise /\ HandlersInOrder

\* Inductive: it holds initially and every step preserves it.
IInv ==
    /\ TypeOK /\ RegistersMatch /\ ListsRight /\ CallsSuit
    /\ Ordered /\ SentinelPerThread
    /\ OneClassPerAddress => NothingMissed

-----------------------------------------------------------------------------
(* What the docstring of subscribe() says, and the code does not do: "Handlers run *)
(* on a single dedicated event thread", "sequentially, in subscription order, one  *)
(* message at a time" (_device.py:273-278; subscribe_all refers to it at :300).    *)

\* For one message, a handler subscribed earlier is called earlier, whichever of the two
\* methods subscribed it (_deliver_event).
SubscriptionOrder ==
    \A p, q \in 1..Len(log) :
        p < q /\ log[p].at = log[q].at => log[p].sub < log[q].sub

\* No two handlers run at once, also across close() and a new open() (the join of close()).
OneAtATime ==
    \A t, u \in Thread : epc[t] = "handler" /\ epc[u] = "handler" => t = u
=============================================================================
