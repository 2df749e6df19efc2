------------------------ MODULE SubscriptionsProofs ------------------------
(***************************************************************************)
(* Proofs about Subscriptions, for any number of register classes,         *)
(* subscriptions, messages and sessions.                                   *)
(***************************************************************************)
EXTENDS Subscriptions, SequenceTheorems, FiniteSetTheorems, TLAPS

-----------------------------------------------------------------------------
(* Lists of subscriptions                                                  *)

(* list.remove takes out one element and leaves the others, in their order. *)
LEMMA WithoutList ==
    ASSUME NEW list \in Seq(Nat), NEW s
    PROVE  LET left == Without(list, s) IN
           /\ left \in Seq(Nat)
           /\ list = <<>> => left = <<>>
           /\ \A i \in Positions(left) : \E q \in Positions(list) : left[i] = list[q]
           /\ \A q \in Positions(list) : list[q] # s => \E i \in Positions(left) : left[i] = list[q]
           /\ Rising(list) => Rising(left)
<1>1. CASE ~\E p \in 1..Len(list) : list[p] = s
  BY <1>1 DEF Without, Positions
<1>2. CASE \E p \in 1..Len(list) : list[p] = s
  <2>. DEFINE p == CHOOSE p \in 1..Len(list) : list[p] = s
              n == Len(list)
              left == Without(list, s)
  <2>1. p \in 1..n /\ list[p] = s
    BY <1>2
  <2>2. left = SubSeq(list, 1, p - 1) \o SubSeq(list, p + 1, n)
    BY <1>2 DEF Without
  <2>. HIDE DEF p
  <2>3. n \in Nat /\ \A q \in 1..n : list[q] \in Nat
    BY ElementOfSeq
  <2>. DEFINE low == SubSeq(list, 1, p - 1)
              high == SubSeq(list, p + 1, n)
  <2>4. low \in Seq(Nat) /\ Len(low) = p - 1 /\ \A i \in 1..(p - 1) : low[i] = list[i]
    BY <2>1, <2>3
  <2>5. high \in Seq(Nat) /\ Len(high) = n - p /\ \A i \in 1..(n - p) : high[i] = list[p + i]
    BY <2>1, <2>3
  <2>12. left = low \o high
    BY <2>2
  <2>. HIDE DEF low, high, n
  <2>13. /\ low \o high \in Seq(Nat) /\ Len(low \o high) = Len(low) + Len(high)
         /\ \A i \in 1..(Len(low) + Len(high)) :
               (low \o high)[i] = IF i <= Len(low) THEN low[i] ELSE high[i - Len(low)]
    <3>1. low \in Seq(Nat) /\ high \in Seq(Nat)
      BY <2>4, <2>5
    <3>. QED BY <3>1, ConcatProperties, Zenon
  <2>6. left \in Seq(Nat) /\ Len(left) = n - 1
    BY <2>1, <2>3, <2>4, <2>5, <2>12, <2>13
  <2>7. \A i \in 1..(n - 1) : left[i] = IF i < p THEN list[i] ELSE list[i + 1]
    <3>. TAKE i \in 1..(n - 1)
    <3>1. i \in 1..(Len(low) + Len(high))
      BY <2>1, <2>3, <2>4, <2>5
    <3>2. left[i] = IF i <= p - 1 THEN low[i] ELSE high[i - (p - 1)]
      BY <2>4, <2>5, <2>12, <2>13, <3>1
    <3>3. CASE i < p
      BY <2>1, <2>3, <2>4, <3>2, <3>3
    <3>4. CASE ~(i < p)
      <4>1. i - (p - 1) \in 1..(n - p) /\ p + (i - (p - 1)) = i + 1
        BY <2>1, <2>3, <3>4
      <4>. QED BY <2>1, <2>5, <3>2, <3>4, <4>1
    <3>. QED BY <3>3, <3>4
  <2>8. list # <<>>
    BY <2>1 DEF n
  <2>. HIDE DEF left
  <2>9. \A i \in Positions(left) : \E q \in Positions(list) : left[i] = list[q]
    BY <2>1, <2>3, <2>6, <2>7, SMTT(40) DEF Positions, n
  <2>10. \A q \in Positions(list) : list[q] # s => \E i \in Positions(left) : left[i] = list[q]
    <3>. SUFFICES ASSUME NEW q \in 1..n, list[q] # s PROVE \E i \in 1..(n - 1) : left[i] = list[q]
      BY <2>6 DEF Positions, n
    <3>1. CASE q < p
      BY <2>1, <2>3, <2>7, <3>1
    <3>2. CASE q > p
      <4>1. q - 1 \in 1..(n - 1) /\ ~(q - 1 < p) /\ (q - 1) + 1 = q
        BY <2>1, <2>3, <3>2
      <4>. QED BY <2>7, <4>1
    <3>. QED BY <2>1, <2>3, <3>1, <3>2
  <2>11. Rising(list) => Rising(left)
    <3>. SUFFICES ASSUME Rising(list), NEW i \in 1..(n - 1), NEW k \in 1..(n - 1), i < k
                  PROVE  left[i] < left[k]
      BY <2>6 DEF Rising, Positions
    <3>1. \A a, b \in 1..n : a < b => list[a] < list[b]
      BY DEF Rising, Positions, n
    <3>. QED BY <2>1, <2>3, <2>7, <3>1
  <2>. QED BY <2>6, <2>8, <2>9, <2>10, <2>11 DEF left
<1>. QED BY <1>1, <1>2

(* A new subscription goes to the end of its list.                         *)
LEMMA AppendToList ==
    ASSUME NEW list \in Seq(Nat), NEW n \in Nat
    PROVE  /\ Append(list, n) \in Seq(Nat) /\ Append(list, n) # <<>>
           /\ Positions(Append(list, n)) = Positions(list) \cup {Len(list) + 1}
           /\ \A i \in Positions(list) : Append(list, n)[i] = list[i]
           /\ Append(list, n)[Len(list) + 1] = n
BY AppendProperties, LenProperties DEF Positions

-----------------------------------------------------------------------------
(* The registers of the addresses.  Events of the threads play no part.    *)

Subscribed ==
    /\ sub \in Seq([register : Known, types : Filter])
    /\ subscriptions \in [Address -> Seq(Nat)]
    /\ registers \in [Address -> Known]

RegistersInv == Subscribed /\ RegistersMatch

(* No step that leaves the lists alone disturbs the invariant.             *)
LEMMA ListsAlone ==
    RegistersInv /\ UNCHANGED <<sub, subscriptions, registers>> => RegistersInv'
BY DEF RegistersInv, Subscribed, RegistersMatch

LEMMA InitRegisters == Init => RegistersInv
BY DEF Init, RegistersInv, Subscribed, RegistersMatch, Known

(* A new subscription brings its register class with it.                   *)
LEMMA SubscribeRegisters ==
    ASSUME RegistersInv, NEW register \in Register, NEW types \in Filter,
           Subscribe(register, types)
    PROVE  RegistersInv'
<1>. DEFINE a == AddressOf[register]
<1>1. a \in Address /\ register # NoRegister
  BY RegisterAssumption
<1>2. /\ subscriptions' = [subscriptions EXCEPT ![a] = Append(@, Len(sub) + 1)]
      /\ registers' = [registers EXCEPT ![a] = register]
      /\ sub' = Append(sub, [register |-> register, types |-> types])
  BY DEF Subscribe, Create
<1>3. Subscribed'
  <2>1. Len(sub) + 1 \in Nat /\ subscriptions[a] \in Seq(Nat)
    BY <1>1 DEF RegistersInv, Subscribed
  <2>2. Append(subscriptions[a], Len(sub) + 1) \in Seq(Nat)
    BY <2>1, AppendProperties
  <2>3. subscriptions' \in [Address -> Seq(Nat)]
    BY <1>1, <1>2, <2>2 DEF RegistersInv, Subscribed
  <2>4. sub' \in Seq([register : Known, types : Filter])
    BY <1>2 DEF RegistersInv, Subscribed, Known
  <2>. QED BY <1>1, <1>2, <2>3, <2>4 DEF RegistersInv, Subscribed, Known
<1>4. RegistersMatch'
  <2>1. Append(subscriptions[a], Len(sub) + 1) # <<>>
    <3>1. Len(sub) + 1 \in Nat /\ subscriptions[a] \in Seq(Nat)
      BY <1>1 DEF RegistersInv, Subscribed
    <3>. QED BY <3>1, AppendProperties
  <2>. QED BY <1>1, <1>2, <2>1 DEF RegistersInv, Subscribed, RegistersMatch
<1>. QED BY <1>3, <1>4 DEF RegistersInv

(* The last subscription of an address takes the register class with it,   *)
(* no other one does.                                                      *)
LEMMA RemoveRegisters ==
    ASSUME RegistersInv, NEW s \in Sub, Remove(s)
    PROVE  RegistersInv'
<1>1. sub[s] \in [register : Known, types : Filter]
  BY ElementOfSeq DEF RegistersInv, Subscribed, Sub
<1>2. CASE sub[s].register = NoRegister
  <2>1. UNCHANGED <<sub, subscriptions, registers>>
    BY <1>2 DEF Remove
  <2>. QED BY <2>1, ListsAlone
<1>3. CASE sub[s].register # NoRegister
  <2>. DEFINE a == AddressOf[sub[s].register]
              left == Without(subscriptions[a], s)
  <2>1. a \in Address
    BY <1>1, <1>3, RegisterAssumption DEF Known
  <2>2. /\ subscriptions' = [subscriptions EXCEPT ![a] = left]
        /\ registers' = [registers EXCEPT ![a] = RegisterAfter(a, left)]
        /\ sub' = sub
    BY <1>3 DEF Remove
  <2>3. left \in Seq(Nat) /\ (subscriptions[a] = <<>> => left = <<>>)
    BY <2>1, WithoutList DEF RegistersInv, Subscribed
  <2>4. RegisterAfter(a, left) = IF left = <<>> THEN NoRegister ELSE registers[a]
    BY DEF RegisterAfter
  <2>. HIDE DEF left
  <2>5. Subscribed'
    BY <2>1, <2>2, <2>3, <2>4 DEF RegistersInv, Subscribed, Known
  <2>6. RegistersMatch'
    BY <2>1, <2>2, <2>3, <2>4 DEF RegistersInv, Subscribed, RegistersMatch
  <2>. QED BY <2>5, <2>6 DEF RegistersInv
<1>. QED BY <1>2, <1>3

(* close() drops all lists and registers at once.                          *)
LEMMA ClearRegisters == RegistersInv /\ Clear => RegistersInv'
BY DEF Clear, RegistersInv, Subscribed, RegistersMatch, Known

LEMMA StepRegisters == RegistersInv /\ [Next]_vars => RegistersInv'
<1>. SUFFICES ASSUME RegistersInv, [Next]_vars PROVE RegistersInv'
  OBVIOUS
<1>1. ASSUME NEW types \in Filter, SubscribeAll(types) PROVE RegistersInv'
  <2>1. /\ sub' = Append(sub, [register |-> NoRegister, types |-> types])
        /\ UNCHANGED <<subscriptions, registers>>
    BY <1>1 DEF SubscribeAll, Create
  <2>2. sub' \in Seq([register : Known, types : Filter])
    BY <1>1, <2>1 DEF RegistersInv, Subscribed, Known
  <2>. QED BY <2>1, <2>2 DEF RegistersInv, Subscribed, RegistersMatch
<1>2. CASE User
  BY <1>1, <1>2, SubscribeRegisters, RemoveRegisters, ListsAlone DEF User, Deactivate
<1>3. CASE Open \/ PutStop \/ \E m \in Traffic : Emit(m)
  BY <1>3, ListsAlone DEF Open, PutStop, Emit, subVars
<1>4. CASE \E t \in Thread : EventLoop(t) \/ Handler(t)
  BY <1>4, ListsAlone
     DEF EventLoop, Handler, Get, Snapshot, BeginCall, Delivered, HandlerReturns,
         HandlerRaises, subVars
<1>5. CASE UNCHANGED vars
  BY <1>5, ListsAlone DEF vars, subVars
<1>. QED BY <1>2, <1>3, <1>4, <1>5, ClearRegisters DEF Next

(* Whatever threads subscribe, unsubscribe and close, and in what order:   *)
(* an address has a register class exactly while it has subscriptions, and *)
(* the class is one of that address (subscribe, _remove_subscription,      *)
(* close).                                                                 *)
THEOREM RegistersAreKept == Spec => []RegistersMatch
<1>1. RegistersInv => RegistersMatch
  BY DEF RegistersInv
<1>. QED BY <1>1, InitRegisters, StepRegisters, PTL DEF Spec

-----------------------------------------------------------------------------
(* Types                                                                   *)

Call == [sub : Nat, form : Known]

LEMMA TypeInit == Init => TypeOK
<1>. SUFFICES ASSUME Init PROVE TypeOK
  OBVIOUS
<1>1. /\ sub \in Seq([register : Known, types : Filter]) /\ active \in Seq(BOOLEAN)
      /\ removed \in Seq(BOOLEAN) /\ since \in Seq(Nat)
      /\ Len(active) = Len(sub) /\ Len(removed) = Len(sub) /\ Len(since) = Len(sub)
  BY DEF Init
<1>2. /\ subscriptions \in [Address -> Seq(Nat)] /\ registers \in [Address -> Known]
      /\ catchAll \in Seq(Nat) /\ todo \in [Thread -> Seq([sub : Nat, form : Known])]
  BY DEF Init, Known
<1>3. /\ stream \in Seq([msg : Traffic, session : Nat]) /\ queue \in Seq(Nat)
      /\ log \in Seq([at : Nat, sub : Nat, form : Known, by : Thread])
      /\ \A p \in Positions(queue) : queue[p] <= Len(stream)
  BY DEF Init, Positions
<1>4. /\ life \in {"closed", "open", "joining"} /\ opens \in 0..MaxOpen
      /\ epc \in [Thread -> Place] /\ current \in [Thread -> Nat]
      /\ \A t \in Thread : ~Delivering(t) /\ epc[t] = "off"
  BY BoundAssumption DEF Init, Place, Delivering
<1>. QED BY <1>1, <1>2, <1>3, <1>4 DEF TypeOK

LEMMA CreateTypes ==
    ASSUME TypeOK, NEW register \in Known, NEW types \in Filter, Create(register, types)
    PROVE  /\ sub' \in Seq([register : Known, types : Filter]) /\ active' \in Seq(BOOLEAN)
           /\ removed' \in Seq(BOOLEAN) /\ since' \in Seq(Nat)
           /\ Len(sub') = Len(sub) + 1 /\ Len(sub) \in Nat
           /\ Len(active') = Len(sub') /\ Len(removed') = Len(sub') /\ Len(since') = Len(sub')
           /\ \A s \in Sub : sub'[s] = sub[s] /\ removed'[s] = removed[s] /\ since'[s] = since[s]
           /\ sub'[Len(sub')] = [register |-> register, types |-> types]
           /\ ~removed'[Len(sub')] /\ since'[Len(sub')] = Len(stream)
<1>1. Len(stream) \in Nat /\ [register |-> register, types |-> types] \in [register : Known, types : Filter]
  BY DEF TypeOK
<1>2. /\ sub' \in Seq([register : Known, types : Filter]) /\ Len(sub') = Len(sub) + 1
      /\ Len(sub) \in Nat /\ \A s \in Sub : sub'[s] = sub[s]
      /\ sub'[Len(sub')] = [register |-> register, types |-> types]
  <2>. DEFINE new == [register |-> register, types |-> types]
              S == [register : Known, types : Filter]
  <2>1. sub \in Seq(S) /\ new \in S /\ sub' = Append(sub, new)
    BY DEF Create, TypeOK
  <2>. HIDE DEF new, S
  <2>2. /\ sub' \in Seq(S) /\ Len(sub') = Len(sub) + 1 /\ Len(sub) \in Nat
        /\ (\A s \in Sub : sub'[s] = sub[s]) /\ sub'[Len(sub')] = new
    BY <2>1, AppendProperties DEF Sub
  <2>. QED BY <2>2 DEF new, S
<1>3. active' \in Seq(BOOLEAN) /\ Len(active') = Len(sub) + 1
  <2>1. active \in Seq(BOOLEAN) /\ active' = Append(active, TRUE) /\ Len(active) = Len(sub)
    BY DEF Create, TypeOK
  <2>. QED BY <2>1, AppendProperties
<1>4. /\ removed' \in Seq(BOOLEAN) /\ Len(removed') = Len(sub) + 1
      /\ (\A s \in Sub : removed'[s] = removed[s]) /\ ~removed'[Len(sub) + 1]
  <2>1. removed \in Seq(BOOLEAN) /\ removed' = Append(removed, FALSE) /\ Len(removed) = Len(sub)
    BY DEF Create, TypeOK
  <2>2. /\ removed' \in Seq(BOOLEAN) /\ Len(removed') = Len(removed) + 1
        /\ \A s \in 1..Len(removed) : removed'[s] = removed[s]
        /\ removed'[Len(removed) + 1] = FALSE
    <3>1. FALSE \in BOOLEAN
      OBVIOUS
    <3>. QED BY <2>1, <3>1, AppendProperties, ZenonT(40)
  <2>. QED BY <2>1, <2>2 DEF Sub
<1>5. /\ since' \in Seq(Nat) /\ Len(since') = Len(sub) + 1
      /\ (\A s \in Sub : since'[s] = since[s]) /\ since'[Len(sub) + 1] = Len(stream)
  <2>1. since \in Seq(Nat) /\ since' = Append(since, Len(stream)) /\ Len(since) = Len(sub)
    BY DEF Create, TypeOK
  <2>. QED BY <1>1, <2>1, AppendProperties DEF Sub
<1>. QED BY <1>2, <1>3, <1>4, <1>5

LEMMA CopyTypes ==
    ASSUME NEW list \in Seq(Nat), NEW form \in Known
    PROVE  /\ Calls(list, form) \in Seq(Call) /\ Len(Calls(list, form)) = Len(list)
           /\ \A p \in Positions(list) : Calls(list, form)[p] = CallOf(list[p], form)
<1>1. Len(list) \in Nat /\ \A p \in 1..Len(list) : CallOf(list[p], form) \in Call
  BY ElementOfSeq DEF CallOf, Call
<1>. QED BY <1>1, IsASeq DEF Calls, Positions

(* What a thread copies: the typed calls, if any, then the others.         *)
LEMMA SnapshotTypes ==
    ASSUME TypeOK, NEW m \in Message
    PROVE  LET typed == IF registers[m.address] \in m.fits
                        THEN subscriptions[m.address] ELSE <<>>
               n == Len(typed)
           IN  /\ CallsFor(m) \in Seq(Call)
               /\ n \in Nat /\ Len(catchAll) \in Nat /\ typed \in Seq(Nat)
               /\ Len(CallsFor(m)) = n + Len(catchAll)
               /\ \A p \in 1..n : CallsFor(m)[p] = CallOf(typed[p], registers[m.address])
               /\ \A p \in (n + 1)..(n + Len(catchAll)) :
                     CallsFor(m)[p] = CallOf(catchAll[p - n], NoRegister)
<1>. DEFINE a == m.address
            typed == IF registers[a] \in m.fits THEN subscriptions[a] ELSE <<>>
            first == TypedCalls(m)
            second == Calls(catchAll, NoRegister)
<1>1. a \in Address /\ subscriptions[a] \in Seq(Nat) /\ registers[a] \in Known
  BY DEF Message, TypeOK
<1>2. /\ first \in Seq(Call) /\ Len(first) = Len(typed)
      /\ \A p \in 1..Len(typed) : first[p] = CallOf(typed[p], registers[a])
  BY <1>1, CopyTypes DEF TypedCalls, Positions
<1>3. /\ second \in Seq(Call) /\ Len(second) = Len(catchAll)
      /\ \A p \in 1..Len(catchAll) : second[p] = CallOf(catchAll[p], NoRegister)
  BY CopyTypes DEF TypeOK, Known, Positions
<1>4. typed \in Seq(Nat) /\ Len(typed) \in Nat /\ Len(catchAll) \in Nat
  BY <1>1 DEF TypeOK
<1>5. CallsFor(m) = first \o second
  BY DEF CallsFor
<1>. HIDE DEF first, second, typed
<1>6. /\ first \o second \in Seq(Call)
      /\ Len(first \o second) = Len(first) + Len(second)
      /\ \A p \in 1..(Len(first) + Len(second)) :
            (first \o second)[p] = IF p <= Len(first) THEN first[p] ELSE second[p - Len(first)]
  <2>1. first \in Seq(Call) /\ second \in Seq(Call)
    BY <1>2, <1>3
  <2>. QED BY <2>1, ConcatProperties, Zenon
<1>7. \A p \in 1..Len(typed) : CallsFor(m)[p] = CallOf(typed[p], registers[a])
  BY <1>2, <1>3, <1>4, <1>5, <1>6
<1>8. \A p \in (Len(typed) + 1)..(Len(typed) + Len(catchAll)) :
         CallsFor(m)[p] = CallOf(catchAll[p - Len(typed)], NoRegister)
  <2>. TAKE p \in (Len(typed) + 1)..(Len(typed) + Len(catchAll))
  <2>1. p - Len(typed) \in 1..Len(catchAll) /\ ~(p <= Len(typed))
        /\ p \in 1..(Len(typed) + Len(catchAll))
    BY <1>4
  <2>2. CallsFor(m)[p] = second[p - Len(typed)]
    BY <1>2, <1>3, <1>5, <1>6, <2>1
  <2>. QED BY <1>3, <2>1, <2>2
<1>. QED BY <1>2, <1>3, <1>4, <1>5, <1>6, <1>7, <1>8 DEF typed

LEMMA DeliveredMessage ==
    ASSUME TypeOK, NEW i \in 1..Len(stream)
    PROVE  stream[i].msg \in Traffic /\ stream[i].msg \in Message
<1>1. stream[i] \in [msg : Traffic, session : Nat]
  BY ElementOfSeq DEF TypeOK
<1>. QED BY <1>1, TrafficAssumption

(* What the steps of an event thread do to the queue, the calls still to make *)
(* and the log.                                                            *)
LEMMA GetTakes ==
    ASSUME TypeOK, NEW t \in Thread, Get(t)
    PROVE  /\ queue' \in Seq(Nat) /\ Len(queue) \in Nat /\ Len(queue') = Len(queue) - 1
           /\ \A p \in Positions(queue') : p + 1 \in Positions(queue) /\ queue'[p] = queue[p + 1]
           /\ 1 \in Positions(queue) /\ current' = [current EXCEPT ![t] = queue[1]]
           /\ epc[t] = "get"
           /\ epc' = [epc EXCEPT ![t] = IF queue[1] = Stop THEN "off" ELSE "snapshot"]
<1>1. queue \in Seq(Nat) /\ queue # <<>> /\ queue' = Tail(queue) /\ Head(queue) = queue[1]
  BY DEF Get, TypeOK
<1>2. queue' \in Seq(Nat) /\ Len(queue') = Len(queue) - 1 /\ Len(queue) \in Nat /\ Len(queue) # 0
      /\ \A p \in 1..Len(queue') : queue'[p] = queue[p + 1]
  BY <1>1, HeadTailProperties
<1>. QED BY <1>1, <1>2 DEF Get, Positions

LEMMA BeginCalls ==
    ASSUME TypeOK, NEW t \in Thread, BeginCall(t)
    PROVE  \E p \in Positions(todo[t]) :
             /\ Due(t, p) /\ \A q \in 1..(p - 1) : ~Due(t, q)
             /\ todo'[t] \in Seq(Call) /\ Len(todo[t]) \in Nat
             /\ Len(todo'[t]) = Len(todo[t]) - p + 1
             /\ \A q \in 1..Len(todo'[t]) : todo'[t][q] = todo[t][q + p - 1]
             /\ \A u \in Thread : u # t => todo'[u] = todo[u]
             /\ todo' \in [Thread -> Seq(Call)]
             /\ log' \in Seq([at : Nat, sub : Nat, form : Known, by : Thread]) /\ Len(log) \in Nat
             /\ Len(log') = Len(log) + 1 /\ \A i \in Positions(log) : log'[i] = log[i]
             /\ log'[Len(log) + 1] = LogOf(t, todo[t][p])
<1>1. PICK p \in Positions(todo[t]) :
         /\ Due(t, p) /\ \A q \in 1..(p - 1) : ~Due(t, q)
         /\ todo' = [todo EXCEPT ![t] = SubSeq(@, p, Len(@))]
         /\ log' = Append(log, LogOf(t, todo[t][p]))
  BY DEF BeginCall, Positions
<1>. DEFINE list == todo[t]
            n == Len(list)
<1>2. list \in Seq(Call) /\ n \in Nat /\ p \in 1..n /\ todo \in [Thread -> Seq(Call)]
  <2>1. todo \in [Thread -> Seq(Call)]
    BY DEF TypeOK, Call
  <2>2. list \in Seq(Call)
    BY <2>1
  <2>. QED BY <2>1, <2>2, LenProperties DEF Positions
<1>3. todo' = [todo EXCEPT ![t] = SubSeq(list, p, n)]
  BY <1>1, <1>2
<1>. HIDE DEF list, n
<1>4. /\ SubSeq(list, p, n) \in Seq(Call) /\ Len(SubSeq(list, p, n)) = n - p + 1
      /\ \A q \in 1..(n - p + 1) : SubSeq(list, p, n)[q] = list[p + q - 1]
  <2>1. p \in Int /\ n \in Int /\ p <= n /\ \A i \in p..n : list[i] \in Call
    BY <1>2, ElementOfSeq DEF n
  <2>. QED BY <2>1, SubSeqProperties
<1>5. list[p] \in Call
  BY <1>2, ElementOfSeq DEF n
<1>6. LogOf(t, list[p]) \in [at : Nat, sub : Nat, form : Known, by : Thread]
  BY <1>5 DEF Call, LogOf, TypeOK
<1>7. /\ log' \in Seq([at : Nat, sub : Nat, form : Known, by : Thread]) /\ Len(log) \in Nat
      /\ Len(log') = Len(log) + 1 /\ \A i \in Positions(log) : log'[i] = log[i]
      /\ log'[Len(log) + 1] = LogOf(t, list[p])
  <2>. DEFINE L == [at : Nat, sub : Nat, form : Known, by : Thread]
              new == LogOf(t, list[p])
  <2>1. log \in Seq(L) /\ new \in L /\ log' = Append(log, new)
    BY <1>1, <1>6 DEF TypeOK, list
  <2>. HIDE DEF L, new
  <2>2. /\ log' \in Seq(L) /\ Len(log) \in Nat
        /\ Len(log') = Len(log) + 1 /\ \A i \in Positions(log) : log'[i] = log[i]
        /\ log'[Len(log) + 1] = new
    BY <2>1, AppendProperties, LenProperties DEF Positions
  <2>. QED BY <2>2 DEF L, new
<1>8. /\ todo'[t] = SubSeq(list, p, n) /\ \A u \in Thread : u # t => todo'[u] = todo[u]
      /\ todo' \in [Thread -> Seq(Call)]
  BY <1>2, <1>3, <1>4
<1>9. \A q \in 1..Len(todo'[t]) : todo'[t][q] = list[q + p - 1]
  <2>1. \A q \in 1..(n - p + 1) : p + q - 1 = q + p - 1
    BY <1>2
  <2>. QED BY <1>4, <1>8, <2>1
<1>10. todo'[t] \in Seq(Call) /\ Len(todo'[t]) = n - p + 1
  BY <1>4, <1>8
<1>. QED BY <1>1, <1>2, <1>7, <1>8, <1>9, <1>10 DEF list, n

LEMMA HandlerEnds ==
    ASSUME TypeOK, NEW t \in Thread, Handler(t)
    PROVE  /\ epc[t] = "handler" /\ epc' = [epc EXCEPT ![t] = "calls"]
           /\ todo' \in [Thread -> Seq(Call)] /\ Len(todo[t]) \in Nat /\ todo[t] # <<>>
           /\ Len(todo'[t]) = Len(todo[t]) - 1
           /\ \A q \in 1..Len(todo'[t]) : todo'[t][q] = todo[t][q + 1]
           /\ \A u \in Thread : u # t => todo'[u] = todo[u]
           /\ UNCHANGED <<subVars, stream, queue, life, opens, current, log>>
<1>1. /\ epc[t] = "handler" /\ epc' = [epc EXCEPT ![t] = "calls"]
      /\ todo' = [todo EXCEPT ![t] = Tail(todo[t])]
      /\ UNCHANGED <<subVars, stream, queue, life, opens, current, log>>
  BY DEF Handler, HandlerReturns, HandlerRaises, SurvivesRaise, AfterRaise, TypeOK
<1>2. todo \in [Thread -> Seq(Call)] /\ todo[t] \in Seq(Call) /\ todo[t] # <<>>
  BY <1>1 DEF TypeOK, Call
<1>3. /\ Tail(todo[t]) \in Seq(Call) /\ Len(Tail(todo[t])) = Len(todo[t]) - 1
      /\ Len(todo[t]) \in Nat
      /\ \A q \in 1..Len(Tail(todo[t])) : Tail(todo[t])[q] = todo[t][q + 1]
  BY <1>2, HeadTailProperties, LenProperties
<1>4. todo'[t] = Tail(todo[t]) /\ todo' \in [Thread -> Seq(Call)]
      /\ \A u \in Thread : u # t => todo'[u] = todo[u]
  BY <1>1, <1>2, <1>3
<1>. QED BY <1>1, <1>2, <1>3, <1>4

LEMMA EmitQueues ==
    ASSUME TypeOK, NEW m \in Traffic, Emit(m)
    PROVE  /\ stream' \in Seq([msg : Traffic, session : Nat]) /\ Len(stream) \in Nat
           /\ Len(stream') = Len(stream) + 1
           /\ \A i \in 1..Len(stream) : stream'[i] = stream[i]
           /\ queue' \in Seq(Nat) /\ Positions(queue') = Positions(queue) \cup {Len(queue) + 1}
           /\ Len(queue) \in Nat
           /\ \A p \in Positions(queue) : queue'[p] = queue[p] /\ queue[p] \in Nat
           /\ queue'[Len(queue) + 1] = Len(stream')
           /\ UNCHANGED <<subVars, life, opens, threadVars>>
<1>1. [msg |-> m, session |-> opens] \in [msg : Traffic, session : Nat]
  BY DEF TypeOK
<1>2. /\ stream' \in Seq([msg : Traffic, session : Nat]) /\ Len(stream) \in Nat
      /\ Len(stream') = Len(stream) + 1 /\ \A i \in 1..Len(stream) : stream'[i] = stream[i]
  <2>. DEFINE S == [msg : Traffic, session : Nat]
              new == [msg |-> m, session |-> opens]
  <2>1. stream \in Seq(S) /\ new \in S /\ stream' = Append(stream, new)
    BY <1>1 DEF Emit, TypeOK
  <2>. HIDE DEF S, new
  <2>2. /\ stream' \in Seq(S) /\ Len(stream) \in Nat
        /\ Len(stream') = Len(stream) + 1 /\ \A i \in 1..Len(stream) : stream'[i] = stream[i]
    BY <2>1, AppendProperties, LenProperties
  <2>. QED BY <2>2 DEF S
<1>3. queue \in Seq(Nat) /\ Len(stream) + 1 \in Nat /\ queue' = Append(queue, Len(stream) + 1)
  BY <1>2 DEF Emit, TypeOK
<1>4. Len(queue) \in Nat /\ \A p \in Positions(queue) : queue[p] \in Nat
  BY <1>3, LenProperties, ElementOfSeq DEF Positions
<1>5. /\ queue' \in Seq(Nat) /\ Positions(queue') = Positions(queue) \cup {Len(queue) + 1}
      /\ \A p \in Positions(queue) : queue'[p] = queue[p]
      /\ queue'[Len(queue) + 1] = Len(stream) + 1
  BY <1>3, AppendToList
<1>6. UNCHANGED <<subVars, life, opens, threadVars>>
  BY DEF Emit
<1>. QED BY <1>2, <1>4, <1>5, <1>6

LEMMA StopQueues ==
    ASSUME TypeOK, PutStop
    PROVE  /\ queue' \in Seq(Nat) /\ Positions(queue') = Positions(queue) \cup {Len(queue) + 1}
           /\ Len(queue) \in Nat
           /\ \A p \in Positions(queue) : queue'[p] = queue[p] /\ queue[p] \in Nat
           /\ queue'[Len(queue) + 1] = Stop
           /\ UNCHANGED <<subVars, stream, opens, threadVars>>
<1>1. queue \in Seq(Nat) /\ Stop \in Nat /\ queue' = Append(queue, Stop)
  BY DEF PutStop, StopLast, TypeOK, Stop
<1>2. Len(queue) \in Nat /\ \A p \in Positions(queue) : queue[p] \in Nat
  BY <1>1, LenProperties, ElementOfSeq DEF Positions
<1>3. /\ queue' \in Seq(Nat) /\ Positions(queue') = Positions(queue) \cup {Len(queue) + 1}
      /\ \A p \in Positions(queue) : queue'[p] = queue[p]
      /\ queue'[Len(queue) + 1] = Stop
  BY <1>1, AppendToList
<1>4. UNCHANGED <<subVars, stream, opens, threadVars>>
  BY DEF PutStop
<1>. QED BY <1>2, <1>3, <1>4

LEMMA SubType ==
    ASSUME TypeOK, NEW s \in Sub
    PROVE  sub[s].register \in Known /\ sub[s].types \in Filter
<1>1. sub[s] \in [register : Known, types : Filter]
  BY ElementOfSeq DEF TypeOK, Sub
<1>. QED BY <1>1

LEMMA TypeNext == TypeOK /\ [Next]_vars => TypeOK'
<1>. SUFFICES ASSUME TypeOK, [Next]_vars PROVE TypeOK'
  OBVIOUS
<1>. USE DEF subVars, threadVars
<1>1. ASSUME NEW types \in Filter, NEW register \in Register, Subscribe(register, types)
      PROVE  TypeOK'
  <2>. DEFINE a == AddressOf[register]
  <2>1. Create(register, types) /\ register \in Known /\ a \in Address /\ Len(sub) + 1 \in Nat
    BY <1>1, RegisterAssumption DEF Subscribe, Known, TypeOK
  <2>2. Append(subscriptions[a], Len(sub) + 1) \in Seq(Nat)
    BY <2>1, AppendToList DEF TypeOK
  <2>3. subscriptions' \in [Address -> Seq(Nat)] /\ registers' \in [Address -> Known]
    BY <1>1, <2>1, <2>2 DEF Subscribe, TypeOK
  <2>. QED BY <1>1, <2>1, <2>3, CreateTypes DEF Subscribe, TypeOK, Delivering, Positions
<1>2. ASSUME NEW types \in Filter, SubscribeAll(types) PROVE TypeOK'
  <2>1. Create(NoRegister, types) /\ NoRegister \in Known /\ Len(sub) + 1 \in Nat
    BY <1>2 DEF SubscribeAll, Known, TypeOK
  <2>2. catchAll' \in Seq(Nat)
    BY <1>2, <2>1, AppendToList DEF SubscribeAll, TypeOK
  <2>. QED BY <1>2, <2>1, <2>2, CreateTypes DEF SubscribeAll, TypeOK, Delivering, Positions
<1>3. ASSUME NEW s \in Sub, Remove(s) PROVE TypeOK'
  <2>1. sub[s].register \in Known
    BY SubType
  <2>2. removed' \in Seq(BOOLEAN) /\ Len(removed') = Len(sub)
    BY <1>3, ExceptSeq DEF Remove, TypeOK, Sub
  <2>3. /\ catchAll' \in Seq(Nat)
        /\ subscriptions' \in [Address -> Seq(Nat)] /\ registers' \in [Address -> Known]
    <3>1. CASE sub[s].register = NoRegister
      BY <1>3, <3>1, WithoutList DEF Remove, TypeOK
    <3>2. CASE sub[s].register # NoRegister
      <4>. DEFINE a == AddressOf[sub[s].register]
                  left == Without(subscriptions[a], s)
      <4>1. a \in Address
        BY <2>1, <3>2, RegisterAssumption DEF Known
      <4>2. left \in Seq(Nat) /\ RegisterAfter(a, left) \in Known
        BY <4>1, WithoutList DEF TypeOK, RegisterAfter, Known
      <4>3. /\ subscriptions' = [subscriptions EXCEPT ![a] = left]
            /\ registers' = [registers EXCEPT ![a] = RegisterAfter(a, left)]
            /\ catchAll' = catchAll
        BY <1>3, <3>2 DEF Remove
      <4>. HIDE DEF left, a
      <4>. QED BY <4>1, <4>2, <4>3 DEF TypeOK
    <3>. QED BY <3>1, <3>2
  <2>. QED BY <1>3, <2>2, <2>3 DEF Remove, TypeOK, Delivering, Positions
<1>4. ASSUME NEW s \in Sub, Deactivate(s) PROVE TypeOK'
  <2>1. active' \in Seq(BOOLEAN) /\ Len(active') = Len(sub)
    BY <1>4, ExceptSeq DEF Deactivate, TypeOK, Sub
  <2>. QED BY <1>4, <2>1 DEF Deactivate, TypeOK, Delivering, Positions
<1>5. CASE Open
  <2>1. opens' \in 0..MaxOpen /\ opens' \in Thread /\ epc' = [epc EXCEPT ![opens'] = "get"]
    BY <1>5, BoundAssumption DEF Open, TypeOK, Thread
  <2>2. epc' \in [Thread -> Place]
    BY <2>1 DEF TypeOK, Place
  <2>3. \A t \in Thread : /\ epc'[t] # "get" => epc'[t] = epc[t]
                         /\ epc'[t] # "off" => t <= opens'
    <3>1. \A t \in Thread : epc[t] # "off" => t <= opens
      BY DEF TypeOK
    <3>2. opens' = opens + 1 /\ opens \in Nat
      BY <1>5 DEF Open, TypeOK
    <3>. QED BY <2>1, <3>1, <3>2 DEF TypeOK, Thread
  <2>. QED BY <1>5, <2>1, <2>2, <2>3 DEF Open, TypeOK, Delivering, Positions
<1>6. ASSUME NEW m \in Traffic, Emit(m) PROVE TypeOK'
  <2>1. /\ stream' \in Seq([msg : Traffic, session : Nat]) /\ Len(stream) \in Nat
        /\ Len(stream') = Len(stream) + 1 /\ queue' \in Seq(Nat)
        /\ Positions(queue') = Positions(queue) \cup {Len(queue) + 1}
        /\ \A p \in Positions(queue) : queue'[p] = queue[p] /\ queue[p] \in Nat
        /\ queue'[Len(queue) + 1] = Len(stream')
        /\ UNCHANGED <<subVars, life, opens, threadVars>>
    BY <1>6, EmitQueues
  <2>2. \A p \in Positions(queue) : queue[p] <= Len(stream)
    BY DEF TypeOK
  <2>3. \A p \in Positions(queue') : queue'[p] <= Len(stream')
    BY <2>1, <2>2
  <2>4. \A t \in Thread : Delivering(t)' => current'[t] \in 1..Len(stream')
    BY <2>1 DEF TypeOK, Delivering
  <2>. QED BY <2>1, <2>3, <2>4 DEF TypeOK
<1>7. CASE PutStop
  <2>1. /\ queue' \in Seq(Nat) /\ Positions(queue') = Positions(queue) \cup {Len(queue) + 1}
        /\ \A p \in Positions(queue) : queue'[p] = queue[p] /\ queue[p] \in Nat
        /\ queue'[Len(queue) + 1] = Stop
        /\ UNCHANGED <<subVars, stream, opens, threadVars>>
    BY <1>7, StopQueues
  <2>2. Len(stream) \in Nat /\ \A p \in Positions(queue) : queue[p] <= Len(stream)
    BY LenProperties DEF TypeOK
  <2>3. \A p \in Positions(queue') : queue'[p] <= Len(stream')
    BY <2>1, <2>2 DEF Stop
  <2>. QED BY <1>7, <2>1, <2>3 DEF TypeOK, Delivering, PutStop
<1>8. CASE Clear
  <2>1. removed' \in Seq(BOOLEAN) /\ Len(removed') = Len(sub)
    <3>1. Len(sub) \in Nat /\ removed' = [s \in 1..Len(sub) |-> TRUE]
      BY <1>8 DEF Clear, TypeOK, Sub
    <3>2. removed' \in [1..Len(sub) -> BOOLEAN]
      BY <3>1
    <3>3. removed' \in Seq(BOOLEAN)
      BY <3>1, <3>2, SeqDef, Zenon
    <3>4. DOMAIN removed' = 1..Len(sub)
      BY <3>2
    <3>5. Len(removed') \in Nat /\ 1..Len(removed') = 1..Len(sub)
      BY <3>3, <3>4, LenProperties
    <3>. QED BY <3>1, <3>3, <3>5
  <2>2. /\ subscriptions' \in [Address -> Seq(Nat)] /\ registers' \in [Address -> Known]
        /\ catchAll' \in Seq(Nat) /\ life' \in {"closed", "open", "joining"}
    <3>1. <<>> \in Seq(Nat) /\ NoRegister \in Known
      BY EmptySeq DEF Known
    <3>. QED BY <1>8, <3>1 DEF Clear
  <2>3. UNCHANGED <<sub, active, since, stream, queue, opens, epc, current, todo, log>>
    BY <1>8 DEF Clear
  <2>. QED BY <2>1, <2>2, <2>3 DEF TypeOK, Delivering, Positions
<1>9. ASSUME NEW t \in Thread, Get(t) PROVE TypeOK'
  <2>1. \A p \in Positions(queue') : queue'[p] <= Len(stream)
    BY <1>9, GetTakes DEF TypeOK
  <2>2. queue[1] \in Nat /\ queue[1] <= Len(stream) /\ Len(stream) \in Nat
    BY <1>9, GetTakes, ElementOfSeq, LenProperties DEF TypeOK, Positions
  <2>3. epc' \in [Thread -> Place] /\ current' \in [Thread -> Nat]
    BY <1>9, <2>2, GetTakes DEF TypeOK, Place
  <2>4. \A u \in Thread : /\ Delivering(u)' => current'[u] \in 1..Len(stream)
                          /\ epc'[u] = "handler" => todo[u] # <<>>
                          /\ epc'[u] # "off" => u <= opens
    <3>1. /\ epc[t] = "get" /\ current' = [current EXCEPT ![t] = queue[1]]
          /\ epc' = [epc EXCEPT ![t] = IF queue[1] = Stop THEN "off" ELSE "snapshot"]
      BY <1>9, GetTakes
    <3>. QED BY <2>2, <3>1 DEF TypeOK, Delivering, Stop
  <2>5. queue' \in Seq(Nat) /\ UNCHANGED <<subVars, stream, life, opens, todo, log>>
    BY <1>9, GetTakes DEF Get
  <2>. QED BY <2>1, <2>3, <2>4, <2>5 DEF TypeOK
<1>10. ASSUME NEW t \in Thread, Snapshot(t) PROVE TypeOK'
  <2>1. stream[current[t]].msg \in Message
    BY <1>10, DeliveredMessage DEF Snapshot, TypeOK, Delivering
  <2>2. CallsFor(stream[current[t]].msg) \in Seq([sub : Nat, form : Known])
    BY <2>1, SnapshotTypes DEF Call
  <2>. QED BY <1>10, <2>2 DEF Snapshot, TypeOK, Place, Delivering, Positions
<1>11. ASSUME NEW t \in Thread, BeginCall(t) PROVE TypeOK'
  <2>1. /\ todo' \in [Thread -> Seq([sub : Nat, form : Known])]
        /\ log' \in Seq([at : Nat, sub : Nat, form : Known, by : Thread])
    BY <1>11, BeginCalls DEF Call
  <2>2. \A u \in Thread : epc'[u] = "handler" => todo'[u] # <<>>
    <3>1. PICK p \in Positions(todo[t]) :
             /\ Len(todo[t]) \in Nat /\ Len(todo'[t]) = Len(todo[t]) - p + 1
             /\ \A u \in Thread : u # t => todo'[u] = todo[u]
      BY <1>11, BeginCalls
    <3>2. todo'[t] # <<>>
      BY <3>1 DEF Positions
    <3>3. \A u \in Thread : u # t => epc'[u] = epc[u]
      BY <1>11 DEF BeginCall, TypeOK
    <3>. QED BY <3>1, <3>2, <3>3 DEF TypeOK
  <2>. QED BY <1>11, <2>1, <2>2 DEF BeginCall, TypeOK, Place, Delivering, Positions
<1>12. ASSUME NEW t \in Thread, Handler(t) PROVE TypeOK'
  <2>1. todo' \in [Thread -> Seq([sub : Nat, form : Known])]
    BY <1>12, HandlerEnds DEF Call
  <2>2. \A u \in Thread : epc'[u] = "handler" => todo'[u] # <<>>
    BY <1>12, HandlerEnds DEF TypeOK
  <2>. QED BY <1>12, <2>1, <2>2, HandlerEnds DEF TypeOK, Place, Delivering, Positions
<1>13. ASSUME NEW t \in Thread, Delivered(t) PROVE TypeOK'
  <2>1. /\ epc[t] = "calls" /\ epc' = [epc EXCEPT ![t] = "get"] /\ todo' = [todo EXCEPT ![t] = <<>>]
        /\ UNCHANGED <<subVars, stream, queue, life, opens, current, log>>
    BY <1>13 DEF Delivered
  <2>2. epc' \in [Thread -> Place] /\ todo' \in [Thread -> Seq([sub : Nat, form : Known])]
    <3>1. <<>> \in Seq(Call)
      BY EmptySeq
    <3>3. todo \in [Thread -> Seq(Call)]
      BY DEF TypeOK, Call
    <3>2. todo' \in [Thread -> Seq(Call)]
      BY <2>1, <3>1, <3>3
    <3>. QED BY <2>1, <3>2 DEF TypeOK, Place, Call
  <2>3. \A u \in Thread : /\ Delivering(u)' => current'[u] \in 1..Len(stream)
                          /\ epc'[u] = "handler" => todo'[u] # <<>>
                          /\ epc'[u] # "off" => u <= opens
    BY <2>1 DEF TypeOK, Delivering
  <2>. QED BY <2>1, <2>2, <2>3 DEF TypeOK, Positions, Delivering
<1>14. CASE UNCHANGED vars
  BY <1>14 DEF vars, TypeOK, Delivering, Positions
<1>. QED BY <1>1, <1>2, <1>3, <1>4, <1>5, <1>6, <1>7, <1>8, <1>9, <1>10, <1>11, <1>12, <1>13,
            <1>14 DEF Next, User, EventLoop

(* No thread, list, message or subscription that does not exist is used.   *)
THEOREM TypeCorrect == Spec => []TypeOK
BY TypeInit, TypeNext, PTL DEF Spec

-----------------------------------------------------------------------------
(* Event threads and their sentinels                                       *)

LEMMA InitSentinels == Init => SentinelPerThread
<1>. SUFFICES ASSUME Init PROVE SentinelPerThread
  OBVIOUS
<1>1. Live = {} /\ Sentinels = {} /\ life # "open"
  BY DEF Init, Live, Sentinels
<1>. QED BY <1>1, FS_EmptySet DEF SentinelPerThread

LEMMA ThreadsFinite ==
    ASSUME TypeOK
    PROVE  /\ IsFiniteSet(Live) /\ IsFiniteSet(Sentinels)
           /\ Cardinality(Live) \in Nat /\ Cardinality(Sentinels) \in Nat
<1>1. MaxOpen \in Int /\ Len(queue) \in Int
  BY BoundAssumption, LenProperties DEF TypeOK
<1>2. IsFiniteSet(Thread) /\ IsFiniteSet(1..Len(queue))
  BY <1>1, FS_Interval DEF Thread
<1>3. IsFiniteSet(Live) /\ IsFiniteSet(Sentinels)
  BY <1>2, FS_Subset DEF Live, Sentinels
<1>. QED BY <1>3, FS_CardinalityType

(* Taking the head of the queue moves the sentinels behind it up by one.   *)
LEMMA SentinelsMove ==
    ASSUME TypeOK, NEW t \in Thread, Get(t)
    PROVE  /\ IsFiniteSet(Sentinels')
           /\ Cardinality(Sentinels') = Cardinality(Sentinels \ {1})
<1>1. /\ Len(queue) \in Nat /\ Len(queue') \in Nat /\ Len(queue') = Len(queue) - 1
      /\ \A p \in 1..Len(queue') : queue'[p] = queue[p + 1]
  BY GetTakes, LenProperties DEF Positions
<1>. DEFINE S == Sentinels'
            T == Sentinels \ {1}
            f == [p \in S |-> p + 1]
<1>2. S = {p \in 1..Len(queue') : queue[p + 1] = Stop}
  BY <1>1 DEF Sentinels
<1>3. T = {p \in 2..Len(queue) : queue[p] = Stop}
  BY <1>1 DEF Sentinels
<1>4. \A p \in S : p \in Nat /\ p + 1 \in T
  BY <1>1, <1>2, <1>3
<1>5. \A q \in T : q \in Nat /\ q - 1 \in S /\ (q - 1) + 1 = q
  BY <1>1, <1>2, <1>3
<1>6. IsFiniteSet(S)
  <2>1. Len(queue') \in Int
    BY <1>1
  <2>2. IsFiniteSet(1..Len(queue'))
    BY <2>1, FS_Interval
  <2>. QED BY <1>2, <2>2, FS_Subset
<1>. HIDE DEF S, T
<1>7. f \in Bijection(S, T)
  <2>1. f \in [S -> T]
    BY <1>4
  <2>2. \A p, q \in S : f[p] = f[q] => p = q
    BY <1>4
  <2>3. \A q \in T : \E p \in S : f[p] = q
    BY <1>5
  <2>. HIDE DEF f
  <2>4. DOMAIN f = S
    BY <2>1
  <2>. QED BY <2>1, <2>2, <2>3, <2>4 DEF Bijection, Injection, Surjection, IsInjective
<1>8. Cardinality(T) = Cardinality(S)
  BY <1>6, <1>7, FS_Bijection DEF ExistsBijection
<1>. QED BY <1>6, <1>8 DEF S, T

LEMMA StepSentinels ==
    ASSUME TypeOK, SentinelPerThread, [Next]_vars
    PROVE  SentinelPerThread'
<1>0. /\ IsFiniteSet(Live) /\ IsFiniteSet(Sentinels)
      /\ Cardinality(Live) \in Nat /\ Cardinality(Sentinels) \in Nat
      /\ epc \in [Thread -> Place] /\ Len(queue) \in Nat
  BY ThreadsFinite, LenProperties DEF TypeOK
<1>1. ASSUME Live' = Live, Sentinels' = Sentinels, (life = "open") <=> (life = "open")'
      PROVE  SentinelPerThread'
  BY <1>1 DEF SentinelPerThread
<1>2. CASE User \/ UNCHANGED vars
  <2>1. UNCHANGED <<queue, life, epc>>
    BY <1>2 DEF User, SubscribeAll, Subscribe, Remove, Deactivate, threadVars, vars
  <2>2. Live' = Live /\ Sentinels' = Sentinels
    BY <2>1 DEF Live, Sentinels
  <2>. QED BY <1>1, <2>1, <2>2
<1>3. CASE Clear
  <2>1. UNCHANGED <<queue, epc>> /\ life = "joining" /\ life' = "closed"
    BY <1>3 DEF Clear, threadVars
  <2>2. Live' = Live /\ Sentinels' = Sentinels
    BY <2>1 DEF Live, Sentinels
  <2>. QED BY <1>1, <2>1, <2>2
<1>4. ASSUME NEW m \in Traffic, Emit(m) PROVE SentinelPerThread'
  <2>1. /\ 1..Len(queue') = 1..Len(queue) \cup {Len(queue) + 1}
        /\ \A p \in 1..Len(queue) : queue'[p] = queue[p]
        /\ queue'[Len(queue) + 1] = Len(stream')
        /\ Len(stream') # Stop
        /\ UNCHANGED <<life, epc>>
    <3>1. Len(stream) \in Nat /\ Len(stream') = Len(stream) + 1
      BY <1>4, EmitQueues, LenProperties DEF TypeOK
    <3>. QED BY <1>4, <3>1, EmitQueues DEF Positions, Stop, Emit, threadVars
  <2>2. Live' = Live /\ Sentinels' = Sentinels
    BY <2>1 DEF Live, Sentinels
  <2>. QED BY <1>1, <2>1, <2>2
<1>5. CASE Open
  <2>1. /\ opens + 1 \in Thread /\ epc[opens + 1] = "off" /\ queue' = queue
        /\ epc' = [epc EXCEPT ![opens + 1] = "get"] /\ life # "open" /\ life' = "open"
    BY <1>5, BoundAssumption DEF Open, TypeOK, Thread, Place
  <2>2. Live' = Live \cup {opens + 1} /\ opens + 1 \notin Live /\ Sentinels' = Sentinels
    BY <1>0, <2>1 DEF Live, Sentinels
  <2>3. Cardinality(Live') = Cardinality(Live) + 1
    BY <1>0, <2>2, FS_AddElement
  <2>. QED BY <1>0, <2>1, <2>2, <2>3 DEF SentinelPerThread
<1>6. CASE PutStop
  <2>1. /\ 1..Len(queue') = 1..Len(queue) \cup {Len(queue) + 1}
        /\ \A p \in 1..Len(queue) : queue'[p] = queue[p]
        /\ queue'[Len(queue) + 1] = Stop
        /\ epc' = epc /\ life = "open" /\ life' = "joining"
    BY <1>6, StopQueues DEF Positions, PutStop, threadVars
  <2>2. Sentinels' = Sentinels \cup {Len(queue) + 1} /\ Len(queue) + 1 \notin Sentinels
    BY <1>0, <2>1 DEF Sentinels
  <2>3. Cardinality(Sentinels') = Cardinality(Sentinels) + 1
    BY <1>0, <2>2, FS_AddElement
  <2>4. Live' = Live
    BY <2>1 DEF Live
  <2>. QED BY <1>0, <2>1, <2>3, <2>4 DEF SentinelPerThread
<1>7. ASSUME NEW t \in Thread, Get(t) PROVE SentinelPerThread'
  <2>1. /\ 1 \in 1..Len(queue) /\ epc[t] = "get" /\ life' = life
        /\ epc' = [epc EXCEPT ![t] = IF queue[1] = Stop THEN "off" ELSE "snapshot"]
    BY <1>7, GetTakes DEF Get, Positions
  <2>2. Cardinality(Sentinels') = Cardinality(Sentinels \ {1})
    BY <1>7, SentinelsMove
  <2>3. Cardinality(Sentinels \ {1}) =
          IF 1 \in Sentinels THEN Cardinality(Sentinels) - 1 ELSE Cardinality(Sentinels)
    BY <1>0, FS_RemoveElement
  <2>4. t \in Live
    BY <2>1 DEF Live
  <2>5. CASE queue[1] = Stop
    <3>1. 1 \in Sentinels /\ Live' = Live \ {t}
      BY <1>0, <2>1, <2>5 DEF Live, Sentinels
    <3>2. Cardinality(Live') = Cardinality(Live) - 1
      BY <1>0, <2>4, <3>1, FS_RemoveElement
    <3>. QED BY <1>0, <2>1, <2>2, <2>3, <3>1, <3>2 DEF SentinelPerThread
  <2>6. CASE queue[1] # Stop
    <3>1. 1 \notin Sentinels /\ Live' = Live
      BY <1>0, <2>1, <2>6 DEF Live, Sentinels
    <3>. QED BY <1>0, <2>1, <2>2, <2>3, <3>1 DEF SentinelPerThread
  <2>. QED BY <2>5, <2>6
<1>8. ASSUME NEW t \in Thread, Snapshot(t) \/ BeginCall(t) \/ Delivered(t) \/ Handler(t)
      PROVE  SentinelPerThread'
  <2>1. /\ epc[t] # "off" /\ epc' = [epc EXCEPT ![t] = epc'[t]] /\ epc'[t] # "off"
        /\ UNCHANGED <<queue, life>>
    BY <1>0, <1>8
       DEF Snapshot, BeginCall, Delivered, Handler, HandlerReturns, HandlerRaises, SurvivesRaise
  <2>2. Live' = Live /\ Sentinels' = Sentinels
    BY <1>0, <2>1 DEF Live, Sentinels
  <2>. QED BY <1>1, <2>1, <2>2
<1>. QED BY <1>2, <1>3, <1>4, <1>5, <1>6, <1>7, <1>8 DEF Next, EventLoop

(* Over any number of sessions, and however long handlers outlast the join *)
(* of close(): every event thread a close() left behind has a sentinel of  *)
(* its own in the queue, and an open device has a thread that none is for  *)
(* (close(), open(), _event_loop).                                         *)
THEOREM SentinelsSuffice == Spec => []SentinelPerThread
BY InitSentinels, StepSentinels, TypeInit, TypeNext, PTL DEF Spec

-----------------------------------------------------------------------------
(* The lists                                                               *)

LEMMA ListsInit == Init => ListsRight
BY DEF Init, ListsRight, Positions, Sub

(* The lists say the same of every subscription that is not yet removed.   *)
LEMMA ListsSame ==
    ASSUME ListsRight, UNCHANGED <<sub, subscriptions, catchAll>>,
           \A s \in Sub : removed[s] => removed'[s]
    PROVE  ListsRight'
BY DEF ListsRight, Sub, Listed

(* A subscription is in the lists of its own kind and address only.        *)
LEMMA WhereListed ==
    ASSUME TypeOK, ListsRight, NEW s \in Sub, Listed(s)
    PROVE  IF sub[s].register = NoRegister
           THEN \E p \in Positions(catchAll) : catchAll[p] = s
           ELSE /\ AddressOf[sub[s].register] \in Address
                /\ LET list == subscriptions[AddressOf[sub[s].register]]
                   IN  \E p \in Positions(list) : list[p] = s
<1>1. ASSUME NEW a \in Address, NEW p \in Positions(subscriptions[a]), subscriptions[a][p] = s
      PROVE  sub[s].register # NoRegister /\ AddressOf[sub[s].register] = a
  BY <1>1 DEF ListsRight
<1>2. ASSUME NEW p \in Positions(catchAll), catchAll[p] = s PROVE sub[s].register = NoRegister
  BY <1>2 DEF ListsRight
<1>. QED BY <1>1, <1>2 DEF Listed, Positions

(* The subscriptions once there is one more.                               *)
LEMMA OneMore ==
    ASSUME TypeOK, NEW register \in Known, NEW types \in Filter, Create(register, types)
    PROVE  LET n == Len(sub) + 1 IN
           /\ n \in Nat /\ n \notin Sub /\ Sub' = Sub \cup {n}
           /\ \A s \in Sub : sub'[s] = sub[s] /\ removed'[s] = removed[s] /\ since'[s] = since[s]
           /\ sub'[n].register = register /\ ~removed'[n] /\ since'[n] = Len(stream)
<1>1. /\ Len(sub') = Len(sub) + 1 /\ Len(sub) \in Nat
      /\ \A s \in Sub : sub'[s] = sub[s] /\ removed'[s] = removed[s] /\ since'[s] = since[s]
      /\ sub'[Len(sub')] = [register |-> register, types |-> types]
      /\ ~removed'[Len(sub')] /\ since'[Len(sub')] = Len(stream)
  BY CreateTypes
<1>2. Sub' = 1..Len(sub')
  BY DEF Sub
<1>3. Len(sub) + 1 \notin Sub /\ Sub' = Sub \cup {Len(sub) + 1}
  BY <1>1, <1>2 DEF Sub
<1>. QED BY <1>1, <1>3

LEMMA SubscribeLists ==
    ASSUME TypeOK, ListsRight, NEW types \in Filter, NEW register \in Register,
           Subscribe(register, types)
    PROVE  ListsRight'
<1>. DEFINE a == AddressOf[register]
            n == Len(sub) + 1
<1>1. Create(register, types) /\ register \in Known /\ register # NoRegister /\ a \in Address
  BY RegisterAssumption DEF Subscribe, Known
<1>2. /\ n \in Nat /\ n \notin Sub /\ Sub' = Sub \cup {n}
      /\ \A s \in Sub : sub'[s] = sub[s] /\ removed'[s] = removed[s]
      /\ sub'[n].register = register /\ ~removed'[n]
  BY <1>1, OneMore
<1>3. /\ subscriptions' = [subscriptions EXCEPT ![a] = Append(subscriptions[a], n)]
      /\ catchAll' = catchAll /\ subscriptions \in [Address -> Seq(Nat)]
  BY DEF Subscribe, TypeOK
<1>4. /\ Positions(Append(subscriptions[a], n)) = Positions(subscriptions[a]) \cup {Len(subscriptions[a]) + 1}
      /\ \A p \in Positions(subscriptions[a]) : Append(subscriptions[a], n)[p] = subscriptions[a][p]
      /\ Append(subscriptions[a], n)[Len(subscriptions[a]) + 1] = n
  <2>1. subscriptions[a] \in Seq(Nat) /\ n \in Nat
    BY <1>1, <1>2, <1>3
  <2>. QED BY <2>1, AppendToList, Zenon
<1>. HIDE DEF n
<1>5. /\ \A p \in Positions(subscriptions[a]) :
            p \in Positions(subscriptions'[a]) /\ subscriptions'[a][p] = subscriptions[a][p]
      /\ \A p \in Positions(subscriptions'[a]) :
            \/ p \in Positions(subscriptions[a]) /\ subscriptions'[a][p] = subscriptions[a][p]
            \/ subscriptions'[a][p] = n
      /\ \E p \in Positions(subscriptions'[a]) : subscriptions'[a][p] = n
      /\ \A b \in Address : b # a => subscriptions'[b] = subscriptions[b]
  BY <1>1, <1>3, <1>4
<1>6. \A b \in Address : \A p \in Positions(subscriptions'[b]) :
         LET s == subscriptions'[b][p] IN
         s \in Sub' /\ sub'[s].register # NoRegister /\ AddressOf[sub'[s].register] = b
  <2>. TAKE b \in Address
  <2>. TAKE p \in Positions(subscriptions'[b])
  <2>1. CASE b = a /\ subscriptions'[b][p] = n
    BY <1>1, <1>2, <2>1
  <2>2. CASE p \in Positions(subscriptions[b]) /\ subscriptions'[b][p] = subscriptions[b][p]
    BY <1>2, <2>2 DEF ListsRight
  <2>. QED BY <1>5, <2>1, <2>2
<1>7. \A p \in Positions(catchAll') :
         catchAll'[p] \in Sub' /\ sub'[catchAll'[p]].register = NoRegister
  BY <1>2, <1>3 DEF ListsRight
<1>8. \A s \in Sub' : ~removed'[s] => Listed(s)'
  <2>. SUFFICES ASSUME NEW s \in Sub', ~removed'[s] PROVE Listed(s)'
    OBVIOUS
  <2>1. CASE s = n
    BY <1>1, <1>5, <2>1 DEF Listed, Positions
  <2>2. CASE s \in Sub
    <3>1. Listed(s)
      BY <1>2, <2>2 DEF ListsRight
    <3>. QED BY <1>3, <1>5, <3>1 DEF Listed, Positions
  <2>. QED BY <1>2, <2>1, <2>2
<1>. QED BY <1>6, <1>7, <1>8 DEF ListsRight

LEMMA SubscribeAllLists ==
    ASSUME TypeOK, ListsRight, NEW types \in Filter, SubscribeAll(types)
    PROVE  ListsRight'
<1>. DEFINE n == Len(sub) + 1
<1>1. Create(NoRegister, types) /\ NoRegister \in Known
  BY DEF SubscribeAll, Known
<1>2. /\ n \in Nat /\ n \notin Sub /\ Sub' = Sub \cup {n}
      /\ \A s \in Sub : sub'[s] = sub[s] /\ removed'[s] = removed[s]
      /\ sub'[n].register = NoRegister /\ ~removed'[n]
  BY <1>1, OneMore
<1>3. catchAll' = Append(catchAll, n) /\ subscriptions' = subscriptions /\ catchAll \in Seq(Nat)
  BY DEF SubscribeAll, TypeOK
<1>4. /\ Positions(catchAll') = Positions(catchAll) \cup {Len(catchAll) + 1}
      /\ \A p \in Positions(catchAll) : catchAll'[p] = catchAll[p]
      /\ catchAll'[Len(catchAll) + 1] = n
  BY <1>2, <1>3, AppendToList
<1>. HIDE DEF n
<1>5. \A s \in Sub' : ~removed'[s] => Listed(s)'
  <2>. SUFFICES ASSUME NEW s \in Sub', ~removed'[s] PROVE Listed(s)'
    OBVIOUS
  <2>1. CASE s = n
    BY <1>4, <2>1 DEF Listed, Positions
  <2>2. CASE s \in Sub
    <3>1. Listed(s)
      BY <1>2, <2>2 DEF ListsRight
    <3>. QED BY <1>3, <1>4, <3>1 DEF Listed, Positions
  <2>. QED BY <1>2, <2>1, <2>2
<1>6. \A p \in Positions(catchAll') :
         catchAll'[p] \in Sub' /\ sub'[catchAll'[p]].register = NoRegister
  BY <1>2, <1>4 DEF ListsRight
<1>7. \A b \in Address : \A p \in Positions(subscriptions'[b]) :
         LET s == subscriptions'[b][p] IN
         s \in Sub' /\ sub'[s].register # NoRegister /\ AddressOf[sub'[s].register] = b
  BY <1>2, <1>3 DEF ListsRight
<1>. QED BY <1>5, <1>6, <1>7 DEF ListsRight

LEMMA RemoveLists ==
    ASSUME TypeOK, ListsRight, NEW s \in Sub, Remove(s)
    PROVE  /\ ListsRight'
           /\ \A a \in Address : \A p \in Positions(subscriptions'[a]) :
                 \E q \in Positions(subscriptions[a]) : subscriptions'[a][p] = subscriptions[a][q]
           /\ \A p \in Positions(catchAll') :
                 \E q \in Positions(catchAll) : catchAll'[p] = catchAll[q]
<1>1. sub' = sub /\ removed' = [removed EXCEPT ![s] = TRUE] /\ removed \in Seq(BOOLEAN)
      /\ Len(removed) = Len(sub)
  BY DEF Remove, TypeOK
<1>2. removed'[s] /\ \A r \in Sub : r # s => removed'[r] = removed[r]
  BY <1>1, ExceptSeq DEF Sub
<1>3. sub[s].register \in Known
  BY SubType
<1>4. CASE sub[s].register = NoRegister
  <2>1. catchAll' = Without(catchAll, s) /\ subscriptions' = subscriptions
    BY <1>4 DEF Remove
  <2>2. /\ \A p \in Positions(catchAll') : \E q \in Positions(catchAll) : catchAll'[p] = catchAll[q]
        /\ \A q \in Positions(catchAll) :
              catchAll[q] # s => \E p \in Positions(catchAll') : catchAll'[p] = catchAll[q]
    <3>1. catchAll \in Seq(Nat)
      BY DEF TypeOK
    <3>. QED BY <2>1, <3>1, WithoutList
  <2>3. \A r \in Sub' : ~removed'[r] => Listed(r)'
    <3>. SUFFICES ASSUME NEW r \in Sub, r # s, Listed(r) PROVE Listed(r)'
      BY <1>1, <1>2 DEF ListsRight, Sub
    <3>. QED BY <2>1, <2>2 DEF Listed, Positions
  <2>. QED BY <1>1, <2>1, <2>2, <2>3 DEF ListsRight, Sub
<1>5. CASE sub[s].register # NoRegister
  <2>. DEFINE a == AddressOf[sub[s].register]
  <2>1. a \in Address
    BY <1>3, <1>5, RegisterAssumption DEF Known
  <2>2. /\ subscriptions' = [subscriptions EXCEPT ![a] = Without(subscriptions[a], s)]
        /\ catchAll' = catchAll /\ subscriptions \in [Address -> Seq(Nat)]
    BY <1>5 DEF Remove, TypeOK
  <2>. HIDE DEF a
  <2>3. /\ \A b \in Address : b # a => subscriptions'[b] = subscriptions[b]
        /\ subscriptions'[a] = Without(subscriptions[a], s)
    BY <2>1, <2>2
  <2>4. /\ \A p \in Positions(subscriptions'[a]) :
              \E q \in Positions(subscriptions[a]) : subscriptions'[a][p] = subscriptions[a][q]
        /\ \A q \in Positions(subscriptions[a]) : subscriptions[a][q] # s =>
              \E p \in Positions(subscriptions'[a]) : subscriptions'[a][p] = subscriptions[a][q]
    <3>. DEFINE list == subscriptions[a]
    <3>1. list \in Seq(Nat) /\ subscriptions'[a] = Without(list, s)
      BY <2>1, <2>2, <2>3
    <3>. HIDE DEF list
    <3>2. /\ \A p \in Positions(subscriptions'[a]) :
                \E q \in Positions(list) : subscriptions'[a][p] = list[q]
          /\ \A q \in Positions(list) : list[q] # s =>
                \E p \in Positions(subscriptions'[a]) : subscriptions'[a][p] = list[q]
      BY <3>1, WithoutList
    <3>. QED BY <3>2 DEF list
  <2>5. \A b \in Address :
           /\ \A p \in Positions(subscriptions'[b]) :
                 \E q \in Positions(subscriptions[b]) : subscriptions'[b][p] = subscriptions[b][q]
           /\ \A q \in Positions(subscriptions[b]) : subscriptions[b][q] # s =>
                 \E p \in Positions(subscriptions'[b]) : subscriptions'[b][p] = subscriptions[b][q]
    BY <2>3, <2>4
  <2>6. \A r \in Sub' : ~removed'[r] => Listed(r)'
    <3>. SUFFICES ASSUME NEW r \in Sub, r # s, Listed(r) PROVE Listed(r)'
      BY <1>1, <1>2 DEF ListsRight, Sub
    <3>1. ASSUME NEW b \in Address, NEW q \in Positions(subscriptions[b]), subscriptions[b][q] = r
          PROVE  Listed(r)'
      <4>1. \E p \in Positions(subscriptions'[b]) : subscriptions'[b][p] = r
        BY <2>5, <3>1
      <4>. QED BY <4>1 DEF Listed, Positions
    <3>2. CASE \E p \in Positions(catchAll) : catchAll[p] = r
      BY <2>2, <3>2 DEF Listed, Positions
    <3>. QED BY <3>1, <3>2 DEF Listed, Positions
  <2>7. \A b \in Address : \A p \in Positions(subscriptions'[b]) :
           LET r == subscriptions'[b][p] IN
           r \in Sub /\ sub[r].register # NoRegister /\ AddressOf[sub[r].register] = b
    BY <2>5 DEF ListsRight
  <2>8. \A p \in Positions(catchAll') :
           catchAll'[p] \in Sub' /\ sub'[catchAll'[p]].register = NoRegister
    BY <1>1, <2>2 DEF ListsRight, Sub
  <2>9. ListsRight'
    BY <1>1, <2>6, <2>7, <2>8 DEF ListsRight, Sub
  <2>. QED BY <2>2, <2>5, <2>9
<1>. QED BY <1>4, <1>5

LEMMA ListsNext == TypeOK /\ ListsRight /\ [Next]_vars => ListsRight'
<1>. SUFFICES ASSUME TypeOK, ListsRight, [Next]_vars PROVE ListsRight'
  OBVIOUS
<1>1. CASE User
  BY <1>1, SubscribeLists, SubscribeAllLists, RemoveLists, ListsSame DEF User, Deactivate
<1>2. CASE Open \/ PutStop \/ \E m \in Traffic : Emit(m)
  BY <1>2, ListsSame DEF Open, PutStop, Emit, subVars
<1>3. CASE Clear
  BY <1>3 DEF Clear, ListsRight, Positions, Sub
<1>4. CASE \E t \in Thread : EventLoop(t) \/ Handler(t)
  BY <1>4, ListsSame
     DEF EventLoop, Handler, Get, Snapshot, BeginCall, Delivered, HandlerReturns,
         HandlerRaises, subVars
<1>5. CASE UNCHANGED vars
  BY <1>5, ListsSame DEF vars, subVars
<1>. QED BY <1>1, <1>2, <1>3, <1>4, <1>5 DEF Next

-----------------------------------------------------------------------------
(* The calls to come and those begun                                       *)

(* Subscriptions and messages are never forgotten or changed.              *)
LEMMA Forward ==
    ASSUME TypeOK, [Next]_vars
    PROVE  /\ \A s \in Sub : /\ s \in Sub' /\ sub'[s] = sub[s] /\ since'[s] = since[s]
                             /\ removed[s] => removed'[s]
           /\ \A i \in 1..Len(stream) : i \in 1..Len(stream') /\ stream'[i] = stream[i]
<1>. DEFINE Subs == \A s \in Sub : /\ s \in Sub' /\ sub'[s] = sub[s] /\ since'[s] = since[s]
                                   /\ removed[s] => removed'[s]
            Messages == \A i \in 1..Len(stream) : i \in 1..Len(stream') /\ stream'[i] = stream[i]
<1>. SUFFICES Subs /\ Messages
  OBVIOUS
<1>1. ASSUME UNCHANGED <<sub, removed, since>> PROVE Subs
  BY <1>1 DEF Sub
<1>2. ASSUME UNCHANGED stream PROVE Messages
  BY <1>2
<1>3. ASSUME NEW register \in Known, NEW types \in Filter, Create(register, types) PROVE Subs
  BY <1>3, OneMore
<1>4. CASE User
  <2>1. ASSUME NEW s \in Sub, Remove(s) PROVE Subs
    <3>1. removed' = [removed EXCEPT ![s] = TRUE] /\ removed \in Seq(BOOLEAN)
          /\ Len(removed) = Len(sub) /\ UNCHANGED <<sub, since>>
      BY <2>1 DEF Remove, TypeOK
    <3>2. removed'[s] /\ \A r \in Sub : r # s => removed'[r] = removed[r]
      BY <3>1, ExceptSeq DEF Sub
    <3>. QED BY <3>1, <3>2 DEF Sub
  <2>2. UNCHANGED stream
    BY <1>4 DEF User, SubscribeAll, Subscribe, Remove, Deactivate
  <2>3. ASSUME NEW s \in Sub, Deactivate(s) PROVE Subs
    BY <1>1, <2>3 DEF Deactivate
  <2>4. ASSUME NEW types \in Filter, SubscribeAll(types) PROVE Subs
    BY <1>3, <2>4 DEF SubscribeAll, Known
  <2>5. ASSUME NEW types \in Filter, NEW register \in Register, Subscribe(register, types) PROVE Subs
    BY <1>3, <2>5 DEF Subscribe, Known
  <2>. HIDE DEF Subs, Messages
  <2>. QED BY <1>2, <1>4, <2>1, <2>2, <2>3, <2>4, <2>5 DEF User
<1>5. CASE Open \/ PutStop
  BY <1>1, <1>2, <1>5 DEF Open, PutStop, subVars
<1>6. ASSUME NEW m \in Traffic, Emit(m) PROVE Subs /\ Messages
  <2>1. Subs
    BY <1>1, <1>6 DEF Emit, subVars
  <2>2. Messages
    BY <1>6, EmitQueues
  <2>. QED BY <2>1, <2>2
<1>7. CASE Clear
  BY <1>7 DEF Clear, Sub
<1>8. CASE \E t \in Thread : EventLoop(t) \/ Handler(t)
  BY <1>1, <1>2, <1>8
     DEF EventLoop, Handler, Get, Snapshot, BeginCall, Delivered, HandlerReturns,
         HandlerRaises, subVars
<1>9. CASE UNCHANGED vars
  BY <1>1, <1>2, <1>9 DEF vars, subVars
<1>. HIDE DEF Subs, Messages
<1>. QED BY <1>4, <1>5, <1>6, <1>7, <1>8, <1>9 DEF Next

(* Outside the critical section of _deliver_event no call is added, and a  *)
(* handler is called only from the calls to come.                          *)
LEMMA CallsShrink ==
    ASSUME TypeOK, [Next]_vars, ~\E t \in Thread : Snapshot(t)
    PROVE  /\ \A t \in Thread :
                 /\ Calling(t)' => Calling(t) /\ current'[t] = current[t]
                 /\ \A p \in Positions(todo'[t]) : \E q \in Positions(todo[t]) : todo'[t][p] = todo[t][q]
           /\ \A p \in Positions(log') :
                 \/ p \in Positions(log) /\ log'[p] = log[p]
                 \/ \E t \in Thread : \E q \in Positions(todo[t]) :
                       Calling(t) /\ Due(t, q) /\ log'[p] = LogOf(t, todo[t][q])
<1>. DEFINE Threads == \A t \in Thread :
                 /\ Calling(t)' => Calling(t) /\ current'[t] = current[t]
                 /\ \A p \in Positions(todo'[t]) : \E q \in Positions(todo[t]) : todo'[t][p] = todo[t][q]
            Begun == \A p \in Positions(log') :
                 \/ p \in Positions(log) /\ log'[p] = log[p]
                 \/ \E t \in Thread : \E q \in Positions(todo[t]) :
                       Calling(t) /\ Due(t, q) /\ log'[p] = LogOf(t, todo[t][q])
<1>. SUFFICES Threads /\ Begun
  OBVIOUS
<1>1. ASSUME UNCHANGED threadVars PROVE Threads /\ Begun
  BY <1>1 DEF threadVars, Calling, Positions
<1>2. ASSUME UNCHANGED log PROVE Begun
  BY <1>2 DEF Positions
<1>3. CASE User \/ PutStop \/ Clear \/ \E m \in Traffic : Emit(m)
  <2>1. UNCHANGED threadVars
    BY <1>3 DEF User, SubscribeAll, Subscribe, Remove, Deactivate, PutStop, Clear, Emit
  <2>. QED BY <1>1, <2>1
<1>4. CASE Open
  <2>1. /\ epc' = [epc EXCEPT ![opens'] = "get"] /\ epc \in [Thread -> Place]
        /\ UNCHANGED <<current, todo, log>>
    BY <1>4 DEF Open, TypeOK
  <2>. QED BY <1>2, <2>1 DEF Calling, Positions
<1>5. ASSUME NEW t \in Thread, Get(t) \/ Delivered(t) PROVE Threads /\ Begun
  <2>1. /\ epc' = [epc EXCEPT ![t] = epc'[t]] /\ epc'[t] \notin {"calls", "handler"}
        /\ epc \in [Thread -> Place] /\ log' = log
    BY <1>5 DEF Get, Delivered, TypeOK
  <2>2. \A u \in Thread : /\ u # t => current'[u] = current[u] /\ todo'[u] = todo[u]
                          /\ todo'[u] \in {todo[u], <<>>}
    BY <1>5 DEF Get, Delivered, TypeOK
  <2>. QED BY <1>2, <2>1, <2>2 DEF Calling, Positions
<1>6. ASSUME NEW t \in Thread, BeginCall(t) PROVE Threads /\ Begun
  <2>1. /\ epc[t] = "calls" /\ epc' = [epc EXCEPT ![t] = "handler"] /\ current' = current
        /\ epc \in [Thread -> Place]
    BY <1>6 DEF BeginCall, TypeOK
  <2>2. PICK p \in Positions(todo[t]) :
             /\ Due(t, p) /\ Len(todo[t]) \in Nat
             /\ Len(todo'[t]) = Len(todo[t]) - p + 1
             /\ \A q \in 1..Len(todo'[t]) : todo'[t][q] = todo[t][q + p - 1]
             /\ \A u \in Thread : u # t => todo'[u] = todo[u]
             /\ Len(log) \in Nat /\ Len(log') = Len(log) + 1
             /\ \A i \in Positions(log) : log'[i] = log[i]
             /\ log'[Len(log) + 1] = LogOf(t, todo[t][p])
    BY <1>6, BeginCalls
  <2>3. \A q \in Positions(todo'[t]) : q + p - 1 \in Positions(todo[t])
    BY <2>2 DEF Positions
  <2>4. Threads
    <3>1. ASSUME NEW u \in Thread PROVE (Calling(u)' => Calling(u)) /\ current'[u] = current[u]
      BY <2>1 DEF Calling
    <3>2. \A p_1 \in Positions(todo'[t]) :
              p_1 + p - 1 \in Positions(todo[t]) /\ todo'[t][p_1] = todo[t][p_1 + p - 1]
      BY <2>2, <2>3 DEF Positions
    <3>3. ASSUME NEW u \in Thread, NEW p_1 \in Positions(todo'[u])
          PROVE  \E q \in Positions(todo[u]) : todo'[u][p_1] = todo[u][q]
      <4>1. CASE u = t
        BY <3>2, <3>3, <4>1
      <4>2. CASE u # t
        BY <2>2, <3>3, <4>2
      <4>. QED BY <4>1, <4>2
    <3>. QED BY <3>1, <3>3
  <2>5. Calling(t)
    BY <2>1 DEF Calling
  <2>6. \A i \in Positions(log') : i \in Positions(log) \/ i = Len(log) + 1
    BY <2>2 DEF Positions
  <2>7. Begun
    BY <2>2, <2>5, <2>6
  <2>. QED BY <2>4, <2>7
<1>7. ASSUME NEW t \in Thread, Handler(t) PROVE Threads /\ Begun
  <2>1. /\ epc[t] = "handler" /\ epc' = [epc EXCEPT ![t] = "calls"] /\ epc \in [Thread -> Place]
        /\ Len(todo[t]) \in Nat /\ Len(todo'[t]) = Len(todo[t]) - 1
        /\ \A q \in 1..Len(todo'[t]) : todo'[t][q] = todo[t][q + 1]
        /\ \A u \in Thread : u # t => todo'[u] = todo[u]
        /\ UNCHANGED <<current, log>>
    BY <1>7, HandlerEnds DEF TypeOK
  <2>2. \A q \in Positions(todo'[t]) : q + 1 \in Positions(todo[t])
    BY <2>1 DEF Positions
  <2>. QED BY <1>2, <2>1, <2>2, SMTT(40) DEF Calling, Positions
<1>8. CASE UNCHANGED vars
  BY <1>1, <1>8 DEF vars
<1>. HIDE DEF Threads, Begun
<1>. QED BY <1>3, <1>4, <1>5, <1>6, <1>7, <1>8 DEF Next, EventLoop

(* What is copied is listed, and the register class that decodes the       *)
(* message is one of its address.                                          *)
LEMMA Copied ==
    ASSUME TypeOK, RegistersMatch, ListsRight, NEW t \in Thread, Snapshot(t)
    PROVE  LET m == stream[current[t]].msg IN
           /\ m \in Message /\ current[t] \in 1..Len(stream)
           /\ epc[t] = "snapshot" /\ epc' = [epc EXCEPT ![t] = "calls"]
           /\ todo'[t] = CallsFor(m) /\ \A u \in Thread : u # t => todo'[u] = todo[u]
           /\ UNCHANGED <<subVars, stream, queue, life, opens, current, log>>
           /\ \A p \in Positions(todo'[t]) : Suits(todo'[t][p], m) /\ Listed(todo'[t][p].sub)
<1>. DEFINE m == stream[current[t]].msg
            a == m.address
            typed == IF registers[a] \in m.fits THEN subscriptions[a] ELSE <<>>
            n == Len(typed)
<1>1. /\ epc[t] = "snapshot" /\ epc' = [epc EXCEPT ![t] = "calls"]
      /\ todo' = [todo EXCEPT ![t] = CallsFor(m)]
      /\ UNCHANGED <<subVars, stream, queue, life, opens, current, log>>
  BY DEF Snapshot
<1>2. current[t] \in 1..Len(stream)
  BY <1>1 DEF TypeOK, Delivering
<1>3. m \in Message
  BY <1>2, DeliveredMessage
<1>4. todo'[t] = CallsFor(m) /\ \A u \in Thread : u # t => todo'[u] = todo[u]
  BY <1>1 DEF TypeOK
<1>. HIDE DEF m
<1>5. /\ n \in Nat /\ Len(catchAll) \in Nat
      /\ Len(CallsFor(m)) = n + Len(catchAll)
      /\ \A p \in 1..n : CallsFor(m)[p] = CallOf(typed[p], registers[a])
      /\ \A p \in (n + 1)..(n + Len(catchAll)) :
            CallsFor(m)[p] = CallOf(catchAll[p - n], NoRegister)
  BY <1>3, SnapshotTypes
<1>6. a \in Address /\ m.fits \subseteq Register
  BY <1>3 DEF Message
<1>7. ASSUME NEW p \in 1..n
      PROVE  Suits(CallsFor(m)[p], m) /\ Listed(CallsFor(m)[p].sub)
  <2>1. typed = subscriptions[a] /\ registers[a] \in m.fits /\ registers[a] # NoRegister
    BY <1>6, <1>7, RegisterAssumption
  <2>2. CallsFor(m)[p].sub = subscriptions[a][p] /\ CallsFor(m)[p].form = registers[a]
    <3>. HIDE DEF n, typed
    <3>1. CallsFor(m)[p] = CallOf(typed[p], registers[a])
      BY <1>5, <1>7
    <3>. QED BY <2>1, <3>1 DEF CallOf
  <2>3. /\ subscriptions[a][p] \in Sub /\ sub[subscriptions[a][p]].register # NoRegister
        /\ AddressOf[sub[subscriptions[a][p]].register] = a
    BY <1>6, <2>1, <1>7 DEF ListsRight, Positions
  <2>4. AddressOf[registers[a]] = a
    BY <1>6, <2>1 DEF RegistersMatch
  <2>5. Listed(subscriptions[a][p])
    BY <1>6, <1>7, <2>1 DEF Listed
  <2>. QED BY <2>1, <2>2, <2>3, <2>4, <2>5 DEF Suits
<1>8. ASSUME NEW p \in (n + 1)..(n + Len(catchAll))
      PROVE  Suits(CallsFor(m)[p], m) /\ Listed(CallsFor(m)[p].sub)
  <2>1. p - n \in 1..Len(catchAll)
    BY <1>5, <1>8
  <2>2. CallsFor(m)[p].sub = catchAll[p - n] /\ CallsFor(m)[p].form = NoRegister
    <3>. HIDE DEF n
    <3>1. CallsFor(m)[p] = CallOf(catchAll[p - n], NoRegister)
      BY <1>5, <1>8
    <3>. QED BY <3>1 DEF CallOf
  <2>3. catchAll[p - n] \in Sub /\ sub[catchAll[p - n]].register = NoRegister
    BY <2>1 DEF ListsRight, Positions
  <2>4. Listed(catchAll[p - n])
    BY <2>1 DEF Listed
  <2>. QED BY <2>2, <2>3, <2>4 DEF Suits
<1>. HIDE DEF n
<1>9. \A p \in Positions(todo'[t]) : p \in 1..n \/ p \in (n + 1)..(n + Len(catchAll))
  BY <1>4, <1>5 DEF Positions
<1>10. \A p \in Positions(todo'[t]) : Suits(todo'[t][p], m) /\ Listed(todo'[t][p].sub)
  BY <1>4, <1>7, <1>8, <1>9
<1>. QED BY <1>1, <1>2, <1>3, <1>4, <1>10 DEF m

LEMMA CallsInit == Init => CallsSuit
BY DEF Init, CallsSuit, Calling, Positions

LEMMA CallsNext ==
    ASSUME TypeOK, RegistersMatch, ListsRight, CallsSuit, [Next]_vars
    PROVE  CallsSuit'
<1>. DEFINE Fit(call, m) ==
        /\ call.sub \in Sub'
        /\ call.form = NoRegister <=> sub'[call.sub].register = NoRegister
        /\ call.form # NoRegister =>
              /\ AddressOf[call.form] = m.address /\ AddressOf[sub'[call.sub].register] = m.address
              /\ call.form \in m.fits
<1>1. ASSUME NEW call, NEW m, Suits(call, m) PROVE Fit(call, m)
  BY <1>1, Forward DEF Suits
<1>2. \A i \in 1..Len(stream) : i \in 1..Len(stream') /\ stream'[i] = stream[i]
  BY Forward
<1>3. \A t \in Thread : Calling(t) => current[t] \in 1..Len(stream)
  BY DEF TypeOK, Calling, Delivering
<1>4. \A t \in Thread : Calling(t) =>
         \A p \in Positions(todo[t]) : Suits(todo[t][p], stream[current[t]].msg)
  BY DEF CallsSuit
<1>5. \A p \in Positions(log) :
         /\ log[p].at \in 1..Len(stream') /\ Fit(log[p], stream'[log[p].at].msg)
         /\ stream'[log[p].at].msg.type \in sub'[log[p].sub].types
  <2>. TAKE p \in Positions(log)
  <2>1. /\ log[p].at \in 1..Len(stream) /\ Suits(log[p], stream[log[p].at].msg)
        /\ stream[log[p].at].msg.type \in sub[log[p].sub].types
    BY DEF CallsSuit
  <2>2. log[p].sub \in Sub
    BY <2>1 DEF Suits
  <2>3. sub'[log[p].sub] = sub[log[p].sub]
    BY <2>2, Forward
  <2>. HIDE DEF Fit
  <2>. QED BY <1>1, <1>2, <2>1, <2>3
<1>6. ASSUME NEW t \in Thread, NEW q \in Positions(todo[t]), Calling(t), Due(t, q),
             NEW entry, entry = LogOf(t, todo[t][q])
      PROVE  /\ entry.at \in 1..Len(stream') /\ Fit(entry, stream'[entry.at].msg)
             /\ stream'[entry.at].msg.type \in sub'[entry.sub].types
  <2>1. entry.at = current[t] /\ entry.sub = todo[t][q].sub /\ entry.form = todo[t][q].form
    BY <1>6 DEF LogOf
  <2>2. Suits(todo[t][q], stream[current[t]].msg) /\ current[t] \in 1..Len(stream)
    BY <1>3, <1>4, <1>6
  <2>3. todo[t][q].sub \in Sub
    BY <2>2 DEF Suits
  <2>4. stream[current[t]].msg.type \in sub[todo[t][q].sub].types
    BY <1>6 DEF Due
  <2>5. Fit(todo[t][q], stream[current[t]].msg)
    BY <1>1, <2>2
  <2>6. sub'[todo[t][q].sub] = sub[todo[t][q].sub]
    BY <2>3, Forward
  <2>7. Fit(entry, stream[current[t]].msg)
    BY <2>1, <2>5
  <2>. HIDE DEF Fit
  <2>. QED BY <1>2, <2>1, <2>2, <2>4, <2>6, <2>7
<1>7. CASE ~\E t \in Thread : Snapshot(t)
  <2>1. ASSUME NEW t \in Thread, Calling(t)', NEW p \in Positions(todo'[t])
        PROVE  Fit(todo'[t][p], stream'[current'[t]].msg)
    <3>1. PICK q \in Positions(todo[t]) : todo'[t][p] = todo[t][q]
      BY <1>7, <2>1, CallsShrink
    <3>2. Calling(t) /\ current'[t] = current[t]
      BY <1>7, <2>1, CallsShrink
    <3>. HIDE DEF Fit
    <3>. QED BY <1>1, <1>2, <1>3, <1>4, <3>1, <3>2
  <2>2. ASSUME NEW p \in Positions(log')
        PROVE  /\ log'[p].at \in 1..Len(stream') /\ Fit(log'[p], stream'[log'[p].at].msg)
               /\ stream'[log'[p].at].msg.type \in sub'[log'[p].sub].types
    <3>1. \/ p \in Positions(log) /\ log'[p] = log[p]
          \/ \E t \in Thread : \E q \in Positions(todo[t]) :
                Calling(t) /\ Due(t, q) /\ log'[p] = LogOf(t, todo[t][q])
      BY <1>7, <2>2, CallsShrink
    <3>. HIDE DEF Fit
    <3>. QED BY <1>5, <1>6, <3>1
  <2>. QED BY <2>1, <2>2 DEF CallsSuit, Suits
<1>8. ASSUME NEW t \in Thread, Snapshot(t) PROVE CallsSuit'
  <2>. DEFINE m == stream[current[t]].msg
  <2>1. /\ epc' = [epc EXCEPT ![t] = "calls"] /\ epc \in [Thread -> Place]
        /\ \A u \in Thread : u # t => todo'[u] = todo[u]
        /\ UNCHANGED <<subVars, stream, current, log>>
        /\ \A p \in Positions(todo'[t]) : Suits(todo'[t][p], m)
    <3>1. epc \in [Thread -> Place]
      BY DEF TypeOK
    <3>. QED BY <1>8, <3>1, Copied
  <2>2. \A u \in Thread : Calling(u)' => u = t \/ Calling(u)
    BY <2>1 DEF Calling
  <2>3. ASSUME NEW u \in Thread, Calling(u)', NEW p \in Positions(todo'[u])
        PROVE  Fit(todo'[u][p], stream'[current'[u]].msg)
    <3>1. Suits(todo'[u][p], stream[current[u]].msg)
      BY <1>4, <2>1, <2>2, <2>3
    <3>. HIDE DEF Fit
    <3>. QED BY <1>1, <2>1, <3>1
  <2>. QED BY <1>5, <2>1, <2>3 DEF CallsSuit, Suits
<1>. QED BY <1>7, <1>8

-----------------------------------------------------------------------------
(* Unsubscribing                                                           *)

(* Nothing but a new subscription gets into a list.                        *)
LEMMA ListedStays ==
    ASSUME TypeOK, ListsRight, [Next]_vars, NEW s \in Sub, Listed(s)'
    PROVE  Listed(s)
<1>1. ASSUME UNCHANGED <<subscriptions, catchAll>> PROVE Listed(s)
  BY <1>1 DEF Listed
<1>2. ASSUME NEW r \in Sub, Remove(r) PROVE Listed(s)
  <2>1. /\ \A a \in Address : \A p \in Positions(subscriptions'[a]) :
              \E q \in Positions(subscriptions[a]) : subscriptions'[a][p] = subscriptions[a][q]
        /\ \A p \in Positions(catchAll') : \E q \in Positions(catchAll) : catchAll'[p] = catchAll[q]
    BY <1>2, RemoveLists
  <2>. QED BY <2>1 DEF Listed, Positions
<1>3. ASSUME NEW types \in Filter, NEW register \in Register, Subscribe(register, types)
      PROVE  Listed(s)
  <2>. DEFINE a == AddressOf[register]
              n == Len(sub) + 1
  <2>1. n \in Nat /\ n # s /\ a \in Address
    <3>1. Len(sub) \in Nat
      BY DEF TypeOK
    <3>. QED BY <3>1, RegisterAssumption DEF Sub
  <2>2. /\ subscriptions' = [subscriptions EXCEPT ![a] = Append(subscriptions[a], n)]
        /\ catchAll' = catchAll /\ subscriptions \in [Address -> Seq(Nat)]
    BY <1>3 DEF Subscribe, TypeOK
  <2>3. /\ Positions(Append(subscriptions[a], n)) = Positions(subscriptions[a]) \cup {Len(subscriptions[a]) + 1}
        /\ \A p \in Positions(subscriptions[a]) : Append(subscriptions[a], n)[p] = subscriptions[a][p]
        /\ Append(subscriptions[a], n)[Len(subscriptions[a]) + 1] = n
    BY <2>1, <2>2, AppendToList
  <2>. HIDE DEF n
  <2>. QED BY <2>1, <2>2, <2>3 DEF Listed, Positions
<1>4. ASSUME NEW types \in Filter, SubscribeAll(types) PROVE Listed(s)
  <2>. DEFINE n == Len(sub) + 1
  <2>1. n \in Nat /\ n # s /\ catchAll \in Seq(Nat)
    BY DEF TypeOK, Sub
  <2>2. catchAll' = Append(catchAll, n) /\ subscriptions' = subscriptions
    BY <1>4 DEF SubscribeAll
  <2>3. /\ Positions(catchAll') = Positions(catchAll) \cup {Len(catchAll) + 1}
        /\ \A p \in Positions(catchAll) : catchAll'[p] = catchAll[p]
        /\ catchAll'[Len(catchAll) + 1] = n
    BY <2>1, <2>2, AppendToList
  <2>. HIDE DEF n
  <2>. QED BY <2>1, <2>2, <2>3 DEF Listed, Positions
<1>5. CASE User
  BY <1>1, <1>2, <1>3, <1>4, <1>5 DEF User, Deactivate
<1>6. CASE Clear
  BY <1>6 DEF Clear, Listed
<1>7. CASE Open \/ PutStop \/ (\E m \in Traffic : Emit(m)) \/ UNCHANGED vars
  BY <1>1, <1>7 DEF Open, PutStop, Emit, subVars, vars
<1>8. CASE \E t \in Thread : EventLoop(t) \/ Handler(t)
  BY <1>1, <1>8
     DEF EventLoop, Handler, Get, Snapshot, BeginCall, Delivered, HandlerReturns,
         HandlerRaises, subVars
<1>. QED BY <1>5, <1>6, <1>7, <1>8 DEF Next

(* A call begun is never taken back.                                       *)
LEMMA LogGrows ==
    ASSUME TypeOK, [Next]_vars
    PROVE  \A p \in Positions(log) : p \in Positions(log') /\ log'[p] = log[p]
<1>1. ASSUME UNCHANGED log PROVE \A p \in Positions(log) : p \in Positions(log') /\ log'[p] = log[p]
  BY <1>1
<1>2. ASSUME NEW t \in Thread, BeginCall(t)
      PROVE  \A p \in Positions(log) : p \in Positions(log') /\ log'[p] = log[p]
  <2>1. Len(log) \in Nat /\ Len(log') = Len(log) + 1 /\ \A p \in Positions(log) : log'[p] = log[p]
    BY <1>2, BeginCalls
  <2>. QED BY <2>1 DEF Positions
<1>3. \/ UNCHANGED log
      \/ \E t \in Thread : BeginCall(t)
  BY DEF Next, User, SubscribeAll, Subscribe, Remove, Deactivate, Open, PutStop, Clear, Emit,
         EventLoop, Handler, Get, Snapshot, Delivered, HandlerReturns, HandlerRaises, vars, threadVars
<1>. QED BY <1>1, <1>2, <1>3

LEMMA GotGrows ==
    ASSUME TypeOK, [Next]_vars, NEW s
    PROVE  Got(s) \subseteq Got(s)'
BY LogGrows DEF Got, Positions

LEMMA GoneNext ==
    ASSUME TypeOK, RegistersMatch, ListsRight, [Next]_vars, NEW s \in Sub, Gone(s)
    PROVE  Gone(s)' /\ Got(s)' = Got(s)
<1>1. ~Listed(s) /\ ~Listed(s)'
  BY ListedStays DEF Gone
<1>2. \A t \in Thread : \A p \in Positions(todo[t]) : todo[t][p].sub # s
  BY DEF Gone, Positions
<1>3. CASE ~\E t \in Thread : Snapshot(t)
  <2>1. \A t \in Thread : \A p \in Positions(todo'[t]) : todo'[t][p].sub # s
    BY <1>2, <1>3, CallsShrink
  <2>2. \A p \in Positions(log') : \/ p \in Positions(log) /\ log'[p] = log[p]
                                   \/ log'[p].sub # s
    <3>1. \A i, call : LogOf(i, call).sub = call.sub
      BY DEF LogOf
    <3>. QED BY <1>2, <1>3, <3>1, CallsShrink
  <2>3. Got(s)' \subseteq Got(s)
    BY <2>2 DEF Got, Positions
  <2>. QED BY <1>1, <2>1, <2>3, GotGrows DEF Gone, Positions
<1>4. ASSUME NEW t \in Thread, Snapshot(t) PROVE Gone(s)' /\ Got(s)' = Got(s)
  <2>1. /\ \A u \in Thread : u # t => todo'[u] = todo[u]
        /\ UNCHANGED <<subVars, log>>
        /\ \A p \in Positions(todo'[t]) : Listed(todo'[t][p].sub)
    BY <1>4, Copied
  <2>2. \A u \in Thread : \A p \in Positions(todo'[u]) : todo'[u][p].sub # s
    BY <1>1, <1>2, <2>1
  <2>. QED BY <1>1, <2>1, <2>2 DEF Gone, Positions, Got
<1>. QED BY <1>3, <1>4

(* Whatever other threads subscribe, unsubscribe, open and close: once a   *)
(* subscription is in no list and in no delivery under way, its handler is *)
(* never called again (unsubscribe, _remove_subscription, close).          *)
THEOREM UnsubscribedForGood == Spec => GoneForGood
<1>. DEFINE Inv == TypeOK /\ RegistersInv /\ ListsRight
            Keeps == \A s \in Sub : Gone(s) => Gone(s)' /\ Got(s)' = Got(s)
<1>1. Init => Inv
  BY TypeInit, InitRegisters, ListsInit
<1>2. Inv /\ [Next]_vars => Inv'
  BY TypeNext, StepRegisters, ListsNext
<1>3. Inv /\ [Next]_vars => [Keeps]_vars
  BY GoneNext DEF RegistersInv
<1>. HIDE DEF Inv
<1>4. Spec => [][Keeps]_vars
  BY <1>1, <1>2, <1>3, PTL DEF Spec
<1>. QED BY <1>4 DEF GoneForGood

-----------------------------------------------------------------------------
(* Complete delivery                                                       *)

(* What is copied for a message includes every subscription that wants it. *)
LEMMA CopiedAll ==
    ASSUME OneClassPerAddress, TypeOK, RegistersMatch, ListsRight,
           NEW t \in Thread, Snapshot(t),
           NEW s \in Sub, ~removed[s], current[t] \in Wanted(s)
    PROVE  \E p \in Positions(todo'[t]) : todo'[t][p].sub = s
<1>. DEFINE m == stream[current[t]].msg
            a == m.address
            typed == IF registers[a] \in m.fits THEN subscriptions[a] ELSE <<>>
            n == Len(typed)
<1>1. m \in Message /\ todo'[t] = CallsFor(m)
  BY Copied
<1>2. /\ sub[s].register # NoRegister =>
            a = AddressOf[sub[s].register] /\ sub[s].register \in m.fits
  BY DEF Wanted
<1>. HIDE DEF m
<1>3. /\ n \in Nat /\ Len(catchAll) \in Nat
      /\ Len(CallsFor(m)) = n + Len(catchAll)
      /\ \A p \in 1..n : CallsFor(m)[p] = CallOf(typed[p], registers[a])
      /\ \A p \in (n + 1)..(n + Len(catchAll)) :
            CallsFor(m)[p] = CallOf(catchAll[p - n], NoRegister)
  BY <1>1, SnapshotTypes
<1>4. a \in Address /\ registers[a] \in Known /\ sub[s].register \in Known
  BY <1>1, SubType DEF Message, TypeOK
<1>5. Listed(s)
  BY DEF ListsRight
<1>6. CASE sub[s].register = NoRegister
  <2>1. PICK p \in Positions(catchAll) : catchAll[p] = s
    BY <1>5, <1>6, WhereListed
  <2>. HIDE DEF n
  <2>2. n + p \in (n + 1)..(n + Len(catchAll)) /\ (n + p) - n = p /\ n + p \in 1..Len(CallsFor(m))
    BY <1>3 DEF Positions
  <2>3. CallsFor(m)[n + p] = CallOf(s, NoRegister)
    BY <1>3, <2>1, <2>2
  <2>. QED BY <1>1, <2>2, <2>3 DEF Positions, CallOf
<1>7. CASE sub[s].register # NoRegister
  <2>1. PICK p \in Positions(subscriptions[a]) : subscriptions[a][p] = s
    BY <1>2, <1>5, <1>7, WhereListed
  <2>2. registers[a] # NoRegister /\ AddressOf[registers[a]] = a
    <3>1. subscriptions[a] # <<>>
      BY <2>1 DEF Positions
    <3>. QED BY <1>4, <3>1 DEF RegistersMatch
  <2>3. registers[a] = sub[s].register
    BY <1>2, <1>4, <1>7, <2>2 DEF OneClassPerAddress, Known
  <2>4. typed = subscriptions[a]
    BY <1>2, <1>7, <2>3
  <2>. HIDE DEF typed
  <2>5. p \in 1..n /\ p \in 1..Len(CallsFor(m))
    BY <1>3, <2>1, <2>4 DEF Positions
  <2>6. CallsFor(m)[p] = CallOf(s, registers[a])
    BY <1>3, <2>1, <2>4, <2>5
  <2>. QED BY <1>1, <2>5, <2>6 DEF Positions, CallOf
<1>. QED BY <1>6, <1>7

(* A call made makes its subscription have the message.                    *)
LEMMA BeginGot ==
    ASSUME TypeOK, NEW t \in Thread, BeginCall(t)
    PROVE  current[t] \in Got(todo[t][1].sub)'
<1>1. PICK p \in Positions(todo[t]) :
             /\ Len(todo[t]) \in Nat
             /\ Len(todo'[t]) = Len(todo[t]) - p + 1
             /\ \A q \in 1..Len(todo'[t]) : todo'[t][q] = todo[t][q + p - 1]
             /\ Len(log) \in Nat /\ Len(log') = Len(log) + 1
             /\ log'[Len(log) + 1] = LogOf(t, todo[t][p])
  BY BeginCalls
<1>2. 1 \in 1..Len(todo'[t]) /\ 1 + p - 1 = p
  BY <1>1 DEF Positions
<1>3. todo'[t][1] = todo[t][p]
  BY <1>1, <1>2
<1>4. Len(log) + 1 \in 1..Len(log')
  BY <1>1
<1>5. log'[Len(log) + 1].sub = todo'[t][1].sub /\ log'[Len(log) + 1].at = current[t]
  BY <1>1, <1>3 DEF LogOf
<1>. DEFINE s == todo'[t][1].sub
            n == Len(log) + 1
<1>6. n \in {q \in 1..Len(log') : log'[q].sub = s} /\ log'[n].at = current[t]
  BY <1>4, <1>5
<1>7. current[t] \in {log'[i].at : i \in {q \in 1..Len(log') : log'[q].sub = s}}
  BY <1>6
<1>. QED BY <1>7 DEF Got

(* What is to come to a subscription in place comes nearer, or has come.   *)
LEMMA ComingStays ==
    ASSUME OneClassPerAddress, TypeOK, RegistersMatch, ListsRight, NothingMissed, [Next]_vars,
           NEW s \in Sub, ~removed[s], NEW i \in Wanted(s), Coming(s, i)
    PROVE  Coming(s, i)'
<1>0. i \in 1..Len(stream) /\ i \in Int /\ i # Stop /\ stream[i].msg.type \in sub[s].types
  <2>1. Len(stream) \in Nat
    BY LenProperties DEF TypeOK
  <2>. QED BY <2>1 DEF Wanted, Stop
<1>1. CASE i \in Got(s)
  BY <1>1, GotGrows DEF Coming
<1>2. CASE \E p \in Positions(queue) : queue[p] = i
  <2>1. PICK p \in Positions(queue) : queue[p] = i
    BY <1>2
  <2>2. ASSUME UNCHANGED queue PROVE Coming(s, i)'
    BY <2>1, <2>2 DEF Coming
  <2>3. ASSUME NEW t \in Thread, Get(t) PROVE Coming(s, i)'
    <3>1. /\ Len(queue) \in Nat /\ Len(queue') = Len(queue) - 1
          /\ \A q \in Positions(queue') : queue'[q] = queue[q + 1]
          /\ current' = [current EXCEPT ![t] = queue[1]]
          /\ epc' = [epc EXCEPT ![t] = IF queue[1] = Stop THEN "off" ELSE "snapshot"]
      BY <2>3, GetTakes
    <3>2. CASE p = 1
      <4>1. current'[t] = i /\ epc'[t] = "snapshot"
        BY <1>0, <2>1, <3>1, <3>2 DEF TypeOK
      <4>. QED BY <4>1 DEF Coming
    <3>3. CASE p # 1
      <4>1. p - 1 \in Positions(queue') /\ (p - 1) + 1 = p
        BY <2>1, <3>1, <3>3 DEF Positions
      <4>2. queue'[p - 1] = i
        BY <2>1, <3>1, <4>1
      <4>. QED BY <4>1, <4>2 DEF Coming
    <3>. QED BY <3>2, <3>3
  <2>4. ASSUME NEW m \in Traffic, Emit(m) PROVE Coming(s, i)'
    <3>1. p \in Positions(queue') /\ queue'[p] = i
      BY <2>1, <2>4, EmitQueues
    <3>. QED BY <3>1 DEF Coming
  <2>5. CASE PutStop
    <3>1. p \in Positions(queue') /\ queue'[p] = i
      BY <2>1, <2>5, StopQueues
    <3>. QED BY <3>1 DEF Coming
  <2>6. \/ UNCHANGED queue \/ PutStop
        \/ (\E t \in Thread : Get(t)) \/ (\E m \in Traffic : Emit(m))
    BY DEF Next, User, SubscribeAll, Subscribe, Remove, Deactivate, Open, Clear,
           EventLoop, Handler, Snapshot, BeginCall, Delivered, HandlerReturns, HandlerRaises, vars
  <2>. QED BY <2>2, <2>3, <2>4, <2>5, <2>6
<1>3. ASSUME NEW t \in Thread, current[t] = i,
             epc[t] = "snapshot" \/ (Calling(t) /\ \E p \in Positions(todo[t]) : todo[t][p].sub = s)
      PROVE  Coming(s, i)'
  <2>1. ASSUME epc'[t] = epc[t], current'[t] = current[t], todo'[t] = todo[t] PROVE Coming(s, i)'
    BY <1>3, <2>1 DEF Coming, Calling
  <2>2. CASE Snapshot(t)
    <3>1. \E p \in Positions(todo'[t]) : todo'[t][p].sub = s
      BY <1>3, <2>2, CopiedAll
    <3>2. epc' = [epc EXCEPT ![t] = "calls"] /\ epc \in [Thread -> Place] /\ current' = current
      BY <2>2 DEF Snapshot, TypeOK
    <3>3. Calling(t)'
      BY <3>2 DEF Calling
    <3>. QED BY <1>3, <3>1, <3>2, <3>3 DEF Coming
  <2>3. CASE BeginCall(t)
    <3>1. PICK p \in Positions(todo[t]) :
             /\ Due(t, p) /\ \A q \in 1..(p - 1) : ~Due(t, q)
             /\ Len(todo[t]) \in Nat /\ Len(todo'[t]) = Len(todo[t]) - p + 1
             /\ \A q \in 1..Len(todo'[t]) : todo'[t][q] = todo[t][q + p - 1]
      BY <2>3, BeginCalls
    <3>2. epc[t] = "calls" /\ epc' = [epc EXCEPT ![t] = "handler"] /\ epc \in [Thread -> Place]
          /\ current' = current
      BY <2>3 DEF BeginCall, TypeOK
    <3>3. PICK q \in Positions(todo[t]) : todo[t][q].sub = s
      BY <1>3, <3>2
    <3>4. Due(t, q)
      BY <1>0, <1>3, <3>3 DEF Due
    <3>5. ~(q \in 1..(p - 1))
      BY <3>1, <3>4
    <3>6. q - p + 1 \in 1..Len(todo'[t]) /\ (q - p + 1) + p - 1 = q
      BY <3>1, <3>5 DEF Positions
    <3>7. todo'[t][q - p + 1].sub = s
      BY <3>1, <3>3, <3>6
    <3>8. Calling(t)'
      BY <3>2 DEF Calling
    <3>. QED BY <1>3, <3>2, <3>6, <3>7, <3>8 DEF Coming, Positions
  <2>4. CASE Handler(t)
    <3>1. /\ epc[t] = "handler" /\ epc' = [epc EXCEPT ![t] = "calls"] /\ epc \in [Thread -> Place]
          /\ Len(todo[t]) \in Nat /\ Len(todo'[t]) = Len(todo[t]) - 1
          /\ \A q \in 1..Len(todo'[t]) : todo'[t][q] = todo[t][q + 1]
          /\ UNCHANGED <<current, log>>
      BY <2>4, HandlerEnds DEF TypeOK
    <3>2. PICK q \in Positions(todo[t]) : todo[t][q].sub = s
      BY <1>3, <3>1
    <3>3. CASE q = 1
      <4>1. i \in Got(s)
        BY <1>3, <3>1, <3>2, <3>3 DEF NothingMissed
      <4>. QED BY <1>1, <4>1
    <3>4. CASE q # 1
      <4>1. q - 1 \in 1..Len(todo'[t]) /\ (q - 1) + 1 = q
        BY <3>1, <3>2, <3>4 DEF Positions
      <4>2. todo'[t][q - 1].sub = s
        BY <3>1, <3>2, <4>1
      <4>3. Calling(t)'
        BY <3>1 DEF Calling
      <4>. QED BY <1>3, <3>1, <4>1, <4>2, <4>3 DEF Coming, Positions
    <3>. QED BY <3>3, <3>4
  <2>5. ~Delivered(t)
    <3>1. SUFFICES ASSUME Delivered(t) PROVE FALSE
      OBVIOUS
    <3>2. PICK q \in Positions(todo[t]) : todo[t][q].sub = s
      BY <1>3, <3>1 DEF Delivered
    <3>3. Due(t, q)
      BY <1>0, <1>3, <3>2 DEF Due
    <3>. QED BY <3>1, <3>2, <3>3 DEF Delivered, Positions
  <2>6. ~Get(t) /\ t <= opens
    <3>1. epc[t] # "get" /\ epc[t] # "off"
      BY <1>3 DEF Calling
    <3>. QED BY <3>1 DEF Get, TypeOK
  <2>7. ASSUME NEW u \in Thread, u # t, EventLoop(u) \/ Handler(u)
        PROVE  epc'[t] = epc[t] /\ current'[t] = current[t] /\ todo'[t] = todo[t]
    BY <2>7 DEF EventLoop, Handler, Get, Snapshot, BeginCall, Delivered, HandlerReturns,
                HandlerRaises, TypeOK
  <2>8. CASE Open
    <3>1. opens' # t /\ epc' = [epc EXCEPT ![opens'] = "get"] /\ UNCHANGED <<current, todo>>
      BY <2>6, <2>8 DEF Open, TypeOK
    <3>. QED BY <2>1, <3>1 DEF TypeOK
  <2>9. CASE User \/ PutStop \/ Clear \/ (\E m \in Traffic : Emit(m)) \/ UNCHANGED vars
    <3>1. UNCHANGED threadVars
      BY <2>9 DEF User, SubscribeAll, Subscribe, Remove, Deactivate, PutStop, Clear, Emit, vars
    <3>. QED BY <2>1, <3>1 DEF threadVars
  <2>. QED BY <2>1, <2>2, <2>3, <2>4, <2>5, <2>6, <2>7, <2>8, <2>9 DEF Next, EventLoop
<1>. QED BY <1>1, <1>2, <1>3 DEF Coming

LEMMA MissedInit == Init => NothingMissed
BY DEF Init, NothingMissed, Sub

(* A subscription made by this step has no messages to wait for yet.       *)
LEMMA NewSub ==
    ASSUME TypeOK, [Next]_vars, NEW s \in Sub', s \notin Sub
    PROVE  since'[s] = Len(stream) /\ stream' = stream
<1>1. ASSUME NEW register \in Known, NEW types \in Filter, Create(register, types)
      PROVE  since'[s] = Len(stream)
  BY <1>1, OneMore
<1>2. ASSUME NEW types \in Filter, SubscribeAll(types)
      PROVE  since'[s] = Len(stream) /\ stream' = stream
  BY <1>1, <1>2 DEF SubscribeAll, Known
<1>3. ASSUME NEW types \in Filter, NEW register \in Register, Subscribe(register, types)
      PROVE  since'[s] = Len(stream) /\ stream' = stream
  BY <1>1, <1>3 DEF Subscribe, Known
<1>4. ~UNCHANGED sub
  BY DEF Sub
<1>5. CASE User
  BY <1>2, <1>3, <1>4, <1>5 DEF User, Remove, Deactivate
<1>6. CASE Open \/ PutStop \/ Clear \/ (\E m \in Traffic : Emit(m)) \/ UNCHANGED vars
  BY <1>4, <1>6 DEF Open, PutStop, Clear, Emit, vars, subVars
<1>7. CASE \E t \in Thread : EventLoop(t) \/ Handler(t)
  BY <1>4, <1>7
     DEF EventLoop, Handler, Get, Snapshot, BeginCall, Delivered, HandlerReturns,
         HandlerRaises, subVars
<1>. QED BY <1>5, <1>6, <1>7 DEF Next

LEMMA MissedNext ==
    ASSUME OneClassPerAddress, TypeOK, RegistersMatch, ListsRight, NothingMissed, [Next]_vars
    PROVE  NothingMissed'
<1>1. ASSUME NEW s \in Sub', ~removed'[s], NEW i \in Wanted(s)', since'[s] < i
      PROVE  Coming(s, i)'
  <2>1. i \in 1..Len(stream') /\ Len(stream) \in Nat
    BY DEF Wanted, TypeOK
  <2>2. s \in Sub
    <3>. SUFFICES ASSUME s \notin Sub PROVE FALSE
      OBVIOUS
    <3>1. since'[s] = Len(stream) /\ stream' = stream
      BY NewSub
    <3>. QED BY <1>1, <2>1, <3>1
  <2>3. sub'[s] = sub[s] /\ since'[s] = since[s] /\ ~removed[s]
    BY <1>1, <2>2, Forward
  <2>4. CASE i \in 1..Len(stream)
    <3>1. stream'[i] = stream[i]
      BY <2>4, Forward
    <3>2. i \in Wanted(s)
      BY <2>3, <2>4, <3>1 DEF Wanted
    <3>3. Coming(s, i)
      BY <1>1, <2>2, <2>3, <3>2 DEF NothingMissed
    <3>. QED BY <2>2, <2>3, <3>2, <3>3, ComingStays
  <2>5. CASE i \notin 1..Len(stream)
    <3>1. stream' # stream
      BY <2>1, <2>5
    <3>2. PICK m \in Traffic : Emit(m)
      BY <3>1 DEF Next, User, SubscribeAll, Subscribe, Remove, Deactivate, Open, PutStop, Clear,
                  EventLoop, Handler, Get, Snapshot, BeginCall, Delivered, HandlerReturns,
                  HandlerRaises, vars
    <3>3. /\ Len(stream') = Len(stream) + 1
          /\ Positions(queue') = Positions(queue) \cup {Len(queue) + 1}
          /\ queue'[Len(queue) + 1] = Len(stream')
      BY <3>2, EmitQueues
    <3>4. i = Len(stream')
      BY <2>1, <2>5, <3>3
    <3>. QED BY <3>3, <3>4 DEF Coming
  <2>. QED BY <2>4, <2>5
<1>2. ASSUME NEW t \in Thread, epc'[t] = "handler"
      PROVE  current'[t] \in Got(todo[t][1].sub)'
  <2>1. CASE BeginCall(t)
    <3>1. current' = current
      BY <2>1 DEF BeginCall
    <3>. QED BY <2>1, <3>1, BeginGot
  <2>2. ASSUME epc'[t] = epc[t], current'[t] = current[t], todo'[t] = todo[t]
        PROVE  current'[t] \in Got(todo[t][1].sub)'
    <3>1. current[t] \in Got(todo[t][1].sub)
      BY <1>2, <2>2 DEF NothingMissed
    <3>2. Got(todo[t][1].sub) \subseteq {log'[p].at : p \in {q \in 1..Len(log') : log'[q].sub = todo[t][1].sub}}
      BY LogGrows DEF Got, Positions
    <3>. QED BY <2>2, <3>1, <3>2 DEF Got
  <2>3. ASSUME NEW u \in Thread, EventLoop(u) \/ Handler(u), ~BeginCall(t)
        PROVE  epc'[t] = epc[t] /\ current'[t] = current[t] /\ todo'[t] = todo[t]
    <3>1. CASE u # t
      BY <2>3, <3>1 DEF EventLoop, Handler, Get, Snapshot, BeginCall, Delivered, HandlerReturns,
                        HandlerRaises, TypeOK
    <3>2. CASE u = t
      <4>1. epc'[t] # "handler"
        BY <2>3, <3>2 DEF EventLoop, Handler, Get, Snapshot, Delivered, HandlerReturns,
                          HandlerRaises, SurvivesRaise, TypeOK
      <4>. QED BY <1>2, <4>1
    <3>. QED BY <3>1, <3>2
  <2>4. CASE Open
    <3>1. opens' # t /\ epc' = [epc EXCEPT ![opens'] = "get"] /\ UNCHANGED <<current, todo>>
      BY <1>2, <2>4 DEF Open, TypeOK
    <3>. QED BY <2>2, <3>1 DEF TypeOK
  <2>5. CASE User \/ PutStop \/ Clear \/ (\E m \in Traffic : Emit(m)) \/ UNCHANGED vars
    <3>1. UNCHANGED threadVars
      BY <2>5 DEF User, SubscribeAll, Subscribe, Remove, Deactivate, PutStop, Clear, Emit, vars
    <3>. QED BY <2>2, <3>1 DEF threadVars
  <2>. QED BY <2>1, <2>2, <2>3, <2>4, <2>5 DEF Next
<1>. QED BY <1>1, <1>2 DEF NothingMissed

(* What a subscription got it wanted: with one class to an address, the    *)
(* message was decoded by the register it named.                           *)
LEMMA GotWanted ==
    ASSUME OneClassPerAddress, TypeOK, CallsSuit, NEW s \in Sub
    PROVE  Got(s) \subseteq Wanted(s)
<1>. SUFFICES ASSUME NEW p \in Positions(log), log[p].sub = s
              PROVE  log[p].at \in Wanted(s)
  BY DEF Got, Positions
<1>. DEFINE i == log[p].at
            m == stream[i].msg
            register == sub[s].register
            form == log[p].form
<1>1. i \in 1..Len(stream) /\ Suits(log[p], m) /\ m.type \in sub[s].types
  BY DEF CallsSuit
<1>2. /\ form = NoRegister <=> register = NoRegister
      /\ form # NoRegister =>
            AddressOf[form] = m.address /\ AddressOf[register] = m.address /\ form \in m.fits
  BY <1>1 DEF Suits
<1>3. form \in Known /\ register \in Known
  <2>1. log[p] \in [at : Nat, sub : Nat, form : Known, by : Thread]
    BY ElementOfSeq DEF TypeOK, Positions
  <2>. QED BY <2>1, SubType
<1>4. register # NoRegister => register = form
  BY <1>2, <1>3 DEF OneClassPerAddress, Known
<1>. QED BY <1>1, <1>2, <1>4 DEF Wanted

(* With one register class to an address: whatever threads subscribe,      *)
(* unsubscribe, open and close, and whatever handlers raise, a subscription *)
(* gets only messages it asked for, and one in place has got all of them   *)
(* that came after it and are delivered (_deliver_event, _event_loop).     *)
THEOREM EverythingDelivered ==
    ASSUME OneClassPerAddress PROVE Spec => []DeliveryComplete
<1>. DEFINE Inv == TypeOK /\ RegistersInv /\ ListsRight /\ CallsSuit /\ NothingMissed
<1>1. Init => Inv
  BY TypeInit, InitRegisters, ListsInit, CallsInit, MissedInit
<1>2. Inv /\ [Next]_vars => Inv'
  BY TypeNext, StepRegisters, ListsNext, CallsNext, MissedNext DEF RegistersInv
<1>3. Inv => DeliveryComplete
  <2>. SUFFICES ASSUME Inv, NEW s \in Sub, ~removed[s], NEW i \in Wanted(s), since[s] < i, Finished(i)
                PROVE  i \in Got(s)
    BY GotWanted DEF DeliveryComplete
  <2>1. Coming(s, i)
    BY DEF NothingMissed
  <2>. QED BY <2>1 DEF Coming, Finished, Calling, Positions
<1>. HIDE DEF Inv
<1>. QED BY <1>1, <1>2, <1>3, PTL DEF Spec

-----------------------------------------------------------------------------
(* The order of the calls                                                  *)

LEMMA OrderInit == Init => Ordered
BY DEF Init, Ordered, ListsRise, QueueRises, OneDeliverer, CallsRise, HandlersInOrder, Rising,
       Positions, Calling, Delivering

LEMMA AppendRises ==
    ASSUME NEW list \in Seq(Nat), Rising(list), NEW n \in Nat,
           \A p \in Positions(list) : list[p] < n
    PROVE  Rising(Append(list, n))
<1>. DEFINE longer == Append(list, n)
<1>1. /\ Positions(longer) = Positions(list) \cup {Len(list) + 1} /\ Len(list) \in Nat
      /\ \A i \in Positions(list) : longer[i] = list[i]
      /\ longer[Len(list) + 1] = n
  BY AppendToList, LenProperties
<1>. HIDE DEF longer
<1>2. SUFFICES ASSUME NEW p \in Positions(longer), NEW q \in Positions(longer), p < q
               PROVE  longer[p] < longer[q]
  BY DEF Rising, longer
<1>3. p \in Positions(list)
  BY <1>1, <1>2 DEF Positions
<1>4. CASE q \in Positions(list)
  BY <1>1, <1>2, <1>3, <1>4 DEF Rising
<1>5. CASE q = Len(list) + 1
  BY <1>1, <1>3, <1>5
<1>. QED BY <1>1, <1>4, <1>5

(* A new subscription has the highest number yet.                          *)
LEMMA ListsKeepRising ==
    ASSUME TypeOK, ListsRight, ListsRise, [Next]_vars
    PROVE  ListsRise'
<1>1. /\ Len(sub) \in Nat /\ catchAll \in Seq(Nat) /\ subscriptions \in [Address -> Seq(Nat)]
  BY DEF TypeOK
<1>2. /\ \A p \in Positions(catchAll) : catchAll[p] < Len(sub) + 1
      /\ \A a \in Address : \A p \in Positions(subscriptions[a]) : subscriptions[a][p] < Len(sub) + 1
  BY <1>1 DEF ListsRight, Sub
<1>3. ASSUME UNCHANGED <<subscriptions, catchAll>> PROVE ListsRise'
  BY <1>3 DEF ListsRise
<1>4. ASSUME NEW types \in Filter, SubscribeAll(types) PROVE ListsRise'
  <2>1. catchAll' = Append(catchAll, Len(sub) + 1) /\ subscriptions' = subscriptions
    BY <1>4 DEF SubscribeAll
  <2>2. Rising(Append(catchAll, Len(sub) + 1))
    BY <1>1, <1>2, AppendRises DEF ListsRise
  <2>. QED BY <2>1, <2>2 DEF ListsRise
<1>5. ASSUME NEW types \in Filter, NEW register \in Register, Subscribe(register, types)
      PROVE  ListsRise'
  <2>. DEFINE a == AddressOf[register]
  <2>1. a \in Address
    BY RegisterAssumption
  <2>2. /\ subscriptions' = [subscriptions EXCEPT ![a] = Append(subscriptions[a], Len(sub) + 1)]
        /\ catchAll' = catchAll
    BY <1>5 DEF Subscribe
  <2>3. Rising(Append(subscriptions[a], Len(sub) + 1))
    BY <1>1, <1>2, <2>1, AppendRises DEF ListsRise
  <2>. QED BY <1>1, <2>1, <2>2, <2>3 DEF ListsRise
<1>6. ASSUME NEW s \in Sub, Remove(s) PROVE ListsRise'
  <2>. DEFINE a == AddressOf[sub[s].register]
  <2>1. \A list \in Seq(Nat) : Rising(list) => Rising(Without(list, s))
    BY WithoutList
  <2>2. CASE sub[s].register = NoRegister
    <3>1. catchAll' = Without(catchAll, s) /\ subscriptions' = subscriptions
      BY <1>6, <2>2 DEF Remove
    <3>. QED BY <1>1, <2>1, <3>1 DEF ListsRise
  <2>3. CASE sub[s].register # NoRegister
    <3>1. /\ subscriptions' = [subscriptions EXCEPT ![a] = Without(subscriptions[a], s)]
          /\ catchAll' = catchAll
      BY <1>6, <2>3 DEF Remove
    <3>. QED BY <1>1, <2>1, <3>1 DEF ListsRise
  <2>. QED BY <2>2, <2>3
<1>7. CASE User
  BY <1>3, <1>4, <1>5, <1>6, <1>7 DEF User, Deactivate
<1>8. CASE Clear
  BY <1>8 DEF Clear, ListsRise, Rising, Positions
<1>9. CASE Open \/ PutStop \/ (\E m \in Traffic : Emit(m)) \/ UNCHANGED vars
  BY <1>3, <1>9 DEF Open, PutStop, Emit, subVars, vars
<1>10. CASE \E t \in Thread : EventLoop(t) \/ Handler(t)
  BY <1>3, <1>10
     DEF EventLoop, Handler, Get, Snapshot, BeginCall, Delivered, HandlerReturns,
         HandlerRaises, subVars
<1>. QED BY <1>7, <1>8, <1>9, <1>10 DEF Next

(* A new message has the highest number yet.                               *)
LEMMA QueueKeepsRising ==
    ASSUME TypeOK, CallsSuit, QueueRises, [Next]_vars
    PROVE  QueueRises'
<1>0. /\ Len(stream) \in Nat /\ Len(queue) \in Nat
      /\ \A q \in Positions(queue) : queue[q] \in Nat /\ queue[q] <= Len(stream)
      /\ \A p \in Positions(log) : log[p].at \in 1..Len(stream)
      /\ \A t \in Thread : Delivering(t) => current[t] \in 1..Len(stream)
  <2>1. \A q \in Positions(queue) : queue[q] \in Nat
    BY ElementOfSeq DEF TypeOK, Positions
  <2>. QED BY <2>1, LenProperties DEF TypeOK, CallsSuit
<1>1. ASSUME UNCHANGED <<queue, epc, current, log>> PROVE QueueRises'
  BY <1>1 DEF QueueRises, Delivering
<1>2. ASSUME NEW m \in Traffic, Emit(m) PROVE QueueRises'
  <2>1. /\ Len(stream') = Len(stream) + 1
        /\ Positions(queue') = Positions(queue) \cup {Len(queue) + 1}
        /\ \A p \in Positions(queue) : queue'[p] = queue[p]
        /\ queue'[Len(queue) + 1] = Len(stream')
        /\ UNCHANGED <<epc, current, log>>
    BY <1>2, EmitQueues DEF threadVars
  <2>2. ASSUME NEW p \in Positions(queue'), NEW q \in Positions(queue'), p < q,
               queue'[p] # Stop, queue'[q] # Stop
        PROVE  queue'[p] < queue'[q]
    <3>1. p \in Positions(queue)
      BY <1>0, <2>1, <2>2 DEF Positions
    <3>. QED BY <1>0, <2>1, <2>2, <3>1 DEF QueueRises
  <2>3. ASSUME NEW q \in Positions(queue'), queue'[q] # Stop
        PROVE  /\ \A p \in Positions(log) : log[p].at < queue'[q]
               /\ \A t \in Thread : Delivering(t) => current[t] < queue'[q]
    BY <1>0, <2>1, <2>3 DEF QueueRises
  <2>. QED BY <2>1, <2>2, <2>3 DEF QueueRises, Delivering
<1>3. CASE PutStop
  <2>1. /\ Positions(queue') = Positions(queue) \cup {Len(queue) + 1}
        /\ \A p \in Positions(queue) : queue'[p] = queue[p]
        /\ queue'[Len(queue) + 1] = Stop
        /\ UNCHANGED <<epc, current, log>>
    BY <1>3, StopQueues DEF threadVars
  <2>. QED BY <2>1 DEF QueueRises, Delivering
<1>4. ASSUME NEW t \in Thread, Get(t) PROVE QueueRises'
  <2>1. /\ \A p \in Positions(queue') : p + 1 \in Positions(queue) /\ queue'[p] = queue[p + 1]
        /\ 1 \in Positions(queue) /\ current' = [current EXCEPT ![t] = queue[1]]
        /\ epc' = [epc EXCEPT ![t] = IF queue[1] = Stop THEN "off" ELSE "snapshot"]
    BY <1>4, GetTakes
  <2>2. log' = log /\ epc \in [Thread -> Place] /\ current \in [Thread -> Nat]
    BY <1>4 DEF Get, TypeOK
  <2>3. ASSUME NEW p \in Positions(queue'), NEW q \in Positions(queue'), p < q,
               queue'[p] # Stop, queue'[q] # Stop
        PROVE  queue'[p] < queue'[q]
    <3>1. p + 1 < q + 1
      BY <2>3 DEF Positions
    <3>. QED BY <2>1, <2>3, <3>1 DEF QueueRises
  <2>4. ASSUME NEW q \in Positions(queue'), queue'[q] # Stop, NEW u \in Thread, Delivering(u)'
        PROVE  current'[u] < queue'[q]
    <3>1. CASE u # t
      BY <2>1, <2>2, <2>4, <3>1 DEF QueueRises, Delivering
    <3>2. CASE u = t
      <4>1. current'[u] = queue[1] /\ queue[1] # Stop
        BY <2>1, <2>2, <2>4, <3>2 DEF Delivering
      <4>2. 1 < q + 1
        BY DEF Positions
      <4>. QED BY <2>1, <2>4, <4>1, <4>2 DEF QueueRises
    <3>. QED BY <3>1, <3>2
  <2>5. \A q \in Positions(queue') : queue'[q] # Stop =>
           \A p \in Positions(log') : log'[p].at < queue'[q]
    BY <2>1, <2>2 DEF QueueRises
  <2>. QED BY <2>3, <2>4, <2>5 DEF QueueRises
<1>5. CASE User \/ Clear
  <2>1. UNCHANGED <<queue, epc, current, log>>
    BY <1>5 DEF User, SubscribeAll, Subscribe, Remove, Deactivate, Clear, threadVars
  <2>. QED BY <1>1, <2>1
<1>6. CASE Open
  <2>1. /\ epc' = [epc EXCEPT ![opens'] = "get"] /\ epc \in [Thread -> Place]
        /\ UNCHANGED <<queue, current, log>>
    BY <1>6 DEF Open, TypeOK
  <2>2. \A t \in Thread : Delivering(t)' => Delivering(t)
    BY <2>1 DEF Delivering
  <2>. QED BY <2>1, <2>2 DEF QueueRises
<1>7. ASSUME NEW t \in Thread, Snapshot(t) \/ Delivered(t) \/ Handler(t) PROVE QueueRises'
  <2>1. /\ Delivering(t) /\ epc' = [epc EXCEPT ![t] = epc'[t]] /\ epc \in [Thread -> Place]
        /\ UNCHANGED <<queue, current, log>>
    BY <1>7 DEF Snapshot, Delivered, Handler, HandlerReturns, HandlerRaises, Delivering, TypeOK
  <2>2. \A u \in Thread : Delivering(u)' => Delivering(u)
    BY <2>1 DEF Delivering
  <2>. QED BY <2>1, <2>2 DEF QueueRises
<1>8. ASSUME NEW t \in Thread, BeginCall(t) PROVE QueueRises'
  <2>1. /\ Delivering(t) /\ epc' = [epc EXCEPT ![t] = "handler"] /\ epc \in [Thread -> Place]
        /\ UNCHANGED <<queue, current>>
    BY <1>8 DEF BeginCall, Delivering, TypeOK
  <2>2. \A u \in Thread : Delivering(u)' => Delivering(u)
    BY <2>1 DEF Delivering
  <2>3. /\ Len(log) \in Nat /\ Len(log') = Len(log) + 1
        /\ \A i \in Positions(log) : log'[i] = log[i]
        /\ \E p \in Positions(todo[t]) : log'[Len(log) + 1] = LogOf(t, todo[t][p])
    BY <1>8, BeginCalls
  <2>4. \A p \in Positions(log') : (p \in Positions(log) /\ log'[p] = log[p]) \/ log'[p].at = current[t]
    BY <2>3 DEF Positions, LogOf
  <2>5. \A q \in Positions(queue') : queue'[q] # Stop =>
           \A p \in Positions(log') : log'[p].at < queue'[q]
    BY <2>1, <2>4 DEF QueueRises
  <2>. QED BY <2>1, <2>2, <2>5 DEF QueueRises
<1>9. CASE UNCHANGED vars
  BY <1>1, <1>9 DEF vars, threadVars
<1>. QED BY <1>2, <1>3, <1>4, <1>5, <1>6, <1>7, <1>8, <1>9 DEF Next, EventLoop

(* The calls copied for a message are in the order of the lists, the typed *)
(* ones first.                                                             *)
LEMMA CopiedInOrder ==
    ASSUME TypeOK, RegistersMatch, ListsRight, ListsRise, NEW t \in Thread, Snapshot(t),
           NEW p \in Positions(todo'[t]), NEW q \in Positions(todo'[t]), p < q
    PROVE  \/ todo'[t][p].form # NoRegister /\ todo'[t][q].form = NoRegister
           \/ /\ todo'[t][p].form = NoRegister <=> todo'[t][q].form = NoRegister
              /\ todo'[t][p].sub < todo'[t][q].sub
<1>. DEFINE m == stream[current[t]].msg
            a == m.address
            typed == IF registers[a] \in m.fits THEN subscriptions[a] ELSE <<>>
            n == Len(typed)
            c == Len(catchAll)
            calls == todo'[t]
<1>1. m \in Message /\ calls = CallsFor(m)
  BY Copied
<1>. HIDE DEF m, calls
<1>2. /\ n \in Nat /\ c \in Nat /\ Len(calls) = n + c
      /\ \A i \in 1..n : calls[i] = CallOf(typed[i], registers[a])
      /\ \A i \in (n + 1)..(n + c) : calls[i] = CallOf(catchAll[i - n], NoRegister)
  BY <1>1, SnapshotTypes
<1>3. a \in Address /\ m.fits \subseteq Register
  BY <1>1 DEF Message
<1>4. n > 0 => registers[a] # NoRegister
  BY <1>2, <1>3, RegisterAssumption
<1>5. Rising(typed) /\ Rising(catchAll)
  BY <1>3 DEF ListsRise, Rising, Positions
<1>. HIDE DEF n, c, typed
<1>0. \A s, form : CallOf(s, form).sub = s /\ CallOf(s, form).form = form
  BY DEF CallOf
<1>6. \A i \in 1..n : calls[i].sub = typed[i] /\ calls[i].form = registers[a]
  BY <1>2, <1>0
<1>7. \A i \in (n + 1)..(n + c) : calls[i].sub = catchAll[i - n] /\ calls[i].form = NoRegister
  BY <1>2, <1>0
<1>8. p \in 1..(n + c) /\ q \in 1..(n + c)
  BY <1>2 DEF Positions, calls
<1>9. CASE q <= n
  <2>1. p \in 1..n /\ q \in 1..n
    BY <1>2, <1>8, <1>9
  <2>2. typed[p] < typed[q]
    BY <1>5, <2>1 DEF Rising, Positions, n
  <2>. QED BY <1>6, <2>1, <2>2 DEF calls
<1>10. CASE p <= n /\ q > n
  <2>1. p \in 1..n /\ q \in (n + 1)..(n + c) /\ n > 0
    BY <1>2, <1>8, <1>10
  <2>. QED BY <1>4, <1>6, <1>7, <2>1 DEF calls
<1>11. CASE p > n
  <2>1. /\ p \in (n + 1)..(n + c) /\ q \in (n + 1)..(n + c)
        /\ p - n \in 1..c /\ q - n \in 1..c /\ p - n < q - n
    BY <1>2, <1>8, <1>11
  <2>2. catchAll[p - n] < catchAll[q - n]
    BY <1>5, <2>1 DEF Rising, Positions, c
  <2>. QED BY <1>7, <2>1, <2>2 DEF calls
<1>. QED BY <1>2, <1>8, <1>9, <1>10, <1>11

(* A step of one thread leaves the others where they are.                  *)
LEMMA OthersStand ==
    ASSUME TypeOK, NEW t \in Thread, EventLoop(t) \/ Handler(t), NEW u \in Thread, u # t
    PROVE  epc'[u] = epc[u] /\ todo'[u] = todo[u] /\ current'[u] = current[u]
BY DEF TypeOK, EventLoop, Handler, Get, Snapshot, BeginCall, Delivered, HandlerReturns,
       HandlerRaises

(* A call begun is one more entry of the log, by its thread and for the    *)
(* message it delivers.                                                    *)
LEMMA EntryOfCall ==
    ASSUME TypeOK, NEW t \in Thread, BeginCall(t)
    PROVE  \E p \in Positions(todo[t]) :
              /\ Len(todo[t]) \in Nat /\ Len(todo'[t]) = Len(todo[t]) - p + 1
              /\ \A q \in Positions(todo'[t]) :
                    q + p - 1 \in Positions(todo[t]) /\ todo'[t][q] = todo[t][q + p - 1]
              /\ Len(log) \in Nat /\ Positions(log') = Positions(log) \cup {Len(log) + 1}
              /\ \A i \in Positions(log) : log'[i] = log[i]
              /\ log'[Len(log) + 1].at = current[t] /\ log'[Len(log) + 1].by = t
              /\ log'[Len(log) + 1].sub = todo[t][p].sub
              /\ log'[Len(log) + 1].form = todo[t][p].form
<1>1. PICK p \in Positions(todo[t]) :
           /\ Len(todo[t]) \in Nat /\ Len(todo'[t]) = Len(todo[t]) - p + 1
           /\ \A q \in 1..Len(todo'[t]) : todo'[t][q] = todo[t][q + p - 1]
           /\ Len(log) \in Nat /\ Len(log') = Len(log) + 1
           /\ \A i \in Positions(log) : log'[i] = log[i]
           /\ log'[Len(log) + 1] = LogOf(t, todo[t][p])
  BY BeginCalls
<1>2. \A q \in Positions(todo'[t]) :
         q + p - 1 \in Positions(todo[t]) /\ todo'[t][q] = todo[t][q + p - 1]
  BY <1>1 DEF Positions
<1>3. Positions(log') = Positions(log) \cup {Len(log) + 1}
  BY <1>1 DEF Positions
<1>. QED BY <1>1, <1>2, <1>3 DEF LogOf

(* No message is taken twice, and each thread goes forward.                *)
LEMMA DelivererNext ==
    ASSUME TypeOK, QueueRises, OneDeliverer, [Next]_vars
    PROVE  OneDeliverer'
<1>0. epc \in [Thread -> Place] /\ current \in [Thread -> Nat]
  BY DEF TypeOK
<1>1. ASSUME UNCHANGED <<current, log>>,
             \A t \in Thread : /\ Delivering(t)' => Delivering(t)
                               /\ epc'[t] = "snapshot" => epc[t] = "snapshot"
      PROVE  OneDeliverer'
  BY <1>1 DEF OneDeliverer
<1>2. ASSUME NEW t \in Thread, Get(t) PROVE OneDeliverer'
  <2>1. /\ 1 \in Positions(queue) /\ current' = [current EXCEPT ![t] = queue[1]]
        /\ epc' = [epc EXCEPT ![t] = IF queue[1] = Stop THEN "off" ELSE "snapshot"]
        /\ log' = log
    BY <1>2, GetTakes DEF Get
  <2>2. \A u \in Thread : u # t => epc'[u] = epc[u] /\ current'[u] = current[u]
    BY <1>0, <2>1
  <2>3. Delivering(t)' =>
           /\ queue[1] # Stop /\ current'[t] = queue[1]
           /\ \A u \in Thread : Delivering(u) => current[u] < current'[t]
           /\ \A p \in Positions(log) : log[p].at < current'[t]
    BY <1>0, <2>1 DEF Delivering, QueueRises
  <2>4. current'[t] \in Nat /\ \A u \in Thread : current[u] \in Nat
    BY <1>0, <2>1, ElementOfSeq DEF TypeOK, Positions
  <2>5. ASSUME NEW p \in Positions(log) PROVE log[p].at \in Nat
    <3>1. log[p] \in [at : Nat, sub : Nat, form : Known, by : Thread]
      BY ElementOfSeq DEF TypeOK, Positions
    <3>. QED BY <3>1
  <2>6. ASSUME NEW u \in Thread, NEW v \in Thread, u # v, Delivering(u)', Delivering(v)'
        PROVE  current'[u] # current'[v]
    BY <2>2, <2>3, <2>4, <2>6 DEF OneDeliverer, Delivering
  <2>7. ASSUME NEW u \in Thread, Delivering(u)', NEW p \in Positions(log)
        PROVE  /\ log[p].by = u => log[p].at <= current'[u]
               /\ log[p].at = current'[u] => log[p].by = u /\ epc'[u] # "snapshot"
    BY <2>2, <2>3, <2>4, <2>5, <2>7 DEF OneDeliverer, Delivering
  <2>. QED BY <2>1, <2>6, <2>7 DEF OneDeliverer
<1>3. ASSUME NEW t \in Thread, BeginCall(t) PROVE OneDeliverer'
  <2>1. /\ Positions(log') = Positions(log) \cup {Len(log) + 1}
        /\ \A i \in Positions(log) : log'[i] = log[i]
        /\ log'[Len(log) + 1].at = current[t] /\ log'[Len(log) + 1].by = t
    BY <1>3, EntryOfCall
  <2>2. /\ epc[t] = "calls" /\ epc' = [epc EXCEPT ![t] = "handler"] /\ current' = current
    BY <1>3 DEF BeginCall
  <2>3. \A u \in Thread : /\ Delivering(u)' => Delivering(u)
                          /\ epc'[u] = "snapshot" => epc[u] = "snapshot" /\ u # t
    BY <1>0, <2>2 DEF Delivering
  <2>4. ASSUME NEW u \in Thread, Delivering(u)', NEW p \in Positions(log')
        PROVE  /\ log'[p].by = u => log'[p].at <= current[u]
               /\ log'[p].at = current[u] => log'[p].by = u /\ epc'[u] # "snapshot"
    <3>1. CASE p \in Positions(log)
      BY <2>1, <2>3, <2>4, <3>1 DEF OneDeliverer
    <3>2. CASE p = Len(log) + 1
      <4>1. Delivering(t) /\ current[t] \in Nat
        BY <1>0, <2>2 DEF Delivering
      <4>2. u # t => current[u] # current[t]
        BY <2>3, <2>4, <4>1 DEF OneDeliverer
      <4>. QED BY <2>1, <2>3, <3>2, <4>1, <4>2
    <3>. QED BY <2>1, <3>1, <3>2
  <2>. QED BY <2>2, <2>3, <2>4 DEF OneDeliverer
<1>4. ASSUME NEW t \in Thread, Snapshot(t) \/ Delivered(t) \/ Handler(t) PROVE OneDeliverer'
  <2>1. /\ Delivering(t) /\ epc'[t] # "snapshot" /\ UNCHANGED <<current, log>>
    BY <1>0, <1>4
       DEF Snapshot, Delivered, Handler, HandlerReturns, HandlerRaises, SurvivesRaise, Delivering
  <2>2. \A u \in Thread : u # t => epc'[u] = epc[u]
    BY <1>4, OthersStand DEF EventLoop
  <2>. QED BY <1>1, <2>1, <2>2 DEF Delivering
<1>5. CASE Open
  <2>1. epc' = [epc EXCEPT ![opens'] = "get"] /\ UNCHANGED <<current, log>>
    BY <1>5 DEF Open
  <2>. QED BY <1>0, <1>1, <2>1 DEF Delivering
<1>6. CASE User \/ PutStop \/ Clear \/ (\E m \in Traffic : Emit(m)) \/ UNCHANGED vars
  <2>1. UNCHANGED threadVars
    BY <1>6 DEF User, SubscribeAll, Subscribe, Remove, Deactivate, PutStop, Clear, Emit, vars
  <2>. QED BY <1>1, <2>1 DEF threadVars, Delivering
<1>. QED BY <1>2, <1>3, <1>4, <1>5, <1>6 DEF Next, EventLoop

\* CallsRise, for one thread.
RiseFor(t) ==
    Calling(t) =>
        /\ \A p, q \in Positions(todo[t]) : p < q => Precedes(todo[t][p], todo[t][q])
        /\ \A p \in Positions(log) : \A q \in FirstToCome(t)..Len(todo[t]) :
              log[p].at = current[t] => Precedes(log[p], todo[t][q])

(* What other threads call is for other messages.                          *)
LEMMA KeepsRising ==
    ASSUME NEW u \in Thread, RiseFor(u),
           epc'[u] = epc[u], todo'[u] = todo[u], current'[u] = current[u],
           Calling(u) => \A p \in Positions(log') :
               (p \in Positions(log) /\ log'[p] = log[p]) \/ log'[p].at # current[u]
    PROVE  RiseFor(u)'
BY DEF RiseFor, Calling, FirstToCome, Precedes

LEMMA CallsKeepRising ==
    ASSUME TypeOK, RegistersMatch, ListsRight, ListsRise, OneDeliverer, CallsRise, [Next]_vars
    PROVE  CallsRise'
<1>0. epc \in [Thread -> Place] /\ \A u \in Thread : RiseFor(u)
  BY DEF TypeOK, CallsRise, RiseFor
<1>1. SUFFICES ASSUME NEW u \in Thread PROVE RiseFor(u)'
  BY DEF CallsRise, RiseFor
<1>2. ASSUME log' = log, epc'[u] = epc[u], todo'[u] = todo[u], current'[u] = current[u]
      PROVE  RiseFor(u)'
  BY <1>0, <1>2, KeepsRising
<1>3. ASSUME epc'[u] \in {"off", "get", "snapshot"} PROVE RiseFor(u)'
  BY <1>3 DEF RiseFor, Calling
<1>4. ASSUME NEW t \in Thread, EventLoop(t) \/ Handler(t), t # u PROVE RiseFor(u)'
  <2>1. epc'[u] = epc[u] /\ todo'[u] = todo[u] /\ current'[u] = current[u]
    BY <1>4, OthersStand
  <2>2. CASE log' = log
    BY <1>2, <2>1, <2>2
  <2>3. CASE BeginCall(t)
    <3>1. /\ Positions(log') = Positions(log) \cup {Len(log) + 1}
          /\ \A i \in Positions(log) : log'[i] = log[i]
          /\ log'[Len(log) + 1].at = current[t]
      BY <2>3, EntryOfCall
    <3>2. Calling(u) => current[t] # current[u]
      BY <1>4, <2>3 DEF BeginCall, OneDeliverer, Delivering, Calling
    <3>. QED BY <1>0, <2>1, <3>1, <3>2, KeepsRising
  <2>. QED BY <1>4, <2>2, <2>3
           DEF EventLoop, Handler, Get, Snapshot, Delivered, HandlerReturns, HandlerRaises
<1>5. CASE Get(u) \/ Delivered(u)
  <2>1. epc'[u] \in {"off", "get", "snapshot"}
    BY <1>0, <1>5 DEF Get, Delivered
  <2>. QED BY <1>3, <2>1
<1>6. CASE Snapshot(u)
  <2>1. epc[u] = "snapshot" /\ UNCHANGED <<current, log>>
    BY <1>6 DEF Snapshot
  <2>2. \A p \in Positions(log) : log[p].at # current[u]
    BY <2>1 DEF OneDeliverer, Delivering
  <2>3. \A p, q \in Positions(todo'[u]) : p < q => Precedes(todo'[u][p], todo'[u][q])
    BY <1>6, CopiedInOrder DEF Precedes
  <2>. QED BY <2>1, <2>2, <2>3 DEF RiseFor
<1>7. CASE BeginCall(u)
  <2>1. PICK p \in Positions(todo[u]) :
             /\ Len(todo[u]) \in Nat /\ Len(todo'[u]) = Len(todo[u]) - p + 1
             /\ \A q \in Positions(todo'[u]) :
                   q + p - 1 \in Positions(todo[u]) /\ todo'[u][q] = todo[u][q + p - 1]
             /\ Len(log) \in Nat /\ Positions(log') = Positions(log) \cup {Len(log) + 1}
             /\ \A i \in Positions(log) : log'[i] = log[i]
             /\ log'[Len(log) + 1].at = current[u] /\ log'[Len(log) + 1].by = u
             /\ log'[Len(log) + 1].sub = todo[u][p].sub
             /\ log'[Len(log) + 1].form = todo[u][p].form
    BY <1>7, EntryOfCall
  <2>2. epc[u] = "calls" /\ epc'[u] = "handler" /\ current' = current
    BY <1>0, <1>7 DEF BeginCall
  <2>3. /\ \A i, q \in Positions(todo[u]) : i < q => Precedes(todo[u][i], todo[u][q])
        /\ \A i \in Positions(log), q \in Positions(todo[u]) :
              log[i].at = current[u] => Precedes(log[i], todo[u][q])
    BY <1>0, <2>2 DEF RiseFor, Calling, FirstToCome, Positions
  <2>4. ASSUME NEW i \in Positions(todo'[u]), NEW q \in Positions(todo'[u]), i < q
        PROVE  Precedes(todo'[u][i], todo'[u][q])
    <3>1. i + p - 1 < q + p - 1
      BY <2>4 DEF Positions
    <3>. QED BY <2>1, <2>3, <3>1
  <2>5. ASSUME NEW i \in Positions(log'), NEW q \in 2..Len(todo'[u]), log'[i].at = current[u]
        PROVE  Precedes(log'[i], todo'[u][q])
    <3>1. q \in Positions(todo'[u]) /\ p < q + p - 1
      BY <2>1 DEF Positions
    <3>2. q + p - 1 \in Positions(todo[u]) /\ todo'[u][q] = todo[u][q + p - 1]
      BY <2>1, <3>1
    <3>3. CASE i \in Positions(log)
      BY <2>1, <2>3, <2>5, <3>2, <3>3
    <3>4. CASE i = Len(log) + 1
      <4>1. Precedes(todo[u][p], todo[u][q + p - 1])
        BY <2>1, <2>3, <3>1, <3>2
      <4>. QED BY <2>1, <3>2, <3>4, <4>1 DEF Precedes
    <3>. QED BY <2>1, <3>3, <3>4
  <2>6. FirstToCome(u)' = 2
    BY <2>2 DEF FirstToCome
  <2>. QED BY <2>2, <2>4, <2>5, <2>6 DEF RiseFor
<1>8. CASE Handler(u)
  <2>1. /\ epc[u] = "handler" /\ epc'[u] = "calls"
        /\ Len(todo[u]) \in Nat /\ Len(todo'[u]) = Len(todo[u]) - 1
        /\ \A q \in 1..Len(todo'[u]) : todo'[u][q] = todo[u][q + 1]
        /\ UNCHANGED <<current, log>>
    BY <1>0, <1>8, HandlerEnds
  <2>2. \A q \in Positions(todo'[u]) :
           q + 1 \in Positions(todo[u]) /\ q + 1 \in 2..Len(todo[u]) /\ todo'[u][q] = todo[u][q + 1]
    BY <2>1 DEF Positions
  <2>3. /\ \A i, q \in Positions(todo[u]) : i < q => Precedes(todo[u][i], todo[u][q])
        /\ \A i \in Positions(log), q \in 2..Len(todo[u]) :
              log[i].at = current[u] => Precedes(log[i], todo[u][q])
    BY <1>0, <2>1 DEF RiseFor, Calling, FirstToCome
  <2>4. ASSUME NEW i \in Positions(todo'[u]), NEW q \in Positions(todo'[u]), i < q
        PROVE  Precedes(todo'[u][i], todo'[u][q])
    <3>1. i + 1 < q + 1
      BY <2>4 DEF Positions
    <3>. QED BY <2>2, <2>3, <3>1
  <2>5. \A i \in Positions(log), q \in Positions(todo'[u]) :
           log[i].at = current[u] => Precedes(log[i], todo'[u][q])
    BY <2>2, <2>3
  <2>6. FirstToCome(u)' = 1
    BY <2>1 DEF FirstToCome
  <2>. QED BY <2>1, <2>4, <2>5, <2>6 DEF RiseFor, Positions
<1>9. CASE Open
  <2>1. epc' = [epc EXCEPT ![opens'] = "get"] /\ UNCHANGED <<current, todo, log>>
    BY <1>9 DEF Open
  <2>2. epc'[u] = epc[u] \/ epc'[u] = "get"
    BY <1>0, <2>1
  <2>. QED BY <1>2, <1>3, <2>1, <2>2
<1>10. CASE User \/ PutStop \/ Clear \/ (\E m \in Traffic : Emit(m)) \/ UNCHANGED vars
  <2>1. UNCHANGED threadVars
    BY <1>10 DEF User, SubscribeAll, Subscribe, Remove, Deactivate, PutStop, Clear, Emit, vars
  <2>. QED BY <1>2, <2>1 DEF threadVars
<1>11. CASE \E t \in Thread : EventLoop(t) \/ Handler(t)
  BY <1>4, <1>5, <1>6, <1>7, <1>8, <1>11 DEF EventLoop
<1>. QED BY <1>9, <1>10, <1>11 DEF Next

(* A call begun comes behind those of its thread and of its message.       *)
LEMMA HandlersNext ==
    ASSUME TypeOK, OneDeliverer, CallsRise, HandlersInOrder, [Next]_vars
    PROVE  HandlersInOrder'
<1>1. CASE log' = log
  BY <1>1 DEF HandlersInOrder
<1>2. ASSUME NEW t \in Thread, BeginCall(t) PROVE HandlersInOrder'
  <2>1. PICK p \in Positions(todo[t]) :
             /\ Len(log) \in Nat /\ Positions(log') = Positions(log) \cup {Len(log) + 1}
             /\ \A i \in Positions(log) : log'[i] = log[i]
             /\ log'[Len(log) + 1].at = current[t] /\ log'[Len(log) + 1].by = t
             /\ log'[Len(log) + 1].sub = todo[t][p].sub
             /\ log'[Len(log) + 1].form = todo[t][p].form
    BY <1>2, EntryOfCall
  <2>2. epc[t] = "calls"
    BY <1>2 DEF BeginCall
  <2>3. \A i \in Positions(log) :
           /\ log[i].by = t => log[i].at <= current[t]
           /\ log[i].at = current[t] => log[i].by = t /\ Precedes(log[i], todo[t][p])
    BY <2>2 DEF OneDeliverer, Delivering, CallsRise, Calling, FirstToCome, Positions
  <2>. SUFFICES ASSUME NEW i \in Positions(log'), NEW j \in Positions(log'), i < j
                PROVE  /\ log'[i].by = log'[j].by => log'[i].at <= log'[j].at
                       /\ log'[i].at = log'[j].at =>
                             log'[i].by = log'[j].by /\ Precedes(log'[i], log'[j])
    BY DEF HandlersInOrder, Positions
  <2>4. i \in Positions(log)
    BY <2>1 DEF Positions
  <2>5. CASE j \in Positions(log)
    BY <2>1, <2>4, <2>5 DEF HandlersInOrder, Positions
  <2>6. CASE j = Len(log) + 1
    BY <2>1, <2>3, <2>4, <2>6 DEF Precedes
  <2>. QED BY <2>1, <2>5, <2>6
<1>3. log' = log \/ \E t \in Thread : BeginCall(t)
  BY DEF Next, User, SubscribeAll, Subscribe, Remove, Deactivate, Open, PutStop, Clear, Emit,
         EventLoop, Handler, Get, Snapshot, Delivered, HandlerReturns, HandlerRaises,
         threadVars, vars
<1>. QED BY <1>1, <1>2, <1>3

LEMMA OrderNext ==
    ASSUME TypeOK, RegistersMatch, ListsRight, CallsSuit, Ordered, [Next]_vars
    PROVE  Ordered'
<1>1. ListsRise' /\ QueueRises'
  BY ListsKeepRising, QueueKeepsRising DEF Ordered
<1>2. OneDeliverer' /\ CallsRise' /\ HandlersInOrder'
  BY DelivererNext, CallsKeepRising, HandlersNext DEF Ordered
<1>. QED BY <1>1, <1>2 DEF Ordered

(* Whatever threads subscribe, unsubscribe, open and close meanwhile,      *)
(* whatever handlers raise, and however long they outlast the join of      *)
(* close(): each event thread goes from one message to later ones, no      *)
(* message is shared by two, and for a message each kind of handler is     *)
(* called once each, in subscription order (_event_loop, _deliver_event).  *)
THEOREM CalledInOrder == Spec => []HandlersInOrder
<1>. DEFINE Inv == TypeOK /\ RegistersInv /\ ListsRight /\ CallsSuit /\ Ordered
<1>1. Init => Inv
  BY TypeInit, InitRegisters, ListsInit, CallsInit, OrderInit
<1>2. Inv /\ [Next]_vars => Inv'
  BY TypeNext, StepRegisters, ListsNext, CallsNext, OrderNext DEF RegistersInv
<1>3. Inv => HandlersInOrder
  BY DEF Ordered
<1>. HIDE DEF Inv
<1>. QED BY <1>1, <1>2, <1>3, PTL DEF Spec

(* The whole invariant, with what each of its parts needs of the           *)
(* constants: it is the one TLC checks.                                    *)
THEOREM InductiveInvariant == Spec => []IInv
<1>. DEFINE Rest == /\ TypeOK /\ RegistersInv /\ ListsRight /\ CallsSuit
                    /\ Ordered /\ SentinelPerThread
                    /\ OneClassPerAddress => NothingMissed
<1>1. Init => Rest
  BY TypeInit, InitRegisters, ListsInit, CallsInit, MissedInit, InitSentinels, OrderInit
<1>2. Rest /\ [Next]_vars => Rest'
  <2>. SUFFICES ASSUME Rest, [Next]_vars PROVE Rest'
    OBVIOUS
  <2>1. TypeOK' /\ RegistersInv' /\ ListsRight' /\ CallsSuit'
    BY TypeNext, StepRegisters, ListsNext, CallsNext DEF RegistersInv
  <2>2. OneClassPerAddress => NothingMissed'
    BY MissedNext DEF RegistersInv
  <2>3. Ordered' /\ SentinelPerThread'
    BY StepSentinels, OrderNext DEF RegistersInv
  <2>4. OneClassPerAddress' <=> OneClassPerAddress
    BY DEF OneClassPerAddress
  <2>. QED BY <2>1, <2>2, <2>3, <2>4
<1>3. Rest => IInv
  BY DEF IInv, RegistersInv
<1>. HIDE DEF Rest
<1>. QED BY <1>1, <1>2, <1>3, PTL DEF Spec

=============================================================================
