--------------------------- MODULE RequestsProofs ---------------------------
(* Theorems about Requests, for every value of its constants.              *)
EXTENDS Requests, TLAPS

USE TrafficAssumption, AddressAssumption, RaiseOnErrorAssumption, BoundAssumption
DEF TrafficAssumption, AddressAssumption, RaiseOnErrorAssumption, BoundAssumption,
    ReaderJoined, FreshQueue, MayWait, Expires, Removed, AllWaiters, WaitersFor,
    Queued, AfterMessage

-----------------------------------------------------------------------------
(* Types                                                                   *)

LEMMA KeyNonempty == (CHOOSE k \in Key : TRUE) \in Key
  <1>1. PICK a \in Address : TRUE
    OBVIOUS
  <1>2. <<a, "Read">> \in Key
    BY DEF Key, ReplyType
  <1> QED BY <1>2

LEMMA ItemTypes ==
  /\ Nothing \in Item /\ Failure \in Item
  /\ \A i \in Position : Reply(i) \in Item
  /\ {Nothing, Failure, TimedOut, WriteFail} \subseteq Outcome
  BY DEF Item, Outcome

LEMMA TypeInit == Init => TypeOK
  <1> SUFFICES ASSUME Init PROVE TypeOK
    OBVIOUS
  <1>1. /\ stream \in Seq(Traffic) /\ eventQueue \in Seq(Position)
        /\ Len(stream) \in 0..MaxArrival /\ taken \in 0..Len(stream) /\ handled \in 0..taken
    BY DEF Init
  <1>2. /\ pending \in [Key -> SUBSET Waiter] /\ box \in [Waiter -> Item]
        /\ key \in [Caller -> Key] /\ outcome \in [Caller -> Outcome]
    BY KeyNonempty, ItemTypes DEF Init
  <1>3. /\ mine \in [Caller -> 0..MaxRequest] /\ born \in [Caller -> 0..MaxArrival]
        /\ pc \in [Caller -> {"idle", "write", "wait", "cleanup"}]
    BY DEF Init
  <1>4. /\ made \in 0..MaxRequest /\ opens \in 0..MaxOpen
        /\ \A c \in Caller : mine[c] <= made /\ ~InFlight(c)
    BY DEF Init, InFlight
  <1> QED BY <1>1, <1>2, <1>3, <1>4 DEF Init, TypeOK

LEMMA RaisedType ==
  ASSUME NEW item \in Item, item # Nothing
  PROVE  Raised(item) \in Outcome
  BY DEF Raised, Item, Outcome, Nothing, Failure, Reply, Result

LEMMA DecodedType ==
  ASSUME NEW o \in Outcome
  PROVE  Decoded(o) \in Outcome
  BY DEF Decoded, Outcome, Nothing, Failure, TimedOut, WriteFail, Reply, Result

\* The key of a message that is not an event.
LEMMA MessageKey ==
  ASSUME TypeOK, NEW i \in 1..Len(stream), stream[i].type # "Event"
  PROVE  <<stream[i].address, stream[i].type>> \in Key
  <1>1. stream[i] \in Message
    BY DEF TypeOK
  <1> QED BY <1>1 DEF Message, Key, ReplyType

LEMMA TypeNext == TypeOK /\ [Next]_vars => TypeOK'
  <1> SUFFICES ASSUME TypeOK, [Next]_vars PROVE TypeOK'
    OBVIOUS
  <1> USE DEF TypeOK, InFlight, lifeVars, readerVars, callerVars
  <1>1. CASE OpenTransport BY <1>1 DEF OpenTransport
  <1>2. CASE StartReader BY <1>2 DEF StartReader
  <1>3. CASE StopRunning BY <1>3 DEF StopRunning
  <1>4. CASE CloseTransport
    <2>1. SubSeq(stream, 1, taken) \in Seq(Traffic) /\ Len(SubSeq(stream, 1, taken)) = taken
      OBVIOUS
    <2>2. /\ stream' \in Seq(Traffic) /\ Len(stream') \in 0..MaxArrival
          /\ taken' \in 0..Len(stream') /\ handled' \in 0..taken'
      BY <1>4, <2>1 DEF CloseTransport
    <2> QED BY <1>4, <2>2 DEF CloseTransport
  <1>5. CASE \E c \in Caller : Call(c) \/ Proceed(c) \/ Timeout(c)
    <2> PICK c \in Caller : Call(c) \/ Proceed(c) \/ Timeout(c)
      BY <1>5
    <2>1. CASE Refuse(c)
      BY <2>1, ItemTypes DEF Refuse
    <2>2. ASSUME NEW k \in Key, Register(c, k) PROVE TypeOK'
      <3>1. made + 1 \in Waiter /\ Offered \in 0..MaxArrival /\ made' = made + 1
        BY <2>2 DEF Register, Waiter, Offered
      <3>2. pending' \in [Key -> SUBSET Waiter]
        BY <2>2, <3>1 DEF Register
      <3> QED BY <2>2, <3>1, <3>2, ItemTypes DEF Register, Waiter
    <2>3. CASE Write(c) BY <2>3 DEF Write
    <2>4. CASE WriteFails(c) BY <2>4, ItemTypes DEF WriteFails
    <2>5. CASE Receive(c)
      BY <2>5, RaisedType DEF Receive, Waiting, Waiter
    <2>6. CASE Cleanup(c)
      BY <2>6, DecodedType DEF Cleanup
    <2>7. CASE Timeout(c) BY <2>7, ItemTypes DEF Timeout, Waiting
    <2> QED BY <2>1, <2>2, <2>3, <2>4, <2>5, <2>6, <2>7 DEF Call, Proceed
  <1>6. CASE Reader
    <2>1. CASE Loop BY <2>1 DEF Loop
    <2>2. CASE ReadChunk BY <2>2 DEF ReadChunk
    <2>3. CASE ReadIdle BY <2>3 DEF ReadIdle
    <2>4. CASE ReadFails BY <2>4 DEF ReadFails
    <2>5. CASE JudgeFailure BY <2>5 DEF JudgeFailure
    <2>6. CASE Sweep BY <2>6 DEF Sweep
    <2>7. ASSUME NEW w \in Waiter, Report(w) PROVE TypeOK'
      BY <2>7, ItemTypes DEF Report, Put
    <2>8. ASSUME NEW w \in Waiter, PutReply(w) PROVE TypeOK'
      <3>1. handled + 1 \in Position
        BY <2>8 DEF PutReply, Position
      <3> QED BY <2>8, <3>1, ItemTypes DEF PutReply, Put
    <2>9. CASE Reported BY <2>9 DEF Reported
    <2>10. CASE ChunkDone BY <2>10 DEF ChunkDone
    <2>11. CASE Dispatch
      <3>1. handled + 1 \in 1..Len(stream)
        BY <2>11 DEF Dispatch
      <3> QED BY <2>11, <3>1, MessageKey DEF Dispatch
    <2>12. CASE PutDone BY <2>12 DEF PutDone
    <2>13. CASE Enqueue
      <3>1. handled + 1 \in Position
        BY <2>13 DEF Enqueue, Position
      <3> QED BY <2>13, <3>1 DEF Enqueue
    <2> QED BY <1>6, <2>1, <2>2, <2>3, <2>4, <2>5, <2>6, <2>7, <2>8, <2>9, <2>10,
              <2>11, <2>12, <2>13 DEF Reader
  <1>7. ASSUME NEW m \in Traffic, Arrive(m) PROVE TypeOK'
    BY <1>7 DEF Arrive
  <1>8. CASE UNCHANGED vars BY <1>8 DEF vars
  <1> QED BY <1>1, <1>2, <1>3, <1>4, <1>5, <1>6, <1>7, <1>8 DEF Next, Lifecycle

\* Every variable keeps its type: no key, queue or message that does not exist is
\* ever used by a thread.
THEOREM TypeCorrect == Spec => []TypeOK
  BY TypeInit, TypeNext, PTL DEF Spec

-----------------------------------------------------------------------------
(* The inductive invariant                                                 *)

LEMMA StructureInit == Init => Structure
  <1> SUFFICES ASSUME Init PROVE Structure
    OBVIOUS
  <1>1. TypeOK
    BY TypeInit
  <1>2. PendingExact
    BY DEF Init, PendingExact, InFlight
  <1>3. OneReader /\ OwnQueues /\ Unmade /\ Held /\ NoLostWakeup
    BY DEF Init, OneReader, OwnQueues, Unmade, Held, NoLostWakeup, Nothing
  <1> QED BY <1>1, <1>2, <1>3 DEF Structure

\* PendingExact, one queue at a time.
Registered(w, k) == \E d \in Caller : InFlight(d) /\ key[d] = k /\ mine[d] = w

ByMember ==
  \A k \in Key : \A w \in Waiter : w \in pending[k] <=> ~fault /\ Registered(w, k)

LEMMA PendingByMember == TypeOK => (PendingExact <=> ByMember)
  <1> SUFFICES ASSUME TypeOK PROVE PendingExact <=> ByMember
    OBVIOUS
  <1>1. \A c \in Caller : InFlight(c) => mine[c] \in Waiter
    BY DEF TypeOK, Waiter
  <1>2. \A k \in Key : {mine[c] : c \in {d \in Caller : InFlight(d) /\ key[d] = k}}
                          = {w \in Waiter : Registered(w, k)}
    BY <1>1 DEF Registered
  <1> QED BY <1>2 DEF PendingExact, ByMember, TypeOK

LEMMA PendingByMemberNext == TypeOK' => (PendingExact' <=> ByMember')
  BY PendingByMember, PTL

LEMMA OneReaderNext == OneReader /\ [Next]_vars => OneReader'
  <1> SUFFICES ASSUME OneReader, [Next]_vars PROVE OneReader'
    OBVIOUS
  <1> USE DEF OneReader, lifeVars, readerVars, callerVars
  <1>1. CASE Lifecycle
    BY <1>1 DEF Lifecycle, OpenTransport, StartReader, StopRunning, CloseTransport
  <1>2. CASE Reader
    BY <1>2 DEF Reader, Loop, ReadChunk, ReadIdle, ReadFails, JudgeFailure, Sweep,
                Report, PutReply, Reported, ChunkDone, Dispatch, PutDone, Enqueue
  <1>3. CASE \E c \in Caller : Call(c) \/ Proceed(c) \/ Timeout(c)
    BY <1>3 DEF Call, Refuse, Register, Proceed, Write, WriteFails, Receive, Cleanup, Timeout
  <1>4. CASE \E m \in Traffic : Arrive(m)
    BY <1>4 DEF Arrive
  <1>5. CASE UNCHANGED vars
    BY <1>5 DEF vars
  <1> QED BY <1>1, <1>2, <1>3, <1>4, <1>5 DEF Next

LEMMA CallerStep ==
  ASSUME Structure, NEW c \in Caller, Call(c) \/ Proceed(c) \/ Timeout(c), TypeOK', OneReader'
  PROVE  Structure'
  <1> USE DEF TypeOK, lifeVars, readerVars, callerVars, InFlight, Waiting, Answers
  <1>1. CASE Refuse(c)
    BY <1>1 DEF Refuse, Structure, OwnQueues, Unmade, Held, PendingExact, NoLostWakeup
  <1>2. ASSUME NEW k \in Key, Register(c, k) PROVE Structure'
    <2> USE <1>2
    <2>1. made + 1 \in Waiter /\ made' = made + 1 /\ mine' = [mine EXCEPT ![c] = made + 1]
      BY DEF Register, Waiter
    <2>2. OwnQueues'
      BY <2>1 DEF Register, Structure, OwnQueues
    <2>3. Unmade'
      BY <2>1 DEF Register, Structure, Unmade, Waiter
    <2>4. Held'
      BY <2>1, SMTT(40) DEF Register, Structure, Held, Unmade
    <2>5. PendingExact'
      <3>1. \A d \in Caller : mine[d] # made'
        BY <2>1 DEF Structure
      <3>2. ASSUME NEW j \in Key, NEW w \in Waiter
            PROVE  Registered(w, j)' <=> Registered(w, j) \/ (j = k /\ w = made')
        BY <2>1, <3>1 DEF Register, Registered
      <3>3. ASSUME NEW j \in Key, NEW w \in Waiter
            PROVE  w \in pending'[j] <=> w \in pending[j] \/ (j = k /\ w = made')
        BY DEF Register
      <3>4. ByMember /\ ~fault /\ ~fault'
        BY PendingByMember DEF Structure, Register
      <3>5. ByMember'
        BY <3>2, <3>3, <3>4 DEF ByMember
      <3> QED BY <3>5, PendingByMemberNext
    <2>6. NoLostWakeup'
      BY <2>1 DEF Register, Structure, NoLostWakeup
    <2> QED BY <2>2, <2>3, <2>4, <2>5, <2>6 DEF Structure
  <1>3. CASE Write(c)
    BY <1>3 DEF Write, Structure, OwnQueues, Unmade, Held, PendingExact, NoLostWakeup
  <1>4. CASE WriteFails(c)
    BY <1>4 DEF WriteFails, Structure, OwnQueues, Unmade, Held, PendingExact, NoLostWakeup
  <1>5. CASE Receive(c)
    BY <1>5 DEF Receive, Structure, OwnQueues, Unmade, Held, PendingExact, NoLostWakeup
  <1>6. CASE Timeout(c)
    BY <1>6 DEF Timeout, Structure, OwnQueues, Unmade, Held, PendingExact, NoLostWakeup
  <1>7. CASE Cleanup(c)
    <2> USE <1>7
    <2>1. OwnQueues' /\ Unmade' /\ Held' /\ NoLostWakeup'
      BY DEF Cleanup, Structure, OwnQueues, Unmade, Held, NoLostWakeup, PendingExact
    <2>2. PendingExact'
      <3>1. \A d \in Caller : d # c => mine[d] # mine[c]
        BY DEF Cleanup, Structure, OwnQueues
      <3>2. ASSUME NEW j \in Key, NEW w \in Waiter
            PROVE  Registered(w, j)' <=> Registered(w, j) /\ ~(j = key[c] /\ w = mine[c])
        BY <3>1 DEF Cleanup, Registered
      <3>3. ASSUME NEW j \in Key, NEW w \in Waiter
            PROVE  w \in pending'[j] <=> w \in pending[j] /\ ~(j = key[c] /\ w = mine[c])
        BY DEF Cleanup
      <3>4. ByMember /\ fault' = fault
        BY PendingByMember DEF Structure, Cleanup
      <3>5. ByMember'
        BY <3>2, <3>3, <3>4 DEF ByMember
      <3> QED BY <3>5, PendingByMemberNext
    <2> QED BY <2>1, <2>2 DEF Structure
  <1> QED BY <1>1, <1>2, <1>3, <1>4, <1>5, <1>6, <1>7 DEF Call, Proceed

LEMMA PendingMade ==
  ASSUME Structure, NEW k \in Key, NEW w \in pending[k]
  PROVE  w <= made /\ ~fault /\ \A c \in Caller : InFlight(c) /\ mine[c] = w => key[c] = k
  <1>1. w \in Waiter /\ ~fault /\ Registered(w, k)
    BY PendingByMember DEF Structure, TypeOK, ByMember
  <1>2. PICK d \in Caller : InFlight(d) /\ key[d] = k /\ mine[d] = w
    BY <1>1 DEF Registered
  <1>3. mine[d] <= made /\ mine[d] # 0
    BY <1>2 DEF Structure, TypeOK
  <1> QED BY <1>1, <1>2, <1>3 DEF Structure, OwnQueues

\* A step that leaves the callers, the queues and _pending alone.
LEMMA QuietStep ==
  ASSUME Structure, TypeOK', OneReader', Held',
         UNCHANGED <<targets, fault, pending, box, pc, made, mine, key>>
  PROVE  Structure'
  <1>1. OwnQueues' /\ Unmade' /\ NoLostWakeup'
    BY DEF Structure, OwnQueues, Unmade, NoLostWakeup
  <1>2. PendingExact'
    BY DEF Structure, PendingExact, InFlight
  <1> QED BY <1>1, <1>2 DEF Structure

LEMMA ReaderStep ==
  ASSUME Structure, Reader, TypeOK', OneReader'
  PROVE  Structure'
  <1> USE DEF lifeVars, readerVars, callerVars, InFlight, Answers
  <1>1. CASE Loop \/ ReadChunk \/ ReadIdle \/ ReadFails \/ JudgeFailure
    <2>1. Held'
      BY <1>1 DEF Loop, ReadChunk, ReadIdle, ReadFails, JudgeFailure, Structure, Held
    <2> QED BY <1>1, <2>1, QuietStep
            DEF Loop, ReadChunk, ReadIdle, ReadFails, JudgeFailure
  <1>2. CASE Sweep
    <2>1. targets = {}
      BY <1>2 DEF Sweep, Structure, Held
    <2>2. Unmade' /\ OwnQueues' /\ Held'
      <3>1. \A k \in Key : \A w \in pending[k] : w <= made
        BY PendingMade
      <3> QED BY <1>2, <3>1 DEF Sweep, Structure, Unmade, OwnQueues, Held
    <2>3. PendingExact'
      BY <1>2 DEF Sweep, PendingExact
    <2>4. NoLostWakeup'
      BY <1>2, <2>1 DEF Sweep, Structure, TypeOK, NoLostWakeup
    <2> QED BY <2>2, <2>3, <2>4 DEF Structure
  <1>3. ASSUME NEW w \in Waiter, Report(w) \/ PutReply(w) PROVE Structure'
    <2>1. PICK item : item # Nothing /\ Put(w, item)
      BY <1>3 DEF Report, PutReply, Failure, Reply, Result, Nothing
    <2>2. /\ box' = [box EXCEPT ![w] = IF @ = Nothing THEN item ELSE @]
          /\ targets' = targets \ {w} /\ w \in targets
          /\ UNCHANGED <<lifeVars, rpc, taken, handled, eventQueue, stream, fault,
                         pending, callerVars>>
      BY <1>3, <2>1 DEF Report, PutReply, Put
    <2>3. OwnQueues' /\ Held'
      BY <2>2 DEF Structure, OwnQueues, Held
    <2>4. PendingExact'
      BY <2>2 DEF Structure, PendingExact
    <2>5. Unmade'
      <3>1. w <= made /\ box \in [Waiter -> Item] /\ made \in Nat /\ made' = made
        BY <2>2 DEF Structure, Unmade, TypeOK
      <3> QED BY <2>2, <3>1 DEF Structure, Unmade, Waiter
    <2>6. NoLostWakeup'
      BY <2>1, <2>2 DEF Structure, NoLostWakeup, TypeOK, Waiter
    <2> QED BY <2>3, <2>4, <2>5, <2>6 DEF Structure
  <1>4. CASE Reported \/ ChunkDone \/ PutDone
    <2>1. Held'
      BY <1>4 DEF Reported, ChunkDone, PutDone, Structure, Held
    <2> QED BY <1>4, <2>1, QuietStep DEF Reported, ChunkDone, PutDone
  <1>5. CASE Dispatch
    <2>1. targets = {}
      BY <1>5 DEF Dispatch, Structure, Held
    <2>2. \A k \in Key : \A w \in pending[k] : w <= made
      BY PendingMade
    <2>3. CASE stream[handled + 1].type = "Event"
      <3>1. Held'
        BY <1>5, <2>1, <2>3 DEF Dispatch, Structure, Held
      <3> QED BY <1>5, <2>3, <3>1, QuietStep DEF Dispatch
    <2>4. CASE stream[handled + 1].type # "Event"
      <3> DEFINE k == <<stream[handled + 1].address, stream[handled + 1].type>>
      <3>1. k \in Key
        <4>1. handled + 1 \in 1..Len(stream)
          BY <1>5 DEF Dispatch, Structure, TypeOK
        <4> QED BY <2>4, <4>1, MessageKey DEF Structure
      <3>2. targets' = pending[k] /\ rpc' = "put"
        BY <1>5, <2>4 DEF Dispatch
      <3>3. \A c \in Caller : InFlight(c) /\ mine[c] \in pending[k] => key[c] = k
        BY <3>1, PendingMade
      <3>4. fault => pending[k] = {}
        BY <3>1 DEF Structure, PendingExact
      <3>5. Held'
        BY <1>5, <3>2, <3>3, <3>4 DEF Dispatch, Held
      <3>6. NoLostWakeup'
        BY <1>5, <2>1, <3>2 DEF Dispatch, Structure, NoLostWakeup
      <3>7. UNCHANGED <<fault, pending, box, pc, made, mine, key>>
        BY <1>5 DEF Dispatch
      <3>8. OwnQueues' /\ PendingExact'
        <4>1. OwnQueues'
          BY <3>7 DEF Structure, OwnQueues
        <4>2. PendingExact'
          BY <3>7 DEF Structure, PendingExact
        <4> QED BY <4>1, <4>2
      <3>9. Unmade'
        BY <1>5, <2>2, <3>1, <3>2 DEF Dispatch, Structure, Unmade
      <3> QED BY <3>5, <3>6, <3>8, <3>9 DEF Structure
    <2> QED BY <2>3, <2>4
  <1>6. CASE Enqueue
    <2>1. Held'
      BY <1>6 DEF Enqueue, Structure, Held
    <2> QED BY <1>6, <2>1, QuietStep DEF Enqueue
  <1> QED BY <1>1, <1>2, <1>3, <1>4, <1>5, <1>6 DEF Reader

LEMMA OtherStep ==
  ASSUME Structure, TypeOK', OneReader',
         Lifecycle \/ (\E m \in Traffic : Arrive(m)) \/ UNCHANGED vars
  PROVE  Structure'
  <1> USE DEF lifeVars, readerVars, callerVars, InFlight, Answers
  <1>1. CASE Lifecycle
    <2>1. Held'
      <3>1. CASE OpenTransport BY <3>1 DEF OpenTransport, Structure, Held
      <3>2. CASE StartReader
        <4>1. rpc = "off"
          BY <3>2 DEF StartReader, Structure, OneReader
        <4> QED BY <3>2, <4>1 DEF StartReader, Structure, Held
      <3>3. CASE StopRunning BY <3>3 DEF StopRunning, Structure, Held
      <3>4. CASE CloseTransport BY <3>4 DEF CloseTransport, Structure, Held
      <3> QED BY <1>1, <3>1, <3>2, <3>3, <3>4 DEF Lifecycle
    <2> QED BY <1>1, <2>1, QuietStep
            DEF Lifecycle, OpenTransport, StartReader, StopRunning, CloseTransport
  <1>2. ASSUME NEW m \in Traffic, Arrive(m) PROVE Structure'
    <2>1. rpc = "put" => stream'[handled + 1] = stream[handled + 1]
      BY <1>2 DEF Arrive, Structure, TypeOK
    <2>2. Held'
      BY <1>2, <2>1 DEF Arrive, Structure, Held
    <2> QED BY <1>2, <2>2, QuietStep DEF Arrive
  <1>3. CASE UNCHANGED vars
    <2>1. Held'
      BY <1>3 DEF vars, Structure, Held
    <2> QED BY <1>3, <2>1, QuietStep DEF vars
  <1> QED BY <1>1, <1>2, <1>3

THEOREM StructureKept == Spec => []Structure
  <1>1. Structure /\ [Next]_vars => Structure'
    <2> SUFFICES ASSUME Structure, [Next]_vars PROVE Structure'
      OBVIOUS
    <2>1. TypeOK' /\ OneReader'
      BY TypeNext, OneReaderNext DEF Structure
    <2> QED BY <2>1, CallerStep, ReaderStep, OtherStep DEF Next
  <1> QED BY <1>1, StructureInit, PTL DEF Spec

\* No wakeup is lost and no waiter is leaked, whatever the interleaving of the
\* callers, the reader, the device and close().
THEOREM WaitersAreKept == Spec => [](NoLostWakeup /\ PendingExact)
  <1>1. Structure => NoLostWakeup /\ PendingExact
    BY DEF Structure
  <1> QED BY <1>1, StructureKept, PTL

-----------------------------------------------------------------------------
(* What the queues hold, against the stream                                *)

\* The reader does not go back: what has been offered stays offered, and the messages
\* up to there stay where they are in the stream, even across close().
LEMMA OfferedGrows ==
  ASSUME Structure, [Next]_vars
  PROVE  /\ Offered \in Nat /\ Offered' \in Nat /\ Offered <= Offered' /\ handled <= handled'
         /\ Offered <= Len(stream)
         /\ \A j \in 1..Offered : stream'[j] = stream[j]
  <1> USE DEF Structure, TypeOK, Offered, OneReader, lifeVars, readerVars, callerVars
  <1>1. CASE Lifecycle
    <2>1. CASE CloseTransport
      <3>1. \A j \in 1..Offered : SubSeq(stream, 1, taken)[j] = stream[j]
        OBVIOUS
      <3> QED BY <2>1, <3>1 DEF CloseTransport
    <2> QED BY <1>1, <2>1 DEF Lifecycle, OpenTransport, StartReader, StopRunning
  <1>2. CASE Reader
    BY <1>2, SMTT(40) DEF Reader, Loop, ReadChunk, ReadIdle, ReadFails, JudgeFailure, Sweep,
                Report, PutReply, Reported, ChunkDone, Dispatch, PutDone, Enqueue,
                AfterMessage
  <1>3. CASE \E c \in Caller : Call(c) \/ Proceed(c) \/ Timeout(c)
    BY <1>3 DEF Call, Refuse, Register, Proceed, Write, WriteFails, Receive, Cleanup, Timeout
  <1>4. ASSUME NEW m \in Traffic, Arrive(m)
        PROVE  /\ Offered' = Offered /\ handled' = handled
               /\ \A j \in 1..Offered : stream'[j] = stream[j]
    BY <1>4 DEF Arrive
  <1>5. CASE UNCHANGED vars
    BY <1>5 DEF vars
  <1> QED BY <1>1, <1>2, <1>3, <1>4, <1>5 DEF Next

\* So what was true of them stays true.
LEMMA AnswersStay ==
  ASSUME Structure, [Next]_vars, NEW c \in Caller, born[c] <= Offered,
         key'[c] = key[c], born'[c] = born[c]
  PROVE  /\ \A i \in 1..Offered : Answers(i, key[c])' <=> Answers(i, key[c])
         /\ \A i \in Position : FirstAnswer(c, i) => FirstAnswer(c, i)'
         /\ \A n \in 0..Offered : NoAnswerUpTo(c, n) => NoAnswerUpTo(c, n)'
  <1>1. /\ Offered \in Nat /\ Offered' \in Nat /\ Offered <= Offered'
        /\ \A j \in 1..Offered : stream'[j] = stream[j]
    BY OfferedGrows
  <1>2. \A i \in 1..Offered : Answers(i, key[c])' <=> Answers(i, key[c])
    BY <1>1 DEF Answers
  <1>3. born[c] \in Nat
    BY DEF Structure, TypeOK
  <1>4. \A n \in 0..Offered : NoAnswerUpTo(c, n) => NoAnswerUpTo(c, n)'
    BY <1>1, <1>2, <1>3 DEF NoAnswerUpTo
  <1>5. \A i \in Position : FirstAnswer(c, i) => FirstAnswer(c, i)'
    BY <1>1, <1>2, <1>3 DEF FirstAnswer, Position
  <1> QED BY <1>2, <1>4, <1>5

LEMMA TracedInit == Init => Traced /\ RepliesAreFirst /\ EventsQueued
  BY DEF Init, Traced, TracedFor, RepliesAreFirst, EventsQueued, Offered, InFlight, Nothing, Result

LEMMA ItemKinds ==
  \A item \in Item : /\ item.kind = "reply" => item.at \in Position /\ item # Nothing
                     /\ item.kind # "reply" => item.at = 0
  BY DEF Item, Nothing, Failure, Reply, Result

\* A step that leaves a request in flight, its queue and what the reader holds alone,
\* and offers no message.
LEMMA Unmoved ==
  ASSUME Structure, [Next]_vars, NEW c \in Caller, TracedFor(c),
         pc'[c] = pc[c] \/ pc'[c] \notin {"write", "wait"} \/ pc[c] = "write",
         InFlight(c)' => InFlight(c),
         key'[c] = key[c], born'[c] = born[c], mine'[c] = mine[c],
         Offered' = Offered,
         mine[c] \in targets' => mine[c] \in targets /\ handled' = handled,
         InFlight(c) => box'[mine[c]] = box[mine[c]] /\ (mine[c] \in targets => mine[c] \in targets')
  PROVE  TracedFor(c)'
  <1> USE DEF TracedFor, InFlight
  <1>1. Offered \in Nat /\ handled \in 0..Offered
    BY DEF Structure, TypeOK, Offered
  <1>2. (born[c] <= Offered)' /\ (InFlight(c) /\ mine[c] \in targets => born[c] <= handled)'
    BY <1>1
  <1>3. ASSUME (pc[c] \in {"write", "wait"} /\ box[mine[c]] = Nothing)'
        PROVE  MissedNothing(c)'
    <2>1. MissedNothing(c)
      BY <1>3
    <2>2. CASE mine[c] \in targets
      BY <1>1, <1>3, <2>1, <2>2, AnswersStay DEF MissedNothing
    <2>3. CASE mine[c] \notin targets
      BY <1>1, <1>3, <2>1, <2>3, AnswersStay DEF MissedNothing
    <2> QED BY <2>2, <2>3
  <1>4. ASSUME (pc[c] \in {"write", "wait"} /\ box[mine[c]].kind = "reply")'
        PROVE  FirstAnswer(c, box[mine[c]].at)'
    <2> DEFINE i == box[mine[c]].at
    <2>1. FirstAnswer(c, i) /\ i' = i
      BY <1>4
    <2>2. i \in Position
      BY <1>4, ItemKinds DEF Structure, TypeOK, Waiter
    <2>3. ASSUME NEW n \in Position, FirstAnswer(c, n) PROVE FirstAnswer(c, n)'
      BY <2>3, AnswersStay
    <2> HIDE DEF i
    <2>4. FirstAnswer(c, i)'
      BY <2>1, <2>2, <2>3 DEF FirstAnswer
    <2> QED BY <2>4 DEF i
  <1> QED BY <1>2, <1>3, <1>4

LEMMA TracedCaller ==
  ASSUME Structure, Structure', [Next]_vars, Traced,
         NEW c \in Caller, Call(c) \/ Proceed(c) \/ Timeout(c)
  PROVE  Traced'
  <1> SUFFICES ASSUME NEW d \in Caller PROVE TracedFor(d)'
    BY DEF Traced
  <1> USE DEF InFlight, Waiting, lifeVars, readerVars, callerVars
  <1>1. TracedFor(d) /\ pc \in [Caller -> {"idle", "write", "wait", "cleanup"}]
    BY DEF Traced, Structure, TypeOK
  <1>2. CASE \E k \in Key : Register(c, k)
    <2> PICK k \in Key : Register(c, k)
      BY <1>2
    <2>1. UNCHANGED <<box, targets, handled, Offered>>
      BY DEF Register, Offered
    <2>2. CASE d # c
      <3>1. UNCHANGED <<pc[d], key[d], born[d], mine[d]>>
        BY <2>2 DEF Register, Structure, TypeOK
      <3> QED BY <1>1, <2>1, <3>1, Unmoved
    <2>3. CASE d = c
      <3>1. mine'[d] = made + 1 /\ born'[d] = Offered /\ made + 1 \in Waiter
        BY <2>3 DEF Register, Structure, TypeOK, Waiter
      <3>2. mine'[d] \notin targets' /\ box'[mine'[d]] = Nothing
        BY <2>1, <3>1, SMTT(40) DEF Structure, TypeOK, Unmade
      <3>3. NoAnswerUpTo(d, Offered)'
        BY <2>1, <3>1, OfferedGrows DEF NoAnswerUpTo
      <3> QED BY <2>1, <3>1, <3>2, <3>3, OfferedGrows
              DEF TracedFor, MissedNothing, NoAnswerUpTo, Nothing, Result
    <2> QED BY <2>2, <2>3
  <1>3. CASE Refuse(c) \/ Proceed(c) \/ Timeout(c)
    <2>1. UNCHANGED <<box, targets, handled, Offered, key, born, mine>>
      BY <1>3 DEF Refuse, Proceed, Write, WriteFails, Receive, Cleanup, Timeout, Offered
    <2>2. /\ pc'[d] = pc[d] \/ pc'[d] \notin {"write", "wait"} \/ pc[d] = "write"
          /\ InFlight(d)' => InFlight(d)
      BY <1>1, <1>3 DEF Refuse, Proceed, Write, WriteFails, Receive, Cleanup, Timeout
    <2> QED BY <1>1, <2>1, <2>2, Unmoved
  <1> QED BY <1>2, <1>3 DEF Call

\* The request whose queue the reader fills gets the message being dispatched.
LEMMA TracedFill ==
  ASSUME Structure, Structure', [Next]_vars, Traced,
         NEW w \in Waiter, Report(w) \/ PutReply(w)
  PROVE  Traced'
  <1> SUFFICES ASSUME NEW d \in Caller PROVE TracedFor(d)'
    BY DEF Traced
  <1> USE DEF InFlight, lifeVars, readerVars, callerVars
  <1>1. TracedFor(d)
    BY DEF Traced
  <1>2. /\ UNCHANGED <<pc, key, born, mine, handled, Offered>>
        /\ w \in targets /\ targets' = targets \ {w}
        /\ \A v \in Waiter : v # w => box'[v] = box[v]
    BY DEF Report, PutReply, Put, Offered, Structure, TypeOK
  <1>3. InFlight(d) => mine[d] \in Waiter
    BY SMTT(40) DEF Structure, TypeOK, Waiter
  <1>4. CASE ~InFlight(d) \/ mine[d] # w
    BY <1>1, <1>2, <1>3, <1>4, Unmoved
  <1>5. CASE InFlight(d) /\ mine[d] = w /\ box[w] # Nothing
    <2>1. box'[w] = box[w]
      BY <1>5 DEF Report, PutReply, Put, Structure, TypeOK
    <2>2. box[w].kind = "reply" => box[w].at \in Position
      BY ItemKinds DEF Structure, TypeOK
    <2>3. born'[d] <= Offered' /\ mine'[d] \notin targets'
      BY <1>1, <1>2, <1>5 DEF TracedFor
    <2>4. ASSUME pc[d] \in {"write", "wait"}, box[w].kind = "reply"
          PROVE  FirstAnswer(d, box[w].at)'
      <3> DEFINE i == box[w].at
      <3>1. FirstAnswer(d, i)
        BY <1>1, <1>5, <2>4 DEF TracedFor
      <3>2. i \in Position /\ i' = i
        BY <2>1, <2>2, <2>4
      <3>3. ASSUME NEW n \in Position, FirstAnswer(d, n) PROVE FirstAnswer(d, n)'
        BY <1>1, <1>2, <3>3, AnswersStay DEF TracedFor
      <3> HIDE DEF i
      <3>4. FirstAnswer(d, i)'
        BY <3>1, <3>2, <3>3 DEF FirstAnswer
      <3> QED BY <3>4 DEF i
    <2> QED BY <1>2, <1>5, <2>1, <2>3, <2>4 DEF TracedFor
  <1>6. CASE InFlight(d) /\ mine[d] = w /\ box[w] = Nothing
    <2>1. born'[d] <= Offered' /\ mine'[d] \notin targets'
      BY <1>1, <1>2, <1>6 DEF TracedFor
    <2>2. CASE Report(w)
      <3>1. box'[w] = Failure
        BY <1>6, <2>2 DEF Report, Put, Structure, TypeOK
      <3> QED BY <1>2, <1>6, <2>1, <3>1 DEF TracedFor, Failure, Nothing, Result
    <2>3. CASE PutReply(w)
      <3>1. rpc = "put" /\ box'[w] = Reply(handled + 1)
        BY <1>6, <2>3 DEF PutReply, Put, Structure, TypeOK
      <3>2. Answers(handled + 1, key[d]) /\ handled + 1 = Offered /\ handled \in Nat
        BY <1>2, <1>6, <3>1 DEF Structure, TypeOK, Held, Offered
      <3>3. pc[d] \in {"write", "wait"} => FirstAnswer(d, handled + 1)
        <4>1. born[d] \in Nat /\ born[d] <= handled
          BY <1>1, <1>2, <1>6 DEF TracedFor, Structure, TypeOK
        <4>2. pc[d] \in {"write", "wait"} => NoAnswerUpTo(d, handled)
          BY <1>1, <1>2, <1>6 DEF TracedFor, MissedNothing
        <4> QED BY <3>2, <4>1, <4>2 DEF FirstAnswer, NoAnswerUpTo
      <3>4. stream' = stream /\ Offered' = Offered /\ handled' = handled
        BY <1>2, <2>3 DEF PutReply
      <3>5. pc[d] \in {"write", "wait"} => FirstAnswer(d, handled + 1)'
        BY <1>2, <3>3, <3>4 DEF FirstAnswer, Answers
      <3> QED BY <1>2, <1>6, <2>1, <3>1, <3>4, <3>5 DEF TracedFor, Reply, Nothing, Result, FirstAnswer
    <2> QED BY <2>2, <2>3
  <1> QED BY <1>4, <1>5, <1>6

\* A message that does not answer a request leaves it waiting; one that does finds it
\* in _pending, and the reader takes it from there.
LEMMA TracedDispatch ==
  ASSUME Structure, Structure', [Next]_vars, Traced, Dispatch
  PROVE  Traced'
  <1> SUFFICES ASSUME NEW d \in Caller PROVE TracedFor(d)'
    BY DEF Traced
  <1> USE DEF InFlight, lifeVars, readerVars, callerVars
  <1>1. TracedFor(d) /\ key[d] \in Key /\ born[d] \in Nat
    BY DEF Traced, Structure, TypeOK
  <1>2. /\ UNCHANGED <<pc, key, born, mine, handled, box, stream, fault, pending>>
        /\ targets = {} /\ Offered = handled /\ Offered' = handled + 1
        /\ handled + 1 \in 1..Len(stream) /\ handled \in Nat
    BY DEF Dispatch, Structure, TypeOK, Held, Offered
  <1>3. born[d] <= handled /\ (born[d] <= Offered)'
    BY <1>1, <1>2 DEF TracedFor
  <1>4. ASSUME pc[d] \in {"write", "wait"}, box[mine[d]] = Nothing
        PROVE  MissedNothing(d)'
    <2>1. NoAnswerUpTo(d, handled)
      BY <1>1, <1>2, <1>4 DEF TracedFor, MissedNothing
    <2>2. CASE mine[d] \in targets'
      BY <1>2, <2>1, <2>2 DEF MissedNothing, NoAnswerUpTo, Answers
    <2>3. CASE mine[d] \notin targets'
      <3>1. ~Answers(handled + 1, key[d])
        <4>1. CASE stream[handled + 1].type = "Event"
          BY <1>1, <4>1 DEF Answers, Key, ReplyType
        <4>2. CASE stream[handled + 1].type # "Event"
          <5>1. mine[d] \in pending[key[d]]
            BY <1>2, <1>4 DEF Structure, NoLostWakeup
          <5>2. targets' = pending[<<stream[handled + 1].address, stream[handled + 1].type>>]
            BY <4>2 DEF Dispatch
          <5> QED BY <2>3, <5>1, <5>2 DEF Answers
        <4> QED BY <4>1, <4>2
      <3>2. NoAnswerUpTo(d, handled + 1)
        BY <1>1, <1>2, <2>1, <3>1 DEF NoAnswerUpTo
      <3> QED BY <1>2, <2>3, <3>2 DEF MissedNothing, NoAnswerUpTo, Answers
    <2> QED BY <2>2, <2>3
  <1>5. ASSUME pc[d] \in {"write", "wait"}, box[mine[d]].kind = "reply"
        PROVE  FirstAnswer(d, box[mine[d]].at)'
    <2>1. FirstAnswer(d, box[mine[d]].at) /\ box[mine[d]].at \in Position
      BY <1>1, <1>5, ItemKinds, SMTT(40) DEF TracedFor, Structure, TypeOK, Waiter
    <2> QED BY <1>2, <2>1 DEF FirstAnswer, Answers, Position
  <1> QED BY <1>2, <1>3, <1>4, <1>5 DEF TracedFor

LEMMA TracedReader ==
  ASSUME Structure, Structure', [Next]_vars, Traced, Reader
  PROVE  Traced'
  <1> USE DEF InFlight, lifeVars, readerVars, callerVars
  <1>1. CASE Loop \/ ReadChunk \/ ReadIdle \/ ReadFails \/ JudgeFailure \/ Reported
             \/ ChunkDone \/ PutDone \/ Enqueue
    <2>1. UNCHANGED <<pc, key, born, mine, box, targets>> /\ Offered' = Offered
      BY <1>1 DEF Loop, ReadChunk, ReadIdle, ReadFails, JudgeFailure, Reported,
                  ChunkDone, PutDone, Enqueue, Offered
    <2>2. targets = {} \/ handled' = handled
      BY <1>1 DEF Loop, ReadChunk, ReadIdle, ReadFails, JudgeFailure, Reported,
                  ChunkDone, PutDone, Enqueue, Structure, Held
    <2> QED BY <2>1, <2>2, Unmoved DEF Traced
  <1>2. CASE Sweep
    <2> SUFFICES ASSUME NEW d \in Caller PROVE TracedFor(d)'
      BY DEF Traced
    <2>1. /\ UNCHANGED <<pc, key, born, mine, box, handled, stream>>
          /\ Offered = handled /\ Offered' = handled /\ targets = {}
      BY <1>2 DEF Sweep, Offered, Structure, Held
    <2>2. TracedFor(d) /\ (pc[d] \in {"write", "wait"} => mine[d] \in Waiter)
      BY SMTT(40) DEF Traced, Structure, TypeOK, Waiter
    <2>3. FirstAnswer(d, box[mine[d]].at) => FirstAnswer(d, box[mine[d]].at)'
      BY <2>1 DEF FirstAnswer, Answers
    <2>4. NoAnswerUpTo(d, handled) => NoAnswerUpTo(d, handled)'
      BY <2>1 DEF NoAnswerUpTo, Answers
    <2> QED BY <2>1, <2>2, <2>3, <2>4 DEF TracedFor, MissedNothing, FirstAnswer, NoAnswerUpTo
  <1> QED BY <1>1, <1>2, TracedFill, TracedDispatch DEF Reader

LEMMA TracedOther ==
  ASSUME Structure, Structure', [Next]_vars, Traced,
         Lifecycle \/ (\E m \in Traffic : Arrive(m)) \/ UNCHANGED vars
  PROVE  Traced'
  <1>1. UNCHANGED <<pc, key, born, mine, box, targets, handled>>
    BY DEF Lifecycle, OpenTransport, StartReader, StopRunning, CloseTransport, Arrive,
           vars, lifeVars, readerVars, callerVars
  <1>2. Offered' = Offered
    BY DEF Lifecycle, OpenTransport, StartReader, StopRunning, CloseTransport, Arrive,
           vars, lifeVars, readerVars, callerVars, Offered, Structure, OneReader
  <1> QED BY <1>1, <1>2, Unmoved DEF Traced, InFlight

LEMMA TracedNext == Structure /\ Structure' /\ [Next]_vars /\ Traced => Traced'
  BY TracedCaller, TracedReader, TracedOther DEF Next

LEMMA EventQueueNext ==
  ASSUME Structure, [Next]_vars, EventsQueued
  PROVE  EventsQueued'
  <1> USE DEF EventsQueued, lifeVars, readerVars, callerVars
  <1>1. CASE Lifecycle
    BY <1>1 DEF Lifecycle, OpenTransport, StartReader, StopRunning, CloseTransport
  <1>2. CASE Reader /\ ~Enqueue
    BY <1>2 DEF Reader, Loop, ReadChunk, ReadIdle, ReadFails, JudgeFailure, Sweep,
                Report, PutReply, Reported, ChunkDone, Dispatch, PutDone
  <1>3. CASE Enqueue
    <2>1. handled \in Nat
      BY DEF Structure, TypeOK
    <2>2. Append([i \in 1..handled |-> i], handled + 1) = [i \in 1..(handled + 1) |-> i]
      BY <2>1
    <2> QED BY <1>3, <2>2 DEF Enqueue
  <1>4. CASE \E c \in Caller : Call(c) \/ Proceed(c) \/ Timeout(c)
    BY <1>4 DEF Call, Refuse, Register, Proceed, Write, WriteFails, Receive, Cleanup, Timeout
  <1>5. CASE (\E m \in Traffic : Arrive(m)) \/ UNCHANGED vars
    BY <1>5 DEF Arrive, vars
  <1> QED BY <1>1, <1>2, <1>3, <1>4, <1>5 DEF Next

\* What a request returns names the message its queue held, or the one it named before.
LEMMA OutcomeStep ==
  ASSUME Structure, [Next]_vars, NEW d \in Caller
  PROVE  \/ outcome'[d].at = 0
         \/ /\ key'[d] = key[d] /\ born'[d] = born[d]
            /\ \/ outcome'[d].at = outcome[d].at
               \/ /\ pc[d] = "wait" /\ box[mine[d]].kind = "reply"
                  /\ outcome'[d].at = box[mine[d]].at
  <1> USE DEF Structure, TypeOK, lifeVars, readerVars, callerVars
  <1>1. CASE Lifecycle
    BY <1>1 DEF Lifecycle, OpenTransport, StartReader, StopRunning, CloseTransport
  <1>2. CASE Reader
    BY <1>2 DEF Reader, Loop, ReadChunk, ReadIdle, ReadFails, JudgeFailure, Sweep,
                Report, PutReply, Reported, ChunkDone, Dispatch, PutDone, Enqueue
  <1>3. ASSUME NEW c \in Caller, Call(c) \/ Proceed(c) \/ Timeout(c)
        PROVE  \/ outcome'[d].at = 0
               \/ /\ key'[d] = key[d] /\ born'[d] = born[d]
                  /\ \/ outcome'[d].at = outcome[d].at
                     \/ /\ pc[d] = "wait" /\ box[mine[d]].kind = "reply"
                        /\ outcome'[d].at = box[mine[d]].at
    <2>1. CASE Refuse(c) \/ WriteFails(c) \/ Timeout(c)
      BY <2>1 DEF Refuse, WriteFails, Timeout, Failure, WriteFail, TimedOut, Result
    <2>2. CASE \E k \in Key : Register(c, k)
      BY <2>2 DEF Register, Nothing, Result
    <2>3. CASE Write(c)
      BY <2>3 DEF Write
    <2>4. CASE Cleanup(c)
      BY <2>4 DEF Cleanup, Decoded, Result
    <2>5. CASE Receive(c)
      <3>1. /\ pc[c] = "wait" /\ UNCHANGED <<key, born>>
            /\ outcome' = [outcome EXCEPT ![c] = Raised(box[mine[c]])]
        BY <2>5 DEF Receive, Waiting
      <3>2. Raised(box[mine[c]]).at = box[mine[c]].at
        BY DEF Raised, Result
      <3>3. box[mine[c]] \in Item
        BY <3>1 DEF Waiter, InFlight
      <3> QED BY <3>1, <3>2, <3>3, ItemKinds
    <2> QED BY <1>3, <2>1, <2>2, <2>3, <2>4, <2>5 DEF Call, Proceed
  <1>4. CASE (\E m \in Traffic : Arrive(m)) \/ UNCHANGED vars
    BY <1>4 DEF Arrive, vars
  <1> QED BY <1>1, <1>2, <1>3, <1>4 DEF Next

LEMMA RepliesNext ==
  ASSUME Structure, [Next]_vars, Traced, RepliesAreFirst
  PROVE  RepliesAreFirst'
  <1> SUFFICES ASSUME NEW d \in Caller, outcome'[d].at # 0
               PROVE  FirstAnswer(d, outcome[d].at)'
    BY DEF RepliesAreFirst
  <1>1. /\ key'[d] = key[d] /\ born'[d] = born[d]
        /\ \/ outcome'[d].at = outcome[d].at
           \/ /\ pc[d] = "wait" /\ box[mine[d]].kind = "reply"
              /\ outcome'[d].at = box[mine[d]].at
    BY OutcomeStep
  <1>2. PICK i \in Position : FirstAnswer(d, i) /\ outcome'[d].at = i
    <2>1. outcome[d].at # 0 => FirstAnswer(d, outcome[d].at) /\ outcome[d].at \in Position
      BY DEF RepliesAreFirst, Structure, TypeOK, Outcome, Nothing, Failure, TimedOut,
             WriteFail, Result
    <2>2. ASSUME pc[d] = "wait", box[mine[d]].kind = "reply"
          PROVE  FirstAnswer(d, box[mine[d]].at) /\ box[mine[d]].at \in Position
      BY <2>2, ItemKinds DEF Traced, TracedFor, Structure, TypeOK, InFlight, Waiter
    <2> QED BY <1>1, <2>1, <2>2
  <1>3. FirstAnswer(d, i)'
    BY <1>1, <1>2, AnswersStay DEF Traced, TracedFor
  <1> QED BY <1>2, <1>3 DEF FirstAnswer

\* The invariant of the requests, whole.
THEOREM InductiveInvariant == Spec => []IInv
  <1>1. Init => IInv
    BY StructureInit, TracedInit DEF IInv
  <1>2. Structure /\ Structure' /\ IInv /\ [Next]_vars => IInv'
    BY TracedNext, RepliesNext, EventQueueNext DEF IInv
  <1> QED BY <1>1, <1>2, StructureKept, PTL DEF Spec

\* The reply a request returns is the first message of its address and type dispatched
\* since it registered, whatever its thread, the other callers, the reader and close()
\* did in between (_request, _dispatch).
THEOREM RepliesAreTheirs == Spec => []RepliesAreFirst
  <1>1. IInv => RepliesAreFirst
    BY DEF IInv
  <1> QED BY <1>1, InductiveInvariant, PTL

\* Callers and handlers learn of the messages in their order: before a reply is
\* returned all earlier messages are on the event queue, and before a message is on
\* the event queue every request it answers has been offered it (_dispatch).
THEOREM DispatchIsOrdered == Spec => []DispatchedInOrder
  <1>1. IInv => DispatchedInOrder
    <2> SUFFICES ASSUME IInv, NEW c \in Caller
                 PROVE  /\ \A i \in 1..(outcome[c].at - 1) : Enqueued(i)
                        /\ pc[c] \in {"write", "wait"} /\ box[mine[c]] = Nothing =>
                              \A i \in Position : Enqueued(i) /\ born[c] < i => ~Answers(i, key[c])
      BY DEF DispatchedInOrder
    <2>1. handled \in Nat /\ born[c] \in Nat /\ outcome[c] \in Outcome /\ Offered \in {handled, handled + 1}
      BY DEF IInv, Structure, TypeOK, Offered
    <2>0. outcome[c].at \in Nat
      BY <2>1 DEF Outcome, Nothing, Failure, TimedOut, WriteFail, Result, Position
    <2>2. \A i : Enqueued(i) <=> i \in 1..handled
      BY <2>1 DEF IInv, EventsQueued, Enqueued
    <2>3. ASSUME NEW i \in 1..(outcome[c].at - 1) PROVE Enqueued(i)
      <3>1. outcome[c].at <= Offered
        BY <2>0, <2>3 DEF IInv, RepliesAreFirst, FirstAnswer
      <3> QED BY <2>0, <2>1, <2>2, <3>1
    <2>4. ASSUME pc[c] \in {"write", "wait"}, box[mine[c]] = Nothing,
                 NEW i \in Position, Enqueued(i), born[c] < i
          PROVE  ~Answers(i, key[c])
      <3>1. NoAnswerUpTo(c, handled) \/ NoAnswerUpTo(c, Offered)
        BY <2>4 DEF IInv, Traced, TracedFor, MissedNothing
      <3>2. i \in (born[c] + 1)..handled /\ i \in (born[c] + 1)..Offered
        BY <2>1, <2>2, <2>4 DEF Position
      <3> QED BY <3>1, <3>2 DEF NoAnswerUpTo
    <2> QED BY <2>3, <2>4
  <1> QED BY <1>1, InductiveInvariant, PTL

\* A request that times out missed nothing: no message the reader has finished
\* dispatching since it registered answers it (queue.Empty in _request).
THEOREM TimeoutsMissNothing == Spec => TimeoutIsHonest
  <1> DEFINE Honest == \A c \in Caller :
        Waiting(c) /\ pc'[c] = "cleanup" /\ outcome'[c] = TimedOut =>
            \A j \in (born[c] + 1)..handled : ~Answers(j, key[c])
  <1>1. IInv /\ [Next]_vars => [Honest]_vars
    <2> SUFFICES ASSUME IInv, Next, NEW c \in Caller,
                        Waiting(c), pc'[c] = "cleanup", outcome'[c] = TimedOut
                 PROVE  \A j \in (born[c] + 1)..handled : ~Answers(j, key[c])
      OBVIOUS
    <2> USE DEF Waiting, lifeVars, readerVars, callerVars
    <2>1. box[mine[c]] = Nothing
      <3>1. CASE Lifecycle \/ Reader \/ \E m \in Traffic : Arrive(m)
        BY <3>1 DEF Lifecycle, OpenTransport, StartReader, StopRunning, CloseTransport,
                    Reader, Loop, ReadChunk, ReadIdle, ReadFails, JudgeFailure, Sweep,
                    Report, PutReply, Reported, ChunkDone, Dispatch, PutDone, Enqueue, Arrive
      <3>2. ASSUME NEW d \in Caller, Call(d) \/ Proceed(d) \/ Timeout(d)
            PROVE  box[mine[c]] = Nothing
        <4>1. pc \in [Caller -> {"idle", "write", "wait", "cleanup"}]
              /\ outcome \in [Caller -> Outcome]
          BY DEF IInv, Structure, TypeOK
        <4>2. d = c
          <5>1. \E p : pc' = [pc EXCEPT ![d] = p] \/ pc' = pc
            BY <3>2 DEF Call, Refuse, Register, Proceed, Write, WriteFails, Receive,
                        Cleanup, Timeout
          <5> QED BY <4>1, <5>1
        <4> USE <4>2
        <4>3. CASE Receive(d)
          <5>1. Raised(box[mine[c]]) = TimedOut /\ box[mine[c]] \in Item
            BY <4>1, <4>3 DEF Receive, IInv, Structure, TypeOK, InFlight, Waiter
          <5>2. \A item \in Item : item.kind # "timeout"
            BY DEF Item, Nothing, Failure, Reply, Result
          <5>3. \A item \in Item : Raised(item) = item \/ Raised(item).kind = "deviceError"
            BY DEF Raised, Result
          <5>4. TimedOut.kind = "timeout"
            BY DEF TimedOut, Result
          <5> QED BY <5>1, <5>2, <5>3, <5>4
        <4>4. CASE Timeout(d)
          BY <4>4 DEF Timeout
        <4> QED BY <3>2, <4>3, <4>4 DEF Call, Refuse, Register, Proceed, Write, WriteFails, Cleanup
      <3> QED BY <3>1, <3>2 DEF Next
    <2>2. MissedNothing(c) /\ handled <= Offered /\ handled \in Nat /\ Offered \in Nat
      BY <2>1 DEF IInv, Traced, TracedFor, Structure, TypeOK, Offered
    <2> QED BY <2>2 DEF MissedNothing, NoAnswerUpTo
  <1> QED BY <1>1, InductiveInvariant, PTL DEF Spec, TimeoutIsHonest

-----------------------------------------------------------------------------
(* The contract                                                            *)

\* The items callers see are those of the contract.
LEMMA ContractItems ==
  /\ Contract!Nothing = Nothing /\ Contract!Failure = Failure
  /\ Contract!GivenUp = {TimedOut, WriteFail}
  /\ \A i : Contract!Result("reply", i) = Reply(i)
  /\ Failure # Nothing /\ \A i : Reply(i) # Nothing
  BY DEF Contract!Nothing, Contract!Failure, Contract!GivenUp, Contract!Result,
         Nothing, Failure, TimedOut, WriteFail, Reply, Result

LEMMA ContractInit == Init => Contract!Init
  <1> SUFFICES ASSUME Init PROVE Contract!Init
    OBVIOUS
  <1>1. \A c \in Caller : Phase(c) = "idle" /\ Offer(c) = Nothing
    BY DEF Init, Phase, Offer
  <1>2. key \in [Caller -> Key] /\ Offered = 0
    BY KeyNonempty DEF Init, Offered
  <1> QED BY <1>1, <1>2, ContractItems DEF Init, Contract!Init

\* A step the callers cannot see.
LEMMA Unseen ==
  ASSUME UNCHANGED <<pc, key, outcome, fault>>, Offered' = Offered,
         \A c \in Caller : Offer(c)' = Offer(c)
  PROVE  UNCHANGED Contract!vars
  BY DEF Contract!vars, Phase

LEMMA VerdictTypes ==
  /\ \A item \in Item : Raised(item) \in Contract!Verdicts(item)
  /\ \A o \in Outcome : Decoded(o) \in Contract!Verdicts(o)
  <1>1. \A o \in Item \cup Outcome :
           /\ o.kind # "reply" => Contract!Verdicts(o) = {o}
           /\ o.kind = "reply" => Contract!Verdicts(o) =
                 {Result("reply", o.at), Result("deviceError", o.at), Result("parseError", o.at)}
    BY DEF Contract!Verdicts, Contract!Result, Result
  <1>2. \A o \in Item \cup Outcome : o.kind = "reply" => o = Result("reply", o.at)
    BY DEF Item, Outcome, Nothing, Failure, TimedOut, WriteFail, Reply, Result
  <1>3. ASSUME NEW item \in Item PROVE Raised(item) \in Contract!Verdicts(item)
    BY <1>1, <1>2 DEF Raised
  <1>4. ASSUME NEW o \in Outcome PROVE Decoded(o) \in Contract!Verdicts(o)
    BY <1>1, <1>2 DEF Decoded
  <1> QED BY <1>3, <1>4

LEMMA ContractCaller ==
  ASSUME Structure, NEW c \in Caller, Call(c) \/ Proceed(c) \/ Timeout(c)
  PROVE  Contract!Next \/ UNCHANGED Contract!vars
  <1> USE DEF Structure, TypeOK, InFlight, Waiting, Offered, lifeVars, readerVars, callerVars
  <1>1. CASE Refuse(c)
    <2>1. \A d \in Caller : Phase(d)' = Phase(d) /\ Offer(d)' = Offer(d)
      BY <1>1 DEF Refuse, Phase, Offer
    <2>2. Contract!Refuse(c)
      BY <1>1, <2>1, ContractItems DEF Refuse, Contract!Refuse, Phase
    <2> QED BY <2>2 DEF Contract!Next
  <1>2. ASSUME NEW k \in Key, Register(c, k) PROVE Contract!Begin(c)
    <2> USE <1>2
    <2>1. /\ mine' = [mine EXCEPT ![c] = made + 1] /\ pc' = [pc EXCEPT ![c] = "write"]
          /\ made + 1 \in Waiter /\ made + 1 \notin targets /\ box[made + 1] = Nothing
          /\ UNCHANGED <<box, targets, fault, handled, rpc>>
      BY DEF Register, Unmade, Waiter
    <2>2. \A d \in Caller : Offer(d)' = Offer(d)
      BY <2>1 DEF Register, Offer
    <2>3. [d \in Caller |-> Phase(d)]' = [[d \in Caller |-> Phase(d)] EXCEPT ![c] = "open"]
      BY <2>1 DEF Phase
    <2>4. key' = [key EXCEPT ![c] = k] /\ outcome' = [outcome EXCEPT ![c] = Nothing]
          /\ Offered' = Offered /\ ~fault /\ fault' = fault /\ Phase(c) = "idle"
      BY DEF Register, Phase
    <2>5. [d \in Caller |-> Offer(d)]' = [d \in Caller |-> Offer(d)]
      BY <2>2
    <2> QED BY <2>3, <2>4, <2>5, ContractItems DEF Contract!Begin
  <1>3. CASE Write(c)
    <2>1. \A d \in Caller : Phase(d)' = Phase(d) /\ Offer(d)' = Offer(d)
      BY <1>3 DEF Write, Phase, Offer
    <2> QED BY <1>3, <2>1 DEF Write, Contract!vars
  <1>4. CASE WriteFails(c) \/ Receive(c) \/ Timeout(c)
    <2>1. /\ pc[c] \in {"write", "wait"} /\ pc' = [pc EXCEPT ![c] = "cleanup"]
          /\ UNCHANGED <<mine, key, box, targets, fault, handled, rpc>>
      BY <1>4 DEF WriteFails, Receive, Timeout
    <2>2. [d \in Caller |-> Offer(d)]' = [[d \in Caller |-> Offer(d)] EXCEPT ![c] = Nothing]
      BY <2>1 DEF Offer
    <2>3. [d \in Caller |-> Phase(d)]' = [[d \in Caller |-> Phase(d)] EXCEPT ![c] = "ended"]
      BY <2>1 DEF Phase
    <2>4. PICK r \in {TimedOut, WriteFail} \cup
                    (IF Offer(c) = Nothing THEN {} ELSE Contract!Verdicts(Offer(c))) :
              outcome' = [outcome EXCEPT ![c] = r]
      <3>1. CASE WriteFails(c) BY <3>1 DEF WriteFails
      <3>2. CASE Timeout(c) BY <3>2 DEF Timeout
      <3>3. CASE Receive(c)
        <4>1. Offer(c) = box[mine[c]] /\ Offer(c) # Nothing /\ Offer(c) \in Item
          BY <3>3 DEF Receive, Offer, Waiter
        <4> QED BY <3>3, <4>1, VerdictTypes DEF Receive
      <3> QED BY <1>4, <3>1, <3>2, <3>3
    <2>5. Contract!End(c)
      BY <2>1, <2>2, <2>3, <2>4, ContractItems DEF Contract!End, Phase
    <2> QED BY <2>5 DEF Contract!Next
  <1>5. CASE Cleanup(c)
    <2>1. /\ pc[c] = "cleanup" /\ pc' = [pc EXCEPT ![c] = "idle"]
          /\ UNCHANGED <<mine, key, box, targets, fault, handled, rpc>>
      BY <1>5 DEF Cleanup
    <2>2. \A d \in Caller : Offer(d)' = Offer(d)
      BY <2>1 DEF Offer
    <2>3. [d \in Caller |-> Phase(d)]' = [[d \in Caller |-> Phase(d)] EXCEPT ![c] = "idle"]
      BY <2>1 DEF Phase
    <2>4. Contract!Return(c)
      BY <1>5, <2>1, <2>2, <2>3, VerdictTypes DEF Cleanup, Contract!Return, Phase
    <2> QED BY <2>4 DEF Contract!Next
  <1> QED BY <1>1, <1>2, <1>3, <1>4, <1>5 DEF Call, Proceed, Contract!Next

LEMMA ContractReader ==
  ASSUME Structure, Reader
  PROVE  Contract!Next \/ UNCHANGED Contract!vars
  <1> USE DEF Structure, TypeOK, Offered, lifeVars, readerVars, callerVars
  <1>1. CASE Loop \/ ReadChunk \/ ReadIdle \/ ReadFails \/ JudgeFailure \/ Reported
             \/ ChunkDone \/ PutDone \/ Enqueue
    <2>1. UNCHANGED <<pc, key, outcome, fault, box, mine, targets>> /\ Offered' = Offered
      BY <1>1 DEF Loop, ReadChunk, ReadIdle, ReadFails, JudgeFailure, Reported,
                  ChunkDone, PutDone, Enqueue
    <2>2. targets = {} \/ handled' = handled
      BY <1>1 DEF Loop, ReadChunk, ReadIdle, ReadFails, JudgeFailure, Reported,
                  ChunkDone, PutDone, Enqueue, Held
    <2>3. \A c \in Caller : Offer(c)' = Offer(c)
      BY <2>1, <2>2 DEF Offer
    <2> QED BY <2>1, <2>3, Unseen
  <1>2. ASSUME NEW w \in Waiter, Report(w) \/ PutReply(w) PROVE UNCHANGED Contract!vars
    <2> DEFINE item == IF fault THEN Failure ELSE Reply(handled + 1)
    <2>1. /\ box' = [box EXCEPT ![w] = IF @ = Nothing THEN item ELSE @]
          /\ targets' = targets \ {w} /\ w \in targets
          /\ UNCHANGED <<pc, key, outcome, fault, mine, handled, rpc>>
      BY <1>2 DEF Report, PutReply, Put, Held
    <2>2. item # Nothing
      BY ContractItems
    <2>3. \A c \in Caller : Offer(c)' = Offer(c)
      BY <2>1, <2>2 DEF Offer
    <2> QED BY <2>1, <2>3, Unseen
  <1>3. CASE Sweep
    <2>1. targets = {} /\ targets' = UNION {pending[k] : k \in Key} /\ fault'
          /\ UNCHANGED <<pc, key, outcome, box, mine, handled>> /\ Offered' = Offered
      BY <1>3 DEF Sweep, Held
    <2>2. \A c \in Caller :
             Offer(c)' = IF Contract!Unanswered(c) THEN Failure ELSE Offer(c)
      BY <2>1, ContractItems DEF Offer, Contract!Unanswered, Phase, NoLostWakeup
    <2>3. Contract!Break
      BY <2>1, <2>2, ContractItems DEF Contract!Break, Phase
    <2> QED BY <2>3 DEF Contract!Next
  <1>4. CASE Dispatch /\ stream[handled + 1].type = "Event"
    <2>1. /\ targets = {} /\ targets' = {} /\ Offered' = Offered + 1
          /\ UNCHANGED <<pc, key, outcome, box, mine, handled, fault>>
      BY <1>4 DEF Dispatch, Held
    <2>2. \A c \in Caller : Offer(c)' = Offer(c)
      BY <2>1 DEF Offer
    <2>3. Contract!Pass
      BY <2>1, <2>2 DEF Contract!Pass, Phase
    <2> QED BY <2>3 DEF Contract!Next
  <1>5. CASE Dispatch /\ stream[handled + 1].type # "Event"
    <2> DEFINE k == <<stream[handled + 1].address, stream[handled + 1].type>>
    <2>1. k \in Key
      <3>1. handled + 1 \in 1..Len(stream)
        BY <1>5 DEF Dispatch
      <3> QED BY <1>5, <3>1, MessageKey
    <2>2. /\ targets = {} /\ targets' = pending[k] /\ Offered' = Offered + 1
          /\ Offered = handled
          /\ UNCHANGED <<pc, key, outcome, box, mine, handled, fault>>
      BY <1>5 DEF Dispatch, Held
    <2>3. ASSUME NEW c \in Caller
          PROVE  Offer(c)' = IF Contract!Unanswered(c) /\ key[c] = k
                             THEN Reply(handled + 1) ELSE Offer(c)
      <3>1. CASE ~Contract!Unanswered(c)
        BY <2>2, <3>1, ContractItems DEF Offer, Contract!Unanswered, Phase
      <3>2. CASE Contract!Unanswered(c)
        <4>1. pc[c] \in {"write", "wait"} /\ box[mine[c]] = Nothing /\ Offer(c) = Nothing
          BY <2>2, <3>2, ContractItems DEF Offer, Contract!Unanswered, Phase
        <4>2. ~fault /\ mine[c] \in pending[key[c]]
          BY <2>2, <4>1 DEF NoLostWakeup
        <4>3. mine[c] \in pending[k] <=> key[c] = k
          BY <2>1, <4>1, <4>2, PendingMade DEF InFlight
        <4> QED BY <2>2, <3>2, <4>1, <4>2, <4>3 DEF Offer
      <3> QED BY <3>1, <3>2
    <2>4. Contract!Answer(k)
      BY <2>2, <2>3, ContractItems DEF Contract!Answer, Phase
    <2> QED BY <2>1, <2>4 DEF Contract!Next
  <1> QED BY <1>1, <1>2, <1>3, <1>4, <1>5 DEF Reader

LEMMA ContractOther ==
  ASSUME Structure, Lifecycle \/ (\E m \in Traffic : Arrive(m)) \/ UNCHANGED vars
  PROVE  UNCHANGED Contract!vars
  <1>1. UNCHANGED <<pc, key, outcome, fault, box, mine, targets, handled>>
    BY DEF Lifecycle, OpenTransport, StartReader, StopRunning, CloseTransport, Arrive,
           vars, lifeVars, readerVars, callerVars
  <1>2. Offered' = Offered
    BY DEF Lifecycle, OpenTransport, StartReader, StopRunning, CloseTransport, Arrive,
           vars, lifeVars, readerVars, callerVars, Offered, Structure, OneReader
  <1>3. \A c \in Caller : Offer(c)' = Offer(c)
    BY <1>1 DEF Offer
  <1> QED BY <1>1, <1>2, <1>3, Unseen

\* The requests keep their contract: seen from the callers, a message or a failure
\* is offered to every request waiting for it in a single instant.
THEOREM RequestsKeepContract == Spec => KeepsContract
  <1>1. Structure /\ [Next]_vars => [Contract!Next]_(Contract!vars)
    BY ContractCaller, ContractReader, ContractOther DEF Next
  <1> QED BY <1>1, ContractInit, StructureKept, PTL DEF Spec, KeepsContract, Contract!Spec

=============================================================================
