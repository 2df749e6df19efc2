---------------------------- MODULE DeviceProofs ----------------------------
(***************************************************************************)
(* Proofs about two parts of harp.device that share nothing: the life of a *)
(* device (Session), for any number of users, sessions and messages,       *)
(* whether or not handlers close and outlast the join; and the compiler of *)
(* a device's schema (Schema), for any schemas, naming of keys and         *)
(* reserved names.                                                         *)
(***************************************************************************)
EXTENDS Session, Schema, SequenceTheorems, FiniteSetTheorems, TLAPS

(***************************************************************************)
(* Session                                                                 *)
(***************************************************************************)

Idle == \A i \in Thread : reader[i] = "off"

Starting == {"start events", "start reader"}
Joining == {"read thread", "join reader", "await reader"}
Joined == {"read event thread", "join events", "await events", "release"}

SessionTyped ==
    /\ reader \in [Thread -> {"off", "reading"}]
    /\ call \in [Closer -> {"out"} \cup Opening \cup Closing]
    /\ \A t \in Closer \ User : call[t] \notin Opening
    /\ running \in BOOLEAN /\ released \in BOOLEAN
    /\ DOMAIN joined = Closer

\* A reader that runs is the one close() would join.
Known == \A i \in Thread : reader[i] = "reading" => thread = i

\* Whoever clears _running joins the reader, or finds that it was joined.
Stopped == ~running => Idle \/ \E c \in Closer : call[c] \in Joining

\* A join waits for the reader there is, unless another close() has seen it end.
Awaited == \A c \in Closer : call[c] = "await reader" => thread \in {0, joined[c]}

\* open() is alone, and what it starts is not there yet.
Alone ==
    \A c \in Closer :
        /\ call[c] \in Opening =>
              running /\ ~released /\ \A d \in Closer \ {c} : call[d] = "out"
        /\ call[c] \in Starting => Idle

\* close() goes on behind its joins with the threads gone for good.
Behind ==
    \A c \in Closer :
        /\ call[c] \in Closing => ~running
        /\ call[c] \in Joined => Idle /\ thread = 0
        /\ call[c] = "release" => eventThread = 0

Released == released => Idle /\ ClosedIsReleased

SInv == SessionTyped /\ Known /\ Stopped /\ Awaited /\ Alone /\ Behind /\ Released

LEMMA ThreadNotNone == 0 \notin Thread /\ Thread \subseteq Int
BY BoundAssumption DEF Thread

LEMMA InitSInv == Init => SInv
<1>. SUFFICES ASSUME Init PROVE SInv
  OBVIOUS
<1>1. /\ \A c \in Closer : call[c] = "out"
      /\ Idle /\ ~running /\ thread = 0 /\ eventThread = 0 /\ port = "none"
  BY DEF Init, Idle
<1>2. SessionTyped
  BY DEF Init, SessionTyped, Opening
<1>. QED BY <1>1, <1>2
       DEF SInv, Known, Stopped, Awaited, Alone, Behind, Released, ClosedIsReleased, Idle,
           Opening, Closing, Starting, Joining, Joined

(* open(): alone on the device from its first statement to its last.       *)
LEMMA OpenStep ==
    ASSUME SInv, NEW u \in User, Open(u)
    PROVE  SInv'
<1>. USE DEF Opening, Closing, Starting, Joining, Joined
<1>1. u \in Closer
  BY DEF Closer
<1>2. CASE OpenPort(u)
  <2>1. Idle
    BY <1>2 DEF OpenPort, MayOpen, Quiet, SInv, Stopped
  <2>. QED BY <1>1, <1>2, <2>1
         DEF OpenPort, MayOpen, Quiet, At, threads, SInv, SessionTyped, Known, Stopped, Awaited,
             Alone, Behind, Released, Idle
<1>3. CASE OpenFails(u)
  BY <1>3 DEF OpenFails, MayOpen, Quiet, threads, SInv, SessionTyped, Known, Stopped, Awaited,
              Alone, Behind, Released, Idle
<1>4. CASE StartEvents(u)
  <2>1. Idle /\ running /\ ~released /\ \A d \in Closer \ {u} : call[d] = "out"
    BY <1>1, <1>4 DEF StartEvents, At, SInv, Alone
  <2>2. SessionTyped' /\ Known' /\ Stopped' /\ Released'
    BY <1>1, <1>4, <2>1 DEF StartEvents, At, SInv, SessionTyped, Known, Stopped, Released, Idle
  <2>3. \A d \in Closer : call'[d] = IF d = u THEN "start reader" ELSE "out"
    BY <1>1, <1>4, <2>1 DEF StartEvents, At, SInv, SessionTyped
  <2>4. running' /\ ~released' /\ Idle'
    BY <1>4, <2>1 DEF StartEvents, Idle
  <2>. QED BY <2>2, <2>3, <2>4 DEF SInv, Awaited, Alone, Behind
<1>5. CASE StartReader(u)
  <2>1. Idle /\ running /\ ~released /\ \A d \in Closer \ {u} : call[d] = "out"
    BY <1>1, <1>5 DEF StartReader, At, SInv, Alone
  <2>2. SessionTyped' /\ Known' /\ Stopped' /\ Released'
    BY <1>1, <1>5, <2>1 DEF StartReader, At, SInv, SessionTyped, Known, Stopped, Released, Idle
  <2>3. \A d \in Closer : call'[d] = IF d = u THEN "identify" ELSE "out"
    BY <1>1, <1>5, <2>1 DEF StartReader, At, SInv, SessionTyped
  <2>4. running' /\ ~released'
    BY <1>5, <2>1 DEF StartReader
  <2>. QED BY <2>2, <2>3, <2>4 DEF SInv, Awaited, Alone, Behind
<1>6. CASE Identified(u)
  BY <1>1, <1>6 DEF Identified, At, attributes, threads, SInv, SessionTyped, Known, Stopped,
                    Awaited, Alone, Behind, Released, Idle
<1>7. CASE NotIdentified(u)
  BY <1>1, <1>7 DEF NotIdentified, At, threads, SInv, SessionTyped, Known, Stopped, Awaited, Alone,
                    Behind, Released, Idle
<1>. QED BY <1>2, <1>3, <1>4, <1>5, <1>6, <1>7 DEF Open

(* close() begins, with nobody in open().                                  *)
LEMMA BeginClose ==
    ASSUME SInv, NEW c \in Closer, Opened, At(c, "out", "read thread"), running' = FALSE,
           UNCHANGED <<reader, thread, eventThread, port, released, joined>>
    PROVE  SInv'
<1>1. \A d \in Closer : call[d] \notin Opening
  BY DEF Opened, SInv, SessionTyped
<1>. USE DEF At, SInv, Opening, Closing, Starting, Joining, Joined
<1>2. SessionTyped' /\ Known' /\ Stopped' /\ Awaited'
  BY <1>1 DEF SessionTyped, Known, Stopped, Awaited, Idle
<1>3. Alone'
  BY <1>1 DEF SessionTyped, Alone, Idle
<1>4. Behind' /\ Released'
  BY <1>1 DEF SessionTyped, Behind, Released, ClosedIsReleased, Idle
<1>. QED BY <1>2, <1>3, <1>4

LEMMA CloseStep ==
    ASSUME SInv, NEW c \in Closer, Close(c)
    PROVE  SInv'
<1>. USE DEF Opening, Closing, Starting, Joining, Joined
<1>1. CASE ReadThread(c)
  <2>1. thread = 0 => Idle
    BY ThreadNotNone DEF SInv, Known, SessionTyped, Idle
  <2>. QED BY <1>1, <2>1
         DEF ReadThread, At, attributes, threads, SInv, SessionTyped, Known, Stopped, Awaited,
             Alone, Behind, Released, ClosedIsReleased, Idle
<1>2. CASE JoinReader(c)
  BY <1>2 DEF JoinReader, At, attributes, threads, SInv, SessionTyped, Known, Stopped, Awaited, Alone,
              Behind, Released, ClosedIsReleased, Idle
<1>3. CASE AwaitReader(c)
  <2>1. Idle
    BY <1>3, ThreadNotNone
       DEF AwaitReader, At, ReaderEnded, SInv, Known, Awaited, SessionTyped, Idle
  <2>. QED BY <1>3, <2>1
         DEF AwaitReader, At, threads, SInv, SessionTyped, Known, Stopped, Awaited, Alone, Behind,
             Released, ClosedIsReleased, Idle
<1>4. CASE ReadEventThread(c)
  BY <1>4 DEF ReadEventThread, At, attributes, SInv, SessionTyped, Known, Stopped, Awaited, Alone,
              Behind, Released, ClosedIsReleased, Idle
<1>5. CASE JoinEvents(c)
  BY <1>5 DEF JoinEvents, At, attributes, threads, SInv, SessionTyped, Known, Stopped, Awaited, Alone,
              Behind, Released, ClosedIsReleased, Idle
<1>6. CASE AwaitEvents(c)
  BY <1>6 DEF AwaitEvents, At, threads, SInv, SessionTyped, Known, Stopped, Awaited, Alone, Behind,
              Released, ClosedIsReleased, Idle
<1>7. CASE CloseRaises(c)
  <2>1. call[c] \in {"join reader", "join events"} /\ Idle
    BY <1>7, ThreadNotNone DEF CloseRaises, CannotJoin, SInv, Known, SessionTyped, Idle, Behind
  <2>. QED BY <1>7, <2>1
         DEF CloseRaises, attributes, SInv, SessionTyped, Known, Stopped, Awaited, Alone, Behind,
             Released, ClosedIsReleased, Idle
<1>8. CASE Release(c)
  <2>1. PortClosed # "open"
    BY DEF PortClosed
  <2>. QED BY <1>8, <2>1
         DEF Release, At, SInv, SessionTyped, Known, Stopped, Awaited, Alone, Behind, Released,
             ClosedIsReleased, Idle
<1>. QED BY <1>1, <1>2, <1>3, <1>4, <1>5, <1>6, <1>7, <1>8 DEF Close

LEMMA SInvInductive == SInv /\ [Next]_vars => SInv'
<1>. SUFFICES ASSUME SInv, [Next]_vars PROVE SInv'
  OBVIOUS
<1>1. ASSUME NEW u \in User, UserCloses(u) PROVE SInv'
  BY <1>1, BeginClose DEF UserCloses, threads, Closer
<1>2. ASSUME NEW t \in Closer \cap Thread, HandlerCloses(t) PROVE SInv'
  BY <1>2, BeginClose DEF HandlerCloses
<1>3. ASSUME NEW i \in Thread, ReaderStops(i) \/ ReaderFails(i) PROVE SInv'
  <2>1. /\ reader' = [reader EXCEPT ![i] = "off"]
        /\ UNCHANGED <<running, thread, eventThread, port, call, released, joined>>
    BY <1>3 DEF ReaderStops, ReaderFails, attributes
  <2>2. SessionTyped' /\ Known' /\ (Idle => Idle')
    BY <2>1 DEF SInv, SessionTyped, Known, Idle
  <2>3. Stopped' /\ Awaited' /\ Alone'
    BY <2>1, <2>2 DEF SInv, Stopped, Awaited, Alone
  <2>4. Behind' /\ Released'
    BY <2>1, <2>2 DEF SInv, Behind, Released, ClosedIsReleased
  <2>. QED BY <2>2, <2>3, <2>4 DEF SInv
<1>4. ASSUME NEW i \in Thread, ReadMessage(i) \/ EventThread(i) PROVE SInv'
  <2>1. UNCHANGED <<reader, running, thread, eventThread, port, call, released, joined>>
    BY <1>4 DEF ReadMessage, EventThread, Get, HandlerReturns, attributes
  <2>. QED BY <2>1 DEF SInv, SessionTyped, Known, Stopped, Awaited, Alone, Behind, Released,
                       ClosedIsReleased, Idle
<1>5. CASE UNCHANGED vars
  BY <1>5 DEF vars, attributes, threads, SInv, SessionTyped, Known, Stopped, Awaited, Alone, Behind,
              Released, ClosedIsReleased, Idle
<1>. QED BY <1>1, <1>2, <1>3, <1>4, <1>5, OpenStep, CloseStep DEF Next

(* Readers never share the transport, through any number of open() and     *)
(* close() calls by users and handlers, and none is left behind a close()  *)
(* that returned (_read_loop, and the join of the reader in close()).      *)
THEOREM ReadersApart == Spec => []OneReader
<1>1. SInv => OneReader
  BY DEF SInv, Known, Released, Idle, OneReader
<1>. QED BY <1>1, InitSInv, SInvInductive, PTL DEF Spec

(* A close() that returned leaves no open port, no thread and no running   *)
(* device, whatever other close() calls are under way (close()).           *)
THEOREM CloseReleases == Spec => []ClosedIsReleased
<1>1. SInv => ClosedIsReleased
  BY DEF SInv, Released, ClosedIsReleased
<1>. QED BY <1>1, InitSInv, SInvInductive, PTL DEF Spec

(***************************************************************************)
(* Schema                                                                  *)
(***************************************************************************)

\* What is in a dict updated with another one.
LEMMA UpdateHas ==
    ASSUME NEW f, NEW g
    PROVE  /\ DOMAIN Update(f, g) = DOMAIN f \cup DOMAIN g
           /\ \A n \in DOMAIN g : Update(f, g)[n] = g[n]
           /\ \A n \in DOMAIN f : n \notin DOMAIN g => Update(f, g)[n] = f[n]
BY DEF Update

-----------------------------------------------------------------------------
(* Declarations                                                            *)

LEMMA SchemaTyped ==
    ASSUME NEW s \in Parsed
    PROVE  /\ Len(s.registers) \in Nat /\ DOMAIN s.registers = 1..Len(s.registers)
           /\ \A i \in 1..Len(s.registers) : s.registers[i] \in Register
           /\ Len(s.masks) \in Nat /\ DOMAIN s.masks = 1..Len(s.masks)
           /\ \A i \in 1..Len(s.masks) : s.masks[i] \in Mask
<1>. DEFINE r == s.registers
            m == s.masks
<1>1. r \in Seq(Register) /\ m \in Seq(Mask)
  BY ParsedAssumption
<1>. HIDE DEF r, m
<1>2. /\ Len(r) \in Nat /\ DOMAIN r = 1..Len(r) /\ \A i \in 1..Len(r) : r[i] \in Register
      /\ Len(m) \in Nat /\ DOMAIN m = 1..Len(m) /\ \A i \in 1..Len(m) : m[i] \in Mask
  BY <1>1
<1>. QED BY <1>2 DEF r, m

\* Names that differ in one list differ, and a mask is never called like a register.
LEMMA NamesDiffer ==
    ASSUME NEW s \in Parsed, Distinct(s)
    PROVE  /\ \A i, j \in 1..Len(s.registers) :
                 s.registers[i].name = s.registers[j].name => i = j
           /\ \A i, j \in 1..Len(s.masks) : s.masks[i].name = s.masks[j].name => i = j
           /\ \A i \in 1..Len(s.registers), j \in 1..Len(s.masks) :
                 s.registers[i].name # s.masks[j].name
<1>. DEFINE r == s.registers
            m == s.masks
            a == NamesOf(r)
            b == NamesOf(m)
            l == Len(r)
            k == Len(m)
<1>1. /\ l \in Nat /\ DOMAIN r = 1..l /\ \A i \in 1..l : r[i].name \in STRING
      /\ k \in Nat /\ DOMAIN m = 1..k /\ \A i \in 1..k : m[i].name \in STRING
  BY SchemaTyped DEF Register, Mask
<1>. HIDE DEF r, m, l, k
<1>2. /\ a \in [1..l -> STRING] /\ \A i \in 1..l : a[i] = r[i].name
      /\ b \in [1..k -> STRING] /\ \A i \in 1..k : b[i] = m[i].name
  BY <1>1 DEF NamesOf
<1>3. IsInjective(a \o b)
  BY DEF Distinct, r, m
<1>. HIDE DEF a, b
<1>4. a \in Seq(STRING) /\ b \in Seq(STRING) /\ Len(a) = l /\ Len(b) = k
  <2>1. a \in Seq(STRING) /\ b \in Seq(STRING)
    BY <1>1, <1>2
  <2>2. DOMAIN a = 1..l /\ DOMAIN b = 1..k
    BY <1>2
  <2>. QED BY <1>1, <2>1, <2>2
<1>5. PICK c : c = a \o b
  OBVIOUS
<1>6. /\ c \in Seq(STRING) /\ Len(c) = Len(a) + Len(b)
      /\ \A i \in 1..Len(a) + Len(b) : c[i] = IF i <= Len(a) THEN a[i] ELSE b[i - Len(a)]
  BY <1>4, <1>5, ConcatProperties
<1>7. DOMAIN c = 1..(l + k)
  <2>1. Len(c) = l + k /\ DOMAIN c = 1..Len(c)
    BY <1>4, <1>6
  <2>. QED BY <2>1
<1>8. \A i, j \in 1..(l + k) : c[i] = c[j] => i = j
  BY <1>3, <1>5, <1>7 DEF IsInjective
<1>9. \A i \in 1..l : i \in 1..(l + k) /\ c[i] = r[i].name
  BY <1>1, <1>2, <1>4, <1>6
<1>10. \A j \in 1..k : l + j \in 1..(l + k) /\ c[l + j] = m[j].name
  <2>1. ASSUME NEW j \in 1..k PROVE l + j \in 1..(l + k) /\ c[l + j] = m[j].name
    <3>1. l + j \in 1..(l + k) /\ ~(l + j <= l) /\ (l + j) - l = j
      BY <1>1
    <3>2. c[l + j] = b[(l + j) - l]
      BY <1>4, <1>6, <3>1
    <3>. QED BY <1>2, <3>1, <3>2
  <2>. QED BY <2>1
<1>11. \A i, j \in 1..l : r[i].name = r[j].name => i = j
  BY <1>8, <1>9
<1>12. ASSUME NEW i \in 1..k, NEW j \in 1..k, m[i].name = m[j].name PROVE i = j
  <2>1. l + i = l + j
    BY <1>8, <1>10, <1>12
  <2>. QED BY <1>1, <2>1
<1>13. ASSUME NEW i \in 1..l, NEW j \in 1..k, r[i].name = m[j].name PROVE FALSE
  <2>1. i = l + j
    BY <1>8, <1>9, <1>10, <1>13
  <2>. QED BY <1>1, <2>1
<1>. QED BY <1>11, <1>12, <1>13 DEF r, m, l, k

\* A register takes the place of the class of its name, or comes last.
LEMMA PutEffect ==
    ASSUME registers \in Seq(Range(registers)), NEW e
    PROVE  /\ Put(e) \in Seq(Range(Put(e)))
           /\ \A i \in DOMAIN Put(e) : Put(e)[i] = e \/ (i \in DOMAIN registers /\ Put(e)[i] = registers[i])
           /\ \E i \in DOMAIN Put(e) : Put(e)[i].name = e.name
           /\ \A i \in DOMAIN registers :
                 i \in DOMAIN Put(e) /\ Put(e)[i].name = registers[i].name
<1>. DEFINE n == Len(registers)
            p == Put(e)
<1>1. n \in Nat /\ DOMAIN registers = 1..n
  OBVIOUS
<1>2. CASE \E i \in DOMAIN registers : registers[i].name = e.name
  <2>1. p = [i \in DOMAIN registers |-> IF registers[i].name = e.name THEN e ELSE registers[i]]
    BY <1>2 DEF Put
  <2>2. DOMAIN p = 1..n /\ p \in [1..n -> Range(p)]
    <3>1. DOMAIN p = 1..n /\ p = [i \in 1..n |-> p[i]]
      BY <1>1, <2>1
    <3>. HIDE DEF p
    <3>. QED BY <3>1 DEF Range
  <2>3. p \in Seq(Range(p))
    <3>. HIDE DEF p, n
    <3>. QED BY <1>1, <2>2
  <2>4. \A i \in 1..n : p[i] = IF registers[i].name = e.name THEN e ELSE registers[i]
    BY <1>1, <2>1
  <2>. HIDE DEF p
  <2>. QED BY <1>1, <1>2, <2>2, <2>3, <2>4 DEF p
<1>3. CASE ~ \E i \in DOMAIN registers : registers[i].name = e.name
  <2>1. p = Append(registers, e)
    BY <1>3 DEF Put
  <2>2. registers \in Seq(Range(registers) \cup {e})
    <3>1. registers \in [1..n -> Range(registers) \cup {e}]
      BY <1>1 DEF Range
    <3>. HIDE DEF n
    <3>. QED BY <1>1, <3>1
  <2>3. /\ Append(registers, e) \in Seq(Range(registers) \cup {e})
        /\ Len(Append(registers, e)) = n + 1
        /\ \A i \in 1..n : Append(registers, e)[i] = registers[i]
        /\ Append(registers, e)[n + 1] = e
    <3>1. e \in Range(registers) \cup {e}
      OBVIOUS
    <3>. QED BY <2>2, <3>1
  <2>. HIDE DEF p
  <2>4. DOMAIN p = 1..(n + 1) /\ n + 1 \in 1..(n + 1)
    BY <1>1, <2>1, <2>3
  <2>5. p \in Seq(Range(p))
    <3>1. PICK T : p \in Seq(T)
      BY <2>1, <2>3
    <3>2. p \in [1..(n + 1) -> T]
      <4>1. p \in [DOMAIN p -> T]
        BY <3>1
      <4>. QED BY <2>4, <4>1
    <3>3. p \in [1..(n + 1) -> Range(p)]
      BY <3>2 DEF Range
    <3>. HIDE DEF n
    <3>. QED BY <1>1, <3>3
  <2>6. \A i \in 1..(n + 1) : i \in 1..n \/ i = n + 1
    BY <1>1
  <2>7. \A i \in 1..n : i \in 1..(n + 1) /\ p[i] = registers[i]
    BY <1>1, <2>1, <2>3
  <2>8. p[n + 1] = e
    BY <2>1, <2>3
  <2>. HIDE DEF n
  <2>. QED BY <1>1, <2>4, <2>5, <2>6, <2>7, <2>8 DEF p
<1>. QED BY <1>2, <1>3

-----------------------------------------------------------------------------
(* What is emitted                                                         *)

\* The payload class of a register depends on the schema and the masks alone.
LEMMA SameClass ==
    ASSUME UNCHANGED <<schema, enums>>, NEW reg
    PROVE  MadeClass(reg)' = MadeClass(reg) /\ PayloadError(reg)' = PayloadError(reg)
<1>1. Found' = Found
  BY DEF Found
<1>2. \A name, base : HasBase(name, base)' = HasBase(name, base)
  BY <1>1 DEF HasBase
<1>3. \A symbol, elem : Extension(symbol, elem)' = Extension(symbol, elem)
  BY DEF Extension
<1>4. \A key, it, mask, length, elem :
        ResolveConverter(key, it, mask, length, elem)' = ResolveConverter(key, it, mask, length, elem)
  BY <1>3 DEF ResolveConverter
<1>5. \A m : MemberConverter(reg, m)' = MemberConverter(reg, m)
  BY <1>4 DEF MemberConverter
<1>6. ValueConverter(reg)' = ValueConverter(reg)
  BY <1>4 DEF ValueConverter
<1>7. \A m : BuildField(reg, m)' = BuildField(reg, m) /\ HasDefault(m)' = HasDefault(m)
             /\ Converts(reg, m)' = Converts(reg, m)
  BY <1>2, <1>5 DEF BuildField, HasDefault, Converts
<1>8. StructOf(reg)' = StructOf(reg)
  <2>. DEFINE spec == ToSet(reg.payloadSpec)
              with == {m \in spec : HasDefault(m)}
              names == {field_name[m.key] : m \in spec}
              Keyed(name, among) == CHOOSE m \in among : field_name[m.key] = name
  <2>1. [n \in names |-> BuildField(reg, Keyed(n, spec))]' = [n \in names |-> BuildField(reg, Keyed(n, spec))]
    BY <1>7
  <2>2. with' = with
    BY <1>7
  <2>3. PICK w : w = with
    OBVIOUS
  <2>4. [n \in {field_name[m.key] : m \in with} |-> DefaultOf(Keyed(n, with))]'
           = [n \in {field_name[m.key] : m \in with} |-> DefaultOf(Keyed(n, with))]
    <3>1. with' = w
      BY <2>2, <2>3
    <3>. HIDE DEF with
    <3>. QED BY <2>3, <3>1
  <2>. QED BY <2>1, <2>4 DEF StructOf, ClassOf
<1>9. ValueOf(reg)' = ValueOf(reg)
  BY <1>2, <1>6 DEF ValueOf
<1>10. PayloadClass(reg)' = PayloadClass(reg)
  BY <1>8, <1>9 DEF PayloadClass
<1>11. StructError(reg)' = StructError(reg)
  BY <1>7, <1>8 DEF StructError
<1>12. ValueError(reg)' = ValueError(reg)
  BY <1>1, <1>6 DEF ValueError
<1>. QED BY <1>10, <1>11, <1>12 DEF MadeClass, PayloadError

\* An error is none of the phases.
Phases == {"parsed", "masks", "emit", "made"}

LEMMA ErrorIsNoPhase ==
    ASSUME NEW reg, PayloadError(reg) # None
    PROVE  PayloadError(reg) \notin Phases
<1>1. StructError(reg) \in Error \cup {None}
  BY DEF StructError, Error
<1>2. ValueError(reg) \in Error \cup {None}
  BY DEF ValueError, Error
<1>. QED BY <1>1, <1>2 DEF PayloadError, Error, Phases

LEMMA EmittedGrows ==
    ASSUME IInv, done < Len(schema.registers), done' = done + 1, schema' = schema
    PROVE  /\ done' \in 0..Len(schema.registers) /\ done' # 0
           /\ Emitted' = Emitted \cup {schema.registers[done + 1]}
<1>1. done \in Nat /\ Len(schema.registers) \in Nat
  BY SchemaTyped DEF IInv
<1>2. 1..(done + 1) = (1..done) \cup {done + 1}
  BY <1>1
<1>. QED BY <1>1, <1>2 DEF Emitted

\* A register emitted with the class it has, the payload classes of the others kept.
LEMMA EmitKeepsIInv ==
    ASSUME IInv, phase = "emit", done < Len(schema.registers), done' = done + 1,
           UNCHANGED <<schema, enums, module, phase>>,
           NEW reg, reg = schema.registers[done + 1],
           NEW e, registers' = Put(e), e.kind = "register", e.name = ClassName(reg),
           e.address = reg.address, e.payload = PayloadOf(reg)',
           \A n \in DOMAIN payloads : n \in DOMAIN payloads' /\ payloads'[n] = payloads[n],
           ~IsPlain(reg) => PayloadName(reg) \in DOMAIN payloads',
           \A n \in DOMAIN payloads' \ DOMAIN payloads :
              /\ ~IsPlain(reg) /\ PayloadName(reg) = n /\ PayloadError(reg) = None
              /\ payloads'[n] = MadeClass(reg)
    PROVE  IInv'
<1>1. /\ done' \in 0..Len(schema.registers) /\ done' # 0
      /\ Emitted' = Emitted \cup {reg}
  BY EmittedGrows
<1>2. \A r : MadeClass(r)' = MadeClass(r) /\ PayloadError(r)' = PayloadError(r)
  BY SameClass
<1>3. /\ registers' \in Seq(Range(registers'))
      /\ \A i \in DOMAIN registers' :
            registers'[i] = e \/ (i \in DOMAIN registers /\ registers'[i] = registers[i])
      /\ \E i \in DOMAIN registers' : registers'[i].name = e.name
      /\ \A i \in DOMAIN registers : i \in DOMAIN registers' /\ registers'[i].name = registers[i].name
  BY PutEffect DEF IInv
<1>4. \A r \in Emitted : PayloadOf(r)' = PayloadOf(r)
  <2>1. ASSUME NEW r \in Emitted, ~IsPlain(r) PROVE payloads'[PayloadName(r)] = payloads[PayloadName(r)]
    BY <2>1 DEF IInv, ClassesEmitted
  <2>. QED BY <2>1 DEF PayloadOf
<1>5. ClassesEmitted'
  <2>1. ASSUME NEW i \in DOMAIN registers'
        PROVE  \E r \in Emitted' :
                  /\ registers'[i].kind = "register" /\ registers'[i].name = ClassName(r)
                  /\ registers'[i].address = r.address /\ registers'[i].payload = PayloadOf(r)'
    <3>1. CASE registers'[i] = e
      BY <1>1, <3>1
    <3>2. CASE i \in DOMAIN registers /\ registers'[i] = registers[i]
      <4>1. PICK r \in Emitted :
                  /\ registers[i].kind = "register" /\ registers[i].name = ClassName(r)
                  /\ registers[i].address = r.address /\ registers[i].payload = PayloadOf(r)
        BY <3>2 DEF IInv, ClassesEmitted
      <4>2. r \in Emitted' /\ PayloadOf(r)' = PayloadOf(r)
        BY <1>1, <1>4
      <4>. QED BY <3>2, <4>1, <4>2
    <3>. QED BY <1>3, <3>1, <3>2
  <2>2. ASSUME NEW r \in Emitted'
        PROVE  /\ \E i \in DOMAIN registers' : registers'[i].name = ClassName(r)
               /\ ~IsPlain(r) => PayloadName(r) \in DOMAIN payloads'
    <3>1. CASE r = reg
      BY <1>3, <3>1
    <3>2. CASE r \in Emitted
      <4>1. PICK i \in DOMAIN registers : registers[i].name = ClassName(r)
        BY <3>2 DEF IInv, ClassesEmitted
      <4>2. ~IsPlain(r) => PayloadName(r) \in DOMAIN payloads
        BY <3>2 DEF IInv, ClassesEmitted
      <4>3. i \in DOMAIN registers' /\ registers'[i].name = ClassName(r)
        BY <1>3, <4>1
      <4>. QED BY <4>2, <4>3
    <3>. QED BY <1>1, <3>1, <3>2
  <2>. QED BY <2>1, <2>2 DEF ClassesEmitted
<1>6. PayloadsMade'
  <2>1. ASSUME NEW n \in DOMAIN payloads'
        PROVE  \E r \in Emitted' :
                  /\ ~IsPlain(r) /\ PayloadName(r) = n /\ PayloadError(r)' = None
                  /\ payloads'[n] = MadeClass(r)'
    <3>1. CASE n \in DOMAIN payloads
      <4>1. PICK r \in Emitted :
                  /\ ~IsPlain(r) /\ PayloadName(r) = n /\ PayloadError(r) = None
                  /\ payloads[n] = MadeClass(r)
        BY <3>1 DEF IInv, PayloadsMade
      <4>. QED BY <1>1, <1>2, <3>1, <4>1
    <3>2. CASE n \notin DOMAIN payloads
      BY <1>1, <1>2, <3>2
    <3>. QED BY <3>1, <3>2
  <2>. QED BY <2>1 DEF PayloadsMade
<1>. QED BY <1>1, <1>3, <1>5, <1>6 DEF IInv, Distinct, EnumsBuilt

LEMMA EmitStep ==
    ASSUME IInv, BuildRegister
    PROVE  IInv'
<1>1. PICK reg : reg = schema.registers[done + 1]
  OBVIOUS
<1>2. /\ phase = "emit" /\ done < Len(schema.registers) /\ UNCHANGED <<schema, enums, module>>
      /\ EmitPlain(reg) \/ EmitTyped(reg) \/ Refuse(reg)
  BY <1>1 DEF BuildRegister
<1>3. CASE EmitPlain(reg)
  <2>1. PICK e : e = RegisterOf(ClassName(reg), reg.address, reg.type, Elements(reg.length), None)
    OBVIOUS
  <2>2. /\ IsPlain(reg) /\ registers' = Put(e) /\ done' = done + 1 /\ UNCHANGED <<phase, payloads>>
    BY <1>3, <2>1 DEF EmitPlain
  <2>3. /\ e.kind = "register" /\ e.name = ClassName(reg) /\ e.address = reg.address
        /\ e.payload = None
    BY <2>1 DEF RegisterOf
  <2>4. PayloadOf(reg)' = None
    BY <2>2 DEF PayloadOf
  <2>. QED BY <1>1, <1>2, <2>2, <2>3, <2>4, EmitKeepsIInv
<1>4. CASE EmitTyped(reg)
  <2>1. PICK name : name = PayloadName(reg)
    OBVIOUS
  <2>2. PICK e : e = RegisterOf(ClassName(reg), reg.address, reg.type, None, payloads'[name])
    OBVIOUS
  <2>3. /\ ~IsPlain(reg) /\ (Cached(name) \/ PayloadError(reg) = None)
        /\ payloads' = IF Cached(name) THEN payloads
                       ELSE Update(payloads, [n \in {name} |-> MadeClass(reg)])
        /\ registers' = Put(e) /\ done' = done + 1 /\ UNCHANGED phase
    BY <1>4, <2>1, <2>2 DEF EmitTyped
  <2>4. /\ e.kind = "register" /\ e.name = ClassName(reg) /\ e.address = reg.address
        /\ e.payload = payloads'[name]
    BY <2>2 DEF RegisterOf
  <2>5. PayloadOf(reg)' = payloads'[name]
    BY <2>1, <2>3 DEF PayloadOf
  <2>6. /\ \A n \in DOMAIN payloads : n \in DOMAIN payloads' /\ payloads'[n] = payloads[n]
        /\ name \in DOMAIN payloads'
        /\ \A n \in DOMAIN payloads' \ DOMAIN payloads :
              n = name /\ PayloadError(reg) = None /\ payloads'[n] = MadeClass(reg)
    <3>1. CASE Cached(name)
      BY <2>3, <3>1 DEF Cached
    <3>2. CASE ~Cached(name)
      <4>1. PICK c : c = MadeClass(reg)
        OBVIOUS
      <4>2. PICK g : g = [n \in {name} |-> c]
        OBVIOUS
      <4>3. DOMAIN g = {name} /\ g[name] = c /\ payloads' = Update(payloads, g)
        BY <2>3, <3>2, <4>1, <4>2
      <4>4. name \notin DOMAIN payloads /\ PayloadError(reg) = None
        BY <2>3, <3>2 DEF Cached
      <4>5. /\ DOMAIN payloads' = DOMAIN payloads \cup {name} /\ payloads'[name] = c
            /\ \A n \in DOMAIN payloads : n \notin {name} => payloads'[n] = payloads[n]
        <5>. DEFINE u == Update(payloads, g)
        <5>1. /\ DOMAIN u = DOMAIN payloads \cup DOMAIN g
              /\ \A n \in DOMAIN g : u[n] = g[n]
              /\ \A n \in DOMAIN payloads : n \notin DOMAIN g => u[n] = payloads[n]
          BY UpdateHas
        <5>2. payloads' = u
          BY <4>3
        <5>. HIDE DEF u
        <5>. QED BY <4>3, <5>1, <5>2
      <4>. QED BY <4>1, <4>4, <4>5
    <3>. QED BY <3>1, <3>2
  <2>. QED BY <1>1, <1>2, <2>1, <2>3, <2>4, <2>5, <2>6, EmitKeepsIInv
<1>5. CASE Refuse(reg)
  <2>1. phase' \notin Phases /\ UNCHANGED <<payloads, registers, done>>
    BY <1>5, ErrorIsNoPhase DEF Refuse
  <2>2. \A r : MadeClass(r)' = MadeClass(r) /\ PayloadError(r)' = PayloadError(r)
    BY <1>2, SameClass
  <2>3. Emitted' = Emitted /\ \A r : PayloadOf(r)' = PayloadOf(r)
    BY <1>2, <2>1 DEF Emitted, PayloadOf
  <2>4. ClassesEmitted' /\ PayloadsMade'
    BY <2>1, <2>2, <2>3 DEF IInv, ClassesEmitted, PayloadsMade
  <2>. QED BY <1>2, <2>1, <2>4 DEF IInv, Phases, Distinct, EnumsBuilt
<1>. QED BY <1>2, <1>3, <1>4, <1>5

LEMMA InitIInv == SchemaInit => IInv
<1>. SUFFICES ASSUME SchemaInit PROVE IInv
  OBVIOUS
<1>1. /\ schema \in Parsed /\ phase = "parsed" /\ payloads = Nothing /\ registers = <<>> /\ done = 0
  BY DEF SchemaInit
<1>2. 0 \in 0..Len(schema.registers)
  BY <1>1, SchemaTyped
<1>3. registers \in Seq(Range(registers)) /\ DOMAIN registers = {}
  BY <1>1
<1>4. Emitted = {} /\ DOMAIN payloads = {}
  BY <1>1 DEF Emitted, Nothing
<1>. QED BY <1>1, <1>2, <1>3, <1>4 DEF IInv, ClassesEmitted, PayloadsMade

\* Each mask becomes the enum of its name, since no two masks have one.
LEMMA MasksBuilt ==
    ASSUME schema \in Parsed, Distinct(schema), BuildEnums, phase' = "emit"
    PROVE  EnumsBuilt'
<1>. DEFINE masks == ToSet(schema.masks)
<1>1. /\ ~ \E mask \in masks : Collide(Keys(MembersOf(mask)), enum_member_name)
      /\ enums' = [n \in ToSet(NamesOf(schema.masks)) |->
                     EnumOf(CHOOSE mask \in masks : mask.name = n)]
      /\ schema' = schema
  BY DEF BuildEnums
<1>2. DOMAIN schema.masks = 1..Len(schema.masks)
  BY SchemaTyped
<1>3. ASSUME NEW mask \in masks PROVE enums'[mask.name] = EnumOf(mask)
  <2>1. mask.name \in ToSet(NamesOf(schema.masks))
    BY DEF ToSet, NamesOf
  <2>2. \A other \in masks : other.name = mask.name => other = mask
    BY <1>2, NamesDiffer DEF ToSet
  <2>3. (CHOOSE other \in masks : other.name = mask.name) = mask
    BY <2>2
  <2>. QED BY <1>1, <2>1, <2>3
<1>4. ASSUME NEW mask
      PROVE  /\ Collide(Keys(MembersOf(mask)), enum_member_name)' = Collide(Keys(MembersOf(mask)), enum_member_name)
             /\ EnumOf(mask)' = EnumOf(mask)
  <2>1. MembersOf(mask)' = MembersOf(mask)
    OBVIOUS
  <2>2. Keys(MembersOf(mask))' = Keys(MembersOf(mask))
    BY <2>1 DEF Keys
  <2>3. Collide(Keys(MembersOf(mask)), enum_member_name)' = Collide(Keys(MembersOf(mask)), enum_member_name)
    BY <2>2 DEF Collide
  <2>4. EnumOf(mask)' = EnumOf(mask)
    BY <2>1 DEF EnumOf
  <2>. QED BY <2>3, <2>4
<1>. QED BY <1>1, <1>3, <1>4 DEF EnumsBuilt

LEMMA StepKeepsIInv == IInv /\ [SchemaNext]_schemaVars => IInv'
<1>. SUFFICES ASSUME IInv, [SchemaNext]_schemaVars PROVE IInv'
  OBVIOUS
<1>1. CASE Validate
  <2>1. /\ phase = "parsed" /\ phase' = IF Distinct(schema) THEN "masks" ELSE "ValueError"
        /\ UNCHANGED <<schema, enums, payloads, registers, done, module>>
    BY <1>1 DEF Validate
  <2>2. Emitted' = Emitted /\ \A r : PayloadOf(r)' = PayloadOf(r)
    BY <2>1 DEF Emitted, PayloadOf
  <2>3. \A r : MadeClass(r)' = MadeClass(r) /\ PayloadError(r)' = PayloadError(r)
    BY <2>1, SameClass
  <2>4. ClassesEmitted' /\ PayloadsMade'
    BY <2>1, <2>2, <2>3 DEF IInv, ClassesEmitted, PayloadsMade
  <2>. QED BY <2>1, <2>4 DEF IInv, Distinct, EnumsBuilt
<1>2. CASE BuildEnums
  <2>1. /\ phase = "masks" /\ UNCHANGED <<schema, payloads, registers, done, module>>
        /\ phase' = "emit" \/ phase' = "NameCollisionError"
        /\ phase' = "emit" => DOMAIN enums' = ToSet(NamesOf(schema.masks)) /\ EnumsBuilt'
    BY <1>2, MasksBuilt DEF BuildEnums, IInv
  <2>2. done = 0
    BY <2>1 DEF IInv
  <2>3. Emitted = {} /\ Emitted' = {}
    BY <2>1, <2>2 DEF Emitted
  <2>4. ClassesEmitted' /\ PayloadsMade'
    BY <2>1, <2>3 DEF IInv, ClassesEmitted, PayloadsMade
  <2>. QED BY <2>1, <2>2, <2>4 DEF IInv, Distinct, EnumsBuilt
<1>3. CASE BuildRegister
  BY <1>3, EmitStep
<1>4. CASE CreateDeviceModule
  <2>1. /\ phase = "emit" /\ done = Len(schema.registers) /\ phase' = "made"
        /\ module' = Update(Contents, Attributes)
        /\ UNCHANGED <<schema, enums, payloads, registers, done>>
    BY <1>4 DEF CreateDeviceModule
  <2>2. Emitted' = Emitted /\ \A r : PayloadOf(r)' = PayloadOf(r)
    BY <2>1 DEF Emitted, PayloadOf
  <2>3. \A r : MadeClass(r)' = MadeClass(r) /\ PayloadError(r)' = PayloadError(r)
    BY <2>1, SameClass
  <2>4. ClassesEmitted' /\ PayloadsMade'
    BY <2>1, <2>2, <2>3 DEF IInv, ClassesEmitted, PayloadsMade
  <2>5. Contents' = Contents
    BY <2>1 DEF Contents
  <2>6. REGISTER_MAP' = REGISTER_MAP
    BY <2>1 DEF REGISTER_MAP
  <2>7. Attributes' = Attributes
    BY <2>1, <2>6 DEF Attributes
  <2>. QED BY <2>1, <2>4, <2>5, <2>7 DEF IInv, Distinct, EnumsBuilt
<1>5. CASE UNCHANGED schemaVars
  <2>1. UNCHANGED <<schema, phase, enums, payloads, registers, done, module>>
    BY <1>5 DEF schemaVars
  <2>2. Emitted' = Emitted /\ \A r : PayloadOf(r)' = PayloadOf(r)
    BY <2>1 DEF Emitted, PayloadOf
  <2>3. \A r : MadeClass(r)' = MadeClass(r) /\ PayloadError(r)' = PayloadError(r)
    BY <2>1, SameClass
  <2>4. ClassesEmitted' /\ PayloadsMade'
    BY <2>1, <2>2, <2>3 DEF IInv, ClassesEmitted, PayloadsMade
  <2>5. Contents' = Contents
    BY <2>1 DEF Contents
  <2>6. REGISTER_MAP' = REGISTER_MAP
    BY <2>1 DEF REGISTER_MAP
  <2>7. Attributes' = Attributes
    BY <2>1, <2>6 DEF Attributes
  <2>. QED BY <2>1, <2>4, <2>5, <2>7 DEF IInv, Distinct, EnumsBuilt
<1>. QED BY <1>1, <1>2, <1>3, <1>4, <1>5 DEF SchemaNext

-----------------------------------------------------------------------------
(* The module                                                              *)

LEMMA HasAttributes ==
    ASSUME IInv, phase = "made", NEW n \in DOMAIN Attributes
    PROVE  module[n] = Attributes[n]
<1>1. module = Update(Contents, Attributes)
  BY DEF IInv
<1>. QED BY <1>1 DEF Update

\* A name of the module is that of a register class, else of a payload class, else of a mask.
LEMMA HasNames ==
    ASSUME IInv, phase = "made", NEW n, n \notin DOMAIN Attributes,
           NEW names, names = {registers[i].name : i \in DOMAIN registers}
    PROVE  /\ n \in names =>
                 \E j \in DOMAIN registers : registers[j].name = n /\ module[n] = registers[j]
           /\ n \in DOMAIN payloads \ names => module[n] = payloads[n]
           /\ n \in (DOMAIN enums \ DOMAIN payloads) \ names => module[n] = enums[n]
<1>1. ToSet(NamesOf(registers)) = names
  BY DEF ToSet, NamesOf
<1>2. PICK h : h = [k \in names |-> registers[CHOOSE i \in DOMAIN registers : registers[i].name = k]]
  OBVIOUS
<1>3. PICK g : g = Attributes
  OBVIOUS
<1>4. PICK u : u = Update(enums, payloads)
  OBVIOUS
<1>5. PICK v : v = Update(u, h)
  OBVIOUS
<1>6. module = Update(v, g)
  BY <1>1, <1>2, <1>3, <1>4, <1>5 DEF IInv, Contents
<1>7. DOMAIN h = names
  BY <1>2
<1>8. /\ DOMAIN u = DOMAIN enums \cup DOMAIN payloads
      /\ n \in DOMAIN payloads => u[n] = payloads[n]
      /\ n \in DOMAIN enums \ DOMAIN payloads => u[n] = enums[n]
  BY <1>4 DEF Update
<1>9. /\ DOMAIN v = DOMAIN u \cup names
      /\ n \in names => v[n] = h[n]
      /\ n \in DOMAIN u \ names => v[n] = u[n]
  BY <1>5, <1>7 DEF Update
<1>10. n \in DOMAIN v => module[n] = v[n]
  BY <1>3, <1>6 DEF Update
<1>11. ASSUME n \in names
       PROVE  \E j \in DOMAIN registers : registers[j].name = n /\ h[n] = registers[j]
  BY <1>2, <1>11
<1>. QED BY <1>8, <1>9, <1>10, <1>11

\* When every register is emitted, those emitted are those of the schema.
LEMMA Declared ==
    ASSUME IInv
    PROVE  /\ \A r \in ToSet(schema.registers) : r \in Register
           /\ Emitted \subseteq ToSet(schema.registers)
           /\ done = Len(schema.registers) => Emitted = ToSet(schema.registers)
           /\ Distinct(schema) =>
                 /\ \A r, s \in ToSet(schema.registers) : r.name = s.name => r = s
                 /\ \A r \in ToSet(schema.registers), mask \in ToSet(schema.masks) : r.name # mask.name
<1>1. /\ schema \in Parsed /\ done \in 0..Len(schema.registers)
      /\ Len(schema.registers) \in Nat /\ DOMAIN schema.registers = 1..Len(schema.registers)
      /\ \A i \in 1..Len(schema.registers) : schema.registers[i] \in Register
      /\ DOMAIN schema.masks = 1..Len(schema.masks)
  BY SchemaTyped DEF IInv
<1>2. Emitted \subseteq ToSet(schema.registers)
  BY <1>1 DEF Emitted, ToSet
<1>3. done = Len(schema.registers) => Emitted = ToSet(schema.registers)
  BY <1>1 DEF Emitted, ToSet
<1>4. ASSUME Distinct(schema)
      PROVE  /\ \A r, s \in ToSet(schema.registers) : r.name = s.name => r = s
             /\ \A r \in ToSet(schema.registers), mask \in ToSet(schema.masks) : r.name # mask.name
  BY <1>1, <1>4, NamesDiffer DEF ToSet
<1>. QED BY <1>1, <1>2, <1>3, <1>4 DEF ToSet

LEMMA IInvNames == IInv => NamesKept
<1>. DEFINE declared == ToSet(schema.registers)
            private == {ClassName(r) : r \in {r \in declared : r.private}} \cup DOMAIN Attributes
            names == {registers[i].name : i \in DOMAIN registers}
<1>. SUFFICES ASSUME IInv, phase = "made"
              PROVE  /\ \A n \in DOMAIN Attributes : module[n] = Attributes[n]
                     /\ \A r \in declared :
                           ClassName(r) \notin DOMAIN Attributes => module[ClassName(r)].kind = "register"
                     /\ \A r \in declared : ~r.private /\ r.name \notin private =>
                           module[r.name].address = r.address
                     /\ \A mask \in ToSet(schema.masks) :
                           mask.name \notin private \cup DOMAIN payloads =>
                              module[mask.name] = enums[mask.name]
                     /\ \A n \in DOMAIN payloads \ DOMAIN Attributes :
                           module[n] = payloads[n] \/ module[n].kind = "register"
  BY DEF NamesKept
<1>1. /\ Distinct(schema) /\ done = Len(schema.registers)
      /\ DOMAIN enums = ToSet(NamesOf(schema.masks)) /\ ClassesEmitted
  BY DEF IInv
<1>2. /\ Emitted = declared
      /\ \A r, s \in declared : r.name = s.name => r = s
      /\ \A r \in declared, mask \in ToSet(schema.masks) : r.name # mask.name
  BY <1>1, Declared
<1>3. \A r \in declared : ClassName(r) \in names
  BY <1>1, <1>2 DEF ClassesEmitted
<1>4. ASSUME NEW n \in names, n \notin DOMAIN Attributes
      PROVE  \E r \in declared :
                /\ ClassName(r) = n /\ module[n].kind = "register" /\ module[n].address = r.address
  <2>1. PICK j \in DOMAIN registers : registers[j].name = n /\ module[n] = registers[j]
    BY <1>4, HasNames
  <2>. QED BY <1>1, <1>2, <2>1 DEF ClassesEmitted
<1>5. ASSUME NEW r \in declared, ~r.private, r.name \notin private
      PROVE  module[r.name].address = r.address
  <2>1. ClassName(r) = r.name /\ r.name \in names /\ r.name \notin DOMAIN Attributes
    BY <1>3, <1>5 DEF ClassName
  <2>2. PICK s \in declared : ClassName(s) = r.name /\ module[r.name].address = s.address
    BY <1>4, <2>1
  <2>3. ~s.private
    BY <1>5, <2>2
  <2>. QED BY <1>2, <2>2, <2>3 DEF ClassName
<1>6. ASSUME NEW mask \in ToSet(schema.masks), mask.name \notin private \cup DOMAIN payloads
      PROVE  module[mask.name] = enums[mask.name]
  <2>1. mask.name \in DOMAIN enums
    BY <1>1 DEF ToSet, NamesOf
  <2>2. ASSUME mask.name \in names PROVE FALSE
    <3>1. PICK s \in declared : ClassName(s) = mask.name
      BY <1>4, <1>6, <2>2
    <3>2. ~s.private
      BY <1>6, <3>1
    <3>. QED BY <1>2, <3>1, <3>2 DEF ClassName
  <2>. QED BY <1>6, <2>1, <2>2, HasNames
<1>7. ASSUME NEW n \in DOMAIN payloads \ DOMAIN Attributes
      PROVE  module[n] = payloads[n] \/ module[n].kind = "register"
  <2>1. CASE n \in names
    BY <1>4, <1>7, <2>1
  <2>2. CASE n \notin names
    BY <1>7, <2>2, HasNames
  <2>. QED BY <2>1, <2>2
<1>8. \A n \in DOMAIN Attributes : module[n] = Attributes[n]
  BY HasAttributes
<1>. QED BY <1>3, <1>4, <1>5, <1>6, <1>7, <1>8

-----------------------------------------------------------------------------
(* One class for each payload type                                         *)

LEMMA IInvOneClass == IInv => OneClassPerType
<1>. SUFFICES ASSUME IInv PROVE OneClassPerType
  OBVIOUS
<1>1. ASSUME NEW r \in ToSet(schema.registers), ~IsPlain(r), NEW i \in DOMAIN registers, IsClassOf(i, r)
      PROVE  registers[i].payload = payloads[PayloadName(r)]
  <2>1. PICK s \in Emitted : registers[i].name = ClassName(s) /\ registers[i].payload = PayloadOf(s)
    BY DEF IInv, ClassesEmitted
  <2>2. s = r
    BY <1>1, <2>1, Declared DEF IsClassOf
  <2>. QED BY <1>1, <2>1, <2>2 DEF PayloadOf
<1>. QED BY <1>1 DEF OneClassPerType

-----------------------------------------------------------------------------
(* Fields                                                                  *)

\* A converter of numbers takes the bytes the length declares.
LEMMA NumberSpans ==
    ASSUME schema.require_converters, NEW key, NEW it, NEW length, NEW elem,
           NEW c, c = ResolveConverter(key, it, None, length, elem), c # None,
           c.converter = "number"
    PROVE  c.width = Elements(length) * elem
<1>1. PICK span : span = Elements(length) * elem
  OBVIOUS
<1>2. CASE BuildsIn(it, None, span)
  <2>1. c = BuiltIn(it, elem, span)
    BY <1>1, <1>2 DEF ResolveConverter
  <2>2. CASE it \in DOMAIN Native
    <3>1. span = Native[it]
      BY <1>2, <2>2 DEF BuildsIn, NativeFits
    <3>2. c = ConverterOf("number", Native[it])
      BY <2>1, <2>2 DEF BuiltIn
    <3>. QED BY <1>1, <3>1, <3>2 DEF ConverterOf
  <2>3. CASE it \notin DOMAIN Native
    <3>1. c.converter \in {"text", "bool"}
      BY <2>1, <2>3 DEF BuiltIn, ConverterOf
    <3>. QED BY <3>1
  <2>. QED BY <2>2, <2>3
<1>3. CASE ~BuildsIn(it, None, span) /\ it = None
  <2>1. c = ConverterOf(IF Elements(length) > 1 THEN "text" ELSE "number", span)
    BY <1>1, <1>3 DEF ResolveConverter
  <2>. QED BY <1>1, <2>1 DEF ConverterOf
<1>4. CASE ~BuildsIn(it, None, span) /\ it # None
  <2>1. c = Extension(Symbol(key, it), elem)
    BY <1>1, <1>4 DEF ResolveConverter
  <2>2. Symbol(key, it) \in DOMAIN schema.converters
    BY <2>1 DEF Extension
  <2>3. c.converter = "text"
    BY <2>1, <2>2 DEF Extension, ConverterOf
  <2>. QED BY <2>3
<1>. QED BY <1>2, <1>3, <1>4

\* Members whose names differ make as many fields as there are members, each its own.
LEMMA FieldsOfStruct ==
    ASSUME NEW reg \in Register, reg.payloadSpec # None, ~Collide(Keys(reg.payloadSpec), field_name),
           NEW c, c = StructOf(reg)
    PROVE  /\ Cardinality(DOMAIN c.fields) = Len(reg.payloadSpec)
           /\ \A m \in ToSet(reg.payloadSpec) : c.fields[field_name[m.key]] = BuildField(reg, m)
<1>1. PICK spec : spec = reg.payloadSpec
  OBVIOUS
<1>2. PICK n : n = Len(spec)
  OBVIOUS
<1>3. spec \in Seq(PayloadMember)
  BY <1>1 DEF Register, Optional
<1>4. n \in Nat /\ DOMAIN spec = 1..n
  BY <1>2, <1>3
<1>5. PICK names : names = {field_name[m.key] : m \in ToSet(spec)}
  OBVIOUS
<1>6. PICK f : f = [k \in names |->
                      BuildField(reg, CHOOSE m \in ToSet(spec) : field_name[m.key] = k)]
  OBVIOUS
<1>7. c.fields = f
  BY <1>1, <1>5, <1>6 DEF StructOf, ClassOf
<1>8. DOMAIN f = names
  BY <1>6
<1>9. PICK h : h = [i \in 1..n |-> field_name[spec[i].key]]
  OBVIOUS
<1>10. \A i \in 1..n : h[i] = field_name[spec[i].key]
  BY <1>9
<1>11. \A i, j \in 1..n : h[i] = h[j] => i = j
  <2>1. DOMAIN Keys(spec) = 1..n /\ \A i \in 1..n : Keys(spec)[i] = spec[i].key
    BY <1>4 DEF Keys
  <2>2. IsInjective([i \in DOMAIN Keys(spec) |-> field_name[Keys(spec)[i]]])
    BY <1>1 DEF Collide
  <2>3. PICK k : k = [i \in DOMAIN Keys(spec) |-> field_name[Keys(spec)[i]]]
    OBVIOUS
  <2>4. DOMAIN k = 1..n /\ \A i \in 1..n : k[i] = h[i]
    BY <1>10, <2>1, <2>3
  <2>. QED BY <2>2, <2>3, <2>4 DEF IsInjective
<1>12. Cardinality(names) = n
  <2>1. h \in Surjection(1..n, names)
    <3>1. \A i \in 1..n : h[i] \in names
      BY <1>4, <1>5, <1>10 DEF ToSet
    <3>2. h \in [1..n -> names]
      <4>1. DOMAIN h = 1..n /\ h = [i \in 1..n |-> h[i]]
        BY <1>9
      <4>. QED BY <3>1, <4>1
    <3>3. \A k \in names : \E i \in 1..n : h[i] = k
      BY <1>4, <1>5, <1>10 DEF ToSet
    <3>. QED BY <3>2, <3>3 DEF Surjection
  <2>2. h \in Injection(1..n, names)
    BY <1>9, <1>11, <2>1 DEF Injection, Surjection, IsInjective
  <2>3. IsFiniteSet(1..n) /\ Cardinality(1..n) = n
    BY <1>4, FS_Interval
  <2>. QED BY <2>1, <2>2, <2>3, FS_Surjection
<1>13. ASSUME NEW m \in ToSet(spec)
       PROVE  f[field_name[m.key]] = BuildField(reg, m)
  <2>1. field_name[m.key] \in names
    BY <1>5
  <2>2. \A a, b \in ToSet(spec) : field_name[a.key] = field_name[b.key] => a = b
    BY <1>4, <1>10, <1>11 DEF ToSet
  <2>3. (CHOOSE a \in ToSet(spec) : field_name[a.key] = field_name[m.key]) = m
    BY <2>2
  <2>. QED BY <1>6, <2>1, <2>3
<1>. QED BY <1>1, <1>2, <1>7, <1>8, <1>12, <1>13

\* Members of a mask whose names differ make as many members of the enum, each with its value.
LEMMA EnumKeepsMembers ==
    ASSUME NEW mask, ~Collide(Keys(MembersOf(mask)), enum_member_name),
           NEW m \in ToSet(MembersOf(mask))
    PROVE  /\ EnumOf(mask).members[enum_member_name[m.key]] = m.value
           /\ \A n \in ToSet(MembersOf(mask)) \ {m} :
                 enum_member_name[n.key] # enum_member_name[m.key]
<1>1. PICK list : list = MembersOf(mask)
  OBVIOUS
<1>2. \A n \in ToSet(list) : enum_member_name[n.key] = enum_member_name[m.key] => n = m
  <2>1. PICK k : k = [i \in DOMAIN Keys(list) |-> enum_member_name[Keys(list)[i]]]
    OBVIOUS
  <2>2. DOMAIN k = DOMAIN list /\ \A i \in DOMAIN list : k[i] = enum_member_name[list[i].key]
    BY <2>1 DEF Keys
  <2>3. \A i, j \in DOMAIN list : k[i] = k[j] => i = j
    BY <1>1, <2>1, <2>2 DEF Collide, IsInjective
  <2>4. m \in ToSet(list)
    BY <1>1
  <2>. QED BY <2>2, <2>3, <2>4 DEF ToSet
<1>3. PICK names : names = {enum_member_name[n.key] : n \in ToSet(list)}
  OBVIOUS
<1>4. EnumOf(mask).members = [x \in names |-> (CHOOSE n \in ToSet(list) : enum_member_name[n.key] = x).value]
  BY <1>1, <1>3 DEF EnumOf
<1>5. enum_member_name[m.key] \in names
  BY <1>1, <1>3
<1>6. (CHOOSE n \in ToSet(list) : enum_member_name[n.key] = enum_member_name[m.key]) = m
  BY <1>1, <1>2
<1>. QED BY <1>1, <1>2, <1>4, <1>5, <1>6

LEMMA IInvFields ==
    ASSUME IInv, NEW reg \in ToSet(schema.registers), reg.payloadSpec # None, MadeFor(reg)
    PROVE  /\ Cardinality(DOMAIN Made(reg).fields) = Len(reg.payloadSpec)
           /\ \A m \in ToSet(reg.payloadSpec) :
                 LET f == Made(reg).fields[field_name[m.key]] IN
                 /\ f.offset = IF m.offset = None THEN 0 ELSE m.offset
                 /\ m.mask # None => f.mask = m.mask
                 /\ schema.require_converters /\ f.kind = "whole" /\ f.converter = "number" =>
                       f.width = Elements(m.length) * reg.type
<1>1. reg \in Register
  BY Declared
<1>2. PICK r \in Emitted :
         PayloadError(r) = None /\ payloads[PayloadName(reg)] = MadeClass(r)
  BY DEF IInv, PayloadsMade, MadeFor
<1>3. r = reg
  <2>1. r.name = reg.name
    BY <1>2 DEF MadeFor, MadeClass
  <2>2. done # 0
    BY SchemaTyped, <1>2 DEF IInv, Emitted
  <2>. QED BY <2>1, <2>2, Declared DEF IInv
<1>4. PICK c : c = StructOf(reg)
  OBVIOUS
<1>5. Made(reg) = c /\ StructError(reg) = None
  BY <1>2, <1>3, <1>4 DEF Made, MadeClass, PayloadClass, PayloadError
<1>6. ~Collide(Keys(reg.payloadSpec), field_name) /\ \A m \in ToSet(reg.payloadSpec) : Converts(reg, m)
  BY <1>5, NoneAssumption DEF StructError, Error
<1>7. /\ Cardinality(DOMAIN c.fields) = Len(reg.payloadSpec)
      /\ \A m \in ToSet(reg.payloadSpec) : c.fields[field_name[m.key]] = BuildField(reg, m)
  BY <1>1, <1>4, <1>6, FieldsOfStruct
<1>8. ASSUME NEW m \in ToSet(reg.payloadSpec), NEW f, f = BuildField(reg, m)
      PROVE  /\ f.offset = IF m.offset = None THEN 0 ELSE m.offset
             /\ m.mask # None => f.mask = m.mask
             /\ schema.require_converters /\ f.kind = "whole" /\ f.converter = "number" =>
                   f.width = Elements(m.length) * reg.type
  <2>1. PICK offset : offset = IF m.offset = None THEN 0 ELSE m.offset
    OBVIOUS
  <2>2. CASE HasBase(TypeName(m), "int")
    <3>1. f = GroupMaskOf(reg.type, IF m.mask = None THEN Element(reg.type) ELSE m.mask, offset)
      BY <1>8, <2>1, <2>2 DEF BuildField
    <3>. QED BY <2>1, <3>1 DEF GroupMaskOf, Descriptor
  <2>3. CASE ~HasBase(TypeName(m), "int")
    <3>1. PICK v : v = MemberConverter(reg, m)
      OBVIOUS
    <3>2. f = Descriptor(IF m.mask = None THEN "whole" ELSE "masked", offset,
                         v.width, m.mask, v.converter)
      BY <1>8, <2>1, <2>3, <3>1 DEF BuildField
    <3>3. /\ f.offset = offset /\ f.mask = m.mask /\ f.width = v.width /\ f.converter = v.converter
          /\ f.kind = "whole" => m.mask = None
      BY <3>2 DEF Descriptor
    <3>4. ASSUME schema.require_converters, f.kind = "whole", f.converter = "number"
          PROVE  f.width = Elements(m.length) * reg.type
      <4>1. v = ResolveConverter(m.key, m.interfaceType, None, m.length, reg.type)
        BY <3>1, <3>3, <3>4 DEF MemberConverter
      <4>2. v # None
        BY <1>6, <2>3, <3>1 DEF Converts
      <4>3. v.converter = "number"
        BY <3>3, <3>4
      <4>4. v.width = Elements(m.length) * reg.type
        BY <3>4, <4>1, <4>2, <4>3, NumberSpans
      <4>. QED BY <3>3, <4>4
    <3>. QED BY <2>1, <3>3, <3>4
  <2>. QED BY <2>2, <2>3
<1>. QED BY <1>5, <1>7, <1>8

LEMMA IInvMembers == IInv => MembersKept
<1>. SUFFICES ASSUME IInv PROVE MembersKept
  OBVIOUS
<1>1. ASSUME phase \in {"emit", "made"}, NEW mask \in ToSet(schema.masks),
             NEW m \in ToSet(MembersOf(mask))
      PROVE  /\ enums[mask.name].members[enum_member_name[m.key]] = m.value
             /\ \A n \in ToSet(MembersOf(mask)) \ {m} :
                   enum_member_name[n.key] # enum_member_name[m.key]
  <2>1. ~Collide(Keys(MembersOf(mask)), enum_member_name) /\ enums[mask.name] = EnumOf(mask)
    BY <1>1 DEF IInv, EnumsBuilt
  <2>. QED BY <2>1, EnumKeepsMembers
<1>. QED BY <1>1, IInvFields DEF MembersKept

-----------------------------------------------------------------------------
(* Every class is one that Payload accepts                                 *)

\* A converter takes a number of bytes.
LEMMA ConverterWidth ==
    ASSUME schema \in Parsed, NEW key, NEW it, NEW mask,
           NEW length \in Optional(Nat), NEW elem \in Nat,
           NEW c, c = ResolveConverter(key, it, mask, length, elem), c # None
    PROVE  c.width \in Nat
<1>1. PICK span : span = Elements(length) * elem
  OBVIOUS
<1>2. span \in Nat
  BY <1>1 DEF Elements, Optional
<1>3. CASE BuildsIn(it, mask, span)
  <2>1. c = BuiltIn(it, elem, span)
    BY <1>1, <1>3 DEF ResolveConverter
  <2>2. it \in DOMAIN Native => Native[it] \in Nat
    BY DEF Native
  <2>3. 3 * elem \in Nat
    OBVIOUS
  <2>. QED BY <1>2, <2>1, <2>2, <2>3 DEF BuiltIn, ConverterOf
<1>4. CASE ~BuildsIn(it, mask, span) /\ (mask # None \/ it = None)
  <2>1. c.width \in {elem, span}
    BY <1>1, <1>4 DEF ResolveConverter, ConverterOf
  <2>. QED BY <1>2, <2>1
<1>5. CASE ~BuildsIn(it, mask, span) /\ mask = None /\ it # None
  <2>1. PICK symbol : symbol = Symbol(key, it)
    OBVIOUS
  <2>2. c = Extension(symbol, elem)
    BY <1>1, <1>5, <2>1 DEF ResolveConverter
  <2>3. symbol \in DOMAIN schema.converters => schema.converters[symbol] \in Nat
    BY ParsedAssumption
  <2>4. c.width = elem \/ (symbol \in DOMAIN schema.converters /\ c.width = schema.converters[symbol])
    BY <2>2 DEF Extension, ConverterOf
  <2>. QED BY <2>3, <2>4
<1>. QED BY <1>3, <1>4, <1>5

\* A payload of one value: there is nothing for its field to overlap or to stick out of.
LEMMA AnonymousAccepted ==
    ASSUME NEW elem \in Nat, NEW f, NEW c, c = Anonymous(elem, f), f.offset = 0,
           \/ f.kind = "whole" /\ f.width \in Nat
           \/ f.kind # "whole" /\ (f.mask = None \/ f.mask = Element(elem))
    PROVE  Sound(c)
<1>1. /\ c.elem = elem /\ c.length = None /\ DOMAIN c.fields = {"__value__"}
      /\ c.fields["__value__"] = f
  BY DEF Anonymous, ClassOf
<1>2. PICK n : n = "__value__"
  OBVIOUS
<1>3. Classes!MasksFit(c)
  <2>1. ASSUME f.kind # "whole" PROVE Classes!MaskOf(c, n) = Classes!BitsOf(elem)
    BY <1>1, <1>2, <2>1 DEF Classes!MaskOf, Classes!BitsOf, Element
  <2>. QED BY <1>1, <1>2, <2>1 DEF Classes!MasksFit
<1>4. PICK s : s = Classes!SlotOf(c, n)
  OBVIOUS
<1>5. s.to \in Nat
  <2>1. Classes!End(c, n) = IF f.kind = "whole" THEN f.width ELSE elem
    BY <1>1, <1>2 DEF Classes!End, Classes!ByteOffset, Classes!Size
  <2>. QED BY <1>4, <2>1 DEF Classes!SlotOf
<1>6. Classes!Slots(c) = {s}
  BY <1>1, <1>2, <1>4 DEF Classes!Slots
<1>7. Classes!SlotsFit(c)
  <2>1. Classes!Itemsize(c) = CHOOSE size \in {t.to : t \in {s}} : \A t \in {s} : t.to <= size
    BY <1>1, <1>6 DEF Classes!Itemsize
  <2>2. (CHOOSE size \in {t.to : t \in {s}} : \A t \in {s} : t.to <= size) = s.to
    BY <1>5
  <2>. QED BY <1>5, <1>6, <2>1, <2>2 DEF Classes!SlotsFit
<1>8. Classes!NoOverlap(c)
  <2>1. Cardinality({s}) = 1
    BY FS_Singleton
  <2>2. Classes!Cardinality({s}) = Cardinality({s})
    BY DEF Cardinality, Classes!Cardinality
  <2>3. PICK k : k = Classes!Cardinality(Classes!Slots(c))
    OBVIOUS
  <2>4. 2..k = {}
    BY <1>6, <2>1, <2>2, <2>3
  <2>. QED BY <2>3, <2>4 DEF Classes!NoOverlap
<1>. QED BY <1>3, <1>7, <1>8 DEF Sound

LEMMA MadeIsSound ==
    ASSUME schema \in Parsed, NEW reg \in Register, PayloadError(reg) = None
    PROVE  Sound(PayloadClass(reg))
<1>1. CASE reg.payloadSpec # None
  BY <1>1, NoneAssumption DEF PayloadError, StructError, PayloadClass, Error
<1>2. CASE reg.payloadSpec = None
  <2>1. reg.type \in Nat /\ reg.length \in Optional(Nat \ {0})
    BY DEF Register
  <2>2. PICK c : c = ValueOf(reg)
    OBVIOUS
  <2>3. SUFFICES Sound(c)
    BY <1>2, <2>2 DEF PayloadClass
  <2>4. CASE HasBase(reg.maskType, "flag")
    <3>1. c = Anonymous(reg.type, BitMaskOf(reg.type))
      BY <2>2, <2>4 DEF ValueOf
    <3>2. PICK f : f = BitMaskOf(reg.type)
      OBVIOUS
    <3>3. f.offset = 0 /\ f.kind # "whole" /\ f.mask = None
      BY <3>2 DEF BitMaskOf, Descriptor
    <3>. QED BY <2>1, <3>1, <3>2, <3>3, AnonymousAccepted
  <2>5. CASE ~HasBase(reg.maskType, "flag") /\ reg.maskType # None
    <3>1. PICK f : f = GroupMaskOf(reg.type, Element(reg.type), 0)
      OBVIOUS
    <3>2. c = Anonymous(reg.type, f)
      BY <2>2, <2>5, <3>1 DEF ValueOf
    <3>3. f.offset = 0 /\ f.kind # "whole" /\ f.mask = Element(reg.type)
      BY <3>1 DEF GroupMaskOf, Descriptor
    <3>. QED BY <2>1, <3>2, <3>3, AnonymousAccepted
  <2>6. CASE ~HasBase(reg.maskType, "flag") /\ reg.maskType = None
    <3>1. PICK v : v = ValueConverter(reg)
      OBVIOUS
    <3>2. v # None
      BY <1>2, <2>6, <3>1, NoneAssumption DEF PayloadError, ValueError, Error
    <3>3. Elements(reg.length) \in Optional(Nat)
      BY <2>1 DEF Elements, Optional
    <3>4. v = ResolveConverter("__value__", reg.interfaceType, None, Elements(reg.length), reg.type)
      BY <3>1 DEF ValueConverter
    <3>5. v.width \in Nat
      BY <2>1, <3>2, <3>3, <3>4, ConverterWidth
    <3>6. PICK f : f = Descriptor("whole", 0, v.width, None, v.converter)
      OBVIOUS
    <3>7. c = Anonymous(reg.type, f)
      BY <2>2, <2>6, <3>1, <3>6 DEF ValueOf
    <3>8. f.offset = 0 /\ f.kind = "whole" /\ f.width = v.width
      BY <3>6 DEF Descriptor
    <3>. QED BY <2>1, <3>5, <3>7, <3>8, AnonymousAccepted
  <2>. QED BY <2>4, <2>5, <2>6
<1>. QED BY <1>1, <1>2

\* What _build_payload emits passes the check its class statement will run
\* (__init_subclass__), for a single value without that check being made here.
ClassesAccepted == \A n \in DOMAIN payloads : Classes!Accepted(payloads[n].class)

LEMMA IInvAccepted == IInv => ClassesAccepted
<1>. SUFFICES ASSUME IInv, NEW n \in DOMAIN payloads PROVE Classes!Accepted(payloads[n].class)
  BY DEF ClassesAccepted
<1>1. PICK reg \in Emitted : PayloadError(reg) = None /\ payloads[n] = MadeClass(reg)
  BY DEF IInv, PayloadsMade
<1>2. Sound(PayloadClass(reg))
  BY <1>1, Declared, MadeIsSound DEF IInv
<1>. QED BY <1>1, <1>2 DEF MadeClass, Sound, Classes!Accepted

-----------------------------------------------------------------------------
(* The theorems about Schema                                               *)

(* Names are compared before anything is emitted; each register class is   *)
(* that of a register emitted before, and each payload class was made for  *)
(* one, without error and with the masks there are (create_device_module,  *)
(* emit).                                                                  *)
THEOREM SchemaInvariant == SchemaSpec => []IInv
BY InitIInv, StepKeepsIInv, PTL DEF SchemaSpec

(* Every declaration is in the module under its name, whatever the schema  *)
(* declares, but for the names private registers and payload classes take  *)
(* (_names_are_distinct, emit, create_device_module).                      *)
THEOREM NamesAreKept == SchemaSpec => []NamesKept
BY SchemaInvariant, IInvNames, PTL

(* An enum has a member for every member of its mask, and a payload class  *)
(* a field for every member of its payloadSpec, where and on the bits the  *)
(* member says, and a plain number takes the bytes its length says, for    *)
(* every naming of the keys (_build_enums, _rename, _native).              *)
THEOREM MembersAreKept == SchemaSpec => []MembersKept
BY SchemaInvariant, IInvMembers, PTL

(* Registers of one payload type share the class made first, in any order  *)
(* of the registers (the cache of _build_payload).                         *)
THEOREM OneClass == SchemaSpec => []OneClassPerType
BY SchemaInvariant, IInvOneClass, PTL

(* The compiler emits no payload class that the class statement refuses    *)
(* (_build_struct_dtype, _validate_no_overlap).                            *)
THEOREM ClassesAreAccepted == SchemaSpec => []ClassesAccepted
BY SchemaInvariant, IInvAccepted, PTL

=============================================================================
