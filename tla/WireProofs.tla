----------------------------- MODULE WireProofs -----------------------------
(***************************************************************************)
(* Theorems about Wire, for every message the constructor                  *)
(* takes, every frame made elsewhere and every damage to one byte.         *)
(***************************************************************************)
EXTENDS Wire, HarpMessageProofs

-----------------------------------------------------------------------------
(* The invariant                                                           *)

(* The arguments of the constructor describe a message.                    *)
LEMMA DescribedIsMessage ==
    ASSUME NEW m \in Sendable
    PROVE  /\ Described(m) \in Message
           /\ Len(Described(m).stamp) \in {0, TimestampLen}
           /\ Described(m).payload = m.payload
<1>. DEFINE st == IF m.time = Absent THEN <<>> ELSE StampFrom(m.time, Part)
<1>1. /\ m.type \in MessageType /\ m.address \in Byte /\ m.port \in Byte
      /\ m.payloadType \in PayloadType /\ m.payload \in Seq(Byte)
      /\ m.time # Absent => m.time \in Nat /\ SecondsFit(m.time, Part)
  BY SendableAssumption
<1>2. st \in Seq(Byte) /\ Len(st) \in {0, 6}
  <2>1. CASE m.time = Absent
    <3>1. st = <<>>
      BY <2>1
    <3>. QED BY <3>1, EmptySeq
  <2>2. CASE m.time # Absent
    BY <1>1, <2>2, PartAssumption, TimeIsStamped, Zenon
  <2>. QED BY <2>1, <2>2
<1>3. Described(m) = [type |-> m.type, error |-> FALSE, address |-> m.address,
                      port |-> m.port, payloadType |-> m.payloadType,
                      payload |-> m.payload, stamp |-> st]
  BY DEF Described
<1>. HIDE DEF st
<1>. QED BY <1>1, <1>2, <1>3 DEF Message, TimestampLen

(* The frame is the one built but for one damage, and the answer is what    *)
(* parse makes of it (build_message_frame, HarpMessage.parse).              *)
THEOREM InductiveInvariant == WireSpec => []WireIInv
<1>1. WireInit => WireIInv
  BY EmptySeq DEF WireInit, WireIInv, WireTypeOK, OnTheLine, Answered
<1>2. WireIInv /\ [WireNext]_wireVars => WireIInv'
  <2>. SUFFICES ASSUME WireIInv, [WireNext]_wireVars PROVE WireIInv'
    OBVIOUS
  <2>. USE DEF WireIInv
  <2>1. ASSUME stage = "idle", NEW m \in Sendable, Send(m) PROVE WireIInv'
    <3>. DEFINE d == Described(m)
    <3>1. d \in Message
      BY DescribedIsMessage
    <3>2. CASE Buildable(d)
      <4>1. stage' = "sent" /\ frame' = BuildFrame(d) /\ sent' = m /\ UNCHANGED <<hurt, answer>>
        BY <2>1, <3>2 DEF Send
      <4>2. BuildFrame(d) \in Seq(Byte)
        BY <3>1, <3>2, FrameBuilt
      <4>3. ~hurt
        BY <2>1 DEF Send, OnTheLine
      <4>4. WireTypeOK'
        BY <4>1, <4>2 DEF WireTypeOK
      <4>5. OnTheLine'
        BY <3>2, <4>1, <4>3 DEF OnTheLine
      <4>6. Answered'
        BY <4>1 DEF Answered
      <4>. QED BY <4>4, <4>5, <4>6
    <3>3. CASE ~Buildable(d)
      <4>1. stage' = "refused" /\ frame' = frame /\ sent' = m /\ UNCHANGED <<hurt, answer>> /\ ~hurt
        BY <2>1, <3>3 DEF Send, OnTheLine
      <4>2. WireTypeOK' /\ Answered'
        BY <4>1 DEF WireTypeOK, Answered
      <4>3. OnTheLine'
        BY <3>3, <4>1 DEF OnTheLine
      <4>. QED BY <4>2, <4>3
    <3>. QED BY <3>2, <3>3
  <2>2. ASSUME stage = "idle", NEW f \in Foreign, Inject(f) PROVE WireIInv'
    <3>1. stage' = "sent" /\ frame' = f /\ UNCHANGED <<sent, hurt, answer>> /\ f \in Seq(Byte)
      BY <2>2, ForeignAssumption DEF Inject
    <3>2. WireTypeOK' /\ Answered'
      BY <3>1 DEF WireTypeOK, Answered
    <3>3. stage = "idle" /\ sent = Absent /\ ~hurt
      BY <2>2 DEF Inject, OnTheLine
    <3>4. OnTheLine'
      BY <3>1, <3>3 DEF OnTheLine
    <3>. QED BY <3>2, <3>4
  <2>3. ASSUME Disturb, Truncate PROVE WireIInv'
    <3>. PICK n \in DOMAIN frame : n < Len(frame) /\ frame' = SubSeq(frame, 1, n)
      BY <2>3 DEF Truncate
    <3>1. stage = "sent" /\ ~hurt /\ hurt' /\ UNCHANGED <<stage, sent, answer>>
          /\ frame' = SubSeq(frame, 1, n) /\ n < Len(frame)
      BY <2>3 DEF Disturb
    <3>2. frame \in Seq(Byte) /\ n \in 1..Len(frame) /\ Len(frame) \in Nat
      BY DEF WireTypeOK
    <3>3. frame' \in Seq(Byte) /\ Len(frame') = n
      BY <3>1, <3>2, SubSeqProperties, ElementOfSeq
    <3>4. WireTypeOK' /\ Answered'
      BY <3>1, <3>3 DEF WireTypeOK, Answered
    <3>5. OnTheLine'
      BY <3>1, <3>3 DEF OnTheLine, CutShort
    <3>. QED BY <3>4, <3>5
  <2>4. ASSUME Disturb, Corrupt PROVE WireIInv'
    <3>. PICK i \in DOMAIN frame, b \in Damage :
              frame[i] # b /\ frame' = [frame EXCEPT ![i] = b]
      BY <2>4 DEF Corrupt
    <3>1. stage = "sent" /\ ~hurt /\ hurt' /\ UNCHANGED <<stage, sent, answer>>
          /\ frame' = [frame EXCEPT ![i] = b] /\ frame[i] # b
      BY <2>4 DEF Disturb
    <3>2. frame \in Seq(Byte) /\ i \in 1..Len(frame) /\ b \in Byte
      BY ForeignAssumption DEF WireTypeOK
    <3>3. frame' \in Seq(Byte) /\ Len(frame') = Len(frame) /\ frame'[i] = b
          /\ \A j \in DOMAIN frame \ {i} : frame'[j] = frame[j]
      BY <3>1, <3>2, ExceptSeq
    <3>4. WireTypeOK' /\ Answered'
      BY <3>1, <3>3 DEF WireTypeOK, Answered
    <3>5. Changed(frame, frame')
      BY <3>1, <3>2, <3>3 DEF Changed
    <3>6. OnTheLine'
      BY <3>1, <3>5 DEF OnTheLine
    <3>. QED BY <3>4, <3>6
  <2>5. ASSUME Receive PROVE WireIInv'
    <3>1. stage = "sent" /\ UNCHANGED <<sent, frame, hurt>> /\ frame \in Seq(Byte)
      BY <2>5 DEF Receive, WireTypeOK
    <3>2. CASE Parses(frame)
      <4>1. stage' = "accepted" /\ answer' = Parsed(frame) /\ Parsed(frame) \in Message
        BY <2>5, <3>1, <3>2, ParsedIsBuilt DEF Receive
      <4>. QED BY <3>1, <3>2, <4>1 DEF WireTypeOK, OnTheLine, Answered
    <3>3. CASE ~Parses(frame)
      <4>1. stage' = "rejected" /\ answer' = answer
        BY <2>5, <3>3 DEF Receive
      <4>. QED BY <3>1, <3>3, <4>1 DEF WireTypeOK, OnTheLine, Answered
    <3>. QED BY <3>2, <3>3
  <2>6. CASE UNCHANGED wireVars
    BY <2>6 DEF wireVars, WireTypeOK, OnTheLine, Answered
  <2>. QED BY <2>1, <2>2, <2>3, <2>4, <2>5, <2>6 DEF WireNext, Start, Disturb
<1>. QED BY <1>1, <1>2, PTL DEF WireSpec

-----------------------------------------------------------------------------
(* What follows from it                                                    *)

(* What parse accepts has known fields (_message_type, _payload_type).      *)
THEOREM FieldsAreKnown == WireSpec => []FieldsKnown
<1>1. WireIInv => FieldsKnown
  <2>. SUFFICES ASSUME WireIInv, stage = "accepted"
                PROVE  /\ answer.type \in MessageType /\ answer.error \in BOOLEAN
                       /\ answer.payloadType \in PayloadType
                       /\ Len(answer.stamp) \in {0, TimestampLen} /\ answer.payload \in Seq(Byte)
    BY DEF FieldsKnown
  <2>1. frame \in Seq(Byte) /\ Parses(frame) /\ answer = Parsed(frame)
    BY DEF WireIInv, WireTypeOK, Answered
  <2>2. answer \in Message /\ Len(answer.stamp) \in {0, TimestampLen}
    BY <2>1, ParsedIsBuilt
  <2>. QED BY <2>2 DEF Message
<1>. QED BY <1>1, InductiveInvariant, PTL

(* Whoever made a frame, building what parse reports gives it back.         *)
THEOREM ParsingLosesNothing == WireSpec => []Canonical
<1>1. WireIInv => Canonical
  BY ParsedIsBuilt DEF WireIInv, WireTypeOK, Answered, Canonical
<1>. QED BY <1>1, InductiveInvariant, PTL

(* What is sent, undamaged, is accepted and reads as it was sent.           *)
LEMMA ReadAsSent ==
    ASSUME WireIInv, sent # Absent, ~hurt, stage \in {"accepted", "rejected"}
    PROVE  stage = "accepted" /\ answer = Described(sent) /\ sent \in Sendable
<1>1. sent \in Sendable /\ Buildable(Described(sent)) /\ frame = BuildFrame(Described(sent))
  BY DEF WireIInv, WireTypeOK, OnTheLine
<1>2. Parses(frame) /\ Parsed(frame) = Described(sent)
  BY <1>1, DescribedIsMessage, BuiltIsParsed
<1>. QED BY <1>1, <1>2 DEF WireIInv, Answered

(* A frame cut short, or with one byte changed, is not accepted.            *)
LEMMA DamageShows ==
    ASSUME NEW m \in Message, Len(m.stamp) \in {0, TimestampLen}, Buildable(m),
           NEW g \in Seq(Byte), CutShort(BuildFrame(m), g) \/ Changed(BuildFrame(m), g)
    PROVE  ~Parses(g)
<1>. DEFINE f == BuildFrame(m)
            u == Unsummed(m)
            v == AllButLast(g)
<1>1. Parses(f)
  BY BuiltIsParsed
<1>2. /\ f \in Seq(Byte) /\ Len(u) \in Nat /\ Len(f) = Len(u) + 1
      /\ \A i \in 1..Len(u) : f[i] = u[i]
      /\ u \in Seq(Byte) /\ AllButLast(f) = u /\ Last(f) = Sum(u) % 256
  BY FrameBuilt
<1>3. CutShort(f, g) \/ Changed(f, g)
  OBVIOUS
<1>4. Len(f) = f[2] + 2 /\ f[Len(f)] = Sum(u) % 256 /\ Len(f) >= 6
  BY <1>1, <1>2 DEF Parses, LengthAgrees, MinFrameLen, Last
<1>. HIDE DEF f, u
<1>5. SUFFICES ASSUME Parses(g) PROVE FALSE
  OBVIOUS
<1>6. Len(g) >= 6 /\ Len(g) = g[2] + 2 /\ g[Len(g)] = Sum(v) % 256 /\ Len(g) \in Nat
  BY <1>5 DEF Parses, LengthAgrees, MinFrameLen, ValidChecksum, Last, Compute
<1>7. CASE CutShort(f, g)
  <2>1. Len(g) < Len(f) /\ g = SubSeq(f, 1, Len(g))
    BY <1>7 DEF CutShort
  <2>2. \A i \in 1..Len(g) : f[i] \in Byte
    BY <1>2, <1>6, <2>1, IntegerBytes
  <2>3. \A i \in 1..Len(g) : SubSeq(f, 1, Len(g))[i] = f[1 + i - 1]
    BY <1>6, <2>2, SubSeqProperties
  <2>4. g[2] = f[2]
    BY <1>6, <2>1, <2>3
  <2>. QED BY <1>4, <1>6, <2>1, <2>4
<1>8. CASE Changed(f, g)
  <2>1. Len(g) = Len(f)
    BY <1>8 DEF Changed
  <2>2. PICK i \in 1..Len(f) : g[i] # f[i] /\ \A j \in 1..Len(f) \ {i} : g[j] = f[j]
    <3>1. DOMAIN f = 1..Len(f)
      BY <1>2
    <3>. QED BY <1>8, <3>1, Zenon DEF Changed
  <2>3. /\ v \in Seq(Byte) /\ Len(v) = Len(u) /\ \A j \in 1..Len(u) : v[j] = g[j]
    <3>1. Len(g) - 1 \in Int /\ \A j \in 1..(Len(g) - 1) : g[j] \in Byte
      BY <1>6, IntegerBytes
    <3>2. /\ SubSeq(g, 1, Len(g) - 1) \in Seq(Byte)
          /\ Len(SubSeq(g, 1, Len(g) - 1)) = IF 1 <= Len(g) - 1 THEN (Len(g) - 1) - 1 + 1 ELSE 0
          /\ \A j \in 1..((Len(g) - 1) - 1 + 1) : SubSeq(g, 1, Len(g) - 1)[j] = g[1 + j - 1]
      BY <3>1, SubSeqProperties
    <3>3. (Len(g) - 1) - 1 + 1 = Len(u) /\ 1 <= Len(g) - 1 /\ \A j \in 1..Len(u) : 1 + j - 1 = j
      BY <1>2, <1>6, <2>1
    <3>. QED BY <3>2, <3>3 DEF AllButLast
  <2>. HIDE DEF v
  <2>4. u \in Seq(Int) /\ v \in Seq(Int)
    <3>1. Byte \subseteq Int
      BY DEF Byte
    <3>. QED BY <1>2, <2>3, <3>1, SeqMonotonic, Zenon
  <2>5. Sum(u) \in Int /\ Sum(v) \in Int
    BY <2>4, SumsDefined
  <2>6. CASE i = Len(f)
    <3>1. \A j \in 1..Len(u) : v[j] = u[j]
      BY <1>2, <2>2, <2>3, <2>6, SMTT(40)
    <3>2. v = u
      BY <1>2, <2>3, <3>1, SeqEqual
    <3>. QED BY <1>4, <1>6, <2>1, <2>2, <2>6, <3>2
  <2>7. CASE i # Len(f)
    <3>1. i \in 1..Len(u) /\ \A j \in 1..Len(u) : j # i => v[j] = u[j]
      BY <1>2, <2>2, <2>3, <2>7
    <3>2. Sum(v) = Sum(u) + (v[i] - u[i])
      BY <2>3, <2>4, <3>1, SumOfChanged
    <3>3. u[i] \in 0..255 /\ v[i] \in 0..255
      <4>1. u[i] \in Byte /\ v[i] \in Byte
        BY <1>2, <2>3, <3>1, IntegerBytes
      <4>2. Byte = 0..255
        BY DEF Byte
      <4>. QED BY <4>1, <4>2, Zenon
    <3>4. v[i] # u[i]
      BY <1>2, <2>2, <2>3, <3>1
    <3>5. g[Len(g)] = f[Len(f)]
      BY <1>2, <2>1, <2>2, <2>7
    <3>6. Sum(v) % 256 = Sum(u) % 256
      BY <1>4, <1>6, <3>5
    <3>. DEFINE a == Sum(u)
                b == u[i]
                c == v[i]
    <3>7. /\ a \in Int /\ b \in 0..255 /\ c \in 0..255 /\ c # b
          /\ (a + (c - b)) % 256 = a % 256
      BY <2>5, <3>2, <3>3, <3>4, <3>6, Zenon
    <3>. HIDE DEF a, b, c
    <3>. QED BY <3>7, SMTT(40)
  <2>. QED BY <2>6, <2>7
<1>. QED BY <1>3, <1>7, <1>8

(* A frame this library built is not accepted once it lost its last bytes   *)
(* or has one byte changed, whichever and to whatever (the checks of parse).*)
THEOREM DamageIsRejected == WireSpec => []DamageRejected
<1>1. WireIInv => DamageRejected
  <2>. SUFFICES ASSUME WireIInv, hurt, sent # Absent, stage = "accepted" PROVE FALSE
    BY DEF DamageRejected
  <2>. DEFINE d == Described(sent)
  <2>1. sent \in Sendable /\ Buildable(d) /\ frame \in Seq(Byte)
        /\ (CutShort(BuildFrame(d), frame) \/ Changed(BuildFrame(d), frame))
    BY DEF WireIInv, WireTypeOK, OnTheLine
  <2>2. d \in Message /\ Len(d.stamp) \in {0, TimestampLen}
    BY <2>1, DescribedIsMessage
  <2>3. ~Parses(frame)
    <3>. HIDE DEF d
    <3>. QED BY <2>1, <2>2, DamageShows
  <2>. QED BY <2>3 DEF WireIInv, Answered
<1>. QED BY <1>1, InductiveInvariant, PTL

(* What the constructor was given is what parse reports, and only a message *)
(* too long for the length byte is refused.                                 *)
THEOREM ReadsAsSent == WireSpec => []RoundTrip
<1>1. WireIInv => RoundTrip
  <2>. SUFFICES ASSUME WireIInv PROVE RoundTrip
    OBVIOUS
  <2>1. sent # Absent /\ ~hurt => stage # "rejected"
    BY ReadAsSent
  <2>2. sent # Absent /\ stage = "accepted" => answer = Described(sent)
    <3>. SUFFICES ASSUME sent # Absent, stage = "accepted" PROVE answer = Described(sent)
      OBVIOUS
    <3>1. ~hurt
      <4>. SUFFICES ASSUME hurt PROVE FALSE
        BY DEF WireIInv, WireTypeOK
      <4>. DEFINE d == Described(sent)
      <4>1. sent \in Sendable /\ Buildable(d) /\ frame \in Seq(Byte)
            /\ (CutShort(BuildFrame(d), frame) \/ Changed(BuildFrame(d), frame))
        BY DEF WireIInv, WireTypeOK, OnTheLine
      <4>2. d \in Message /\ Len(d.stamp) \in {0, TimestampLen}
        BY <4>1, DescribedIsMessage
      <4>3. ~Parses(frame)
        <5>. HIDE DEF d
        <5>. QED BY <4>1, <4>2, DamageShows
      <4>. QED BY <4>3 DEF WireIInv, Answered
    <3>. QED BY <3>1, ReadAsSent
  <2>3. stage = "refused" => Len(sent.payload) + Len(Described(sent).stamp) > 251
    <3>. SUFFICES ASSUME stage = "refused"
                  PROVE  Len(sent.payload) + Len(Described(sent).stamp) > 251
      OBVIOUS
    <3>. DEFINE d == Described(sent)
    <3>1. sent \in Sendable /\ ~Buildable(d)
      BY DEF WireIInv, OnTheLine
    <3>2. d \in Message /\ d.payload = sent.payload
      BY <3>1, DescribedIsMessage
    <3>. HIDE DEF d
    <3>3. Unsummed(d)[2] = 4 + Len(d.stamp) + Len(d.payload)
          /\ Len(d.stamp) \in Nat /\ Len(d.payload) \in Nat
      BY <3>2, FrameBody
    <3>. DEFINE k == Len(d.stamp)
                n == Len(d.payload)
    <3>4. k \in Nat /\ n \in Nat /\ 4 + k + n \notin 0..255
      BY <3>1, <3>3 DEF Buildable, Byte
    <3>. HIDE DEF k, n
    <3>5. n + k > 251
      BY <3>4
    <3>. QED BY <3>2, <3>5 DEF d, k, n
  <2>. QED BY <2>1, <2>2, <2>3 DEF RoundTrip
<1>. QED BY <1>1, InductiveInvariant, PTL

(* A time comes back within half a tick, whatever part of a tick it is      *)
(* given in (build_message_frame against the timestamp property).           *)
THEOREM TimesAreKept == WireSpec => []TimeKept
<1>1. WireIInv => TimeKept
  <2>. SUFFICES ASSUME WireIInv, stage = "accepted", sent # Absent, ~hurt, sent.time # Absent
                PROVE  LET error == TicksOf(answer.stamp) * Part - sent.time
                       IN  2 * error <= Part /\ 2 * error >= -Part
    BY DEF TimeKept
  <2>1. answer = Described(sent) /\ sent \in Sendable
    BY ReadAsSent
  <2>2. answer.stamp = StampFrom(sent.time, Part)
    BY <2>1 DEF Described
  <2>3. sent.time \in Nat /\ SecondsFit(sent.time, Part)
    BY <2>1, SendableAssumption
  <2>. QED BY <2>2, <2>3, PartAssumption, TimeIsStamped
<1>. QED BY <1>1, InductiveInvariant, PTL

=============================================================================
