---------------------------- MODULE HarpMessage ----------------------------
(***************************************************************************)
(* Frames of the Harp protocol: harp.protocol's HarpMessage, the builder,  *)
(* the checksum and the two type bytes (_message.py, _builder.py,          *)
(* _checksum.py, _message_type.py, _payload_type.py).                      *)
(*                                                                         *)
(* A frame is a sequence of bytes: message type, length, address, port,    *)
(* payload type, an optional time stamp of six bytes, the payload and the  *)
(* checksum.  Bit i of byte b is (b \div 2^i) % 2.                         *)
(***************************************************************************)
EXTENDS Integers, Sequences

Byte == 0..255
Bit(b, i) == (b \div 2^i) % 2 = 1

HeaderLen == 5
MinFrameLen == 6
TimestampLen == 6
DefaultPort == 255

-----------------------------------------------------------------------------
(* The message type byte                                                   *)

MessageType == 1..3                \* Read, Write, Event
ReservedBits == {2, 4, 5, 6, 7}

Reserved(b) == \E i \in ReservedBits : Bit(b, i)

IsMessageType(b) == ~Reserved(b) /\ b % 4 \in MessageType

\* What an accepted byte says.
TypeFromByte(b) == [type |-> b % 4, error |-> Bit(b, 3)]

TypeToByte(type, error) == type + (IF error THEN 8 ELSE 0)

-----------------------------------------------------------------------------
(* The payload type byte: kind and size of the elements, and whether a time *)
(* stamp precedes them                                                     *)

PayloadType ==
    [kind : {"unsigned", "signed"}, size : {1, 2, 4, 8}] \cup [kind : {"float"}, size : {4}]

\* Mutant: the time stamp is not announced.
PayloadTypeAlone(pt, stamped) ==
    pt.size + (CASE pt.kind = "signed" -> 128 [] pt.kind = "float" -> 64
                 [] pt.kind = "unsigned" -> 0)

PayloadTypeToByte(pt, stamped) ==
    pt.size + (CASE pt.kind = "signed" -> 128 [] pt.kind = "float" -> 64
                 [] pt.kind = "unsigned" -> 0)
            + (IF stamped THEN 16 ELSE 0)

\* Mutant: a float of any size is let through.
FloatUnchecked(b) == FALSE

\* A float is not signed and has four bytes, with or without time stamp.
BadFloat(b) == Bit(b, 6) /\ b \notin {68, 84}

IsPayloadType(b) == b % 16 \in {1, 2, 4, 8} /\ ~Bit(b, 5) /\ ~BadFloat(b)

\* What an accepted byte says.
Stamped(b) == Bit(b, 4)
PayloadTypeFromByte(b) ==
    [size |-> b % 16,
     kind |-> IF Bit(b, 6) THEN "float" ELSE IF Bit(b, 7) THEN "signed" ELSE "unsigned"]

-----------------------------------------------------------------------------
(* Building                                                                *)

\* The sums of the first bytes, and of all.
SumsOf(bytes) ==
    LET first[n \in 0..Len(bytes)] == IF n = 0 THEN 0 ELSE first[n - 1] + bytes[n]
    IN  first

Sum(bytes) == SumsOf(bytes)[Len(bytes)]

Last(bytes) == bytes[Len(bytes)]
AllButLast(bytes) == SubSeq(bytes, 1, Len(bytes) - 1)

\* The wrapping sum of all bytes but the last, which is the checksum itself.
Compute(frame) == Sum(AllButLast(frame)) % 256

\* Mutant: any checksum will do.
ChecksumIgnored(frame) == TRUE

ValidChecksum(frame) == Len(frame) >= 2 /\ Last(frame) = Compute(frame)

\* One second is 31250 ticks of 32 us.
TicksPerSecond == 31250

\* Mutant: the ticks are cut, not rounded.
CutTicks(t, Part) == t \div Part

\* Times are in parts of a tick, Part to the tick; round() is half to even.
RoundTicks(t, Part) ==
    LET whole == t \div Part
        twice == 2 * (t % Part)
    IN  whole + (IF twice > Part \/ (twice = Part /\ whole % 2 = 1) THEN 1 ELSE 0)

LittleEndian(n, width) == [i \in 1..width |-> (n \div 256^(i - 1)) % 256]

Number(bytes) == Sum([i \in 1..Len(bytes) |-> bytes[i] * 256^(i - 1)])

\* u32 seconds and u16 ticks.  The ticks of a fraction may round up to a whole
\* second, which is then not carried.
StampFrom(t, Part) ==
    LET second == TicksPerSecond * Part
    IN  LittleEndian(t \div second, 4) \o LittleEndian(RoundTicks(t % second, Part), 2)

\* The seconds of a time fit the u32 of struct.pack("<IH"), which raises otherwise.
SecondsFit(t, Part) == (t \div (TicksPerSecond * Part)) \div 65536 < 65536

TicksOf(stamp) ==
    Number(SubSeq(stamp, 1, 4)) * TicksPerSecond + Number(SubSeq(stamp, 5, 6))

\* A message to be built, or parsed: its stamp is <<>> or six bytes.
Message ==
    [type : MessageType, error : BOOLEAN, address : Byte, port : Byte,
     payloadType : PayloadType, stamp : Seq(Byte), payload : Seq(Byte)]

Unsummed(m) ==
    LET body == <<m.address, m.port, PayloadTypeToByte(m.payloadType, m.stamp # <<>>)>>
                    \o m.stamp \o m.payload
    IN  <<TypeToByte(m.type, m.error), Len(body) + 1>> \o body

\* bytes([...]) refuses a length that is not a byte.
Buildable(m) == Unsummed(m)[2] \in Byte

BuildFrame(m) == Append(Unsummed(m), Sum(Unsummed(m)) % 256)

-----------------------------------------------------------------------------
(* Parsing                                                                 *)

\* Mutant: bytes after the length announced are let through.
LengthAtMost(frame) == frame[2] + 2 <= Len(frame)

LengthAgrees(frame) == Len(frame) = frame[2] + 2

RoomForStamp(frame) ==
    Stamped(frame[5]) => Len(frame) >= HeaderLen + TimestampLen + 1

\* HarpMessage.parse returns, and does not raise HarpParseError.
Parses(frame) ==
    /\ Len(frame) >= MinFrameLen
    /\ ValidChecksum(frame)
    /\ IsMessageType(frame[1])
    /\ LengthAgrees(frame)
    /\ IsPayloadType(frame[5])
    /\ RoomForStamp(frame)

PayloadOffset(frame) == IF Stamped(frame[5]) THEN HeaderLen + TimestampLen ELSE HeaderLen

\* What the properties of a parsed message return.
Parsed(frame) ==
    [type |-> TypeFromByte(frame[1]).type, error |-> TypeFromByte(frame[1]).error,
     address |-> frame[3], port |-> frame[4],
     payloadType |-> PayloadTypeFromByte(frame[5]),
     stamp |-> SubSeq(frame, HeaderLen + 1, PayloadOffset(frame)),
     payload |-> SubSeq(frame, PayloadOffset(frame) + 1, Len(frame) - 1)]
=============================================================================
