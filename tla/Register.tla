------------------------------ MODULE Register ------------------------------
(***************************************************************************)
(* Registers (_register.py): one message of a register, format and parse,  *)
(* and many at once, format_bulk and parse_bulk, which see a buffer of     *)
(* frames as a table of equal rows; with the data frame that is made of    *)
(* them (harp.data's _reader.py) and the register that is inferred from    *)
(* the first frame of a buffer (_read.py).                                 *)
(*                                                                         *)
(* A record, one payload, is its bytes.  What a payload class makes of     *)
(* them is in Columns.                                                     *)
(***************************************************************************)
EXTENDS HarpMessage

CONSTANT None      \* no time stamp, no value, no index

ASSUME NoneAssumption == None \notin Nat \cup Seq(Byte) \cup Seq(Seq(Byte)) \cup Message

(* Register classes: the shape is <<>> for one element or one struct, <<n>>  *)
(* for an array of n elements.                                              *)
NoAddress == -1

RegisterClass ==
    [address : Byte \cup {NoAddress}, payloadType : PayloadType, shape : Seq(Nat), itemsize : Nat]

Scalar(address, payloadType) ==
    [address |-> address, payloadType |-> payloadType, shape |-> <<>>,
     itemsize |-> payloadType.size]

Array(address, payloadType, length) ==
    [address |-> address, payloadType |-> payloadType, shape |-> <<length>>,
     itemsize |-> length * payloadType.size]

Struct(address, payloadType, itemsize) ==
    [address |-> address, payloadType |-> payloadType, shape |-> <<>>, itemsize |-> itemsize]

-----------------------------------------------------------------------------
(* One message                                                             *)

\* A stamp is None or the time, in parts of a tick.
Stamp(t, Part) == IF t = None THEN <<>> ELSE StampFrom(t, Part)

\* The message that format builds: no value gives a Read, a value a Write, unless the
\* type byte is said.
Formatted(reg, value, type, port, t, Part) ==
    LET byte == IF type # None THEN type ELSE IF value = None THEN 1 ELSE 2 IN
    [type |-> TypeFromByte(byte).type, error |-> TypeFromByte(byte).error,
     address |-> reg.address, port |-> port, payloadType |-> reg.payloadType,
     stamp |-> Stamp(t, Part), payload |-> IF value = None THEN <<>> ELSE value]

\* A frame may be longer than the record; parse takes its first bytes.
ParsesPayload(reg, payload) == Len(payload) >= reg.itemsize
ParsePayload(reg, payload) == SubSeq(payload, 1, reg.itemsize)

-----------------------------------------------------------------------------
(* format_bulk                                                             *)

Offset(stamped) == IF stamped THEN HeaderLen + TimestampLen ELSE HeaderLen

Stride(reg, stamped) == Offset(stamped) + reg.itemsize + 1

\* An array of values of the wrong shape or type is refused, and so are times, types
\* or a port that do not fit the rows, and a length that is not a byte; one type serves
\* all rows.
BulkFormats(reg, rows, types, times) ==
    /\ \A i \in DOMAIN rows : Len(rows[i]) = reg.itemsize
    /\ Len(types) \in {1, Len(rows)}
    /\ times # None => Len(times) = Len(rows)
    /\ Stride(reg, times # None) - 2 \in Byte

\* Row i of the table, but for the checksum.
BulkBody(reg, rows, types, times, port, Part, i) ==
    <<types[IF Len(types) = 1 THEN 1 ELSE i], Stride(reg, times # None) - 2,
      reg.address, port, PayloadTypeToByte(reg.payloadType, times # None)>>
    \o (IF times = None THEN <<>> ELSE StampFrom(times[i], Part)) \o rows[i]

\* Mutant: the checksum leaves the header out.
SumOfPayload(body) == Append(body, Sum(SubSeq(body, HeaderLen + 1, Len(body))) % 256)

Summed(body) == Append(body, Sum(body) % 256)

\* The table, row after row.
FormatBulk(reg, rows, types, times, port, Part) ==
    LET stride == Stride(reg, times # None)
        frame == [i \in 1..Len(rows) |->
                    Summed(BulkBody(reg, rows, types, times, port, Part, i))]
    IN  [k \in 1..Len(rows) * stride |-> frame[((k - 1) \div stride) + 1][((k - 1) % stride) + 1]]

-----------------------------------------------------------------------------
(* parse_bulk                                                              *)

\* The first frame says how long all are, and whether they have time stamps.
FrameStride(data) == data[2] + 2
\* Mutant: a frame that ends the buffer is not counted.
FewerRows(data) == (Len(data) - 1) \div FrameStride(data)

NRows(data) == Len(data) \div FrameStride(data)
BulkStamped(data) == Stamped(data[5])

\* Strided view: width bytes of every frame, from an offset.
View(data, offset, width) ==
    [i \in 1..NRows(data) |-> [j \in 1..width |-> data[(i - 1) * FrameStride(data) + offset + j]]]

ViewFits(data, offset, width) ==
    (NRows(data) - 1) * FrameStride(data) + offset + width <= Len(data)

\* parse_bulk returns; numpy refuses a view that leaves the buffer.
ParsesBulk(reg, data) ==
    \/ data = <<>>
    \/ /\ Len(data) >= MinFrameLen
       /\ Len(data) >= FrameStride(data)
       /\ ViewFits(data, Offset(BulkStamped(data)), reg.itemsize)

ParseBulk(reg, data, stamps) ==
    IF data = <<>> THEN [rows |-> <<>>, stamps |-> None, types |-> None]
    ELSE [rows |-> View(data, Offset(BulkStamped(data)), reg.itemsize),
          stamps |-> IF stamps /\ BulkStamped(data) THEN View(data, HeaderLen, TimestampLen)
                       ELSE None,
          types |-> View(data, 0, 1)]

-----------------------------------------------------------------------------
(* Data frames                                                             *)

\* Without time stamps there is no time index, except for no rows at all.
ReadsFrame(reg, data, timeIndex) ==
    /\ ParsesBulk(reg, data)
    /\ timeIndex => LET bulk == ParseBulk(reg, data, TRUE)
                    IN  bulk.stamps # None \/ bulk.rows = <<>>

\* The error bit of a message type is not shown.
DataFrame(reg, data, timeIndex, keepType) ==
    LET bulk == ParseBulk(reg, data, timeIndex) IN
    [rows |-> bulk.rows,
     time |-> IF ~timeIndex THEN None
              ELSE IF bulk.stamps = None THEN <<>>
              ELSE [i \in DOMAIN bulk.stamps |-> TicksOf(bulk.stamps[i])],
     type |-> IF keepType /\ bulk.types # None
                THEN [i \in DOMAIN bulk.types |-> bulk.types[i][1] % 4]
                ELSE None]

\* Mutant: time stamps are counted as elements.
CountWithStamp(data) ==
    (FrameStride(data) - HeaderLen - 1) \div PayloadTypeFromByte(data[5]).size

ElementCount(data) ==
    (FrameStride(data) - Offset(BulkStamped(data)) - 1) \div PayloadTypeFromByte(data[5]).size

\* No array has fewer than no elements.
Infers(data) ==
    Len(data) >= HeaderLen /\ IsPayloadType(data[5]) /\ ElementCount(data) >= 0

Inferred(data) ==
    IF ElementCount(data) = 1 THEN Scalar(NoAddress, PayloadTypeFromByte(data[5]))
    ELSE Array(data[3], PayloadTypeFromByte(data[5]), ElementCount(data))
=============================================================================
