------------------------------ MODULE MCFrames ------------------------------
(* What the library makes of bytes, for TLC: a frame on its way (Wire), the *)
(* framer at work on a stream (HarpFramer), and a payload class from its    *)
(* declaration to what it reads (Payload, Columns).  The three share no     *)
(* state: in each behaviour one of them moves and the others rest.          *)
EXTENDS Wire, HarpFramer, Columns, TLC

-----------------------------------------------------------------------------
(* Frames: short and longest ones, every type byte, times around the ends  *)
(* of a tick and of a second.                                              *)

Made(type, address, pt, payload, time) ==
    [type |-> type, address |-> address, port |-> DefaultPort,
     payloadType |-> pt, payload |-> payload, time |-> time]

U8 == [kind |-> "unsigned", size |-> 1]
S16 == [kind |-> "signed", size |-> 2]
Float == [kind |-> "float", size |-> 4]

Second == TicksPerSecond * 4
Times ==
    {Absent} \cup 0..9 \cup {Second - 3, Second - 2, Second - 1, Second, Second + 1,
                             300 * Second + 7, 17179 * Second - 1}

Short ==
    {Made(type, 32, pt, payload, Absent) :
        type \in MessageType, pt \in PayloadType, payload \in {<<>>, <<0>>, <<255, 1>>}}
Timed == {Made(3, 255, S16, <<1, 2>>, time) : time \in Times}
Longest ==
    {Made(2, 0, U8, [i \in 1..n |-> i % 7], time) : n \in {244, 245, 246, 251, 252}, time \in {Absent, 5}}

Calls == Short \cup Timed \cup Longest

Summed(bytes) == Append(bytes, Sum(bytes) % 256)
Zeros(n) == [i \in 1..n |-> 0]

AnyType == {Summed(<<b, 5, 10, 255, 1, 7>>) : b \in Byte}
AnyPayloadType == {Summed(<<1, 4 + n, 10, 255, b>> \o Zeros(n)) : b \in Byte, n \in {0, 1, 5, 6, 7}}
AnyLength == {Summed(<<1, b, 10, 255, 1, 7>>) : b \in Byte}
TooShort == {<<>>, <<1>>, <<1, 1>>, <<1, 0, 1>>, Summed(<<1, 3, 10, 255>>)}

Frames == AnyType \cup AnyPayloadType \cup AnyLength \cup TooShort

SomeBytes == {0, 1, 2, 8, 16, 68, 128, 255}

-----------------------------------------------------------------------------
(* Streams: every way to put up to three pieces behind one another.        *)

\* Two frames, the second one holding the first in its payload.
Plain == Summed(<<1, 4, 32, 255, 1>>)
Nested == Summed(<<3, 10, 33, 255, 1>> \o Plain)

\* A frame damaged, one cut short, a header of length 0, a header whose frame
\* would swallow what follows, and bytes that start nothing.
Damaged == [Plain EXCEPT ![6] = 0]
Shortened == SubSeq(Plain, 1, 5)
Empty == <<2, 0>>
Greedy == <<2, 9>>
Noise == <<0, 200, 4>>

Piece == {Plain, Nested, Damaged, Shortened, Empty, Greedy, Noise}

Streams ==
    {<<>>} \cup {x \o y : x, y \in Piece} \cup
    {x \o y \o z : x \in {Damaged, Shortened, Greedy, Noise}, y \in {Empty, Plain, Greedy}, z \in {Plain, Nested}}

Sizes == {0, 1, 2, 5, 6}

-----------------------------------------------------------------------------
(* Classes: every one of two or three fields out of a list.                *)

FieldAt(kind, offset, width, mask, converter) ==
    [kind |-> kind, offset |-> offset, width |-> width, mask |-> mask, converter |-> converter]

Whole == {FieldAt("whole", 0, 2, None, "text"), FieldAt("whole", 1, 1, None, "number"),
          FieldAt("whole", 2, 2, None, "number"), FieldAt("whole", 3, 1, None, "bool")}
Masked == {FieldAt("masked", 1, 1, {0, 1}, "number"), FieldAt("masked", 1, 1, 4..7, "code"),
           FieldAt("masked", 1, 1, {3}, "bool"), FieldAt("masked", 2, 1, {6, 8}, "number"),
           FieldAt("masked", 1, 1, {}, "number")}
Flags == {FieldAt("flags", 1, 1, None, "code"), FieldAt("flags", 1, 1, {2, 7}, "code")}
Fields == Whole \cup Masked \cup Flags

ClassOf(elem, length, fields, defaults) ==
    [elem |-> elem, length |-> length, fields |-> fields, defaults |-> defaults]

\* Elements of one byte; of two, where the masks may be wider.
Two == {ClassOf(elem, length, "x" :> f @@ "y" :> g, defaults) :
            elem \in {1, 2}, length \in {None, 3}, f \in Fields, g \in Fields,
            defaults \in {NoValues, "x" :> {0, 5}}}
Three == {ClassOf(1, None, "x" :> f @@ "y" :> g @@ "z" :> h, "x" :> {0, 5}) :
            f \in Masked \cup Flags, g \in Fields, h \in Masked}
Classes == Two \cup Three

\* Values that fit everywhere, in wide fields, and nowhere; an unknown field.
Values == {{}, {0}, {0, 2, 9}}
Arguments ==
    UNION {[names -> Values] : names \in SUBSET {"x", "y", "z"}} \cup {"x" :> {0} @@ "w" :> {0}}

\* Enums with gaps, with their last member in the middle, and with members the mask lacks.
Enums == "x" :> <<{0}, {}, {1, 2}, {2}>> @@ "y" :> <<{2}, {7}, {0}>> @@ "z" :> <<{}, {1}>>

\* Codes the enums name, miss inside and miss outside, once and twice.
Rows ==
    {<<>>, <<{0, 9}, {12, 13}, {12}>>, <<{10, 15, 21}, {13, 14, 2}, {10, 15}, {8, 12, 15, 16}>>}

-----------------------------------------------------------------------------
(* One of the three moves                                                  *)

VARIABLE moves

FramesInit ==
    /\ moves \in {"frame", "stream", "class"}
    /\ WireInit /\ FramerInit /\ Init
    /\ moves # "stream" => source = <<>>
    /\ moves # "class" => cls = CHOOSE c \in Classes : TRUE

FramesNext ==
    /\ UNCHANGED moves
    /\ \/ moves = "frame" /\ WireNext /\ UNCHANGED <<framerVars, vars>>
       \/ moves = "stream" /\ FramerNext /\ UNCHANGED <<wireVars, vars>>
       \/ moves = "class" /\ Next /\ UNCHANGED <<wireVars, framerVars>>

FramesSpec == FramesInit /\ [][FramesNext]_<<moves, wireVars, framerVars, vars>>
=============================================================================
