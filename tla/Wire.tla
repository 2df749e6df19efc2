-------------------------------- MODULE Wire --------------------------------
(***************************************************************************)
(* One frame on its way from the constructor of HarpMessage to             *)
(* HarpMessage.parse.  The frame may be built by this library or by a      *)
(* device ("Foreign": any bytes at all), and the line may change one byte  *)
(* or lose the last ones.                                                  *)
(***************************************************************************)
EXTENDS HarpMessage

CONSTANTS
    Sendable,  \* arguments of the constructor
    Foreign,   \* frames made elsewhere
    Damage,    \* what a damaged byte may become
    Part,      \* bound: parts of a tick told apart in a time
    Absent     \* no time stamp, no message

ASSUME SendableAssumption ==
    /\ Sendable \subseteq [type : MessageType, address : Byte, port : Byte,
                           payloadType : PayloadType, payload : Seq(Byte),
                           time : Nat \cup {Absent}]
    /\ \A m \in Sendable : m.time # Absent => SecondsFit(m.time, Part)
ASSUME ForeignAssumption == Foreign \subseteq Seq(Byte) /\ Damage \subseteq Byte
ASSUME PartAssumption == Part \in Nat \ {0}

VARIABLES
    stage,  \* how far the frame has come
    sent,   \* what the constructor was given, if anything
    frame,  \* the bytes on the wire
    hurt,   \* they are no longer those that were sent
    answer  \* the message parse returned

wireVars == <<stage, sent, frame, hurt, answer>>

WireInit ==
    /\ stage = "idle" /\ sent = Absent /\ frame = <<>>
    /\ hurt = FALSE /\ answer = Absent

\* The message a constructor call describes: it never sets the error flag.
Described(m) ==
    [type |-> m.type, error |-> FALSE, address |-> m.address, port |-> m.port,
     payloadType |-> m.payloadType, payload |-> m.payload,
     stamp |-> IF m.time = Absent THEN <<>> ELSE StampFrom(m.time, Part)]

Send(m) ==
    /\ sent' = m
    /\ IF Buildable(Described(m))
         THEN stage' = "sent" /\ frame' = BuildFrame(Described(m))
         ELSE stage' = "refused" /\ UNCHANGED frame
    /\ UNCHANGED <<hurt, answer>>

Inject(f) ==
    /\ stage' = "sent" /\ frame' = f
    /\ UNCHANGED <<sent, hurt, answer>>

Start ==
    /\ stage = "idle"
    /\ \/ \E m \in Sendable : Send(m)
       \/ \E f \in Foreign : Inject(f)

\* The line changes one byte, or loses the last ones.
Corrupt ==
    \E i \in DOMAIN frame, b \in Damage :
        /\ frame[i] # b
        /\ frame' = [frame EXCEPT ![i] = b]

Truncate ==
    \E n \in DOMAIN frame :
        /\ n < Len(frame)
        /\ frame' = SubSeq(frame, 1, n)

Disturb ==
    /\ stage = "sent" /\ ~hurt
    /\ Corrupt \/ Truncate
    /\ hurt' = TRUE
    /\ UNCHANGED <<stage, sent, answer>>

Receive ==
    /\ stage = "sent"
    /\ IF Parses(frame)
         THEN stage' = "accepted" /\ answer' = Parsed(frame)
         ELSE stage' = "rejected" /\ UNCHANGED answer
    /\ UNCHANGED <<sent, frame, hurt>>

WireNext == Start \/ Disturb \/ Receive

WireSpec == WireInit /\ [][WireNext]_wireVars

-----------------------------------------------------------------------------
WireTypeOK ==
    /\ stage \in {"idle", "sent", "refused", "accepted", "rejected"}
    /\ sent \in Sendable \cup {Absent} /\ frame \in Seq(Byte)
    /\ hurt \in BOOLEAN /\ answer \in Message \cup {Absent}

\* Frame g is what f became by losing its last bytes, or by one byte changed.
CutShort(f, g) == Len(g) < Len(f) /\ g = SubSeq(f, 1, Len(g))
Changed(f, g) ==
    /\ Len(g) = Len(f)
    /\ \E i \in DOMAIN f : g[i] # f[i] /\ \A j \in DOMAIN f \ {i} : g[j] = f[j]

\* What is on the line is what was built, damaged once at most, and only what cannot
\* be built is refused.
OnTheLine ==
    /\ stage = "idle" => sent = Absent
    /\ stage \in {"idle", "refused"} => ~hurt
    /\ stage = "refused" => sent \in Sendable /\ ~Buildable(Described(sent))
    /\ stage \notin {"idle", "refused"} /\ sent # Absent =>
          LET built == BuildFrame(Described(sent)) IN
          /\ Buildable(Described(sent))
          /\ IF hurt THEN CutShort(built, frame) \/ Changed(built, frame) ELSE frame = built

\* The answer is what parse makes of the frame.
Answered ==
    /\ stage = "accepted" => Parses(frame) /\ answer = Parsed(frame)
    /\ stage = "rejected" => ~Parses(frame)

\* A frame is always the one that was built but for a single damage, and the
\* answer is the one parse gives to it: the invariant behind all the properties
\* below (build_message_frame, parse).
WireIInv == WireTypeOK /\ OnTheLine /\ Answered

\* A message that parse accepts has fields the protocol knows: no reserved bit, no
\* payload type outside PayloadType gets through (_message_type, _payload_type).
FieldsKnown ==
    stage = "accepted" =>
        /\ answer.type \in MessageType /\ answer.error \in BOOLEAN
        /\ answer.payloadType \in PayloadType
        /\ Len(answer.stamp) \in {0, TimestampLen} /\ answer.payload \in Seq(Byte)

\* What the constructor was given is what parse reports, up to the largest frame
\* the length byte can describe; only a longer one is refused (build_message_frame
\* against parse).
RoundTrip ==
    /\ sent # Absent /\ ~hurt => stage # "rejected"
    /\ sent # Absent /\ stage = "accepted" => answer = Described(sent)
    /\ stage = "refused" => Len(sent.payload) + Len(Described(sent).stamp) > 251

\* parse reports all there is in a frame: building what it reports gives the same
\* bytes back, for every frame it accepts, whoever made it.  So no two frames
\* read the same, and no accessor reads outside the frame (the length and time
\* stamp checks of parse).
Canonical == stage = "accepted" => BuildFrame(answer) = frame

\* A frame that lost its last bytes, or has one byte changed, is not accepted (the
\* checksum and length checks of parse).
DamageRejected == hurt /\ sent # Absent => stage # "accepted"

\* A time comes back within half a tick, also where its ticks round up to a whole
\* second (the timestamp property against build_message_frame).
TimeKept ==
    stage = "accepted" /\ sent # Absent /\ ~hurt /\ sent.time # Absent =>
        LET error == TicksOf(answer.stamp) * Part - sent.time
        IN  2 * error <= Part /\ 2 * error >= -Part
=============================================================================
