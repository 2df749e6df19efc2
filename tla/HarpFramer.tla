----------------------------- MODULE HarpFramer -----------------------------
(***************************************************************************)
(* HarpFramer (_framer.py): bytes come in with feed() in chunks of any      *)
(* size, frames come out with next_frame().  The buffer and the position   *)
(* are those of the code, positions counting from 0; the stream the chunks *)
(* are cut from, and where in it each frame was found, are kept besides.   *)
(***************************************************************************)
EXTENDS HarpMessage

CONSTANTS
    Source,    \* the streams there may be
    Chunk,     \* bound: sizes of the chunks fed
    CompactAt  \* 4096 in feed()

ASSUME SourceAssumption == Source \subseteq Seq(Byte)
ASSUME ChunkAssumption == Chunk \subseteq Nat
ASSUME CompactAtAssumption == CompactAt \in Nat

VARIABLES
    source,  \* the stream
    fed,     \* how much of it has been fed
    buf,     \* _buf
    pos,     \* _pos
    out,     \* the frames returned so far: where each starts and ends in source
    last     \* the latest call: "feed", or what next_frame returned

framerVars == <<source, fed, buf, pos, out, last>>

FramerInit ==
    /\ source \in Source /\ fed = 0
    /\ buf = <<>> /\ pos = 0 /\ out = <<>> /\ last = "none"

Slice(s, i, j) == SubSeq(s, i + 1, j)

\* The position in source of the first byte of the buffer.
Base == fed - Len(buf)

-----------------------------------------------------------------------------
\* Mutant: the position stays when the bytes before it go.
PosKept == pos

PosAfterCompaction == 0

\* Mutant: the bytes are dropped at the wrong end.
WithoutNewest(b) == Slice(b, 0, Len(b) - pos)

Unconsumed(b) == Slice(b, pos, Len(b))

\* feed(): the bytes are appended; then those already consumed may be dropped.
Feed(n) ==
    LET longer == buf \o Slice(source, fed, fed + n) IN
    /\ fed + n <= Len(source)
    /\ fed' = fed + n
    /\ IF pos > CompactAt
         THEN buf' = Unconsumed(longer) /\ pos' = PosAfterCompaction
         ELSE buf' = longer /\ UNCHANGED pos
    /\ last' = "feed"
    /\ UNCHANGED <<source, out>>

\* A byte that may start a frame, and how long the frame would be.
Header(b, i) == IsMessageType(b[i + 1])
HasLength(b, i) == i + 1 < Len(b)
FrameEnd(b, i) == i + 2 + b[i + 2]

Complete(b, i) == HasLength(b, i) /\ FrameEnd(b, i) <= Len(b)

Valid(b, i) == Complete(b, i) /\ Parses(Slice(b, i, FrameEnd(b, i)))

\* Mutant: a frame that is not complete is taken for a bad one.
SkippedOrCut(b, i) ==
    \/ ~Header(b, i)
    \/ HasLength(b, i) /\ ~Valid(b, i)

\* The byte at i is skipped: it starts no frame, or one of length 0, or one that
\* is complete and does not parse.
Skipped(b, i) ==
    \/ ~Header(b, i)
    \/ HasLength(b, i) /\ b[i + 2] = 0
    \/ Complete(b, i) /\ ~Valid(b, i)

\* Mutant: after a frame, its checksum is looked at again.
BeforeChecksum(b, i) == FrameEnd(b, i) - 1

Behind(b, i) == FrameEnd(b, i)

\* next_frame(): bytes are skipped up to i.
Found(i) ==
    /\ i < Len(buf) /\ Header(buf, i) /\ Valid(buf, i)
    /\ pos' = Behind(buf, i)
    /\ out' = Append(out, [from |-> Base + i, to |-> Base + FrameEnd(buf, i)])
    /\ last' = "frame"

NotFound(i) ==
    /\ i < Len(buf) => ~Complete(buf, i)
    /\ pos' = i
    /\ last' = "none"
    /\ UNCHANGED out

NextFrame ==
    /\ \E i \in pos..Len(buf) :
          /\ \A j \in pos..(i - 1) : Skipped(buf, j)
          /\ i < Len(buf) => ~Skipped(buf, i)
          /\ Found(i) \/ NotFound(i)
    /\ UNCHANGED <<source, fed, buf>>

FramerNext == NextFrame \/ \E n \in Chunk : Feed(n)

FramerSpec == FramerInit /\ [][FramerNext]_framerVars

-----------------------------------------------------------------------------
(* parse_bytes: one framer fed with all bytes at once, and drained.        *)

\* The frames found from each position on.
FramesFrom(s) ==
    LET from[i \in 0..Len(s)] ==
          IF i = Len(s) THEN <<>>
          ELSE IF Skipped(s, i) THEN from[i + 1]
          ELSE IF Complete(s, i)
               THEN <<[from |-> i, to |-> FrameEnd(s, i)]>> \o from[Behind(s, i)]
          ELSE <<>>
    IN  from

ParseBytes(s) == FramesFrom(s)[0]

-----------------------------------------------------------------------------
\* The variables keep their types; the position is inside the buffer, and the
\* frames found lie before it.
FramerTypeOK ==
    /\ source \in Source /\ fed \in 0..Len(source)
    /\ buf \in Seq(Byte) /\ Len(buf) <= fed
    /\ pos \in 0..Len(buf)
    /\ out \in Seq([from : 0..fed, to : 0..(Base + pos)])
    /\ last \in {"feed", "frame", "none"}

\* The buffer is the end of what was fed, with nothing lost or repeated, through
\* every compaction (feed).
BufferIsTail == buf = Slice(source, Base, fed)

\* Chunks make no difference: whatever the sizes of the chunks, and wherever calls
\* of next_frame fall between them, the frames returned are those parse_bytes
\* finds in the bytes fed so far, and once next_frame returns None they are all of
\* them.
ChunksDoNotMatter ==
    LET all == ParseBytes(SubSeq(source, 1, fed)) IN
    /\ Len(out) <= Len(all) /\ out = SubSeq(all, 1, Len(out))
    /\ last = "none" => out = all

\* What is decided stays decided: whatever is fed later, parse_bytes finds the frames
\* returned so far, and goes on where next_frame goes on; after None there is no
\* more to find.  From this, kept by every call, follows that chunks make no
\* difference (feed, next_frame).
Decided ==
    /\ \A m \in fed..Len(source) :
          LET s == Slice(source, 0, m) IN ParseBytes(s) = out \o FramesFrom(s)[Base + pos]
    /\ last = "none" /\ pos < Len(buf) => ~Skipped(buf, pos) /\ ~Complete(buf, pos)

FramerIInv == FramerTypeOK /\ BufferIsTail /\ Decided

\* Memory is bounded: after None less than one longest frame is left to look at, so
\* a reader that drains the framer before it feeds it keeps no more than CompactAt
\* bytes, that remainder and the chunk itself (feed, next_frame).
MaxFrameLen == 257

MemoryBounded ==
    /\ last = "none" => Len(buf) - pos < MaxFrameLen
    /\ last = "feed" => pos <= CompactAt

\* No byte is skipped that starts a frame, and every frame returned is one: the
\* framer does what FrameStream says.
Stream == INSTANCE FrameStream WITH at <- Base + pos, IsFrame <- Parses

KeepsStream == Stream!Spec
=============================================================================
