---------------------------- MODULE FramerProofs ----------------------------
(***************************************************************************)
(* Theorems about HarpFramer, for every stream, every chunking and every   *)
(* CompactAt: the buffer is the tail of what was fed, memory is bounded,   *)
(* and the framer implements FrameStream.                                  *)
(***************************************************************************)
EXTENDS HarpFramer, HarpMessageProofs

\* What a slice of a byte sequence is.
LEMMA SliceProperties ==
    ASSUME NEW s \in Seq(Byte), NEW i \in 0..Len(s), NEW j \in i..Len(s)
    PROVE  /\ Slice(s, i, j) \in Seq(Byte)
           /\ Len(Slice(s, i, j)) = j - i
           /\ \A k \in 1..(j - i) : Slice(s, i, j)[k] = s[i + k]
<1>1. i + 1 \in Int /\ j \in Int /\ (i + 1)..j \subseteq 1..Len(s)
  OBVIOUS
<1>2. \A k \in (i + 1)..j : s[k] \in Byte
  BY <1>1, ElementOfSeq
<1>3. /\ SubSeq(s, i + 1, j) \in Seq(Byte)
      /\ Len(SubSeq(s, i + 1, j)) = IF i + 1 <= j THEN j - (i + 1) + 1 ELSE 0
      /\ \A k \in 1..(j - (i + 1) + 1) : SubSeq(s, i + 1, j)[k] = s[(i + 1) + k - 1]
  BY <1>1, <1>2, SubSeqProperties
<1>4. QED
  BY <1>3 DEF Slice

\* A slice of a slice is a slice.
LEMMA SliceOfSlice ==
    ASSUME NEW s \in Seq(Byte), NEW i \in 0..Len(s), NEW j \in i..Len(s),
           NEW k \in 0..(j - i), NEW l \in k..(j - i)
    PROVE  Slice(Slice(s, i, j), k, l) = Slice(s, i + k, i + l)
<1> DEFINE t == Slice(s, i, j)
           u == Slice(t, k, l)
           v == Slice(s, i + k, i + l)
<1>1. /\ t \in Seq(Byte) /\ Len(t) = j - i
      /\ \A n \in 1..(j - i) : t[n] = s[i + n]
  BY SliceProperties
<1>2. /\ u \in Seq(Byte) /\ Len(u) = l - k
      /\ \A n \in 1..(l - k) : u[n] = t[k + n]
  <2>1. k \in 0..Len(t) /\ l \in k..Len(t)
    BY <1>1
  <2>2. QED
    BY <1>1, <2>1, SliceProperties
<1>3. /\ v \in Seq(Byte) /\ Len(v) = l - k
      /\ \A n \in 1..(l - k) : v[n] = s[i + k + n]
  <2>1. i + k \in 0..Len(s) /\ i + l \in (i + k)..Len(s) /\ (i + l) - (i + k) = l - k
    OBVIOUS
  <2>2. QED
    BY <2>1, SliceProperties
<1>4. \A n \in 1..Len(u) : u[n] = v[n]
  BY <1>1, <1>2, <1>3
<1>5. QED
  BY <1>2, <1>3, <1>4, SeqEqual

\* Two slices side by side.
LEMMA SlicesJoin ==
    ASSUME NEW s \in Seq(Byte), NEW i \in 0..Len(s), NEW j \in i..Len(s),
           NEW k \in j..Len(s)
    PROVE  Slice(s, i, j) \o Slice(s, j, k) = Slice(s, i, k)
<1>1. i + 1 \in 1..(Len(s) + 1) /\ j \in ((i + 1) - 1)..Len(s) /\ k \in j..Len(s)
  OBVIOUS
<1>2. QED
  BY <1>1, ConcatAdjacentSubSeq DEF Slice

\* parse() accepts only frames whose first two bytes say what they are.
LEMMA ParsedFrame ==
    ASSUME NEW f, Parses(f)
    PROVE  Len(f) >= 6 /\ IsMessageType(f[1]) /\ Len(f) = f[2] + 2
BY DEF Parses, MinFrameLen, LengthAgrees

-----------------------------------------------------------------------------
\* The buffer holds what lies at Base of the stream, so a frame seen in the one
\* is a frame of the other.
TypeInv == FramerTypeOK /\ BufferIsTail

LEMMA BufferBytes ==
    ASSUME TypeInv
    PROVE  /\ source \in Seq(Byte) /\ fed \in 0..Len(source)
           /\ Base \in 0..fed /\ Base + Len(buf) = fed
           /\ Len(buf) \in Nat
           /\ \A i \in 0..Len(buf) : \A j \in i..Len(buf) :
                 Slice(buf, i, j) = Slice(source, Base + i, Base + j)
           /\ \A i \in 1..Len(buf) : buf[i] = source[Base + i] /\ buf[i] \in Byte
<1>1. source \in Seq(Byte) /\ fed \in 0..Len(source) /\ buf \in Seq(Byte) /\ Len(buf) <= fed
  BY SourceAssumption DEF TypeInv, FramerTypeOK
<1>2. Len(buf) \in Nat /\ Base \in 0..fed /\ Base + Len(buf) = fed
  BY <1>1 DEF Base
<1>3. buf = Slice(source, Base, fed) /\ Base \in 0..Len(source) /\ fed \in Base..Len(source)
  BY <1>1, <1>2 DEF TypeInv, BufferIsTail
<1>4. ASSUME NEW i \in 0..Len(buf), NEW j \in i..Len(buf)
      PROVE  Slice(buf, i, j) = Slice(source, Base + i, Base + j)
  <2>1. i \in 0..(fed - Base) /\ j \in i..(fed - Base)
    BY <1>2
  <2>2. Slice(Slice(source, Base, fed), i, j) = Slice(source, Base + i, Base + j)
    BY <1>1, <1>3, <2>1, SliceOfSlice
  <2>3. QED
    BY <1>3, <2>2
<1>5. \A i \in 1..Len(buf) : buf[i] = source[Base + i] /\ buf[i] \in Byte
  <2>1. \A i \in 1..(fed - Base) : Slice(source, Base, fed)[i] = source[Base + i]
    BY <1>1, <1>3, SliceProperties
  <2>2. ASSUME NEW i \in 1..Len(buf)
        PROVE  buf[i] = source[Base + i]
    <3>1. i \in 1..(fed - Base)
      BY <1>2
    <3>2. buf[i] = Slice(source, Base, fed)[i]
      BY <1>3
    <3>3. QED
      BY <2>1, <3>1, <3>2
  <2>3. \A i \in 1..Len(buf) : buf[i] \in Byte
    BY <1>1, ElementOfSeq
  <2>4. QED
    BY <2>2, <2>3
<1>6. QED
  BY <1>1, <1>2, <1>4, <1>5

\* A byte of the buffer that next_frame skips starts no frame of the stream, now
\* or when more of it is fed.
LEMMA SkippedStartsNothing ==
    ASSUME TypeInv, NEW i \in 0..(Len(buf) - 1), Skipped(buf, i)
    PROVE  ~Stream!Starts(source, Base + i)
<1> SUFFICES ASSUME NEW j \in (Base + i)..Len(source), Parses(Slice(source, Base + i, j))
             PROVE  FALSE
  BY DEF Stream!Starts, Stream!Slice, Slice
<1> DEFINE f == Slice(source, Base + i, j)
<1>1. /\ source \in Seq(Byte) /\ fed \in 0..Len(source)
      /\ Base \in 0..fed /\ Base + Len(buf) = fed /\ Len(buf) \in Nat
      /\ \A k \in 0..Len(buf) : \A l \in k..Len(buf) :
            Slice(buf, k, l) = Slice(source, Base + k, Base + l)
      /\ \A k \in 1..Len(buf) : buf[k] = source[Base + k] /\ buf[k] \in Byte
  BY BufferBytes
<1>2. /\ Len(f) = j - (Base + i)
      /\ \A k \in 1..(j - (Base + i)) : f[k] = source[Base + i + k]
  <2>1. Base + i \in 0..Len(source)
    BY <1>1
  <2>2. QED
    BY <1>1, <2>1, SliceProperties
<1>3. Len(f) >= 6 /\ IsMessageType(f[1]) /\ Len(f) = f[2] + 2
  BY ParsedFrame
<1>4. f[1] = buf[i + 1] /\ f[2] = source[Base + i + 2]
  <2>1. 1 \in 1..(j - (Base + i)) /\ 2 \in 1..(j - (Base + i)) /\ i + 1 \in 1..Len(buf)
    BY <1>1, <1>2, <1>3
  <2>2. f[1] = source[Base + i + 1] /\ f[2] = source[Base + i + 2]
    BY <1>2, <2>1
  <2>3. buf[i + 1] = source[Base + (i + 1)] /\ Base + (i + 1) = Base + i + 1
    BY <1>1, <2>1
  <2>4. QED
    BY <2>2, <2>3
<1>5. Header(buf, i)
  BY <1>3, <1>4 DEF Header
<1>6. HasLength(buf, i) => buf[i + 2] = f[2] /\ buf[i + 2] \in 0..255
  <2>1. HasLength(buf, i) => i + 2 \in 1..Len(buf) /\ Base + (i + 2) = Base + i + 2
    BY <1>1 DEF HasLength
  <2>2. HasLength(buf, i) => buf[i + 2] \in Byte
    BY <1>1, <2>1
  <2>3. QED
    BY <1>1, <1>4, <2>1, <2>2 DEF Byte
<1>7. ~(HasLength(buf, i) /\ buf[i + 2] = 0)
  BY <1>3, <1>6, <1>2
<1>8. Complete(buf, i) => Valid(buf, i)
  <2>1. SUFFICES ASSUME Complete(buf, i) PROVE Parses(Slice(buf, i, FrameEnd(buf, i)))
    BY DEF Valid
  <2>2. FrameEnd(buf, i) = i + Len(f) /\ FrameEnd(buf, i) <= Len(buf)
    <3>1. /\ HasLength(buf, i) /\ FrameEnd(buf, i) <= Len(buf)
          /\ FrameEnd(buf, i) = i + 2 + buf[i + 2]
      BY <2>1 DEF Complete, FrameEnd
    <3>2. PICK n \in 0..255 : buf[i + 2] = n /\ Len(f) = n + 2
      BY <1>3, <1>6, <3>1
    <3>3. i \in Int
      BY <1>1
    <3>4. QED
      BY <3>1, <3>2, <3>3
  <2>3. FrameEnd(buf, i) \in i..Len(buf) /\ Base + FrameEnd(buf, i) = j
    BY <1>1, <1>2, <2>2
  <2>4. Slice(buf, i, FrameEnd(buf, i)) = Slice(source, Base + i, j)
    BY <1>1, <2>3
  <2>5. QED
    BY <2>4
<1>9. QED
  BY <1>5, <1>7, <1>8 DEF Skipped

-----------------------------------------------------------------------------
LEMMA InitTypeInv == FramerInit => TypeInv
<1> SUFFICES ASSUME FramerInit PROVE TypeInv
  OBVIOUS
<1>1. source \in Seq(Byte) /\ Len(source) \in Nat
  BY SourceAssumption DEF FramerInit
<1>2. buf = <<>> /\ out = <<>> /\ fed = 0 /\ pos = 0 /\ last = "none" /\ Len(buf) = 0
  BY DEF FramerInit
<1>3. Slice(source, Base, fed) = <<>>
  BY <1>2, SubSeqEmpty DEF Base, Slice
<1>4. QED
  BY <1>1, <1>2, <1>3 DEF FramerInit, TypeInv, FramerTypeOK, BufferIsTail, Base

\* The bytes consumed stay consumed: feed() moves the frames found nowhere.
LEMMA FeedStep ==
    ASSUME TypeInv, NEW n \in Chunk, Feed(n)
    PROVE  TypeInv' /\ Base' + pos' = Base + pos
<1>a. PICK longer : longer = buf \o Slice(source, fed, fed + n)
  OBVIOUS
<1>b. Base' = fed' - Len(buf') /\ Base = fed - Len(buf)
  BY DEF Base
<1>1. /\ source \in Seq(Byte) /\ fed \in 0..Len(source)
      /\ Base \in 0..fed /\ Base + Len(buf) = fed /\ Len(buf) \in Nat
  BY BufferBytes
<1>2. /\ n \in Nat /\ fed + n \in fed..Len(source) /\ fed' = fed + n
      /\ source' = source /\ out' = out /\ last' = "feed"
  BY <1>1, ChunkAssumption DEF Feed
<1>3. pos \in 0..Len(buf) /\ source \in Source
  BY DEF TypeInv, FramerTypeOK
<1>4. longer = Slice(source, Base, fed + n)
  <2>1. buf = Slice(source, Base, fed)
    BY DEF TypeInv, BufferIsTail
  <2>2. Base \in 0..Len(source) /\ fed \in Base..Len(source)
    BY <1>1
  <2>3. Slice(source, Base, fed) \o Slice(source, fed, fed + n) = Slice(source, Base, fed + n)
    BY <1>1, <1>2, <2>2, SlicesJoin
  <2>4. QED
    BY <1>a, <2>1, <2>3
<1>5. longer \in Seq(Byte) /\ Len(longer) = Len(buf) + n
  <2>1. Base \in 0..Len(source) /\ fed + n \in Base..Len(source)
    BY <1>1, <1>2
  <2>2. /\ Slice(source, Base, fed + n) \in Seq(Byte)
        /\ Len(Slice(source, Base, fed + n)) = (fed + n) - Base
    BY <1>1, <2>1, SliceProperties
  <2>3. QED
    BY <1>1, <1>2, <1>4, <2>2
<1>6. /\ buf' \in Seq(Byte) /\ Base' = fed + n - Len(buf') /\ pos' \in 0..Len(buf')
      /\ Len(buf') <= fed' /\ Base' + pos' = Base + pos
      /\ buf' = Slice(source, Base', fed')
  <2>1. CASE pos > CompactAt
    <3>1. buf' = Slice(longer, pos, Len(longer)) /\ pos' = 0
      BY <1>a, <2>1 DEF Feed, Unconsumed, PosAfterCompaction
    <3>2. pos \in 0..Len(longer) /\ Len(longer) \in pos..Len(longer)
      BY <1>1, <1>2, <1>3, <1>5
    <3>3. buf' \in Seq(Byte) /\ Len(buf') = Len(longer) - pos
      BY <1>5, <3>1, <3>2, SliceProperties
    <3>4. Base' = Base + pos
      BY <1>b, <1>1, <1>2, <1>3, <1>5, <3>3
    <3>5. buf' = Slice(source, Base + pos, Base + Len(longer))
      <4>1. /\ Base \in 0..Len(source) /\ fed + n \in Base..Len(source)
            /\ pos \in 0..((fed + n) - Base) /\ Len(longer) \in pos..((fed + n) - Base)
        BY <1>1, <1>2, <1>3, <1>5
      <4>2. QED
        BY <1>1, <1>4, <3>1, <4>1, SliceOfSlice
    <3>6. Base + Len(longer) = fed + n /\ Base' = fed + n - Len(buf') /\ Len(buf') <= fed'
      BY <1>b, <1>1, <1>2, <1>3, <1>5, <3>3
    <3>7. Len(buf') \in Nat /\ pos' \in 0..Len(buf') /\ Base' + pos' = Base + pos
      BY <1>1, <1>3, <3>1, <3>3, <3>4
    <3>8. buf' = Slice(source, Base', fed')
      BY <1>2, <3>4, <3>5, <3>6
    <3>9. QED
      BY <3>3, <3>6, <3>7, <3>8
  <2>2. CASE ~(pos > CompactAt)
    <3>1. buf' = longer /\ pos' = pos
      BY <1>a, <2>2 DEF Feed
    <3>2. Base' = Base
      BY <1>b, <1>1, <1>2, <1>5, <3>1
    <3>3. QED
      BY <1>b, <1>1, <1>2, <1>3, <1>4, <1>5, <3>1, <3>2, SMTT(40)
  <2>3. QED
    BY <2>1, <2>2
<1>7. out' \in Seq([from : 0..fed', to : 0..(Base' + pos')])
  <2>1. PICK S : S = [from : 0..fed, to : 0..(Base + pos)]
    OBVIOUS
  <2>2. PICK T : T = [from : 0..fed', to : 0..(Base' + pos')]
    OBVIOUS
  <2>3. out \in Seq(S)
    BY <2>1 DEF TypeInv, FramerTypeOK
  <2>4. S \subseteq T
    <3>1. 0..fed \subseteq 0..fed'
      BY <1>1, <1>2
    <3>2. 0..(Base + pos) \subseteq 0..(Base' + pos')
      BY <1>6
    <3>3. QED
      BY <2>1, <2>2, <3>1, <3>2
  <2>5. out \in Seq(T)
    BY <2>3, <2>4, SeqMonotonic
  <2>6. QED
    BY <1>2, <2>2, <2>5
<1>8. QED
  BY <1>1, <1>2, <1>3, <1>6, <1>7 DEF TypeInv, FramerTypeOK, BufferIsTail

\* What next_frame does: it passes from pos to i over bytes that start no frame,
\* and finds a frame there or stops.
LEMMA NextFrameStep ==
    ASSUME TypeInv, NextFrame
    PROVE  TypeInv' /\ [Stream!Next]_(Stream!vars) /\ (last' = "none" => Len(buf) - pos' < MaxFrameLen)
<1>1. /\ source \in Seq(Byte) /\ fed \in 0..Len(source)
      /\ Base \in 0..fed /\ Base + Len(buf) = fed /\ Len(buf) \in Nat
      /\ \A k \in 0..Len(buf) : \A l \in k..Len(buf) :
            Slice(buf, k, l) = Slice(source, Base + k, Base + l)
      /\ \A k \in 1..Len(buf) : buf[k] \in Byte
  BY BufferBytes
<1>2. pos \in 0..Len(buf) /\ source \in Source
  BY DEF TypeInv, FramerTypeOK
<1>3. source' = source /\ fed' = fed /\ buf' = buf /\ Base' = Base
  BY DEF NextFrame, Base
<1>4. PICK i \in pos..Len(buf) :
        /\ \A j \in pos..(i - 1) : Skipped(buf, j)
        /\ i < Len(buf) => ~Skipped(buf, i)
        /\ Found(i) \/ NotFound(i)
  BY DEF NextFrame
<1>i. i \in Nat /\ i <= Len(buf) /\ Len(buf) \in Nat /\ pos \in Nat /\ pos <= i /\ Base \in Nat
  BY <1>1, <1>2, <1>4
<1>5. \A k \in (Base + pos)..(Base + i - 1) : ~Stream!Starts(source, k)
  <2>1. SUFFICES ASSUME NEW k \in (Base + pos)..(Base + i - 1)
                 PROVE  ~Stream!Starts(source, k)
    OBVIOUS
  <2>2. PICK j \in pos..(i - 1) : k = Base + j
    <3>1. k - Base \in pos..(i - 1) /\ k = Base + (k - Base)
      BY <1>1, <1>2, <1>4
    <3>2. QED
      BY <3>1
  <2>3. j \in 0..(Len(buf) - 1) /\ Skipped(buf, j)
    BY <1>1, <1>2, <1>4
  <2>4. QED
    BY <2>2, <2>3, SkippedStartsNothing
<1>6. CASE Found(i)
  <2>1. PICK e : e = FrameEnd(buf, i)
    OBVIOUS
  <2>2. /\ i < Len(buf) /\ HasLength(buf, i) /\ e <= Len(buf)
        /\ Parses(Slice(buf, i, e)) /\ last' = "frame" /\ pos' = e
        /\ out' = Append(out, [from |-> Base + i, to |-> Base + e])
    BY <1>6, <2>1 DEF Found, Valid, Complete, Behind
  <2>3. e \in i..Len(buf)
    <3>1. i + 2 \in 1..Len(buf)
      BY <1>1, <1>2, <1>4, <2>2 DEF HasLength
    <3>2. buf[i + 2] \in 0..255
      BY <1>1, <3>1 DEF Byte
    <3>3. PICK n \in 0..255 : e = i + 2 + n
      BY <2>1, <3>2 DEF FrameEnd
    <3>4. QED
      BY <1>i, <2>2, <3>3
  <2>4. Slice(buf, i, e) = Slice(source, Base + i, Base + e)
    <3>1. i \in 0..Len(buf)
      BY <1>i
    <3>2. QED
      BY <1>1, <2>3, <3>1
  <2>5. /\ Base + i \in (Base + pos)..Len(source) /\ Base + e \in (Base + i)..Len(source)
        /\ Base' + pos' = Base + e
    BY <1>1, <1>2, <1>3, <1>4, <2>2, <2>3
  <2>6. Stream!Take
    <3>1. Parses(Stream!Slice(source, Base + i, Base + e))
      BY <2>2, <2>4 DEF Stream!Slice, Slice
    <3>2. (Base + pos)' = Base + e /\ source' = source
      BY <1>3, <2>5
    <3>3. /\ \A k \in (Base + pos)..(Base + i - 1) : ~Stream!Starts(source, k)
          /\ out' = Append(out, [from |-> Base + i, to |-> Base + e])
      BY <1>5, <2>2
    <3>4. PICK a, b : a = Base + i /\ b = Base + e
      OBVIOUS
    <3>5. a \in (Base + pos)..Len(source) /\ b \in a..Len(source)
      BY <2>5, <3>4
    <3>6. \A k \in (Base + pos)..(a - 1) : ~Stream!Starts(source, k)
      BY <1>i, <3>3, <3>4
    <3>7. Parses(Stream!Slice(source, a, b)) /\ (Base + pos)' = b
      BY <3>1, <3>2, <3>4
    <3>8. out' = Append(out, [from |-> a, to |-> b])
      BY <3>3, <3>4
    <3>9. QED
      BY <3>2, <3>5, <3>6, <3>7, <3>8, Zenon DEF Stream!Take
  <2>7. TypeInv'
    <3>1. PICK S : S = [from : 0..fed, to : 0..(Base + pos)]
      OBVIOUS
    <3>2. PICK T : T = [from : 0..fed', to : 0..(Base' + pos')]
      OBVIOUS
    <3>3. S \subseteq T
      <4>1. 0..fed = 0..fed' /\ 0..(Base + pos) \subseteq 0..(Base' + pos')
        BY <1>1, <1>2, <1>3, <1>4, <2>2, <2>3
      <4>2. QED
        BY <3>1, <3>2, <4>1
    <3>4. out \in Seq(T)
      <4>1. out \in Seq(S)
        BY <3>1 DEF TypeInv, FramerTypeOK
      <4>2. QED
        BY <3>3, <4>1, SeqMonotonic
    <3>5. [from |-> Base + i, to |-> Base + e] \in T
      <4>1. Base + i \in 0..fed' /\ Base + e \in 0..(Base' + pos')
        BY <1>1, <1>2, <1>3, <1>4, <2>3, <2>5
      <4>2. QED
        BY <3>2, <4>1
    <3>6. out' \in Seq(T)
      BY <2>2, <3>4, <3>5, AppendProperties
    <3>7. pos' \in 0..Len(buf')
      BY <1>1, <1>2, <1>3, <1>4, <2>2, <2>3
    <3>8. QED
      BY <1>1, <1>2, <1>3, <2>2, <3>2, <3>6, <3>7 DEF TypeInv, FramerTypeOK, BufferIsTail
  <2>8. QED
    BY <2>2, <2>6, <2>7 DEF Stream!Next
<1>7. CASE NotFound(i)
  <2>1. pos' = i /\ last' = "none" /\ out' = out /\ Base' + pos' = Base + i
    BY <1>3, <1>7 DEF NotFound
  <2>2. Stream!Skip
    <3>1. Base + i \in (Base + pos)..Len(source)
      BY <1>1, <1>2, <1>4
    <3>2. (Base + pos)' = Base + i /\ source' = source /\ out' = out
      BY <1>3, <2>1
    <3>3. \A k \in (Base + pos)..((Base + pos)' - 1) : ~Stream!Starts(source, k)
      BY <1>i, <1>5, <3>2
    <3>4. (Base + pos)' \in (Base + pos)..Len(source)
      BY <3>1, <3>2
    <3>5. QED
      BY <3>2, <3>3, <3>4 DEF Stream!Skip
  <2>3. TypeInv'
    <3>1. PICK S : S = [from : 0..fed, to : 0..(Base + pos)]
      OBVIOUS
    <3>2. PICK T : T = [from : 0..fed', to : 0..(Base' + pos')]
      OBVIOUS
    <3>3. S \subseteq T
      <4>1. 0..fed = 0..fed' /\ 0..(Base + pos) \subseteq 0..(Base' + pos')
        BY <1>1, <1>2, <1>3, <1>4, <2>1
      <4>2. QED
        BY <3>1, <3>2, <4>1
    <3>4. out' \in Seq(T)
      <4>1. out \in Seq(S)
        BY <3>1 DEF TypeInv, FramerTypeOK
      <4>2. QED
        BY <2>1, <3>3, <4>1, SeqMonotonic
    <3>5. pos' \in 0..Len(buf')
      BY <1>1, <1>2, <1>3, <1>4, <2>1
    <3>6. QED
      BY <1>1, <1>2, <1>3, <2>1, <3>2, <3>4, <3>5 DEF TypeInv, FramerTypeOK, BufferIsTail
  <2>4. Len(buf) - i < 257
    <3>1. CASE i = Len(buf)
      BY <1>1, <3>1
    <3>2. CASE i < Len(buf) /\ ~HasLength(buf, i)
      BY <1>1, <1>2, <1>4, <3>2 DEF HasLength
    <3>3. CASE i < Len(buf) /\ HasLength(buf, i)
      <4>1. i + 2 \in 1..Len(buf)
        BY <1>1, <1>2, <1>4, <3>3 DEF HasLength
      <4>2. PICK n \in 0..255 : buf[i + 2] = n
        BY <1>1, <4>1 DEF Byte
      <4>3. ~(i + 2 + n <= Len(buf))
        BY <1>7, <3>3, <4>2 DEF NotFound, Complete, FrameEnd
      <4>4. QED
        BY <1>i, <4>3
    <3>4. QED
      BY <1>1, <1>2, <1>4, <3>1, <3>2, <3>3
  <2>5. QED
    BY <2>1, <2>2, <2>3, <2>4 DEF Stream!Next, MaxFrameLen
<1>8. QED
  BY <1>4, <1>6, <1>7

-----------------------------------------------------------------------------
\* Every variable keeps its type, and the buffer is the tail of what was fed.
THEOREM BufferKept == FramerSpec => [](FramerTypeOK /\ BufferIsTail)
<1>1. FramerInit => TypeInv
  BY InitTypeInv
<1>2. TypeInv /\ [FramerNext]_framerVars => TypeInv'
  <2> SUFFICES ASSUME TypeInv, [FramerNext]_framerVars PROVE TypeInv'
    OBVIOUS
  <2>1. CASE NextFrame
    BY <2>1, NextFrameStep
  <2>2. ASSUME NEW n \in Chunk, Feed(n) PROVE TypeInv'
    BY <2>2, FeedStep
  <2>3. CASE UNCHANGED framerVars
    BY <2>3 DEF framerVars, TypeInv, FramerTypeOK, BufferIsTail, Base
  <2>4. QED
    BY <2>1, <2>2, <2>3 DEF FramerNext
<1>3. QED
  BY <1>1, <1>2, PTL DEF FramerSpec, TypeInv

\* After None less than a longest frame is left to scan, and after feed() at most
\* CompactAt bytes lie before the position: the buffer does not grow.
THEOREM BufferBounded == FramerSpec => []MemoryBounded
<1>1. FramerInit => MemoryBounded
  BY DEF FramerInit, MemoryBounded, MaxFrameLen
<1>2. TypeInv /\ MemoryBounded /\ [FramerNext]_framerVars => MemoryBounded'
  <2> SUFFICES ASSUME TypeInv, MemoryBounded, [FramerNext]_framerVars PROVE MemoryBounded'
    OBVIOUS
  <2>1. CASE NextFrame
    <3>1. buf' = buf /\ last' # "feed"
      BY <2>1 DEF NextFrame, Found, NotFound
    <3>2. QED
      BY <2>1, <3>1, NextFrameStep DEF MemoryBounded
  <2>2. ASSUME NEW n \in Chunk, Feed(n) PROVE MemoryBounded'
    <3>1. pos \in Nat /\ last' = "feed" /\ (pos' = 0 \/ (pos' = pos /\ ~(pos > CompactAt)))
      BY <2>2 DEF Feed, TypeInv, FramerTypeOK, PosAfterCompaction
    <3>2. QED
      BY <3>1, CompactAtAssumption DEF MemoryBounded
  <2>3. CASE UNCHANGED framerVars
    BY <2>3 DEF framerVars, MemoryBounded
  <2>4. QED
    BY <2>1, <2>2, <2>3 DEF FramerNext
<1>3. QED
  BY <1>1, <1>2, BufferKept, PTL DEF FramerSpec, TypeInv

\* The framer implements FrameStream: whatever the chunks, it passes over the
\* stream once, skips only bytes that start no frame, and returns only frames.
THEOREM FramerKeepsStream == FramerSpec => KeepsStream
<1>1. FramerInit => Stream!Init
  <2> SUFFICES ASSUME FramerInit PROVE Stream!Init
    OBVIOUS
  <2>1. source \in Source /\ out = <<>> /\ fed = 0 /\ pos = 0 /\ Len(buf) = 0
    BY DEF FramerInit
  <2>2. QED
    BY <2>1 DEF Stream!Init, Base
<1>2. TypeInv /\ [FramerNext]_framerVars => [Stream!Next]_(Stream!vars)
  <2> SUFFICES ASSUME TypeInv, [FramerNext]_framerVars PROVE [Stream!Next]_(Stream!vars)
    OBVIOUS
  <2>1. CASE NextFrame
    BY <2>1, NextFrameStep
  <2>2. ASSUME NEW n \in Chunk, Feed(n) PROVE UNCHANGED Stream!vars
    <3>1. Base' + pos' = Base + pos
      BY <2>2, FeedStep
    <3>2. source' = source /\ out' = out
      BY <2>2 DEF Feed
    <3>3. QED
      BY <3>1, <3>2 DEF Stream!vars
  <2>3. CASE UNCHANGED framerVars
    BY <2>3 DEF framerVars, Stream!vars, Base
  <2>4. QED
    BY <2>1, <2>2, <2>3 DEF FramerNext
<1>3. QED
  BY <1>1, <1>2, BufferKept, PTL DEF FramerSpec, TypeInv, KeepsStream, Stream!Spec
-----------------------------------------------------------------------------
(* parse_bytes, for every stream                                           *)

\* A complete frame ends behind its first two bytes, inside the bytes there are.
LEMMA EndOfFrame ==
    ASSUME NEW s \in Seq(Byte), NEW i \in 0..(Len(s) - 1), Complete(s, i)
    PROVE  FrameEnd(s, i) \in (i + 2)..Len(s) /\ Behind(s, i) = FrameEnd(s, i)
<1>1. i + 2 \in 1..Len(s) /\ FrameEnd(s, i) <= Len(s) /\ FrameEnd(s, i) = i + 2 + s[i + 2]
  BY DEF Complete, HasLength, FrameEnd
<1>2. s[i + 2] \in Byte
  BY <1>1, ElementOfSeq
<1>3. Byte = 0..255
  BY DEF Byte
<1>4. s[i + 2] \in 0..255
  BY <1>2, <1>3, Zenon
<1>5. PICK n \in 0..255 : s[i + 2] = n
  BY <1>4
<1>. QED BY <1>1, <1>5 DEF Behind

\* What is found from i on, given what is found from each later position on.
FoundFrom(s, g, i) ==
    IF i = Len(s) THEN <<>>
    ELSE IF Skipped(s, i) THEN g[i + 1]
    ELSE IF Complete(s, i)
         THEN <<[from |-> i, to |-> FrameEnd(s, i)]>> \o g[Behind(s, i)]
    ELSE <<>>

Place == [from : Nat, to : Nat]

\* It depends on later positions only, and is a sequence of frames if they are.
LEMMA FoundFromLater ==
    ASSUME NEW s \in Seq(Byte), NEW i \in 0..Len(s), NEW g, NEW h
    PROVE  /\ (\A j \in (i + 1)..Len(s) : g[j] = h[j]) => FoundFrom(s, g, i) = FoundFrom(s, h, i)
           /\ (\A j \in (i + 1)..Len(s) : g[j] \in Seq(Place)) => FoundFrom(s, g, i) \in Seq(Place)
<1>0. Len(s) \in Nat
  OBVIOUS
<1>1. CASE i = Len(s)
  <2>1. FoundFrom(s, g, i) = <<>> /\ FoundFrom(s, h, i) = <<>>
    BY <1>1 DEF FoundFrom
  <2>. QED BY <2>1, EmptySeq
<1>2. CASE i # Len(s) /\ Skipped(s, i)
  <2>1. FoundFrom(s, g, i) = g[i + 1] /\ FoundFrom(s, h, i) = h[i + 1]
    BY <1>2 DEF FoundFrom
  <2>2. i + 1 \in (i + 1)..Len(s)
    BY <1>0, <1>2
  <2>. QED BY <2>1, <2>2
<1>3. CASE i # Len(s) /\ ~Skipped(s, i) /\ Complete(s, i)
  <2>. DEFINE e == FrameEnd(s, i)
              x == <<[from |-> i, to |-> e]>>
  <2>1. e \in (i + 2)..Len(s) /\ Behind(s, i) = e
    BY <1>0, <1>3, EndOfFrame
  <2>. HIDE DEF e
  <2>2. [from |-> i, to |-> e] \in Place
    BY <1>0, <2>1 DEF Place
  <2>3. x \in Seq(Place)
    BY <2>2
  <2>. HIDE DEF x
  <2>4. FoundFrom(s, g, i) = x \o g[e] /\ FoundFrom(s, h, i) = x \o h[e]
    BY <1>3, <2>1 DEF FoundFrom, x, e
  <2>5. e \in (i + 1)..Len(s)
    BY <1>0, <2>1
  <2>6. g[e] \in Seq(Place) => x \o g[e] \in Seq(Place)
    BY <2>3, ConcatProperties, Zenon
  <2>. QED BY <2>4, <2>5, <2>6
<1>4. CASE i # Len(s) /\ ~Skipped(s, i) /\ ~Complete(s, i)
  <2>1. FoundFrom(s, g, i) = <<>> /\ FoundFrom(s, h, i) = <<>>
    BY <1>4 DEF FoundFrom
  <2>. QED BY <2>1, EmptySeq
<1>. QED BY <1>1, <1>2, <1>3, <1>4

LEMMA FramesExist ==
    ASSUME NEW s \in Seq(Byte)
    PROVE  \E f \in [0..Len(s) -> Seq(Place)] : \A i \in 0..Len(s) : f[i] = FoundFrom(s, f, i)
<1>. DEFINE D == 0..Len(s)
            Good(k) == \E f \in [D -> Seq(Place)] :
                          \A i \in D : i + k >= Len(s) => f[i] = FoundFrom(s, f, i)
            Bad == {k \in Nat : ~Good(k)}
<1>0. Len(s) \in Nat
  OBVIOUS
<1>1. Bad = {}
  <2>1. SUFFICES ASSUME Bad # {} PROVE FALSE
    OBVIOUS
  <2>2. PICK k \in Bad : \A j \in Bad : k <= j
    <3>1. Bad \in SUBSET Nat
      OBVIOUS
    <3>. HIDE DEF Bad
    <3>. QED BY <2>1, <3>1, LeastElement
  <2>3. k \in Nat /\ ~Good(k)
    OBVIOUS
  <2>4. CASE k = 0
    <3>. DEFINE f == [i \in D |-> <<>>]
    <3>1. f \in [D -> Seq(Place)] /\ f[Len(s)] = <<>>
      BY <1>0, EmptySeq
    <3>2. FoundFrom(s, f, Len(s)) = <<>>
      BY DEF FoundFrom
    <3>. HIDE DEF f
    <3>3. \A i \in D : i + 0 >= Len(s) => f[i] = FoundFrom(s, f, i)
      <4>1. \A i \in D : i + 0 >= Len(s) => i = Len(s)
        BY <1>0
      <4>. QED BY <3>1, <3>2, <4>1
    <3>4. Good(0)
      BY <3>1, <3>3
    <3>. QED BY <2>3, <2>4, <3>4
  <2>5. CASE k # 0
    <3>1. k - 1 \in Nat /\ ~(k <= k - 1)
      BY <2>3, <2>5
    <3>2. Good(k - 1)
      BY <2>2, <3>1
    <3>3. PICK f \in [D -> Seq(Place)] :
              \A i \in D : i + (k - 1) >= Len(s) => f[i] = FoundFrom(s, f, i)
      BY <3>2
    <3>. DEFINE n == Len(s) - k
                g == [f EXCEPT ![n] = FoundFrom(s, f, n)]
    <3>4. CASE n < 0
      <4>1. \A i \in D : i + k >= Len(s) => i + (k - 1) >= Len(s)
        BY <1>0, <2>3, <3>4
      <4>2. Good(k)
        BY <3>3, <4>1
      <4>. QED BY <2>3, <4>2
    <3>5. CASE n >= 0
      <4>1. n \in D
        BY <1>0, <2>3, <3>5
      <4>2. \A j \in (n + 1)..Len(s) : j \in D /\ j # n /\ j + (k - 1) >= Len(s)
        BY <1>0, <2>3, <3>5
      <4>3. FoundFrom(s, f, n) \in Seq(Place)
        BY <3>3, <4>1, <4>2, FoundFromLater
      <4>4. g \in [D -> Seq(Place)] /\ g[n] = FoundFrom(s, f, n)
            /\ \A i \in D : i # n => g[i] = f[i]
        BY <3>3, <4>1, <4>3
      <4>. HIDE DEF g
      <4>5. ASSUME NEW i \in D, i + k >= Len(s) PROVE g[i] = FoundFrom(s, g, i)
        <5>1. i >= n /\ \A j \in (i + 1)..Len(s) : j \in D /\ j # n
          BY <1>0, <2>3, <4>5
        <5>2. \A j \in (i + 1)..Len(s) : g[j] = f[j]
          BY <4>4, <5>1
        <5>3. FoundFrom(s, g, i) = FoundFrom(s, f, i)
          BY <5>2, FoundFromLater
        <5>4. CASE i = n
          BY <4>4, <5>3, <5>4
        <5>5. CASE i # n
          <6>1. i + (k - 1) >= Len(s)
            BY <1>0, <2>3, <5>1, <5>5
          <6>. QED BY <3>3, <4>4, <5>3, <5>5, <6>1
        <5>. QED BY <5>4, <5>5
      <4>6. Good(k)
        BY <4>4, <4>5
      <4>. QED BY <2>3, <4>6
    <3>. QED BY <1>0, <2>3, <3>4, <3>5
  <2>. QED BY <2>4, <2>5
<1>2. Good(Len(s))
  BY <1>0, <1>1
<1>3. \A i \in D : i + Len(s) >= Len(s)
  BY <1>0
<1>. QED BY <1>2, <1>3

\* The recursion of parse_bytes is well founded.
LEMMA FramesDefined ==
    ASSUME NEW s \in Seq(Byte)
    PROVE  /\ FramesFrom(s) \in [0..Len(s) -> Seq(Place)]
           /\ \A i \in 0..Len(s) : FramesFrom(s)[i] = FoundFrom(s, FramesFrom(s), i)
<1>. DEFINE D == 0..Len(s)
            Body(f) == [i \in D |-> FoundFrom(s, f, i)]
            g == FramesFrom(s)
<1>0. Len(s) \in Nat
  OBVIOUS
<1>1. PICK f \in [D -> Seq(Place)] : \A i \in D : f[i] = FoundFrom(s, f, i)
  BY FramesExist
<1>2. f = Body(f)
  BY <1>1
<1>3. g = CHOOSE h : h = Body(h)
  BY DEF FramesFrom, FoundFrom
<1>4. g = Body(g)
  <2>. HIDE DEF Body, g
  <2>. QED BY <1>2, <1>3
<1>. HIDE DEF g
<1>5. g = [i \in D |-> g[i]] /\ \A i \in D : g[i] = FoundFrom(s, g, i)
  BY <1>4
<1>6. \A i \in D : g[i] \in Seq(Place)
  <2>. DEFINE Bad == {k \in Nat : Len(s) - k \in D /\ g[Len(s) - k] \notin Seq(Place)}
  <2>1. Bad = {}
    <3>1. SUFFICES ASSUME Bad # {} PROVE FALSE
      OBVIOUS
    <3>2. PICK k \in Bad : \A j \in Bad : k <= j
      <4>1. Bad \in SUBSET Nat
        OBVIOUS
      <4>. HIDE DEF Bad
      <4>. QED BY <3>1, <4>1, LeastElement
    <3>. DEFINE n == Len(s) - k
    <3>3. k \in Nat /\ n \in D /\ g[n] \notin Seq(Place)
      BY <3>2
    <3>4. ASSUME NEW j \in (n + 1)..Len(s) PROVE g[j] \in Seq(Place)
      <4>1. Len(s) - j \in Nat /\ j \in D /\ Len(s) - (Len(s) - j) = j /\ ~(k <= Len(s) - j)
        BY <1>0, <3>3
      <4>2. Len(s) - j \notin Bad
        BY <3>2, <4>1
      <4>. QED BY <4>1, <4>2
    <3>5. FoundFrom(s, g, n) \in Seq(Place)
      BY <3>3, <3>4, FoundFromLater
    <3>. QED BY <1>5, <3>3, <3>5
  <2>2. ASSUME NEW i \in D PROVE g[i] \in Seq(Place)
    <3>1. Len(s) - i \in Nat /\ Len(s) - (Len(s) - i) = i
      BY <1>0
    <3>2. Len(s) - i \notin Bad
      BY <2>1
    <3>. QED BY <3>1, <3>2
  <2>. QED BY <2>2
<1>7. g \in [D -> Seq(Place)]
  BY <1>5, <1>6
<1>. QED BY <1>5, <1>7 DEF g

\* Bytes that are skipped are skipped.
LEMMA SkippedOver ==
    ASSUME NEW s \in Seq(Byte), NEW a \in 0..Len(s), NEW b \in a..Len(s),
           \A j \in a..(b - 1) : Skipped(s, j)
    PROVE  FramesFrom(s)[a] = FramesFrom(s)[b]
<1>. DEFINE g == FramesFrom(s)
            Bad == {k \in Nat : a + k <= b /\ g[a + k] # g[a]}
<1>0. Len(s) \in Nat /\ a \in Nat /\ b \in Nat /\ a <= b /\ b <= Len(s)
  OBVIOUS
<1>1. \A i \in 0..Len(s) : g[i] = FoundFrom(s, g, i)
  BY FramesDefined
<1>. HIDE DEF g
<1>2. Bad = {}
  <2>1. SUFFICES ASSUME Bad # {} PROVE FALSE
    OBVIOUS
  <2>2. PICK k \in Bad : \A j \in Bad : k <= j
    <3>1. Bad \in SUBSET Nat
      OBVIOUS
    <3>. HIDE DEF Bad
    <3>. QED BY <2>1, <3>1, LeastElement
  <2>3. k \in Nat /\ a + k <= b /\ g[a + k] # g[a]
    OBVIOUS
  <2>4. k # 0
    BY <1>0, <2>3
  <2>. DEFINE i == a + (k - 1)
  <2>5. k - 1 \in Nat /\ ~(k <= k - 1) /\ i <= b /\ i + 1 = a + k
        /\ i \in a..(b - 1) /\ i \in 0..Len(s) /\ i # Len(s)
    BY <1>0, <2>3, <2>4
  <2>6. g[i] = g[a]
    <3>1. k - 1 \notin Bad
      BY <2>2, <2>5
    <3>. QED BY <2>5, <3>1
  <2>. HIDE DEF i
  <2>7. Skipped(s, i) /\ g[i] = FoundFrom(s, g, i)
    BY <1>1, <2>5
  <2>8. g[i] = g[i + 1]
    BY <2>5, <2>7 DEF FoundFrom
  <2>. QED BY <2>3, <2>5, <2>6, <2>8
<1>3. b - a \in Nat /\ a + (b - a) = b
  BY <1>0
<1>4. g[b] = g[a]
  <2>1. b - a \notin Bad
    BY <1>2
  <2>. QED BY <1>0, <1>3, <2>1
<1>. QED BY <1>4 DEF g

\* What is decided of a byte in the buffer is decided of it in any longer part of the
\* stream; what is not decided of it is not decided of it in what was fed.
LEMMA DecidedInStream ==
    ASSUME TypeInv, NEW m \in fed..Len(source), NEW i \in 0..(Len(buf) - 1)
    PROVE  LET s == Slice(source, 0, m)
               p == Base + i
           IN  /\ s \in Seq(Byte) /\ Len(s) = m /\ p \in 0..(m - 1)
               /\ Skipped(buf, i) => Skipped(s, p)
               /\ Complete(buf, i) => Complete(s, p) /\ FrameEnd(s, p) = Base + FrameEnd(buf, i)
               /\ Complete(buf, i) /\ Skipped(s, p) => Skipped(buf, i)
               /\ m = fed => /\ Skipped(s, p) => Skipped(buf, i)
                             /\ Complete(s, p) => Complete(buf, i)
<1>. DEFINE s == Slice(source, 0, m)
            p == Base + i
<1>1. /\ source \in Seq(Byte) /\ fed \in 0..Len(source)
      /\ Base \in 0..fed /\ Base + Len(buf) = fed /\ Len(buf) \in Nat
      /\ \A k \in 0..Len(buf) : \A l \in k..Len(buf) :
            Slice(buf, k, l) = Slice(source, Base + k, Base + l)
      /\ \A k \in 1..Len(buf) : buf[k] = source[Base + k] /\ buf[k] \in Byte
  BY BufferBytes
<1>2. Len(source) \in Nat /\ m \in 0..Len(source) /\ 0 \in 0..Len(source) /\ m - 0 = m
  BY <1>1
<1>3. /\ s \in Seq(Byte) /\ Len(s) = m
      /\ \A k \in 1..m : s[k] = source[k]
  <2>1. /\ s \in Seq(Byte) /\ Len(s) = m - 0
        /\ \A k \in 1..(m - 0) : s[k] = source[0 + k]
    BY <1>1, <1>2, SliceProperties
  <2>. QED BY <1>2, <2>1
<1>4. p \in 0..(m - 1) /\ p \in Nat /\ p + 1 = Base + (i + 1) /\ p + 2 = Base + (i + 2)
      /\ Base \in Nat /\ i \in Nat /\ m \in Nat /\ fed \in Nat
  BY <1>1, <1>2
<1>5. \A k \in 0..m : \A l \in k..m : Slice(s, k, l) = Slice(source, k, l)
  <2>. TAKE k \in 0..m
  <2>. TAKE l \in k..m
  <2>1. k \in 0..(m - 0) /\ l \in k..(m - 0) /\ m \in 0..Len(source) /\ 0 + k = k /\ 0 + l = l
    BY <1>2
  <2>2. Slice(Slice(source, 0, m), k, l) = Slice(source, 0 + k, 0 + l)
    BY <1>1, <1>2, <2>1, SliceOfSlice
  <2>. QED BY <2>1, <2>2
<1>. HIDE DEF s, p
<1>6. s[p + 1] = buf[i + 1]
  <2>1. i + 1 \in 1..Len(buf) /\ p + 1 \in 1..m
    BY <1>1, <1>4
  <2>. QED BY <1>1, <1>3, <1>4, <2>1
<1>7. Header(s, p) <=> Header(buf, i)
  BY <1>6 DEF Header
<1>8. HasLength(buf, i) => HasLength(s, p) /\ s[p + 2] = buf[i + 2]
                           /\ buf[i + 2] \in 0..255
  <2>. SUFFICES ASSUME HasLength(buf, i)
                PROVE  HasLength(s, p) /\ s[p + 2] = buf[i + 2] /\ buf[i + 2] \in 0..255
    OBVIOUS
  <2>1. i + 2 \in 1..Len(buf) /\ p + 2 \in 1..m
    BY <1>1, <1>4 DEF HasLength
  <2>2. s[p + 2] = buf[i + 2] /\ buf[i + 2] \in Byte
    BY <1>1, <1>3, <1>4, <2>1
  <2>3. Byte = 0..255
    BY DEF Byte
  <2>4. buf[i + 2] \in 0..255
    BY <2>2, <2>3, Zenon
  <2>5. HasLength(s, p)
    BY <1>3, <1>4, <2>1 DEF HasLength
  <2>. QED BY <2>2, <2>4, <2>5
<1>9. HasLength(buf, i) => FrameEnd(s, p) = Base + FrameEnd(buf, i)
                           /\ FrameEnd(buf, i) \in (i + 2)..(i + 257)
  <2>. SUFFICES ASSUME HasLength(buf, i)
                PROVE  FrameEnd(s, p) = Base + FrameEnd(buf, i)
                       /\ FrameEnd(buf, i) \in (i + 2)..(i + 257)
    OBVIOUS
  <2>1. PICK n \in 0..255 : s[p + 2] = n /\ buf[i + 2] = n
    BY <1>8
  <2>2. FrameEnd(s, p) = p + 2 + n /\ FrameEnd(buf, i) = i + 2 + n
    BY <2>1 DEF FrameEnd
  <2>. QED BY <1>4, <2>2 DEF p
<1>10. Complete(buf, i) => Complete(s, p) /\ FrameEnd(buf, i) \in i..Len(buf)
                           /\ FrameEnd(s, p) = Base + FrameEnd(buf, i)
  <2>. SUFFICES ASSUME Complete(buf, i)
                PROVE  Complete(s, p) /\ FrameEnd(buf, i) \in i..Len(buf)
                       /\ FrameEnd(s, p) = Base + FrameEnd(buf, i)
    OBVIOUS
  <2>1. HasLength(buf, i) /\ FrameEnd(buf, i) <= Len(buf)
    BY DEF Complete
  <2>2. FrameEnd(buf, i) \in i..Len(buf)
    BY <1>1, <1>4, <1>9, <2>1
  <2>3. Base + FrameEnd(buf, i) <= m
    BY <1>1, <1>4, <2>2
  <2>4. Complete(s, p)
    BY <1>3, <1>8, <1>9, <2>1, <2>3 DEF Complete
  <2>. QED BY <1>9, <2>1, <2>2, <2>4
<1>11. Complete(buf, i) => Slice(s, p, FrameEnd(s, p)) = Slice(buf, i, FrameEnd(buf, i))
  <2>. SUFFICES ASSUME Complete(buf, i)
                PROVE  Slice(s, p, FrameEnd(s, p)) = Slice(buf, i, FrameEnd(buf, i))
    OBVIOUS
  <2>1. FrameEnd(buf, i) \in i..Len(buf) /\ FrameEnd(s, p) = Base + FrameEnd(buf, i)
        /\ i \in 0..Len(buf)
    BY <1>1, <1>10
  <2>2. p \in 0..m /\ FrameEnd(s, p) \in p..m
    BY <1>1, <1>4, <2>1 DEF p
  <2>3. Slice(s, p, FrameEnd(s, p)) = Slice(source, p, FrameEnd(s, p))
    BY <1>5, <2>2
  <2>4. Slice(buf, i, FrameEnd(buf, i)) = Slice(source, Base + i, Base + FrameEnd(buf, i))
    BY <1>1, <2>1
  <2>. QED BY <2>1, <2>3, <2>4 DEF p
<1>12. Complete(buf, i) => (Valid(s, p) <=> Valid(buf, i))
  BY <1>10, <1>11 DEF Valid
<1>13. Skipped(buf, i) => Skipped(s, p)
  BY <1>7, <1>8, <1>10, <1>12 DEF Skipped
<1>14. Complete(buf, i) /\ Skipped(s, p) => Skipped(buf, i)
  BY <1>7, <1>8, <1>10, <1>12 DEF Skipped, Complete
<1>15. ASSUME m = fed PROVE Complete(s, p) => Complete(buf, i)
  <2>. SUFFICES ASSUME Complete(s, p) PROVE Complete(buf, i)
    OBVIOUS
  <2>1. HasLength(buf, i)
    BY <1>1, <1>3, <1>4, <1>15 DEF Complete, HasLength, p
  <2>2. Base + FrameEnd(buf, i) <= Base + Len(buf)
    BY <1>1, <1>3, <1>9, <1>15, <2>1 DEF Complete
  <2>3. FrameEnd(buf, i) <= Len(buf)
    BY <1>1, <1>4, <1>9, <2>1, <2>2
  <2>. QED BY <2>1, <2>3 DEF Complete
<1>16. ASSUME m = fed PROVE Skipped(s, p) => Skipped(buf, i)
  <2>1. HasLength(s, p) => HasLength(buf, i)
    BY <1>1, <1>3, <1>4, <1>16 DEF HasLength, p
  <2>. QED BY <1>7, <1>8, <1>12, <1>15, <1>16, <2>1 DEF Skipped
<1>. QED BY <1>3, <1>4, <1>7, <1>10, <1>13, <1>14, <1>15, <1>16 DEF s, p

-----------------------------------------------------------------------------
(* What is decided stays decided                                           *)

LEMMA OutIsPlaces ==
    ASSUME TypeInv
    PROVE  out \in Seq(Place)
<1>. DEFINE S == [from : 0..fed, to : 0..(Base + pos)]
<1>1. out \in Seq(S)
  BY DEF TypeInv, FramerTypeOK
<1>2. S \subseteq Place
  <2>1. fed \in Int /\ Base + pos \in Int
    BY BufferBytes DEF TypeInv, FramerTypeOK
  <2>. QED BY <2>1 DEF Place
<1>. QED BY <1>1, <1>2, SeqMonotonic, Zenon

LEMMA InitDecided == FramerInit => Decided
<1>. SUFFICES ASSUME FramerInit PROVE Decided
  OBVIOUS
<1>1. source \in Seq(Byte) /\ Len(source) \in Nat
  BY SourceAssumption DEF FramerInit
<1>2. out = <<>> /\ fed = 0 /\ pos = 0 /\ Len(buf) = 0
  BY DEF FramerInit
<1>b. Base = 0
  BY <1>2 DEF Base
<1>3. ASSUME NEW m \in 0..Len(source)
      PROVE  ParseBytes(Slice(source, 0, m)) = <<>> \o FramesFrom(Slice(source, 0, m))[0]
  <2>. DEFINE s == Slice(source, 0, m)
  <2>1. s \in Seq(Byte) /\ 0 \in 0..Len(s)
    BY <1>1, SliceProperties
  <2>. HIDE DEF s
  <2>2. FramesFrom(s)[0] \in Seq(Place)
    BY <2>1, FramesDefined
  <2>3. <<>> \o FramesFrom(s)[0] = FramesFrom(s)[0]
    BY <2>2, ConcatEmptySeq, Zenon
  <2>. QED BY <2>3 DEF ParseBytes, s
<1>. QED BY <1>1, <1>2, <1>b, <1>3 DEF Decided

LEMMA FeedDecided ==
    ASSUME TypeInv, Decided, NEW n \in Chunk, Feed(n)
    PROVE  Decided'
<1>1. Base' + pos' = Base + pos /\ TypeInv'
  BY FeedStep
<1>2. fed \in Nat /\ n \in Nat /\ Len(source) \in Nat
  BY BufferBytes, ChunkAssumption
<1>3. fed' = fed + n /\ source' = source /\ out' = out /\ last' = "feed"
  BY DEF Feed
<1>4. \A m \in fed'..Len(source) : m \in fed..Len(source)
  BY <1>2, <1>3
<1>5. \A m \in fed..Len(source) :
         ParseBytes(Slice(source, 0, m)) = out \o FramesFrom(Slice(source, 0, m))[Base + pos]
  BY DEF Decided
<1>6. \A m \in fed'..Len(source') :
         ParseBytes(Slice(source', 0, m))
           = out' \o FramesFrom(Slice(source', 0, m))[Base' + pos']
  <2>. TAKE m \in fed'..Len(source')
  <2>1. m \in fed..Len(source)
    BY <1>3, <1>4
  <2>2. ParseBytes(Slice(source, 0, m)) = out \o FramesFrom(Slice(source, 0, m))[Base + pos]
    BY <1>5, <2>1
  <2>. QED BY <1>1, <1>3, <2>2, Zenon
<1>. QED BY <1>3, <1>6 DEF Decided

LEMMA NextFrameDecided ==
    ASSUME TypeInv, Decided, NextFrame
    PROVE  Decided'
<1>1. /\ source \in Seq(Byte) /\ fed \in 0..Len(source)
      /\ Base \in 0..fed /\ Base + Len(buf) = fed /\ Len(buf) \in Nat
  BY BufferBytes
<1>2. pos \in 0..Len(buf)
  BY DEF TypeInv, FramerTypeOK
<1>3. source' = source /\ fed' = fed /\ buf' = buf /\ Base' = Base
  BY DEF NextFrame, Base
<1>4. PICK i \in pos..Len(buf) :
        /\ \A j \in pos..(i - 1) : Skipped(buf, j)
        /\ i < Len(buf) => ~Skipped(buf, i)
        /\ Found(i) \/ NotFound(i)
  BY DEF NextFrame
<1>5. i \in Nat /\ i <= Len(buf) /\ pos \in Nat /\ pos <= i /\ Base \in Nat /\ fed \in Nat
      /\ Len(source) \in Nat
  BY <1>1, <1>2, <1>4
<1>6. ASSUME NEW m \in fed..Len(source)
      PROVE  LET s == Slice(source, 0, m) IN
             /\ s \in Seq(Byte) /\ Len(s) = m
             /\ ParseBytes(s) = out \o FramesFrom(s)[Base + i]
  <2>. DEFINE s == Slice(source, 0, m)
              a == Base + pos
              b == Base + i
  <2>1. s \in Seq(Byte) /\ Len(s) = m
    <3>1. 0 \in 0..Len(source) /\ m \in 0..Len(source) /\ m - 0 = m
      BY <1>5
    <3>. QED BY <1>1, <3>1, SliceProperties
  <2>2. ParseBytes(s) = out \o FramesFrom(s)[a]
    BY DEF Decided
  <2>3. ASSUME NEW k \in a..(b - 1) PROVE Skipped(s, k)
    <3>. DEFINE j == k - Base
    <3>1. j \in pos..(i - 1) /\ j \in 0..(Len(buf) - 1) /\ Base + j = k
      BY <1>5
    <3>. HIDE DEF j
    <3>2. Skipped(buf, j)
      BY <1>4, <3>1
    <3>3. Skipped(s, Base + j)
      BY <3>1, <3>2, DecidedInStream
    <3>. QED BY <3>1, <3>3
  <2>4. a \in 0..Len(s) /\ b \in a..Len(s)
    BY <1>1, <1>5, <2>1
  <2>. HIDE DEF s, a, b
  <2>5. FramesFrom(s)[a] = FramesFrom(s)[b]
    BY <2>1, <2>3, <2>4, SkippedOver
  <2>. QED BY <2>1, <2>2, <2>5 DEF s, a, b
<1>7. CASE Found(i)
  <2>. DEFINE e == FrameEnd(buf, i)
              r == [from |-> Base + i, to |-> Base + e]
  <2>1. /\ i < Len(buf) /\ Complete(buf, i) /\ last' = "frame" /\ pos' = e
        /\ out' = Append(out, r)
    BY <1>7 DEF Found, Valid, Behind
  <2>2. i \in 0..(Len(buf) - 1)
    BY <1>5, <2>1
  <2>3. e \in (i + 2)..Len(buf)
    <3>1. buf \in Seq(Byte)
      BY DEF TypeInv, FramerTypeOK
    <3>. QED BY <2>1, <2>2, <3>1, EndOfFrame
  <2>4. r \in Place
    BY <1>5, <2>3 DEF Place
  <2>5. out \in Seq(Place)
    BY OutIsPlaces
  <2>6. ASSUME NEW m \in fed..Len(source)
        PROVE  LET s == Slice(source, 0, m) IN ParseBytes(s) = out' \o FramesFrom(s)[Base + e]
    <3>. DEFINE s == Slice(source, 0, m)
                p == Base + i
                rest == FramesFrom(s)[Base + e]
    <3>1. s \in Seq(Byte) /\ Len(s) = m /\ ParseBytes(s) = out \o FramesFrom(s)[p]
      BY <1>6
    <3>2. ~Skipped(s, p) /\ Complete(s, p) /\ FrameEnd(s, p) = Base + e
      BY <1>4, <2>1, <2>2, DecidedInStream
    <3>3. p \in 0..Len(s) /\ p # Len(s) /\ Base + e \in 0..Len(s)
      BY <1>1, <1>5, <2>1, <2>3, <3>1
    <3>. HIDE DEF s, p
    <3>4. /\ FramesFrom(s)[p] = FoundFrom(s, FramesFrom(s), p)
          /\ rest \in Seq(Place)
      BY <3>1, <3>3, FramesDefined
    <3>5. FoundFrom(s, FramesFrom(s), p) = <<[from |-> p, to |-> Base + e]>> \o rest
      BY <3>2, <3>3 DEF FoundFrom, Behind
    <3>6. FramesFrom(s)[p] = <<r>> \o rest
      BY <3>4, <3>5 DEF p
    <3>. HIDE DEF rest, r
    <3>7. <<r>> \in Seq(Place)
      BY <2>4
    <3>8. out \o (<<r>> \o rest) = (out \o <<r>>) \o rest
      <4>1. (out \o <<r>>) \o rest = out \o (<<r>> \o rest)
        BY <2>5, <3>4, <3>7, ConcatAssociative
      <4>. QED BY <4>1
    <3>9. out' = out \o <<r>>
      BY <2>1, <2>4, <2>5, AppendIsConcat, Zenon
    <3>10. ParseBytes(s) = out' \o rest
      BY <3>1, <3>6, <3>8, <3>9, Zenon
    <3>. QED BY <3>10 DEF s, rest
  <2>7. \A m \in fed'..Len(source') :
           ParseBytes(Slice(source', 0, m))
             = out' \o FramesFrom(Slice(source', 0, m))[Base' + pos']
    <3>. TAKE m \in fed'..Len(source')
    <3>1. m \in fed..Len(source)
      BY <1>3
    <3>2. ParseBytes(Slice(source, 0, m)) = out' \o FramesFrom(Slice(source, 0, m))[Base + e]
      BY <2>6, <3>1
    <3>. QED BY <1>3, <2>1, <3>2, Zenon
  <2>. QED BY <2>1, <2>7 DEF Decided
<1>8. CASE NotFound(i)
  <2>1. pos' = i /\ out' = out /\ (i < Len(buf) => ~Complete(buf, i))
    BY <1>8 DEF NotFound
  <2>2. \A m \in fed'..Len(source') :
           ParseBytes(Slice(source', 0, m))
             = out' \o FramesFrom(Slice(source', 0, m))[Base' + pos']
    <3>. TAKE m \in fed'..Len(source')
    <3>1. m \in fed..Len(source)
      BY <1>3
    <3>2. ParseBytes(Slice(source, 0, m)) = out \o FramesFrom(Slice(source, 0, m))[Base + i]
      BY <1>6, <3>1
    <3>. QED BY <1>3, <2>1, <3>2, Zenon
  <2>3. pos' < Len(buf') => ~Skipped(buf', pos') /\ ~Complete(buf', pos')
    BY <1>3, <1>4, <2>1
  <2>. QED BY <2>2, <2>3 DEF Decided
<1>. QED BY <1>4, <1>7, <1>8

\* The buffer is the tail of what was fed, and what is decided of its bytes stays
\* decided, whatever the stream, the chunks and CompactAt (feed, next_frame).
THEOREM InductiveInvariant == FramerSpec => []FramerIInv
<1>1. FramerInit => FramerIInv
  BY InitTypeInv, InitDecided DEF FramerIInv, TypeInv
<1>2. FramerIInv /\ [FramerNext]_framerVars => FramerIInv'
  <2>. SUFFICES ASSUME FramerIInv, [FramerNext]_framerVars PROVE FramerIInv'
    OBVIOUS
  <2>0. TypeInv /\ Decided
    BY DEF FramerIInv, TypeInv
  <2>1. CASE NextFrame
    BY <2>0, <2>1, NextFrameStep, NextFrameDecided DEF FramerIInv, TypeInv
  <2>2. ASSUME NEW n \in Chunk, Feed(n) PROVE FramerIInv'
    BY <2>0, <2>2, FeedStep, FeedDecided DEF FramerIInv, TypeInv
  <2>3. CASE UNCHANGED framerVars
    BY <2>3 DEF framerVars, FramerIInv, FramerTypeOK, BufferIsTail, Decided, Base
  <2>. QED BY <2>1, <2>2, <2>3 DEF FramerNext
<1>. QED BY <1>1, <1>2, PTL DEF FramerSpec

\* Whatever the chunks, and wherever calls of next_frame fall between them, the
\* frames returned are those parse_bytes finds in the same bytes, and after None
\* all of them.
THEOREM ChunkingIsInvisible == FramerSpec => []ChunksDoNotMatter
<1>1. FramerIInv => ChunksDoNotMatter
  <2>. SUFFICES ASSUME FramerIInv PROVE ChunksDoNotMatter
    OBVIOUS
  <2>. DEFINE s == Slice(source, 0, fed)
              p == Base + pos
              rest == FramesFrom(s)[p]
              all == ParseBytes(s)
  <2>0. TypeInv /\ Decided
    BY DEF FramerIInv, TypeInv
  <2>1. /\ source \in Seq(Byte) /\ fed \in 0..Len(source)
        /\ Base \in 0..fed /\ Base + Len(buf) = fed /\ Len(buf) \in Nat /\ pos \in 0..Len(buf)
    BY <2>0, BufferBytes DEF TypeInv, FramerTypeOK
  <2>2. s \in Seq(Byte) /\ Len(s) = fed
    <3>1. 0 \in 0..Len(source) /\ fed \in 0..Len(source) /\ fed - 0 = fed
      BY <2>1
    <3>. QED BY <2>1, <3>1, SliceProperties
  <2>3. all = out \o rest
    <3>1. fed \in fed..Len(source)
      BY <2>1
    <3>. QED BY <2>0, <3>1 DEF Decided
  <2>4. p \in 0..Len(s)
    BY <2>1, <2>2
  <2>5. s = SubSeq(source, 1, fed)
    BY DEF Slice
  <2>. HIDE DEF s, all
  <2>6. rest \in Seq(Place) /\ rest = FoundFrom(s, FramesFrom(s), p)
    BY <2>2, <2>4, FramesDefined
  <2>7. out \in Seq(Place)
    BY <2>0, OutIsPlaces
  <2>8. last = "none" => rest = <<>>
    <3>. SUFFICES ASSUME last = "none" PROVE FoundFrom(s, FramesFrom(s), p) = <<>>
      BY <2>6
    <3>1. CASE pos = Len(buf)
      BY <2>1, <2>2, <3>1 DEF FoundFrom
    <3>2. CASE pos # Len(buf)
      <4>1. pos \in 0..(Len(buf) - 1) /\ pos < Len(buf) /\ fed \in fed..Len(source)
        BY <2>1, <3>2
      <4>2. ~Skipped(buf, pos) /\ ~Complete(buf, pos)
        BY <2>0, <4>1 DEF Decided
      <4>3. ~Skipped(s, p) /\ ~Complete(s, p)
        BY <2>0, <4>1, <4>2, DecidedInStream DEF s
      <4>. QED BY <2>1, <2>2, <4>1, <4>3 DEF FoundFrom
    <3>. QED BY <3>1, <3>2
  <2>. HIDE DEF rest, p
  <2>9. /\ all \in Seq(Place) /\ Len(all) = Len(out) + Len(rest)
        /\ \A i \in 1..(Len(out) + Len(rest)) :
              all[i] = IF i <= Len(out) THEN out[i] ELSE rest[i - Len(out)]
    BY <2>3, <2>6, <2>7, ConcatProperties, Zenon
  <2>10. Len(out) \in Nat /\ Len(rest) \in Nat
    BY <2>6, <2>7, LenProperties
  <2>11. out = SubSeq(all, 1, Len(out))
    <3>1. \A i \in 1..Len(out) : all[i] = out[i] /\ out[i] \in Place
      BY <2>7, <2>9, <2>10
    <3>2. /\ SubSeq(all, 1, Len(out)) \in Seq(Place)
          /\ Len(SubSeq(all, 1, Len(out))) = IF 1 <= Len(out) THEN Len(out) - 1 + 1 ELSE 0
          /\ \A i \in 1..(Len(out) - 1 + 1) : SubSeq(all, 1, Len(out))[i] = all[1 + i - 1]
      <4>1. Len(out) \in Int /\ \A i \in 1..Len(out) : all[i] \in Place
        BY <2>10, <3>1
      <4>. QED BY <4>1, SubSeqProperties
    <3>3. Len(SubSeq(all, 1, Len(out))) = Len(out)
          /\ \A i \in 1..Len(out) : SubSeq(all, 1, Len(out))[i] = out[i]
      BY <2>10, <3>1, <3>2
    <3>. QED BY <2>7, <3>2, <3>3, SeqEqual
  <2>12. last = "none" => out = all
    BY <2>3, <2>7, <2>8, ConcatEmptySeq, Zenon
  <2>13. Len(out) <= Len(all)
    BY <2>9, <2>10
  <2>. QED BY <2>5, <2>11, <2>12, <2>13, Zenon DEF ChunksDoNotMatter, all
<1>. QED BY <1>1, InductiveInvariant, PTL

=============================================================================
