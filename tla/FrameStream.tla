---------------------------- MODULE FrameStream ----------------------------
(***************************************************************************)
(* What HarpFramer promises of a stream of bytes: it passes over the whole *)
(* stream once, from the left, takes out frames that parse, and skips a    *)
(* byte only if no frame that parses starts there.  How the stream is cut  *)
(* into chunks plays no part in it.                                        *)
(***************************************************************************)
EXTENDS Integers, Sequences

CONSTANTS
    Source,     \* the streams there may be
    IsFrame(_)  \* the byte sequences that parse

VARIABLES
    source,  \* the stream
    at,      \* bytes passed over
    out      \* the frames taken out so far: where each starts and ends

vars == <<source, at, out>>

\* The bytes of s from position i (the first is 0) up to, not including, j.
Slice(s, i, j) == SubSeq(s, i + 1, j)

\* A frame that parses starts at position i of s.
Starts(s, i) == \E j \in i..Len(s) : IsFrame(Slice(s, i, j))

Init == source \in Source /\ at = 0 /\ out = <<>>

Skip ==
    /\ at' \in at..Len(source)
    /\ \A i \in at..(at' - 1) : ~Starts(source, i)
    /\ UNCHANGED <<source, out>>

Take ==
    \E i \in at..Len(source) : \E j \in i..Len(source) :
        /\ \A k \in at..(i - 1) : ~Starts(source, k)
        /\ IsFrame(Slice(source, i, j))
        /\ at' = j
        /\ out' = Append(out, [from |-> i, to |-> j])
        /\ UNCHANGED source

Next == Skip \/ Take

Spec == Init /\ [][Next]_vars
=============================================================================
