------------------------------ MODULE Payload ------------------------------
(***************************************************************************)
(* Payload classes (_payload.py, _payload_converters.py): the check of a   *)
(* class when it is declared, its constructor, which encodes one argument  *)
(* after the other into a record, and RegisterBase.parse, which reads the  *)
(* fields of a record again.                                               *)
(*                                                                         *)
(* A number is the set of the positions of its ones.  Bit b of byte i of a *)
(* record is at position 8 * i + b, so a number of several bytes, which    *)
(* is little-endian, keeps its bits in their order.                        *)
(***************************************************************************)
EXTENDS Integers, FiniteSets

CONSTANTS
    Class,     \* the classes declared
    Argument,  \* arguments of a constructor call, by field
    Received,  \* bound: lengths of the payloads received
    None       \* no mask, no length

(* A class has an element size in bytes, a length in elements or None, fields *)
(* by name, and default values of some fields.  A field is                     *)
(*   "whole", a Field without mask, of width bytes;                            *)
(*   "masked", a GroupMask or a Field with mask, whose lowest bit moves to 0;  *)
(*   "flags", a BitMask, whose bits stay where they are.                       *)
(* Its converter is "number", "bool" or "text", of width bytes; the enum of a  *)
(* GroupMask or BitMask, "code", has no width.                                 *)
Bits == SUBSET Nat
Field ==
    [kind : {"whole", "masked", "flags"}, offset : Nat, width : Nat \ {0},
     mask : {None} \cup Bits, converter : {"number", "bool", "text", "code"}]

ASSUME ClassAssumption ==
    \A c \in Class :
        /\ c.elem \in Nat \ {0} /\ c.length \in Nat \cup {None}
        /\ IsFiniteSet(DOMAIN c.fields) /\ DOMAIN c.fields # {} /\ None \notin DOMAIN c.fields
        /\ \A n \in DOMAIN c.fields : c.fields[n] \in Field
        /\ \A n \in DOMAIN c.defaults : c.defaults[n] \in Bits
ASSUME ArgumentAssumption == \A kw \in Argument : \A n \in DOMAIN kw : kw[n] \in Bits
ASSUME ReceivedAssumption == Received \subseteq Nat

VARIABLES
    cls,     \* the class
    phase,   \* how far it, and the constructor call, have come
    given,   \* the arguments of the call
    values,  \* the arguments and the defaults
    todo,    \* fields whose values are still to be encoded
    arr,     \* the record, _arr
    got      \* the values of all fields in the parsed payload

vars == <<cls, phase, given, values, todo, arr, got>>

NoValues == [n \in {} |-> {}]

Init ==
    /\ cls \in Class /\ phase = "declared"
    /\ given = NoValues /\ values = NoValues /\ todo = {}
    /\ arr = {} /\ got = NoValues

-----------------------------------------------------------------------------
(* Where a field is                                                        *)

BitsOf(bytes) == 0..(8 * bytes - 1)

MaskOf(c, n) ==
    LET f == c.fields[n] IN
    IF f.kind = "whole" THEN BitsOf(f.width)
    ELSE IF f.mask = None THEN BitsOf(c.elem)
    ELSE f.mask

MaskTrailingZeros(mask) ==
    IF mask = {} THEN 0 ELSE CHOOSE b \in mask : \A other \in mask : b <= other

Shift(c, n) == IF c.fields[n].kind = "masked" THEN MaskTrailingZeros(MaskOf(c, n)) ELSE 0

ByteOffset(c, n) == c.fields[n].offset * c.elem
Size(c, n) == IF c.fields[n].kind = "whole" THEN c.fields[n].width ELSE c.elem
End(c, n) == ByteOffset(c, n) + Size(c, n)

\* The bits of the record that are those of the field, and where its bit 0 goes.
Own(c, n) == {8 * ByteOffset(c, n) + b : b \in MaskOf(c, n)}
Origin(c, n) == 8 * ByteOffset(c, n) + Shift(c, n)

-----------------------------------------------------------------------------
(* Declaring a class                                                       *)

\* Masked fields at one offset share a slot.
SlotOf(c, n) ==
    [from |-> ByteOffset(c, n), to |-> End(c, n),
     owner |-> IF c.fields[n].kind = "whole" THEN n ELSE None]

Slots(c) == {SlotOf(c, n) : n \in DOMAIN c.fields}

NotAfter(s, t) == s.from < t.from \/ (s.from = t.from /\ s.to <= t.to)

\* spans lists S from left to right.
Lists(spans, S) ==
    /\ S = {spans[i] : i \in DOMAIN spans}
    /\ \A i, j \in DOMAIN spans : i < j => NotAfter(spans[i], spans[j])

Sorted(c) == CHOOSE spans \in [1..Cardinality(Slots(c)) -> Slots(c)] : Lists(spans, Slots(c))

Itemsize(c) ==
    IF c.length # None THEN c.length * c.elem
    ELSE CHOOSE size \in {s.to : s \in Slots(c)} : \A s \in Slots(c) : s.to <= size

\* Mutant: masks are not looked at.
AnyMask(c) == TRUE

MasksFit(c) ==
    \A n \in DOMAIN c.fields : c.fields[n].kind # "whole" => MaskOf(c, n) \subseteq BitsOf(c.elem)

\* Mutant: only fields that begin at the same byte are found.
StartsApart(c) ==
    \A i \in 2..Cardinality(Slots(c)) : Sorted(c)[i].from # Sorted(c)[i - 1].from

\* Each slot is compared with the one before it.
NoOverlap(c) ==
    \A i \in 2..Cardinality(Slots(c)) : Sorted(c)[i].from >= Sorted(c)[i - 1].to

SlotsFit(c) == \A s \in Slots(c) : s.to <= Itemsize(c)

Accepted(c) == MasksFit(c) /\ SlotsFit(c) /\ NoOverlap(c)

Declare ==
    /\ phase = "declared"
    /\ phase' = IF Accepted(cls) THEN "class" ELSE "refused"
    /\ UNCHANGED <<cls, given, values, todo, arr, got>>

-----------------------------------------------------------------------------
(* The constructor                                                         *)

Call(kw) ==
    /\ phase = "class"
    /\ phase' = "building"
    /\ given' = kw
    /\ values' = [n \in DOMAIN kw \cup DOMAIN cls.defaults |->
                    IF n \in DOMAIN kw THEN kw[n] ELSE cls.defaults[n]]
    /\ todo' = DOMAIN kw \cup DOMAIN cls.defaults
    /\ arr' = {}
    /\ UNCHANGED <<cls, got>>

\* Mutant: defaults are encoded at any time.
AnyTurn(n) == TRUE

\* Defaults come first.
Turn(n) == n \in DOMAIN given => todo \subseteq DOMAIN given

\* What a converter makes of a value; one that raises for too large a number may
\* also wrap it, as numpy does for its own scalars.
Fits(c, n, v) == c.fields[n].converter = "number" => v \subseteq BitsOf(c.fields[n].width)

Cut(c, n, v) == IF c.fields[n].converter = "code" THEN v ELSE v \cap BitsOf(c.fields[n].width)

Encoded(c, n, v) ==
    IF c.fields[n].converter = "bool" THEN (IF v = {} THEN {} ELSE {0}) ELSE Cut(c, n, v)

\* Mutant: the shifted value is not masked.
Spilled(c, n, v, record) ==
    (record \ Own(c, n)) \cup {Origin(c, n) + b : b \in Encoded(c, n, v)}

Merged(c, n, v, record) ==
    (record \ Own(c, n)) \cup ({Origin(c, n) + b : b \in Encoded(c, n, v)} \cap Own(c, n))

Encode(n) ==
    /\ phase = "building" /\ n \in todo /\ Turn(n)
    /\ n \in DOMAIN cls.fields
    /\ arr' = Merged(cls, n, values[n], arr)
    /\ todo' = todo \ {n}
    /\ UNCHANGED <<cls, phase, given, values, got>>

OutOfBounds(n) ==
    /\ phase = "building" /\ n \in todo /\ Turn(n)
    /\ n \in DOMAIN cls.fields /\ ~Fits(cls, n, values[n])
    /\ phase' = "OverflowError"
    /\ UNCHANGED <<cls, given, values, todo, arr, got>>

Unexpected(n) ==
    /\ phase = "building" /\ n \in todo /\ Turn(n)
    /\ n \notin DOMAIN cls.fields
    /\ phase' = "TypeError"
    /\ UNCHANGED <<cls, given, values, todo, arr, got>>

-----------------------------------------------------------------------------
(* Parsing                                                                 *)

\* What the descriptor of the field returns.
Read(c, n, record) ==
    LET raw == Cut(c, n, {b - Origin(c, n) : b \in record \cap Own(c, n)}) IN
    IF c.fields[n].converter = "bool" THEN (IF raw = {} THEN {} ELSE {0}) ELSE raw

\* The payload of a message of this register, of some length: all bits behind the
\* record are ones, and only the first record counts.
Parse(bytes) ==
    LET buf == (arr \cap BitsOf(bytes)) \cup (BitsOf(bytes) \ BitsOf(Itemsize(cls))) IN
    /\ phase = "building" /\ todo = {}
    /\ IF bytes < Itemsize(cls)
         THEN phase' = "HarpParseError" /\ UNCHANGED got
         ELSE /\ phase' = "parsed"
              /\ got' = [n \in DOMAIN cls.fields |-> Read(cls, n, buf \cap BitsOf(Itemsize(cls)))]
    /\ UNCHANGED <<cls, given, values, todo, arr>>

Next ==
    \/ Declare
    \/ \E kw \in Argument : Call(kw)
    \/ \E n \in todo : Encode(n) \/ OutOfBounds(n) \/ Unexpected(n)
    \/ \E bytes \in Received : Parse(bytes)

Spec == Init /\ [][Next]_vars

-----------------------------------------------------------------------------
\* Comparing each slot with its neighbour finds every overlap there is, and no more:
\* a class is refused exactly if a field sticks out, a mask does not fit, or two
\* fields share a byte and are not masks of one element (_build_struct_dtype,
\* _validate_no_overlap).
SharedElement(c, m, n) ==
    /\ c.fields[m].kind # "whole" /\ c.fields[n].kind # "whole"
    /\ ByteOffset(c, m) = ByteOffset(c, n)

Sound(c) ==
    /\ \A n \in DOMAIN c.fields :
          /\ Own(c, n) \subseteq 8 * ByteOffset(c, n)..(8 * End(c, n) - 1)
          /\ End(c, n) <= Itemsize(c)
    /\ \A m, n \in DOMAIN c.fields :
          \/ m = n \/ SharedElement(c, m, n)
          \/ ByteOffset(c, m)..(End(c, m) - 1) \cap ByteOffset(c, n)..(End(c, n) - 1) = {}

OnlySoundClasses == phase # "declared" => (phase = "refused" <=> ~Sound(cls))

\* A field whose bits none of the other values goes to reads, while the constructor
\* is at work, zero until its own value is encoded and that value from then on, cut
\* to what the field can hold: however the others share its bytes, and however large
\* their values are (the read, mask and write back of PayloadBase.__init__).
Apart(c, n, names) == \A m \in (names \cap DOMAIN c.fields) \ {n} : Own(c, m) \cap Own(c, n) = {}

Kept(c, n, v) == {b \in Encoded(c, n, v) : Origin(c, n) + b \in Own(c, n)}

FieldsKeep ==
    phase = "building" =>
        \A n \in DOMAIN cls.fields :
            Apart(cls, n, DOMAIN values) =>
                Read(cls, n, arr) =
                    IF n \in DOMAIN values \ todo THEN Kept(cls, n, values[n]) ELSE {}

\* What is parsed is what was given, for each value its field can hold, also where a
\* default has the same bits, and whatever follows the record in the payload
\* (RegisterBase.format, then parse).
GivenIsRead ==
    phase = "parsed" =>
        \A n \in DOMAIN given :
            Apart(cls, n, DOMAIN given) /\ Kept(cls, n, given[n]) = given[n] =>
                got[n] = given[n]

\* Why: a class is used only once accepted; the defaults are encoded before the
\* arguments; and an argument encoded is read from the bits no other argument has
\* (__init_subclass__, PayloadBase.__init__).
ClassChecked ==
    phase # "declared" => (phase = "refused" <=> ~Accepted(cls))

DefaultsFirst ==
    phase = "building" /\ DOMAIN given \ todo # {} => todo \subseteq DOMAIN given

ArgumentsHeld ==
    phase = "building" =>
        \A n \in DOMAIN given \ todo :
            /\ n \in DOMAIN cls.fields
            /\ Apart(cls, n, DOMAIN given) => Read(cls, n, arr) = Kept(cls, n, given[n])

IInv ==
    /\ cls \in Class
    /\ \A n \in DOMAIN values : values[n] \in Bits
    /\ todo \subseteq DOMAIN values
    /\ \A n \in DOMAIN given : n \in DOMAIN values /\ values[n] = given[n]
    /\ ClassChecked /\ DefaultsFirst /\ ArgumentsHeld
    /\ FieldsKeep /\ GivenIsRead
=============================================================================
