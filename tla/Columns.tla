------------------------------ MODULE Columns ------------------------------
(***************************************************************************)
(* Batches of payloads (_payload.py): what the batch twin of a payload     *)
(* class and payload_as_columns make of many records at once, with tables  *)
(* instead of the enum and converter calls that read one record.           *)
(*                                                                         *)
(* As in Payload, a number is the set of the positions of its ones.  A     *)
(* code that an enum names reads as that member, any other as its number.  *)
(***************************************************************************)
EXTENDS Payload, Sequences, Functions

CONSTANTS
    Members,  \* the members of the enum of a GroupMask or BitMask, by field
    Batches   \* sequences of records

IsEnum(c, n) == c.fields[n].kind = "masked" /\ c.fields[n].converter = "code"
IsFlags(c, n) == c.fields[n].kind = "flags"

ASSUME MembersAssumption ==
    /\ \A n \in DOMAIN Members :
          /\ Members[n] \in Seq(Bits) \ {<<>>} /\ IsInjective(Members[n])
          /\ \A i \in DOMAIN Members[n] : IsFiniteSet(Members[n][i])
    /\ \A c \in Class : \A n \in DOMAIN c.fields :
          /\ IsEnum(c, n) \/ IsFlags(c, n) => n \in DOMAIN Members
          /\ IsFlags(c, n) => c.fields[n].converter = "code"
ASSUME BatchesAssumption == Batches \subseteq Seq(Bits)

Member(m) == [kind |-> "member", code |-> m]
Raw(code) == [kind |-> "raw", code |-> code]

-----------------------------------------------------------------------------
(* One record                                                              *)

MemberCodes(n) == {Members[n][i] : i \in DOMAIN Members[n]}

\* GroupMask is permissive: a code without member stays a number.
Named(n, code) == IF code \in MemberCodes(n) THEN Member(code) ELSE Raw(code)

-----------------------------------------------------------------------------
(* Many                                                                    *)

Below(a, b) == \E bit \in b \ a : \A other \in (a \ b) \cup (b \ a) : other <= bit

Largest(n) == CHOOSE m \in MemberCodes(n) : \A other \in MemberCodes(n) : ~Below(m, other)

\* Twins of the descriptors: the value of each record, codes and flags as numbers.
Batch(c, n, records) == [i \in DOMAIN records |-> Read(c, n, records[i])]

\* The table ends with the largest member; there is an error behind its end.
Unnamed == 0
IndexError == -1
CodeOf(n, code) ==
    IF code \in MemberCodes(n) THEN CHOOSE i \in DOMAIN Members[n] : Members[n][i] = code
    ELSE Unnamed

\* Mutant: a code behind the end of the table reads as the last one.
ClippedCode(c, n, code) ==
    IF Below(Largest(n), code) THEN CodeOf(n, Largest(n)) ELSE CodeOf(n, code)

\* Where the mask lets no larger code through, the table is not guarded.
Widest(c, n) == {b - Shift(c, n) : b \in MaskOf(c, n)}

Lookup(c, n, code) ==
    IF ~Below(Largest(n), code) THEN CodeOf(n, code)
    ELSE IF Below(Largest(n), Widest(c, n)) THEN Unnamed
    ELSE IndexError

\* Codes, the smallest first.
Ascending(S) ==
    CHOOSE codes \in [1..Cardinality(S) -> S] :
        \A i, j \in DOMAIN codes : i < j => Below(codes[i], codes[j])

\* The codes, as places in the categories: the members, then the numbers that occur.
EnumColumn(c, n, records) ==
    LET raw == Batch(c, n, records)
        undefined == {raw[i] : i \in {i \in DOMAIN raw : Lookup(c, n, raw[i]) = Unnamed}}
        extras == Ascending(undefined)
        place(code) == CHOOSE i \in DOMAIN extras : extras[i] = code
    IN  [codes |-> [i \in DOMAIN raw |->
                      IF raw[i] \in undefined THEN Len(Members[n]) + place(raw[i])
                      ELSE Lookup(c, n, raw[i])],
         categories |-> [i \in DOMAIN Members[n] |-> Member(Members[n][i])]
                          \o [i \in DOMAIN extras |-> Raw(extras[i])]]

\* Iterating over an IntFlag gives its members of one bit.
FlagMembers(n) == {m \in MemberCodes(n) : Cardinality(m) = 1}

\* One column of truth values for each flag that fits in the mask.
FlagColumns(c, n, records) ==
    [m \in {m \in FlagMembers(n) : m \subseteq MaskOf(c, n)} |->
        [i \in DOMAIN records |-> Batch(c, n, records)[i] \cap m # {}]]

-----------------------------------------------------------------------------
\* A table of many records says of each what its own payload object says, for codes the
\* enum names, codes in its gaps and codes behind its end, in whatever company they come;
\* and the flags of a mask, one column each, add up to its value, save for bits that have
\* no name (payload_as_columns against the descriptors).
ColumnsMatchScalars ==
    phase = "class" =>
        \A n \in DOMAIN cls.fields, records \in Batches :
            /\ IsEnum(cls, n) =>
                  LET column == EnumColumn(cls, n, records) IN
                  /\ IsInjective(column.categories)
                  /\ \A i \in DOMAIN records :
                        /\ column.codes[i] \in DOMAIN column.categories
                        /\ column.categories[column.codes[i]] = Named(n, Read(cls, n, records[i]))
            /\ IsFlags(cls, n) =>
                  LET columns == FlagColumns(cls, n, records) IN
                  \A i \in DOMAIN records :
                      UNION {m \in DOMAIN columns : columns[m][i]}
                          = Read(cls, n, records[i]) \cap UNION FlagMembers(n)
=============================================================================
