--------------------------- MODULE PayloadProofs ---------------------------
(***************************************************************************)
(* Every class, with any number of fields of any width and mask, and every *)
(* argument: the classes accepted are those whose fields are apart, fields *)
(* of one record do not disturb each other, what was given is read, and    *)
(* the columns of many records say what each of them says.                 *)
(***************************************************************************)
EXTENDS Columns, FiniteSetTheorems, SequenceTheorems, NaturalsInduction, WellFoundedInduction, TLAPS

\* A set of naturals has a least element.
LEMMA LeastElement ==
    ASSUME NEW T \in SUBSET Nat, T # {}
    PROVE  \E m \in T : \A k \in T : m <= k
<1> DEFINE R == OpToRel(<, Nat)
<1>1. IsWellFoundedOn(R, Nat)
  BY NatLessThanWellFounded
<1>2. \A k, m \in Nat : k < m => <<k, m>> \in R
  BY DEF OpToRel
<1> HIDE DEF R
<1>3. PICK m \in T : \A k \in T : ~ (<<k, m>> \in R)
  BY <1>1, WFMin
<1>4. ASSUME NEW k \in T PROVE m <= k
  <2>1. k \in Nat /\ m \in Nat
    OBVIOUS
  <2>2. ~(k < m)
    BY <1>2, <1>3, <2>1, Zenon
  <2> QED
    BY <2>1, <2>2
<1> QED
  BY <1>4

\* Where a field is, is given by integers.
LEMMA FieldPlace ==
    ASSUME NEW c \in Class, NEW n \in DOMAIN c.fields
    PROVE  Origin(c, n) \in Int /\ Own(c, n) \subseteq Int
<1>1. c.elem \in Nat /\ c.fields[n] \in Field
  BY ClassAssumption
<1>2. MaskOf(c, n) \in SUBSET Nat
  BY <1>1 DEF MaskOf, BitsOf, Field, Bits
<1>3. ByteOffset(c, n) \in Int
  BY <1>1 DEF ByteOffset, Field
<1>4. Shift(c, n) \in Int
  <2>1. CASE MaskOf(c, n) = {}
    BY <2>1 DEF Shift, MaskTrailingZeros
  <2>2. CASE MaskOf(c, n) # {}
    <3>1. \E b \in MaskOf(c, n) : \A other \in MaskOf(c, n) : b <= other
      BY <1>2, <2>2, LeastElement
    <3>2. MaskTrailingZeros(MaskOf(c, n)) \in MaskOf(c, n)
      BY <2>2, <3>1 DEF MaskTrailingZeros
    <3> QED
      BY <1>2, <3>2 DEF Shift
  <2> QED
    BY <2>1, <2>2
<1>5. Origin(c, n) \in Int
  BY <1>3, <1>4 DEF Origin
<1>6. Own(c, n) \subseteq Int
  BY <1>2, <1>3 DEF Own
<1> QED
  BY <1>5, <1>6

\* A field encoded reads as what it can hold.
LEMMA ReadMerged ==
    ASSUME NEW c \in Class, NEW n \in DOMAIN c.fields, NEW v \in Bits, NEW record
    PROVE  Read(c, n, Merged(c, n, v, record)) = Kept(c, n, v)
<1> DEFINE o == Origin(c, n)
           own == Own(c, n)
           e == Encoded(c, n, v)
           raw == {b - o : b \in Merged(c, n, v, record) \cap own}
<1>1. o \in Int /\ own \subseteq Int
  BY FieldPlace
<1>2. c.fields[n] \in Field
  BY ClassAssumption
<1>3. e \subseteq Int
  <2>1. Cut(c, n, v) \subseteq v
    BY DEF Cut
  <2>2. e \subseteq v \cup {0}
    BY <2>1 DEF Encoded
  <2>3. v \cup {0} \subseteq Int
    BY DEF Bits
  <2> QED
    BY <2>2, <2>3, Zenon
<1>4. Merged(c, n, v, record) \cap own = {o + b : b \in e} \cap own
  BY DEF Merged
<1>5. raw = {b \in e : o + b \in own}
  <2> DEFINE kept == {b \in e : o + b \in own}
  <2> HIDE DEF o, own, e
  <2>1. ASSUME NEW x \in raw PROVE x \in kept
    <3>1. PICK y \in {o + b : b \in e} \cap own : x = y - o
      BY <1>4
    <3>2. PICK b \in e : y = o + b
      BY <3>1
    <3> QED
      BY <1>1, <1>3, <3>1, <3>2
  <2>2. ASSUME NEW x \in kept PROVE x \in raw
    <3>1. o + x \in {o + b : b \in e} \cap own
      OBVIOUS
    <3>2. x = (o + x) - o
      BY <1>1, <1>3
    <3> QED
      BY <1>4, <3>1, <3>2
  <2> QED
    BY <2>1, <2>2
<1>6. Kept(c, n, v) = raw
  BY <1>5 DEF Kept
<1>7. Cut(c, n, raw) = raw
  <2>1. CASE c.fields[n].converter = "bool"
    <3>1. e \subseteq {0}
      BY <2>1 DEF Encoded
    <3>2. 0 \in BitsOf(c.fields[n].width)
      BY <1>2 DEF Field, BitsOf
    <3> QED
      BY <1>5, <2>1, <3>1, <3>2 DEF Cut
  <2>2. CASE c.fields[n].converter # "bool"
    <3>1. e = Cut(c, n, v)
      BY <2>2 DEF Encoded
    <3> QED
      BY <1>5, <3>1 DEF Cut
  <2> QED
    BY <2>1, <2>2
<1>8. Read(c, n, Merged(c, n, v, record))
        = IF c.fields[n].converter = "bool" THEN (IF raw = {} THEN {} ELSE {0}) ELSE raw
  BY <1>7 DEF Read
<1>9. c.fields[n].converter = "bool" => raw = {} \/ raw = {0}
  BY <1>5 DEF Encoded
<1> QED
  BY <1>6, <1>8, <1>9

\* A field whose bits are apart from another's does not notice that one encoded.
LEMMA ReadOther ==
    ASSUME NEW c, NEW m, NEW n, NEW v, NEW record, Own(c, m) \cap Own(c, n) = {}
    PROVE  Read(c, n, Merged(c, m, v, record)) = Read(c, n, record)
<1>1. Merged(c, m, v, record) \cap Own(c, n) = record \cap Own(c, n)
  BY DEF Merged
<1> QED
  BY <1>1 DEF Read

LEMMA ReadNothing ==
    ASSUME NEW c, NEW n
    PROVE  Read(c, n, {}) = {}
BY DEF Read, Cut

-----------------------------------------------------------------------------
(* Lists of slots                                                          *)

Span(s) == s.from \in Nat /\ s.to \in Nat

\* Of finitely many slots, one is last.
LEMMA LastSlot ==
    ASSUME NEW S, IsFiniteSet(S), S # {}, \A s \in S : Span(s)
    PROVE  \E s \in S : \A t \in S : NotAfter(t, s)
<1>. DEFINE Fine(T) == \E s \in T : \A t \in T : NotAfter(t, s)
            Bad == {T \in SUBSET S : T # {} /\ ~Fine(T)}
<1>1. SUFFICES ASSUME Bad # {} PROVE FALSE
  OBVIOUS
<1>2. PICK T \in Bad : \A U \in Bad : ~(<<U, T>> \in StrictSubsetOrdering(S))
  <2>1. IsWellFoundedOn(StrictSubsetOrdering(S), SUBSET S)
    BY FS_StrictSubsetOrderingWellFounded, FS_FiniteSubsetsOfFinite
  <2>2. Bad \subseteq SUBSET S
    OBVIOUS
  <2>. HIDE DEF Bad
  <2>. QED BY <1>1, <2>1, <2>2, WFMin
<1>3. T \in SUBSET S /\ T # {} /\ ~Fine(T)
  OBVIOUS
<1>4. PICK x \in T : TRUE
  BY <1>3
<1>. DEFINE U == T \ {x}
<1>5. U \notin Bad
  <2>1. U \in SUBSET S /\ U \subseteq T /\ U # T
    BY <1>3
  <2>2. <<U, T>> \in StrictSubsetOrdering(S)
    BY <1>3, <2>1 DEF StrictSubsetOrdering
  <2>. QED BY <1>2, <2>2
<1>6. CASE U = {}
  <2>1. \A t \in T : t = x
    BY <1>6
  <2>2. Span(x)
    BY <1>3
  <2>3. NotAfter(x, x)
    BY <2>2 DEF NotAfter, Span
  <2>. QED BY <1>3, <2>1, <2>3
<1>7. CASE U # {}
  <2>1. PICK y \in U : \A t \in U : NotAfter(t, y)
    BY <1>3, <1>5, <1>7
  <2>2. Span(x) /\ \A t \in T : Span(t)
    BY <1>3
  <2>3. CASE NotAfter(x, y)
    <3>1. \A t \in T : NotAfter(t, y)
      BY <2>1, <2>3
    <3>. QED BY <1>3, <3>1
  <2>4. CASE ~NotAfter(x, y)
    <3>1. ASSUME NEW t \in T PROVE NotAfter(t, x)
      <4>1. t = x \/ NotAfter(t, y)
        BY <2>1
      <4>2. Span(t) /\ Span(x) /\ Span(y)
        BY <2>2
      <4>. QED BY <2>4, <4>1, <4>2 DEF NotAfter, Span
    <3>. QED BY <1>3, <3>1
  <2>. QED BY <2>3, <2>4
<1>. QED BY <1>6, <1>7

\* Finitely many slots can be listed.
LEMMA ListExists ==
    ASSUME NEW S, IsFiniteSet(S), \A s \in S : Span(s)
    PROVE  \E spans \in [1..Cardinality(S) -> S] : Lists(spans, S)
<1>. DEFINE Fine(T) == \E spans \in [1..Cardinality(T) -> T] : Lists(spans, T)
            Bad == {T \in SUBSET S : ~Fine(T)}
<1>1. SUFFICES ASSUME Bad # {} PROVE FALSE
  OBVIOUS
<1>2. PICK T \in Bad : \A U \in Bad : ~(<<U, T>> \in StrictSubsetOrdering(S))
  <2>1. IsWellFoundedOn(StrictSubsetOrdering(S), SUBSET S)
    BY FS_StrictSubsetOrderingWellFounded, FS_FiniteSubsetsOfFinite
  <2>2. Bad \subseteq SUBSET S
    OBVIOUS
  <2>. HIDE DEF Bad
  <2>. QED BY <1>1, <2>1, <2>2, WFMin
<1>3. T \in SUBSET S /\ ~Fine(T) /\ IsFiniteSet(T) /\ \A s \in T : Span(s)
  <2>1. T \in SUBSET S
    OBVIOUS
  <2>. QED BY <2>1, FS_Subset
<1>4. CASE T = {}
  <2>. DEFINE e == [i \in {} |-> {}]
  <2>1. Cardinality(T) = 0 /\ 1..0 = {}
    BY <1>4, FS_EmptySet
  <2>2. e \in [1..Cardinality(T) -> T]
    BY <1>4, <2>1
  <2>3. Lists(e, T)
    BY <1>4 DEF Lists
  <2>. QED BY <1>3, <2>2, <2>3
<1>5. CASE T # {}
  <2>1. PICK x \in T : \A t \in T : NotAfter(t, x)
    BY <1>3, <1>5, LastSlot
  <2>. DEFINE U == T \ {x}
              n == Cardinality(U)
  <2>2. IsFiniteSet(U) /\ Cardinality(T) \in Nat /\ n = Cardinality(T) - 1 /\ n \in Nat
    BY <1>3, FS_RemoveElement, FS_CardinalityType
  <2>3. U \notin Bad
    <3>1. U \in SUBSET S /\ U \subseteq T /\ U # T
      BY <1>3
    <3>2. <<U, T>> \in StrictSubsetOrdering(S)
      BY <1>3, <3>1 DEF StrictSubsetOrdering
    <3>. QED BY <1>2, <3>2
  <2>4. PICK e \in [1..n -> U] : Lists(e, U)
    BY <1>3, <2>3
  <2>. HIDE DEF n
  <2>. DEFINE f == [i \in 1..(n + 1) |-> IF i <= n THEN e[i] ELSE x]
  <2>5. f \in [1..(n + 1) -> T] /\ Cardinality(T) = n + 1
    BY <2>2, <2>4
  <2>6. /\ U = {e[i] : i \in 1..n}
        /\ \A i, j \in 1..n : i < j => NotAfter(e[i], e[j])
    BY <2>4 DEF Lists
  <2>7. \A i \in 1..n : f[i] = e[i] /\ e[i] \in T /\ i \in 1..(n + 1)
    BY <2>2, <2>4
  <2>8. f[n + 1] = x /\ n + 1 \in 1..(n + 1) /\ \A i \in 1..(n + 1) : i \in 1..n \/ i = n + 1
    BY <2>2
  <2>9. DOMAIN f = 1..(n + 1)
    OBVIOUS
  <2>. HIDE DEF f
  <2>10. T = {f[i] : i \in 1..(n + 1)}
    <3>1. ASSUME NEW t \in T PROVE \E i \in 1..(n + 1) : t = f[i]
      <4>1. CASE t = x
        BY <2>8, <4>1
      <4>2. CASE t # x
        <5>1. PICK i \in 1..n : t = e[i]
          BY <2>6, <4>2
        <5>. QED BY <2>7, <5>1
      <4>. QED BY <4>1, <4>2
    <3>2. \A i \in 1..(n + 1) : f[i] \in T
      BY <2>5
    <3>. QED BY <3>1, <3>2
  <2>11. ASSUME NEW i \in 1..(n + 1), NEW j \in 1..(n + 1), i < j
         PROVE  NotAfter(f[i], f[j])
    <3>1. i \in 1..n
      BY <2>2, <2>11
    <3>2. CASE j = n + 1
      BY <2>1, <2>7, <2>8, <3>1, <3>2
    <3>3. CASE j \in 1..n
      BY <2>6, <2>7, <2>11, <3>1, <3>3
    <3>. QED BY <2>8, <3>2, <3>3
  <2>12. Lists(f, T)
    BY <2>9, <2>10, <2>11 DEF Lists
  <2>. QED BY <1>3, <2>5, <2>12
<1>. QED BY <1>4, <1>5

-----------------------------------------------------------------------------
(* The slots of a class                                                    *)

LEMMA SlotFacts ==
    ASSUME NEW c \in Class, NEW n \in DOMAIN c.fields
    PROVE  /\ ByteOffset(c, n) \in Nat /\ Size(c, n) \in Nat \ {0}
           /\ End(c, n) = ByteOffset(c, n) + Size(c, n) /\ End(c, n) \in Nat
           /\ SlotOf(c, n).from = ByteOffset(c, n) /\ SlotOf(c, n).to = End(c, n)
           /\ Span(SlotOf(c, n))
<1>1. c.elem \in Nat \ {0} /\ c.fields[n] \in Field
  BY ClassAssumption
<1>2. c.fields[n].offset \in Nat /\ c.fields[n].width \in Nat \ {0}
  BY <1>1 DEF Field
<1>3. ByteOffset(c, n) \in Nat /\ Size(c, n) \in Nat \ {0}
  BY <1>1, <1>2 DEF ByteOffset, Size
<1>4. End(c, n) = ByteOffset(c, n) + Size(c, n)
  BY DEF End
<1>5. SlotOf(c, n).from = ByteOffset(c, n) /\ SlotOf(c, n).to = End(c, n)
  BY DEF SlotOf
<1>. QED BY <1>3, <1>4, <1>5 DEF Span

\* Fields have one slot exactly if they share an element.
LEMMA SameSlot ==
    ASSUME NEW c \in Class, NEW m \in DOMAIN c.fields, NEW n \in DOMAIN c.fields
    PROVE  SlotOf(c, m) = SlotOf(c, n) <=> m = n \/ SharedElement(c, m, n)
<1>1. None \notin DOMAIN c.fields
  BY ClassAssumption
<1>2. /\ SlotOf(c, m) = [from |-> ByteOffset(c, m), to |-> End(c, m),
                         owner |-> IF c.fields[m].kind = "whole" THEN m ELSE None]
      /\ SlotOf(c, n) = [from |-> ByteOffset(c, n), to |-> End(c, n),
                         owner |-> IF c.fields[n].kind = "whole" THEN n ELSE None]
  BY DEF SlotOf
<1>3. SharedElement(c, m, n) => End(c, m) = End(c, n)
  BY DEF SharedElement, End, Size
<1>4. ASSUME SlotOf(c, m) = SlotOf(c, n) PROVE m = n \/ SharedElement(c, m, n)
  <2>1. SlotOf(c, m).owner = SlotOf(c, n).owner /\ SlotOf(c, m).from = SlotOf(c, n).from
    BY <1>4
  <2>2. /\ (IF c.fields[m].kind = "whole" THEN m ELSE None)
             = (IF c.fields[n].kind = "whole" THEN n ELSE None)
        /\ ByteOffset(c, m) = ByteOffset(c, n)
    BY <1>2, <2>1
  <2>. QED BY <1>1, <2>2 DEF SharedElement
<1>5. ASSUME SharedElement(c, m, n) PROVE SlotOf(c, m) = SlotOf(c, n)
  BY <1>2, <1>3, <1>5 DEF SharedElement
<1>. QED BY <1>4, <1>5

LEMMA SlotsFinite ==
    ASSUME NEW c \in Class
    PROVE  /\ IsFiniteSet(Slots(c)) /\ Slots(c) # {} /\ \A s \in Slots(c) : Span(s)
           /\ \E last \in Slots(c) : \A s \in Slots(c) : s.to <= last.to
<1>. DEFINE D == DOMAIN c.fields
            f == [n \in D |-> SlotOf(c, n)]
            Ends == {[from |-> s.to, to |-> s.to] : s \in Slots(c)}
            g == [s \in Slots(c) |-> [from |-> s.to, to |-> s.to]]
<1>1. IsFiniteSet(D) /\ D # {}
  BY ClassAssumption
<1>2. f \in Surjection(D, Slots(c))
  BY DEF Slots, Surjection
<1>3. IsFiniteSet(Slots(c))
  <2>. HIDE DEF f
  <2>. QED BY <1>1, <1>2, FS_Surjection
<1>4. Slots(c) # {} /\ \A s \in Slots(c) : Span(s)
  BY <1>1, SlotFacts DEF Slots
<1>5. g \in Surjection(Slots(c), Ends)
  BY DEF Surjection
<1>6. IsFiniteSet(Ends) /\ Ends # {}
  <2>. HIDE DEF g
  <2>1. IsFiniteSet(Ends)
    BY <1>3, <1>5, FS_Surjection
  <2>. QED BY <1>4, <2>1
<1>7. \A e \in Ends : Span(e)
  BY <1>4 DEF Span
<1>8. PICK e \in Ends : \A t \in Ends : NotAfter(t, e)
  <2>. HIDE DEF Ends
  <2>. QED BY <1>6, <1>7, LastSlot
<1>9. PICK last \in Slots(c) : e = [from |-> last.to, to |-> last.to]
  OBVIOUS
<1>10. ASSUME NEW s \in Slots(c) PROVE s.to <= last.to
  <2>. DEFINE t == [from |-> s.to, to |-> s.to]
  <2>1. NotAfter(t, e)
    BY <1>8
  <2>2. s.to \in Nat /\ last.to \in Nat
    BY <1>4 DEF Span
  <2>. QED BY <1>9, <2>1, <2>2 DEF NotAfter
<1>. QED BY <1>3, <1>4, <1>10

LEMMA ItemsizeType ==
    ASSUME NEW c \in Class
    PROVE  Itemsize(c) \in Nat
<1>1. c.elem \in Nat /\ c.length \in Nat \cup {None}
  BY ClassAssumption
<1>2. CASE c.length # None
  BY <1>1, <1>2 DEF Itemsize
<1>3. CASE c.length = None
  <2>. DEFINE Ends == {s.to : s \in Slots(c)}
  <2>1. \E size \in Ends : \A s \in Slots(c) : s.to <= size
    BY SlotsFinite
  <2>2. Itemsize(c) \in Ends
    BY <1>3, <2>1 DEF Itemsize
  <2>. QED BY <2>2, SlotsFinite DEF Span
<1>. QED BY <1>2, <1>3

\* sorted() lists every slot once, from left to right.
LEMMA SlotsSorted ==
    ASSUME NEW c \in Class
    PROVE  /\ Cardinality(Slots(c)) \in Nat
           /\ Sorted(c) \in [1..Cardinality(Slots(c)) -> Slots(c)]
           /\ Slots(c) = {Sorted(c)[i] : i \in 1..Cardinality(Slots(c))}
           /\ \A i, j \in 1..Cardinality(Slots(c)) :
                 i < j => NotAfter(Sorted(c)[i], Sorted(c)[j]) /\ Sorted(c)[i] # Sorted(c)[j]
<1>. DEFINE S == Slots(c)
            N == Cardinality(S)
            e == Sorted(c)
<1>1. IsFiniteSet(S) /\ \A s \in S : Span(s)
  BY SlotsFinite
<1>2. N \in Nat
  BY <1>1, FS_CardinalityType
<1>3. e \in [1..N -> S] /\ Lists(e, S)
  <2>1. \E spans \in [1..N -> S] : Lists(spans, S)
    <3>. HIDE DEF S
    <3>. QED BY <1>1, ListExists
  <2>. QED BY <2>1 DEF Sorted
<1>. HIDE DEF S, N, e
<1>4. S = {e[i] : i \in 1..N} /\ \A i, j \in 1..N : i < j => NotAfter(e[i], e[j])
  BY <1>3 DEF Lists
<1>5. e \in Surjection(1..N, S)
  BY <1>3, <1>4 DEF Surjection
<1>6. e \in Injection(1..N, S)
  <2>1. IsFiniteSet(1..N) /\ Cardinality(1..N) = N
    BY <1>2, FS_Interval
  <2>. QED BY <1>5, <2>1, FS_SurjSameCardinalityImpliesInj DEF N
<1>7. \A i, j \in 1..N : i < j => e[i] # e[j]
  <2>1. e \in [1..N -> S] /\ \A i, j \in 1..N : e[i] = e[j] => i = j
    BY <1>3, <1>6 DEF Injection, IsInjective
  <2>2. \A i, j \in 1..N : i < j => i # j
    BY <1>2
  <2>. QED BY <2>1, <2>2
<1>. QED BY <1>2, <1>3, <1>4, <1>7 DEF S, N, e

\* Neighbours apart are all apart.
LEMMA NeighboursSuffice ==
    ASSUME NEW c \in Class, NoOverlap(c),
           NEW i \in 1..Cardinality(Slots(c)), NEW j \in 1..Cardinality(Slots(c)), i < j
    PROVE  Sorted(c)[j].from >= Sorted(c)[i].to
<1>. DEFINE N == Cardinality(Slots(c))
            e == Sorted(c)
            Bad == {k \in Nat : k \in 1..N /\ i < k /\ ~(e[k].from >= e[i].to)}
<1>1. N \in Nat /\ e \in [1..N -> Slots(c)]
      /\ \A k, l \in 1..N : k < l => NotAfter(e[k], e[l])
  BY SlotsSorted
<1>2. \A k \in 1..N : e[k].from \in Nat /\ e[k].to \in Nat /\ e[k].from <= e[k].to
  <2>1. \A s \in Slots(c) : s.from \in Nat /\ s.to \in Nat /\ s.from <= s.to
    <3>. TAKE s \in Slots(c)
    <3>1. PICK n \in DOMAIN c.fields : s = SlotOf(c, n)
      BY DEF Slots
    <3>. QED BY <3>1, SlotFacts
  <2>. QED BY <1>1, <2>1
<1>3. \A k \in 2..N : e[k].from >= e[k - 1].to
  BY DEF NoOverlap
<1>. HIDE DEF N, e
<1>4. Bad = {}
  <2>1. SUFFICES ASSUME Bad # {} PROVE FALSE
    OBVIOUS
  <2>2. PICK k \in Bad : \A l \in Bad : k <= l
    <3>1. Bad \in SUBSET Nat
      OBVIOUS
    <3>. HIDE DEF Bad
    <3>. QED BY <2>1, <3>1, LeastElement
  <2>3. k \in 1..N /\ i < k /\ ~(e[k].from >= e[i].to) /\ i \in 1..N
    BY DEF N
  <2>4. k \in 2..N /\ k - 1 \in 1..N /\ k - 1 \in Nat /\ ~(k <= k - 1)
    BY <1>1, <2>3
  <2>5. e[k].from >= e[k - 1].to /\ e[k - 1].from <= e[k - 1].to
        /\ e[k].from \in Nat /\ e[k - 1].from \in Nat /\ e[k - 1].to \in Nat /\ e[i].to \in Nat
    BY <1>2, <1>3, <2>3, <2>4
  <2>6. CASE k - 1 = i
    BY <2>3, <2>5, <2>6
  <2>7. CASE k - 1 # i
    <3>1. i < k - 1 /\ k - 1 \notin Bad
      BY <1>1, <2>2, <2>3, <2>4, <2>7
    <3>2. e[k - 1].from >= e[i].to
      BY <2>4, <3>1
    <3>. QED BY <2>3, <2>5, <3>2
  <2>. QED BY <2>6, <2>7
<1>5. i \in Nat /\ j \in Nat /\ j \in 1..N
  BY <1>1 DEF N
<1>6. e[j].from >= e[i].to
  BY <1>4, <1>5
<1>. QED BY <1>6 DEF e

\* Comparing neighbours finds every two fields that overlap, and no others.
LEMMA OverlapFound ==
    ASSUME NEW c \in Class
    PROVE  NoOverlap(c) <=>
             \A m, n \in DOMAIN c.fields :
                \/ m = n \/ SharedElement(c, m, n)
                \/ ByteOffset(c, m)..(End(c, m) - 1) \cap ByteOffset(c, n)..(End(c, n) - 1) = {}
<1>. DEFINE D == DOMAIN c.fields
            N == Cardinality(Slots(c))
            e == Sorted(c)
            Bytes(n) == ByteOffset(c, n)..(End(c, n) - 1)
<1>1. /\ N \in Nat /\ e \in [1..N -> Slots(c)] /\ Slots(c) = {e[i] : i \in 1..N}
      /\ \A i, j \in 1..N : i < j => NotAfter(e[i], e[j]) /\ e[i] # e[j]
  BY SlotsSorted
<1>2. Slots(c) = {SlotOf(c, n) : n \in D}
  BY DEF Slots
<1>3. \A n \in D : /\ ByteOffset(c, n) \in Nat /\ End(c, n) \in Nat
                   /\ ByteOffset(c, n) < End(c, n)
                   /\ SlotOf(c, n).from = ByteOffset(c, n) /\ SlotOf(c, n).to = End(c, n)
  BY SlotFacts
<1>4. ASSUME NoOverlap(c), NEW m \in D, NEW n \in D, m # n, ~SharedElement(c, m, n)
      PROVE  Bytes(m) \cap Bytes(n) = {}
  <2>1. SlotOf(c, m) # SlotOf(c, n)
    BY <1>4, SameSlot
  <2>. HIDE DEF N, e
  <2>2. PICK i \in 1..N : SlotOf(c, m) = e[i]
    BY <1>1, <1>2
  <2>3. PICK j \in 1..N : SlotOf(c, n) = e[j]
    BY <1>1, <1>2
  <2>4. i # j
    BY <2>1, <2>2, <2>3
  <2>5. \A k, l \in 1..N : k < l => e[l].from >= e[k].to
    BY <1>4, NeighboursSuffice DEF N, e
  <2>6. /\ ByteOffset(c, m) \in Nat /\ End(c, m) \in Nat
        /\ ByteOffset(c, n) \in Nat /\ End(c, n) \in Nat
        /\ e[i].from = ByteOffset(c, m) /\ e[i].to = End(c, m)
        /\ e[j].from = ByteOffset(c, n) /\ e[j].to = End(c, n)
    BY <1>3, <2>2, <2>3
  <2>7. ByteOffset(c, n) >= End(c, m) \/ ByteOffset(c, m) >= End(c, n)
    <3>1. i < j \/ j < i
      BY <1>1, <2>4
    <3>. QED BY <2>5, <2>6, <3>1
  <2>. QED BY <2>6, <2>7
<1>5. ASSUME NEW k \in 2..N, ~(e[k].from >= e[k - 1].to)
      PROVE  \E m, n \in D : m # n /\ ~SharedElement(c, m, n) /\ Bytes(m) \cap Bytes(n) # {}
  <2>. HIDE DEF N, e
  <2>1. k - 1 \in 1..N /\ k \in 1..N /\ k - 1 < k
    BY <1>1
  <2>2. e[k - 1] \in Slots(c) /\ e[k] \in Slots(c) /\ e[k - 1] # e[k] /\ NotAfter(e[k - 1], e[k])
    BY <1>1, <2>1
  <2>3. PICK m \in D : e[k - 1] = SlotOf(c, m)
    BY <1>2, <2>2
  <2>4. PICK n \in D : e[k] = SlotOf(c, n)
    BY <1>2, <2>2
  <2>5. m # n /\ ~SharedElement(c, m, n)
    BY <2>2, <2>3, <2>4, SameSlot
  <2>6. /\ ByteOffset(c, m) \in Nat /\ End(c, m) \in Nat
        /\ ByteOffset(c, n) \in Nat /\ End(c, n) \in Nat /\ ByteOffset(c, n) < End(c, n)
        /\ e[k - 1].from = ByteOffset(c, m) /\ e[k - 1].to = End(c, m)
        /\ e[k].from = ByteOffset(c, n) /\ e[k].to = End(c, n)
    BY <1>3, <2>3, <2>4
  <2>7. ByteOffset(c, m) <= ByteOffset(c, n) /\ ByteOffset(c, n) < End(c, m)
    BY <1>5, <2>2, <2>6 DEF NotAfter
  <2>8. ByteOffset(c, n) \in Bytes(m) \cap Bytes(n)
    BY <2>6, <2>7
  <2>. QED BY <2>5, <2>8
<1>6. ASSUME ~NoOverlap(c)
      PROVE  \E m, n \in D : m # n /\ ~SharedElement(c, m, n) /\ Bytes(m) \cap Bytes(n) # {}
  <2>1. PICK k \in 2..N : ~(e[k].from >= e[k - 1].to)
    BY <1>6 DEF NoOverlap
  <2>. QED BY <1>5, <2>1
<1>. QED BY <1>4, <1>6

\* The bits of a field are in its bytes exactly if its mask fits.
LEMMA OwnFits ==
    ASSUME NEW c \in Class, NEW n \in DOMAIN c.fields
    PROVE  Own(c, n) \subseteq 8 * ByteOffset(c, n)..(8 * End(c, n) - 1)
             <=> (c.fields[n].kind # "whole" => MaskOf(c, n) \subseteq BitsOf(c.elem))
<1>. DEFINE o == ByteOffset(c, n)
            w == Size(c, n)
            mask == MaskOf(c, n)
<1>1. c.elem \in Nat /\ c.fields[n] \in Field
  BY ClassAssumption
<1>2. mask \subseteq Nat
  BY <1>1 DEF MaskOf, BitsOf, Field, Bits
<1>3. o \in Nat /\ w \in Nat /\ End(c, n) = o + w
  BY SlotFacts
<1>4. Own(c, n) = {8 * o + b : b \in mask}
  BY DEF Own
<1>5. (c.fields[n].kind # "whole" => mask \subseteq BitsOf(c.elem)) <=> mask \subseteq BitsOf(w)
  BY DEF MaskOf, Size
<1>. HIDE DEF o, w, mask
<1>6. ASSUME mask \subseteq BitsOf(w), NEW p \in Own(c, n) PROVE p \in 8 * o..(8 * End(c, n) - 1)
  <2>1. PICK b \in mask : p = 8 * o + b
    BY <1>4
  <2>2. b \in 0..(8 * w - 1)
    BY <1>6 DEF BitsOf
  <2>. QED BY <1>3, <2>1, <2>2
<1>7. ASSUME Own(c, n) \subseteq 8 * o..(8 * End(c, n) - 1), NEW b \in mask PROVE b \in BitsOf(w)
  <2>1. b \in Nat /\ 8 * o + b \in 8 * o..(8 * End(c, n) - 1)
    BY <1>2, <1>4, <1>7
  <2>2. b <= 8 * w - 1
    BY <1>3, <2>1
  <2>. QED BY <1>3, <2>1, <2>2 DEF BitsOf
<1>. QED BY <1>5, <1>6, <1>7 DEF o, mask

\* The check of a class accepts the sound ones, and no other.
LEMMA AcceptedIsSound ==
    ASSUME NEW c \in Class
    PROVE  Accepted(c) <=> Sound(c)
<1>1. MasksFit(c) <=>
        \A n \in DOMAIN c.fields : Own(c, n) \subseteq 8 * ByteOffset(c, n)..(8 * End(c, n) - 1)
  BY OwnFits DEF MasksFit
<1>2. SlotsFit(c) <=> \A n \in DOMAIN c.fields : End(c, n) <= Itemsize(c)
  BY SlotFacts DEF SlotsFit, Slots
<1>3. NoOverlap(c) <=>
        \A m, n \in DOMAIN c.fields :
           \/ m = n \/ SharedElement(c, m, n)
           \/ ByteOffset(c, m)..(End(c, m) - 1) \cap ByteOffset(c, n)..(End(c, n) - 1) = {}
  BY OverlapFound
<1>. QED BY <1>1, <1>2, <1>3 DEF Accepted, Sound

\* The fields of an accepted class are in its record.
LEMMA OwnInRecord ==
    ASSUME NEW c \in Class, Accepted(c), NEW n \in DOMAIN c.fields
    PROVE  Own(c, n) \subseteq BitsOf(Itemsize(c))
<1>. DEFINE o == ByteOffset(c, n)
            to == End(c, n)
            size == Itemsize(c)
<1>1. Own(c, n) \subseteq 8 * o..(8 * to - 1) /\ to <= size
  BY AcceptedIsSound DEF Sound
<1>2. o \in Nat /\ to \in Nat /\ size \in Nat
  BY SlotFacts, ItemsizeType
<1>. HIDE DEF o, to, size
<1>3. 8 * o..(8 * to - 1) \subseteq 0..(8 * size - 1)
  BY <1>1, <1>2
<1>. QED BY <1>1, <1>3 DEF BitsOf, size

-----------------------------------------------------------------------------
(* Every step                                                              *)

LEMMA InitIInv == Init => IInv
<1>. SUFFICES ASSUME Init PROVE IInv
  OBVIOUS
<1>1. values = NoValues /\ given = NoValues /\ todo = {} /\ cls \in Class /\ phase = "declared"
  BY DEF Init
<1>2. DOMAIN values = {} /\ DOMAIN given = {}
  BY <1>1 DEF NoValues
<1>. QED
  BY <1>1, <1>2 DEF IInv, FieldsKeep, ClassChecked, DefaultsFirst, ArgumentsHeld, GivenIsRead

LEMMA CallKeepsIInv ==
    ASSUME IInv, NEW kw \in Argument, Call(kw)
    PROVE  IInv'
<1>1. /\ cls' = cls /\ cls \in Class /\ arr' = {} /\ todo' = DOMAIN kw \cup DOMAIN cls.defaults
      /\ given' = kw /\ phase = "class" /\ phase' = "building"
  BY DEF IInv, Call
<1>2. values' = [n \in DOMAIN kw \cup DOMAIN cls.defaults |->
                   IF n \in DOMAIN kw THEN kw[n] ELSE cls.defaults[n]]
  BY DEF Call
<1>3. DOMAIN values' = todo' /\ DOMAIN given' \ todo' = {}
  BY <1>1, <1>2
<1>4. \A n \in DOMAIN values' : values'[n] \in Bits
  BY <1>1, <1>2, ArgumentAssumption, ClassAssumption
<1>5. \A n \in DOMAIN given' : n \in DOMAIN values' /\ values'[n] = given'[n]
  BY <1>1, <1>2
<1>6. FieldsKeep'
  BY <1>1, <1>3, ReadNothing DEF FieldsKeep
<1>7. ClassChecked'
  BY <1>1 DEF IInv, ClassChecked
<1>8. DefaultsFirst' /\ ArgumentsHeld' /\ GivenIsRead'
  BY <1>1, <1>3 DEF DefaultsFirst, ArgumentsHeld, GivenIsRead
<1>. QED
  BY <1>1, <1>3, <1>4, <1>5, <1>6, <1>7, <1>8 DEF IInv

LEMMA EncodeKeepsIInv ==
    ASSUME IInv, NEW n \in todo, Encode(n)
    PROVE  IInv'
<1>1. /\ phase = "building" /\ n \in DOMAIN cls.fields /\ n \in DOMAIN values
      /\ arr' = Merged(cls, n, values[n], arr) /\ todo' = todo \ {n}
      /\ UNCHANGED <<cls, phase, values, given>> /\ Turn(n)
  BY DEF IInv, Encode
<1>2. /\ cls \in Class /\ todo \subseteq DOMAIN values /\ values[n] \in Bits
      /\ \A m \in DOMAIN given : m \in DOMAIN values /\ values[m] = given[m]
  BY <1>1 DEF IInv
<1>3. Read(cls, n, arr') = Kept(cls, n, values[n])
  BY <1>1, <1>2, ReadMerged
<1>4. \A m : Own(cls, n) \cap Own(cls, m) = {} => Read(cls, m, arr') = Read(cls, m, arr)
  BY <1>1, ReadOther
<1>5. ASSUME NEW m \in DOMAIN cls.fields, Apart(cls, m, DOMAIN values)
      PROVE  Read(cls, m, arr') =
                IF m \in DOMAIN values \ todo' THEN Kept(cls, m, values[m]) ELSE {}
  <2>1. CASE m = n
    BY <1>1, <1>3, <2>1
  <2>2. CASE m # n
    <3>1. Own(cls, n) \cap Own(cls, m) = {}
      BY <1>1, <1>5, <2>2 DEF Apart
    <3>2. Read(cls, m, arr') = Read(cls, m, arr)
      BY <1>4, <3>1
    <3>3. m \in DOMAIN values \ todo' <=> m \in DOMAIN values \ todo
      BY <1>1, <2>2
    <3>4. Read(cls, m, arr) =
            IF m \in DOMAIN values \ todo THEN Kept(cls, m, values[m]) ELSE {}
      BY <1>1, <1>5 DEF IInv, FieldsKeep
    <3>. QED
      BY <3>2, <3>3, <3>4
  <2>. QED
    BY <2>1, <2>2
<1>6. FieldsKeep'
  BY <1>1, <1>5 DEF FieldsKeep
<1>7. n \notin DOMAIN given => DOMAIN given \ todo' = {}
  BY <1>1 DEF IInv, DefaultsFirst
<1>8. DefaultsFirst'
  BY <1>1, <1>7 DEF DefaultsFirst, Turn
<1>9. ASSUME NEW m \in DOMAIN given' \ todo'
      PROVE  /\ m \in DOMAIN cls.fields
             /\ Apart(cls, m, DOMAIN given) => Read(cls, m, arr') = Kept(cls, m, given[m])
  <2>1. m \in DOMAIN given /\ n \in DOMAIN given
    BY <1>1, <1>7
  <2>2. CASE m = n
    BY <1>1, <1>2, <1>3, <2>1, <2>2
  <2>3. CASE m # n
    <3>1. /\ m \in DOMAIN cls.fields
          /\ Apart(cls, m, DOMAIN given) => Read(cls, m, arr) = Kept(cls, m, given[m])
      BY <1>1, <1>9, <2>1, <2>3 DEF IInv, ArgumentsHeld
    <3>2. Apart(cls, m, DOMAIN given) => Own(cls, n) \cap Own(cls, m) = {}
      BY <1>1, <2>1, <2>3 DEF Apart
    <3>. QED
      BY <1>4, <3>1, <3>2
  <2>. QED
    BY <2>2, <2>3
<1>10. ArgumentsHeld'
  BY <1>1, <1>9 DEF ArgumentsHeld
<1>11. ClassChecked' /\ GivenIsRead'
  BY <1>1 DEF IInv, ClassChecked, GivenIsRead
<1>. QED
  BY <1>1, <1>2, <1>6, <1>8, <1>10, <1>11 DEF IInv

LEMMA ParseKeepsIInv ==
    ASSUME IInv, NEW bytes \in Received, Parse(bytes)
    PROVE  IInv'
<1>. DEFINE size == Itemsize(cls)
            buf == (arr \cap BitsOf(bytes)) \cup (BitsOf(bytes) \ BitsOf(size))
<1>1. /\ phase = "building" /\ todo = {} /\ phase' # "building" /\ phase' # "declared"
      /\ phase' # "refused" /\ UNCHANGED <<cls, given, values, todo, arr>>
  BY DEF Parse
<1>2. /\ cls \in Class /\ Accepted(cls)
      /\ \A n \in DOMAIN given : n \in DOMAIN values /\ values[n] = given[n]
  BY <1>1 DEF IInv, ClassChecked
<1>3. phase' = "parsed" =>
        /\ ~(bytes < size)
        /\ got' = [n \in DOMAIN cls.fields |-> Read(cls, n, buf \cap BitsOf(size))]
  BY DEF Parse
<1>4. bytes \in Nat /\ size \in Nat
  BY <1>2, ReceivedAssumption, ItemsizeType
<1>5. phase' = "parsed" => buf \cap BitsOf(size) = arr \cap BitsOf(size)
  <2>. HIDE DEF size
  <2>1. ~(bytes < size) => BitsOf(size) \subseteq BitsOf(bytes)
    BY <1>4 DEF BitsOf
  <2>. QED
    BY <1>3, <2>1
<1>6. \A n \in DOMAIN cls.fields : Read(cls, n, arr \cap BitsOf(size)) = Read(cls, n, arr)
  <2>. TAKE n \in DOMAIN cls.fields
  <2>1. Own(cls, n) \subseteq BitsOf(size)
    BY <1>2, OwnInRecord
  <2>. HIDE DEF size
  <2>2. (arr \cap BitsOf(size)) \cap Own(cls, n) = arr \cap Own(cls, n)
    BY <2>1
  <2>. QED
    BY <2>2 DEF Read
<1>7. ASSUME phase' = "parsed", NEW n \in DOMAIN given, Apart(cls, n, DOMAIN given),
             Kept(cls, n, given[n]) = given[n]
      PROVE  got'[n] = given[n]
  <2>1. n \in DOMAIN cls.fields /\ Read(cls, n, arr) = given[n]
    BY <1>1, <1>7 DEF IInv, ArgumentsHeld
  <2>2. got'[n] = Read(cls, n, arr)
    BY <1>3, <1>5, <1>6, <1>7, <2>1
  <2>. QED
    BY <2>1, <2>2
<1>8. GivenIsRead'
  BY <1>1, <1>7 DEF GivenIsRead
<1>9. FieldsKeep' /\ ClassChecked' /\ DefaultsFirst' /\ ArgumentsHeld'
  BY <1>1 DEF IInv, FieldsKeep, ClassChecked, DefaultsFirst, ArgumentsHeld
<1>. QED
  BY <1>1, <1>8, <1>9 DEF IInv

LEMMA StepKeepsIInv == IInv /\ [Next]_vars => IInv'
<1>. SUFFICES ASSUME IInv, [Next]_vars PROVE IInv'
  OBVIOUS
<1>1. CASE Declare
  <2>1. /\ phase' = IF Accepted(cls) THEN "class" ELSE "refused"
        /\ UNCHANGED <<cls, given, values, todo, arr, got>>
    BY <1>1 DEF Declare
  <2>. QED
    BY <2>1 DEF IInv, FieldsKeep, ClassChecked, DefaultsFirst, ArgumentsHeld, GivenIsRead
<1>2. ASSUME NEW kw \in Argument, Call(kw) PROVE IInv'
  BY <1>2, CallKeepsIInv
<1>3. ASSUME NEW n \in todo, Encode(n) PROVE IInv'
  BY <1>3, EncodeKeepsIInv
<1>4. ASSUME NEW n \in todo, OutOfBounds(n) \/ Unexpected(n) PROVE IInv'
  <2>1. /\ phase = "building" /\ phase' \in {"OverflowError", "TypeError"}
        /\ UNCHANGED <<cls, given, values, todo, arr, got>>
    BY <1>4 DEF OutOfBounds, Unexpected
  <2>. QED
    BY <2>1 DEF IInv, FieldsKeep, ClassChecked, DefaultsFirst, ArgumentsHeld, GivenIsRead
<1>5. ASSUME NEW bytes \in Received, Parse(bytes) PROVE IInv'
  BY <1>5, ParseKeepsIInv
<1>6. CASE UNCHANGED vars
  <2>1. UNCHANGED <<cls, phase, given, values, todo, arr, got>>
    BY <1>6 DEF vars
  <2>. QED
    BY <2>1 DEF IInv, FieldsKeep, ClassChecked, DefaultsFirst, ArgumentsHeld, GivenIsRead
<1>. QED
  BY <1>1, <1>2, <1>3, <1>4, <1>5, <1>6 DEF Next

\* The inductive invariant of a class, its constructor and the parser: classes are
\* used once checked, defaults come before arguments, what is encoded is held
\* (__init_subclass__, PayloadBase.__init__, RegisterBase.parse).
THEOREM InductiveInvariant == Spec => []IInv
  BY InitIInv, StepKeepsIInv, PTL DEF Spec

\* Whatever the widths, masks and converters of its fields and the values given, a
\* field reads its own value once that is encoded, and nothing before: no step of
\* the constructor touches a field apart from the one it encodes.
THEOREM FieldsAreKept == Spec => []FieldsKeep
<1>1. IInv => FieldsKeep
  BY DEF IInv
<1>. QED
  BY <1>1, InductiveInvariant, PTL

\* However many fields a class has, sorting their slots and comparing each with its
\* neighbour accepts the class exactly if every field is in the record and no two
\* that do not share an element overlap (_validate_no_overlap).
THEOREM SoundClassesOnly == Spec => []OnlySoundClasses
<1>1. IInv => OnlySoundClasses
  BY AcceptedIsSound DEF IInv, ClassChecked, OnlySoundClasses
<1>. QED
  BY <1>1, InductiveInvariant, PTL

\* Every argument a field can hold, whose bits no other argument has, is read from a
\* payload that begins with the record, whatever default the constructor encoded
\* under it and whatever follows the record (RegisterBase.format, then parse).
THEOREM ArgumentsAreRead == Spec => []GivenIsRead
<1>1. IInv => GivenIsRead
  BY DEF IInv
<1>. QED
  BY <1>1, InductiveInvariant, PTL

-----------------------------------------------------------------------------
(* Codes: finite numbers, in the order of their values                     *)

Code == {a \in Bits : IsFiniteSet(a)}

\* A finite set of naturals has a greatest element.
LEMMA GreatestElement ==
    ASSUME NEW T \in SUBSET Nat, IsFiniteSet(T), T # {}
    PROVE  \E m \in T : \A k \in T : k <= m
<1>. DEFINE S == {[from |-> k, to |-> k] : k \in T}
            f == [k \in T |-> [from |-> k, to |-> k]]
<1>1. f \in Surjection(T, S)
  BY DEF Surjection
<1>2. IsFiniteSet(S)
  <2>. HIDE DEF f, S
  <2>. QED BY <1>1, FS_Surjection
<1>3. S # {} /\ \A s \in S : Span(s)
  <2>1. \A k \in T : Span([from |-> k, to |-> k])
    BY DEF Span
  <2>. QED BY <2>1
<1>4. PICK s \in S : \A t \in S : NotAfter(t, s)
  <2>. HIDE DEF f, S
  <2>. QED BY <1>2, <1>3, LastSlot
<1>5. PICK m \in T : s = [from |-> m, to |-> m]
  OBVIOUS
<1>6. ASSUME NEW k \in T PROVE k <= m
  <2>1. [from |-> k, to |-> k] \in S
    OBVIOUS
  <2>2. NotAfter([from |-> k, to |-> k], [from |-> m, to |-> m])
    BY <1>4, <1>5, <2>1
  <2>. QED BY <2>2 DEF NotAfter
<1>. QED BY <1>6

LEMMA BelowIsStrict ==
    ASSUME NEW a
    PROVE  ~Below(a, a)
BY DEF Below

\* Of two codes, one is below the other: the one without their highest different bit.
LEMMA BelowIsTotal ==
    ASSUME NEW a \in Code, NEW b \in Code, a # b
    PROVE  Below(a, b) \/ Below(b, a)
<1>. DEFINE D == (a \ b) \cup (b \ a)
<1>1. D \in SUBSET Nat /\ IsFiniteSet(a \cup b) /\ D \in SUBSET (a \cup b) /\ D # {}
  BY FS_Union DEF Code, Bits
<1>2. IsFiniteSet(D)
  BY <1>1, FS_Subset
<1>3. PICK bit \in D : \A other \in D : other <= bit
  <2>. HIDE DEF D
  <2>. QED BY <1>1, <1>2, GreatestElement
<1>4. (b \ a) \cup (a \ b) = D
  OBVIOUS
<1>. QED BY <1>3, <1>4 DEF Below

LEMMA BelowIsTransitive ==
    ASSUME NEW a \in Bits, NEW b \in Bits, NEW c \in Bits, Below(a, b), Below(b, c)
    PROVE  Below(a, c)
<1>1. PICK p \in b \ a : \A other \in (a \ b) \cup (b \ a) : other <= p
  BY DEF Below
<1>2. PICK q \in c \ b : \A other \in (b \ c) \cup (c \ b) : other <= q
  BY DEF Below
<1>3. a \subseteq Nat /\ b \subseteq Nat /\ c \subseteq Nat
  BY DEF Bits
<1>4. p \in Nat /\ q \in Nat /\ p # q
  BY <1>1, <1>2, <1>3
<1>5. (a \ c) \cup (c \ a) \subseteq ((a \ b) \cup (b \ a)) \cup ((b \ c) \cup (c \ b))
  OBVIOUS
<1>6. \A other \in (a \ c) \cup (c \ a) : other \in Nat /\ (other <= p \/ other <= q)
  BY <1>1, <1>2, <1>3, <1>5
<1>7. CASE p < q
  <2>1. q \notin a
    BY <1>1, <1>2, <1>4, <1>7
  <2>2. \A other \in (a \ c) \cup (c \ a) : other <= q
    BY <1>4, <1>6, <1>7
  <2>. QED BY <2>1, <2>2 DEF Below
<1>8. CASE q < p
  <2>1. p \in c
    BY <1>1, <1>2, <1>4, <1>8
  <2>2. \A other \in (a \ c) \cup (c \ a) : other <= p
    BY <1>4, <1>6, <1>8
  <2>. QED BY <2>1, <2>2 DEF Below
<1>. QED BY <1>4, <1>7, <1>8

\* What a mask lets through is not above what it lets through at most.
LEMMA PartNotAbove ==
    ASSUME NEW l \in Bits, NEW part \in Bits, NEW w \in Code, part \subseteq w, Below(l, part)
    PROVE  Below(l, w)
<1>1. CASE part = w
  BY <1>1
<1>2. CASE part # w
  <2>1. w \ part \in SUBSET Nat /\ w \ part # {} /\ IsFiniteSet(w \ part)
    BY <1>2, FS_Subset DEF Code, Bits
  <2>2. PICK m \in w \ part : \A k \in w \ part : k <= m
    BY <2>1, GreatestElement
  <2>3. Below(part, w)
    BY <2>2 DEF Below
  <2>. QED BY <2>3, BelowIsTransitive DEF Code
<1>. QED BY <1>1, <1>2

\* Of finitely many codes, one is the largest.
LEMMA LargestCode ==
    ASSUME NEW S \in SUBSET Code, IsFiniteSet(S), S # {}
    PROVE  \E m \in S : \A other \in S : ~Below(m, other)
<1>. DEFINE Fine(T) == \E m \in T : \A other \in T : ~Below(m, other)
            Bad == {T \in SUBSET S : T # {} /\ ~Fine(T)}
<1>1. SUFFICES ASSUME Bad # {} PROVE FALSE
  OBVIOUS
<1>2. PICK T \in Bad : \A U \in Bad : ~(<<U, T>> \in StrictSubsetOrdering(S))
  <2>1. IsWellFoundedOn(StrictSubsetOrdering(S), SUBSET S)
    BY FS_StrictSubsetOrderingWellFounded, FS_FiniteSubsetsOfFinite
  <2>2. Bad \subseteq SUBSET S
    OBVIOUS
  <2>. HIDE DEF Bad
  <2>. QED BY <1>1, <2>1, <2>2, WFMin
<1>3. T \in SUBSET S /\ T # {} /\ ~Fine(T)
  OBVIOUS
<1>4. PICK x \in T : TRUE
  BY <1>3
<1>. DEFINE U == T \ {x}
<1>5. U \notin Bad
  <2>1. U \in SUBSET S /\ U \subseteq T /\ U # T
    BY <1>3
  <2>2. <<U, T>> \in StrictSubsetOrdering(S)
    BY <1>3, <2>1 DEF StrictSubsetOrdering
  <2>. QED BY <1>2, <2>2
<1>6. CASE U = {}
  <2>1. \A t \in T : t = x
    BY <1>6
  <2>. QED BY <1>3, <2>1, BelowIsStrict
<1>7. CASE U # {}
  <2>1. PICK y \in U : \A t \in U : ~Below(y, t)
    BY <1>3, <1>5, <1>7
  <2>2. CASE Below(y, x)
    <3>1. ASSUME NEW t \in T, Below(x, t) PROVE FALSE
      <4>1. t # x
        BY <3>1, BelowIsStrict
      <4>2. x \in Bits /\ y \in Bits /\ t \in Bits
        BY <1>3 DEF Code
      <4>3. Below(y, t)
        BY <2>2, <3>1, <4>2, BelowIsTransitive
      <4>. QED BY <2>1, <4>1, <4>3
    <3>. QED BY <1>3, <3>1
  <2>3. CASE ~Below(y, x)
    <3>1. \A t \in T : ~Below(y, t)
      BY <2>1, <2>3
    <3>. QED BY <1>3, <3>1
  <2>. QED BY <2>2, <2>3
<1>. QED BY <1>6, <1>7

\* Finitely many codes can be listed, the smallest first.
Ascends(codes, S) == \A i, j \in 1..Cardinality(S) : i < j => Below(codes[i], codes[j])

LEMMA AscendingExists ==
    ASSUME NEW S \in SUBSET Code, IsFiniteSet(S)
    PROVE  \E codes \in [1..Cardinality(S) -> S] : Ascends(codes, S)
<1>. DEFINE Fine(T) == \E codes \in [1..Cardinality(T) -> T] : Ascends(codes, T)
            Bad == {T \in SUBSET S : ~Fine(T)}
<1>1. SUFFICES ASSUME Bad # {} PROVE FALSE
  OBVIOUS
<1>2. PICK T \in Bad : \A U \in Bad : ~(<<U, T>> \in StrictSubsetOrdering(S))
  <2>1. IsWellFoundedOn(StrictSubsetOrdering(S), SUBSET S)
    BY FS_StrictSubsetOrderingWellFounded, FS_FiniteSubsetsOfFinite
  <2>2. Bad \subseteq SUBSET S
    OBVIOUS
  <2>. HIDE DEF Bad
  <2>. QED BY <1>1, <2>1, <2>2, WFMin
<1>3. T \in SUBSET S /\ ~Fine(T) /\ IsFiniteSet(T) /\ T \in SUBSET Code
  <2>1. T \in SUBSET S
    OBVIOUS
  <2>. QED BY <2>1, FS_Subset
<1>4. CASE T = {}
  <2>. DEFINE e == [i \in {} |-> {}]
  <2>1. Cardinality(T) = 0 /\ 1..0 = {}
    BY <1>4, FS_EmptySet
  <2>2. e \in [1..Cardinality(T) -> T]
    BY <1>4, <2>1
  <2>3. Ascends(e, T)
    BY <2>1 DEF Ascends
  <2>. QED BY <1>3, <2>2, <2>3
<1>5. CASE T # {}
  <2>1. PICK x \in T : \A t \in T : ~Below(x, t)
    BY <1>3, <1>5, LargestCode
  <2>. DEFINE U == T \ {x}
              n == Cardinality(U)
  <2>2. IsFiniteSet(U) /\ Cardinality(T) \in Nat /\ n = Cardinality(T) - 1 /\ n \in Nat
    BY <1>3, FS_RemoveElement, FS_CardinalityType
  <2>3. U \notin Bad
    <3>1. U \in SUBSET S /\ U \subseteq T /\ U # T
      BY <1>3
    <3>2. <<U, T>> \in StrictSubsetOrdering(S)
      BY <1>3, <3>1 DEF StrictSubsetOrdering
    <3>. QED BY <1>2, <3>2
  <2>4. PICK e \in [1..n -> U] : Ascends(e, U)
    BY <1>3, <2>3
  <2>5. \A i, j \in 1..n : i < j => Below(e[i], e[j])
    BY <2>4 DEF Ascends
  <2>6. \A u \in U : Below(u, x)
    <3>1. \A u \in U : u \in Code /\ x \in Code /\ u # x
      BY <1>3
    <3>. QED BY <2>1, <3>1, BelowIsTotal
  <2>. HIDE DEF n
  <2>. DEFINE f == [i \in 1..(n + 1) |-> IF i <= n THEN e[i] ELSE x]
  <2>7. f \in [1..(n + 1) -> T] /\ Cardinality(T) = n + 1
    BY <2>2, <2>4
  <2>8. ASSUME NEW i \in 1..(n + 1), NEW j \in 1..(n + 1), i < j
        PROVE  Below(f[i], f[j])
    <3>1. i \in 1..n /\ f[i] = e[i] /\ e[i] \in U
      BY <2>2, <2>4, <2>8
    <3>2. CASE j = n + 1
      <4>1. f[j] = x
        BY <2>2, <3>2
      <4>. QED BY <2>6, <3>1, <4>1
    <3>3. CASE j # n + 1
      <4>1. j \in 1..n /\ f[j] = e[j]
        BY <2>2, <3>3
      <4>. QED BY <2>5, <2>8, <3>1, <4>1
    <3>. QED BY <3>2, <3>3
  <2>9. Ascends(f, T)
    <3>. HIDE DEF f
    <3>. QED BY <2>7, <2>8 DEF Ascends
  <2>. QED BY <1>3, <2>7, <2>9
<1>. QED BY <1>4, <1>5

\* Each of the codes is at one place of their list.
LEMMA AscendingLists ==
    ASSUME NEW S \in SUBSET Code, IsFiniteSet(S)
    PROVE  /\ Ascending(S) \in [1..Cardinality(S) -> S] /\ Cardinality(S) \in Nat
           /\ IsInjective(Ascending(S))
           /\ \A a \in S : \E i \in 1..Cardinality(S) : Ascending(S)[i] = a
<1>. DEFINE Sorted0(codes) == \A i, j \in DOMAIN codes : i < j => Below(codes[i], codes[j])
            n == Cardinality(S)
            A == Ascending(S)
<1>1. n \in Nat
  BY FS_CardinalityType
<1>2. \E codes \in [1..n -> S] : Sorted0(codes)
  <2>1. PICK codes \in [1..n -> S] : Ascends(codes, S)
    BY AscendingExists
  <2>2. DOMAIN codes = 1..n
    OBVIOUS
  <2>. QED BY <2>1, <2>2 DEF Ascends
<1>3. A \in [1..n -> S] /\ Sorted0(A)
  BY <1>2 DEF Ascending
<1>. HIDE DEF n, A
<1>4. DOMAIN A = 1..n
  BY <1>3
<1>5. \A i, j \in 1..n : i < j => A[i] # A[j]
  BY <1>3, <1>4, BelowIsStrict
<1>6. \A i, j \in 1..n : A[i] = A[j] => i = j
  BY <1>1, <1>5
<1>7. IsInjective(A)
  BY <1>4, <1>6 DEF IsInjective
<1>8. A \in Injection(1..n, S)
  BY <1>3, <1>7 DEF Injection
<1>9. IsFiniteSet(1..n) /\ Cardinality(1..n) = n
  BY <1>1, FS_Interval
<1>10. A \in Surjection(1..n, S)
  BY <1>8, <1>9, FS_Injection DEF n
<1>11. \A a \in S : \E i \in 1..n : A[i] = a
  BY <1>10 DEF Surjection
<1>. QED BY <1>1, <1>3, <1>7, <1>11 DEF n, A

-----------------------------------------------------------------------------
(* Columns                                                                 *)

\* A mask begins at its lowest bit, and has as many as an element at most.
LEMMA MaskOfEnum ==
    ASSUME NEW c \in Class, Accepted(c), NEW n \in DOMAIN c.fields, c.fields[n].kind # "whole"
    PROVE  /\ MaskOf(c, n) \in Code /\ ByteOffset(c, n) \in Nat /\ Shift(c, n) \in Nat
           /\ \A b \in MaskOf(c, n) : b - Shift(c, n) \in Nat
           /\ Widest(c, n) \in Code
<1>1. c.elem \in Nat \ {0} /\ c.fields[n] \in Field
  BY ClassAssumption
<1>2. MaskOf(c, n) \subseteq 0..(8 * c.elem - 1)
  BY DEF Accepted, MasksFit, BitsOf
<1>3. MaskOf(c, n) \in Code
  <2>1. 8 * c.elem - 1 \in Int
    BY <1>1
  <2>2. IsFiniteSet(0..(8 * c.elem - 1))
    BY <2>1, FS_Interval
  <2>3. MaskOf(c, n) \subseteq Nat
    BY <1>2
  <2>4. IsFiniteSet(MaskOf(c, n))
    BY <1>2, <2>2, FS_Subset
  <2>. QED BY <2>3, <2>4 DEF Code, Bits
<1>4. ByteOffset(c, n) \in Nat
  BY <1>1 DEF ByteOffset, Field
<1>5. Shift(c, n) \in Nat /\ \A b \in MaskOf(c, n) : b - Shift(c, n) \in Nat
  <2>1. MaskOf(c, n) \in SUBSET Nat
    BY <1>3 DEF Code, Bits
  <2>2. CASE MaskOf(c, n) = {} \/ c.fields[n].kind # "masked"
    <3>1. Shift(c, n) = 0
      BY <2>2 DEF Shift, MaskTrailingZeros
    <3>. QED BY <2>1, <3>1
  <2>3. CASE MaskOf(c, n) # {} /\ c.fields[n].kind = "masked"
    <3>1. \E b \in MaskOf(c, n) : \A other \in MaskOf(c, n) : b <= other
      BY <2>1, <2>3, LeastElement
    <3>2. Shift(c, n) \in MaskOf(c, n) /\ \A b \in MaskOf(c, n) : Shift(c, n) <= b
      BY <2>3, <3>1 DEF Shift, MaskTrailingZeros
    <3>. QED BY <2>1, <3>2
  <2>. QED BY <2>2, <2>3
<1>6. Widest(c, n) \in Code
  <2>. DEFINE M == MaskOf(c, n)
              W == Widest(c, n)
              f == [b \in M |-> b - Shift(c, n)]
  <2>1. f \in Surjection(M, W)
    BY DEF Surjection, Widest
  <2>2. IsFiniteSet(M)
    BY <1>3 DEF Code
  <2>3. IsFiniteSet(W)
    <3>. HIDE DEF f, M, W
    <3>. QED BY <2>1, <2>2, FS_Surjection
  <2>4. W \subseteq Nat
    BY <1>5 DEF Widest
  <2>. QED BY <2>3, <2>4 DEF Code, Bits
<1>. QED BY <1>3, <1>4, <1>5, <1>6

\* What is read of an enum or of flags are bits its mask lets through.
LEMMA ReadOfEnum ==
    ASSUME NEW c \in Class, Accepted(c), NEW n \in DOMAIN c.fields, NEW record \in Bits,
           c.fields[n].kind # "whole", c.fields[n].converter = "code"
    PROVE  /\ Read(c, n, record) \in Code
           /\ Read(c, n, record) \subseteq Widest(c, n)
<1>1. Read(c, n, record) = {b - Origin(c, n) : b \in record \cap Own(c, n)}
  BY DEF Read, Cut
<1>2. ASSUME NEW x \in Read(c, n, record) PROVE x \in Widest(c, n)
  <2>1. PICK b \in Own(c, n) : x = b - Origin(c, n)
    BY <1>1
  <2>2. PICK k \in MaskOf(c, n) : b = 8 * ByteOffset(c, n) + k
    BY <2>1 DEF Own
  <2>3. k \in Nat /\ ByteOffset(c, n) \in Nat /\ Shift(c, n) \in Nat
    BY MaskOfEnum DEF Code, Bits
  <2>4. x = k - Shift(c, n)
    BY <2>1, <2>2, <2>3 DEF Origin
  <2>. QED BY <2>4 DEF Widest
<1>3. Widest(c, n) \in Code
  BY MaskOfEnum
<1>. QED BY <1>2, <1>3, FS_Subset DEF Code, Bits

LEMMA MembersAreCodes ==
    ASSUME NEW n \in DOMAIN Members
    PROVE  /\ MemberCodes(n) \in SUBSET Code /\ IsFiniteSet(MemberCodes(n))
           /\ MemberCodes(n) # {}
           /\ Len(Members[n]) \in Nat /\ DOMAIN Members[n] = 1..Len(Members[n])
<1>. DEFINE s == Members[n]
            M == MemberCodes(n)
<1>1. s \in Seq(Bits) /\ s # <<>> /\ \A i \in DOMAIN s : IsFiniteSet(s[i])
  BY MembersAssumption
<1>2. Len(s) \in Nat /\ DOMAIN s = 1..Len(s) /\ Len(s) # 0 /\ \A i \in 1..Len(s) : s[i] \in Bits
  <2>. HIDE DEF s
  <2>. QED BY <1>1
<1>3. M = {s[i] : i \in 1..Len(s)}
  BY <1>2 DEF MemberCodes
<1>4. s \in Surjection(1..Len(s), M)
  <2>1. s = [i \in 1..Len(s) |-> s[i]]
    <3>. HIDE DEF s
    <3>. QED BY <1>1
  <2>2. s \in [1..Len(s) -> M]
    <3>. HIDE DEF s, M
    <3>. QED BY <1>3, <2>1
  <2>. HIDE DEF s, M
  <2>. QED BY <1>3, <2>2 DEF Surjection
<1>5. IsFiniteSet(M)
  <2>1. IsFiniteSet(1..Len(s))
    BY <1>2, FS_Interval
  <2>. HIDE DEF s, M
  <2>. QED BY <1>4, <2>1, FS_Surjection
<1>6. M \subseteq Code
  BY <1>1, <1>2, <1>3 DEF Code
<1>7. M # {}
  BY <1>2, <1>3
<1>. QED BY <1>2, <1>5, <1>6, <1>7

\* A member is found at its place, anything else nowhere.
LEMMA CodeOfFinds ==
    ASSUME NEW n \in DOMAIN Members, NEW code
    PROVE  /\ code \in MemberCodes(n) =>
                /\ CodeOf(n, code) \in 1..Len(Members[n]) /\ CodeOf(n, code) # Unnamed
                /\ Members[n][CodeOf(n, code)] = code
           /\ code \notin MemberCodes(n) => CodeOf(n, code) = Unnamed
<1>1. DOMAIN Members[n] = 1..Len(Members[n]) /\ Len(Members[n]) \in Nat
  BY MembersAreCodes
<1>2. ASSUME code \in MemberCodes(n)
      PROVE  /\ CodeOf(n, code) \in 1..Len(Members[n]) /\ CodeOf(n, code) # Unnamed
             /\ Members[n][CodeOf(n, code)] = code
  <2>1. \E i \in DOMAIN Members[n] : Members[n][i] = code
    BY <1>2 DEF MemberCodes
  <2>2. CodeOf(n, code) = CHOOSE i \in DOMAIN Members[n] : Members[n][i] = code
    BY <1>2 DEF CodeOf
  <2>3. CodeOf(n, code) \in DOMAIN Members[n] /\ Members[n][CodeOf(n, code)] = code
    BY <2>1, <2>2
  <2>. QED BY <1>1, <2>3 DEF Unnamed
<1>. QED BY <1>2 DEF CodeOf

\* With or without the guard, the table is looked up where it has entries only.
LEMMA LookupInTable ==
    ASSUME NEW c, NEW n \in DOMAIN Members, Widest(c, n) \in Code,
           NEW code \in Bits, code \subseteq Widest(c, n)
    PROVE  Lookup(c, n, code) = CodeOf(n, code)
<1>1. MemberCodes(n) \in SUBSET Code /\ IsFiniteSet(MemberCodes(n)) /\ MemberCodes(n) # {}
  BY MembersAreCodes
<1>2. \E m \in MemberCodes(n) : \A other \in MemberCodes(n) : ~Below(m, other)
  BY <1>1, LargestCode
<1>3. /\ Largest(n) \in MemberCodes(n)
      /\ \A other \in MemberCodes(n) : ~Below(Largest(n), other)
  BY <1>2 DEF Largest
<1>4. CASE ~Below(Largest(n), code)
  BY <1>4 DEF Lookup
<1>5. CASE Below(Largest(n), code)
  <2>1. CodeOf(n, code) = Unnamed
    BY <1>3, <1>5, CodeOfFinds
  <2>2. Largest(n) \in Bits
    BY <1>1, <1>3 DEF Code
  <2>3. Below(Largest(n), Widest(c, n))
    BY <1>5, <2>2, PartNotAbove
  <2>. QED BY <1>5, <2>1, <2>3 DEF Lookup
<1>. QED BY <1>4, <1>5

\* The categories are all different: first the members, then the other codes.
Categories(n, extras) ==
    [i \in DOMAIN Members[n] |-> Member(Members[n][i])] \o [i \in DOMAIN extras |-> Raw(extras[i])]

LEMMA CategoriesListed ==
    ASSUME NEW n \in DOMAIN Members, NEW U \in SUBSET Code, IsFiniteSet(U),
           NEW extras \in [1..Cardinality(U) -> U], IsInjective(extras)
    PROVE  /\ IsInjective(Categories(n, extras))
           /\ \A i \in 1..Len(Members[n]) :
                 /\ i \in DOMAIN Categories(n, extras)
                 /\ Categories(n, extras)[i] = Member(Members[n][i])
           /\ \A i \in 1..Cardinality(U) :
                 /\ Len(Members[n]) + i \in DOMAIN Categories(n, extras)
                 /\ Categories(n, extras)[Len(Members[n]) + i] = Raw(extras[i])
<1>. DEFINE s == Members[n]
            l == Len(Members[n])
            k == Cardinality(U)
            categories == Categories(n, extras)
            A == [i \in 1..l |-> Member(s[i])]
            B == [i \in 1..k |-> Raw(extras[i])]
            S == {A[i] : i \in 1..l} \cup {B[i] : i \in 1..k}
<1>1. l \in Nat /\ DOMAIN s = 1..l /\ k \in Nat
  BY MembersAreCodes, FS_CardinalityType
<1>2. IsInjective(s)
  BY MembersAssumption
<1>3. DOMAIN extras = 1..k
  OBVIOUS
<1>4. categories = A \o B
  BY <1>1, <1>3 DEF Categories
<1>5. A \in [1..l -> S] /\ B \in [1..k -> S]
  OBVIOUS
<1>6. /\ \A i \in 1..l : A[i] = Member(s[i])
      /\ \A i \in 1..k : B[i] = Raw(extras[i])
  OBVIOUS
<1>. HIDE DEF s, l, k, A, B, S, categories
<1>7. A \in Seq(S) /\ B \in Seq(S) /\ Len(A) = l /\ Len(B) = k
  <2>1. A \in Seq(S) /\ B \in Seq(S)
    BY <1>1, <1>5
  <2>2. DOMAIN A = 1..l /\ DOMAIN B = 1..k
    BY <1>5
  <2>. QED BY <1>1, <2>1, <2>2
<1>8. /\ categories \in Seq(S) /\ Len(categories) = Len(A) + Len(B)
      /\ \A i \in 1..Len(A) + Len(B) :
            categories[i] = IF i <= Len(A) THEN A[i] ELSE B[i - Len(A)]
  <2>1. PICK a, b : a = A /\ b = B
    OBVIOUS
  <2>2. a \in Seq(S) /\ b \in Seq(S) /\ categories = a \o b
    BY <1>4, <1>7, <2>1
  <2>3. /\ a \o b \in Seq(S) /\ Len(a \o b) = Len(a) + Len(b)
        /\ \A i \in 1..Len(a) + Len(b) : (a \o b)[i] = IF i <= Len(a) THEN a[i] ELSE b[i - Len(a)]
    BY <2>2, ConcatProperties, Zenon
  <2>. QED BY <2>1, <2>2, <2>3, Zenon
<1>9. DOMAIN categories = 1..(l + k)
  <2>1. Len(categories) = l + k
    BY <1>7, <1>8
  <2>2. DOMAIN categories = 1..Len(categories)
    BY <1>8
  <2>. QED BY <2>1, <2>2
<1>10. /\ \A i \in 1..l : i \in 1..(l + k) /\ categories[i] = Member(s[i])
       /\ \A i \in 1..k : l + i \in 1..(l + k) /\ categories[l + i] = Raw(extras[i])
  <2>1. ASSUME NEW i \in 1..l PROVE i \in 1..(l + k) /\ categories[i] = Member(s[i])
    <3>1. i \in 1..(l + k) /\ i <= l
      BY <1>1
    <3>. QED BY <1>6, <1>7, <1>8, <3>1
  <2>2. ASSUME NEW i \in 1..k PROVE l + i \in 1..(l + k) /\ categories[l + i] = Raw(extras[i])
    <3>1. l + i \in 1..(l + k) /\ ~(l + i <= l) /\ (l + i) - l = i
      BY <1>1
    <3>2. categories[l + i] = B[(l + i) - l]
      BY <1>7, <1>8, <3>1
    <3>. QED BY <1>6, <3>1, <3>2
  <2>. QED BY <2>1, <2>2
<1>11. ASSUME NEW i \in 1..(l + k), NEW j \in 1..(l + k), categories[i] = categories[j]
       PROVE  i = j
  <2>1. \A x, y : Member(x) # Raw(y)
    BY DEF Member, Raw
  <2>2. \A x, y : (Member(x) = Member(y) => x = y) /\ (Raw(x) = Raw(y) => x = y)
    <3>1. \A x : Member(x).code = x /\ Raw(x).code = x
      BY DEF Member, Raw
    <3>. QED BY <3>1
  <2>3. \A p \in 1..(l + k) : p \in 1..l \/ \E q \in 1..k : p = l + q
    <3>1. ASSUME NEW p \in 1..(l + k), p \notin 1..l PROVE \E q \in 1..k : p = l + q
      <4>1. p - l \in 1..k /\ p = l + (p - l)
        BY <1>1, <3>1
      <4>. QED BY <4>1
    <3>. QED BY <3>1
  <2>4. CASE i \in 1..l
    <3>1. categories[i] = Member(s[i])
      BY <1>10, <2>4
    <3>2. j \in 1..l
      <4>1. ASSUME NEW q \in 1..k, j = l + q PROVE FALSE
        <5>1. categories[j] = Raw(extras[q])
          BY <1>10, <4>1
        <5>. QED BY <1>11, <2>1, <3>1, <5>1, Zenon
      <4>. QED BY <2>3, <4>1
    <3>3. categories[j] = Member(s[j])
      BY <1>10, <3>2
    <3>4. s[i] = s[j]
      BY <1>11, <2>2, <3>1, <3>3, Zenon
    <3>. QED BY <1>1, <1>2, <2>4, <3>2, <3>4 DEF IsInjective
  <2>5. CASE i \notin 1..l
    <3>1. PICK p \in 1..k : i = l + p
      BY <2>3, <2>5
    <3>6. categories[i] = Raw(extras[p])
      BY <1>10, <3>1
    <3>2. j \notin 1..l
      <4>1. ASSUME j \in 1..l PROVE FALSE
        <5>1. categories[j] = Member(s[j])
          BY <1>10, <4>1
        <5>. QED BY <1>11, <2>1, <3>6, <5>1, Zenon
      <4>. QED BY <4>1
    <3>3. PICK q \in 1..k : j = l + q
      BY <2>3, <3>2
    <3>7. categories[j] = Raw(extras[q])
      BY <1>10, <3>3
    <3>4. extras[p] = extras[q]
      BY <1>11, <2>2, <3>6, <3>7, Zenon
    <3>5. p = q
      BY <1>3, <3>4 DEF IsInjective
    <3>. QED BY <3>1, <3>3, <3>5
  <2>. QED BY <2>4, <2>5
<1>12. IsInjective(categories)
  BY <1>9, <1>11 DEF IsInjective
<1>. QED BY <1>9, <1>10, <1>12 DEF s, l, k, categories

\* Every code of a column is the place of what the record itself reads as.
LEMMA EnumColumnAgrees ==
    ASSUME NEW c \in Class, Accepted(c), NEW n \in DOMAIN c.fields, IsEnum(c, n),
           NEW records \in Batches
    PROVE  /\ IsInjective(EnumColumn(c, n, records).categories)
           /\ \A i \in DOMAIN records :
                 LET column == EnumColumn(c, n, records) IN
                 /\ column.codes[i] \in DOMAIN column.categories
                 /\ column.categories[column.codes[i]] = Named(n, Read(c, n, records[i]))
<1>. DEFINE raw == Batch(c, n, records)
            D == DOMAIN records
            None0 == {i \in D : Lookup(c, n, raw[i]) = Unnamed}
            U == {raw[i] : i \in None0}
            extras == Ascending(U)
            place(code) == CHOOSE i \in DOMAIN extras : extras[i] = code
            codes == [i \in D |-> IF raw[i] \in U THEN Len(Members[n]) + place(raw[i])
                                  ELSE Lookup(c, n, raw[i])]
            categories == Categories(n, extras)
<1>1. n \in DOMAIN Members /\ c.fields[n].kind # "whole" /\ c.fields[n].converter = "code"
  BY MembersAssumption DEF IsEnum
<1>2. /\ Len(records) \in Nat /\ D = 1..Len(records) /\ \A i \in D : records[i] \in Bits
  <2>1. records \in Seq(Bits)
    BY BatchesAssumption
  <2>. QED BY <2>1
<1>3. DOMAIN raw = D /\ \A i \in D : raw[i] = Read(c, n, records[i])
  BY DEF Batch
<1>4. EnumColumn(c, n, records) = [codes |-> codes, categories |-> categories]
  BY <1>3 DEF EnumColumn, Categories
<1>. HIDE DEF raw
<1>5. \A i \in D : raw[i] \in Code /\ raw[i] \subseteq Widest(c, n)
  BY <1>1, <1>2, <1>3, ReadOfEnum
<1>6. \A i \in D : Lookup(c, n, raw[i]) = CodeOf(n, raw[i])
  <2>1. Widest(c, n) \in Code
    BY <1>1, MaskOfEnum
  <2>. QED BY <1>1, <1>5, <2>1, LookupInTable DEF Code
<1>7. \A i \in D : raw[i] \in U <=> raw[i] \notin MemberCodes(n)
  <2>1. \A i \in D : i \in None0 <=> raw[i] \notin MemberCodes(n)
    BY <1>1, <1>6, CodeOfFinds
  <2>2. \A i \in None0 : raw[i] \notin MemberCodes(n)
    BY <2>1
  <2>3. \A i \in D : i \in None0 => raw[i] \in U
    OBVIOUS
  <2>4. \A a \in U : a \notin MemberCodes(n)
    <3>. HIDE DEF None0
    <3>. QED BY <2>2
  <2>. HIDE DEF None0, U
  <2>. QED BY <2>1, <2>3, <2>4
<1>8. U \in SUBSET Code /\ IsFiniteSet(U)
  <2>. DEFINE f == [i \in None0 |-> raw[i]]
  <2>1. U \subseteq Code
    BY <1>5
  <2>2. f \in Surjection(None0, U)
    BY DEF Surjection
  <2>3. IsFiniteSet(None0)
    <3>1. IsFiniteSet(1..Len(records))
      BY <1>2, FS_Interval
    <3>. QED BY <1>2, <3>1, FS_Subset
  <2>4. IsFiniteSet(U)
    <3>. HIDE DEF f, None0, U
    <3>. QED BY <2>2, <2>3, FS_Surjection
  <2>. QED BY <2>1, <2>4
<1>. HIDE DEF U
<1>9. /\ extras \in [1..Cardinality(U) -> U] /\ Cardinality(U) \in Nat /\ IsInjective(extras)
      /\ \A a \in U : \E i \in 1..Cardinality(U) : extras[i] = a
  BY <1>8, AscendingLists
<1>10. \A a \in U : place(a) \in 1..Cardinality(U) /\ extras[place(a)] = a
  <2>. HIDE DEF extras
  <2>1. DOMAIN extras = 1..Cardinality(U)
    BY <1>9
  <2>. QED BY <1>9, <2>1
<1>. HIDE DEF extras, place
<1>11. /\ IsInjective(categories)
       /\ \A i \in 1..Len(Members[n]) :
             i \in DOMAIN categories /\ categories[i] = Member(Members[n][i])
       /\ \A i \in 1..Cardinality(U) :
             /\ Len(Members[n]) + i \in DOMAIN categories
             /\ categories[Len(Members[n]) + i] = Raw(extras[i])
  BY <1>1, <1>8, <1>9, CategoriesListed
<1>. HIDE DEF categories
<1>12. ASSUME NEW i \in D
       PROVE  /\ codes[i] \in DOMAIN categories
              /\ categories[codes[i]] = Named(n, Read(c, n, records[i]))
  <2>1. raw[i] = Read(c, n, records[i])
    BY <1>3
  <2>2. CASE raw[i] \in MemberCodes(n)
    <3>1. codes[i] = CodeOf(n, raw[i])
      BY <1>6, <1>7, <2>2
    <3>2. /\ CodeOf(n, raw[i]) \in 1..Len(Members[n])
          /\ Members[n][CodeOf(n, raw[i])] = raw[i]
      BY <1>1, <2>2, CodeOfFinds
    <3>3. Named(n, raw[i]) = Member(raw[i])
      BY <2>2 DEF Named
    <3>. HIDE DEF codes
    <3>. QED BY <1>11, <2>1, <3>1, <3>2, <3>3
  <2>3. CASE raw[i] \notin MemberCodes(n)
    <3>1. raw[i] \in U /\ codes[i] = Len(Members[n]) + place(raw[i])
      BY <1>7, <2>3
    <3>2. Named(n, raw[i]) = Raw(raw[i])
      BY <2>3 DEF Named
    <3>3. place(raw[i]) \in 1..Cardinality(U) /\ extras[place(raw[i])] = raw[i]
      BY <1>10, <3>1
    <3>. HIDE DEF codes
    <3>. QED BY <1>11, <2>1, <3>1, <3>2, <3>3
  <2>. QED BY <2>2, <2>3
<1>. HIDE DEF codes
<1>13. /\ EnumColumn(c, n, records).codes = codes
       /\ EnumColumn(c, n, records).categories = categories
  BY <1>4
<1>. QED BY <1>11, <1>12, <1>13

\* The flags set in a record are those of its columns that are true there.
LEMMA FlagColumnsAgree ==
    ASSUME NEW c \in Class, Accepted(c), NEW n \in DOMAIN c.fields, IsFlags(c, n),
           NEW records \in Batches, NEW i \in DOMAIN records
    PROVE  LET columns == FlagColumns(c, n, records) IN
           UNION {m \in DOMAIN columns : columns[m][i]}
               = Read(c, n, records[i]) \cap UNION FlagMembers(n)
<1>. DEFINE columns == FlagColumns(c, n, records)
            value == Read(c, n, records[i])
<1>1. n \in DOMAIN Members /\ c.fields[n].kind # "whole" /\ c.fields[n].converter = "code"
  BY MembersAssumption DEF IsFlags
<1>2. records[i] \in Bits
  <2>1. records \in Seq(Bits)
    BY BatchesAssumption
  <2>. QED BY <2>1
<1>3. value \subseteq MaskOf(c, n)
  <2>1. Shift(c, n) = 0
    BY DEF Shift, IsFlags
  <2>2. MaskOf(c, n) \subseteq Nat
    BY <1>1, MaskOfEnum DEF Code, Bits
  <2>3. Widest(c, n) \subseteq MaskOf(c, n)
    BY <2>1, <2>2 DEF Widest
  <2>. QED BY <1>1, <1>2, <2>3, ReadOfEnum
<1>4. \A m \in FlagMembers(n) : \E bit : m = {bit}
  <2>1. \A m \in FlagMembers(n) : IsFiniteSet(m) /\ Cardinality(m) = 1
    BY <1>1, MembersAreCodes DEF FlagMembers, Code
  <2>. QED BY <2>1, FS_Singleton
<1>5. /\ DOMAIN columns = {m \in FlagMembers(n) : m \subseteq MaskOf(c, n)}
      /\ \A m \in DOMAIN columns : columns[m][i] = (value \cap m # {})
  BY DEF FlagColumns, Batch
<1>. HIDE DEF columns, value
<1>6. ASSUME NEW bit \in UNION {m \in DOMAIN columns : columns[m][i]}
      PROVE  bit \in value \cap UNION FlagMembers(n)
  <2>1. PICK m \in DOMAIN columns : columns[m][i] /\ bit \in m
    OBVIOUS
  <2>2. m \in FlagMembers(n) /\ value \cap m # {}
    BY <1>5, <2>1
  <2>3. m = {bit}
    BY <1>4, <2>1, <2>2
  <2>. QED BY <2>2, <2>3
<1>7. ASSUME NEW bit \in value \cap UNION FlagMembers(n)
      PROVE  bit \in UNION {m \in DOMAIN columns : columns[m][i]}
  <2>1. PICK m \in FlagMembers(n) : bit \in m
    OBVIOUS
  <2>2. m = {bit}
    BY <1>4, <2>1
  <2>3. m \in DOMAIN columns
    BY <1>3, <1>5, <2>2
  <2>4. columns[m][i] = (value \cap m # {})
    BY <1>5, <2>3
  <2>5. value \cap m # {}
    BY <2>2
  <2>6. columns[m][i]
    BY <2>4, <2>5, Zenon
  <2>. QED BY <2>1, <2>3, <2>6
<1>8. UNION {m \in DOMAIN columns : columns[m][i]} = value \cap UNION FlagMembers(n)
  BY <1>6, <1>7
<1>. QED BY <1>8 DEF columns, value

\* Whatever the enums and the masks of a class, and whatever records come together,
\* the columns of a batch say of each record what its own fields say: the look-up table
\* is never read behind its end, also where the code drops the guard, no two categories
\* are one, and the columns of flags add up (payload_as_columns).
THEOREM ColumnsAgree == Spec => []ColumnsMatchScalars
<1>1. ASSUME IInv, phase = "class", NEW n \in DOMAIN cls.fields, NEW records \in Batches
      PROVE  /\ IsEnum(cls, n) =>
                   LET column == EnumColumn(cls, n, records) IN
                   /\ IsInjective(column.categories)
                   /\ \A i \in DOMAIN records :
                         /\ column.codes[i] \in DOMAIN column.categories
                         /\ column.categories[column.codes[i]]
                               = Named(n, Read(cls, n, records[i]))
             /\ IsFlags(cls, n) =>
                   LET columns == FlagColumns(cls, n, records) IN
                   \A i \in DOMAIN records :
                       UNION {m \in DOMAIN columns : columns[m][i]}
                           = Read(cls, n, records[i]) \cap UNION FlagMembers(n)
  <2>1. cls \in Class /\ Accepted(cls)
    BY <1>1 DEF IInv, ClassChecked
  <2>. QED BY <2>1, EnumColumnAgrees, FlagColumnsAgree
<1>2. IInv => ColumnsMatchScalars
  BY <1>1 DEF ColumnsMatchScalars
<1>. QED
  BY <1>2, InductiveInvariant, PTL
=============================================================================
