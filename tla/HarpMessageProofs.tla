-------------------------- MODULE HarpMessageProofs --------------------------
(***************************************************************************)
(* Lemmas about the operators of HarpMessage: sums, the two type bytes,    *)
(* frames built and parsed, and times.  The proofs of the modules that use *)
(* frames rest on them.                                                    *)
(***************************************************************************)
EXTENDS HarpMessage, SequenceTheorems, NaturalsInduction, WellFoundedInduction, TLAPS

-----------------------------------------------------------------------------
(* Sums                                                                    *)

(* Every set of natural numbers has a least element.                       *)
LEMMA LeastElement ==
    ASSUME NEW T \in SUBSET Nat, T # {}
    PROVE  \E m \in T : \A k \in T : m <= k
<1>. DEFINE R == OpToRel(<, Nat)
<1>1. IsWellFoundedOn(R, Nat)
  BY NatLessThanWellFounded
<1>2. \A k, m \in Nat : k < m => <<k, m>> \in R
  BY DEF OpToRel
<1>. HIDE DEF R
<1>3. PICK m \in T : \A k \in T : ~(<<k, m>> \in R)
  BY <1>1, WFMin
<1>4. ASSUME NEW k \in T PROVE m <= k
  <2>1. k \in Nat /\ m \in Nat
    OBVIOUS
  <2>2. ~(k < m)
    BY <1>2, <1>3, <2>1, Zenon
  <2>. QED BY <2>1, <2>2
<1>. QED BY <1>4

(* What the sums of the first n elements satisfy.                          *)
AddsUp(f, s, n) ==
    \A i \in 0..Len(s) : i <= n => f[i] = IF i = 0 THEN 0 ELSE f[i - 1] + s[i]

LEMMA SumsExist ==
    ASSUME NEW s \in Seq(Int), NEW n \in Nat
    PROVE  \E f \in [0..Len(s) -> Int] : AddsUp(f, s, n)
<1>. DEFINE D == 0..Len(s)
            Good(k) == \E f \in [D -> Int] : AddsUp(f, s, k)
            Bad == {k \in Nat : ~Good(k)}
<1>0. Len(s) \in Nat /\ \A i \in 1..Len(s) : s[i] \in Int
  BY ElementOfSeq, LenProperties
<1>1. SUFFICES ASSUME Bad # {} PROVE FALSE
  OBVIOUS
<1>2. PICK k \in Bad : \A j \in Bad : k <= j
  <2>1. Bad \in SUBSET Nat
    OBVIOUS
  <2>. HIDE DEF Bad
  <2>. QED BY <1>1, <2>1, LeastElement
<1>3. CASE k = 0
  <2>. DEFINE f == [i \in D |-> 0]
  <2>1. f \in [D -> Int]
    OBVIOUS
  <2>2. AddsUp(f, s, 0)
    BY <1>0 DEF AddsUp
  <2>. HIDE DEF f
  <2>. QED BY <1>2, <1>3, <2>1, <2>2
<1>4. CASE k # 0
  <2>1. k - 1 \in Nat /\ ~(k <= k - 1)
    BY <1>2, <1>4
  <2>2. Good(k - 1)
    <3>1. k - 1 \notin Bad
      BY <1>2, <2>1
    <3>. QED BY <2>1, <3>1
  <2>3. PICK f \in [D -> Int] : AddsUp(f, s, k - 1)
    BY <2>2
  <2>. DEFINE g == [i \in D |-> IF i <= k - 1 THEN f[i] ELSE IF i = k THEN f[i - 1] + s[i] ELSE 0]
  <2>4. g \in [D -> Int]
    BY <1>0, <1>2, <1>4, SMTT(40)
  <2>5. AddsUp(g, s, k)
    BY <1>0, <1>2, <1>4, <2>3 DEF AddsUp
  <2>. QED BY <1>2, <2>4, <2>5
<1>. QED BY <1>3, <1>4

(* The recursion of Sum is well founded: it adds up, element by element.   *)
LEMMA SumsDefined ==
    ASSUME NEW s \in Seq(Int)
    PROVE  /\ SumsOf(s) \in [0..Len(s) -> Int] /\ SumsOf(s)[0] = 0
           /\ \A n \in 1..Len(s) : SumsOf(s)[n] = SumsOf(s)[n - 1] + s[n]
           /\ Sum(s) \in Int
<1>. DEFINE D == 0..Len(s)
            Body(f) == [n \in D |-> IF n = 0 THEN 0 ELSE f[n - 1] + s[n]]
<1>0. Len(s) \in Nat /\ \A i \in 1..Len(s) : s[i] \in Int
  BY ElementOfSeq, LenProperties
<1>1. PICK f \in [D -> Int] : AddsUp(f, s, Len(s))
  BY <1>0, SumsExist
<1>2. f = Body(f)
  BY <1>0, <1>1 DEF AddsUp
<1>3. SumsOf(s) = CHOOSE g : g = Body(g)
  BY DEF SumsOf
<1>4. SumsOf(s) = Body(SumsOf(s))
  <2>. HIDE DEF Body
  <2>. QED BY <1>2, <1>3
<1>. DEFINE g == SumsOf(s)
            Done == {n \in D : g[n] \in Int}
<1>5. \A n \in D : g[n] = IF n = 0 THEN 0 ELSE g[n - 1] + s[n]
  BY <1>4
<1>. HIDE DEF g
<1>6. \A n \in D : g[n] \in Int
  <2>. DEFINE Bad == {n \in Nat : n \in D /\ g[n] \notin Int}
  <2>1. SUFFICES ASSUME Bad # {} PROVE FALSE
    BY <1>0
  <2>2. PICK k \in Bad : \A j \in Bad : k <= j
    <3>1. Bad \in SUBSET Nat
      OBVIOUS
    <3>. HIDE DEF Bad
    <3>. QED BY <2>1, <3>1, LeastElement
  <2>3. k # 0
    BY <1>0, <1>5, <2>2
  <2>4. k - 1 \in D /\ k - 1 \notin Bad /\ k \in 1..Len(s)
    BY <1>0, <2>2, <2>3
  <2>5. g[k - 1] \in Int /\ s[k] \in Int
    BY <1>0, <2>4
  <2>. QED BY <1>5, <2>2, <2>3, <2>5
<1>7. DOMAIN g = D /\ g = [n \in D |-> g[n]]
  BY <1>4 DEF g
<1>8. g \in [D -> Int]
  BY <1>6, <1>7
<1>. QED BY <1>0, <1>5, <1>6, <1>8 DEF g, Sum

(* Changing one element changes the sum by as much.                        *)
LEMMA SumOfChanged ==
    ASSUME NEW s \in Seq(Int), NEW t \in Seq(Int), Len(t) = Len(s), NEW i \in 1..Len(s),
           \A j \in 1..Len(s) : j # i => t[j] = s[j]
    PROVE  Sum(t) = Sum(s) + (t[i] - s[i])
<1>. DEFINE f == SumsOf(s)
            g == SumsOf(t)
            n == Len(s)
            Right(k) == g[k] = f[k] + IF k >= i THEN t[i] - s[i] ELSE 0
            Bad == {k \in Nat : k \in 0..n /\ ~Right(k)}
<1>0. n \in Nat /\ \A j \in 1..n : s[j] \in Int /\ t[j] \in Int
  BY ElementOfSeq, LenProperties
<1>1. /\ f \in [0..n -> Int] /\ f[0] = 0 /\ \A k \in 1..n : f[k] = f[k - 1] + s[k]
      /\ g \in [0..n -> Int] /\ g[0] = 0 /\ \A k \in 1..n : g[k] = g[k - 1] + t[k]
  BY SumsDefined
<1>2. Sum(s) = f[n] /\ Sum(t) = g[n]
  BY DEF Sum
<1>. HIDE DEF f, g
<1>3. Bad = {}
  <2>1. SUFFICES ASSUME Bad # {} PROVE FALSE
    OBVIOUS
  <2>2. PICK k \in Bad : \A j \in Bad : k <= j
    <3>1. Bad \in SUBSET Nat
      OBVIOUS
    <3>. HIDE DEF Bad
    <3>. QED BY <2>1, <3>1, LeastElement
  <2>3. k # 0
    BY <1>0, <1>1, <2>2
  <2>4. k - 1 \in 0..n /\ k \in 1..n /\ Right(k - 1)
    BY <1>0, <2>2, <2>3
  <2>5. g[k] = g[k - 1] + t[k] /\ f[k] = f[k - 1] + s[k] /\ f[k - 1] \in Int
    BY <1>0, <1>1, <2>4
  <2>6. s[k] \in Int /\ t[k] \in Int /\ s[i] \in Int /\ t[i] \in Int /\ k \in Nat /\ i \in Nat
    BY <1>0, <2>4
  <2>7. Right(k)
    <3>1. CASE k = i
      <4>1. ~(k - 1 >= i) /\ k >= i
        BY <2>6, <3>1
      <4>. QED BY <2>4, <2>5, <2>6, <3>1, <4>1
    <3>2. CASE k # i
      <4>1. t[k] = s[k] /\ (k - 1 >= i <=> k >= i)
        BY <2>4, <2>6, <3>2
      <4>. DEFINE d == IF k >= i THEN t[i] - s[i] ELSE 0
      <4>2. g[k - 1] = f[k - 1] + d /\ d \in Int
        BY <2>4, <2>6, <4>1
      <4>. HIDE DEF d
      <4>3. g[k] = f[k] + d
        BY <2>5, <2>6, <4>1, <4>2, SMTT(40)
      <4>. QED BY <4>3 DEF d
    <3>. QED BY <3>1, <3>2
  <2>. QED BY <2>2, <2>7
<1>4. Right(n)
  BY <1>0, <1>3
<1>. QED BY <1>0, <1>2, <1>4

-----------------------------------------------------------------------------
(* The two type bytes                                                      *)

LEMMA TypeByteRead ==
    ASSUME NEW type \in MessageType, NEW error \in BOOLEAN
    PROVE  LET b == TypeToByte(type, error) IN
           /\ b \in Byte /\ IsMessageType(b)
           /\ TypeFromByte(b) = [type |-> type, error |-> error]
<1>. DEFINE b == TypeToByte(type, error)
<1>1. b \in {1, 2, 3, 9, 10, 11} /\ b % 4 = type /\ (Bit(b, 3) <=> error)
  BY DEF TypeToByte, MessageType, Bit
<1>. HIDE DEF b
<1>2. b \in Byte /\ IsMessageType(b)
  BY <1>1 DEF Byte, IsMessageType, Reserved, ReservedBits, Bit, MessageType
<1>3. Bit(b, 3) = error
  BY <1>1 DEF Bit
<1>. QED BY <1>1, <1>2, <1>3 DEF TypeFromByte, b

LEMMA TypeByteMade ==
    ASSUME NEW b \in Byte, IsMessageType(b)
    PROVE  /\ TypeFromByte(b).type \in MessageType /\ TypeFromByte(b).error \in BOOLEAN
           /\ TypeToByte(TypeFromByte(b).type, TypeFromByte(b).error) = b
<1>1. ~Bit(b, 2) /\ ~Bit(b, 4) /\ ~Bit(b, 5) /\ ~Bit(b, 6) /\ ~Bit(b, 7)
  BY DEF IsMessageType, Reserved, ReservedBits
<1>2. b = (b % 4) + IF Bit(b, 3) THEN 8 ELSE 0
  BY <1>1 DEF Bit, Byte
<1>. QED BY <1>2 DEF TypeFromByte, TypeToByte, IsMessageType, Bit

LEMMA PayloadByteRead ==
    ASSUME NEW pt \in PayloadType, NEW stamped \in BOOLEAN
    PROVE  LET b == PayloadTypeToByte(pt, stamped) IN
           /\ b \in Byte /\ IsPayloadType(b) /\ (Stamped(b) <=> stamped)
           /\ PayloadTypeFromByte(b) = pt
<1>. DEFINE b == PayloadTypeToByte(pt, stamped)
            kind == pt.kind
            size == pt.size
<1>1. /\ size \in {1, 2, 4, 8} /\ kind \in {"unsigned", "signed", "float"}
      /\ kind = "float" => size = 4 
      /\ pt = [size |-> size, kind |-> kind]
  BY DEF PayloadType
<1>2. b = size + (IF kind = "signed" THEN 128 ELSE IF kind = "float" THEN 64 ELSE 0)
              + (IF stamped THEN 16 ELSE 0)
  BY <1>1 DEF PayloadTypeToByte
<1>. HIDE DEF b
<1>3. b \in Byte /\ b % 16 = size /\ ~Bit(b, 5) /\ (Bit(b, 4) <=> stamped)
      /\ (Bit(b, 6) <=> kind = "float") /\ (Bit(b, 7) <=> kind = "signed")
      /\ (kind = "float" => b \in {68, 84})
  <2>1. CASE kind = "unsigned"
    BY <1>1, <1>2, <2>1 DEF Byte, Bit
  <2>2. CASE kind = "signed"
    BY <1>1, <1>2, <2>2 DEF Byte, Bit
  <2>3. CASE kind = "float"
    BY <1>1, <1>2, <2>3 DEF Byte, Bit
  <2>. QED BY <1>1, <2>1, <2>2, <2>3
<1>4. PayloadTypeFromByte(b) = [size |-> size, kind |-> kind]
  BY <1>1, <1>3 DEF PayloadTypeFromByte
<1>. QED BY <1>1, <1>3, <1>4 DEF IsPayloadType, BadFloat, Stamped, b

LEMMA PayloadByteMade ==
    ASSUME NEW b \in Byte, IsPayloadType(b)
    PROVE  /\ PayloadTypeFromByte(b) \in PayloadType
           /\ PayloadTypeToByte(PayloadTypeFromByte(b), Stamped(b)) = b
<1>. DEFINE pt == PayloadTypeFromByte(b)
<1>1. b % 16 \in {1, 2, 4, 8} /\ ~Bit(b, 5) /\ (Bit(b, 6) => b \in {68, 84})
  BY DEF IsPayloadType, BadFloat
<1>2. pt.size = b % 16 /\ pt.kind = IF Bit(b, 6) THEN "float" ELSE IF Bit(b, 7) THEN "signed" ELSE "unsigned"
  BY DEF PayloadTypeFromByte
<1>3. b = (b % 16) + (IF Bit(b, 4) THEN 16 ELSE 0) + (IF Bit(b, 6) THEN 64 ELSE 0)
                 + (IF Bit(b, 7) THEN 128 ELSE 0)
  BY <1>1 DEF Bit, Byte
<1>4. CASE Bit(b, 6)
  <2>1. pt.kind = "float" /\ pt.size = 4 /\ ~Bit(b, 7)
    BY <1>1, <1>2, <1>4 DEF Bit
  <2>. QED BY <1>2, <1>3, <1>4, <2>1 DEF PayloadTypeFromByte, PayloadTypeToByte, PayloadType, Stamped
<1>5. CASE ~Bit(b, 6) /\ Bit(b, 7)
  BY <1>1, <1>2, <1>3, <1>5 DEF PayloadTypeFromByte, PayloadTypeToByte, PayloadType, Stamped
<1>6. CASE ~Bit(b, 6) /\ ~Bit(b, 7)
  BY <1>1, <1>2, <1>3, <1>6 DEF PayloadTypeFromByte, PayloadTypeToByte, PayloadType, Stamped
<1>. QED BY <1>4, <1>5, <1>6

-----------------------------------------------------------------------------
(* Frames                                                                  *)

(* Where everything is in a frame, the checksum excepted.                  *)
LEMMA FrameBody ==
    ASSUME NEW m \in Message
    PROVE  LET u == Unsummed(m)
               k == Len(m.stamp)
               n == Len(m.payload)
           IN  /\ u \in Seq(Int) /\ k \in Nat /\ n \in Nat /\ Len(u) = 5 + k + n
               /\ u[1] = TypeToByte(m.type, m.error) /\ u[2] = 4 + k + n
               /\ u[3] = m.address /\ u[4] = m.port
               /\ u[5] = PayloadTypeToByte(m.payloadType, m.stamp # <<>>)
               /\ \A i \in 1..k : u[5 + i] = m.stamp[i]
               /\ \A i \in 1..n : u[5 + k + i] = m.payload[i]
<1>. DEFINE a == TypeToByte(m.type, m.error)
            b == PayloadTypeToByte(m.payloadType, m.stamp # <<>>)
            st == m.stamp
            pl == m.payload
            k == Len(st)
            n == Len(pl)
            three == <<m.address, m.port, b>>
            front == three \o st
            body == front \o pl
            L == Len(body) + 1
<1>1. a \in Byte /\ b \in Byte /\ m.address \in Byte /\ m.port \in Byte
  BY TypeByteRead, PayloadByteRead DEF Message
<1>2. st \in Seq(Byte) /\ pl \in Seq(Byte)
  BY DEF Message
<1>3. k \in Nat /\ n \in Nat
  BY <1>2, LenProperties
<1>4. Unsummed(m) = <<a, L>> \o body
  BY DEF Unsummed
<1>. HIDE DEF a, b, st, pl
<1>5. three \in Seq(Byte) /\ Len(three) = 3
      /\ three[1] = m.address /\ three[2] = m.port /\ three[3] = b
  BY <1>1
<1>. HIDE DEF three
<1>6. /\ front \in Seq(Byte) /\ Len(front) = 3 + k
      /\ \A i \in 1..(3 + k) : front[i] = IF i <= 3 THEN three[i] ELSE st[i - 3]
  <2>1. /\ front \in Seq(Byte) /\ Len(front) = Len(three) + Len(st)
        /\ \A i \in 1..(Len(three) + Len(st)) :
              front[i] = IF i <= Len(three) THEN three[i] ELSE st[i - Len(three)]
    BY <1>2, <1>5, ConcatProperties, Zenon
  <2>. QED BY <1>3, <1>5, <2>1
<1>. HIDE DEF front
<1>7. /\ body \in Seq(Byte) /\ Len(body) = 3 + k + n
      /\ \A i \in 1..(3 + k + n) : body[i] = IF i <= 3 + k THEN front[i] ELSE pl[i - (3 + k)]
  <2>1. /\ body \in Seq(Byte) /\ Len(body) = Len(front) + Len(pl)
        /\ \A i \in 1..(Len(front) + Len(pl)) :
              body[i] = IF i <= Len(front) THEN front[i] ELSE pl[i - Len(front)]
    BY <1>2, <1>6, ConcatProperties, Zenon
  <2>. QED BY <1>3, <1>6, <2>1
<1>. HIDE DEF body
<1>8. <<a, L>> \in Seq(Int) /\ Len(<<a, L>>) = 2 /\ L = 4 + k + n
      /\ <<a, L>>[1] = a /\ <<a, L>>[2] = L
  BY <1>1, <1>3, <1>7 DEF Byte
<1>9. body \in Seq(Int)
  <2>1. Byte \subseteq Int
    BY DEF Byte
  <2>. QED BY <1>7, <2>1, SeqMonotonic, Zenon
<1>. DEFINE two == <<a, L>>
            u == two \o body
<1>. HIDE DEF L, two
<1>10. /\ u \in Seq(Int) /\ Len(u) = 5 + k + n
       /\ \A i \in 1..(5 + k + n) : u[i] = IF i <= 2 THEN two[i] ELSE body[i - 2]
  <2>1. two \in Seq(Int) /\ Len(two) = 2
    BY <1>8 DEF two
  <2>2. /\ u \in Seq(Int) /\ Len(u) = Len(two) + Len(body)
        /\ \A i \in 1..(Len(two) + Len(body)) : u[i] = IF i <= Len(two) THEN two[i] ELSE body[i - Len(two)]
    BY <1>9, <2>1, ConcatProperties
  <2>3. Len(two) + Len(body) = 5 + k + n
    BY <1>3, <1>7, <2>1
  <2>. QED BY <2>1, <2>2, <2>3
<1>. HIDE DEF u, k, n
<1>11. u[1] = a /\ u[2] = L
  BY <1>3, <1>8, <1>10 DEF two
<1>12. u[3] = body[1] /\ u[4] = body[2] /\ u[5] = body[3]
  BY <1>3, <1>10, SMTT(40)
<1>13. body[1] = m.address /\ body[2] = m.port /\ body[3] = b
  BY <1>3, <1>5, <1>6, <1>7
<1>14. \A i \in 1..k : u[5 + i] = st[i]
  <2>. TAKE i \in 1..k
  <2>1. u[5 + i] = body[3 + i]
    BY <1>3, <1>10, SMTT(40)
  <2>2. body[3 + i] = front[3 + i]
    BY <1>3, <1>7
  <2>3. front[3 + i] = st[i]
    BY <1>3, <1>6
  <2>. QED BY <2>1, <2>2, <2>3
<1>15. \A i \in 1..n : u[5 + k + i] = pl[i]
  <2>. TAKE i \in 1..n
  <2>1. u[5 + k + i] = body[3 + k + i]
    <3>1. 5 + k + i \in 1..(5 + k + n) /\ ~(5 + k + i <= 2) /\ (5 + k + i) - 2 = 3 + k + i
      BY <1>3
    <3>. QED BY <1>10, <3>1
  <2>2. body[3 + k + i] = pl[i]
    BY <1>3, <1>7
  <2>. QED BY <2>1, <2>2
<1>. QED BY <1>3, <1>4, <1>8, <1>10, <1>11, <1>12, <1>13, <1>14, <1>15 DEF a, b, st, pl, k, n, u, two

(* What can be built has a checksum byte and is at most 257 bytes long.    *)
LEMMA FrameBuilt ==
    ASSUME NEW m \in Message, Buildable(m)
    PROVE  LET u == Unsummed(m)
               f == BuildFrame(m)
           IN  /\ f \in Seq(Byte) /\ Len(u) \in Nat /\ Len(f) = Len(u) + 1
               /\ \A i \in 1..Len(u) : f[i] = u[i]
               /\ u \in Seq(Byte) /\ AllButLast(f) = u /\ Last(f) = Sum(u) % 256
<1>. DEFINE u == Unsummed(m)
            f == BuildFrame(m)
            st == m.stamp
            pl == m.payload
            k == Len(st)
            n == Len(pl)
            c == Sum(u) % 256
<1>1. /\ u \in Seq(Int) /\ k \in Nat /\ n \in Nat /\ Len(u) = 5 + k + n
      /\ u[1] = TypeToByte(m.type, m.error) /\ u[2] = 4 + k + n
      /\ u[3] = m.address /\ u[4] = m.port
      /\ u[5] = PayloadTypeToByte(m.payloadType, st # <<>>)
      /\ \A i \in 1..k : u[5 + i] = st[i]
      /\ \A i \in 1..n : u[5 + k + i] = pl[i]
  BY FrameBody
<1>2. u[1] \in Byte /\ u[2] \in Byte /\ u[3] \in Byte /\ u[4] \in Byte /\ u[5] \in Byte
  BY <1>1, TypeByteRead, PayloadByteRead DEF Message, Buildable
<1>3. st \in Seq(Byte) /\ pl \in Seq(Byte)
  BY DEF Message
<1>4. f = Append(u, c)
  BY DEF BuildFrame
<1>. HIDE DEF u, st, pl, f
<1>5. \A i \in 1..Len(u) : u[i] \in Byte
  <2>. TAKE i \in 1..Len(u)
  <2>1. CASE i <= 5
    <3>1. i = 1 \/ i = 2 \/ i = 3 \/ i = 4 \/ i = 5
      BY <2>1
    <3>. QED BY <1>2, <3>1
  <2>2. CASE i > 5 /\ i <= 5 + k
    <3>1. i - 5 \in 1..k /\ 5 + (i - 5) = i
      BY <1>1, <2>2
    <3>2. st[i - 5] \in Byte
      BY <1>3, <3>1, ElementOfSeq
    <3>. QED BY <1>1, <3>1, <3>2
  <2>3. CASE i > 5 + k
    <3>1. i - (5 + k) \in 1..n /\ 5 + k + (i - (5 + k)) = i
      BY <1>1, <2>3
    <3>2. pl[i - (5 + k)] \in Byte
      BY <1>3, <3>1, ElementOfSeq
    <3>. QED BY <1>1, <3>1, <3>2
  <2>. QED BY <1>1, <2>1, <2>2, <2>3
<1>6. u \in Seq(Byte)
  <2>1. u = [i \in 1..Len(u) |-> u[i]] /\ Len(u) \in Nat
    BY <1>1
  <2>2. u \in [1..Len(u) -> Byte]
    BY <1>5, <2>1
  <2>. QED BY <2>1, <2>2, SeqDef, Zenon
<1>7. c \in Byte
  <2>1. Sum(u) \in Int
    BY <1>1, SumsDefined
  <2>. QED BY <2>1 DEF Byte
<1>. HIDE DEF c
<1>8. /\ f \in Seq(Byte) /\ Len(f) = Len(u) + 1
      /\ \A i \in 1..Len(u) : f[i] = u[i]
      /\ f[Len(u) + 1] = c
  BY <1>4, <1>6, <1>7, AppendProperties
<1>9. AllButLast(f) = u
  <2>1. Len(u) \in Nat /\ (Len(u) + 1) - 1 = Len(u)
    BY <1>1
  <2>2. \A i \in 1..Len(u) : f[i] \in Byte
    BY <1>5, <1>8
  <2>3. /\ SubSeq(f, 1, Len(u)) \in Seq(Byte) /\ Len(SubSeq(f, 1, Len(u))) = Len(u)
        /\ \A i \in 1..Len(u) : SubSeq(f, 1, Len(u))[i] = f[i]
    BY <2>1, <2>2, SubSeqProperties
  <2>4. SubSeq(f, 1, Len(u)) = u
    BY <1>6, <1>8, <2>3, SeqEqual
  <2>. QED BY <1>8, <2>1, <2>4 DEF AllButLast
<1>10. Last(f) = c
  BY <1>8 DEF Last
<1>. QED BY <1>1, <1>6, <1>8, <1>9, <1>10 DEF u, f, c

(* What is built is parsed, and reads as what it was built from.           *)
LEMMA BuiltIsParsed ==
    ASSUME NEW m \in Message, Len(m.stamp) \in {0, TimestampLen}, Buildable(m)
    PROVE  Parses(BuildFrame(m)) /\ Parsed(BuildFrame(m)) = m
<1>. DEFINE u == Unsummed(m)
            f == BuildFrame(m)
            st == m.stamp
            pl == m.payload
            k == Len(st)
            n == Len(pl)
            pb == PayloadTypeToByte(m.payloadType, st # <<>>)
<1>1. /\ k \in Nat /\ n \in Nat /\ Len(u) = 5 + k + n
      /\ u[1] = TypeToByte(m.type, m.error) /\ u[2] = 4 + k + n
      /\ u[3] = m.address /\ u[4] = m.port
      /\ u[5] = pb
      /\ \A i \in 1..k : u[5 + i] = st[i]
      /\ \A i \in 1..n : u[5 + k + i] = pl[i]
  BY FrameBody
<1>2. /\ f \in Seq(Byte) /\ Len(f) = Len(u) + 1
      /\ \A i \in 1..Len(u) : f[i] = u[i]
      /\ AllButLast(f) = u /\ Last(f) = Sum(u) % 256
  BY FrameBuilt
<1>3. st \in Seq(Byte) /\ pl \in Seq(Byte) /\ m.payloadType \in PayloadType
      /\ m.type \in MessageType /\ m.error \in BOOLEAN
  BY DEF Message
<1>4. /\ pb \in Byte /\ IsPayloadType(pb) /\ (Stamped(pb) <=> st # <<>>)
      /\ PayloadTypeFromByte(pb) = m.payloadType
  BY <1>3, PayloadByteRead
<1>5. /\ IsMessageType(u[1])
      /\ TypeFromByte(u[1]).type = m.type /\ TypeFromByte(u[1]).error = m.error
  BY <1>1, <1>3, TypeByteRead
<1>6. st = <<>> <=> k = 0
  BY <1>3, EmptySeq
<1>7. k \in {0, 6}
  BY DEF TimestampLen
<1>. HIDE DEF u, f, st, pl, pb, k, n
<1>8. Len(f) = 6 + k + n /\ f[1] = u[1] /\ f[2] = 4 + k + n /\ f[3] = m.address /\ f[4] = m.port
      /\ f[5] = pb
  <2>1. Len(u) \in Nat /\ 1 \in 1..Len(u) /\ 2 \in 1..Len(u) /\ 3 \in 1..Len(u)
        /\ 4 \in 1..Len(u) /\ 5 \in 1..Len(u)
    BY <1>1
  <2>2. f[1] = u[1] /\ f[2] = u[2] /\ f[3] = u[3] /\ f[4] = u[4] /\ f[5] = u[5]
    BY <1>2, <2>1
  <2>3. Len(f) = 6 + k + n
    BY <1>1, <1>2
  <2>. QED BY <1>1, <2>2, <2>3
<1>9. Parses(f)
  <2>1. Len(f) >= 6 /\ ValidChecksum(f)
    BY <1>1, <1>2, <1>8 DEF ValidChecksum, Compute
  <2>2. LengthAgrees(f)
    BY <1>1, <1>8 DEF LengthAgrees
  <2>3. RoomForStamp(f)
    BY <1>1, <1>4, <1>6, <1>7, <1>8 DEF RoomForStamp, HeaderLen, TimestampLen
  <2>. QED BY <1>4, <1>5, <1>8, <2>1, <2>2, <2>3 DEF Parses, MinFrameLen
<1>10. PayloadOffset(f) = 5 + k
  BY <1>4, <1>6, <1>7, <1>8 DEF PayloadOffset, HeaderLen, TimestampLen
<1>11. \A i \in 1..Len(f) : f[i] \in Byte
  BY <1>2, ElementOfSeq
<1>12. SubSeq(f, 6, 5 + k) = st
  <2>1. \A i \in 6..(5 + k) : f[i] \in Byte
    BY <1>1, <1>8, <1>11
  <2>2. /\ SubSeq(f, 6, 5 + k) \in Seq(Byte) /\ Len(SubSeq(f, 6, 5 + k)) = k
        /\ \A i \in 1..k : SubSeq(f, 6, 5 + k)[i] = f[6 + i - 1]
    BY <1>1, <2>1, SubSeqProperties
  <2>3. \A i \in 1..k : f[6 + i - 1] = st[i]
    <3>. TAKE i \in 1..k
    <3>1. 6 + i - 1 = 5 + i /\ 5 + i \in 1..Len(u)
      BY <1>1
    <3>. QED BY <1>1, <1>2, <3>1
  <2>4. Len(st) = k
    BY DEF k
  <2>. QED BY <1>3, <2>2, <2>3, <2>4, SeqEqual
<1>13. SubSeq(f, 6 + k, 5 + k + n) = pl
  <2>1. \A i \in (6 + k)..(5 + k + n) : f[i] \in Byte
    BY <1>1, <1>8, <1>11
  <2>2. /\ SubSeq(f, 6 + k, 5 + k + n) \in Seq(Byte) /\ Len(SubSeq(f, 6 + k, 5 + k + n)) = n
        /\ \A i \in 1..n : SubSeq(f, 6 + k, 5 + k + n)[i] = f[6 + k + i - 1]
    <3>1. 6 + k \in Int /\ 5 + k + n \in Int /\ (5 + k + n) - (6 + k) + 1 = n
      BY <1>1
    <3>2. /\ SubSeq(f, 6 + k, 5 + k + n) \in Seq(Byte)
          /\ Len(SubSeq(f, 6 + k, 5 + k + n)) =
                IF 6 + k <= 5 + k + n THEN (5 + k + n) - (6 + k) + 1 ELSE 0
          /\ \A i \in 1..((5 + k + n) - (6 + k) + 1) :
                SubSeq(f, 6 + k, 5 + k + n)[i] = f[6 + k + i - 1]
      BY <2>1, <3>1, SubSeqProperties
    <3>. QED BY <1>1, <3>1, <3>2
  <2>3. \A i \in 1..n : f[6 + k + i - 1] = pl[i]
    <3>. TAKE i \in 1..n
    <3>1. 6 + k + i - 1 = 5 + k + i /\ 5 + k + i \in 1..Len(u)
      BY <1>1
    <3>. QED BY <1>1, <1>2, <3>1
  <2>4. Len(pl) = n
    BY DEF n
  <2>. QED BY <1>3, <2>2, <2>3, <2>4, SeqEqual
<1>14. Parsed(f) = [type |-> m.type, error |-> m.error, address |-> m.address, port |-> m.port,
                    payloadType |-> m.payloadType, stamp |-> st, payload |-> pl]
  <2>1. HeaderLen + 1 = 6 /\ PayloadOffset(f) + 1 = 6 + k /\ Len(f) - 1 = 5 + k + n
    BY <1>1, <1>8, <1>10 DEF HeaderLen
  <2>. QED BY <1>4, <1>5, <1>8, <1>10, <1>12, <1>13, <2>1 DEF Parsed
<1>15. m = [type |-> m.type, error |-> m.error, address |-> m.address, port |-> m.port,
            payloadType |-> m.payloadType, stamp |-> st, payload |-> pl]
  BY DEF Message, st, pl
<1>. QED BY <1>9, <1>14, <1>15 DEF f

(* What is parsed has known fields, and is built from them again.          *)
LEMMA ParsedIsBuilt ==
    ASSUME NEW f \in Seq(Byte), Parses(f)
    PROVE  /\ Parsed(f) \in Message /\ Len(Parsed(f).stamp) \in {0, TimestampLen}
           /\ BuildFrame(Parsed(f)) = f
<1>. DEFINE m == Parsed(f)
            N == Len(f)
            o == PayloadOffset(f)
            stamped == Stamped(f[5])
            k == o - 5
            n == N - 1 - o
            st == SubSeq(f, 6, o)
            pl == SubSeq(f, o + 1, N - 1)
            u == Unsummed(m)
            v == AllButLast(f)
<1>1. /\ N \in Nat /\ N >= 6 /\ ValidChecksum(f) /\ IsMessageType(f[1]) /\ N = f[2] + 2
      /\ IsPayloadType(f[5]) /\ (stamped => N >= 12)
      /\ \A i \in 1..N : f[i] \in Byte
  BY LenProperties, ElementOfSeq
     DEF Parses, MinFrameLen, LengthAgrees, RoomForStamp, HeaderLen, TimestampLen
<1>2. f[1] \in Byte /\ f[2] \in Byte /\ f[3] \in Byte /\ f[4] \in Byte /\ f[5] \in Byte
  BY <1>1
<1>3. o = (IF stamped THEN 11 ELSE 5) /\ stamped \in BOOLEAN
  BY DEF PayloadOffset, HeaderLen, TimestampLen, Stamped, Bit
<1>4. k \in {0, 6} /\ n \in Nat /\ o \in {5, 11} /\ N = 6 + k + n /\ o = 5 + k /\ (stamped <=> k = 6)
  BY <1>1, <1>3
<1>5. m = [type |-> TypeFromByte(f[1]).type, error |-> TypeFromByte(f[1]).error,
           address |-> f[3], port |-> f[4], payloadType |-> PayloadTypeFromByte(f[5]),
           stamp |-> st, payload |-> pl]
  BY DEF Parsed, HeaderLen
<1>. HIDE DEF o, N, st, pl, stamped, m, k, n
<1>6. st \in Seq(Byte) /\ Len(st) = k /\ \A i \in 1..k : st[i] = f[5 + i]
  <2>1. o \in Int /\ \A i \in 6..o : f[i] \in Byte
    BY <1>1, <1>4
  <2>2. /\ SubSeq(f, 6, o) \in Seq(Byte) /\ Len(SubSeq(f, 6, o)) = IF 6 <= o THEN o - 6 + 1 ELSE 0
        /\ \A i \in 1..(o - 6 + 1) : SubSeq(f, 6, o)[i] = f[6 + i - 1]
    BY <2>1, SubSeqProperties
  <2>3. o - 6 + 1 = k /\ \A i \in 1..k : 6 + i - 1 = 5 + i
    BY <1>4
  <2>. QED BY <1>4, <2>2, <2>3 DEF st
<1>7. pl \in Seq(Byte) /\ Len(pl) = n /\ \A i \in 1..n : pl[i] = f[5 + k + i]
  <2>1. o + 1 \in Int /\ N - 1 \in Int /\ \A i \in (o + 1)..(N - 1) : f[i] \in Byte
    BY <1>1, <1>4
  <2>2. /\ SubSeq(f, o + 1, N - 1) \in Seq(Byte)
        /\ Len(SubSeq(f, o + 1, N - 1)) = IF o + 1 <= N - 1 THEN (N - 1) - (o + 1) + 1 ELSE 0
        /\ \A i \in 1..((N - 1) - (o + 1) + 1) : SubSeq(f, o + 1, N - 1)[i] = f[(o + 1) + i - 1]
    BY <2>1, SubSeqProperties
  <2>3. (N - 1) - (o + 1) + 1 = n /\ \A i \in 1..n : (o + 1) + i - 1 = 5 + k + i
    BY <1>4
  <2>. QED BY <1>4, <2>2, <2>3 DEF pl
<1>8. /\ m.type = TypeFromByte(f[1]).type /\ m.error = TypeFromByte(f[1]).error
      /\ m.address = f[3] /\ m.port = f[4] /\ m.payloadType = PayloadTypeFromByte(f[5])
      /\ m.stamp = st /\ m.payload = pl
  BY <1>5
<1>9. m \in Message
  BY <1>1, <1>2, <1>5, <1>6, <1>7, TypeByteMade, PayloadByteMade DEF Message
<1>10. /\ u \in Seq(Int) /\ k \in Nat /\ n \in Nat /\ Len(u) = 5 + k + n
       /\ u[1] = TypeToByte(m.type, m.error) /\ u[2] = 4 + k + n
       /\ u[3] = f[3] /\ u[4] = f[4]
       /\ u[5] = PayloadTypeToByte(m.payloadType, st # <<>>)
       /\ \A i \in 1..k : u[5 + i] = st[i]
       /\ \A i \in 1..n : u[5 + k + i] = pl[i]
  BY <1>6, <1>7, <1>8, <1>9, FrameBody
<1>. HIDE DEF u
<1>11. u[1] = f[1] /\ u[2] = f[2]
  <2>1. Byte \subseteq Int
    BY DEF Byte
  <2>2. f[2] \in Int
    BY <1>2, <2>1, Zenon
  <2>3. u[2] = f[2]
    <3>. DEFINE a == f[2]
                b == u[2]
    <3>1. a \in Int /\ N = a + 2 /\ N = 6 + k + n /\ b = 4 + k + n /\ k \in Nat /\ n \in Nat
      BY <1>1, <1>10, <1>4, <2>2, Zenon
    <3>. HIDE DEF a, b
    <3>2. a = b
      BY <3>1
    <3>. QED BY <3>2 DEF a, b
  <2>4. u[1] = f[1]
    BY <1>1, <1>2, <1>8, <1>10, TypeByteMade
  <2>. QED BY <2>3, <2>4
<1>12. u[5] = f[5]
  <2>1. (st # <<>>) = Stamped(f[5])
    <3>1. st = <<>> <=> k = 0
      BY <1>6, EmptySeq
    <3>. QED BY <1>4, <3>1 DEF stamped, Stamped, Bit
  <2>. QED BY <1>1, <1>2, <1>8, <1>10, <2>1, PayloadByteMade
<1>13. v \in Seq(Byte) /\ Len(v) = N - 1 /\ \A i \in 1..(N - 1) : v[i] = f[i]
  <2>1. N - 1 \in Int /\ \A i \in 1..(N - 1) : f[i] \in Byte
    BY <1>1
  <2>2. /\ SubSeq(f, 1, N - 1) \in Seq(Byte)
        /\ Len(SubSeq(f, 1, N - 1)) = IF 1 <= N - 1 THEN (N - 1) - 1 + 1 ELSE 0
        /\ \A i \in 1..((N - 1) - 1 + 1) : SubSeq(f, 1, N - 1)[i] = f[1 + i - 1]
    BY <2>1, SubSeqProperties
  <2>3. (N - 1) - 1 + 1 = N - 1 /\ \A i \in 1..(N - 1) : 1 + i - 1 = i
    BY <1>1
  <2>. QED BY <1>1, <2>2, <2>3 DEF AllButLast, N
<1>. HIDE DEF v
<1>14. \A i \in 1..(N - 1) : u[i] = f[i]
  <2>. TAKE i \in 1..(N - 1)
  <2>1. CASE i <= 5
    <3>1. i = 1 \/ i = 2 \/ i = 3 \/ i = 4 \/ i = 5
      BY <1>1, <2>1
    <3>. QED BY <1>10, <1>11, <1>12, <3>1
  <2>2. CASE i > 5 /\ i <= 5 + k
    <3>1. i - 5 \in 1..k /\ 5 + (i - 5) = i
      BY <1>1, <1>10, <2>2
    <3>2. u[i] = st[i - 5] /\ st[i - 5] = f[i]
      BY <1>6, <1>10, <3>1
    <3>. QED BY <3>2
  <2>3. CASE i > 5 + k
    <3>0. N \in Nat /\ k \in Nat /\ n \in Nat /\ N = 6 + k + n
      BY <1>1, <1>4
    <3>1. i - (5 + k) \in 1..n /\ 5 + k + (i - (5 + k)) = i
      BY <2>3, <3>0
    <3>2. u[i] = pl[i - (5 + k)] /\ pl[i - (5 + k)] = f[i]
      BY <1>7, <1>10, <3>1
    <3>. QED BY <3>2
  <2>. QED BY <1>1, <1>10, <2>1, <2>2, <2>3
<1>15. u = v
  <2>1. Byte \subseteq Int
    BY DEF Byte
  <2>2. v \in Seq(Int)
    BY <1>13, <2>1, SeqMonotonic, Zenon
  <2>3. Len(u) = Len(v) /\ \A i \in 1..Len(u) : u[i] = v[i]
    <3>1. Len(u) = N - 1
      BY <1>4, <1>10
    <3>. QED BY <1>13, <1>14, <3>1
  <2>. QED BY <1>10, <2>2, <2>3, SeqEqual
<1>16. BuildFrame(m) = f
  <2>1. BuildFrame(m) = Append(v, f[N])
    BY <1>1, <1>15 DEF BuildFrame, ValidChecksum, Compute, Last, N, u, v
  <2>2. N \in 1..N /\ f[N] \in Byte
    BY <1>1
  <2>3. /\ Append(v, f[N]) \in Seq(Byte) /\ Len(Append(v, f[N])) = Len(v) + 1
        /\ \A i \in 1..Len(v) : Append(v, f[N])[i] = v[i]
        /\ Append(v, f[N])[Len(v) + 1] = f[N]
    BY <1>13, <2>2, AppendProperties
  <2>4. Len(Append(v, f[N])) = N /\ \A i \in 1..N : Append(v, f[N])[i] = f[i]
    BY <1>1, <1>13, <2>3
  <2>5. Append(v, f[N]) = f
    BY <2>3, <2>4, SeqEqual DEF N
  <2>. QED BY <2>1, <2>5
<1>17. Len(m.stamp) \in {0, 6}
  BY <1>4, <1>6, <1>8 DEF k
<1>. QED BY <1>9, <1>16, <1>17 DEF m, TimestampLen

-----------------------------------------------------------------------------
(* Times                                                                   *)

LEMMA Division ==
    ASSUME NEW a \in Nat, NEW b \in Nat \ {0}
    PROVE  /\ a \div b \in Nat /\ a % b \in 0..(b - 1)
           /\ a = (a \div b) * b + (a % b)
OBVIOUS

LEMMA IntegerBytes ==
    ASSUME NEW s \in Seq(Byte)
    PROVE  \A i \in 1..Len(s) : s[i] \in Byte /\ s[i] \in Int
<1>. TAKE i \in 1..Len(s)
<1>1. s[i] \in Byte
  BY ElementOfSeq
<1>2. Byte \subseteq Int
  BY DEF Byte
<1>. QED BY <1>1, <1>2, Zenon

LEMMA Powers == 256^(1 - 1) = 1 /\ 256^(2 - 1) = 256 /\ 256^(3 - 1) = 65536 /\ 256^(4 - 1) = 16777216
OBVIOUS

(* What is read from four bytes, and from two.                             *)
LEMMA NumberOfFour ==
    ASSUME NEW s \in Seq(Byte), Len(s) = 4
    PROVE  Number(s) = s[1] + s[2] * 256 + s[3] * 65536 + s[4] * 16777216
<1>. DEFINE t == [i \in 1..Len(s) |-> s[i] * 256^(i - 1)]
<1>1. s[1] \in Int /\ s[2] \in Int /\ s[3] \in Int /\ s[4] \in Int
  <2>1. 1..Len(s) = 1..4 /\ \A i \in 1..Len(s) : s[i] \in Int
    BY IntegerBytes, Zenon
  <2>2. \A i \in 1..4 : s[i] \in Int
    BY <2>1, Zenon
  <2>. QED BY <2>2
<1>2. t[1] = s[1] /\ t[2] = s[2] * 256 /\ t[3] = s[3] * 65536 /\ t[4] = s[4] * 16777216
  <2>1. /\ t[1] = s[1] * 256^(1 - 1) /\ t[2] = s[2] * 256^(2 - 1)
        /\ t[3] = s[3] * 256^(3 - 1) /\ t[4] = s[4] * 256^(4 - 1)
    OBVIOUS
  <2>. QED BY <1>1, <2>1, Powers
<1>3. t = [i \in 1..4 |-> t[i]]
  OBVIOUS
<1>. HIDE DEF t
<1>4. \A i \in 1..4 : t[i] \in Int
  <2>. TAKE i \in 1..4
  <2>1. i = 1 \/ i = 2 \/ i = 3 \/ i = 4
    OBVIOUS
  <2>. QED BY <1>1, <1>2, <2>1
<1>5. t \in Seq(Int) /\ Len(t) = 4
  BY <1>3, <1>4
<1>6. Number(s) = Sum(t)
  BY DEF Number, t
<1>. DEFINE f == SumsOf(t)
<1>7. f[0] = 0 /\ Sum(t) = f[4] /\ \A n \in 1..4 : f[n] = f[n - 1] + t[n]
  BY <1>5, SumsDefined DEF Sum
<1>. HIDE DEF f
<1>8. f[1] = f[0] + t[1] /\ f[2] = f[1] + t[2] /\ f[3] = f[2] + t[3] /\ f[4] = f[3] + t[4]
  BY <1>7
<1>. QED BY <1>1, <1>2, <1>6, <1>7, <1>8

LEMMA NumberOfTwo ==
    ASSUME NEW s \in Seq(Byte), Len(s) = 2
    PROVE  Number(s) = s[1] + s[2] * 256
<1>. DEFINE t == [i \in 1..Len(s) |-> s[i] * 256^(i - 1)]
<1>1. s[1] \in Int /\ s[2] \in Int
  <2>1. 1..Len(s) = 1..2 /\ \A i \in 1..Len(s) : s[i] \in Int
    BY IntegerBytes, Zenon
  <2>2. \A i \in 1..2 : s[i] \in Int
    BY <2>1, Zenon
  <2>. QED BY <2>2
<1>2. t[1] = s[1] /\ t[2] = s[2] * 256
  <2>1. t[1] = s[1] * 256^(1 - 1) /\ t[2] = s[2] * 256^(2 - 1)
    OBVIOUS
  <2>. QED BY <1>1, <2>1, Powers
<1>3. t = [i \in 1..2 |-> t[i]]
  OBVIOUS
<1>. HIDE DEF t
<1>4. \A i \in 1..2 : t[i] \in Int
  <2>. TAKE i \in 1..2
  <2>1. i = 1 \/ i = 2
    OBVIOUS
  <2>. QED BY <1>1, <1>2, <2>1
<1>5. t \in Seq(Int) /\ Len(t) = 2
  BY <1>3, <1>4
<1>6. Number(s) = Sum(t)
  BY DEF Number, t
<1>. DEFINE f == SumsOf(t)
<1>7. f[0] = 0 /\ Sum(t) = f[2] /\ \A n \in 1..2 : f[n] = f[n - 1] + t[n]
  BY <1>5, SumsDefined DEF Sum
<1>. HIDE DEF f
<1>8. f[1] = f[0] + t[1] /\ f[2] = f[1] + t[2]
  BY <1>7
<1>. QED BY <1>1, <1>2, <1>6, <1>7, <1>8

(* What is written in four bytes, and in two, is what is read from them.   *)
LEMMA FourDigits ==
    ASSUME NEW n \in Nat
    PROVE  LittleEndian(n, 4) \in Seq(Byte) /\ Len(LittleEndian(n, 4)) = 4
<1>. DEFINE s == LittleEndian(n, 4)
<1>1. s = [i \in 1..4 |-> s[i]]
  BY DEF LittleEndian
<1>2. \A i \in 1..4 : s[i] \in Byte
  <2>1. /\ s[1] = (n \div 256^(1 - 1)) % 256 /\ s[2] = (n \div 256^(2 - 1)) % 256
        /\ s[3] = (n \div 256^(3 - 1)) % 256 /\ s[4] = (n \div 256^(4 - 1)) % 256
    BY DEF LittleEndian
  <2>. HIDE DEF s
  <2>. TAKE i \in 1..4
  <2>2. i = 1 \/ i = 2 \/ i = 3 \/ i = 4
    OBVIOUS
  <2>. QED BY <2>1, <2>2, Powers DEF Byte
<1>. HIDE DEF s
<1>3. s \in Seq(Byte) /\ Len(s) = 4
  BY <1>1, <1>2
<1>. QED BY <1>3 DEF s

LEMMA TwoDigits ==
    ASSUME NEW n \in Nat
    PROVE  LittleEndian(n, 2) \in Seq(Byte) /\ Len(LittleEndian(n, 2)) = 2
<1>. DEFINE s == LittleEndian(n, 2)
<1>1. s = [i \in 1..2 |-> s[i]]
  BY DEF LittleEndian
<1>2. \A i \in 1..2 : s[i] \in Byte
  <2>1. s[1] = (n \div 256^(1 - 1)) % 256 /\ s[2] = (n \div 256^(2 - 1)) % 256
    BY DEF LittleEndian
  <2>. HIDE DEF s
  <2>. TAKE i \in 1..2
  <2>2. i = 1 \/ i = 2
    OBVIOUS
  <2>. QED BY <2>1, <2>2, Powers DEF Byte
<1>. HIDE DEF s
<1>3. s \in Seq(Byte) /\ Len(s) = 2
  BY <1>1, <1>2
<1>. QED BY <1>3 DEF s

(* Numbers that fit read as they were written.                             *)
LEMMA FourBytes ==
    ASSUME NEW n \in Nat, n \div 65536 < 65536
    PROVE  LET s == LittleEndian(n, 4) IN s \in Seq(Byte) /\ Len(s) = 4 /\ Number(s) = n
<1>. DEFINE s == LittleEndian(n, 4)
<1>1. /\ s[1] = (n \div 1) % 256 /\ s[2] = (n \div 256) % 256
      /\ s[3] = (n \div 65536) % 256 /\ s[4] = (n \div 16777216) % 256
  <2>1. /\ s[1] = (n \div 256^(1 - 1)) % 256 /\ s[2] = (n \div 256^(2 - 1)) % 256
        /\ s[3] = (n \div 256^(3 - 1)) % 256 /\ s[4] = (n \div 256^(4 - 1)) % 256
    BY DEF LittleEndian
  <2>. QED BY <2>1, Powers
<1>2. s \in Seq(Byte) /\ Len(s) = 4
  BY FourDigits
<1>. HIDE DEF s
<1>3. Number(s) = s[1] + s[2] * 256 + s[3] * 65536 + s[4] * 16777216
  BY <1>2, NumberOfFour
<1>4. n = (n % 256) + ((n \div 256) % 256) * 256 + ((n \div 65536) % 256) * 65536
          + ((n \div 16777216) % 256) * 16777216
  OBVIOUS
<1>. QED BY <1>1, <1>2, <1>3, <1>4 DEF s

LEMMA TwoBytes ==
    ASSUME NEW n \in Nat, n < 65536
    PROVE  LET s == LittleEndian(n, 2) IN s \in Seq(Byte) /\ Len(s) = 2 /\ Number(s) = n
<1>. DEFINE s == LittleEndian(n, 2)
<1>1. s[1] = (n \div 1) % 256 /\ s[2] = (n \div 256) % 256
  <2>1. s[1] = (n \div 256^(1 - 1)) % 256 /\ s[2] = (n \div 256^(2 - 1)) % 256
    BY DEF LittleEndian
  <2>. QED BY <2>1, Powers
<1>2. s \in Seq(Byte) /\ Len(s) = 2
  BY TwoDigits
<1>. HIDE DEF s
<1>3. Number(s) = s[1] + s[2] * 256
  BY <1>2, NumberOfTwo
<1>4. n = (n % 256) + ((n \div 256) % 256) * 256
  OBVIOUS
<1>. QED BY <1>1, <1>2, <1>3, <1>4 DEF s

(* The ticks of a part of a second: within half a tick, and at most those   *)
(* of a whole second.                                                      *)
LEMMA TicksOfRest ==
    ASSUME NEW Part \in Nat \ {0}, NEW r \in Nat, r < TicksPerSecond * Part
    PROVE  LET n == RoundTicks(r, Part) IN
           /\ n \in Nat /\ n <= TicksPerSecond
           /\ 2 * (n * Part - r) <= Part /\ 2 * (n * Part - r) >= -Part
<1>. DEFINE q == r \div Part
            rest == r % Part
            n == RoundTicks(r, Part)
<1>1. Part \in Nat \ {0}
  OBVIOUS
<1>2. q \in Nat /\ rest \in 0..(Part - 1) /\ r = q * Part + rest
  BY <1>1, Division
<1>3. \/ n = q /\ 2 * rest <= Part
      \/ n = q + 1 /\ 2 * rest >= Part
  <2>. HIDE DEF rest, q
  <2>1. n = q + IF 2 * rest > Part \/ (2 * rest = Part /\ q % 2 = 1) THEN 1 ELSE 0
    BY DEF RoundTicks, q, rest
  <2>. QED BY <1>1, <1>2, <2>1
<1>. HIDE DEF n, q, rest
<1>4. q < 31250
  BY <1>1, <1>2 DEF TicksPerSecond
<1>5. (q + 1) * Part = q * Part + Part
  BY <1>1, <1>2
<1>. DEFINE p == q * Part
<1>6. p \in Int /\ r = p + rest
  BY <1>1, <1>2
<1>7. n * Part - r = IF n = q THEN -rest ELSE Part - rest
  <2>1. n * Part = IF n = q THEN p ELSE p + Part
    BY <1>3, <1>5
  <2>. HIDE DEF p
  <2>. QED BY <1>1, <1>2, <1>3, <1>6, <2>1
<1>. QED BY <1>1, <1>2, <1>3, <1>4, <1>7 DEF n, TicksPerSecond

(* A stamp is six bytes, of whatever time.                                 *)
LEMMA StampBytes ==
    ASSUME NEW Part \in Nat \ {0}, NEW t \in Nat
    PROVE  StampFrom(t, Part) \in Seq(Byte) /\ Len(StampFrom(t, Part)) = 6
<1>. DEFINE second == TicksPerSecond * Part
            q == t \div second
            r == t % second
            n == RoundTicks(r, Part)
            A == LittleEndian(q, 4)
            B == LittleEndian(n, 2)
<1>1. second \in Nat \ {0}
  BY DEF TicksPerSecond
<1>2. q \in Nat /\ r \in Nat /\ r < TicksPerSecond * Part
  <2>1. r \in 0..(second - 1) /\ q \in Nat
    <3>. HIDE DEF second
    <3>. QED BY <1>1, Division
  <2>2. r \in Nat /\ r < second
    <3>. HIDE DEF second, r
    <3>. QED BY <1>1, <2>1
  <2>. QED BY <2>1, <2>2
<1>3. n \in Nat
  BY <1>2, TicksOfRest
<1>4. StampFrom(t, Part) = A \o B
  BY DEF StampFrom
<1>. HIDE DEF second, q, r, n
<1>5. A \in Seq(Byte) /\ Len(A) = 4
  BY <1>2, FourDigits
<1>6. B \in Seq(Byte) /\ Len(B) = 2
  BY <1>3, TwoDigits
<1>. HIDE DEF A, B
<1>7. A \o B \in Seq(Byte) /\ Len(A \o B) = Len(A) + Len(B)
  BY <1>5, <1>6, ConcatProperties, Zenon
<1>. QED BY <1>4, <1>5, <1>6, <1>7

(* A time is stamped in six bytes and reads within half a tick.            *)
LEMMA TimeIsStamped ==
    ASSUME NEW Part \in Nat \ {0}, NEW t \in Nat, SecondsFit(t, Part)
    PROVE  LET s == StampFrom(t, Part)
               error == TicksOf(s) * Part - t
           IN  /\ s \in Seq(Byte) /\ Len(s) = 6
               /\ 2 * error <= Part /\ 2 * error >= -Part
<1>. DEFINE second == TicksPerSecond * Part
            q == t \div second
            r == t % second
            n == RoundTicks(r, Part)
            A == LittleEndian(q, 4)
            B == LittleEndian(n, 2)
            s == StampFrom(t, Part)
<1>1. Part \in Nat \ {0} /\ second \in Nat \ {0} /\ second = 31250 * Part
  BY DEF TicksPerSecond
<1>2. q \in Nat /\ r \in 0..(second - 1) /\ t = q * second + r /\ q \div 65536 < 65536
  <2>. HIDE DEF second
  <2>1. q \in Nat /\ r \in 0..(second - 1) /\ t = q * second + r
    <3>1. second \in Nat \ {0}
      BY <1>1
    <3>. QED BY <3>1
  <2>. QED BY <2>1 DEF second, SecondsFit
<1>3. s = A \o B
  BY DEF StampFrom
<1>. HIDE DEF q, r, s
<1>4. n \in Nat /\ n <= TicksPerSecond /\ 2 * (n * Part - r) <= Part /\ 2 * (n * Part - r) >= -Part
  <2>1. r \in Nat /\ r < TicksPerSecond * Part /\ Part \in Nat \ {0}
    BY <1>1, <1>2
  <2>. QED BY <2>1, TicksOfRest
<1>. HIDE DEF second, n
<1>5. A \in Seq(Byte) /\ Len(A) = 4 /\ Number(A) = q
  BY <1>2, FourBytes
<1>6. B \in Seq(Byte) /\ Len(B) = 2 /\ Number(B) = n
  <2>1. n < 65536
    BY <1>4 DEF TicksPerSecond
  <2>. QED BY <1>4, <2>1, TwoBytes
<1>. HIDE DEF A, B
<1>7. /\ s \in Seq(Byte) /\ Len(s) = 6
      /\ \A i \in 1..6 : s[i] = IF i <= 4 THEN A[i] ELSE B[i - 4]
  <2>1. /\ A \o B \in Seq(Byte) /\ Len(A \o B) = Len(A) + Len(B)
        /\ \A i \in 1..(Len(A) + Len(B)) :
              (A \o B)[i] = IF i <= Len(A) THEN A[i] ELSE B[i - Len(A)]
    <3>1. A \in Seq(Byte) /\ B \in Seq(Byte)
      BY <1>5, <1>6
    <3>. QED BY <3>1, ConcatProperties, Zenon
  <2>. QED BY <1>3, <1>5, <1>6, <2>1
<1>8. \A i \in 1..6 : s[i] \in Byte
  <2>1. \A i \in 1..Len(s) : s[i] \in Byte
    BY <1>7, IntegerBytes
  <2>. QED BY <1>7, <2>1
<1>9. SubSeq(s, 1, 4) = A
  <2>1. \A i \in 1..4 : s[i] \in Byte
    BY <1>8
  <2>2. /\ SubSeq(s, 1, 4) \in Seq(Byte) /\ Len(SubSeq(s, 1, 4)) = 4
        /\ \A i \in 1..4 : SubSeq(s, 1, 4)[i] = s[1 + i - 1]
    BY <2>1, SubSeqProperties
  <2>3. \A i \in 1..4 : SubSeq(s, 1, 4)[i] = A[i]
    BY <1>7, <2>2
  <2>. QED BY <1>5, <2>2, <2>3, SeqEqual
<1>10. SubSeq(s, 5, 6) = B
  <2>1. \A i \in 5..6 : s[i] \in Byte
    BY <1>8
  <2>2. /\ SubSeq(s, 5, 6) \in Seq(Byte) /\ Len(SubSeq(s, 5, 6)) = 2
        /\ \A i \in 1..2 : SubSeq(s, 5, 6)[i] = s[5 + i - 1]
    BY <2>1, SubSeqProperties
  <2>3. \A i \in 1..2 : SubSeq(s, 5, 6)[i] = B[i]
    <3>. TAKE i \in 1..2
    <3>1. 5 + i - 1 = 4 + i /\ 4 + i \in 1..6 /\ ~(4 + i <= 4) /\ (4 + i) - 4 = i
      OBVIOUS
    <3>. QED BY <1>7, <2>2, <3>1
  <2>. QED BY <1>6, <2>2, <2>3, SeqEqual
<1>11. TicksOf(s) = q * 31250 + n
  <2>1. TicksOf(s) = Number(A) * TicksPerSecond + Number(B)
    BY <1>9, <1>10, Zenon DEF TicksOf
  <2>. QED BY <1>2, <1>4, <1>5, <1>6, <2>1 DEF TicksPerSecond
<1>12. TicksOf(s) * Part - t = n * Part - r
  <2>1. (q * 31250 + n) * Part = q * second + n * Part
    BY <1>1, <1>2, <1>4
  <2>2. q * second \in Int /\ n * Part \in Int /\ r \in Int
    BY <1>1, <1>2, <1>4
  <2>. QED BY <1>2, <1>11, <2>1, <2>2
<1>. QED BY <1>4, <1>7, <1>12 DEF s
==============================================================================
