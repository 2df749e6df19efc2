--------------------------- MODULE DatasetProofs ---------------------------
(***************************************************************************)
(* Theorems about Register and Dataset, for every folder, recording and    *)
(* call: what is on disk is the frames meant, a read gives every complete  *)
(* one, and a reader opened with validation is of the device the folder    *)
(* names.                                                                  *)
(***************************************************************************)
EXTENDS Dataset, HarpMessageProofs

-----------------------------------------------------------------------------
(* Sequences joined                                                        *)

(* What joining the first n sequences satisfies.                           *)
JoinsUp(f, s, n) ==
    \A i \in 1..Len(s) : i <= n => f[i] = IF i = 1 THEN s[i] ELSE f[i - 1] \o s[i]

LEMMA JoinsExist ==
    ASSUME NEW S, NEW s \in Seq(Seq(S)), NEW n \in Nat
    PROVE  \E f \in [1..Len(s) -> Seq(S)] : JoinsUp(f, s, n)
<1>. DEFINE D == 1..Len(s)
            Good(k) == \E f \in [D -> Seq(S)] : JoinsUp(f, s, k)
            Bad == {k \in Nat : ~Good(k)}
<1>0. Len(s) \in Nat /\ \A i \in D : s[i] \in Seq(S)
  BY ElementOfSeq, LenProperties
<1>1. SUFFICES ASSUME Bad # {} PROVE FALSE
  OBVIOUS
<1>2. PICK k \in Bad : \A j \in Bad : k <= j
  <2>1. Bad \in SUBSET Nat
    OBVIOUS
  <2>. HIDE DEF Bad
  <2>. QED BY <1>1, <2>1, LeastElement
<1>3. CASE k = 0
  <2>. DEFINE f == [i \in D |-> <<>>]
  <2>1. f \in [D -> Seq(S)]
    BY EmptySeq
  <2>2. JoinsUp(f, s, 0)
    BY <1>0 DEF JoinsUp
  <2>. HIDE DEF f
  <2>. QED BY <1>2, <1>3, <2>1, <2>2
<1>4. CASE k # 0
  <2>1. k - 1 \in Nat /\ ~(k <= k - 1)
    BY <1>2, <1>4
  <2>2. Good(k - 1)
    <3>1. k - 1 \notin Bad
      BY <1>2, <2>1
    <3>. QED BY <2>1, <3>1
  <2>3. PICK f \in [D -> Seq(S)] : JoinsUp(f, s, k - 1)
    BY <2>2
  <2>. DEFINE e(i) == IF i <= k - 1 THEN f[i]
                      ELSE IF i = 1 THEN s[i] ELSE IF i = k THEN f[i - 1] \o s[i] ELSE <<>>
              g == [i \in D |-> e(i)]
  <2>4. ASSUME NEW i \in D PROVE e(i) \in Seq(S)
    <3>1. CASE i <= k - 1
      BY <3>1
    <3>2. CASE ~(i <= k - 1) /\ i # 1 /\ i = k
      <4>0. i - 1 \in D
        BY <1>0, <3>2
      <4>1. f[i - 1] \in Seq(S) /\ s[i] \in Seq(S)
        BY <1>0, <4>0, Zenon
      <4>2. f[i - 1] \o s[i] \in Seq(S)
        BY <4>1, ConcatProperties
      <4>. QED BY <3>2, <4>2
    <3>3. CASE ~(i <= k - 1) /\ (i = 1 \/ i # k)
      <4>0. <<>> \in Seq(S)
        BY EmptySeq
      <4>1. s[i] \in Seq(S)
        BY <1>0
      <4>2. e(i) = s[i] \/ e(i) = <<>>
        BY <3>3
      <4>. HIDE DEF e
      <4>. QED BY <4>0, <4>1, <4>2
    <3>. QED BY <3>1, <3>2, <3>3
  <2>5. g \in [D -> Seq(S)]
    BY <2>4
  <2>6. ASSUME NEW i \in D, i <= k
        PROVE  g[i] = IF i = 1 THEN s[i] ELSE g[i - 1] \o s[i]
    <3>1. i \in Nat /\ k \in Nat /\ (i # 1 => i - 1 \in D /\ i - 1 <= k - 1)
      BY <1>0, <1>2, <2>6
    <3>2. i # 1 => g[i - 1] = f[i - 1]
      BY <3>1
    <3>3. CASE i <= k - 1
      <4>1. f[i] = IF i = 1 THEN s[i] ELSE f[i - 1] \o s[i]
        BY <2>3, <3>3 DEF JoinsUp
      <4>. QED BY <3>2, <3>3, <4>1
    <3>4. CASE ~(i <= k - 1)
      <4>1. i = k
        BY <2>6, <3>1, <3>4
      <4>. QED BY <3>2, <3>4, <4>1
    <3>. QED BY <3>3, <3>4
  <2>. HIDE DEF g
  <2>7. JoinsUp(g, s, k)
    BY <2>6 DEF JoinsUp
  <2>. QED BY <1>2, <2>5, <2>7
<1>. QED BY <1>3, <1>4

(* FlattenSeq joins up, sequence by sequence.                              *)
LEMMA JoinsDefined ==
    ASSUME NEW S, NEW s \in Seq(Seq(S)), Len(s) # 0
    PROVE  \E f \in [1..Len(s) -> Seq(S)] :
              Ext!FlattenSeq(s) = f[Len(s)] /\ JoinsUp(f, s, Len(s))
<1>. DEFINE D == 1..Len(s)
            Body(f) == [i \in D |-> IF i = 1 THEN s[i] ELSE f[i - 1] \o s[i]]
            g == CHOOSE f : f = Body(f)
<1>0. Len(s) \in Nat /\ \A i \in D : s[i] \in Seq(S)
  BY ElementOfSeq, LenProperties
<1>1. PICK f \in [D -> Seq(S)] : JoinsUp(f, s, Len(s))
  BY <1>0, JoinsExist
<1>2. f = Body(f)
  <2>1. \A i \in D : i <= Len(s)
    BY <1>0
  <2>2. \A i \in D : f[i] = IF i = 1 THEN s[i] ELSE f[i - 1] \o s[i]
    BY <1>1, <2>1, Zenon DEF JoinsUp
  <2>. QED BY <2>2
<1>3. g = Body(g)
  <2>. HIDE DEF Body
  <2>. QED BY <1>2
<1>4. Ext!FlattenSeq(s) = g[Len(s)]
  BY DEF Ext!FlattenSeq
<1>. HIDE DEF g
<1>5. \A i \in D : g[i] = IF i = 1 THEN s[i] ELSE g[i - 1] \o s[i]
  BY <1>3
<1>6. \A i \in D : g[i] \in Seq(S)
  <2>. DEFINE Bad == {i \in Nat : i \in D /\ g[i] \notin Seq(S)}
  <2>0. \A i \in D : i \in Nat
    BY <1>0
  <2>1. SUFFICES ASSUME Bad # {} PROVE FALSE
    BY <2>0, Zenon
  <2>2. PICK k \in Bad : \A j \in Bad : k <= j
    <3>1. Bad \in SUBSET Nat
      OBVIOUS
    <3>. HIDE DEF Bad
    <3>. QED BY <2>1, <3>1, LeastElement
  <2>3. k \in D /\ k # 1
    BY <1>0, <1>5, <2>2
  <2>4. k - 1 \in D /\ k - 1 \notin Bad
    BY <1>0, <2>2, <2>3
  <2>5. g[k - 1] \in Seq(S) /\ s[k] \in Seq(S)
    BY <1>0, <2>3, <2>4
  <2>6. g[k - 1] \o s[k] \in Seq(S)
    BY <2>5, ConcatProperties
  <2>. QED BY <1>5, <2>2, <2>3, <2>6
<1>7. g = [i \in D |-> g[i]]
  BY <1>3
<1>8. g \in [D -> Seq(S)] /\ JoinsUp(g, s, Len(s))
  BY <1>5, <1>6, <1>7 DEF JoinsUp
<1>. QED BY <1>4, <1>8

LEMMA FlattenEmpty == Ext!FlattenSeq(<<>>) = <<>>
BY DEF Ext!FlattenSeq

LEMMA FlattenType ==
    ASSUME NEW S, NEW s \in Seq(Seq(S))
    PROVE  Ext!FlattenSeq(s) \in Seq(S)
<1>1. CASE Len(s) = 0
  <2>1. s = <<>>
    BY <1>1, EmptySeq
  <2>. QED BY <2>1, FlattenEmpty, EmptySeq
<1>2. CASE Len(s) # 0
  <2>1. Len(s) \in 1..Len(s)
    BY <1>2, LenProperties
  <2>. QED BY <1>2, <2>1, JoinsDefined, SMTT(40)
<1>. QED BY <1>1, <1>2

(* One more sequence.                                                      *)
LEMMA FlattenAppend ==
    ASSUME NEW S, NEW s \in Seq(Seq(S)), NEW x \in Seq(S)
    PROVE  Ext!FlattenSeq(Append(s, x)) = Ext!FlattenSeq(s) \o x
<1>. DEFINE N == Len(s)
            t == Append(s, x)
<1>1. /\ N \in Nat /\ t \in Seq(Seq(S)) /\ Len(t) = N + 1
      /\ \A i \in 1..N : t[i] = s[i]
      /\ t[N + 1] = x
  BY AppendProperties, LenProperties
<1>. HIDE DEF t, N
<1>2. PICK h \in [1..(N + 1) -> Seq(S)] : Ext!FlattenSeq(t) = h[N + 1] /\ JoinsUp(h, t, N + 1)
  <2>1. Len(t) # 0
    BY <1>1
  <2>2. \E h \in [1..Len(t) -> Seq(S)] : Ext!FlattenSeq(t) = h[Len(t)] /\ JoinsUp(h, t, Len(t))
    BY <1>1, <2>1, JoinsDefined
  <2>. QED BY <1>1, <2>2
<1>3. \A i \in 1..(N + 1) : h[i] = IF i = 1 THEN t[i] ELSE h[i - 1] \o t[i]
  <2>1. \A i \in 1..(N + 1) : i <= N + 1
    BY <1>1
  <2>. QED BY <1>1, <1>2, <2>1, Zenon DEF JoinsUp
<1>4. CASE N = 0
  <2>1. s = <<>>
    BY <1>4, EmptySeq DEF N
  <2>2. Ext!FlattenSeq(t) = x
    BY <1>1, <1>2, <1>3, <1>4
  <2>3. <<>> \o x = x
    BY ConcatEmptySeq
  <2>. QED BY <2>1, <2>2, <2>3, FlattenEmpty DEF t
<1>5. CASE N # 0
  <2>1. PICK g \in [1..N -> Seq(S)] : Ext!FlattenSeq(s) = g[N] /\ JoinsUp(g, s, N)
    BY <1>5, JoinsDefined DEF N
  <2>2. \A i \in 1..N : g[i] = IF i = 1 THEN s[i] ELSE g[i - 1] \o s[i]
    <3>1. \A i \in 1..N : i <= N
      BY <1>1
    <3>. QED BY <2>1, <3>1, Zenon DEF JoinsUp, N
  <2>. DEFINE Bad == {i \in Nat : i \in 1..N /\ g[i] # h[i]}
  <2>3. Bad = {}
    <3>1. SUFFICES ASSUME Bad # {} PROVE FALSE
      OBVIOUS
    <3>2. PICK k \in Bad : \A j \in Bad : k <= j
      <4>1. Bad \in SUBSET Nat
        OBVIOUS
      <4>. HIDE DEF Bad
      <4>. QED BY <3>1, <4>1, LeastElement
    <3>3. k \in 1..N /\ k \in 1..(N + 1) /\ g[k] # h[k] /\ t[k] = s[k]
      BY <1>1, <3>2
    <3>4. k # 1
      BY <1>3, <2>2, <3>3
    <3>5. k - 1 \in 1..N /\ ~(k <= k - 1) /\ k - 1 \in Nat
      BY <1>1, <3>3, <3>4
    <3>6. g[k - 1] = h[k - 1]
      BY <3>2, <3>5
    <3>7. g[k] = g[k - 1] \o s[k]
      BY <2>2, <3>3, <3>4
    <3>8. h[k] = h[k - 1] \o t[k]
      BY <1>3, <3>3, <3>4
    <3>. QED BY <3>3, <3>6, <3>7, <3>8
  <2>4. g[N] = h[N]
    <3>1. N \in Nat /\ N \in 1..N
      BY <1>1, <1>5
    <3>2. N \notin Bad
      BY <2>3, Zenon
    <3>. QED BY <3>1, <3>2
  <2>5. h[N + 1] = h[N] \o x
    <3>1. N + 1 \in 1..(N + 1) /\ N + 1 # 1 /\ (N + 1) - 1 = N
      BY <1>1, <1>5
    <3>. QED BY <1>1, <1>3, <3>1
  <2>. QED BY <1>2, <2>1, <2>4, <2>5 DEF t
<1>. QED BY <1>4, <1>5

-----------------------------------------------------------------------------
(* Rows of one length                                                      *)

LEMMA ProductGrows ==
    ASSUME NEW x \in Nat, NEW y \in Nat, x <= y, NEW L \in Nat
    PROVE  x * L <= y * L /\ x * L \in Nat /\ y * L \in Nat
<1>. DEFINE d == y - x
<1>1. d \in Nat /\ y = x + d
  OBVIOUS
<1>. HIDE DEF d
<1>2. x * L \in Nat /\ d * L \in Nat /\ y * L = x * L + d * L
  BY <1>1
<1>. QED BY <1>2

LEMMA DivisionUnique ==
    ASSUME NEW L \in Nat \ {0}, NEW q \in Nat, NEW r \in 0..(L - 1)
    PROVE  (q * L + r) \div L = q /\ (q * L + r) % L = r
<1>. DEFINE a == q * L + r
            Q == a \div L
            R == a % L
            p == q * L
            P == Q * L
<1>1. p \in Nat /\ a = p + r /\ a \in Nat
  BY ProductGrows
<1>. HIDE DEF a
<1>2. Q \in Nat /\ R \in 0..(L - 1) /\ a = P + R
  BY <1>1, Division
<1>. HIDE DEF Q, R
<1>3. P \in Nat
  BY <1>2, ProductGrows
<1>4. Q <= q
  <2>1. SUFFICES ASSUME q + 1 <= Q PROVE FALSE
    BY <1>2
  <2>2. (q + 1) * L <= P /\ (q + 1) * L = p + L
    BY <1>2, <2>1, ProductGrows
  <2>. HIDE DEF p, P
  <2>. QED BY <1>1, <1>2, <1>3, <2>2
<1>5. q <= Q
  <2>1. SUFFICES ASSUME Q + 1 <= q PROVE FALSE
    BY <1>2
  <2>2. (Q + 1) * L <= p /\ (Q + 1) * L = P + L
    BY <1>2, <2>1, ProductGrows
  <2>. HIDE DEF p, P
  <2>. QED BY <1>1, <1>2, <1>3, <2>2
<1>6. Q = q
  BY <1>2, <1>4, <1>5
<1>7. P = p
  BY <1>6
<1>. HIDE DEF p, P
<1>8. R = r
  BY <1>1, <1>2, <1>3, <1>7
<1>. QED BY <1>6, <1>8 DEF Q, R, a

(* Joined, rows of one length are a table.                                 *)
LEMMA FlattenRows ==
    ASSUME NEW S, NEW s \in Seq(Seq(S)), NEW L \in Nat \ {0},
           \A i \in 1..Len(s) : Len(s[i]) = L
    PROVE  /\ Ext!FlattenSeq(s) \in Seq(S) /\ Len(Ext!FlattenSeq(s)) = Len(s) * L
           /\ \A k \in 1..(Len(s) * L) :
                 Ext!FlattenSeq(s)[k] = s[((k - 1) \div L) + 1][((k - 1) % L) + 1]
<1>. DEFINE N == Len(s)
            At(k) == s[((k - 1) \div L) + 1][((k - 1) % L) + 1]
<1>1. N \in Nat /\ \A i \in 1..N : s[i] \in Seq(S) /\ Len(s[i]) = L
  BY ElementOfSeq, LenProperties
<1>2. CASE N = 0
  <2>1. s = <<>> /\ N * L = 0 /\ 1..(N * L) = {}
    BY <1>2, EmptySeq
  <2>2. Len(Ext!FlattenSeq(s)) = 0
    BY <2>1, FlattenEmpty
  <2>. HIDE DEF At
  <2>3. \A k \in 1..(N * L) : Ext!FlattenSeq(s)[k] = At(k)
    BY <2>1
  <2>. QED BY <2>1, <2>2, <2>3, FlattenType DEF At
<1>3. CASE N # 0
  <2>1. PICK f \in [1..N -> Seq(S)] : Ext!FlattenSeq(s) = f[N] /\ JoinsUp(f, s, N)
    BY <1>3, JoinsDefined
  <2>2. \A i \in 1..N : f[i] = IF i = 1 THEN s[i] ELSE f[i - 1] \o s[i]
    <3>1. \A i \in 1..N : i <= N
      BY <1>1
    <3>. QED BY <2>1, <3>1, Zenon DEF JoinsUp
  <2>. HIDE DEF N
  <2>. DEFINE Right(n) == Len(f[n]) = n * L /\ \A k \in 1..(n * L) : f[n][k] = At(k)
              Bad == {n \in Nat : n \in 1..N /\ ~Right(n)}
  <2>. HIDE DEF At, Right
  <2>3. SUFFICES ASSUME Bad # {} PROVE FALSE
    <3>1. N \in 1..N /\ N \in Nat
      BY <1>1, <1>3
    <3>2. Bad = {} => Right(N)
      BY <3>1
    <3>. QED BY <2>1, <3>1, <3>2, FlattenType DEF Right, At, N
  <2>4. PICK n \in Bad : \A j \in Bad : n <= j
    <3>1. Bad \in SUBSET Nat
      OBVIOUS
    <3>. HIDE DEF Bad
    <3>. QED BY <2>3, <3>1, LeastElement
  <2>5. n \in 1..N /\ n \in Nat /\ ~Right(n) /\ s[n] \in Seq(S) /\ Len(s[n]) = L /\ f[n] \in Seq(S)
    BY <1>1, <2>4
  <2>. DEFINE p == (n - 1) * L
  <2>6. n - 1 \in Nat /\ p \in Nat /\ n * L = p + L
    <3>1. n - 1 \in Nat /\ n = (n - 1) + 1
      BY <2>5
    <3>2. p \in Nat
      BY <3>1, ProductGrows
    <3>. QED BY <3>1, <3>2
  <2>7. ASSUME NEW k \in (p + 1)..(p + L) PROVE At(k) = s[n][k - p]
    <3>. DEFINE r == k - 1 - p
    <3>1. r \in 0..(L - 1) /\ k - 1 = p + r
      BY <2>6
    <3>. HIDE DEF r
    <3>2. (p + r) \div L = n - 1 /\ (p + r) % L = r
      BY <2>6, <3>1, DivisionUnique
    <3>3. (k - 1) \div L = n - 1 /\ (k - 1) % L = r
      BY <3>1, <3>2
    <3>4. ((k - 1) \div L) + 1 = n /\ ((k - 1) % L) + 1 = k - p
      BY <2>5, <2>6, <3>1, <3>3
    <3>. QED BY <3>4 DEF At
  <2>. HIDE DEF p
  <2>8. CASE n = 1
    <3>1. p = 0 /\ n * L = L
      BY <2>8 DEF p
    <3>2. f[n] = s[n]
      BY <2>2, <2>5, <2>8
    <3>3. \A k \in 1..(n * L) : At(k) = s[n][k]
      <4>1. \A k \in 1..L : k \in (p + 1)..(p + L) /\ k - p = k
        BY <3>1
      <4>. QED BY <2>7, <3>1, <4>1
    <3>. QED BY <2>5, <3>1, <3>2, <3>3 DEF Right
  <2>9. CASE n # 1
    <3>1. n - 1 \in 1..N /\ n - 1 \notin Bad
      BY <1>1, <2>4, <2>5, <2>9
    <3>2. Right(n - 1)
      BY <2>6, <3>1
    <3>3. f[n - 1] \in Seq(S) /\ Len(f[n - 1]) = p /\ \A k \in 1..p : f[n - 1][k] = At(k)
      BY <3>1, <3>2 DEF Right, p
    <3>4. f[n] = f[n - 1] \o s[n]
      BY <2>2, <2>5, <2>9
    <3>5. /\ Len(f[n]) = p + L
          /\ \A k \in 1..(p + L) : f[n][k] = IF k <= p THEN f[n - 1][k] ELSE s[n][k - p]
      <4>0. f[n - 1] \in Seq(S) /\ s[n] \in Seq(S)
        BY <2>5, <3>3
      <4>1. /\ Len(f[n - 1] \o s[n]) = Len(f[n - 1]) + Len(s[n])
            /\ \A k \in 1..(Len(f[n - 1]) + Len(s[n])) :
                  (f[n - 1] \o s[n])[k] =
                      IF k <= Len(f[n - 1]) THEN f[n - 1][k] ELSE s[n][k - Len(f[n - 1])]
        BY <4>0, ConcatProperties, ZenonT(40)
      <4>. QED BY <2>5, <3>3, <3>4, <4>1, Zenon
    <3>6. ASSUME NEW k \in 1..(p + L) PROVE f[n][k] = At(k)
      <4>1. CASE k <= p
        <5>1. k \in 1..p
          BY <2>6, <4>1
        <5>. QED BY <3>3, <3>5, <4>1, <5>1
      <4>2. CASE ~(k <= p)
        <5>1. k \in (p + 1)..(p + L)
          BY <2>6, <4>2
        <5>. QED BY <2>7, <3>5, <4>2, <5>1
      <4>. QED BY <4>1, <4>2
    <3>. QED BY <2>5, <2>6, <3>5, <3>6 DEF Right
  <2>. QED BY <2>8, <2>9
<1>. QED BY <1>2, <1>3

-----------------------------------------------------------------------------
(* What is written                                                         *)

(* The arguments of to_file are those of messages, as it says itself.      *)
LEMMA MeantIsMessage ==
    ASSUME NEW s \in Stem, NEW v \in Values[s],
           BulkFormats(v.register, v.rows, v.types, v.times), NEW i \in 1..Len(v.rows)
    PROVE  LET type == v.types[IF Len(v.types) = 1 THEN 1 ELSE i]
               stamp == IF v.times = None THEN <<>> ELSE StampFrom(v.times[i], Part)
           IN  /\ type \in Byte /\ IsMessageType(type) /\ v.rows[i] \in Seq(Byte)
               /\ stamp \in Seq(Byte) /\ Len(stamp) = IF v.times = None THEN 0 ELSE 6
               /\ v.register.address \in Byte /\ v.register.payloadType \in PayloadType
               /\ v.register.itemsize \in Nat /\ Len(v.rows[i]) = v.register.itemsize
               /\ Meant(v, i) =
                    [type |-> TypeFromByte(type).type, error |-> TypeFromByte(type).error,
                     address |-> v.register.address, port |-> 255,
                     payloadType |-> v.register.payloadType,
                     stamp |-> stamp, payload |-> v.rows[i]]
               /\ Meant(v, i) \in Message
<1>. DEFINE reg == v.register
            row == v.rows[i]
            type == v.types[IF Len(v.types) = 1 THEN 1 ELSE i]
            stamp == IF v.times = None THEN <<>> ELSE StampFrom(v.times[i], Part)
            m == Meant(v, i)
<1>1. /\ reg \in RegisterClass /\ reg.address # NoAddress /\ v.rows \in Seq(Seq(Byte))
      /\ v.types \in Seq({b \in Byte : IsMessageType(b)}) /\ v.times \in Seq(Nat) \cup {None}
  BY ValuesAssumption
<1>2. /\ Len(v.types) \in {1, Len(v.rows)} /\ (v.times # None => Len(v.times) = Len(v.rows))
      /\ \A j \in DOMAIN v.rows : Len(v.rows[j]) = reg.itemsize
  BY DEF BulkFormats
<1>3. reg.address \in Byte /\ reg.payloadType \in PayloadType /\ reg.itemsize \in Nat
  BY <1>1 DEF RegisterClass
<1>4. row \in Seq(Byte) /\ Len(row) = reg.itemsize
  BY <1>1, <1>2, ElementOfSeq, LenProperties
<1>5. type \in Byte /\ IsMessageType(type)
  <2>1. (IF Len(v.types) = 1 THEN 1 ELSE i) \in 1..Len(v.types)
    <3>1. Len(v.rows) \in Nat /\ 1 \in 1..1
      BY <1>1, LenProperties
    <3>2. CASE Len(v.types) = 1
      BY <3>1, <3>2
    <3>3. CASE Len(v.types) # 1
      BY <1>2, <3>3
    <3>. QED BY <3>2, <3>3
  <2>2. type \in {b \in Byte : IsMessageType(b)}
    BY <1>1, <2>1, ElementOfSeq
  <2>. QED BY <2>2
<1>6. v.times # None => v.times[i] \in Nat
  BY <1>1, <1>2, ElementOfSeq
<1>7. stamp \in Seq(Byte) /\ Len(stamp) = IF v.times = None THEN 0 ELSE 6
  <2>1. CASE v.times = None
    BY <2>1, EmptySeq
  <2>2. CASE v.times # None
    <3>1. Part \in Nat \ {0} /\ v.times[i] \in Nat
      BY <1>6, <2>2, BoundAssumption
    <3>. QED BY <2>2, <3>1, StampBytes
  <2>. QED BY <2>1, <2>2
<1>8. type # None /\ row # None /\ (v.times # None => v.times[i] # None)
  <2>1. None \notin Nat /\ None \notin Seq(Byte)
    BY NoneAssumption
  <2>2. type \in Nat
    <3>1. Byte \subseteq Nat
      BY DEF Byte
    <3>. HIDE DEF type
    <3>. QED BY <1>5, <3>1
  <2>. QED BY <1>4, <1>6, <2>1, <2>2
<1>9. Stamp(IF v.times = None THEN None ELSE v.times[i], Part) = stamp
  BY <1>8 DEF Stamp
<1>10. m = [type |-> TypeFromByte(type).type, error |-> TypeFromByte(type).error,
            address |-> reg.address, port |-> 255, payloadType |-> reg.payloadType,
            stamp |-> stamp, payload |-> row]
  BY <1>8, <1>9, Zenon DEF Meant, Formatted, DefaultPort
<1>11. TypeFromByte(type).type \in MessageType /\ TypeFromByte(type).error \in BOOLEAN
  BY <1>5, TypeByteMade
<1>12. 255 \in Byte
  BY DEF Byte
<1>. HIDE DEF m, reg, row, type, stamp
<1>13. m \in Message
  BY <1>3, <1>4, <1>7, <1>10, <1>11, <1>12 DEF Message
<1>. QED BY <1>3, <1>4, <1>5, <1>7, <1>10, <1>13 DEF m, reg, row, type, stamp

(* A row of the table, summed, is the frame of its message.                *)
LEMMA RowIsFrame ==
    ASSUME NEW s \in Stem, NEW v \in Values[s],
           BulkFormats(v.register, v.rows, v.types, v.times), NEW i \in 1..Len(v.rows)
    PROVE  LET stride == Stride(v.register, v.times # None)
               m == Meant(v, i)
           IN  /\ Sendable(m) /\ BuildFrame(m) \in Seq(Byte)
               /\ stride \in Nat \ {0} /\ Len(BuildFrame(m)) = stride
               /\ Summed(BulkBody(v.register, v.rows, v.types, v.times, DefaultPort, Part, i))
                    = BuildFrame(m)
<1>. DEFINE reg == v.register
            row == v.rows[i]
            type == v.types[IF Len(v.types) = 1 THEN 1 ELSE i]
            st == IF v.times = None THEN <<>> ELSE StampFrom(v.times[i], Part)
            m == Meant(v, i)
            u == Unsummed(m)
            stride == Stride(reg, v.times # None)
            k == Len(st)
            n == Len(row)
            pt == PayloadTypeToByte(reg.payloadType, v.times # None)
            five == <<type, stride - 2, reg.address, 255, pt>>
            front == five \o st
            body == front \o row
<1>1. /\ type \in Byte /\ IsMessageType(type) /\ row \in Seq(Byte)
      /\ st \in Seq(Byte) /\ k = IF v.times = None THEN 0 ELSE 6
      /\ reg.address \in Byte /\ reg.payloadType \in PayloadType
      /\ reg.itemsize \in Nat /\ n = reg.itemsize
      /\ m = [type |-> TypeFromByte(type).type, error |-> TypeFromByte(type).error,
              address |-> reg.address, port |-> 255, payloadType |-> reg.payloadType,
              stamp |-> st, payload |-> row]
      /\ m \in Message
  BY MeantIsMessage
<1>2. BulkBody(reg, v.rows, v.types, v.times, DefaultPort, Part, i) = body
  BY DEF BulkBody, DefaultPort
<1>3. stride = 6 + k + n /\ k \in Nat /\ n \in Nat /\ stride - 2 \in Byte
  <2>1. stride = (IF v.times # None THEN 11 ELSE 5) + reg.itemsize + 1
    BY DEF Stride, Offset, HeaderLen, TimestampLen
  <2>2. stride - 2 \in Byte
    BY DEF BulkFormats
  <2>. HIDE DEF stride, k, n, reg
  <2>. QED BY <1>1, <2>1, <2>2
<1>4. (st # <<>>) <=> (v.times # None)
  <2>1. st # <<>> <=> k # 0
    BY <1>1, EmptySeq
  <2>. HIDE DEF st, k
  <2>. QED BY <1>1, <2>1
<1>5. /\ m.type = TypeFromByte(type).type /\ m.error = TypeFromByte(type).error
      /\ m.address = reg.address /\ m.port = 255 /\ m.payloadType = reg.payloadType
      /\ m.stamp = st /\ m.payload = row
  <2>. HIDE DEF m
  <2>. QED BY <1>1
<1>6. TypeToByte(m.type, m.error) = type
  BY <1>1, <1>5, TypeByteMade
<1>. HIDE DEF stride, m, type, st, row
<1>7. PayloadTypeToByte(m.payloadType, m.stamp # <<>>) = pt
  <2>1. (m.stamp # <<>>) = (v.times # None)
    BY <1>4, <1>5
  <2>. QED BY <1>5, <2>1
<1>8. /\ u \in Seq(Int) /\ Len(u) = 5 + k + n
      /\ u[1] = type /\ u[2] = 4 + k + n /\ u[3] = reg.address /\ u[4] = 255 /\ u[5] = pt
      /\ \A j \in 1..k : u[5 + j] = st[j]
      /\ \A j \in 1..n : u[5 + k + j] = row[j]
  <2>1. /\ u \in Seq(Int) /\ Len(u) = 5 + Len(m.stamp) + Len(m.payload)
        /\ u[1] = TypeToByte(m.type, m.error) /\ u[2] = 4 + Len(m.stamp) + Len(m.payload)
        /\ u[3] = m.address /\ u[4] = m.port
        /\ u[5] = PayloadTypeToByte(m.payloadType, m.stamp # <<>>)
        /\ \A j \in 1..Len(m.stamp) : u[5 + j] = m.stamp[j]
        /\ \A j \in 1..Len(m.payload) : u[5 + Len(m.stamp) + j] = m.payload[j]
    <3>1. m \in Message
      BY <1>1
    <3>. QED BY <3>1, FrameBody, Zenon
  <2>. HIDE DEF u, reg, pt
  <2>. QED BY <1>5, <1>6, <1>7, <2>1
<1>. HIDE DEF reg, u
<1>9. pt \in Byte
  <2>1. (v.times # None) \in BOOLEAN
    OBVIOUS
  <2>. QED BY <1>1, <2>1, PayloadByteRead
<1>. HIDE DEF pt, k, n
<1>10. /\ five \in Seq(Byte) /\ Len(five) = 5
       /\ five[1] = type /\ five[2] = stride - 2 /\ five[3] = reg.address /\ five[4] = 255
       /\ five[5] = pt
  <2>1. 255 \in Byte
    BY DEF Byte
  <2>. QED BY <1>1, <1>3, <1>9, <2>1
<1>. HIDE DEF five
<1>11. /\ front \in Seq(Byte) /\ Len(front) = 5 + k
       /\ \A j \in 1..(5 + k) : front[j] = IF j <= 5 THEN five[j] ELSE st[j - 5]
  <2>1. /\ front \in Seq(Byte) /\ Len(front) = Len(five) + Len(st)
        /\ \A j \in 1..(Len(five) + Len(st)) :
              front[j] = IF j <= Len(five) THEN five[j] ELSE st[j - Len(five)]
    <3>1. five \in Seq(Byte) /\ st \in Seq(Byte)
      BY <1>1, <1>10
    <3>. QED BY <3>1, ConcatProperties, Zenon DEF front
  <2>2. Len(five) = 5 /\ Len(st) = k
    BY <1>10 DEF k
  <2>. QED BY <2>1, <2>2, Zenon
<1>. HIDE DEF front
<1>12. /\ body \in Seq(Byte) /\ Len(body) = 5 + k + n
       /\ \A j \in 1..(5 + k + n) : body[j] = IF j <= 5 + k THEN front[j] ELSE row[j - (5 + k)]
  <2>1. /\ body \in Seq(Byte) /\ Len(body) = Len(front) + Len(row)
        /\ \A j \in 1..(Len(front) + Len(row)) :
              body[j] = IF j <= Len(front) THEN front[j] ELSE row[j - Len(front)]
    <3>1. front \in Seq(Byte) /\ row \in Seq(Byte)
      BY <1>1, <1>11
    <3>. QED BY <3>1, ConcatProperties, Zenon DEF body
  <2>. QED BY <1>11, <2>1, Zenon DEF n
<1>. HIDE DEF body
<1>13. u = body
  <2>1. body \in Seq(Int)
    <3>1. Byte \subseteq Int
      BY DEF Byte
    <3>. QED BY <1>12, <3>1, SeqMonotonic, Zenon
  <2>2. ASSUME NEW j \in 1..Len(u) PROVE u[j] = body[j]
    <3>0. j \in Nat /\ 1 <= j /\ j <= 5 + k + n /\ j \in 1..(5 + k + n)
      BY <1>3, <1>8, <2>2
    <3>1. CASE j <= 5
      <4>1. body[j] = five[j]
        <5>1. j <= 5 + k /\ j \in 1..(5 + k)
          BY <1>3, <3>0, <3>1
        <5>. QED BY <1>11, <1>12, <3>0, <3>1, <5>1
      <4>2. j = 1 \/ j = 2 \/ j = 3 \/ j = 4 \/ j = 5
        BY <3>0, <3>1
      <4>3. stride - 2 = 4 + k + n
        BY <1>3
      <4>4. u[j] = five[j]
        BY <1>8, <1>10, <4>2, <4>3, SMTT(40)
      <4>. QED BY <4>1, <4>4
    <3>2. CASE j > 5 /\ j <= 5 + k
      <4>1. j - 5 \in 1..k /\ 5 + (j - 5) = j /\ ~(j <= 5) /\ j \in 1..(5 + k)
        BY <1>3, <3>0, <3>2
      <4>2. u[j] = st[j - 5]
        BY <1>8, <4>1, SMTT(40)
      <4>3. body[j] = front[j] /\ front[j] = st[j - 5]
        BY <1>11, <1>12, <3>0, <3>2, <4>1
      <4>. QED BY <4>2, <4>3
    <3>3. CASE j > 5 + k
      <4>1. j - (5 + k) \in 1..n /\ 5 + k + (j - (5 + k)) = j /\ ~(j <= 5 + k)
        BY <1>3, <3>0, <3>3
      <4>2. u[j] = row[j - (5 + k)]
        BY <1>8, <4>1, SMTT(40)
      <4>3. body[j] = row[j - (5 + k)]
        BY <1>12, <3>0, <4>1
      <4>. QED BY <4>2, <4>3
    <3>. QED BY <1>3, <3>0, <3>1, <3>2, <3>3
  <2>3. Len(u) = Len(body)
    BY <1>8, <1>12
  <2>. QED BY <1>8, <2>1, <2>2, <2>3, SeqEqual
<1>14. Summed(body) = BuildFrame(m)
  BY <1>13 DEF Summed, BuildFrame, u
<1>15. Buildable(m)
  <2>1. u[2] = stride - 2
    BY <1>3, <1>8
  <2>. QED BY <1>3, <2>1 DEF Buildable, u
<1>16. BuildFrame(m) \in Seq(Byte) /\ Len(BuildFrame(m)) = stride
  <2>1. BuildFrame(m) \in Seq(Byte) /\ Len(BuildFrame(m)) = Len(u) + 1
    BY <1>1, <1>15, FrameBuilt DEF u
  <2>. QED BY <1>3, <1>8, <2>1
<1>17. stride \in Nat \ {0}
  BY <1>3
<1>18. Sendable(m)
  <2>1. Len(m.stamp) = 0 \/ Len(m.stamp) = 6
    BY <1>1, <1>5 DEF k
  <2>. QED BY <1>15, <2>1 DEF Sendable, TimestampLen
<1>. QED BY <1>2, <1>14, <1>16, <1>17, <1>18 DEF stride, m, reg

(* The table, row after row, is the frames, one after the other.           *)
LEMMA TableIsFrames ==
    ASSUME NEW s \in Stem, NEW v \in Values[s],
           BulkFormats(v.register, v.rows, v.types, v.times)
    PROVE  /\ FormatBulk(v.register, v.rows, v.types, v.times, DefaultPort, Part)
                = FramesBuilt([i \in DOMAIN v.rows |-> Meant(v, i)])
           /\ FormatBulk(v.register, v.rows, v.types, v.times, DefaultPort, Part) \in Seq(Byte)
           /\ [i \in DOMAIN v.rows |-> Meant(v, i)] \in Seq(Message)
           /\ \A i \in DOMAIN v.rows : Sendable(Meant(v, i))
<1>. DEFINE R == Len(v.rows)
            L == Stride(v.register, v.times # None)
            Frame(i) == BuildFrame(Meant(v, i))
            row == [i \in 1..R |-> Summed(BulkBody(v.register, v.rows, v.types, v.times,
                                                   DefaultPort, Part, i))]
            g == [i \in 1..R |-> Frame(i)]
            ms == [i \in 1..R |-> Meant(v, i)]
            table == FormatBulk(v.register, v.rows, v.types, v.times, DefaultPort, Part)
<1>1. R \in Nat /\ DOMAIN v.rows = 1..R
  <2>1. v.rows \in Seq(Seq(Byte))
    BY ValuesAssumption
  <2>. QED BY <2>1, LenProperties
<1>2. \A i \in 1..R : Sendable(Meant(v, i)) /\ Frame(i) \in Seq(Byte) /\ Len(Frame(i)) = L
                      /\ Meant(v, i) \in Message
  BY RowIsFrame, MeantIsMessage
<1>3. row = g
  <2>1. \A i \in 1..R : Summed(BulkBody(v.register, v.rows, v.types, v.times,
                                        DefaultPort, Part, i)) = Frame(i)
    BY RowIsFrame
  <2>. QED BY <2>1
<1>4. table = [k \in 1..R * L |-> row[((k - 1) \div L) + 1][((k - 1) % L) + 1]]
  BY DEF FormatBulk
<1>5. ms \in Seq(Message) /\ DOMAIN ms = 1..R
  BY <1>1, <1>2
<1>6. FramesBuilt(ms) = Ext!FlattenSeq(g)
  <2>1. [i \in DOMAIN ms |-> BuildFrame(ms[i])] = g
    BY <1>5
  <2>. QED BY <2>1 DEF FramesBuilt
<1>. HIDE DEF table, row, Frame
<1>7. g \in Seq(Seq(Byte)) /\ Len(g) = R /\ \A i \in 1..R : Len(g[i]) = L
  BY <1>1, <1>2
<1>8. table = Ext!FlattenSeq(g)
  <2>1. CASE R = 0
    <3>1. L \in Int
      <4>1. v.register \in RegisterClass
        BY ValuesAssumption
      <4>2. v.register.itemsize \in Int
        BY <4>1 DEF RegisterClass
      <4>. QED BY <4>2 DEF Stride, Offset, HeaderLen, TimestampLen
    <3>. HIDE DEF L
    <3>2. R * L = 0 /\ 1..(R * L) = {} /\ 1..R = {}
      BY <2>1, <3>1
    <3>3. table = <<>>
      BY <1>4, <3>2
    <3>4. g = <<>>
      BY <3>2
    <3>. QED BY <3>3, <3>4, FlattenEmpty
  <2>2. CASE R # 0
    <3>1. 1 \in 1..R
      BY <1>1, <2>2
    <3>2. L \in Nat \ {0}
      BY <3>1, RowIsFrame
    <3>. HIDE DEF g, L
    <3>3. /\ Ext!FlattenSeq(g) \in Seq(Byte) /\ Len(Ext!FlattenSeq(g)) = R * L
          /\ \A k \in 1..(R * L) :
                Ext!FlattenSeq(g)[k] = g[((k - 1) \div L) + 1][((k - 1) % L) + 1]
      <4>1. \A i \in 1..Len(g) : Len(g[i]) = L
        BY <1>7
      <4>2. /\ Ext!FlattenSeq(g) \in Seq(Byte) /\ Len(Ext!FlattenSeq(g)) = Len(g) * L
            /\ \A k \in 1..(Len(g) * L) :
                  Ext!FlattenSeq(g)[k] = g[((k - 1) \div L) + 1][((k - 1) % L) + 1]
        BY <1>7, <3>2, <4>1, FlattenRows, Zenon
      <4>. QED BY <1>7, <4>2, Zenon
    <3>. DEFINE h == Ext!FlattenSeq(g)
    <3>4. h = [k \in 1..(R * L) |-> h[k]]
      <4>1. DOMAIN h = 1..(R * L) /\ h = [k \in DOMAIN h |-> h[k]]
        BY <3>3, LenProperties
      <4>. QED BY <4>1
    <3>5. table = [k \in 1..(R * L) |-> g[((k - 1) \div L) + 1][((k - 1) % L) + 1]]
      BY <1>3, <1>4
    <3>. HIDE DEF h
    <3>6. \A k \in 1..(R * L) : h[k] = g[((k - 1) \div L) + 1][((k - 1) % L) + 1]
      BY <3>3 DEF h
    <3>7. table = [k \in 1..(R * L) |-> h[k]]
      BY <3>5, <3>6, Zenon
    <3>. QED BY <3>4, <3>7 DEF h
  <2>. QED BY <2>1, <2>2
<1>9. table \in Seq(Byte)
  <2>. HIDE DEF g
  <2>. QED BY <1>7, <1>8, FlattenType
<1>. QED BY <1>1, <1>2, <1>5, <1>6, <1>8, <1>9 DEF table

-----------------------------------------------------------------------------
(* Files found                                                             *)

(* What keeping the members in T of the first n satisfies.                 *)
KeepsUp(f, s, T, n) ==
    /\ f[0] = <<>>
    /\ \A i \in 1..Len(s) :
          i <= n => f[i] = IF s[i] \in T THEN Append(f[i - 1], s[i]) ELSE f[i - 1]

LEMMA KeepsExist ==
    ASSUME NEW S, NEW T, NEW s \in Seq(S), NEW n \in Nat
    PROVE  \E f \in [0..Len(s) -> Seq(S \cap T)] : KeepsUp(f, s, T, n)
<1>. DEFINE D == 0..Len(s)
            Kept == Seq(S \cap T)
            Good(k) == \E f \in [D -> Kept] : KeepsUp(f, s, T, k)
            Bad == {k \in Nat : ~Good(k)}
<1>0. Len(s) \in Nat /\ \A i \in 1..Len(s) : s[i] \in S
  BY ElementOfSeq, LenProperties
<1>1. SUFFICES ASSUME Bad # {} PROVE FALSE
  OBVIOUS
<1>2. PICK k \in Bad : \A j \in Bad : k <= j
  <2>1. Bad \in SUBSET Nat
    OBVIOUS
  <2>. HIDE DEF Bad
  <2>. QED BY <1>1, <2>1, LeastElement
<1>3. CASE k = 0
  <2>. DEFINE f == [i \in D |-> <<>>]
  <2>1. f \in [D -> Kept]
    BY EmptySeq
  <2>2. KeepsUp(f, s, T, 0)
    BY <1>0 DEF KeepsUp
  <2>. HIDE DEF f
  <2>. QED BY <1>2, <1>3, <2>1, <2>2
<1>4. CASE k # 0
  <2>1. k \in Nat /\ k - 1 \in Nat /\ ~(k <= k - 1)
    BY <1>2, <1>4
  <2>2. Good(k - 1)
    <3>1. k - 1 \notin Bad
      BY <1>2, <2>1
    <3>. QED BY <2>1, <3>1
  <2>3. PICK f \in [D -> Kept] : KeepsUp(f, s, T, k - 1)
    BY <2>2
  <2>. DEFINE last == IF s[k] \in T THEN Append(f[k - 1], s[k]) ELSE f[k - 1]
              g == [f EXCEPT ![k] = last]
  <2>4. CASE k \in D
    <3>1. k - 1 \in D /\ k \in 1..Len(s)
      BY <1>0, <2>1, <2>4
    <3>2. f[k - 1] \in Kept /\ s[k] \in S
      BY <1>0, <3>1
    <3>3. last \in Kept
      <4>1. CASE s[k] \in T
        <5>1. s[k] \in S \cap T
          BY <3>2, <4>1
        <5>. QED BY <3>2, <4>1, <5>1, AppendProperties
      <4>2. CASE s[k] \notin T
        BY <3>2, <4>2
      <4>. QED BY <4>1, <4>2
    <3>. HIDE DEF last, Kept
    <3>4. g \in [D -> Kept] /\ g[k] = last /\ \A i \in D : i # k => g[i] = f[i]
      BY <2>4, <3>3
    <3>. HIDE DEF g
    <3>5. g[0] = <<>>
      BY <1>0, <2>1, <2>3, <3>4, <1>4 DEF KeepsUp
    <3>6. ASSUME NEW i \in 1..Len(s), i <= k
          PROVE  g[i] = IF s[i] \in T THEN Append(g[i - 1], s[i]) ELSE g[i - 1]
      <4>1. i \in Nat /\ i \in D /\ i - 1 \in D /\ i - 1 # k
        BY <1>0, <2>1, <3>6
      <4>2. g[i - 1] = f[i - 1]
        BY <3>4, <4>1
      <4>3. CASE i = k
        BY <3>4, <4>2, <4>3 DEF last
      <4>4. CASE i # k
        <5>1. i <= k - 1
          BY <2>1, <3>6, <4>1, <4>4
        <5>2. f[i] = IF s[i] \in T THEN Append(f[i - 1], s[i]) ELSE f[i - 1]
          BY <2>3, <5>1 DEF KeepsUp
        <5>. QED BY <3>4, <4>1, <4>2, <4>4, <5>2
      <4>. QED BY <4>3, <4>4
    <3>7. KeepsUp(g, s, T, k)
      BY <3>5, <3>6 DEF KeepsUp
    <3>. QED BY <1>2, <3>4, <3>7 DEF Kept
  <2>5. CASE k \notin D
    <3>1. \A i \in 1..Len(s) : i <= k - 1
      BY <1>0, <2>1, <2>5
    <3>2. KeepsUp(f, s, T, k)
      BY <2>3, <3>1 DEF KeepsUp
    <3>. QED BY <1>2, <2>3, <3>2
  <2>. QED BY <2>4, <2>5
<1>. QED BY <1>3, <1>4

LEMMA AmongDefined ==
    ASSUME NEW S, NEW T, NEW s \in Seq(S)
    PROVE  \E f \in [0..Len(s) -> Seq(S \cap T)] :
              Among(s, T) = f[Len(s)] /\ KeepsUp(f, s, T, Len(s))
<1>. DEFINE D == 0..Len(s)
            Kept == Seq(S \cap T)
            Body(f) == [n \in D |-> IF n = 0 THEN <<>>
                                    ELSE IF s[n] \in T THEN Append(f[n - 1], s[n]) ELSE f[n - 1]]
            g == CHOOSE f : f = Body(f)
<1>0. Len(s) \in Nat /\ \A i \in 1..Len(s) : s[i] \in S
  BY ElementOfSeq, LenProperties
<1>1. PICK f \in [D -> Kept] : KeepsUp(f, s, T, Len(s))
  BY <1>0, KeepsExist
<1>2. f = Body(f)
  <2>1. \A i \in 1..Len(s) : i <= Len(s)
    BY <1>0
  <2>2. /\ f[0] = <<>>
        /\ \A i \in 1..Len(s) : f[i] = IF s[i] \in T THEN Append(f[i - 1], s[i]) ELSE f[i - 1]
    BY <1>1, <2>1, Zenon DEF KeepsUp
  <2>3. \A i \in D : i = 0 \/ (i # 0 /\ i \in 1..Len(s))
    BY <1>0
  <2>4. \A i \in D : f[i] = IF i = 0 THEN <<>>
                            ELSE IF s[i] \in T THEN Append(f[i - 1], s[i]) ELSE f[i - 1]
    BY <2>2, <2>3, Zenon
  <2>5. f = [i \in D |-> f[i]]
    OBVIOUS
  <2>. QED BY <2>4, <2>5, Zenon
<1>3. g = Body(g)
  <2>. HIDE DEF Body
  <2>. QED BY <1>2
<1>4. Among(s, T) = g[Len(s)]
  BY DEF Among
<1>. HIDE DEF g
<1>5. g[0] = <<>>
      /\ \A i \in 1..Len(s) : g[i] = IF s[i] \in T THEN Append(g[i - 1], s[i]) ELSE g[i - 1]
  <2>1. \A i \in D : g[i] = IF i = 0 THEN <<>>
                            ELSE IF s[i] \in T THEN Append(g[i - 1], s[i]) ELSE g[i - 1]
    BY <1>3
  <2>2. 0 \in D /\ \A i \in 1..Len(s) : i \in D /\ i # 0
    BY <1>0
  <2>. QED BY <2>1, <2>2, Zenon
<1>6. \A i \in D : g[i] \in Kept
  <2>. DEFINE Bad == {i \in Nat : i \in D /\ g[i] \notin Kept}
  <2>0. \A i \in D : i \in Nat
    BY <1>0
  <2>1. SUFFICES ASSUME Bad # {} PROVE FALSE
    BY <2>0, Zenon
  <2>2. PICK k \in Bad : \A j \in Bad : k <= j
    <3>1. Bad \in SUBSET Nat
      OBVIOUS
    <3>. HIDE DEF Bad
    <3>. QED BY <2>1, <3>1, LeastElement
  <2>3. k \in D /\ k # 0
    <3>1. <<>> \in Kept
      BY EmptySeq
    <3>. QED BY <1>5, <2>2, <3>1
  <2>4. k - 1 \in D /\ k - 1 \notin Bad /\ k \in 1..Len(s)
    BY <1>0, <2>2, <2>3
  <2>5. g[k - 1] \in Kept /\ s[k] \in S
    BY <1>0, <2>3, <2>4
  <2>6. g[k] \in Kept
    <3>1. CASE s[k] \in T
      <4>1. s[k] \in S \cap T
        BY <2>5, <3>1
      <4>2. Append(g[k - 1], s[k]) \in Kept
        BY <2>5, <4>1, AppendProperties
      <4>. QED BY <1>5, <2>4, <3>1, <4>2
    <3>2. CASE s[k] \notin T
      BY <1>5, <2>4, <2>5, <3>2
    <3>. QED BY <3>1, <3>2
  <2>. QED BY <2>2, <2>6
<1>7. g = [i \in D |-> g[i]]
  BY <1>3
<1>8. g \in [D -> Kept] /\ KeepsUp(g, s, T, Len(s))
  BY <1>5, <1>6, <1>7 DEF KeepsUp
<1>. QED BY <1>4, <1>8

LEMMA AmongType ==
    ASSUME NEW S, NEW T, NEW s \in Seq(S)
    PROVE  Among(s, T) \in Seq(S \cap T)
<1>1. Len(s) \in 0..Len(s)
  <2>1. Len(s) \in Nat
    BY LenProperties
  <2>. QED BY <2>1
<1>2. PICK f \in [0..Len(s) -> Seq(S \cap T)] : Among(s, T) = f[Len(s)]
  BY AmongDefined
<1>. QED BY <1>1, <1>2

(* What is left of a list in order is in order.                            *)
LEMMA AmongInOrder ==
    ASSUME NEW s \in Seq(Stem), NEW T, InNameOrder(s)
    PROVE  InNameOrder(Among(s, T))
<1>. DEFINE N == Len(s)
            Before(p, q) == Position(p) < Position(q)
<1>0. N \in Nat /\ DOMAIN s = 1..N
  BY LenProperties
<1>1. PICK f \in [0..N -> Seq(Stem \cap T)] : Among(s, T) = f[N] /\ KeepsUp(f, s, T, N)
  BY AmongDefined
<1>2. /\ f[0] = <<>>
      /\ \A i \in 1..N : f[i] = IF s[i] \in T THEN Append(f[i - 1], s[i]) ELSE f[i - 1]
  <2>1. \A i \in 1..N : i <= N
    BY <1>0
  <2>. QED BY <1>1, <2>1, Zenon DEF KeepsUp
<1>3. \A i, j \in 1..N : i < j => Before(s[i], s[j])
  BY <1>0 DEF InNameOrder
<1>. HIDE DEF N, Before
<1>. DEFINE Right(n) ==
                /\ \A i \in 1..Len(f[n]) : \E k \in 1..n : f[n][i] = s[k]
                /\ \A i, j \in 1..Len(f[n]) : i < j => Before(f[n][i], f[n][j])
            Bad == {n \in Nat : n \in 0..N /\ ~Right(n)}
<1>4. Bad = {}
  <2>. SUFFICES ASSUME Bad # {} PROVE FALSE
    OBVIOUS
  <2>1. PICK n \in Bad : \A j \in Bad : n <= j
    <3>1. Bad \in SUBSET Nat
      OBVIOUS
    <3>. HIDE DEF Bad
    <3>. QED BY <3>1, LeastElement
  <2>2. n \in 0..N /\ n \in Nat /\ ~Right(n)
    BY <2>1
  <2>3. n # 0
    <3>1. 1..Len(<<>>) = {}
      BY EmptySeq
    <3>. QED BY <1>2, <2>2, <3>1
  <2>. DEFINE m == n - 1
  <2>4. m \in 0..N /\ m \in Nat /\ m \notin Bad /\ n \in 1..N /\ n = m + 1
    BY <1>0, <2>1, <2>2, <2>3
  <2>5. Right(m)
    BY <2>4
  <2>. HIDE DEF Bad, m
  <2>6. f[n] = IF s[n] \in T THEN Append(f[m], s[n]) ELSE f[m]
    BY <1>2, <2>4 DEF m
  <2>7. \A k \in 1..m : k \in 1..n /\ k \in 1..N /\ k < n
    BY <1>0, <2>4
  <2>8. CASE s[n] \notin T
    BY <2>2, <2>5, <2>6, <2>7, <2>8
  <2>9. CASE s[n] \in T
    <3>. DEFINE x == f[m]
                L == Len(x)
                y == Append(x, s[n])
    <3>0. x \in Seq(Stem \cap T) /\ s[n] \in Stem \cap T
      BY <1>1, <2>4, <2>9, ElementOfSeq DEF N
    <3>1. /\ L \in Nat /\ Len(y) = L + 1 /\ y[L + 1] = s[n] /\ \A i \in 1..L : y[i] = x[i]
      BY <3>0, AppendProperties, LenProperties
    <3>2. /\ \A i \in 1..L : \E k \in 1..m : x[i] = s[k]
          /\ \A i, j \in 1..L : i < j => Before(x[i], x[j])
      BY <2>5
    <3>. HIDE DEF Right, x, L, y
    <3>3. \A i \in 1..(L + 1) : i = L + 1 \/ i \in 1..L
      BY <3>1
    <3>4. n \in 1..n
      BY <2>4
    <3>5. \A i \in 1..(L + 1) : \E k \in 1..n : y[i] = s[k]
      BY <2>7, <3>1, <3>2, <3>3, <3>4
    <3>6. ASSUME NEW i \in 1..(L + 1), NEW j \in 1..(L + 1), i < j PROVE Before(y[i], y[j])
      <4>1. i \in 1..L
        BY <3>1, <3>6
      <4>2. CASE j \in 1..L
        BY <3>1, <3>2, <3>6, <4>1, <4>2
      <4>3. CASE j = L + 1
        <5>1. PICK k \in 1..m : x[i] = s[k]
          BY <3>2, <4>1
        <5>2. Before(s[k], s[n])
          BY <1>3, <2>4, <2>7, <5>1
        <5>. QED BY <3>1, <4>1, <4>3, <5>1, <5>2
      <4>. QED BY <3>3, <4>2, <4>3
    <3>7. f[n] = y
      BY <2>6, <2>9 DEF y, x
    <3>8. Right(n)
      BY <3>1, <3>5, <3>6, <3>7 DEF Right
    <3>. QED BY <2>2, <3>8
  <2>. QED BY <2>8, <2>9
<1>5. Right(N)
  <2>1. N \in 0..N /\ N \in Nat
    BY <1>0 DEF N
  <2>. QED BY <1>4, <2>1
<1>6. DOMAIN f[N] = 1..Len(f[N])
  <2>1. f[N] \in Seq(Stem \cap T)
    BY <1>0, <1>1 DEF N
  <2>. QED BY <2>1, LenProperties
<1>. QED BY <1>1, <1>5, <1>6 DEF InNameOrder, Before

LEMMA FolderInOrder == Folder \in Seq(Stem) /\ InNameOrder(Folder)
<1>1. Folder \in Seq(Stem) /\ DOMAIN Folder = 1..Len(Folder) /\ Len(Folder) \in Nat
  BY FolderAssumption, LenProperties
<1>2. \A i \in DOMAIN Folder : Position(Folder[i]) = i
  BY FolderAssumption DEF Position
<1>. QED BY <1>1, <1>2 DEF InNameOrder

(* The chunks of an address are files that are there, in order.            *)
LEMMA ChunksInOrder ==
    ASSUME NEW name, NEW a
    PROVE  Chunks(name, a) \in Seq(Existing) /\ InNameOrder(Chunks(name, a))
<1>. DEFINE T == {s \in Existing : Matches(s, name, a)}
<1>1. Among(Folder, T) \in Seq(Stem \cap T) /\ InNameOrder(Among(Folder, T))
  BY FolderInOrder, AmongType, AmongInOrder
<1>2. Stem \cap T \subseteq Existing
  OBVIOUS
<1>. HIDE DEF T
<1>3. Among(Folder, T) \in Seq(Existing)
  BY <1>1, <1>2, SeqMonotonic
<1>. QED BY <1>1, <1>3 DEF Chunks, T

-----------------------------------------------------------------------------
(* The files on disk                                                       *)

AFile == [bytes : Seq(Byte), frames : Seq(Message), cut : Message \cup {None}]

LEMMA FramesAppended ==
    ASSUME NEW fs \in Seq(Message), \A i \in DOMAIN fs : Sendable(fs[i]),
           NEW m \in Message, Sendable(m)
    PROVE  /\ FramesBuilt(fs) \in Seq(Byte) /\ BuildFrame(m) \in Seq(Byte)
           /\ FramesBuilt(Append(fs, m)) = FramesBuilt(fs) \o BuildFrame(m)
           /\ Append(fs, m) \in Seq(Message)
           /\ \A i \in DOMAIN Append(fs, m) : Sendable(Append(fs, m)[i])
<1>. DEFINE N == Len(fs)
            built == [i \in 1..N |-> BuildFrame(fs[i])]
            more == Append(fs, m)
<1>1. N \in Nat /\ DOMAIN fs = 1..N /\ \A i \in 1..N : fs[i] \in Message
  BY ElementOfSeq, LenProperties
<1>2. /\ more \in Seq(Message) /\ Len(more) = N + 1 /\ DOMAIN more = 1..(N + 1)
      /\ more[N + 1] = m /\ \A i \in 1..N : more[i] = fs[i]
  BY AppendProperties, LenProperties
<1>. HIDE DEF N, more
<1>3. BuildFrame(m) \in Seq(Byte)
  BY FrameBuilt DEF Sendable
<1>4. \A i \in 1..N : BuildFrame(fs[i]) \in Seq(Byte)
  BY <1>1, FrameBuilt DEF Sendable
<1>5. built \in Seq(Seq(Byte)) /\ Len(built) = N
  BY <1>1, <1>4
<1>6. [i \in 1..(N + 1) |-> BuildFrame(more[i])] = Append(built, BuildFrame(m))
  <2>. DEFINE longer == [i \in 1..(N + 1) |-> BuildFrame(more[i])]
              other == Append(built, BuildFrame(m))
  <2>1. \A i \in 1..(N + 1) : BuildFrame(more[i]) \in Seq(Byte)
    <3>1. \A i \in 1..(N + 1) : i = N + 1 \/ i \in 1..N
      BY <1>1
    <3>. QED BY <1>2, <1>3, <1>4, <3>1, Zenon
  <2>2. longer \in Seq(Seq(Byte)) /\ Len(longer) = N + 1
    BY <1>1, <2>1
  <2>3. /\ other \in Seq(Seq(Byte)) /\ Len(other) = N + 1
        /\ other[N + 1] = BuildFrame(m) /\ \A i \in 1..N : other[i] = built[i]
    <3>. HIDE DEF built
    <3>1. BuildFrame(m) \in Seq(Byte) /\ built \in Seq(Seq(Byte)) /\ Len(built) = N
      BY <1>3, <1>5
    <3>. QED BY <1>1, <3>1, AppendProperties
  <2>4. ASSUME NEW i \in 1..(N + 1) PROVE longer[i] = other[i]
    <3>1. longer[i] = BuildFrame(more[i])
      OBVIOUS
    <3>2. CASE i = N + 1
      BY <1>2, <2>3, <3>1, <3>2
    <3>3. CASE i # N + 1
      <4>1. i \in 1..N
        BY <1>1, <3>3
      <4>2. other[i] = BuildFrame(fs[i]) /\ more[i] = fs[i]
        BY <1>2, <2>3, <4>1
      <4>. QED BY <3>1, <4>2
    <3>. QED BY <3>2, <3>3
  <2>. HIDE DEF longer, other
  <2>5. longer = other
    BY <2>2, <2>3, <2>4, SeqEqual
  <2>. QED BY <2>5 DEF longer, other
<1>7. FramesBuilt(more) = FramesBuilt(fs) \o BuildFrame(m)
  <2>1. FramesBuilt(more) = Ext!FlattenSeq(Append(built, BuildFrame(m)))
    BY <1>2, <1>6 DEF FramesBuilt
  <2>2. FramesBuilt(fs) = Ext!FlattenSeq(built)
    BY <1>1 DEF FramesBuilt
  <2>. HIDE DEF built
  <2>. QED BY <1>3, <1>5, <2>1, <2>2, FlattenAppend
<1>8. FramesBuilt(fs) \in Seq(Byte)
  <2>1. FramesBuilt(fs) = Ext!FlattenSeq(built)
    BY <1>1 DEF FramesBuilt
  <2>. HIDE DEF built
  <2>. QED BY <1>5, <2>1, FlattenType
<1>9. \A i \in DOMAIN more : Sendable(more[i])
  <2>1. \A i \in 1..(N + 1) : i = N + 1 \/ i \in 1..N
    BY <1>1
  <2>. QED BY <1>1, <1>2, <2>1
<1>. QED BY <1>2, <1>3, <1>7, <1>8, <1>9 DEF more

LEMMA FileThere ==
    ASSUME TypeOK, \A s \in Existing : Holds(files[s]), NEW s \in Stem
    PROVE  File(s) \in AFile /\ Holds(File(s))
<1>1. CASE files[s] = None
  <2>1. File(s) = [bytes |-> <<>>, frames |-> <<>>, cut |-> None]
    BY <1>1 DEF File
  <2>2. FramesBuilt(<<>>) = <<>>
    <3>1. [i \in DOMAIN <<>> |-> BuildFrame(<<>>[i])] = <<>>
      OBVIOUS
    <3>. QED BY <3>1, FlattenEmpty DEF FramesBuilt
  <2>3. <<>> \in Seq(Byte) /\ <<>> \in Seq(Message)
    BY EmptySeq
  <2>. QED BY <2>1, <2>2, <2>3 DEF AFile, Holds
<1>2. CASE files[s] # None
  BY <1>2 DEF File, AFile, TypeOK, Existing
<1>. QED BY <1>1, <1>2

LEMMA FileReplaced ==
    ASSUME IInv, NEW s \in Stem, NEW f \in AFile, Holds(f),
           files' = [files EXCEPT ![s] = f], UNCHANGED <<deviceYml, reader>>
    PROVE  IInv'
<1>1. TypeOK'
  BY DEF IInv, TypeOK, AFile
<1>2. ASSUME NEW t \in Existing' PROVE Holds(files'[t])
  BY <1>2 DEF IInv, TypeOK, Existing
<1>3. OpensOwnDevice'
  BY DEF IInv, OpensOwnDevice
<1>4. (\A t \in Existing : Holds(files[t]))'
  BY <1>2
<1>5. Existing \subseteq Existing'
  <2>1. f # None
    BY FileAssumption DEF AFile
  <2>. QED BY <2>1 DEF IInv, TypeOK, Existing
<1>6. (reader # None => ReadsFolder)'
  <2>. SUFFICES ASSUME reader # None PROVE ReadsFolder'
    OBVIOUS
  <2>1. ReadsFolder
    BY DEF IInv
  <2>2. reader' = reader /\ Registers' = Registers
    BY DEF Registers
  <2>3. \A a \in DOMAIN reader.paths :
            reader.paths[a] \in Seq(Existing') /\ InNameOrder(reader.paths[a])
    BY <1>5, <2>1, SeqMonotonic DEF ReadsFolder
  <2>. QED BY <2>1, <2>2, <2>3 DEF ReadsFolder
<1>. QED BY <1>1, <1>3, <1>4, <1>6 DEF IInv

(* A reader opened in a folder is of its device.                           *)
LEMMA OpenedAsItself ==
    ASSUME IInv, NEW call \in Call, Open(call)
    PROVE  OpensOwnDevice'
<1>1. /\ reader' = [module |-> ModuleOf(call), name |-> NameOf(call),
                    paths |-> Resolve(NameOf(call)), validate |-> call.validate]
      /\ deviceYml' = deviceYml /\ CanBuild(call)
      /\ Checked(call) => WhoAmIFits(ModuleOf(call))
  BY DEF Open
<1>2. reader'.module = ModuleOf(call) /\ reader'.validate = call.validate
  BY <1>1
<1>3. SUFFICES ASSUME deviceYml \notin {None, Damaged}, call.validate,
                      ModuleOf(call).WHO_AM_I # 0
               PROVE  deviceYml.whoAmI \in {None, ModuleOf(call).WHO_AM_I}
  BY <1>1, <1>2 DEF OpensOwnDevice
<1>4. CASE call.module # None \/ call.schema # None
  BY <1>1, <1>3, <1>4 DEF Checked, WhoAmIFits
<1>5. CASE call.module = None /\ call.schema = None
  <2>1. ModuleOf(call) = Built(deviceYml)
    BY <1>5 DEF ModuleOf
  <2>2. ModuleOf(call).WHO_AM_I = IF deviceYml.whoAmI = None THEN 0 ELSE deviceYml.whoAmI
    BY <2>1 DEF Built
  <2>. QED BY <1>3, <2>2
<1>. QED BY <1>4, <1>5

(* It has registers of a device, and files of the folder in order.         *)
LEMMA OpenedInFolder ==
    ASSUME IInv, NEW call \in Call, Open(call)
    PROVE  ReadsFolder'
<1>1. /\ reader' = [module |-> ModuleOf(call), name |-> NameOf(call),
                    paths |-> Resolve(NameOf(call)), validate |-> call.validate]
      /\ files' = files /\ CanBuild(call)
  BY DEF Open
<1>2. Registers' = ModuleOf(call).REGISTER_MAP /\ reader'.paths = Resolve(NameOf(call))
  BY <1>1 DEF Registers
<1>3. deviceYml \in Schema \cup {None}
  BY SchemaAssumption DEF IInv, TypeOK
<1>4. \E module \in Module \cup {schema.module : schema \in Schema \ {Damaged}} :
          ModuleOf(call).REGISTER_MAP = module.REGISTER_MAP
  <2>1. CASE call.module # None
    BY <2>1 DEF ModuleOf, Call
  <2>2. CASE call.module = None
    <3>. DEFINE schema == IF call.schema = None THEN deviceYml ELSE call.schema
    <3>1. schema \in Schema \ {Damaged}
      BY <1>1, <1>3, <2>2 DEF CanBuild, Call
    <3>2. ModuleOf(call) = Built(schema)
      BY <2>2 DEF ModuleOf
    <3>. HIDE DEF schema
    <3>3. ModuleOf(call).REGISTER_MAP = schema.module.REGISTER_MAP
      BY <3>2 DEF Built
    <3>. QED BY <3>1, <3>3
  <2>. QED BY <2>1, <2>2
<1>5. /\ DOMAIN Registers' \subseteq Byte
      /\ \A a \in DOMAIN Registers' : Registers'[a].register \in RegisterClass
  BY <1>2, <1>4, ModuleAssumption
<1>6. ASSUME NEW a \in DOMAIN Resolve(NameOf(call))
      PROVE  /\ Resolve(NameOf(call))[a] \in Seq(Existing)
             /\ InNameOrder(Resolve(NameOf(call))[a])
  <2>1. Resolve(NameOf(call))[a] = Chunks(NameOf(call), a)
    BY <1>6 DEF Resolve
  <2>. QED BY <2>1, ChunksInOrder
<1>7. Existing' = Existing
  BY <1>1 DEF Existing
<1>. QED BY <1>2, <1>5, <1>6, <1>7 DEF ReadsFolder

LEMMA FilesKept == IInv /\ [Next]_vars => IInv'
<1>. SUFFICES ASSUME IInv, [Next]_vars PROVE IInv'
  OBVIOUS
<1>0. TypeOK /\ \A s \in Existing : Holds(files[s])
  BY DEF IInv
<1>1. ASSUME NEW s \in Stem, NEW m \in Traffic[s], Log(s, m) PROVE IInv'
  <2>. DEFINE f == File(s)
              g == [bytes |-> f.bytes \o BuildFrame(m), frames |-> Append(f.frames, m),
                    cut |-> None]
  <2>1. f \in AFile /\ Holds(f) /\ f.cut = None
    BY <1>0, <1>1, FileThere DEF Log
  <2>2. m \in Message /\ Sendable(m)
    BY TrafficAssumption
  <2>. HIDE DEF f
  <2>3. /\ f.bytes \in Seq(Byte) /\ f.frames \in Seq(Message) /\ f.bytes = FramesBuilt(f.frames)
        /\ \A i \in DOMAIN f.frames : Sendable(f.frames[i])
    BY <2>1 DEF AFile, Holds
  <2>4. /\ BuildFrame(m) \in Seq(Byte)
        /\ FramesBuilt(Append(f.frames, m)) = f.bytes \o BuildFrame(m)
        /\ Append(f.frames, m) \in Seq(Message)
        /\ \A i \in DOMAIN Append(f.frames, m) : Sendable(Append(f.frames, m)[i])
    BY <2>2, <2>3, FramesAppended
  <2>5. f.bytes \o BuildFrame(m) \in Seq(Byte)
    BY <2>3, <2>4, ConcatProperties
  <2>6. g \in AFile /\ Holds(g)
    BY <2>4, <2>5 DEF AFile, Holds
  <2>7. files' = [files EXCEPT ![s] = g] /\ UNCHANGED <<deviceYml, reader>>
    BY <1>1 DEF Log, f
  <2>. HIDE DEF g
  <2>. QED BY <2>6, <2>7, FileReplaced
<1>2. ASSUME NEW s \in Stem, NEW m \in Traffic[s], NEW n \in {3, 8}, Tear(s, m, n) PROVE IInv'
  <2>. DEFINE f == File(s)
              part == SubSeq(BuildFrame(m), 1, n)
              g == [bytes |-> f.bytes \o part, frames |-> f.frames, cut |-> m]
  <2>1. f \in AFile /\ Holds(f) /\ f.cut = None
    BY <1>0, <1>2, FileThere DEF Tear
  <2>2. m \in Message /\ Sendable(m)
    BY TrafficAssumption
  <2>. HIDE DEF f
  <2>3. /\ f.bytes \in Seq(Byte) /\ f.frames \in Seq(Message) /\ f.bytes = FramesBuilt(f.frames)
        /\ \A i \in DOMAIN f.frames : Sendable(f.frames[i])
    BY <2>1 DEF AFile, Holds
  <2>4. BuildFrame(m) \in Seq(Byte)
    BY <2>2, FrameBuilt DEF Sendable
  <2>5. n \in Nat /\ n < Len(BuildFrame(m)) /\ Len(BuildFrame(m)) \in Nat
    BY <1>2, <2>4, LenProperties DEF Tear
  <2>6. part \in Seq(Byte)
    BY <2>4, <2>5, SubSeqProperties
  <2>7. f.bytes \o part \in Seq(Byte)
    BY <2>3, <2>6, ConcatProperties
  <2>8. n \in 0..(Len(BuildFrame(m)) - 1)
    BY <2>5
  <2>9. m # None
    BY <2>2, NoneAssumption
  <2>10. g \in AFile
    BY <2>2, <2>3, <2>7 DEF AFile
  <2>11. Holds(g)
    <3>1. /\ g.cut = m /\ g.frames = f.frames
          /\ g.bytes = FramesBuilt(f.frames) \o SubSeq(BuildFrame(m), 1, n)
      BY <2>3
    <3>. HIDE DEF g
    <3>. QED BY <2>2, <2>3, <2>8, <2>9, <3>1, Zenon DEF Holds
  <2>12. files' = [files EXCEPT ![s] = g] /\ UNCHANGED <<deviceYml, reader>>
    BY <1>2 DEF Tear, f
  <2>. HIDE DEF g
  <2>. QED BY <2>10, <2>11, <2>12, FileReplaced
<1>3. ASSUME NEW s \in Stem, NEW v \in Values[s], ToFile(s, v) PROVE IInv'
  <2>. DEFINE ms == [i \in DOMAIN v.rows |-> Meant(v, i)]
              table == FormatBulk(v.register, v.rows, v.types, v.times, DefaultPort, Part)
              g == [bytes |-> table, frames |-> ms, cut |-> None]
  <2>1. BulkFormats(v.register, v.rows, v.types, v.times)
    BY <1>3 DEF ToFile
  <2>2. /\ table = FramesBuilt(ms) /\ table \in Seq(Byte) /\ ms \in Seq(Message)
        /\ \A i \in DOMAIN v.rows : Sendable(Meant(v, i))
    BY <2>1, TableIsFrames
  <2>3. \A i \in DOMAIN ms : Sendable(ms[i])
    BY <2>2
  <2>4. files' = [files EXCEPT ![s] = g] /\ UNCHANGED <<deviceYml, reader>>
    BY <1>3 DEF ToFile
  <2>. HIDE DEF ms, table
  <2>5. g \in AFile /\ Holds(g)
    BY <2>2, <2>3 DEF AFile, Holds
  <2>. HIDE DEF g
  <2>. QED BY <2>4, <2>5, FileReplaced
<1>4. ASSUME NEW call \in Call, Open(call) PROVE IInv'
  <2>1. files' = files /\ deviceYml' = deviceYml
    BY <1>4 DEF Open
  <2>2. OpensOwnDevice' /\ ReadsFolder'
    BY <1>4, OpenedAsItself, OpenedInFolder
  <2>3. TypeOK' /\ (\A s \in Existing : Holds(files[s]))'
    BY <1>0, <2>1 DEF TypeOK, Existing
  <2>. QED BY <2>2, <2>3 DEF IInv
<1>5. CASE UNCHANGED vars
  <2>1. files' = files /\ deviceYml' = deviceYml /\ reader' = reader
    BY <1>5 DEF vars
  <2>2. TypeOK' /\ (\A s \in Existing : Holds(files[s]))' /\ OpensOwnDevice'
    BY <2>1 DEF IInv, TypeOK, Existing, OpensOwnDevice
  <2>3. Existing' = Existing /\ Registers' = Registers
    BY <2>1 DEF Existing, Registers
  <2>4. (reader # None => ReadsFolder)'
    BY <2>1, <2>3 DEF IInv, ReadsFolder
  <2>. QED BY <2>2, <2>4 DEF IInv
<1>. QED BY <1>1, <1>2, <1>3, <1>4, <1>5 DEF Next

-----------------------------------------------------------------------------
(* What is read                                                            *)

LEMMA JoinsAssociate ==
    ASSUME NEW S, NEW a \in Seq(S), NEW b \in Seq(S), NEW c \in Seq(S)
    PROVE  (a \o b) \o c = a \o (b \o c)
BY ConcatAssociative

LEMMA AppendJoins ==
    ASSUME NEW S, NEW s \in Seq(S), NEW t \in Seq(S), NEW x \in S
    PROVE  s \o Append(t, x) = Append(s \o t, x)
<1>1. <<x>> \in Seq(S) /\ s \o t \in Seq(S)
  BY ConcatProperties
<1>2. Append(t, x) = t \o <<x>> /\ Append(s \o t, x) = (s \o t) \o <<x>>
  BY <1>1, AppendIsConcat
<1>3. (s \o t) \o <<x>> = s \o (t \o <<x>>)
  BY <1>1, JoinsAssociate
<1>. QED BY <1>2, <1>3

LEMMA FlattenOneMore ==
    ASSUME NEW S, NEW s \in Seq(Seq(S)), NEW t \in Seq(Seq(S)), NEW x \in Seq(S),
           Ext!FlattenSeq(s \o t) = Ext!FlattenSeq(s) \o Ext!FlattenSeq(t)
    PROVE  Ext!FlattenSeq(s \o Append(t, x)) = Ext!FlattenSeq(s) \o Ext!FlattenSeq(Append(t, x))
<1>1. Ext!FlattenSeq(s) \in Seq(S) /\ Ext!FlattenSeq(t) \in Seq(S)
  BY FlattenType
<1>2. s \o t \in Seq(Seq(S)) /\ s \o Append(t, x) = Append(s \o t, x)
  BY ConcatProperties, AppendJoins
<1>3. /\ Ext!FlattenSeq(Append(s \o t, x)) = Ext!FlattenSeq(s \o t) \o x
      /\ Ext!FlattenSeq(Append(t, x)) = Ext!FlattenSeq(t) \o x
  BY <1>2, FlattenAppend
<1>4. (Ext!FlattenSeq(s) \o Ext!FlattenSeq(t)) \o x
        = Ext!FlattenSeq(s) \o (Ext!FlattenSeq(t) \o x)
  BY <1>1, JoinsAssociate
<1>. QED BY <1>2, <1>3, <1>4

LEMMA FlattenConcat ==
    ASSUME NEW S, NEW s \in Seq(Seq(S)), NEW t \in Seq(Seq(S))
    PROVE  Ext!FlattenSeq(s \o t) = Ext!FlattenSeq(s) \o Ext!FlattenSeq(t)
<1>. DEFINE F(x) == Ext!FlattenSeq(x)
            Bad == {n \in Nat : \E u \in Seq(Seq(S)) : Len(u) = n /\ F(s \o u) # F(s) \o F(u)}
<1>1. Bad = {}
  <2>. SUFFICES ASSUME Bad # {} PROVE FALSE
    OBVIOUS
  <2>1. PICK n \in Bad : \A k \in Bad : n <= k
    <3>1. Bad \in SUBSET Nat
      OBVIOUS
    <3>. HIDE DEF Bad
    <3>. QED BY <3>1, LeastElement
  <2>2. PICK u \in Seq(Seq(S)) : Len(u) = n /\ F(s \o u) # F(s) \o F(u)
    BY <2>1
  <2>3. F(s) \in Seq(S)
    BY FlattenType
  <2>. HIDE DEF F
  <2>4. u # <<>>
    <3>1. s \o <<>> = s
      BY ConcatEmptySeq
    <3>2. F(<<>>) = <<>>
      BY FlattenEmpty DEF F
    <3>3. F(s) \o <<>> = F(s)
      BY <2>3, ConcatEmptySeq
    <3>. QED BY <2>2, <3>1, <3>2, <3>3
  <2>5. PICK v \in Seq(Seq(S)), x \in Seq(S) : u = Append(v, x)
    BY <2>4, SequenceEmptyOrAppend
  <2>6. Len(v) \in Nat /\ n = Len(v) + 1
    BY <2>2, <2>5, AppendProperties, LenProperties
  <2>7. Len(v) \notin Bad
    <3>. HIDE DEF Bad
    <3>. QED BY <2>1, <2>6
  <2>8. F(s \o v) = F(s) \o F(v)
    BY <2>6, <2>7
  <2>9. F(s \o u) = F(s) \o F(u)
    BY <2>5, <2>8, FlattenOneMore DEF F
  <2>. QED BY <2>2, <2>9
<1>2. Len(t) \in Nat /\ Len(t) \notin Bad
  BY <1>1, LenProperties
<1>. QED BY <1>2

(* Messages of whose frames nothing is lost.                               *)
Whole(fs) == fs \in Seq(Message) /\ \A i \in 1..Len(fs) : Sendable(fs[i])

LEMMA FramesConcat ==
    ASSUME NEW fs, NEW gs, Whole(fs), Whole(gs)
    PROVE  /\ Whole(fs \o gs) /\ FramesBuilt(fs) \in Seq(Byte) /\ FramesBuilt(gs) \in Seq(Byte)
           /\ FramesBuilt(fs \o gs) = FramesBuilt(fs) \o FramesBuilt(gs)
<1>. DEFINE M == Len(fs)
            N == Len(gs)
            hs == fs \o gs
            B(m) == BuildFrame(m)
            b == [i \in 1..M |-> B(fs[i])]
            c == [i \in 1..N |-> B(gs[i])]
            d == [i \in 1..(M + N) |-> B(hs[i])]
<1>1. /\ M \in Nat /\ N \in Nat /\ DOMAIN fs = 1..M /\ DOMAIN gs = 1..N
      /\ fs \in Seq(Message) /\ gs \in Seq(Message)
      /\ \A i \in 1..M : fs[i] \in Message /\ Sendable(fs[i])
      /\ \A i \in 1..N : gs[i] \in Message /\ Sendable(gs[i])
  BY ElementOfSeq, LenProperties DEF Whole
<1>2. /\ hs \in Seq(Message) /\ Len(hs) = M + N
      /\ \A i \in 1..(M + N) : hs[i] = IF i <= M THEN fs[i] ELSE gs[i - M]
  BY <1>1, ConcatProperties
<1>. HIDE DEF M, N, hs
<1>3. \A m \in Message : Sendable(m) => B(m) \in Seq(Byte)
  BY FrameBuilt DEF Sendable
<1>. HIDE DEF B
<1>4. ASSUME NEW i \in 1..(M + N)
      PROVE  \/ i <= M /\ i \in 1..M /\ hs[i] = fs[i]
             \/ ~(i <= M) /\ i - M \in 1..N /\ hs[i] = gs[i - M]
  BY <1>1, <1>2
<1>5. Whole(hs)
  <2>1. \A i \in 1..(M + N) : Sendable(hs[i])
    BY <1>1, <1>4
  <2>. QED BY <1>2, <2>1 DEF Whole
<1>6. b \in Seq(Seq(Byte)) /\ Len(b) = M /\ c \in Seq(Seq(Byte)) /\ Len(c) = N
  BY <1>1, <1>3
<1>7. \A i \in 1..(M + N) : B(hs[i]) \in Seq(Byte)
  BY <1>1, <1>3, <1>4, Zenon
<1>8. d \in Seq(Seq(Byte)) /\ Len(d) = M + N
  BY <1>1, <1>7
<1>9. d = b \o c
  <2>. DEFINE e == b \o c
  <2>1. /\ e \in Seq(Seq(Byte)) /\ Len(e) = M + N
        /\ \A i \in 1..(M + N) : e[i] = IF i <= M THEN b[i] ELSE c[i - M]
    <3>. HIDE DEF b, c
    <3>. QED BY <1>6, ConcatProperties
  <2>. HIDE DEF e
  <2>2. ASSUME NEW i \in 1..(M + N) PROVE d[i] = e[i]
    <3>1. d[i] = B(hs[i])
      OBVIOUS
    <3>2. CASE i <= M /\ i \in 1..M /\ hs[i] = fs[i]
      BY <2>1, <3>1, <3>2
    <3>3. CASE ~(i <= M) /\ i - M \in 1..N /\ hs[i] = gs[i - M]
      BY <2>1, <3>1, <3>3
    <3>. QED BY <1>4, <3>2, <3>3
  <2>. HIDE DEF d
  <2>3. d = e
    BY <1>8, <2>1, <2>2, SeqEqual
  <2>. QED BY <2>3 DEF e
<1>10. /\ FramesBuilt(fs) = Ext!FlattenSeq(b) /\ FramesBuilt(gs) = Ext!FlattenSeq(c)
       /\ FramesBuilt(hs) = Ext!FlattenSeq(d)
  <2>1. DOMAIN hs = 1..(M + N)
    BY <1>2, LenProperties
  <2>. QED BY <1>1, <2>1 DEF FramesBuilt, B
<1>. HIDE DEF b, c, d
<1>11. /\ Ext!FlattenSeq(b \o c) = Ext!FlattenSeq(b) \o Ext!FlattenSeq(c)
       /\ Ext!FlattenSeq(b) \in Seq(Byte) /\ Ext!FlattenSeq(c) \in Seq(Byte)
  BY <1>6, FlattenConcat, FlattenType, Zenon
<1>. QED BY <1>5, <1>9, <1>10, <1>11 DEF hs

(* The bytes of the files that are there.                                  *)
LEMMA FileKnown ==
    ASSUME IInv, NEW s \in Existing
    PROVE  /\ files[s].bytes \in Seq(Byte) /\ Whole(files[s].frames) /\ Holds(files[s])
           /\ files[s].cut \in Message \cup {None}
<1>1. files[s] \in AFile
  BY DEF IInv, TypeOK, Existing, AFile
<1>2. Holds(files[s])
  BY DEF IInv
<1>3. /\ files[s].bytes \in Seq(Byte) /\ files[s].frames \in Seq(Message)
      /\ files[s].cut \in Message \cup {None}
  BY <1>1 DEF AFile
<1>4. DOMAIN files[s].frames = 1..Len(files[s].frames)
  BY <1>3, LenProperties
<1>. QED BY <1>2, <1>3, <1>4 DEF Whole, Holds

(* The beginning of a frame that was begun.                                *)
Beginning(part, m) ==
    /\ m \in Message /\ Sendable(m) /\ Len(part) < Len(BuildFrame(m))
    /\ \A i \in 1..Len(part) : part[i] = BuildFrame(m)[i]

LEMMA FileEnds ==
    ASSUME IInv, NEW s \in Existing
    PROVE  \E part \in Seq(Byte) :
              /\ files[s].bytes = FramesBuilt(files[s].frames) \o part
              /\ files[s].cut = None => part = <<>>
              /\ files[s].cut # None => Beginning(part, files[s].cut)
<1>. DEFINE fs == files[s].frames
            c == files[s].cut
            bytes == files[s].bytes
<1>1. bytes \in Seq(Byte) /\ Whole(fs) /\ c \in Message \cup {None} /\ Holds(files[s])
  BY FileKnown
<1>2. FramesBuilt(fs) \in Seq(Byte)
  BY <1>1, FramesConcat
<1>3. CASE c = None
  <2>1. bytes = FramesBuilt(fs)
    BY <1>1, <1>3 DEF Holds
  <2>2. FramesBuilt(fs) \o <<>> = FramesBuilt(fs) /\ <<>> \in Seq(Byte)
    BY <1>2, ConcatEmptySeq, EmptySeq
  <2>. QED BY <1>3, <2>1, <2>2
<1>4. CASE c # None
  <2>1. /\ Sendable(c)
        /\ \E n \in 0..(Len(BuildFrame(c)) - 1) :
              bytes = FramesBuilt(fs) \o SubSeq(BuildFrame(c), 1, n)
    BY <1>1, <1>4 DEF Holds
  <2>2. PICK n \in 0..(Len(BuildFrame(c)) - 1) :
                bytes = FramesBuilt(fs) \o SubSeq(BuildFrame(c), 1, n)
    BY <2>1
  <2>. DEFINE f == BuildFrame(c)
              part == SubSeq(f, 1, n)
  <2>3. c \in Message
    BY <1>1, <1>4
  <2>4. f \in Seq(Byte) /\ Len(f) \in Nat
    BY <2>1, <2>3, FrameBuilt, LenProperties DEF Sendable
  <2>. HIDE DEF f
  <2>5. n \in Nat /\ n < Len(f) /\ \A i \in 1..n : i \in 1..Len(f) /\ 1 + i - 1 = i
    BY <2>4 DEF f
  <2>6. \A i \in 1..n : f[i] \in Byte
    BY <2>4, <2>5, ElementOfSeq
  <2>7. part \in Seq(Byte) /\ Len(part) = n /\ \A i \in 1..n : part[i] = f[i]
    BY <2>5, <2>6, SubSeqProperties
  <2>8. Beginning(part, c)
    <3>. HIDE DEF part
    <3>. QED BY <2>1, <2>3, <2>5, <2>7 DEF Beginning, f
  <2>9. bytes = FramesBuilt(fs) \o part
    BY <2>2 DEF f
  <2>. HIDE DEF part
  <2>. QED BY <1>4, <2>7, <2>8, <2>9
<1>. QED BY <1>3, <1>4

LEMMA OneMoreFile ==
    ASSUME NEW fs, NEW gs, Whole(fs), Whole(gs), NEW part \in Seq(Byte)
    PROVE  /\ Whole(fs \o gs)
           /\ FramesBuilt(fs) \o (FramesBuilt(gs) \o part) = FramesBuilt(fs \o gs) \o part
<1>1. FramesBuilt(fs) \in Seq(Byte) /\ FramesBuilt(gs) \in Seq(Byte)
  BY FramesConcat
<1>2. FramesBuilt(fs \o gs) = FramesBuilt(fs) \o FramesBuilt(gs)
  BY FramesConcat
<1>3. (FramesBuilt(fs) \o FramesBuilt(gs)) \o part = FramesBuilt(fs) \o (FramesBuilt(gs) \o part)
  BY <1>1, JoinsAssociate
<1>. QED BY <1>2, <1>3, FramesConcat

(* Chunks read together are the frames of all, and the end of the last.    *)
LEMMA FilesJoined ==
    ASSUME IInv, NEW paths \in Seq(Existing),
           \A i \in DOMAIN paths : files[paths[i]].cut # None => i = Len(paths)
    PROVE  /\ Whole(Frames(paths))
           /\ \E part \in Seq(Byte) :
                 /\ Raw(paths) = FramesBuilt(Frames(paths)) \o part
                 /\ part = <<>> \/ \E m \in Begun(paths) : Beginning(part, m)
<1>. DEFINE N == Len(paths)
            fr == [i \in 1..N |-> files[paths[i]].frames]
            by == [i \in 1..N |-> files[paths[i]].bytes]
<1>1. N \in Nat /\ DOMAIN paths = 1..N /\ \A i \in 1..N : paths[i] \in Existing
  BY ElementOfSeq, LenProperties
<1>2. Frames(paths) = Ext!FlattenSeq(fr) /\ Raw(paths) = Ext!FlattenSeq(by)
  BY <1>1 DEF Frames, Raw
<1>3. \A i \in 1..N : /\ files[paths[i]].bytes \in Seq(Byte) /\ Whole(files[paths[i]].frames)
                      /\ files[paths[i]].frames \in Seq(Message)
  BY <1>1, FileKnown DEF Whole
<1>4. /\ fr \in Seq(Seq(Message)) /\ Len(fr) = N
      /\ by \in Seq(Seq(Byte)) /\ Len(by) = N
      /\ \A i \in 1..N : fr[i] = files[paths[i]].frames /\ by[i] = files[paths[i]].bytes
  BY <1>1, <1>3
<1>. HIDE DEF fr, by
<1>5. CASE N = 0
  <2>1. fr = <<>> /\ by = <<>>
    BY <1>4, <1>5, EmptySeq
  <2>2. Frames(paths) = <<>> /\ Raw(paths) = <<>>
    BY <1>2, <2>1, FlattenEmpty
  <2>3. <<>> \in Seq(Byte) /\ <<>> \in Seq(Message) /\ 1..Len(<<>>) = {}
    BY EmptySeq
  <2>4. Whole(<<>>)
    BY <2>3 DEF Whole
  <2>5. FramesBuilt(<<>>) = <<>>
    <3>1. [i \in DOMAIN <<>> |-> BuildFrame(<<>>[i])] = <<>>
      OBVIOUS
    <3>. QED BY <3>1, FlattenEmpty DEF FramesBuilt
  <2>6. <<>> \o <<>> = <<>>
    BY <2>3, ConcatEmptySeq
  <2>. QED BY <2>2, <2>3, <2>4, <2>5, <2>6
<1>6. CASE N # 0
  <2>1. N \in 1..N
    BY <1>1, <1>6
  <2>2. PICK part \in Seq(Byte) :
           /\ by[N] = FramesBuilt(fr[N]) \o part
           /\ files[paths[N]].cut = None => part = <<>>
           /\ files[paths[N]].cut # None => Beginning(part, files[paths[N]].cut)
    BY <1>1, <1>4, <2>1, FileEnds
  <2>3. part = <<>> \/ \E m \in Begun(paths) : Beginning(part, m)
    <3>1. CASE files[paths[N]].cut = None
      BY <2>2, <3>1
    <3>2. CASE files[paths[N]].cut # None
      <4>1. files[paths[N]].cut \in Begun(paths)
        BY <1>1, <2>1, <3>2 DEF Begun
      <4>. QED BY <2>2, <3>2, <4>1
    <3>. QED BY <3>1, <3>2
  <2>. DEFINE end(k) == IF k = N THEN part ELSE <<>>
  <2>4. \A k \in 1..N : end(k) \in Seq(Byte)
    BY EmptySeq
  <2>5. ASSUME NEW k \in 1..N PROVE by[k] = FramesBuilt(fr[k]) \o end(k) /\ Whole(fr[k])
    <3>1. CASE k = N
      BY <1>3, <1>4, <2>2, <3>1
    <3>2. CASE k # N
      <4>1. files[paths[k]].cut = None
        BY <1>1, <3>2
      <4>2. by[k] = FramesBuilt(fr[k]) \o <<>>
        BY <1>1, <1>4, <4>1, FileEnds
      <4>. QED BY <1>3, <1>4, <3>2, <4>2
    <3>. QED BY <3>1, <3>2
  <2>6. PICK f \in [1..N -> Seq(Message)] : Ext!FlattenSeq(fr) = f[N] /\ JoinsUp(f, fr, N)
    <3>1. \E f \in [1..Len(fr) -> Seq(Message)] :
                Ext!FlattenSeq(fr) = f[Len(fr)] /\ JoinsUp(f, fr, Len(fr))
      <4>1. Len(fr) # 0
        BY <1>4, <1>6
      <4>. QED BY <1>4, <4>1, JoinsDefined
    <3>. QED BY <1>4, <3>1
  <2>7. PICK g \in [1..N -> Seq(Byte)] : Ext!FlattenSeq(by) = g[N] /\ JoinsUp(g, by, N)
    <3>1. \E g \in [1..Len(by) -> Seq(Byte)] :
                Ext!FlattenSeq(by) = g[Len(by)] /\ JoinsUp(g, by, Len(by))
      <4>1. Len(by) # 0
        BY <1>4, <1>6
      <4>. QED BY <1>4, <4>1, JoinsDefined
    <3>. QED BY <1>4, <3>1
  <2>8. \A k \in 1..N : /\ f[k] = IF k = 1 THEN fr[k] ELSE f[k - 1] \o fr[k]
                        /\ g[k] = IF k = 1 THEN by[k] ELSE g[k - 1] \o by[k]
    <3>1. \A k \in 1..N : k <= N
      BY <1>1
    <3>. QED BY <1>4, <2>6, <2>7, <3>1, Zenon DEF JoinsUp
  <2>. HIDE DEF N, end
  <2>. DEFINE Right(k) == Whole(f[k]) /\ g[k] = FramesBuilt(f[k]) \o end(k)
              Bad == {k \in Nat : k \in 1..N /\ ~Right(k)}
  <2>9. Bad = {}
    <3>. SUFFICES ASSUME Bad # {} PROVE FALSE
      OBVIOUS
    <3>1. PICK k \in Bad : \A j \in Bad : k <= j
      <4>1. Bad \in SUBSET Nat
        OBVIOUS
      <4>. HIDE DEF Bad
      <4>. QED BY <4>1, LeastElement
    <3>2. k \in Nat /\ k \in 1..N /\ ~Right(k)
      BY <3>1
    <3>3. CASE k = 1
      BY <2>5, <2>8, <3>2, <3>3
    <3>4. CASE k # 1
      <4>1. k - 1 \in Nat /\ k - 1 \in 1..N /\ ~(k <= k - 1) /\ k - 1 # N
        BY <1>1, <3>2, <3>4 DEF N
      <4>2. k - 1 \notin Bad
        BY <3>1, <4>1
      <4>. HIDE DEF Bad
      <4>3. Right(k - 1)
        BY <4>1, <4>2 DEF Bad
      <4>4. Whole(f[k - 1]) /\ g[k - 1] = FramesBuilt(f[k - 1])
        <5>1. g[k - 1] = FramesBuilt(f[k - 1]) \o <<>> /\ Whole(f[k - 1])
          BY <4>1, <4>3 DEF end
        <5>2. FramesBuilt(f[k - 1]) \in Seq(Byte)
          BY <5>1, FramesConcat
        <5>3. FramesBuilt(f[k - 1]) \o <<>> = FramesBuilt(f[k - 1])
          BY <5>2, ConcatEmptySeq
        <5>. QED BY <5>1, <5>3
      <4>5. f[k] = f[k - 1] \o fr[k] /\ g[k] = FramesBuilt(f[k - 1]) \o (FramesBuilt(fr[k]) \o end(k))
        BY <2>5, <2>8, <3>2, <3>4, <4>4
      <4>6. /\ Whole(f[k - 1] \o fr[k])
            /\ FramesBuilt(f[k - 1]) \o (FramesBuilt(fr[k]) \o end(k))
                 = FramesBuilt(f[k - 1] \o fr[k]) \o end(k)
        <5>1. Whole(f[k - 1]) /\ Whole(fr[k]) /\ end(k) \in Seq(Byte)
          BY <2>4, <2>5, <3>2, <4>4
        <5>. QED BY <5>1, OneMoreFile, SMTT(40)
      <4>7. Right(k)
        BY <4>5, <4>6
      <4>. QED BY <3>2, <4>7
    <3>. QED BY <3>3, <3>4
  <2>10. Right(N)
    <3>1. N \in Nat
      BY <1>1 DEF N
    <3>. QED BY <2>1, <2>9, <3>1 DEF N
  <2>11. Frames(paths) = f[N] /\ Raw(paths) = g[N] /\ end(N) = part
    BY <1>2, <2>6, <2>7 DEF end, N
  <2>. QED BY <2>3, <2>10, <2>11
<1>. QED BY <1>5, <1>6

LEMMA FrameLaidOut ==
    ASSUME NEW m \in Message, Sendable(m)
    PROVE  LET f == BuildFrame(m)
               k == Len(m.stamp)
               n == Len(m.payload)
           IN  /\ f \in Seq(Byte) /\ k \in {0, 6} /\ n \in Nat /\ Len(f) = 6 + k + n
               /\ m.stamp \in Seq(Byte) /\ m.payload \in Seq(Byte) /\ (k = 0 <=> m.stamp = <<>>)
               /\ f[1] % 4 = m.type /\ f[2] + 2 = 6 + k + n /\ (Stamped(f[5]) <=> k # 0)
               /\ \A j \in 1..k : f[5 + j] = m.stamp[j]
               /\ \A j \in 1..n : f[5 + k + j] = m.payload[j]
<1>. DEFINE f == BuildFrame(m)
            u == Unsummed(m)
            k == Len(m.stamp)
            n == Len(m.payload)
<1>1. /\ m.type \in MessageType /\ m.error \in BOOLEAN /\ m.payloadType \in PayloadType
      /\ m.stamp \in Seq(Byte) /\ m.payload \in Seq(Byte)
  BY DEF Message
<1>2. k \in {0, 6} /\ Buildable(m)
  BY DEF Sendable, TimestampLen
<1>3. k = 0 <=> m.stamp = <<>>
  BY <1>1, EmptySeq
<1>4. /\ n \in Nat /\ Len(u) = 5 + k + n
      /\ u[1] = TypeToByte(m.type, m.error) /\ u[2] = 4 + k + n
      /\ u[5] = PayloadTypeToByte(m.payloadType, m.stamp # <<>>)
      /\ \A j \in 1..k : u[5 + j] = m.stamp[j]
      /\ \A j \in 1..n : u[5 + k + j] = m.payload[j]
  BY FrameBody, Zenon
<1>5. f \in Seq(Byte) /\ Len(f) = Len(u) + 1 /\ \A i \in 1..Len(u) : f[i] = u[i]
  BY <1>2, FrameBuilt, Zenon
<1>6. TypeFromByte(u[1]).type = m.type
  BY <1>1, <1>4, TypeByteRead
<1>7. u[1] % 4 = m.type
  <2>. HIDE DEF u
  <2>. QED BY <1>6 DEF TypeFromByte
<1>8. Stamped(u[5]) <=> m.stamp # <<>>
  BY <1>1, <1>4, PayloadByteRead
<1>. HIDE DEF f, u, k, n
<1>9. f[1] = u[1] /\ f[2] = u[2] /\ f[5] = u[5]
  <2>1. 1 \in 1..Len(u) /\ 2 \in 1..Len(u) /\ 5 \in 1..Len(u)
    BY <1>2, <1>4
  <2>. QED BY <1>5, <2>1
<1>10. \A j \in 1..k : f[5 + j] = m.stamp[j]
  <2>1. \A j \in 1..k : 5 + j \in 1..Len(u)
    BY <1>2, <1>4
  <2>. QED BY <1>4, <1>5, <2>1
<1>11. \A j \in 1..n : f[5 + k + j] = m.payload[j]
  <2>1. \A j \in 1..n : 5 + k + j \in 1..Len(u)
    BY <1>2, <1>4
  <2>. QED BY <1>4, <1>5, <2>1
<1>12. f[2] + 2 = 6 + k + n /\ Len(f) = 6 + k + n
  BY <1>2, <1>4, <1>5, <1>9
<1>13. f[1] % 4 = m.type /\ (Stamped(f[5]) <=> k # 0)
  BY <1>3, <1>7, <1>8, <1>9
<1>. QED BY <1>1, <1>2, <1>3, <1>4, <1>5, <1>10, <1>11, <1>12, <1>13 DEF f, k, n

(* Frames of one length, and less than one more, as a table.               *)
OneLength(fs, L) == \A i \in 1..Len(fs) : Len(BuildFrame(fs[i])) = L

(* The frames of messages are the rows of a table.                         *)
RowsAre(data, fs, L) ==
    \A i \in 1..Len(fs), r \in 1..L :
        (i - 1) * L \in Nat /\ data[(i - 1) * L + r] = BuildFrame(fs[i])[r]

LEMMA TableLaidOut ==
    ASSUME NEW fs, Whole(fs), NEW L \in Nat \ {0}, OneLength(fs, L),
           NEW part \in Seq(Byte), Len(part) < L
    PROVE  LET data == FramesBuilt(fs) \o part
               N == Len(fs)
           IN  /\ data \in Seq(Byte) /\ N \in Nat /\ N * L \in Nat
               /\ Len(data) = N * L + Len(part) /\ Len(data) \div L = N
               /\ RowsAre(data, fs, L)
<1>. DEFINE N == Len(fs)
            b == [i \in 1..N |-> BuildFrame(fs[i])]
            all == FramesBuilt(fs)
            data == all \o part
            p == Len(part)
<1>1. /\ N \in Nat /\ DOMAIN fs = 1..N
      /\ \A i \in 1..N : fs[i] \in Message /\ Sendable(fs[i])
  BY ElementOfSeq, LenProperties DEF Whole
<1>2. \A i \in 1..N : BuildFrame(fs[i]) \in Seq(Byte)
  BY <1>1, FrameLaidOut
<1>3. b \in Seq(Seq(Byte)) /\ Len(b) = N /\ \A i \in 1..N : b[i] = BuildFrame(fs[i])
  BY <1>1, <1>2
<1>4. all = Ext!FlattenSeq(b)
  BY <1>1 DEF FramesBuilt
<1>. HIDE DEF b
<1>5. /\ all \in Seq(Byte) /\ Len(all) = N * L
      /\ \A x \in 1..(N * L) : all[x] = b[((x - 1) \div L) + 1][((x - 1) % L) + 1]
  <2>1. \A i \in 1..Len(b) : Len(b[i]) = L
    BY <1>3 DEF OneLength
  <2>2. /\ Ext!FlattenSeq(b) \in Seq(Byte) /\ Len(Ext!FlattenSeq(b)) = Len(b) * L
        /\ \A x \in 1..(Len(b) * L) :
              Ext!FlattenSeq(b)[x] = b[((x - 1) \div L) + 1][((x - 1) % L) + 1]
    BY <1>3, <2>1, FlattenRows, Zenon
  <2>. QED BY <1>3, <1>4, <2>2, Zenon
<1>. HIDE DEF all
<1>6. N * L \in Nat
  BY <1>1, ProductGrows
<1>7. p \in Nat /\ p < L /\ p \in 0..(L - 1)
  <2>1. p \in Nat
    BY LenProperties
  <2>. QED BY <2>1
<1>8. /\ data \in Seq(Byte) /\ Len(data) = N * L + p
      /\ \A x \in 1..(N * L + p) :
            data[x] = IF x <= N * L THEN all[x] ELSE part[x - N * L]
  <2>1. all \in Seq(Byte) /\ part \in Seq(Byte)
    BY <1>5
  <2>2. /\ data \in Seq(Byte) /\ Len(data) = Len(all) + Len(part)
        /\ \A x \in 1..(Len(all) + Len(part)) :
              data[x] = IF x <= Len(all) THEN all[x] ELSE part[x - Len(all)]
    BY <2>1, ConcatProperties, Zenon
  <2>. QED BY <1>5, <2>2, Zenon
<1>. HIDE DEF data, N, p
<1>9. (N * L + p) \div L = N
  BY <1>1, <1>7, DivisionUnique DEF N
<1>10. ASSUME NEW i \in 1..N, NEW r \in 1..L
       PROVE  (i - 1) * L \in Nat /\ data[(i - 1) * L + r] = BuildFrame(fs[i])[r]
  <2>. DEFINE q == (i - 1) * L
              x == q + r
              NL == N * L
  <2>1. i - 1 \in Nat /\ i \in Nat /\ i <= N /\ N \in Nat /\ i * L = q + L
    <3>1. i \in Nat /\ i - 1 \in Nat /\ i <= N /\ N \in Nat /\ i = (i - 1) + 1
      BY <1>1 DEF N
    <3>2. q \in Nat
      BY <3>1, ProductGrows
    <3>. QED BY <3>1, <3>2
  <2>2. q \in Nat
    BY <2>1, ProductGrows
  <2>3. i * L <= NL /\ NL \in Nat
    BY <2>1, ProductGrows
  <2>. HIDE DEF q, NL
  <2>4. x \in 1..NL /\ x \in 1..(NL + p) /\ x <= NL /\ x - 1 = q + (r - 1) /\ r - 1 \in 0..(L - 1)
    BY <1>7, <2>1, <2>2, <2>3
  <2>5. (q + (r - 1)) \div L = i - 1 /\ (q + (r - 1)) % L = r - 1
    BY <2>1, <2>4, DivisionUnique DEF q
  <2>. HIDE DEF x
  <2>6. (x - 1) \div L = i - 1 /\ (x - 1) % L = r - 1
    BY <2>4, <2>5
  <2>7. ((x - 1) \div L) + 1 = i /\ ((x - 1) % L) + 1 = r
    BY <2>1, <2>6
  <2>8. data[x] = all[x] /\ all[x] = b[((x - 1) \div L) + 1][((x - 1) % L) + 1]
    BY <1>5, <1>8, <2>4 DEF NL, N
  <2>9. data[x] = BuildFrame(fs[i])[r]
    BY <1>3, <2>7, <2>8 DEF N
  <2>. QED BY <2>2, <2>9 DEF x, q
<1>11. RowsAre(data, fs, L)
  BY <1>10 DEF RowsAre, N
<1>. QED BY <1>1, <1>6, <1>8, <1>9, <1>11 DEF data, N, p, all

(* Frames of one kind, read as a table, are what each is.                  *)
OneKind(fs, k, n) ==
    \A i \in 1..Len(fs) : Len(fs[i].stamp) = k /\ Len(fs[i].payload) = n

(* What the bytes of a table say of its first frame.                       *)
BeginsWith(data, m, L) ==
    /\ Len(data) >= 6 /\ FrameStride(data) = L /\ data[3] \in Byte
    /\ data[5] = BuildFrame(m)[5]

LEMMA FramesRead ==
    ASSUME NEW reg \in RegisterClass, NEW fs, Whole(fs), fs # <<>>,
           NEW k \in {0, 6}, NEW n \in Nat, reg.itemsize <= n,
           OneKind(fs, k, n),
           NEW part \in Seq(Byte), Len(part) < 6 + k + n
    PROVE  LET data == FramesBuilt(fs) \o part IN
           /\ data # <<>> /\ ParsesBulk(reg, data) /\ (BulkStamped(data) <=> k = 6)
           /\ View(data, Offset(BulkStamped(data)), reg.itemsize)
                = [i \in 1..Len(fs) |-> ParsePayload(reg, fs[i].payload)]
           /\ k = 6 => View(data, HeaderLen, TimestampLen) = [i \in 1..Len(fs) |-> fs[i].stamp]
           /\ View(data, 0, 1) \in Seq(Seq(Byte)) /\ DOMAIN View(data, 0, 1) = 1..Len(fs)
           /\ \A i \in 1..Len(fs) : View(data, 0, 1)[i][1] % 4 = fs[i].type
           /\ BeginsWith(data, fs[1], 6 + k + n)
<1>. DEFINE N == Len(fs)
            data == FramesBuilt(fs) \o part
            size == reg.itemsize
            offset == Offset(BulkStamped(data))
<1>1. /\ N \in Nat /\ N # 0 /\ \A i \in 1..N : fs[i] \in Message /\ Sendable(fs[i])
  BY EmptySeq, ElementOfSeq, LenProperties DEF Whole
<1>0. PICK L \in Nat : L = 6 + k + n
  OBVIOUS
<1>2. L \in Nat \ {0} /\ 6 <= L
  BY <1>0
<1>3. ASSUME NEW i \in 1..N
      PROVE  LET f == BuildFrame(fs[i]) IN
             /\ f \in Seq(Byte) /\ Len(f) = L /\ f[1] % 4 = fs[i].type /\ f[2] + 2 = L
             /\ fs[i].stamp \in Seq(Byte) /\ fs[i].payload \in Seq(Byte)
             /\ Stamped(f[5]) <=> k # 0
             /\ \A j \in 1..k : f[5 + j] = fs[i].stamp[j]
             /\ \A j \in 1..n : f[5 + k + j] = fs[i].payload[j]
  <2>1. fs[i] \in Message /\ Sendable(fs[i]) /\ Len(fs[i].stamp) = k /\ Len(fs[i].payload) = n
    BY <1>1 DEF OneKind
  <2>. HIDE DEF N
  <2>. QED BY <1>0, <2>1, FrameLaidOut
<1>4. /\ data \in Seq(Byte) /\ N * L \in Nat /\ Len(data) = N * L + Len(part)
      /\ Len(data) \div L = N
      /\ \A i \in 1..N, r \in 1..L :
            (i - 1) * L \in Nat /\ data[(i - 1) * L + r] = BuildFrame(fs[i])[r]
  <2>1. OneLength(fs, L)
    BY <1>3 DEF OneLength
  <2>2. Len(part) < L
    BY <1>0
  <2>3. L \in Nat \ {0} /\ part \in Seq(Byte) /\ Whole(fs)
    BY <1>2
  <2>4. data \in Seq(Byte) /\ Len(data) = Len(fs) * L + Len(part) /\ Len(fs) * L \in Nat
    BY <2>1, <2>2, <2>3, TableLaidOut
  <2>5. Len(data) \div L = Len(fs) /\ RowsAre(data, fs, L)
    BY <2>1, <2>2, <2>3, TableLaidOut
  <2>. HIDE DEF data
  <2>. QED BY <2>4, <2>5 DEF RowsAre
<1>. HIDE DEF data, N
<1>5. Len(part) \in Nat
  BY LenProperties
<1>6. /\ (N - 1) * L \in Nat /\ N * L = (N - 1) * L + L /\ L <= Len(data)
      /\ Len(data) \in Nat
  <2>1. N - 1 \in Nat /\ N = (N - 1) + 1
    BY <1>1
  <2>2. (N - 1) * L \in Nat
    BY <1>2, <2>1, ProductGrows
  <2>3. N * L = (N - 1) * L + L
    BY <1>2, <2>1
  <2>. QED BY <1>2, <1>4, <1>5, <2>2, <2>3, SMTT(40)
<1>7. \A r \in 1..L : data[r] = BuildFrame(fs[1])[r]
  <2>1. 1 \in 1..N /\ 1 - 1 = 0 /\ 0 * L = 0 /\ \A r \in 1..L : 0 + r = r
    BY <1>1, <1>2
  <2>2. \A r \in 1..L : data[(1 - 1) * L + r] = BuildFrame(fs[1])[r]
    BY <1>4, <2>1
  <2>. QED BY <2>1, <2>2
<1>8. FrameStride(data) = L /\ (BulkStamped(data) <=> k # 0)
  <2>1. 1 \in 1..N /\ 2 \in 1..L /\ 5 \in 1..L
    BY <1>1, <1>2
  <2>2. data[2] = BuildFrame(fs[1])[2] /\ data[5] = BuildFrame(fs[1])[5]
    BY <1>7, <2>1
  <2>3. BuildFrame(fs[1])[2] + 2 = L /\ (Stamped(BuildFrame(fs[1])[5]) <=> k # 0)
    BY <1>3, <2>1
  <2>. QED BY <2>2, <2>3 DEF FrameStride, BulkStamped
<1>9. NRows(data) = N
  BY <1>4, <1>8 DEF NRows
<1>10. offset = 5 + k
  BY <1>8 DEF Offset, HeaderLen, TimestampLen
<1>11. size \in Nat /\ size <= n
  BY DEF RegisterClass
<1>. HIDE DEF offset, size
<1>12. ParsesBulk(reg, data)
  <2>1. 5 + k + size <= L
    BY <1>0, <1>11
  <2>2. (N - 1) * L + (5 + k) + size <= Len(data)
    <3>. DEFINE q == (N - 1) * L
                NL == N * L
    <3>1. q \in Nat /\ NL = q + L /\ Len(data) = NL + Len(part)
      BY <1>4, <1>6
    <3>. HIDE DEF q, NL
    <3>2. q + (5 + k) + size <= Len(data)
      BY <1>2, <1>5, <1>11, <2>1, <3>1
    <3>. QED BY <3>2 DEF q
  <2>3. ViewFits(data, offset, size)
    BY <1>8, <1>9, <1>10, <2>2 DEF ViewFits
  <2>4. Len(data) >= 6 /\ Len(data) >= L
    BY <1>2, <1>6
  <2>. QED BY <1>8, <2>3, <2>4 DEF ParsesBulk, MinFrameLen, offset, size
<1>13. ASSUME NEW o \in Nat, NEW w \in Nat, o + w <= L
       PROVE  View(data, o, w) = [i \in 1..N |-> [j \in 1..w |-> BuildFrame(fs[i])[o + j]]]
  <2>1. View(data, o, w) = [i \in 1..N |-> [j \in 1..w |-> data[(i - 1) * L + o + j]]]
    BY <1>8, <1>9, Zenon DEF View
  <2>2. ASSUME NEW i \in 1..N, NEW j \in 1..w
        PROVE  data[(i - 1) * L + o + j] = BuildFrame(fs[i])[o + j]
    <3>1. o + j \in 1..L
      BY <1>2, <1>13
    <3>2. (i - 1) * L \in Nat /\ data[(i - 1) * L + (o + j)] = BuildFrame(fs[i])[o + j]
      BY <1>4, <3>1
    <3>. DEFINE q == (i - 1) * L
    <3>. HIDE DEF q
    <3>3. q + o + j = q + (o + j)
      BY <3>2 DEF q
    <3>. QED BY <3>2, <3>3 DEF q
  <2>. QED BY <2>1, <2>2
<1>14. View(data, offset, size) = [i \in 1..N |-> ParsePayload(reg, fs[i].payload)]
  <2>1. View(data, offset, size)
          = [i \in 1..N |-> [j \in 1..size |-> BuildFrame(fs[i])[(5 + k) + j]]]
    <3>1. (5 + k) + size <= L /\ 5 + k \in Nat
      BY <1>0, <1>11
    <3>. QED BY <1>10, <1>11, <1>13, <3>1
  <2>2. ASSUME NEW i \in 1..N
        PROVE  [j \in 1..size |-> BuildFrame(fs[i])[(5 + k) + j]] = ParsePayload(reg, fs[i].payload)
    <3>. DEFINE x == SubSeq(fs[i].payload, 1, size)
                y == [j \in 1..size |-> BuildFrame(fs[i])[(5 + k) + j]]
    <3>1. fs[i].payload \in Seq(Byte) /\ \A j \in 1..n : BuildFrame(fs[i])[5 + k + j] = fs[i].payload[j]
      BY <1>3
    <3>2. \A j \in 1..size : j \in 1..n /\ 1 + j - 1 = j
      BY <1>11
    <3>3. \A j \in 1..size : fs[i].payload[j] \in Byte
      <4>1. Len(fs[i].payload) = n
        BY DEF N, OneKind
      <4>. QED BY <3>1, <3>2, <4>1, ElementOfSeq
    <3>4. /\ x \in Seq(Byte) /\ Len(x) = size /\ \A j \in 1..size : x[j] = fs[i].payload[j]
      BY <1>11, <3>2, <3>3, SubSeqProperties
    <3>. HIDE DEF x
    <3>5. \A j \in 1..size : y[j] = x[j]
      BY <3>1, <3>2, <3>4
    <3>6. x = [j \in 1..size |-> x[j]]
      BY <3>4
    <3>7. y = x
      BY <3>5, <3>6
    <3>. QED BY <3>7 DEF x, ParsePayload, size
  <2>. QED BY <2>1, <2>2, Zenon
<1>15. k = 6 => View(data, HeaderLen, TimestampLen) = [i \in 1..N |-> fs[i].stamp]
  <2>. SUFFICES ASSUME k = 6 PROVE View(data, 5, 6) = [i \in 1..N |-> fs[i].stamp]
    BY DEF HeaderLen, TimestampLen
  <2>1. View(data, 5, 6) = [i \in 1..N |-> [j \in 1..6 |-> BuildFrame(fs[i])[5 + j]]]
    <3>1. 5 + 6 <= L /\ 5 \in Nat /\ 6 \in Nat
      BY <1>0
    <3>. QED BY <1>13, <3>1
  <2>2. ASSUME NEW i \in 1..N
        PROVE  [j \in 1..6 |-> BuildFrame(fs[i])[5 + j]] = fs[i].stamp
    <3>1. /\ fs[i].stamp \in Seq(Byte) /\ Len(fs[i].stamp) = 6
          /\ \A j \in 1..6 : BuildFrame(fs[i])[5 + j] = fs[i].stamp[j]
      BY <1>3 DEF N, OneKind
    <3>2. fs[i].stamp = [j \in 1..6 |-> fs[i].stamp[j]]
      <4>1. DOMAIN fs[i].stamp = 1..6 /\ fs[i].stamp = [j \in DOMAIN fs[i].stamp |-> fs[i].stamp[j]]
        BY <3>1, LenProperties
      <4>. QED BY <4>1
    <3>. QED BY <3>1, <3>2
  <2>. QED BY <2>1, <2>2, Zenon
<1>16. View(data, 0, 1) = [i \in 1..N |-> [j \in 1..1 |-> BuildFrame(fs[i])[0 + j]]]
  <2>1. 0 + 1 <= L /\ 0 \in Nat /\ 1 \in Nat
    BY <1>2
  <2>. QED BY <1>13, <2>1
<1>17. /\ View(data, 0, 1) \in Seq(Seq(Byte)) /\ DOMAIN View(data, 0, 1) = 1..N
       /\ \A i \in 1..N : View(data, 0, 1)[i][1] % 4 = fs[i].type
  <2>1. ASSUME NEW i \in 1..N
        PROVE  /\ [j \in 1..1 |-> BuildFrame(fs[i])[0 + j]] \in Seq(Byte)
               /\ [j \in 1..1 |-> BuildFrame(fs[i])[0 + j]][1] % 4 = fs[i].type
    <3>1. BuildFrame(fs[i]) \in Seq(Byte) /\ Len(BuildFrame(fs[i])) = L /\ BuildFrame(fs[i])[1] % 4 = fs[i].type
      BY <1>3
    <3>2. 1 \in 1..L /\ \A j \in 1..1 : j = 1 /\ 0 + j = 1
      BY <1>2
    <3>3. BuildFrame(fs[i])[1] \in Byte
      BY <3>1, <3>2, ElementOfSeq
    <3>. DEFINE y == [j \in 1..1 |-> BuildFrame(fs[i])[0 + j]]
    <3>4. y[1] = BuildFrame(fs[i])[1] /\ \A j \in 1..1 : y[j] = BuildFrame(fs[i])[1]
      BY <3>2
    <3>5. y \in Seq(Byte)
      BY <3>3, <3>4
    <3>. QED BY <3>1, <3>4, <3>5
  <2>. DEFINE h(i) == [j \in 1..1 |-> BuildFrame(fs[i])[0 + j]]
  <2>2. \A i \in 1..N : h(i) \in Seq(Byte) /\ h(i)[1] % 4 = fs[i].type
    BY <2>1
  <2>3. View(data, 0, 1) = [i \in 1..N |-> h(i)]
    BY <1>16
  <2>. HIDE DEF h
  <2>4. DOMAIN View(data, 0, 1) = 1..N
    BY <2>3
  <2>5. \A i \in 1..N : View(data, 0, 1)[i] = h(i)
    BY <2>3
  <2>6. View(data, 0, 1) \in Seq(Seq(Byte))
    <3>1. N \in Nat
      BY <1>1
    <3>2. View(data, 0, 1) \in [1..N -> Seq(Byte)]
      BY <2>2, <2>3
    <3>. QED BY <3>1, <3>2
  <2>. QED BY <2>2, <2>4, <2>5, <2>6
<1>18. data # <<>>
  <2>1. Len(data) # 0
    BY <1>2, <1>6
  <2>. QED BY <2>1, EmptySeq
<1>19. BulkStamped(data) <=> k = 6
  BY <1>8
<1>20. BeginsWith(data, fs[1], 6 + k + n)
  <2>1. 3 \in 1..Len(data) /\ 5 \in 1..L
    BY <1>2, <1>6
  <2>2. data[3] \in Byte
    BY <1>4, <2>1, ElementOfSeq
  <2>. QED BY <1>0, <1>2, <1>6, <1>7, <1>8, <2>1, <2>2 DEF BeginsWith
<1>. QED BY <1>12, <1>14, <1>15, <1>17, <1>18, <1>19, <1>20 DEF data, N, offset, size

(* What the DataFrame of a table of frames shows.                          *)
Shown(reg, fs, data, k) ==
    /\ ReadsFrame(reg, data, FALSE) /\ (ReadsFrame(reg, data, TRUE) <=> k = 6)
    /\ DataFrame(reg, data, FALSE, TRUE).rows
         = [i \in DOMAIN fs |-> ParsePayload(reg, fs[i].payload)]
    /\ DataFrame(reg, data, FALSE, TRUE).type = [i \in DOMAIN fs |-> fs[i].type]
    /\ k = 6 => DataFrame(reg, data, TRUE, FALSE).time
                  = [i \in DOMAIN fs |-> TicksOf(fs[i].stamp)]

(* A read of a table of frames shows each frame, and nothing of the part   *)
(* behind them.                                                            *)
LEMMA FramesShown ==
    ASSUME NEW reg \in RegisterClass, NEW fs, Whole(fs), fs # <<>>,
           NEW k \in {0, 6}, NEW n \in Nat, reg.itemsize <= n,
           OneKind(fs, k, n),
           NEW part \in Seq(Byte), Len(part) < 6 + k + n
    PROVE  Shown(reg, fs, FramesBuilt(fs) \o part, k)
<1>. DEFINE N == Len(fs)
            data == FramesBuilt(fs) \o part
            payloads == [i \in 1..N |-> ParsePayload(reg, fs[i].payload)]
            stamps == [i \in 1..N |-> fs[i].stamp]
            types == View(data, 0, 1)
            plain == ParseBulk(reg, data, FALSE)
            timed == ParseBulk(reg, data, TRUE)
<1>1. N \in Nat /\ N # 0 /\ DOMAIN fs = 1..N /\ \A i \in 1..N : fs[i].stamp \in Seq(Byte)
  <2>1. fs \in Seq(Message)
    BY DEF Whole
  <2>2. \A i \in 1..N : fs[i] \in Message
    BY <2>1, ElementOfSeq
  <2>. QED BY <2>1, <2>2, EmptySeq, LenProperties DEF Message
<1>2. /\ data # <<>> /\ ParsesBulk(reg, data) /\ (BulkStamped(data) <=> k = 6)
      /\ View(data, Offset(BulkStamped(data)), reg.itemsize) = payloads
      /\ k = 6 => View(data, HeaderLen, TimestampLen) = stamps
      /\ types \in Seq(Seq(Byte)) /\ DOMAIN types = 1..N
      /\ \A i \in 1..N : types[i][1] % 4 = fs[i].type
      /\ BeginsWith(data, fs[1], 6 + k + n)
  BY FramesRead
<1>3. stamps \in Seq(Seq(Byte)) /\ DOMAIN stamps = 1..N /\ \A i \in 1..N : stamps[i] = fs[i].stamp
  BY <1>1
<1>4. payloads # <<>>
  <2>1. 1 \in DOMAIN payloads
    BY <1>1
  <2>. HIDE DEF payloads
  <2>. QED BY <2>1
<1>5. stamps # None /\ types # None
  BY <1>2, <1>3, NoneAssumption
<1>. HIDE DEF data, payloads, stamps, types
<1>6. plain = [rows |-> payloads, stamps |-> None, types |-> types]
  BY <1>2 DEF ParseBulk, types
<1>7. timed = [rows |-> payloads, stamps |-> IF k = 6 THEN stamps ELSE None, types |-> types]
  <2>1. CASE k = 6
    BY <1>2, <2>1 DEF ParseBulk, types
  <2>2. CASE k # 6
    BY <1>2, <2>2 DEF ParseBulk, types
  <2>. QED BY <2>1, <2>2
<1>. HIDE DEF plain, timed
<1>8. ReadsFrame(reg, data, FALSE)
  BY <1>2 DEF ReadsFrame
<1>9. ReadsFrame(reg, data, TRUE) <=> k = 6
  <2>1. timed.rows = payloads /\ timed.stamps = IF k = 6 THEN stamps ELSE None
    BY <1>7
  <2>2. ReadsFrame(reg, data, TRUE) <=> (timed.stamps # None \/ timed.rows = <<>>)
    BY <1>2 DEF ReadsFrame, timed
  <2>. QED BY <1>4, <1>5, <2>1, <2>2
<1>10. /\ DataFrame(reg, data, FALSE, TRUE).rows = payloads
       /\ DataFrame(reg, data, FALSE, TRUE).type = [i \in 1..N |-> fs[i].type]
  <2>1. plain.rows = payloads /\ plain.types = types
    BY <1>6
  <2>2. /\ DataFrame(reg, data, FALSE, TRUE).rows = plain.rows
        /\ DataFrame(reg, data, FALSE, TRUE).type
             = IF plain.types # None
                 THEN [i \in DOMAIN plain.types |-> plain.types[i][1] % 4] ELSE None
    BY DEF DataFrame, plain, timed
  <2>3. DataFrame(reg, data, FALSE, TRUE).type = [i \in 1..N |-> types[i][1] % 4]
    BY <1>2, <1>5, <2>1, <2>2
  <2>. QED BY <1>2, <2>1, <2>2, <2>3
<1>11. ASSUME k = 6
       PROVE  DataFrame(reg, data, TRUE, FALSE).time = [i \in 1..N |-> TicksOf(fs[i].stamp)]
  <2>1. timed.stamps = stamps
    BY <1>7, <1>11
  <2>2. DataFrame(reg, data, TRUE, FALSE).time
          = IF timed.stamps = None THEN <<>>
            ELSE [i \in DOMAIN timed.stamps |-> TicksOf(timed.stamps[i])]
    BY DEF DataFrame, plain, timed
  <2>. QED BY <1>3, <1>5, <2>1, <2>2
<1>12. DOMAIN fs = 1..N
  BY <1>1
<1>. HIDE DEF N
<1>13. Shown(reg, fs, data, k)
  BY <1>8, <1>9, <1>10, <1>11, <1>12 DEF Shown, payloads
<1>. QED BY <1>13 DEF data

(* What is less than a frame is refused.                                   *)
LEMMA CutRefused ==
    ASSUME NEW reg, NEW data \in Seq(Byte), NEW m, Beginning(data, m), ParsesBulk(reg, data)
    PROVE  data = <<>>
<1>1. SUFFICES ASSUME data # <<>> PROVE FALSE
  OBVIOUS
<1>2. Len(data) >= 6 /\ Len(data) >= data[2] + 2
  BY <1>1 DEF ParsesBulk, MinFrameLen, FrameStride
<1>3. /\ m \in Message /\ Sendable(m) /\ Len(data) < Len(BuildFrame(m))
      /\ \A i \in 1..Len(data) : data[i] = BuildFrame(m)[i]
  BY DEF Beginning
<1>4. BuildFrame(m)[2] + 2 = Len(BuildFrame(m)) /\ Len(BuildFrame(m)) \in Nat
  <2>1. /\ BuildFrame(m) \in Seq(Byte)
        /\ Len(BuildFrame(m)) = 6 + Len(m.stamp) + Len(m.payload)
        /\ BuildFrame(m)[2] + 2 = 6 + Len(m.stamp) + Len(m.payload)
    BY <1>3, FrameLaidOut, Zenon
  <2>. QED BY <2>1, LenProperties
<1>5. Len(data) \in Nat
  BY LenProperties
<1>6. data[2] = BuildFrame(m)[2]
  BY <1>2, <1>3, <1>5
<1>. QED BY <1>2, <1>3, <1>4, <1>5, <1>6

(* A read resolves to files that are there, in order.                      *)
LEMMA PathsFound ==
    ASSUME IInv, reader # None, NEW a, NEW suffix
    PROVE  LET paths == ResolvePaths(a, suffix) IN
           /\ paths \in Seq(Existing) /\ InNameOrder(paths)
           /\ paths # <<>> => a \in DOMAIN reader.paths
<1>. DEFINE T == {s \in Stem : EndsWith(s, suffix)}
            all == Listed(a)
<1>1. ReadsFolder /\ Existing \subseteq Stem
  BY DEF IInv, Existing
<1>2. InNameOrder(<<>>) /\ <<>> \in Seq(Existing) /\ Len(<<>>) = 0
  BY EmptySeq DEF InNameOrder
<1>3. all \in Seq(Existing) /\ InNameOrder(all) /\ (a \notin DOMAIN reader.paths => all = <<>>)
  BY <1>1, <1>2 DEF Listed, ReadsFolder
<1>. HIDE DEF all, T
<1>4. all \in Seq(Stem)
  BY <1>1, <1>3, SeqMonotonic
<1>5. Among(all, T) \in Seq(Existing) /\ InNameOrder(Among(all, T))
  <2>1. Among(all, T) \in Seq(Existing \cap T)
    BY <1>3, AmongType
  <2>2. Existing \cap T \subseteq Existing
    OBVIOUS
  <2>3. Among(all, T) \in Seq(Existing)
    BY <2>1, <2>2, SeqMonotonic, Zenon
  <2>. QED BY <1>3, <1>4, <2>3, AmongInOrder
<1>6. all = <<>> => Among(all, T) = <<>>
  <2>1. \E f \in [0..Len(all) -> Seq(Stem \cap T)] :
            Among(all, T) = f[Len(all)] /\ KeepsUp(f, all, T, Len(all))
    BY <1>4, AmongDefined
  <2>. QED BY <1>2, <2>1 DEF KeepsUp
<1>7. ResolvePaths(a, suffix) = IF suffix = None THEN all ELSE Among(all, T)
  BY DEF ResolvePaths, all, T
<1>. QED BY <1>3, <1>5, <1>6, <1>7

(* A name has an address.                                                  *)
LEMMA NameKnown ==
    ASSUME IInv, reader # None, NEW name \in Names
    PROVE  NameMap(name) \in DOMAIN Registers
<1>. DEFINE A == Addresses(name)
            T == {x \in Nat : \E a \in A : x = 255 - a}
<1>1. A # {} /\ A \subseteq DOMAIN Registers
  BY DEF Names, Addresses
<1>2. \A a \in A : a \in Int /\ a <= 255 /\ 255 - a \in Nat
  <2>1. A \subseteq Byte
    BY <1>1 DEF IInv, ReadsFolder
  <2>. QED BY <2>1 DEF Byte
<1>. HIDE DEF A
<1>3. PICK x \in T : \A y \in T : x <= y
  <2>1. T # {} /\ T \in SUBSET Nat
    BY <1>1, <1>2
  <2>. HIDE DEF T
  <2>. QED BY <2>1, LeastElement
<1>4. PICK a \in A : x = 255 - a
  BY <1>3
<1>5. \A other \in A : other <= a
  <2>1. \A other \in A : 255 - other \in T
    BY <1>2
  <2>. QED BY <1>2, <1>3, <1>4, <2>1
<1>6. NameMap(name) \in A
  BY <1>4, <1>5 DEF NameMap, A
<1>. QED BY <1>1, <1>6

(* Of chunks of one kind the files joined are frames of one length, and a  *)
(* part that is shorter.                                                   *)
LEMMA FilesAlike ==
    ASSUME IInv, NEW a, Registers[a].register \in RegisterClass,
           NEW paths \in Seq(Existing), Regular(a, paths), Frames(paths) # <<>>
    PROVE  \E k \in {0, 6}, n \in Nat, part \in Seq(Byte) :
              /\ Whole(Frames(paths)) /\ Raw(paths) = FramesBuilt(Frames(paths)) \o part
              /\ Registers[a].register.itemsize <= n /\ OneKind(Frames(paths), k, n)
              /\ Len(part) < 6 + k + n /\ (k = 0 <=> Frames(paths)[1].stamp = <<>>)
<1>. DEFINE fs == Frames(paths)
            reg == Registers[a].register
            data == Raw(paths)
<1>2. reg \in RegisterClass
  OBVIOUS
<1>3. /\ \A i \in DOMAIN paths : files[paths[i]].cut # None => i = Len(paths)
      /\ \A f, g \in Begun(paths) :
            /\ ParsesPayload(reg, f.payload) /\ Len(f.payload) = Len(g.payload)
            /\ (f.stamp = <<>>) = (g.stamp = <<>>)
  BY DEF Regular
<1>. HIDE DEF reg
<1>5. Whole(fs) /\ \E part \in Seq(Byte) :
         /\ data = FramesBuilt(fs) \o part
         /\ part = <<>> \/ \E m \in Begun(paths) : Beginning(part, m)
  BY <1>3, FilesJoined
<1>6. PICK part \in Seq(Byte) :
         /\ data = FramesBuilt(fs) \o part
         /\ part = <<>> \/ \E m \in Begun(paths) : Beginning(part, m)
  BY <1>5
<1>7. fs \in Seq(Message) /\ DOMAIN fs = 1..Len(fs) /\ Len(fs) \in Nat
      /\ \A i \in 1..Len(fs) : fs[i] \in Message /\ Sendable(fs[i]) /\ fs[i] \in Begun(paths)
  <2>1. fs \in Seq(Message) /\ \A i \in 1..Len(fs) : Sendable(fs[i])
    BY <1>5 DEF Whole
  <2>2. DOMAIN fs = 1..Len(fs) /\ Len(fs) \in Nat
    BY <2>1, LenProperties
  <2>. QED BY <2>1, <2>2, ElementOfSeq DEF Begun
<1>8. fs # <<>>
  OBVIOUS
<1>. HIDE DEF fs, data
<1>. DEFINE k == Len(fs[1].stamp)
            n == Len(fs[1].payload)
<1>11. 1 \in 1..Len(fs)
  <2>1. Len(fs) # 0
    BY <1>7, <1>8, EmptySeq
  <2>. QED BY <1>7, <2>1
<1>12. ASSUME NEW m \in Begun(paths), m \in Message, Sendable(m)
      PROVE  Len(m.stamp) = k /\ Len(m.payload) = n /\ Len(BuildFrame(m)) = 6 + k + n
  <2>1. /\ Len(m.payload) = n /\ (m.stamp = <<>>) = (fs[1].stamp = <<>>)
    BY <1>3, <1>7, <1>11
  <2>2. /\ Len(m.stamp) \in {0, 6} /\ (Len(m.stamp) = 0 <=> m.stamp = <<>>)
        /\ Len(BuildFrame(m)) = 6 + Len(m.stamp) + Len(m.payload)
    BY <1>12, FrameLaidOut
  <2>3. k \in {0, 6} /\ (k = 0 <=> fs[1].stamp = <<>>)
    BY <1>7, <1>11, FrameLaidOut
  <2>. HIDE DEF k, n
  <2>4. Len(m.stamp) = k
    BY <2>1, <2>2, <2>3
  <2>. QED BY <2>1, <2>2, <2>4
<1>13. k \in {0, 6} /\ n \in Nat /\ (k = 0 <=> fs[1].stamp = <<>>)
  BY <1>7, <1>11, FrameLaidOut
<1>14. reg.itemsize <= n
  <2>1. ParsesPayload(reg, fs[1].payload)
    BY <1>3, <1>7, <1>11
  <2>2. reg.itemsize \in Nat
    BY <1>2 DEF RegisterClass
  <2>. QED BY <1>13, <2>1, <2>2 DEF ParsesPayload
<1>. HIDE DEF k, n
<1>15. OneKind(fs, k, n)
  BY <1>7, <1>12 DEF OneKind
<1>16. Len(part) < 6 + k + n
  <2>1. CASE part = <<>>
    <3>1. Len(part) = 0
      BY <2>1, EmptySeq
    <3>. QED BY <1>13, <3>1
  <2>2. CASE \E m \in Begun(paths) : Beginning(part, m)
    BY <1>12, <2>2 DEF Beginning
  <2>. QED BY <1>6, <2>1, <2>2
<1>17. /\ Whole(fs) /\ data = FramesBuilt(fs) \o part
       /\ reg.itemsize <= n /\ OneKind(fs, k, n)
       /\ Len(part) < 6 + k + n /\ (k = 0 <=> fs[1].stamp = <<>>)
  BY <1>5, <1>6, <1>13, <1>14, <1>15, <1>16
<1>18. \E k_1 \in {0, 6}, n_1 \in Nat, part_1 \in Seq(Byte) :
          /\ Whole(fs) /\ data = FramesBuilt(fs) \o part_1
          /\ reg.itemsize <= n_1 /\ OneKind(fs, k_1, n_1)
          /\ Len(part_1) < 6 + k_1 + n_1 /\ (k_1 = 0 <=> fs[1].stamp = <<>>)
  BY <1>6, <1>13, <1>17, Zenon
<1>. QED BY <1>18 DEF fs, data, reg

(* A read of chunks of one kind.                                           *)
LEMMA ChunksRead ==
    ASSUME IInv, reader # None, NEW name \in Names, NEW suffix,
           Regular(NameMap(name), ResolvePaths(NameMap(name), suffix)),
           suffix # None => ResolvePaths(NameMap(name), suffix) # <<>>
    PROVE  LET a == NameMap(name)
               paths == ResolvePaths(a, suffix)
               frames == Frames(paths)
           IN  /\ InNameOrder(paths)
               /\ frames # <<>> => name \in Contents /\ Reads(a, suffix, FALSE)
               /\ frames # <<>> => Reads(a, suffix, TRUE) = (frames[1].stamp # <<>>)
               /\ Reads(a, suffix, FALSE) =>
                    LET df == ReadRegister(a, suffix, FALSE, TRUE) IN
                    /\ df.rows = [i \in DOMAIN frames |->
                                     ParsePayload(Registers[a].register, frames[i].payload)]
                    /\ frames # <<>> => df.type = [i \in DOMAIN frames |-> frames[i].type]
               /\ Reads(a, suffix, TRUE) =>
                    ReadRegister(a, suffix, TRUE, FALSE).time =
                        [i \in DOMAIN frames |-> TicksOf(frames[i].stamp)]
<1>. DEFINE a == NameMap(name)
            paths == ResolvePaths(a, suffix)
            fs == Frames(paths)
            reg == Registers[a].register
            data == Raw(paths)
<1>1. paths \in Seq(Existing) /\ InNameOrder(paths) /\ (paths # <<>> => a \in DOMAIN reader.paths)
  BY PathsFound
<1>2. reg \in RegisterClass
  BY NameKnown DEF IInv, ReadsFolder
<1>3. /\ \A i \in DOMAIN paths : files[paths[i]].cut # None => i = Len(paths)
      /\ \A f, g \in Begun(paths) :
            /\ ParsesPayload(reg, f.payload) /\ Len(f.payload) = Len(g.payload)
            /\ (f.stamp = <<>>) = (g.stamp = <<>>)
  BY DEF Regular
<1>4. /\ \A timed \in BOOLEAN :
            Reads(a, suffix, timed) <=> ReadsFrame(reg, data, timed)
      /\ \A timed, typed \in BOOLEAN :
            ReadRegister(a, suffix, timed, typed) = DataFrame(reg, data, timed, typed)
  BY DEF Reads, ReadRegister
<1>10. Regular(a, paths) /\ reg = Registers[a].register
  OBVIOUS
<1>. HIDE DEF a, paths, reg
<1>5. Whole(fs) /\ \E part \in Seq(Byte) :
         /\ data = FramesBuilt(fs) \o part
         /\ part = <<>> \/ \E m \in Begun(paths) : Beginning(part, m)
  BY <1>1, <1>3, FilesJoined
<1>6. PICK part \in Seq(Byte) :
         /\ data = FramesBuilt(fs) \o part
         /\ part = <<>> \/ \E m \in Begun(paths) : Beginning(part, m)
  BY <1>5
<1>. HIDE DEF fs, data
<1>8. CASE fs # <<>>
  <2>1. \E k \in {0, 6}, n \in Nat, p \in Seq(Byte) :
           /\ Whole(fs) /\ data = FramesBuilt(fs) \o p
           /\ reg.itemsize <= n /\ OneKind(fs, k, n)
           /\ Len(p) < 6 + k + n /\ (k = 0 <=> fs[1].stamp = <<>>)
    <3>1. Registers[a].register \in RegisterClass /\ Frames(paths) # <<>>
      BY <1>2, <1>8, <1>10 DEF fs
    <3>2. \E k \in {0, 6}, n \in Nat, p \in Seq(Byte) :
             /\ Whole(Frames(paths)) /\ Raw(paths) = FramesBuilt(Frames(paths)) \o p
             /\ Registers[a].register.itemsize <= n /\ OneKind(Frames(paths), k, n)
             /\ Len(p) < 6 + k + n /\ (k = 0 <=> Frames(paths)[1].stamp = <<>>)
      BY <1>1, <1>10, <3>1, FilesAlike, Zenon
    <3>. QED BY <1>10, <3>2, Zenon DEF fs, data
  <2>2. PICK k \in {0, 6}, n \in Nat, p \in Seq(Byte) :
           /\ Whole(fs) /\ data = FramesBuilt(fs) \o p
           /\ reg.itemsize <= n /\ OneKind(fs, k, n)
           /\ Len(p) < 6 + k + n /\ (k = 0 <=> fs[1].stamp = <<>>)
    BY <2>1
  <2>7. /\ ReadsFrame(reg, data, FALSE) /\ (ReadsFrame(reg, data, TRUE) <=> k = 6)
        /\ DataFrame(reg, data, FALSE, TRUE).rows
             = [i \in DOMAIN fs |-> ParsePayload(reg, fs[i].payload)]
        /\ DataFrame(reg, data, FALSE, TRUE).type = [i \in DOMAIN fs |-> fs[i].type]
        /\ k = 6 => DataFrame(reg, data, TRUE, FALSE).time
                      = [i \in DOMAIN fs |-> TicksOf(fs[i].stamp)]
    <3>1. Shown(reg, fs, FramesBuilt(fs) \o p, k)
      BY <1>2, <1>8, <2>2, FramesShown
    <3>2. data = FramesBuilt(fs) \o p
      BY <2>2
    <3>3. Shown(reg, fs, data, k)
      BY <3>1, <3>2, Zenon
    <3>. QED BY <3>3 DEF Shown
  <2>8. name \in Contents
    <3>1. paths # <<>>
      <4>1. Frames(<<>>) = <<>>
        <5>1. [i \in DOMAIN <<>> |-> files[<<>>[i]].frames] = <<>>
          OBVIOUS
        <5>. QED BY <5>1, FlattenEmpty DEF Frames
      <4>. QED BY <1>8, <4>1 DEF fs
    <3>. QED BY <1>1, <3>1 DEF Contents, a
  <2>9. k = 6 <=> fs[1].stamp # <<>>
    BY <2>2
  <2>10. Reads(a, suffix, TRUE) = (fs[1].stamp # <<>>)
    <3>1. Reads(a, suffix, TRUE) <=> fs[1].stamp # <<>>
      BY <1>4, <2>7, <2>9
    <3>2. Reads(a, suffix, TRUE) \in BOOLEAN
      BY DEF Reads
    <3>. QED BY <3>1, <3>2
  <2>. QED BY <1>1, <1>4, <2>7, <2>8, <2>9, <2>10 DEF a, paths, fs, reg
<1>9. CASE fs = <<>>
  <2>1. data = part
    <3>1. FramesBuilt(<<>>) = <<>>
      <4>1. [i \in DOMAIN <<>> |-> BuildFrame(<<>>[i])] = <<>>
        OBVIOUS
      <4>. QED BY <4>1, FlattenEmpty DEF FramesBuilt
    <3>2. <<>> \o part = part
      BY ConcatEmptySeq
    <3>. QED BY <1>6, <1>9, <3>1, <3>2
  <2>2. ASSUME NEW timed \in BOOLEAN, ReadsFrame(reg, data, timed) PROVE data = <<>>
    <3>1. ParsesBulk(reg, data)
      BY <2>2 DEF ReadsFrame
    <3>. QED BY <1>6, <2>1, <3>1, CutRefused
  <2>3. ASSUME NEW timed \in BOOLEAN, NEW typed \in BOOLEAN, ReadsFrame(reg, data, timed)
        PROVE  /\ DataFrame(reg, data, timed, typed).rows = <<>>
               /\ timed => DataFrame(reg, data, timed, typed).time = <<>>
    <3>1. ParseBulk(reg, data, timed) = [rows |-> <<>>, stamps |-> None, types |-> None]
      BY <2>2, <2>3 DEF ParseBulk
    <3>. QED BY <3>1 DEF DataFrame
  <2>4. /\ [i \in DOMAIN fs |-> ParsePayload(reg, fs[i].payload)] = <<>>
        /\ [i \in DOMAIN fs |-> TicksOf(fs[i].stamp)] = <<>>
    <3>1. DOMAIN fs = {}
      BY <1>9
    <3>. QED BY <3>1
  <2>. QED BY <1>1, <1>4, <1>9, <2>3, <2>4 DEF a, paths, fs, reg
<1>. QED BY <1>8, <1>9

(* The fifth byte of a frame says the payload type of its message.         *)
LEMMA FrameTyped ==
    ASSUME NEW m \in Message, Sendable(m)
    PROVE  /\ m.payloadType \in PayloadType /\ IsPayloadType(BuildFrame(m)[5])
           /\ PayloadTypeFromByte(BuildFrame(m)[5]) = m.payloadType
<1>. DEFINE u == Unsummed(m)
<1>1. m.payloadType \in PayloadType /\ (m.stamp # <<>>) \in BOOLEAN
  BY DEF Message
<1>2. /\ Len(m.stamp) \in Nat /\ Len(m.payload) \in Nat
      /\ Len(u) = 5 + Len(m.stamp) + Len(m.payload)
      /\ u[5] = PayloadTypeToByte(m.payloadType, m.stamp # <<>>)
  BY FrameBody, Zenon
<1>3. \A i \in 1..Len(u) : BuildFrame(m)[i] = u[i]
  <2>1. Buildable(m)
    BY DEF Sendable
  <2>. QED BY <2>1, FrameBuilt, Zenon
<1>4. IsPayloadType(u[5]) /\ PayloadTypeFromByte(u[5]) = m.payloadType
  BY <1>1, <1>2, PayloadByteRead, Zenon
<1>. DEFINE k == Len(m.stamp)
            n == Len(m.payload)
            N == Len(u)
<1>7. k \in Nat /\ n \in Nat /\ N = 5 + k + n
  BY <1>2
<1>. HIDE DEF k, n, N
<1>5. 5 \in 1..Len(u)
  <2>1. 5 \in 1..N
    BY <1>7
  <2>. QED BY <2>1 DEF N
<1>. HIDE DEF u
<1>6. BuildFrame(m)[5] = u[5]
  BY <1>3, <1>5
<1>. QED BY <1>1, <1>4, <1>6

(* A register inferred from a frame of whole elements has its payload's    *)
(* size.                                                                   *)
LEMMA InferredFits ==
    ASSUME NEW m \in Message, Sendable(m), NEW k \in {0, 6}, NEW n \in Nat, NEW data,
           BeginsWith(data, m, 6 + k + n), BulkStamped(data) <=> k = 6,
           n % m.payloadType.size = 0
    PROVE  Infers(data) /\ Inferred(data) \in RegisterClass /\ Inferred(data).itemsize = n
<1>. DEFINE pt == m.payloadType
            size == pt.size
            count == ElementCount(data)
<1>1. /\ pt \in PayloadType /\ IsPayloadType(data[5]) /\ PayloadTypeFromByte(data[5]) = pt
      /\ Len(data) >= 6 /\ FrameStride(data) = 6 + k + n /\ data[3] \in Byte
  BY FrameTyped DEF BeginsWith
<1>2. size \in {1, 2, 4, 8}
  BY <1>1 DEF PayloadType
<1>3. Offset(BulkStamped(data)) = 5 + k
  BY DEF Offset, HeaderLen, TimestampLen
<1>4. count = n \div size
  <2>. HIDE DEF pt
  <2>1. count = ((6 + k + n) - (5 + k) - 1) \div size
    BY <1>1, <1>3 DEF ElementCount
  <2>2. (6 + k + n) - (5 + k) - 1 = n
    OBVIOUS
  <2>. QED BY <2>1, <2>2
<1>5. n % size = 0
  OBVIOUS
<1>. HIDE DEF count, size, pt
<1>6. count \in Nat /\ count * size = n
  <2>1. CASE size = 1
    BY <1>4, <1>5, <2>1
  <2>2. CASE size = 2
    BY <1>4, <1>5, <2>2
  <2>3. CASE size = 4
    BY <1>4, <1>5, <2>3
  <2>4. CASE size = 8
    BY <1>4, <1>5, <2>4
  <2>. QED BY <1>2, <2>1, <2>2, <2>3, <2>4
<1>7. Infers(data)
  BY <1>1, <1>6 DEF Infers, HeaderLen, count
<1>8. Inferred(data) = IF count = 1 THEN Scalar(NoAddress, pt) ELSE Array(data[3], pt, count)
  BY <1>1 DEF Inferred, count
<1>9. CASE count = 1
  <2>1. size = n
    BY <1>2, <1>6, <1>9
  <2>2. Inferred(data) = [address |-> NoAddress, payloadType |-> pt, shape |-> <<>>, itemsize |-> n]
    BY <1>8, <1>9, <2>1 DEF Scalar, size
  <2>3. <<>> \in Seq(Nat)
    BY EmptySeq
  <2>. QED BY <1>1, <1>7, <2>2, <2>3 DEF RegisterClass
<1>10. CASE count # 1
  <2>1. Inferred(data) = [address |-> data[3], payloadType |-> pt, shape |-> <<count>>, itemsize |-> n]
    BY <1>6, <1>8, <1>10 DEF Array, size
  <2>2. <<count>> \in Seq(Nat)
    BY <1>6
  <2>. QED BY <1>1, <1>7, <2>1, <2>2 DEF RegisterClass
<1>. QED BY <1>9, <1>10

(* A read depends on the size of the register only.                        *)
LEMMA SizeDecides ==
    ASSUME NEW r, NEW s, NEW data, r.itemsize = s.itemsize
    PROVE  DataFrame(r, data, BulkStamped(data), TRUE) = DataFrame(s, data, BulkStamped(data), TRUE)
<1>1. ParseBulk(r, data, BulkStamped(data)) = ParseBulk(s, data, BulkStamped(data))
  BY DEF ParseBulk
<1>. QED BY <1>1 DEF DataFrame

(* A file of one kind and of whole elements says the size of its register. *)
LEMMA FileInferred ==
    ASSUME IInv, reader # None, NEW a \in DOMAIN Registers, Regular(a, Listed(a)),
           Frames(Listed(a)) # <<>>,
           Len(Frames(Listed(a))[1].payload) = Registers[a].register.itemsize,
           Registers[a].register.itemsize % Frames(Listed(a))[1].payloadType.size = 0
    PROVE  LET data == Raw(Listed(a)) IN
           /\ Infers(data) /\ ReadsFrame(Inferred(data), data, FALSE)
           /\ DataFrame(Inferred(data), data, BulkStamped(data), TRUE)
                = ReadRegister(a, None, BulkStamped(data), TRUE)
<1>. DEFINE paths == Listed(a)
            fs == Frames(paths)
            data == Raw(paths)
            reg == Registers[a].register
<1>1. reg \in RegisterClass
  BY DEF IInv, ReadsFolder
<1>2. paths \in Seq(Existing) /\ ResolvePaths(a, None) = paths
  <2>1. ResolvePaths(a, None) = paths
    BY DEF ResolvePaths
  <2>2. ResolvePaths(a, None) \in Seq(Existing)
    BY PathsFound
  <2>. QED BY <2>1, <2>2
<1>3. Len(fs[1].payload) = reg.itemsize /\ reg.itemsize % fs[1].payloadType.size = 0 /\ fs # <<>>
  OBVIOUS
<1>4. PICK k \in {0, 6}, n \in Nat, part \in Seq(Byte) :
         /\ Whole(Frames(paths)) /\ Raw(paths) = FramesBuilt(Frames(paths)) \o part
         /\ Registers[a].register.itemsize <= n /\ OneKind(Frames(paths), k, n)
         /\ Len(part) < 6 + k + n /\ (k = 0 <=> Frames(paths)[1].stamp = <<>>)
  <2>1. Regular(a, paths) /\ Frames(paths) # <<>> /\ Registers[a].register \in RegisterClass
    BY <1>1
  <2>. HIDE DEF paths
  <2>. QED BY <1>2, <2>1, FilesAlike, Zenon
<1>5. ReadRegister(a, None, BulkStamped(data), TRUE) = DataFrame(reg, data, BulkStamped(data), TRUE)
  BY <1>2 DEF ReadRegister
<1>. HIDE DEF reg, paths
<1>6. 1 \in 1..Len(fs) /\ fs[1] \in Message /\ Sendable(fs[1])
  <2>1. fs \in Seq(Message) /\ \A i \in 1..Len(fs) : Sendable(fs[i])
    BY <1>4 DEF Whole
  <2>. HIDE DEF fs
  <2>2. Len(fs) \in Nat /\ Len(fs) # 0
    BY <1>3, <2>1, EmptySeq, LenProperties
  <2>3. 1 \in 1..Len(fs)
    BY <2>2
  <2>. QED BY <2>1, <2>3, ElementOfSeq
<1>7. reg.itemsize = n /\ reg.itemsize <= n
  <2>1. Len(fs[1].payload) = n
    BY <1>4, <1>6 DEF OneKind
  <2>. QED BY <1>3, <1>4, <2>1 DEF reg
<1>. HIDE DEF fs, data
<1>8. /\ Whole(fs) /\ OneKind(fs, k, n) /\ Len(part) < 6 + k + n
      /\ data = FramesBuilt(fs) \o part
  BY <1>4 DEF fs, data
<1>9. BulkStamped(FramesBuilt(fs) \o part) <=> k = 6
  BY <1>1, <1>3, <1>7, <1>8, FramesRead
<1>10. BeginsWith(FramesBuilt(fs) \o part, fs[1], 6 + k + n)
  BY <1>1, <1>3, <1>7, <1>8, FramesRead
<1>11. Infers(data) /\ Inferred(data) \in RegisterClass /\ Inferred(data).itemsize = n
  <2>1. n % fs[1].payloadType.size = 0
    BY <1>3, <1>7
  <2>. QED BY <1>6, <1>8, <1>9, <1>10, <2>1, InferredFits
<1>12. ReadsFrame(Inferred(data), data, FALSE)
  <2>. DEFINE r == Inferred(data)
  <2>1. r \in RegisterClass /\ r.itemsize <= n
    BY <1>11
  <2>. HIDE DEF r
  <2>2. Shown(r, fs, FramesBuilt(fs) \o part, k)
    BY <1>3, <1>8, <2>1, FramesShown
  <2>3. Shown(r, fs, data, k)
    BY <1>8, <2>2, Zenon
  <2>. QED BY <2>3 DEF Shown, r
<1>13. DataFrame(Inferred(data), data, BulkStamped(data), TRUE)
         = DataFrame(reg, data, BulkStamped(data), TRUE)
  <2>1. Inferred(data).itemsize = reg.itemsize
    BY <1>7, <1>11
  <2>. QED BY <2>1, SizeDecides, Zenon
<1>. QED BY <1>5, <1>11, <1>12, <1>13 DEF data, paths

(* Whatever is recorded, cut and written: each file is whole frames, with  *)
(* the beginning of one more behind them at the most, and the reader is    *)
(* one of the folder's device.                                             *)
THEOREM InductiveInvariant == Spec => []IInv
<1>1. Init => IInv
  BY DEF Init, IInv, TypeOK, Existing, OpensOwnDevice
<1>. QED BY <1>1, FilesKept, PTL DEF Spec

(* What to_file writes as one table is, byte for byte, the frames that     *)
(* build_message_frame makes of its rows, for every register, number of    *)
(* rows, types and times; and so is what is recorded, up to a crash.       *)
THEOREM FilesHoldFrames == Spec => []FilesAreFrames
<1>1. IInv => FilesAreFrames
  BY DEF IInv, Holds, FilesAreFrames
<1>. QED BY <1>1, InductiveInvariant, PTL

(* A reader opened with validation is of the device that device.yml names. *)
THEOREM OwnDeviceOnly == Spec => []OpensOwnDevice
<1>1. IInv => OpensOwnDevice
  BY DEF IInv
<1>. QED BY <1>1, InductiveInvariant, PTL

(* However a recording is spread over chunks, whether it goes on or has    *)
(* crashed: a read by any register name, of all chunks or those with a     *)
(* suffix, gives every complete frame once, in the order of the file       *)
(* names, as it is parsed alone, with its own time and type, and nothing   *)
(* of a frame that was cut.                                                *)
THEOREM EveryFrameIsRead == Spec => []CompleteFramesRead
<1>1. IInv => CompleteFramesRead
  <2>. SUFFICES ASSUME IInv, reader # None, NEW name \in Names, NEW suffix \in Suffix \cup {None},
                       Regular(NameMap(name), ResolvePaths(NameMap(name), suffix)),
                       suffix # None => ResolvePaths(NameMap(name), suffix) # <<>>
                PROVE  LET a == NameMap(name)
                           paths == ResolvePaths(a, suffix)
                           frames == Frames(paths)
                       IN  /\ InNameOrder(paths)
                           /\ frames # <<>> => name \in Contents /\ Reads(a, suffix, FALSE)
                           /\ frames # <<>> => Reads(a, suffix, TRUE) = (frames[1].stamp # <<>>)
                           /\ Reads(a, suffix, FALSE) =>
                                LET df == ReadRegister(a, suffix, FALSE, TRUE) IN
                                /\ df.rows = [i \in DOMAIN frames |->
                                                 ParsePayload(Registers[a].register, frames[i].payload)]
                                /\ frames # <<>> => df.type = [i \in DOMAIN frames |-> frames[i].type]
                           /\ Reads(a, suffix, TRUE) =>
                                ReadRegister(a, suffix, TRUE, FALSE).time =
                                    [i \in DOMAIN frames |-> TicksOf(frames[i].stamp)]
    BY DEF CompleteFramesRead
  <2>. QED BY ChunksRead, Zenon
<1>. QED BY <1>1, InductiveInvariant, PTL

(* A file of one kind, of any number of frames, reads without its device   *)
(* as it reads with it: what is inferred of the first frame has the size   *)
(* of the register, where that is whole elements of its payload type.      *)
THEOREM InferenceAgrees == Spec => []InferredAgrees
<1>1. IInv => InferredAgrees
  BY FileInferred DEF InferredAgrees
<1>. QED BY <1>1, InductiveInvariant, PTL
=============================================================================
