---------------------------- MODULE FramingProofs ----------------------------
(***************************************************************************)
(* Proofs about Framing, for every set of messages and their bytes, every  *)
(* frame limit and every way reads and writes cut the stream up: types,    *)
(* that both ends agree on where frames begin, and that the bytes are the  *)
(* queue of messages of MsgChannel.                                        *)
(***************************************************************************)
EXTENDS Framing, TotalsProofs, SequenceTheorems, TLAPS

-----------------------------------------------------------------------------
(* Numbers in base Base. *)

(* Division with remainder, and that there is only one. *)
LEMMA DivMod ==
    ASSUME NEW a \in Nat, NEW b \in Nat \ {0}
    PROVE  /\ a \div b \in Nat /\ a % b \in 0 .. b - 1
           /\ a = (a \div b) * b + (a % b)
OBVIOUS

(* There is only one such quotient and one such remainder. *)
LEMMA DivModUnique ==
    ASSUME NEW b \in Nat \ {0}, NEW x \in Nat, NEW y \in 0 .. b - 1
    PROVE  (x * b + y) \div b = x /\ (x * b + y) % b = y
<1> DEFINE a == x * b + y
           q == a \div b
           r == a % b
<1>1. a \in Nat
  OBVIOUS
<1>2. q \in Nat /\ r \in 0 .. b - 1 /\ a = q * b + r
  BY <1>1, DivMod
<1> HIDE DEF q, r
<1>3. (q - x) * b = y - r
  BY <1>2
<1>4. q = x
  <2>1. \A d \in Int : d >= 1 => d * b >= b
    OBVIOUS
  <2>2. \A d \in Int : d <= -1 => d * b <= -b
    OBVIOUS
  <2>3. q - x \in Int /\ y - r < b /\ y - r > -b
    BY <1>2
  <2> QED BY <1>2, <1>3, <2>1, <2>2, <2>3
<1>5. r = y
  BY <1>2, <1>4
<1> QED BY <1>4, <1>5 DEF q, r

(* A digit more multiplies the range by the base. *)
LEMMA Digit ==
    ASSUME NEW M \in Nat, NEW x \in 0 .. M - 1, NEW y \in Byte
    PROVE  x * Base + y \in 0 .. M * Base - 1
<1>1. Base \in Nat \ {0} /\ y \in Nat /\ y <= Base - 1 /\ x \in Nat /\ x <= M - 1
  BY FramingAssumption DEF Byte
<1>2. x * Base <= (M - 1) * Base
  BY <1>1
<1>3. (M - 1) * Base = M * Base - Base
  BY <1>1
<1>4. x * Base \in Nat /\ M * Base \in Nat
  BY <1>1
<1> QED BY <1>1, <1>2, <1>3, <1>4

(* What four bytes declare is a u32, and its bytes are those four. *)
LEMMA FromTo ==
    ASSUME NEW b \in Seq(Byte), Len(b) = 4
    PROVE  FromBeBytes(b) \in U32 /\ ToBeBytes(FromBeBytes(b)) = b
<1>0. Base \in Nat \ {0} /\ Byte = 0 .. Base - 1
  BY FramingAssumption DEF Byte
<1>1. b[1] \in Byte /\ b[2] \in Byte /\ b[3] \in Byte /\ b[4] \in Byte
  <2>1. \A i \in 1 .. Len(b) : b[i] \in Byte
    BY ElementOfSeq
  <2> QED BY <2>1
<1> DEFINE x1 == b[1]
           x2 == x1 * Base + b[2]
           x3 == x2 * Base + b[3]
           x4 == x3 * Base + b[4]
<1>2. x2 \in 0 .. Base * Base - 1
  BY <1>0, <1>1, Digit
<1>3. x3 \in 0 .. Base * Base * Base - 1
  <2> HIDE DEF x2
  <2>1. Base * Base \in Nat
    BY <1>0
  <2> QED BY <1>1, <1>2, <2>1, Digit
<1>4. x4 \in 0 .. Base * Base * Base * Base - 1
  <2> HIDE DEF x3
  <2>1. Base * Base * Base \in Nat
    BY <1>0
  <2> QED BY <1>1, <1>3, <2>1, Digit
<1>5. FromBeBytes(b) = x4
  BY DEF FromBeBytes
<1>6. x1 \in Nat /\ x2 \in Nat /\ x3 \in Nat
  BY <1>0, <1>1, <1>2, <1>3
<1>7. x4 \div Base = x3 /\ x4 % Base = b[4]
  <2> HIDE DEF x3
  <2> QED BY <1>0, <1>1, <1>6, DivModUnique
<1>8. x3 \div Base = x2 /\ x3 % Base = b[3]
  <2> HIDE DEF x2
  <2> QED BY <1>0, <1>1, <1>6, DivModUnique
<1>9. x2 \div Base = x1 /\ x2 % Base = b[2]
  BY <1>0, <1>1, <1>6, DivModUnique
<1>10. x1 % Base = b[1]
  <2>1. 0 * Base + b[1] = b[1]
    BY <1>0, <1>1
  <2>2. (0 * Base + b[1]) % Base = b[1]
    BY <1>0, <1>1, DivModUnique
  <2> QED BY <2>1, <2>2
<1> HIDE DEF x1, x2, x3, x4
<1>11. ToBeBytes(x4) = <<b[1], b[2], b[3], b[4]>>
  BY <1>7, <1>8, <1>9, <1>10 DEF ToBeBytes
<1>12. <<b[1], b[2], b[3], b[4]>> = b
  OBVIOUS
<1> QED BY <1>4, <1>5, <1>11, <1>12 DEF U32

(* A u32 has four bytes, and they declare it. *)
LEMMA ToFrom ==
    ASSUME NEW n \in U32
    PROVE  /\ ToBeBytes(n) \in Seq(Byte) /\ Len(ToBeBytes(n)) = 4
           /\ FromBeBytes(ToBeBytes(n)) = n
<1> DEFINE q1 == n \div Base
           q2 == q1 \div Base
           q3 == q2 \div Base
<1>0. Base \in Nat \ {0} /\ Byte = 0 .. Base - 1 /\ n \in Nat
  BY FramingAssumption DEF Byte, U32
<1>1. q1 \in Nat /\ n % Base \in Byte /\ n = q1 * Base + (n % Base)
  BY <1>0, DivMod
<1> HIDE DEF q1
<1>2. q2 \in Nat /\ q1 % Base \in Byte /\ q1 = q2 * Base + (q1 % Base)
  BY <1>0, <1>1, DivMod
<1> HIDE DEF q2
<1>3. q3 \in Nat /\ q2 % Base \in Byte /\ q2 = q3 * Base + (q2 % Base)
  BY <1>0, <1>2, DivMod
<1> HIDE DEF q3
<1>4. q3 \in Byte
  <2>2. ASSUME NEW a \in Nat, NEW c \in Nat, NEW r \in Nat, NEW M \in Nat, c = a * Base + r, a >= M
        PROVE  c >= M * Base
    <3>1. a * Base >= M * Base
      BY <1>0, <2>2
    <3>2. a * Base \in Nat /\ M * Base \in Nat
      BY <1>0
    <3> QED BY <2>2, <3>1, <3>2
  <2>3. n % Base \in Nat /\ q1 % Base \in Nat /\ q2 % Base \in Nat
    BY <1>0, <1>1, <1>2, <1>3
  <2>4. Base * Base \in Nat /\ Base * Base * Base \in Nat
    BY <1>0
  <2>5. q3 >= Base => q2 >= Base * Base
    BY <1>0, <1>2, <1>3, <2>2, <2>3
  <2>6. q2 >= Base * Base => q1 >= Base * Base * Base
    BY <1>0, <1>1, <1>2, <2>2, <2>3, <2>4
  <2>7. q1 >= Base * Base * Base => n >= Base * Base * Base * Base
    BY <1>0, <1>1, <2>2, <2>3, <2>4
  <2>8. n < Base * Base * Base * Base
    BY <1>0 DEF U32
  <2>9. ~(q3 >= Base)
    <3>1. Base * Base * Base * Base \in Nat
      BY <1>0, <2>4
    <3> QED BY <1>0, <2>5, <2>6, <2>7, <2>8, <3>1
  <2> QED BY <1>0, <1>3, <2>9
<1>5. q3 % Base = q3
  <2>1. 0 * Base + q3 = q3
    BY <1>0, <1>3
  <2> QED BY <1>0, <1>4, <2>1, DivModUnique
<1>6. ToBeBytes(n) = <<q3, q2 % Base, q1 % Base, n % Base>>
  BY <1>5 DEF ToBeBytes, q1, q2, q3
<1>7. FromBeBytes(<<q3, q2 % Base, q1 % Base, n % Base>>) = n
  BY <1>1, <1>2, <1>3 DEF FromBeBytes
<1>8. <<q3, q2 % Base, q1 % Base, n % Base>> \in Seq(Byte)
  BY <1>1, <1>2, <1>3, <1>4
<1> QED BY <1>6, <1>7, <1>8
-----------------------------------------------------------------------------
(* Frames one after the other. *)

Bytes == Seq(Byte)

(* What is used of the bytes in a row. *)
LEMMA Cat ==
    /\ <<>> \in Bytes
    /\ \A a, b \in Bytes : a \o b \in Bytes /\ Len(a \o b) = Len(a) + Len(b)
    /\ \A a \in Bytes : a \o <<>> = a /\ <<>> \o a = a /\ Len(a) \in Nat
    /\ \A a, b, c \in Bytes : (a \o b) \o c = a \o (b \o c)
<1>1. \A a, b, c \in Bytes : (a \o b) \o c = a \o (b \o c)
  BY ConcatAssociative DEF Bytes
<1>2. \A a, b \in Bytes : a \o b \in Bytes /\ Len(a \o b) = Len(a) + Len(b)
  BY ConcatProperties DEF Bytes
<1>3. \A a \in Bytes : a \o <<>> = a /\ <<>> \o a = a /\ Len(a) \in Nat
  BY ConcatEmptySeq DEF Bytes
<1>4. <<>> \in Bytes
  BY DEF Bytes
<1> QED BY <1>1, <1>2, <1>3, <1>4

(* Associativity, one row after the other for the provers' sake. *)
LEMMA CatAssoc ==
    \A a \in Bytes : \A b \in Bytes : \A c \in Bytes : (a \o b) \o c = a \o (b \o c)
BY Cat

(* g gives the first k sequences of f in one, for k up to n. *)
IsFlat(g, f, n) ==
    /\ g \in [1 .. n -> Bytes] /\ g[1] = f[1]
    /\ \A k \in 2 .. n : g[k] = g[k - 1] \o f[k]

(* There is such a function for every sequence. *)
LEMMA FlatExists ==
    ASSUME NEW f \in Seq(Bytes), NEW n \in 1 .. Len(f)
    PROVE  \E g \in [1 .. n -> Bytes] : IsFlat(g, f, n)
<1> DEFINE T == {m \in Nat : m + 1 <= Len(f) => \E g \in [1 .. m + 1 -> Bytes] : IsFlat(g, f, m + 1)}
<1>0. \A i \in 1 .. Len(f) : f[i] \in Bytes
  BY ElementOfSeq
<1>1. 0 \in T
  <2> SUFFICES ASSUME 1 <= Len(f) PROVE \E g \in [1 .. 1 -> Bytes] : IsFlat(g, f, 1)
    OBVIOUS
  <2> DEFINE g == [k \in 1 .. 1 |-> f[1]]
  <2>1. f[1] \in Bytes
    BY <1>0
  <2>2. IsFlat(g, f, 1) /\ g \in [1 .. 1 -> Bytes]
    BY <2>1 DEF IsFlat
  <2> HIDE DEF g
  <2> QED BY <2>2
<1>2. ASSUME NEW m \in T PROVE m + 1 \in T
  <2> SUFFICES ASSUME (m + 1) + 1 <= Len(f)
               PROVE  \E g \in [1 .. (m + 1) + 1 -> Bytes] : IsFlat(g, f, (m + 1) + 1)
    OBVIOUS
  <2>1. PICK g \in [1 .. m + 1 -> Bytes] : IsFlat(g, f, m + 1)
    OBVIOUS
  <2> DEFINE last == g[m + 1] \o f[m + 2]
             h    == [k \in 1 .. m + 2 |-> IF k = m + 2 THEN last ELSE g[k]]
  <2>2. last \in Bytes
    <3>1. g[m + 1] \in Bytes /\ f[m + 2] \in Bytes
      BY <1>0
    <3> QED BY <3>1, Cat
  <2>3. h \in [1 .. m + 2 -> Bytes] /\ h[1] = f[1]
    <3> HIDE DEF last
    <3> QED BY <2>1, <2>2 DEF IsFlat
  <2>4. \A k \in 2 .. m + 2 : h[k] = h[k - 1] \o f[k]
    <3> TAKE k \in 2 .. m + 2
    <3>0. m \in Nat /\ k \in 1 .. m + 2 /\ k - 1 \in 1 .. m + 2 /\ k - 1 # m + 2
      OBVIOUS
    <3>3. h[k - 1] = g[k - 1]
      <4> HIDE DEF last
      <4> QED BY <3>0
    <3>1. CASE k = m + 2
      <4>1. h[k] = last
        BY <3>0, <3>1
      <4>2. k - 1 = m + 1
        BY <3>0, <3>1
      <4> HIDE DEF h
      <4> QED BY <3>1, <3>3, <4>1, <4>2
    <3>2. CASE k # m + 2
      <4>1. k \in 2 .. m + 1
        BY <3>0, <3>2
      <4>2. h[k] = g[k]
        <5> HIDE DEF last
        <5> QED BY <3>0, <3>2
      <4>3. g[k] = g[k - 1] \o f[k]
        BY <2>1, <4>1 DEF IsFlat
      <4> HIDE DEF h
      <4> QED BY <3>3, <4>2, <4>3
    <3> QED BY <3>1, <3>2
  <2>5. (m + 1) + 1 = m + 2
    OBVIOUS
  <2> HIDE DEF h
  <2> QED BY <2>3, <2>4, <2>5 DEF IsFlat
<1>3. T = Nat
  <2>1. T \in SUBSET Nat
    OBVIOUS
  <2> HIDE DEF T
  <2> QED BY <1>1, <1>2, <2>1, NatSetInduction
<1>4. n - 1 \in Nat /\ (n - 1) + 1 = n /\ n <= Len(f)
  OBVIOUS
<1>5. n - 1 \in T
  <2> HIDE DEF T
  <2> QED BY <1>3, <1>4
<1> QED BY <1>4, <1>5

(* What FlattenSeq computes. *)
LEMMA FlatUnfold ==
    ASSUME NEW f \in Seq(Bytes), Len(f) > 0
    PROVE  \E g \in [1 .. Len(f) -> Bytes] : IsFlat(g, f, Len(f)) /\ FlattenSeq(f) = g[Len(f)]
<1> DEFINE N == Len(f)
           Rec(g) == [i \in 1 .. N |-> IF i = 1 THEN f[i] ELSE g[i - 1] \o f[i]]
           h == CHOOSE g : g = Rec(g)
<1>0. N \in Nat /\ N >= 1 /\ \A i \in 1 .. N : f[i] \in Bytes
  BY ElementOfSeq
<1>1. PICK g \in [1 .. N -> Bytes] : IsFlat(g, f, N)
  BY <1>0, FlatExists
<1>2. g = Rec(g)
  <2>1. \A i \in 1 .. N : g[i] = IF i = 1 THEN f[i] ELSE g[i - 1] \o f[i]
    <3> TAKE i \in 1 .. N
    <3>1. CASE i = 1
      BY <1>1, <3>1 DEF IsFlat
    <3>2. CASE i # 1
      <4>1. i \in 2 .. N
        BY <1>0, <3>2
      <4> QED BY <1>1, <3>2, <4>1 DEF IsFlat
    <3> QED BY <3>1, <3>2
  <2>2. g = [i \in 1 .. N |-> g[i]]
    BY <1>1
  <2> QED BY <2>1, <2>2
<1>3. FlattenSeq(f) = h[N]
  BY <1>0 DEF FlattenSeq
<1>4. h = Rec(h)
  <2> HIDE DEF Rec
  <2> QED BY <1>2
<1> HIDE DEF h
<1>5. h[1] = f[1] /\ \A k \in 2 .. N : h[k] = h[k - 1] \o f[k]
  <2>1. \A k \in 1 .. N : h[k] = IF k = 1 THEN f[k] ELSE h[k - 1] \o f[k]
    BY <1>4
  <2>2. 1 \in 1 .. N /\ \A k \in 2 .. N : k \in 1 .. N /\ k # 1
    BY <1>0
  <2> QED BY <2>1, <2>2
<1> DEFINE T == {m \in Nat : m + 1 <= N => h[m + 1] \in Bytes}
<1>6. 0 \in T
  BY <1>0, <1>5
<1>7. ASSUME NEW m \in T PROVE m + 1 \in T
  <2> SUFFICES ASSUME (m + 1) + 1 <= N PROVE h[(m + 1) + 1] \in Bytes
    OBVIOUS
  <2>1. /\ h[m + 1] \in Bytes /\ f[m + 2] \in Bytes /\ m + 2 \in 2 .. N
        /\ (m + 2) - 1 = m + 1 /\ (m + 1) + 1 = m + 2
    BY <1>0
  <2>2. h[m + 2] = h[m + 1] \o f[m + 2]
    BY <1>5, <2>1
  <2>3. h[m + 1] \o f[m + 2] \in Bytes
    BY <2>1, Cat
  <2>4. h[m + 2] \in Bytes
    BY <2>2, <2>3
  <2> QED BY <2>1, <2>4
<1>8. T = Nat
  <2>1. T \in SUBSET Nat
    OBVIOUS
  <2> HIDE DEF T
  <2> QED BY <1>6, <1>7, <2>1, NatSetInduction
<1>9. \A k \in 1 .. N : h[k] \in Bytes
  <2>1. \A k \in 1 .. N : k - 1 \in Nat /\ (k - 1) + 1 = k
    BY <1>0
  <2> SUFFICES ASSUME NEW k \in 1 .. N PROVE h[k] \in Bytes
    OBVIOUS
  <2>2. k - 1 \in T
    <3> HIDE DEF T
    <3> QED BY <1>8, <2>1
  <2>3. k <= N
    BY <1>0
  <2> QED BY <2>1, <2>2, <2>3
<1>10. h \in [1 .. N -> Bytes]
  BY <1>4, <1>9
<1> QED BY <1>3, <1>5, <1>10 DEF IsFlat

(* Two such functions agree. *)
LEMMA FlatUnique ==
    ASSUME NEW f, NEW n \in Nat \ {0}, NEW g, NEW h, IsFlat(g, f, n), IsFlat(h, f, n)
    PROVE  g[n] = h[n]
<1> DEFINE T == {m \in Nat : m + 1 <= n => g[m + 1] = h[m + 1]}
<1>1. 0 \in T
  BY DEF IsFlat
<1>2. ASSUME NEW m \in T PROVE m + 1 \in T
  <2> SUFFICES ASSUME (m + 1) + 1 <= n PROVE g[(m + 1) + 1] = h[(m + 1) + 1]
    OBVIOUS
  <2>1. g[m + 1] = h[m + 1] /\ m + 2 \in 2 .. n /\ (m + 2) - 1 = m + 1 /\ (m + 1) + 1 = m + 2
    OBVIOUS
  <2>2. g[m + 2] = g[m + 1] \o f[m + 2] /\ h[m + 2] = h[m + 1] \o f[m + 2]
    BY <2>1 DEF IsFlat
  <2> QED BY <2>1, <2>2
<1>3. T = Nat
  <2>1. T \in SUBSET Nat
    OBVIOUS
  <2> HIDE DEF T
  <2> QED BY <1>1, <1>2, <2>1, NatSetInduction
<1>4. n - 1 \in Nat /\ (n - 1) + 1 = n
  OBVIOUS
<1>5. n - 1 \in T
  <2> HIDE DEF T
  <2> QED BY <1>3, <1>4
<1> QED BY <1>4, <1>5

(* So any such function gives what FlattenSeq computes. *)
LEMMA FlatBy ==
    ASSUME NEW f \in Seq(Bytes), Len(f) > 0, NEW g, IsFlat(g, f, Len(f))
    PROVE  FlattenSeq(f) = g[Len(f)]
<1>1. PICK h \in [1 .. Len(f) -> Bytes] : IsFlat(h, f, Len(f)) /\ FlattenSeq(f) = h[Len(f)]
  BY FlatUnfold
<1>2. Len(f) \in Nat \ {0}
  OBVIOUS
<1> QED BY <1>1, <1>2, FlatUnique

(* Bytes one after the other are bytes. *)
LEMMA FlatType ==
    ASSUME NEW f \in Seq(Bytes)
    PROVE  FlattenSeq(f) \in Bytes /\ (Len(f) = 0 => FlattenSeq(f) = <<>>)
<1>1. CASE Len(f) = 0
  <2>1. f = <<>>
    BY <1>1
  <2> QED BY <2>1 DEF FlattenSeq, Bytes
<1>2. CASE Len(f) > 0
  <2>1. Len(f) \in 1 .. Len(f)
    BY <1>2
  <2> QED BY <1>2, <2>1, FlatUnfold
<1>3. Len(f) \in Nat
  OBVIOUS
<1> QED BY <1>1, <1>2, <1>3

(* One more at the end. *)
LEMMA FlatAppend ==
    ASSUME NEW f \in Seq(Bytes), NEW x \in Bytes
    PROVE  FlattenSeq(Append(f, x)) = FlattenSeq(f) \o x
<1> DEFINE N == Len(f)
           a == Append(f, x)
<1>1. /\ N \in Nat /\ a \in Seq(Bytes) /\ Len(a) = N + 1 /\ a[N + 1] = x
      /\ \A i \in 1 .. N : a[i] = f[i]
  BY AppendProperties
<1> HIDE DEF a
<1>2. PICK h \in [1 .. N + 1 -> Bytes] : IsFlat(h, a, N + 1) /\ FlattenSeq(a) = h[N + 1]
  <2>1. Len(a) > 0
    BY <1>1
  <2> QED BY <1>1, <2>1, FlatUnfold
<1>3. CASE N = 0
  <2>1. FlattenSeq(a) = x
    BY <1>1, <1>2, <1>3 DEF IsFlat
  <2>2. FlattenSeq(f) = <<>>
    BY <1>3, FlatType
  <2>3. <<>> \o x = x
    BY Cat
  <2> QED BY <2>1, <2>2, <2>3 DEF a
<1>4. CASE N # 0
  <2> DEFINE g == [k \in 1 .. N |-> h[k]]
  <2>1. h[N + 1] = h[N] \o x
    <3>1. N + 1 \in 2 .. N + 1 /\ (N + 1) - 1 = N
      BY <1>1, <1>4
    <3> QED BY <1>1, <1>2, <3>1 DEF IsFlat
  <2>2. IsFlat(g, f, N)
    <3>1. g \in [1 .. N -> Bytes] /\ g[1] = f[1]
      <4>1. 1 \in 1 .. N /\ h[1] = a[1]
        BY <1>1, <1>2, <1>4 DEF IsFlat
      <4> QED BY <1>1, <1>2, <4>1
    <3>2. \A k \in 2 .. N : g[k] = g[k - 1] \o f[k]
      <4> TAKE k \in 2 .. N
      <4>1. k \in 2 .. N + 1 /\ k \in 1 .. N /\ k - 1 \in 1 .. N
        BY <1>1
      <4>2. h[k] = h[k - 1] \o a[k] /\ a[k] = f[k]
        BY <1>1, <1>2, <4>1 DEF IsFlat
      <4> QED BY <4>1, <4>2
    <3> HIDE DEF g
    <3> QED BY <3>1, <3>2 DEF IsFlat
  <2>3. FlattenSeq(f) = h[N]
    <3>1. N > 0 /\ N \in 1 .. N
      BY <1>1, <1>4
    <3>2. FlattenSeq(f) = g[N]
      <4> HIDE DEF g
      <4> QED BY <2>2, <3>1, FlatBy
    <3> QED BY <3>1, <3>2
  <2> QED BY <1>2, <2>1, <2>3 DEF a
<1> QED BY <1>3, <1>4

(* The first of them. *)
LEMMA FlatHead ==
    ASSUME NEW f \in Seq(Bytes), Len(f) > 0
    PROVE  FlattenSeq(f) = f[1] \o FlattenSeq(Tail(f))
<1> DEFINE N == Len(f)
           t == Tail(f)
<1>1. /\ N \in Nat /\ N >= 1 /\ t \in Seq(Bytes) /\ Len(t) = N - 1
      /\ \A i \in 1 .. N - 1 : t[i] = f[i + 1]
      /\ f[1] \in Bytes
  <2>1. f # <<>>
    OBVIOUS
  <2>2. f[1] \in Bytes
    BY ElementOfSeq
  <2> QED BY <2>1, <2>2, HeadTailProperties
<1> HIDE DEF t
<1>2. CASE N = 1
  <2>1. FlattenSeq(t) = <<>>
    <3>1. Len(t) = 0
      BY <1>1, <1>2
    <3> QED BY <1>1, <3>1, FlatType
  <2>2. PICK h \in [1 .. N -> Bytes] : IsFlat(h, f, N) /\ FlattenSeq(f) = h[N]
    BY FlatUnfold
  <2>3. FlattenSeq(f) = f[1]
    BY <1>2, <2>2 DEF IsFlat
  <2>4. f[1] \o <<>> = f[1]
    BY <1>1, Cat
  <2> QED BY <2>1, <2>3, <2>4 DEF t
<1>3. CASE N # 1
  <2>1. PICK h \in [1 .. N - 1 -> Bytes] : IsFlat(h, t, N - 1) /\ FlattenSeq(t) = h[N - 1]
    <3>1. Len(t) > 0
      BY <1>1, <1>3
    <3> QED BY <1>1, <3>1, FlatUnfold
  <2> DEFINE g == [k \in 1 .. N |-> IF k = 1 THEN f[1] ELSE f[1] \o h[k - 1]]
  <2>2. g \in [1 .. N -> Bytes] /\ g[1] = f[1]
    <3>1. \A k \in 1 .. N : k # 1 => f[1] \o h[k - 1] \in Bytes
      <4>1. \A k \in 1 .. N : k # 1 => h[k - 1] \in Bytes
        BY <1>1
      <4> QED BY <1>1, <4>1, Cat
    <3> QED BY <1>1, <3>1
  <2>3. \A k \in 2 .. N : g[k] = g[k - 1] \o f[k]
    <3> TAKE k \in 2 .. N
    <3>0. k \in 1 .. N /\ k - 1 \in 1 .. N - 1 /\ k - 1 \in 1 .. N /\ k # 1 /\ (k - 1) + 1 = k
      BY <1>1
    <3>1. g[k] = f[1] \o h[k - 1] /\ t[k - 1] = f[k] /\ f[k] \in Bytes
      <4>1. f[k] \in Bytes
        BY <3>0, ElementOfSeq
      <4>2. t[k - 1] = f[k]
        BY <1>1, <3>0
      <4>3. g[k] = f[1] \o h[k - 1]
        BY <3>0
      <4> QED BY <4>1, <4>2, <4>3
    <3>2. CASE k = 2
      <4>1. h[k - 1] = t[1] /\ g[k - 1] = f[1] /\ t[k - 1] = t[1]
        BY <2>1, <2>2, <3>2 DEF IsFlat
      <4> QED BY <3>1, <4>1
    <3>3. CASE k # 2
      <4>1. k - 1 \in 2 .. N - 1 /\ k - 2 \in 1 .. N - 1 /\ (k - 1) - 1 = k - 2 /\ k - 1 # 1
        BY <1>1, <3>3
      <4>2. h[k - 1] = h[k - 2] \o t[k - 1] /\ h[k - 2] \in Bytes
        BY <2>1, <4>1 DEF IsFlat
      <4>3. g[k - 1] = f[1] \o h[k - 2]
        BY <3>0, <4>1
      <4>4. (f[1] \o h[k - 2]) \o f[k] = f[1] \o (h[k - 2] \o f[k])
        BY <1>1, <3>1, <4>2, Cat
      <4> HIDE DEF g
      <4> QED BY <3>1, <4>2, <4>3, <4>4
    <3> QED BY <3>2, <3>3
  <2>4. g[N] = f[1] \o h[N - 1]
    <3>1. N \in 1 .. N
      BY <1>1
    <3> QED BY <1>3, <3>1
  <2> HIDE DEF g
  <2>5. FlattenSeq(f) = g[N]
    BY <2>2, <2>3, FlatBy DEF IsFlat
  <2> QED BY <2>1, <2>4, <2>5 DEF t
<1> QED BY <1>2, <1>3

-----------------------------------------------------------------------------
(* Frames and what their first bytes say. *)

Writable  == {x \in Msgs \cup Junk : ~TooLong(x)}
Frames(q) == [i \in 1 .. Len(q) |-> Frame(q[i])]
Flat(q)   == FlattenSeq(Frames(q))

(* Rows cut at the same place are the same when their parts are. *)
LEMMA SameCut ==
    ASSUME NEW a \in Bytes, NEW b \in Bytes, NEW c \in Bytes, NEW d \in Bytes,
           a \o b = c \o d, Len(a) = Len(c)
    PROVE  a = c /\ b = d
<1>1. Len(a) \in Nat /\ Len(b) \in Nat /\ Len(c) \in Nat /\ Len(d) \in Nat
  BY Cat
<1>2. Len(b) = Len(d)
  <2>1. Len(a \o b) = Len(a) + Len(b) /\ Len(c \o d) = Len(c) + Len(d)
    BY Cat
  <2> QED BY <1>1, <2>1
<1>3. /\ \A i \in 1 .. Len(a) + Len(b) : (a \o b)[i] = IF i <= Len(a) THEN a[i] ELSE b[i - Len(a)]
      /\ \A i \in 1 .. Len(c) + Len(d) : (c \o d)[i] = IF i <= Len(c) THEN c[i] ELSE d[i - Len(c)]
  BY ConcatProperties DEF Bytes
<1>4. \A i \in 1 .. Len(a) : a[i] = c[i]
  <2> TAKE i \in 1 .. Len(a)
  <2>1. i \in 1 .. Len(a) + Len(b) /\ i <= Len(a) /\ i \in 1 .. Len(c) + Len(d) /\ i <= Len(c)
    BY <1>1
  <2> QED BY <1>3, <2>1
<1>5. \A i \in 1 .. Len(b) : b[i] = d[i]
  <2> TAKE i \in 1 .. Len(b)
  <2>1. /\ Len(a) + i \in 1 .. Len(a) + Len(b) /\ ~(Len(a) + i <= Len(a))
        /\ (Len(a) + i) - Len(a) = i
    BY <1>1
  <2>2. (a \o b)[Len(a) + i] = b[i]
    BY <1>3, <2>1
  <2>3. (c \o d)[Len(a) + i] = d[i]
    BY <1>2, <1>3, <2>1
  <2> QED BY <2>2, <2>3
<1> QED BY <1>2, <1>4, <1>5, SeqEqual DEF Bytes

(* A frame that is written is a length and, if the length is within the    *)
(* limit, so many bytes behind it, a message's only if it is that message. *)
LEMMA FrameShape ==
    ASSUME NEW x \in Writable
    PROVE  \E n \in U32 : \E body \in Bytes :
              /\ Frame(x) = ToBeBytes(n) \o body
              /\ n > MaxFrameBytes => x \in Junk /\ body = <<>>
              /\ n <= MaxFrameBytes => Len(body) = n
              /\ n <= MaxFrameBytes => \A m \in Msgs : Payload[m] = body => x = m
              /\ x \in Msgs => Payload[x] = body
<1>0. /\ MaxFrameBytes \in U32 /\ \A u \in U32 : u \in Nat
      /\ \A k \in Nat : k <= MaxFrameBytes => k \in U32
  <2>1. Base \in Nat \ {0, 1}
    BY FramingAssumption
  <2>2. Base * Base * Base * Base \in Nat
    BY <2>1
  <2> QED BY FramingAssumption, <2>2 DEF U32
<1>1. CASE x \in Msgs
  <2> DEFINE p == Payload[x]
             n == Len(p)
  <2>1. p \in Bytes /\ n \in Nat /\ \A m \in Msgs : Payload[m] = p => x = m
    BY <1>1, FramingAssumption DEF Bytes
  <2>2. n <= MaxFrameBytes /\ ~(n > MaxFrameBytes)
    BY <1>0, <1>1, <2>1 DEF Writable, TooLong
  <2>3. n \in U32
    BY <1>0, <2>1, <2>2
  <2>4. Frame(x) = ToBeBytes(n) \o p
    BY <1>1 DEF Frame
  <2> QED BY <2>1, <2>2, <2>3, <2>4
<1>2. CASE x \notin Msgs
  <2>0. x \in Junk /\ Frame(x) = JunkBytes[x]
    BY <1>2 DEF Writable, Frame
  <2>1. CASE \E n \in U32 : n > MaxFrameBytes /\ JunkBytes[x] = ToBeBytes(n)
    <3>1. PICK n \in U32 : n > MaxFrameBytes /\ JunkBytes[x] = ToBeBytes(n)
      BY <2>1
    <3>2. ~(n <= MaxFrameBytes)
      BY <1>0, <3>1
    <3>3. ToBeBytes(n) \o <<>> = ToBeBytes(n) /\ <<>> \in Bytes
      BY ToFrom, Cat DEF Bytes
    <3> QED BY <1>2, <2>0, <3>1, <3>2, <3>3
  <2>2. CASE ~\E n \in U32 : n > MaxFrameBytes /\ JunkBytes[x] = ToBeBytes(n)
    <3> DEFINE j    == JunkBytes[x]
               body == SubSeq(j, 5, Len(j))
    <3>1. /\ j = ToBeBytes(Len(body)) \o body /\ Len(body) <= MaxFrameBytes
          /\ \A m \in Msgs : Payload[m] # body
      BY <2>0, <2>2, JunkAssumption
    <3>2. body \in Bytes
      <4>1. j \in Seq(Byte)
        BY <2>0, FramingAssumption
      <4>2. \A i \in 5 .. Len(j) : j[i] \in Byte
        <5>1. \A i \in 5 .. Len(j) : i \in 1 .. Len(j)
          BY <4>1
        <5> QED BY <4>1, <5>1, ElementOfSeq
      <4>3. Len(j) \in Int
        BY <4>1
      <4> HIDE DEF j
      <4> QED BY <4>2, <4>3, SubSeqProperties DEF Bytes
    <3> HIDE DEF j, body
    <3>3. Len(body) \in U32 /\ ~(Len(body) > MaxFrameBytes)
      <4>1. Len(body) \in Nat
        BY <3>2, Cat
      <4> QED BY <1>0, <3>1, <4>1
    <3>4. Frame(x) = j
      BY <2>0 DEF j
    <3> QED BY <1>2, <3>1, <3>2, <3>3, <3>4
  <2> QED BY <2>1, <2>2
<1> QED BY <1>1, <1>2

(* A frame is bytes, the four of the prefix at least. *)
LEMMA FrameBytes ==
    ASSUME NEW x \in Writable
    PROVE  Frame(x) \in Bytes /\ Len(Frame(x)) >= 4 /\ Frame(x) # <<>>
<1>1. PICK n \in U32 : \E b \in Bytes : Frame(x) = ToBeBytes(n) \o b
  BY FrameShape
<1>2. PICK b \in Bytes : Frame(x) = ToBeBytes(n) \o b
  BY <1>1
<1>3. ToBeBytes(n) \in Bytes /\ Len(ToBeBytes(n)) = 4
  BY ToFrom DEF Bytes
<1>4. Frame(x) \in Bytes /\ Len(Frame(x)) = 4 + Len(b) /\ Len(b) \in Nat
  <2> DEFINE t == ToBeBytes(n)
  <2>1. Frame(x) = t \o b /\ t \in Bytes /\ Len(t) = 4
    BY <1>2, <1>3
  <2> HIDE DEF t
  <2>2. t \o b \in Bytes /\ Len(t \o b) = Len(t) + Len(b) /\ Len(b) \in Nat
    BY <2>1, Cat
  <2> QED BY <2>1, <2>2
<1>5. Len(Frame(x)) >= 4
  BY <1>4
<1>6. Frame(x) # <<>>
  <2>1. Len(<<>>) = 0
    OBVIOUS
  <2> QED BY <1>5, <2>1
<1> QED BY <1>4, <1>5, <1>6

(* A row of bytes shows a prefix p, so much of what it declares, b, and    *)
(* more, c.                                                                *)
Shows(row, p, b, c) ==
    /\ Len(p) = 4 /\ row = p \o (b \o c)
    /\ FromBeBytes(p) <= MaxFrameBytes => Len(b) = FromBeBytes(p)

(* The reader's view of a frame x with r behind it. *)
LEMMA FirstFrame ==
    ASSUME NEW x \in Writable, NEW r \in Bytes, NEW p \in Bytes, NEW b \in Bytes, NEW c \in Bytes,
           Shows(Frame(x) \o r, p, b, c)
    PROVE  /\ FromBeBytes(p) > MaxFrameBytes => x \in Junk /\ Len(Frame(x)) = 4
           /\ FromBeBytes(p) <= MaxFrameBytes =>
                 /\ c = r
                 /\ \A m \in Msgs : Payload[m] = b => x = m
                 /\ x \in Msgs => Payload[x] = b
<1>1. PICK n \in U32, body \in Bytes :
              /\ Frame(x) = ToBeBytes(n) \o body
              /\ n > MaxFrameBytes => x \in Junk /\ body = <<>>
              /\ n <= MaxFrameBytes => Len(body) = n
              /\ n <= MaxFrameBytes => \A m \in Msgs : Payload[m] = body => x = m
              /\ x \in Msgs => Payload[x] = body
  BY FrameShape
<1>2. PICK t \in Bytes : t = ToBeBytes(n) /\ Len(t) = 4 /\ FromBeBytes(t) = n
  BY ToFrom DEF Bytes
<1>3. PICK a \in Bytes : a = b \o c
  BY Cat
<1>4. (t \o body) \o r = t \o (body \o r) /\ body \o r \in Bytes
  <2>1. \A a2 \in Bytes : \A a3 \in Bytes : (t \o a2) \o a3 = t \o (a2 \o a3)
    BY CatAssoc, Zenon
  <2>2. (t \o body) \o r = t \o (body \o r)
    BY <2>1, Zenon
  <2> QED BY <2>2, Cat
<1>5. t = p /\ body \o r = a
  <2>1. t \o (body \o r) = p \o a /\ Len(t) = Len(p)
    BY <1>1, <1>2, <1>3, <1>4 DEF Shows
  <2> QED BY <1>4, <2>1, SameCut
<1>6. FromBeBytes(p) = n
  BY <1>2, <1>5
<1>7. Len(Frame(x)) = 4 + Len(body) /\ Len(body) \in Nat
  <2>1. Len(t \o body) = Len(t) + Len(body) /\ Len(body) \in Nat
    BY Cat
  <2> QED BY <1>1, <1>2, <2>1
<1>8. n > MaxFrameBytes => x \in Junk /\ Len(Frame(x)) = 4
  BY <1>1, <1>7
<1>9. ASSUME n <= MaxFrameBytes
      PROVE  c = r /\ (\A m \in Msgs : Payload[m] = b => x = m) /\ (x \in Msgs => Payload[x] = b)
  <2>1. b = body /\ c = r
    <3>1. body \o r = b \o c /\ Len(body) = Len(b)
      BY <1>1, <1>3, <1>5, <1>6, <1>9 DEF Shows
    <3> QED BY <3>1, SameCut
  <2> QED BY <1>1, <1>9, <2>1
<1> QED BY <1>6, <1>8, <1>9

-----------------------------------------------------------------------------
(* The bytes of a queue of frames. *)

(* The frames of a queue are as many rows of bytes. *)
LEMMA FramesSeq ==
    ASSUME NEW q \in Seq(Writable)
    PROVE  Frames(q) \in Seq(Bytes) /\ Len(Frames(q)) = Len(q) /\ \A i \in 1 .. Len(q) : Frames(q)[i] = Frame(q[i])
<1>1. \A i \in 1 .. Len(q) : Frame(q[i]) \in Bytes
  BY ElementOfSeq, FrameBytes
<1>2. Len(q) \in Nat
  OBVIOUS
<1>3. Frames(q) \in [1 .. Len(q) -> Bytes]
  BY <1>1 DEF Frames
<1>4. Frames(q) \in Seq(Bytes)
  BY <1>2, <1>3, SeqDef
<1>5. Len(Frames(q)) = Len(q)
  <2>1. DOMAIN Frames(q) = 1 .. Len(q) /\ DOMAIN Frames(q) = 1 .. Len(Frames(q)) /\ Len(Frames(q)) \in Nat
    BY <1>3, <1>4, LenProperties
  <2> QED BY <1>2, <2>1
<1> QED BY <1>4, <1>5 DEF Frames

(* The bytes of a queue that is empty, has one more, or has a first. *)
LEMMA FlatQueue ==
    ASSUME NEW q \in Seq(Writable)
    PROVE  /\ Flat(q) \in Bytes /\ (q = <<>> => Flat(q) = <<>>)
           /\ \A x \in Writable : Flat(Append(q, x)) = Flat(q) \o Frame(x)
           /\ q # <<>> => /\ Head(q) \in Writable
                          /\ Flat(q) = Frame(Head(q)) \o Flat(Tail(q))
                          /\ Tail(q) \in Seq(Writable)
<1>1. /\ Frames(q) \in Seq(Bytes) /\ Len(Frames(q)) = Len(q)
      /\ \A i \in 1 .. Len(q) : Frames(q)[i] = Frame(q[i])
  BY FramesSeq
<1>2. Flat(q) \in Bytes /\ (q = <<>> => Flat(q) = <<>>)
  <2>1. q = <<>> => Len(q) = 0
    OBVIOUS
  <2> QED BY <1>1, <2>1, FlatType DEF Flat
<1>3. ASSUME NEW x \in Writable PROVE Flat(Append(q, x)) = Flat(q) \o Frame(x)
  <2> DEFINE a == Append(q, x)
             b == Append(Frames(q), Frame(x))
  <2>0. Frame(x) \in Bytes
    BY FrameBytes
  <2>1. /\ a \in Seq(Writable) /\ Len(a) = Len(q) + 1 /\ Len(q) \in Nat /\ a[Len(q) + 1] = x
        /\ \A i \in 1 .. Len(q) : a[i] = q[i]
    BY AppendProperties
  <2>2. /\ b \in Seq(Bytes) /\ Len(b) = Len(q) + 1 /\ b[Len(q) + 1] = Frame(x)
        /\ \A i \in 1 .. Len(q) : b[i] = Frames(q)[i]
    BY <1>1, <2>0, AppendProperties
  <2> HIDE DEF a, b
  <2>3. /\ Frames(a) \in Seq(Bytes) /\ Len(Frames(a)) = Len(q) + 1
        /\ \A i \in 1 .. Len(q) + 1 : Frames(a)[i] = Frame(a[i])
    BY <2>1, FramesSeq
  <2>4. \A i \in 1 .. Len(q) + 1 : Frames(a)[i] = b[i]
    <3> TAKE i \in 1 .. Len(q) + 1
    <3>1. CASE i = Len(q) + 1
      BY <2>1, <2>2, <2>3, <3>1
    <3>2. CASE i # Len(q) + 1
      <4>1. i \in 1 .. Len(q)
        BY <2>1, <3>2
      <4> QED BY <1>1, <2>1, <2>2, <2>3, <4>1
    <3> QED BY <3>1, <3>2
  <2>5. Frames(a) = b
    BY <2>2, <2>3, <2>4, SeqEqual
  <2> QED BY <1>1, <2>0, <2>5, FlatAppend DEF Flat, a, b
<1>4. ASSUME q # <<>>
      PROVE  Head(q) \in Writable /\ Flat(q) = Frame(Head(q)) \o Flat(Tail(q)) /\ Tail(q) \in Seq(Writable)
  <2> DEFINE t == Tail(q)
             F == Frames(q)
             u == Tail(F)
  <2>1. /\ t \in Seq(Writable) /\ Len(t) = Len(q) - 1 /\ \A i \in 1 .. Len(t) : t[i] = q[i + 1]
        /\ Head(q) \in Writable /\ Head(q) = q[1]
    BY <1>4, HeadTailProperties
  <2>2. Len(q) \in Nat /\ Len(q) > 0
    BY <1>4, EmptySeq
  <2> HIDE DEF t
  <2>3. F \in Seq(Bytes) /\ Len(F) = Len(q) /\ F # <<>> /\ F[1] = Frame(q[1])
    <3>1. 1 \in 1 .. Len(q)
      BY <2>2
    <3>2. Len(<<>>) = 0
      OBVIOUS
    <3> QED BY <1>1, <2>2, <3>1, <3>2
  <2>4. \A i \in 1 .. Len(q) : F[i] = Frame(q[i])
    BY <1>1
  <2> HIDE DEF F
  <2>5. u \in Seq(Bytes) /\ Len(u) = Len(q) - 1 /\ \A i \in 1 .. Len(u) : u[i] = F[i + 1]
    BY <2>3, HeadTailProperties
  <2> HIDE DEF u
  <2>6. Frames(t) \in Seq(Bytes) /\ Len(Frames(t)) = Len(q) - 1 /\ \A i \in 1 .. Len(t) : Frames(t)[i] = Frame(t[i])
    BY <2>1, FramesSeq
  <2>7. \A i \in 1 .. Len(Frames(t)) : Frames(t)[i] = u[i]
    <3> TAKE i \in 1 .. Len(Frames(t))
    <3>1. i \in 1 .. Len(t) /\ i \in 1 .. Len(u) /\ i + 1 \in 1 .. Len(q)
      BY <2>1, <2>2, <2>5, <2>6
    <3> QED BY <2>1, <2>4, <2>5, <2>6, <3>1
  <2>8. Frames(t) = u
    BY <2>5, <2>6, <2>7, SeqEqual
  <2>9. FlattenSeq(F) = F[1] \o FlattenSeq(u)
    BY <2>2, <2>3, FlatHead DEF u
  <2> QED BY <2>1, <2>3, <2>8, <2>9 DEF Flat, t, F
<1> QED BY <1>2, <1>3, <1>4

-----------------------------------------------------------------------------
(* Types. *)

(* What is used of the constants. *)
LEMMA ConstantTypes ==
    /\ Base \in Nat \ {0, 1} /\ U32 \subseteq Nat /\ MaxFrameBytes \in U32 /\ 0 \in U32
    /\ PipeCap \in Nat \ {0} /\ MaxArms \in Nat /\ None \notin Msgs \cup Junk
<1>1. Base \in Nat \ {0, 1} /\ MaxFrameBytes \in U32
  BY FramingAssumption
<1>2. Base * Base * Base * Base \in Nat /\ U32 = 0 .. Base * Base * Base * Base - 1
  BY <1>1 DEF U32
<1>3. U32 \subseteq Nat
  BY <1>2
<1>4. 0 \in U32
  <2>1. MaxFrameBytes \in Nat /\ MaxFrameBytes <= Base * Base * Base * Base - 1
    BY <1>1, <1>2
  <2> QED BY <1>2, <2>1
<1> QED BY <1>1, <1>3, <1>4, FramingAssumption

(* The first n bytes and the rest. *)
LEMMA CutAt ==
    ASSUME NEW s \in Bytes, NEW n \in 0 .. Len(s)
    PROVE  /\ SubSeq(s, 1, n) \in Bytes /\ Len(SubSeq(s, 1, n)) = n
           /\ Drop(s, n) \in Bytes /\ Len(Drop(s, n)) = Len(s) - n
           /\ SubSeq(s, 1, n) \o Drop(s, n) = s
<1>0. s \in Seq(Byte) /\ Len(s) \in Nat /\ n \in Nat /\ n <= Len(s)
  BY Cat DEF Bytes
<1>1. \A i \in 1 .. Len(s) : s[i] \in Byte
  BY <1>0, ElementOfSeq
<1>2. \A i \in 1 .. n : i \in 1 .. Len(s)
  BY <1>0
<1>3. \A i \in n + 1 .. Len(s) : i \in 1 .. Len(s)
  BY <1>0
<1>4. SubSeq(s, 1, n) \in Seq(Byte) /\ Len(SubSeq(s, 1, n)) = IF 1 <= n THEN n - 1 + 1 ELSE 0
  BY <1>0, <1>1, <1>2, SubSeqProperties
<1>5. /\ SubSeq(s, n + 1, Len(s)) \in Seq(Byte)
      /\ Len(SubSeq(s, n + 1, Len(s))) = IF n + 1 <= Len(s) THEN Len(s) - (n + 1) + 1 ELSE 0
  <2>1. n + 1 \in Int /\ Len(s) \in Int
    BY <1>0
  <2> QED BY <1>0, <1>1, <1>3, <2>1, SubSeqProperties
<1>6. SubSeq(s, 1, n) \o SubSeq(s, n + 1, Len(s)) = s
  <2>1. 1 \in 1 .. Len(s) + 1 /\ n \in 1 - 1 .. Len(s) /\ Len(s) \in n .. Len(s)
    BY <1>0
  <2>2. SubSeq(s, 1, n) \o SubSeq(s, n + 1, Len(s)) = SubSeq(s, 1, Len(s))
    BY <1>0, <2>1, ConcatAdjacentSubSeq
  <2> QED BY <1>0, <2>2, SubSeqFull
<1>7. Len(SubSeq(s, 1, n)) = n /\ Len(SubSeq(s, n + 1, Len(s))) = Len(s) - n
  BY <1>0, <1>4, <1>5
<1> QED BY <1>4, <1>5, <1>6, <1>7 DEF Drop, Bytes

(* What there is left to write is something's. *)
Busy == out # <<>> => item # None

(* The front of a row. *)
LEMMA FirstPart ==
    ASSUME NEW a \in Bytes, NEW b \in Bytes
    PROVE  SubSeq(a \o b, 1, Len(a)) = a
<1>1. a \o b \in Bytes /\ Len(a \o b) = Len(a) + Len(b) /\ Len(a) \in Nat /\ Len(b) \in Nat
  BY Cat
<1>2. Len(a) \in 0 .. Len(a \o b)
  BY <1>1
<1> DEFINE f == SubSeq(a \o b, 1, Len(a))
           g == Drop(a \o b, Len(a))
<1>3. f \in Bytes /\ Len(f) = Len(a) /\ g \in Bytes /\ f \o g = a \o b
  BY <1>1, <1>2, CutAt
<1> HIDE DEF f, g
<1>4. f = a
  BY <1>3, SameCut
<1> QED BY <1>4 DEF f

(* The first state. *)
LEMMA TypeInit == Init => TypeOK /\ Busy
  BY ConstantTypes DEF Init, TypeOK, Busy

(* Only write_msg gives something to write, and for an item. *)
LEMMA BusyStep == TypeOK /\ Busy /\ [Next]_vars => Busy'
<1> SUFFICES ASSUME TypeOK, Busy, [Next]_vars PROVE Busy'
  OBVIOUS
<1>1. ASSUME NEW x \in Msgs \cup Junk, WWrite(x) PROVE Busy'
  BY <1>1, ConstantTypes DEF WWrite, Busy
<1>2. ASSUME WPush PROVE Busy'
  <2>1. PICK n \in 1 .. Least(Len(out), PipeCap - Len(wire)) :
          /\ out' = Drop(out, n)
          /\ IF n = Len(out) THEN item' = None ELSE item' = item
    BY <1>2 DEF WPush
  <2>2. Len(out) \in Nat /\ Len(wire) \in Nat /\ PipeCap \in Nat /\ out \in Bytes
    BY ConstantTypes DEF TypeOK, Bytes
  <2>3. n \in 0 .. Len(out) /\ n # 0
    BY <2>2 DEF Least
  <2>4. out # <<>>
    <3>1. Len(out) # 0
      BY <2>2, <2>3
    <3> QED BY <3>1
  <2>5. n = Len(out) => out' = <<>>
    <3>1. Drop(out, n) \in Bytes /\ Len(Drop(out, n)) = Len(out) - n
      BY <2>2, <2>3, CutAt
    <3> QED BY <2>1, <2>2, <3>1 DEF Bytes
  <2> QED BY <2>1, <2>4, <2>5 DEF Busy
<1>3. ASSUME WClose PROVE Busy'
  BY <1>3 DEF WClose, Busy
<1>4. CASE UNCHANGED <<item, out>>
  BY <1>4 DEF Busy
<1> QED BY <1>1, <1>2, <1>3, <1>4
       DEF Next, RStart, RRead, ROtherArm, RPrefix, RPayload, REof, Finished, vars, writerVars

(* Types are kept, action by action. *)
LEMMA TypeStep == TypeOK /\ Busy /\ [Next]_vars => TypeOK'
<1> SUFFICES ASSUME TypeOK, Busy, [Next]_vars PROVE TypeOK'
  OBVIOUS
<1>0. /\ item \in Msgs \cup Junk \cup {None} /\ end \in {"open", "fin", "rst"}
      /\ out \in Bytes /\ wire \in Bytes /\ Len(wire) <= PipeCap
      /\ rPc \in {"idle", "prefix", "payload", "failed"}
      /\ buf \in Bytes /\ want \in U32 /\ arms \in 0 .. MaxArms
      /\ (rPc = "prefix" => Len(buf) <= 4)
      /\ (rPc = "payload" => Len(buf) <= want /\ want <= MaxFrameBytes)
      /\ sent \in Seq(Msgs \cup Junk) /\ got \in Seq(Msgs)
      /\ Len(out) \in Nat /\ Len(wire) \in Nat /\ Len(buf) \in Nat /\ want \in Nat
  <2>1. \A b \in Seq(Byte) : Len(b) \in Nat
    OBVIOUS
  <2> QED BY <2>1, ConstantTypes DEF TypeOK, Bytes
<1> DEFINE Goal ==
      /\ item' \in Msgs \cup Junk \cup {None} /\ end' \in {"open", "fin", "rst"}
      /\ out' \in Bytes /\ wire' \in Bytes /\ Len(wire') <= PipeCap
      /\ rPc' \in {"idle", "prefix", "payload", "failed"}
      /\ buf' \in Bytes /\ want' \in U32 /\ arms' \in 0 .. MaxArms
      /\ (rPc' = "prefix" => Len(buf') <= 4)
      /\ (rPc' = "payload" => Len(buf') <= want' /\ want' <= MaxFrameBytes)
      /\ sent' \in Seq(Msgs \cup Junk) /\ got' \in Seq(Msgs)
<1> SUFFICES Goal
  BY DEF TypeOK, Bytes
<1>e. <<>> \in Bytes /\ Len(<<>>) = 0
  BY Cat
<1>1. ASSUME NEW x \in Msgs \cup Junk, WWrite(x) PROVE Goal
  <2>1. CASE TooLong(x)
    BY <1>0, <1>1, <2>1 DEF WWrite, readerVars
  <2>2. CASE ~TooLong(x)
    <3>1. Frame(x) \in Bytes
      BY <2>2, FrameBytes DEF Writable
    <3> QED BY <1>0, <1>1, <2>2, <3>1 DEF WWrite, readerVars
  <2> QED BY <2>1, <2>2
<1>2. ASSUME WPush PROVE Goal
  <2>1. PICK n \in 1 .. Least(Len(out), PipeCap - Len(wire)) :
          /\ wire' = wire \o SubSeq(out, 1, n)
          /\ out' = Drop(out, n)
          /\ IF n = Len(out) THEN sent' = Append(sent, item) /\ item' = None
             ELSE UNCHANGED <<sent, item>>
    BY <1>2 DEF WPush
  <2>2. n \in 0 .. Len(out) /\ n <= PipeCap - Len(wire) /\ n \in Nat
    BY <1>0, ConstantTypes DEF Least
  <2>3. /\ SubSeq(out, 1, n) \in Bytes /\ Len(SubSeq(out, 1, n)) = n /\ Drop(out, n) \in Bytes
    BY <1>0, <2>2, CutAt
  <2>4. wire' \in Bytes /\ Len(wire') = Len(wire) + n
    <3>1. /\ wire \o SubSeq(out, 1, n) \in Bytes
          /\ Len(wire \o SubSeq(out, 1, n)) = Len(wire) + Len(SubSeq(out, 1, n))
      BY <1>0, <2>3, Cat
    <3> QED BY <2>1, <2>3, <3>1
  <2>5. Len(wire') <= PipeCap
    BY <1>0, <2>2, <2>4, ConstantTypes
  <2>6. item' \in Msgs \cup Junk \cup {None} /\ sent' \in Seq(Msgs \cup Junk)
    <3>1. item # None
      <4>1. Len(out) # 0
        BY <1>0, <2>2
      <4> QED BY <4>1 DEF Busy
    <3>2. item \in Msgs \cup Junk
      BY <1>0, <3>1
    <3>3. Append(sent, item) \in Seq(Msgs \cup Junk)
      BY <1>0, <3>2, AppendProperties
    <3> QED BY <1>0, <2>1, <3>3
  <2> QED BY <1>0, <1>2, <2>1, <2>3, <2>4, <2>5, <2>6 DEF WPush, readerVars
<1>3. ASSUME WClose PROVE Goal
  BY <1>0, <1>3, <1>e DEF WClose, readerVars
<1>4. ASSUME RStart PROVE Goal
  BY <1>0, <1>4, <1>e, ConstantTypes DEF RStart, writerVars
<1>5. ASSUME RRead PROVE Goal
  <2>1. PICK n \in 1 .. Least(Missing, Len(wire)) :
          buf' = buf \o SubSeq(wire, 1, n) /\ wire' = Drop(wire, n)
    BY <1>5 DEF RRead
  <2>2. Missing \in Int /\ n \in 0 .. Len(wire) /\ n <= Missing /\ n \in Nat
    <3>1. Missing \in Int
      BY <1>0 DEF Missing
    <3> QED BY <1>0, <3>1 DEF Least
  <2>3. /\ SubSeq(wire, 1, n) \in Bytes /\ Len(SubSeq(wire, 1, n)) = n
        /\ Drop(wire, n) \in Bytes /\ Len(Drop(wire, n)) = Len(wire) - n
    BY <1>0, <2>2, CutAt
  <2>4. buf' \in Bytes /\ Len(buf') = Len(buf) + n
    <3>1. /\ buf \o SubSeq(wire, 1, n) \in Bytes
          /\ Len(buf \o SubSeq(wire, 1, n)) = Len(buf) + Len(SubSeq(wire, 1, n))
      BY <1>0, <2>3, Cat
    <3> QED BY <2>1, <2>3, <3>1
  <2>5. rPc = "prefix" => Len(buf') <= 4
    BY <1>0, <2>2, <2>4 DEF Missing
  <2>6. rPc = "payload" => Len(buf') <= want
    BY <1>0, <2>2, <2>4 DEF Missing
  <2>7. Len(wire') <= PipeCap
    BY <1>0, <2>1, <2>2, <2>3, ConstantTypes
  <2> QED BY <1>0, <1>5, <2>1, <2>3, <2>4, <2>5, <2>6, <2>7 DEF RRead, writerVars
<1>6. ASSUME ROtherArm PROVE Goal
  BY <1>0, <1>6, ConstantTypes DEF ROtherArm, writerVars
<1>7. ASSUME RPrefix PROVE Goal
  <2>1. Len(buf) = 4
    BY <1>0, <1>7 DEF RPrefix, Missing
  <2>2. Declared \in U32
    BY <1>0, <2>1, FromTo DEF Declared, Bytes
  <2>3. ~Oversized(Declared) => Declared <= MaxFrameBytes
    BY <2>2, ConstantTypes DEF Oversized
  <2>4. 0 <= Declared
    BY <2>2, ConstantTypes
  <2> QED BY <1>0, <1>7, <1>e, <2>2, <2>3, <2>4 DEF RPrefix, writerVars
<1>8. ASSUME RPayload PROVE Goal
  <2>1. got' \in Seq(Msgs) /\ rPc' \in {"idle", "failed"}
    <3>1. \A m \in Msgs : Append(got, m) \in Seq(Msgs)
      BY <1>0, AppendProperties
    <3> QED BY <1>0, <1>8, <3>1 DEF RPayload
  <2> QED BY <1>0, <1>8, <1>e, <2>1 DEF RPayload, writerVars
<1>9. ASSUME REof PROVE Goal
  BY <1>0, <1>9 DEF REof, writerVars
<1>10. CASE UNCHANGED vars
  BY <1>0, <1>10 DEF vars, writerVars, readerVars
<1> HIDE DEF Goal
<1> QED BY <1>1, <1>2, <1>3, <1>4, <1>5, <1>6, <1>7, <1>8, <1>9, <1>10 DEF Next, Finished

(* Whatever is written, cut and read, no buffer of read_msg grows beyond   *)
(* the prefix or the frame limit (TypeOK).                                 *)
THEOREM TypeCorrect == Spec => []TypeOK
<1> QED BY TypeInit, BusyStep, TypeStep, PTL DEF Spec

-----------------------------------------------------------------------------
(* The inductive invariant of the stream: w is what was written of the     *)
(* frame being written, rest what was not; what has arrived and is not yet *)
(* read as messages is the frames written whole, and w.                    *)

QueueInv ==
    /\ sent \in Seq(Writable) /\ item \in Writable \cup {None}
    /\ Len(got) <= Len(sent)
    /\ rPc = "idle" => buf = <<>>

Cut(w, rest) ==
    /\ IF item = None THEN w = <<>> /\ rest = <<>> ELSE Frame(item) = w \o rest /\ rest # <<>>
    /\ out = IF end = "open" THEN rest ELSE <<>>
    /\ rPc # "failed" => Arrived = Flat(Written) \o w

CutInv == \E w, rest \in Bytes : Cut(w, rest)

SyncInv == TypeOK /\ QueueInv /\ CutInv

(* The sequences that the invariant is about. *)
LEMMA Rows ==
    ASSUME TypeOK, QueueInv
    PROVE  /\ Arrived \in Bytes /\ out \in Bytes /\ wire \in Bytes /\ buf \in Bytes
           /\ Len(sent) \in Nat /\ Len(got) \in Nat /\ Len(out) \in Nat
           /\ Len(wire) \in Nat /\ Len(buf) \in Nat
           /\ Written \in Seq(Writable) /\ Flat(Written) \in Bytes
           /\ Written = <<>> <=> Len(got) = Len(sent)
<1>1. out \in Bytes /\ wire \in Bytes /\ buf \in Bytes /\ want \in U32
  BY DEF TypeOK, Bytes
<1>2. Len(sent) \in Nat /\ Len(got) \in Nat /\ Len(got) <= Len(sent) /\ sent \in Seq(Writable)
  BY DEF TypeOK, QueueInv
<1>3. Len(out) \in Nat /\ Len(wire) \in Nat /\ Len(buf) \in Nat
  BY <1>1, Cat
<1>4. Arrived \in Bytes
  <2> DEFINE h == IF rPc = "payload" THEN ToBeBytes(want) ELSE <<>>
  <2>1. h \in Bytes
    BY <1>1, ToFrom, Cat DEF Bytes
  <2> HIDE DEF h
  <2>2. (h \o buf) \o wire \in Bytes
    BY <1>1, <2>1, Cat
  <2>3. Arrived = (h \o buf) \o wire
    BY DEF Arrived, h
  <2> QED BY <2>2, <2>3
<1>5. /\ Written \in Seq(Writable)
      /\ Len(Written) = IF Len(got) + 1 <= Len(sent) THEN Len(sent) - (Len(got) + 1) + 1 ELSE 0
  <2>1. \A i \in 1 .. Len(sent) : sent[i] \in Writable
    BY <1>2, ElementOfSeq
  <2>2. \A i \in Len(got) + 1 .. Len(sent) : i \in 1 .. Len(sent)
    BY <1>2
  <2>3. Len(got) + 1 \in Int /\ Len(sent) \in Int
    BY <1>2
  <2> QED BY <2>1, <2>2, <2>3, SubSeqProperties DEF Written
<1>6. Written = <<>> <=> Len(got) = Len(sent)
  <2>1. Written = <<>> <=> Len(Written) = 0
    BY <1>5
  <2>2. Len(Written) = 0 <=> Len(got) = Len(sent)
    BY <1>2, <1>5
  <2> QED BY <2>1, <2>2
<1>7. Flat(Written) \in Bytes
  BY <1>5, FlatQueue
<1> QED BY <1>1, <1>2, <1>3, <1>4, <1>5, <1>6, <1>7

(* Nothing, or the beginning of a frame but not all of it. *)
Begun(w) == w = <<>> \/ \E x \in Writable, rest \in Bytes : rest # <<>> /\ Frame(x) = w \o rest

(* The first of the frames q on the way, with the beginning of another     *)
(* behind them, as its bytes show it to the reader.                        *)
LEMMA FirstOfFrames ==
    ASSUME NEW q \in Seq(Writable), NEW w \in Bytes, Begun(w),
           NEW p \in Bytes, NEW b \in Bytes, NEW c \in Bytes, Shows(Flat(q) \o w, p, b, c)
    PROVE  /\ q # <<>>
           /\ FromBeBytes(p) > MaxFrameBytes => Head(q) \in Junk
           /\ FromBeBytes(p) <= MaxFrameBytes =>
                 /\ \A m \in Msgs : Payload[m] = b => Head(q) = m
                 /\ Head(q) \in Msgs => Payload[Head(q)] = b
                 /\ c = Flat(Tail(q)) \o w
<1>0. FromBeBytes(p) \in Nat /\ MaxFrameBytes \in Nat
  BY FromTo, ConstantTypes DEF Bytes, Shows
<1>1. PICK a \in Bytes : a = b \o c
  BY Cat
<1>r. \A z \in Bytes : (p \o a) \o z = p \o (a \o z) /\ (b \o c) \o z = b \o (c \o z)
  <2>1. \A g \in Bytes : \A h \in Bytes : (b \o g) \o h = b \o (g \o h)
    BY CatAssoc, Zenon
  <2>2. \A h \in Bytes : (b \o c) \o h = b \o (c \o h)
    BY <2>1, Zenon
  <2>3. \A g \in Bytes : \A h \in Bytes : (p \o g) \o h = p \o (g \o h)
    BY CatAssoc, Zenon
  <2> QED BY <2>2, <2>3, Zenon
<1>2. Len(a) = Len(b) + Len(c) /\ Len(a) \in Nat /\ Len(b) \in Nat /\ Len(c) \in Nat
  BY <1>1, Cat
<1>3. ASSUME q = <<>> PROVE FALSE
  <2>1. p \o a = w
    <3>1. Flat(q) = <<>>
      BY <1>3, FlatQueue
    <3>2. <<>> \o w = w
      BY Cat
    <3> QED BY <1>1, <3>1, <3>2 DEF Shows
  <2>2. Len(w) = 4 + Len(a)
    <3>1. Len(p \o a) = Len(p) + Len(a)
      BY Cat
    <3> QED BY <2>1, <3>1 DEF Shows
  <2>3. w # <<>>
    <3>1. Len(<<>>) = 0
      OBVIOUS
    <3> QED BY <1>2, <2>2, <3>1
  <2>4. PICK x \in Writable, rest \in Bytes : rest # <<>> /\ Frame(x) = w \o rest
    BY <2>3 DEF Begun
  <2>5. PICK d \in Bytes, e \in Bytes : d = c \o rest /\ e = <<>>
    BY Cat
  <2>6. Shows(Frame(x) \o e, p, b, d)
    <3>1. Frame(x) \o e = Frame(x)
      BY <2>5, FrameBytes, Cat
    <3>2. (p \o a) \o rest = p \o (a \o rest) /\ (b \o c) \o rest = b \o (c \o rest)
      BY <1>r
    <3> QED BY <1>1, <2>1, <2>4, <2>5, <3>1, <3>2 DEF Shows
  <2>7. /\ FromBeBytes(p) > MaxFrameBytes => Len(Frame(x)) = 4
        /\ FromBeBytes(p) <= MaxFrameBytes => d = <<>>
    BY <2>5, <2>6, FirstFrame
  <2>8. Len(rest) \in Nat /\ Len(rest) # 0
    BY <2>4 DEF Bytes
  <2>9. Len(w \o rest) = Len(w) + Len(rest) /\ Len(c \o rest) = Len(c) + Len(rest)
    BY Cat
  <2>10. Len(Frame(x)) # 4
    BY <1>2, <2>2, <2>4, <2>8, <2>9
  <2>11. d # <<>>
    <3>1. Len(<<>>) = 0
      OBVIOUS
    <3>2. Len(d) # 0
      BY <1>2, <2>5, <2>8, <2>9
    <3> QED BY <3>1, <3>2
  <2> QED BY <1>0, <2>7, <2>10, <2>11
<1>4. q # <<>>
  BY <1>3
<1>5. PICK x \in Writable, u \in Seq(Writable) : x = Head(q) /\ u = Tail(q) /\ Flat(q) = Frame(x) \o Flat(u)
  BY <1>4, FlatQueue
<1>6. PICK t \in Bytes : t = Flat(u)
  BY FlatQueue
<1>7. PICK F \in Bytes : F = Frame(x)
  BY FrameBytes
<1>8. (F \o t) \o w = F \o (t \o w) /\ t \o w \in Bytes
  <2>1. \A a2 \in Bytes : \A a3 \in Bytes : (F \o a2) \o a3 = F \o (a2 \o a3)
    BY CatAssoc, Zenon
  <2>2. (F \o t) \o w = F \o (t \o w)
    BY <2>1, Zenon
  <2> QED BY <2>2, Cat
<1>9. PICK r \in Bytes : r = t \o w
  BY <1>8
<1>10. Shows(Frame(x) \o r, p, b, c)
  <2>1. Flat(q) \o w = Frame(x) \o r
    BY <1>5, <1>6, <1>7, <1>8, <1>9
  <2> QED BY <2>1
<1>11. /\ FromBeBytes(p) > MaxFrameBytes => x \in Junk
       /\ FromBeBytes(p) <= MaxFrameBytes =>
             c = r /\ (\A m \in Msgs : Payload[m] = b => x = m) /\ (x \in Msgs => Payload[x] = b)
  BY <1>10, FirstFrame
<1> QED BY <1>4, <1>5, <1>6, <1>9, <1>11

(* A frame whose length is within the limit has so many bytes behind it. *)
LEMMA FrameLength ==
    ASSUME NEW x \in Writable, NEW r \in Bytes, NEW n \in U32, n <= MaxFrameBytes, NEW a \in Bytes,
           Frame(x) \o r = ToBeBytes(n) \o a
    PROVE  Len(Frame(x)) = 4 + n
<1>1. PICK k \in U32, body \in Bytes :
              /\ Frame(x) = ToBeBytes(k) \o body
              /\ k <= MaxFrameBytes => Len(body) = k
  BY FrameShape
<1>2. PICK t \in Bytes : t = ToBeBytes(k) /\ Len(t) = 4 /\ FromBeBytes(t) = k
  BY ToFrom DEF Bytes
<1>3. PICK p \in Bytes : p = ToBeBytes(n) /\ Len(p) = 4 /\ FromBeBytes(p) = n
  BY ToFrom DEF Bytes
<1>4. (t \o body) \o r = t \o (body \o r) /\ body \o r \in Bytes
  <2>1. \A a2 \in Bytes : \A a3 \in Bytes : (t \o a2) \o a3 = t \o (a2 \o a3)
    BY CatAssoc, Zenon
  <2>2. (t \o body) \o r = t \o (body \o r)
    BY <2>1, Zenon
  <2> QED BY <2>2, Cat
<1>5. t = p
  <2>1. t \o (body \o r) = p \o a /\ Len(t) = Len(p)
    BY <1>1, <1>2, <1>3, <1>4
  <2> QED BY <1>4, <2>1, SameCut
<1>6. Len(t \o body) = Len(t) + Len(body)
  BY Cat
<1> QED BY <1>1, <1>2, <1>3, <1>5, <1>6

(* The queue after a frame more, and after one less. *)
LEMMA QueueGrows ==
    ASSUME NEW s \in Seq(Writable), NEW k \in 0 .. Len(s), NEW x \in Writable
    PROVE  SubSeq(Append(s, x), k + 1, Len(Append(s, x))) = Append(SubSeq(s, k + 1, Len(s)), x)
<1> DEFINE a == Append(s, x)
           L == Len(s)
           u == SubSeq(s, k + 1, L)
           v == SubSeq(a, k + 1, L + 1)
<1>1. L \in Nat /\ k \in Nat /\ k <= L
  OBVIOUS
<1>2. a \in Seq(Writable) /\ Len(a) = L + 1 /\ a[L + 1] = x /\ \A i \in 1 .. L : a[i] = s[i]
  BY AppendProperties
<1> HIDE DEF a
<1>3. u \in Seq(Writable) /\ Len(u) = L - k /\ \A i \in 1 .. L - k : u[i] = s[k + i]
  <2>1. \A i \in k + 1 .. L : i \in 1 .. L
    BY <1>1
  <2>2. \A i \in k + 1 .. L : s[i] \in Writable
    BY <2>1, ElementOfSeq
  <2>3. k + 1 \in Int /\ L \in Int
    BY <1>1
  <2>4. /\ u \in Seq(Writable) /\ Len(u) = IF k + 1 <= L THEN L - (k + 1) + 1 ELSE 0
        /\ \A i \in 1 .. L - (k + 1) + 1 : u[i] = s[(k + 1) + i - 1]
    BY <2>2, <2>3, SubSeqProperties
  <2>5. L - (k + 1) + 1 = L - k /\ (IF k + 1 <= L THEN L - (k + 1) + 1 ELSE 0) = L - k
    BY <1>1
  <2>6. \A i \in 1 .. L - k : (k + 1) + i - 1 = k + i
    BY <1>1
  <2> HIDE DEF u
  <2> QED BY <2>4, <2>5, <2>6
<1>4. v \in Seq(Writable) /\ Len(v) = L + 1 - k /\ \A i \in 1 .. L + 1 - k : v[i] = a[k + i]
  <2>1. \A i \in k + 1 .. L + 1 : i \in 1 .. L + 1
    BY <1>1
  <2>2. \A i \in k + 1 .. L + 1 : a[i] \in Writable
    BY <1>2, <2>1, ElementOfSeq
  <2>3. k + 1 \in Int /\ L + 1 \in Int
    BY <1>1
  <2>4. /\ v \in Seq(Writable) /\ Len(v) = IF k + 1 <= L + 1 THEN (L + 1) - (k + 1) + 1 ELSE 0
        /\ \A i \in 1 .. (L + 1) - (k + 1) + 1 : v[i] = a[(k + 1) + i - 1]
    BY <2>2, <2>3, SubSeqProperties
  <2>5. /\ (L + 1) - (k + 1) + 1 = L + 1 - k
        /\ (IF k + 1 <= L + 1 THEN (L + 1) - (k + 1) + 1 ELSE 0) = L + 1 - k
    BY <1>1
  <2>6. \A i \in 1 .. L + 1 - k : (k + 1) + i - 1 = k + i
    BY <1>1
  <2> HIDE DEF v
  <2> QED BY <2>4, <2>5, <2>6
<1> HIDE DEF u, v
<1> DEFINE z == Append(u, x)
<1>5. /\ z \in Seq(Writable) /\ Len(z) = L + 1 - k /\ z[L + 1 - k] = x
      /\ \A i \in 1 .. L - k : z[i] = u[i]
  <2>1. /\ z \in Seq(Writable) /\ Len(z) = Len(u) + 1 /\ z[Len(u) + 1] = x
        /\ \A i \in 1 .. Len(u) : z[i] = u[i]
    BY <1>3, AppendProperties
  <2>2. Len(u) + 1 = L + 1 - k
    BY <1>1, <1>3
  <2> HIDE DEF z
  <2> QED BY <1>3, <2>1, <2>2
<1> HIDE DEF z
<1>6. ASSUME NEW i \in 1 .. Len(v) PROVE v[i] = z[i]
  <2>1. i \in 1 .. L + 1 - k /\ v[i] = a[k + i]
    BY <1>4
  <2>2. CASE i = L + 1 - k
    <3>1. k + i = L + 1
      BY <1>1, <2>2
    <3> QED BY <1>2, <1>5, <2>1, <2>2, <3>1
  <2>3. CASE i # L + 1 - k
    <3>1. i \in 1 .. L - k /\ k + i \in 1 .. L
      BY <1>1, <2>1, <2>3
    <3> QED BY <1>2, <1>3, <1>5, <2>1, <3>1
  <2> QED BY <2>2, <2>3
<1>7. v = z
  BY <1>4, <1>5, <1>6, SeqEqual
<1> QED BY <1>2, <1>7 DEF a, u, v, z

(* One item read is one off the front. *)
LEMMA QueueShrinks ==
    ASSUME NEW s \in Seq(Writable), NEW k \in Nat, k < Len(s)
    PROVE  Tail(SubSeq(s, k + 1, Len(s))) = SubSeq(s, (k + 1) + 1, Len(s))
<1>1. Len(s) \in Nat
  OBVIOUS
<1>2. k + 1 \in 1 .. Len(s) /\ Len(s) \in k + 1 .. Len(s)
  BY <1>1
<1> QED BY <1>2, HeadTailOfSubSeq

-----------------------------------------------------------------------------
(* The invariant is kept, action by action. *)

(* The next state's rows, in its variables. *)
LEMMA Primes ==
    /\ Arrived' = (IF rPc' = "payload" THEN ToBeBytes(want') ELSE <<>>) \o buf' \o wire'
    /\ Written' = SubSeq(sent', Len(got') + 1, Len(sent'))
    /\ \A w, rest \in Bytes :
          /\ (IF item' = None THEN w = <<>> /\ rest = <<>> ELSE Frame(item') = w \o rest /\ rest # <<>>)
          /\ out' = (IF end' = "open" THEN rest ELSE <<>>)
          /\ (rPc' # "failed" => Arrived' = Flat(Written') \o w)
          => CutInv'
<1>1. Arrived' = (IF rPc' = "payload" THEN ToBeBytes(want') ELSE <<>>) \o buf' \o wire'
  BY DEF Arrived
<1>2. Written' = SubSeq(sent', Len(got') + 1, Len(sent'))
  BY DEF Written
<1>3. ASSUME NEW w \in Bytes, NEW rest \in Bytes,
             IF item' = None THEN w = <<>> /\ rest = <<>> ELSE Frame(item') = w \o rest /\ rest # <<>>,
             out' = (IF end' = "open" THEN rest ELSE <<>>),
             rPc' # "failed" => Arrived' = Flat(Written') \o w
      PROVE  CutInv'
  BY <1>3 DEF CutInv, Cut
<1> QED BY <1>1, <1>2, <1>3

(* Steps that leave the frames as they are. *)
LEMMA FramesKept ==
    ASSUME SyncInv, item' = item, sent' = sent, got' = got,
           (out' = out /\ end' = end) \/ (out' = <<>> /\ end' # "open"),
           rPc' # "failed" => rPc # "failed" /\ Arrived' = Arrived,
           rPc' = "idle" => buf' = <<>>
    PROVE  QueueInv' /\ CutInv' /\ Written' = Written
<1>1. QueueInv'
  BY DEF SyncInv, QueueInv
<1>2. Written' = Written
  BY Primes DEF Written
<1>3. PICK w, rest \in Bytes : Cut(w, rest)
  BY DEF SyncInv, CutInv
<1>4. IF item' = None THEN w = <<>> /\ rest = <<>> ELSE Frame(item') = w \o rest /\ rest # <<>>
  BY <1>3 DEF Cut
<1>5. out' = (IF end' = "open" THEN rest ELSE <<>>)
  BY <1>3 DEF Cut
<1>6. rPc' # "failed" => Arrived' = Flat(Written') \o w
  BY <1>2, <1>3 DEF Cut
<1> QED BY <1>1, <1>2, <1>4, <1>5, <1>6, Primes

(* write_msg begins a frame, or refuses one above the limit. *)
LEMMA WWriteKeeps ==
    ASSUME SyncInv, NEW x \in Msgs \cup Junk, WWrite(x)
    PROVE  QueueInv' /\ CutInv' /\ Written' = Written
<1>1. CASE TooLong(x)
  <2>1. /\ item' = item /\ sent' = sent /\ got' = got /\ out' = out /\ out = <<>> /\ end' = "fin"
        /\ rPc' = rPc /\ buf' = buf /\ want' = want /\ wire' = wire
    BY <1>1 DEF WWrite, readerVars
  <2>2. Arrived' = Arrived
    BY <2>1, Primes DEF Arrived
  <2>3. rPc = "idle" => buf = <<>>
    BY DEF SyncInv, QueueInv
  <2> QED BY <2>1, <2>2, <2>3, FramesKept
<1>2. CASE ~TooLong(x)
  <2>1. /\ item' = x /\ sent' = sent /\ got' = got /\ out' = Frame(x) /\ end' = "open"
        /\ out = <<>> /\ end = "open"
        /\ rPc' = rPc /\ buf' = buf /\ want' = want /\ wire' = wire
    BY <1>2 DEF WWrite, readerVars
  <2>2. x \in Writable /\ x # None /\ Frame(x) \in Bytes /\ Frame(x) # <<>>
    BY <1>2, FrameBytes, ConstantTypes DEF Writable
  <2>3. QueueInv'
    BY <2>1, <2>2 DEF SyncInv, QueueInv
  <2>4. Arrived' = Arrived /\ Written' = Written
    BY <2>1, Primes DEF Arrived, Written
  <2>5. PICK w, rest \in Bytes : Cut(w, rest)
    BY DEF SyncInv, CutInv
  <2>6. w = <<>>
    BY <2>1, <2>5 DEF Cut
  <2>7. Frame(x) = <<>> \o Frame(x) /\ <<>> \in Bytes
    BY <2>2, Cat
  <2>8. rPc' # "failed" => Arrived' = Flat(Written') \o <<>>
    BY <2>1, <2>4, <2>5, <2>6 DEF Cut
  <2>9. CutInv'
    BY <2>1, <2>2, <2>7, <2>8, Primes
  <2> QED BY <2>3, <2>4, <2>9
<1> QED BY <1>1, <1>2

(* A piece goes out: the frame stays the one begun, or is written whole. *)
LEMMA WPushKeeps ==
    ASSUME SyncInv, WPush
    PROVE  /\ QueueInv' /\ CutInv'
           /\ Written' = Written \/ \E x \in Msgs \cup Junk : Written' = Append(Written, x)
<1>1. PICK n \in 1 .. Least(Len(out), PipeCap - Len(wire)) :
          /\ wire' = wire \o SubSeq(out, 1, n)
          /\ out' = Drop(out, n)
          /\ IF n = Len(out) THEN sent' = Append(sent, item) /\ item' = None
             ELSE UNCHANGED <<sent, item>>
  BY DEF WPush
<1>2. end = "open" /\ end' = end /\ rPc' = rPc /\ buf' = buf /\ want' = want /\ got' = got
  BY DEF WPush, readerVars
<1>3. /\ Arrived \in Bytes /\ out \in Bytes /\ wire \in Bytes /\ buf \in Bytes
      /\ Len(sent) \in Nat /\ Len(got) \in Nat /\ Len(out) \in Nat /\ Len(wire) \in Nat
      /\ Written \in Seq(Writable) /\ Flat(Written) \in Bytes /\ Len(got) <= Len(sent)
      /\ sent \in Seq(Writable)
  BY Rows DEF SyncInv, QueueInv
<1>4. n \in 0 .. Len(out) /\ n # 0
  BY <1>3, ConstantTypes DEF Least
<1>5. PICK w, rest \in Bytes : Cut(w, rest)
  BY DEF SyncInv, CutInv
<1>6. out = rest
  BY <1>2, <1>5 DEF Cut
<1>7. item # None /\ item \in Writable /\ Frame(item) = w \o rest /\ rest # <<>>
  <2>1. out # <<>>
    <3>1. Len(out) # 0
      BY <1>3, <1>4
    <3> QED BY <3>1
  <2> QED BY <1>5, <1>6, <2>1 DEF Cut, SyncInv, QueueInv
<1>8. PICK f \in Bytes, g \in Bytes : /\ f = SubSeq(out, 1, n) /\ g = Drop(out, n) /\ f \o g = rest
                                     /\ Len(g) = Len(out) - n
  <2>1. /\ SubSeq(out, 1, n) \in Bytes /\ Drop(out, n) \in Bytes
        /\ SubSeq(out, 1, n) \o Drop(out, n) = out /\ Len(Drop(out, n)) = Len(out) - n
    BY <1>3, <1>4, CutAt
  <2> QED BY <1>6, <2>1, Zenon
<1>9. Arrived' = Arrived \o f
  <2> DEFINE h == IF rPc = "payload" THEN ToBeBytes(want) ELSE <<>>
  <2>1. h \in Bytes
    <3>1. want \in U32
      BY DEF SyncInv, TypeOK
    <3> QED BY <3>1, ToFrom, Cat DEF Bytes
  <2>2. Arrived = (h \o buf) \o wire
    BY DEF Arrived
  <2>3. Arrived' = (h \o buf) \o (wire \o f)
    BY <1>1, <1>2, <1>8, Primes
  <2> HIDE DEF h
  <2>4. PICK y \in Bytes : y = h \o buf
    BY <1>3, <2>1, Cat
  <2>5. (y \o wire) \o f = y \o (wire \o f)
    <3>1. \A a2 \in Bytes : \A a3 \in Bytes : (y \o a2) \o a3 = y \o (a2 \o a3)
      BY CatAssoc, Zenon
    <3> QED BY <1>3, <3>1, Zenon
  <2> QED BY <2>2, <2>3, <2>4, <2>5
<1>10. PICK A \in Bytes, B \in Bytes : /\ A = Arrived /\ B = Flat(Written)
                                       /\ rPc # "failed" => A = B \o w
  BY <1>3, <1>5 DEF Cut
<1>r. (B \o w) \o f = B \o (w \o f) /\ (w \o f) \o g = w \o (f \o g)
  <2>1. \A a2 \in Bytes : \A a3 \in Bytes : (B \o a2) \o a3 = B \o (a2 \o a3)
    BY CatAssoc, Zenon
  <2>2. \A a3 \in Bytes : (B \o w) \o a3 = B \o (w \o a3)
    BY <2>1, Zenon
  <2>3. \A a2 \in Bytes : \A a3 \in Bytes : (w \o a2) \o a3 = w \o (a2 \o a3)
    BY CatAssoc, Zenon
  <2>4. \A a3 \in Bytes : (w \o f) \o a3 = w \o (f \o a3)
    BY <2>3, Zenon
  <2> QED BY <2>2, <2>4, Zenon
<1>11. PICK v \in Bytes : v = w \o f
  BY Cat
<1>12. rPc' # "failed" => Arrived' = B \o v
  BY <1>2, <1>9, <1>10, <1>11, <1>r
<1>13. CASE n = Len(out)
  <2>1. sent' = Append(sent, item) /\ item' = None
    BY <1>1, <1>13
  <2>2. g = <<>> /\ f = rest /\ out' = <<>>
    <3>1. g = <<>>
      BY <1>3, <1>8, <1>13 DEF Bytes
    <3>2. f \o <<>> = f
      BY Cat
    <3> QED BY <1>1, <1>8, <3>1, <3>2
  <2>3. Written' = Append(Written, item)
    <3>1. Len(got) \in 0 .. Len(sent)
      BY <1>3
    <3>2. SubSeq(Append(sent, item), Len(got) + 1, Len(Append(sent, item)))
             = Append(SubSeq(sent, Len(got) + 1, Len(sent)), item)
      BY <1>3, <1>7, <3>1, QueueGrows
    <3> QED BY <1>2, <2>1, <3>2, Primes DEF Written
  <2>4. Flat(Written') = B \o v
    <3>1. Flat(Append(Written, item)) = Flat(Written) \o Frame(item)
      BY <1>3, <1>7, FlatQueue
    <3> QED BY <1>7, <1>10, <1>11, <2>2, <2>3, <3>1
  <2>5. rPc' # "failed" => Arrived' = Flat(Written') \o <<>>
    <3>1. B \o v \in Bytes
      BY Cat
    <3>2. (B \o v) \o <<>> = B \o v
      BY <3>1, Cat
    <3> QED BY <1>12, <2>4, <3>2
  <2>6. CutInv'
    <3>1. <<>> \in Bytes
      BY Cat
    <3> QED BY <2>1, <2>2, <2>5, <3>1, Primes
  <2>7. QueueInv'
    <3>1. sent' \in Seq(Writable) /\ Len(sent') = Len(sent) + 1
      BY <1>3, <1>7, <2>1, AppendProperties
    <3> QED BY <1>2, <1>3, <2>1, <3>1 DEF SyncInv, QueueInv
  <2>8. item \in Msgs \cup Junk
    BY <1>7 DEF Writable
  <2> QED BY <2>3, <2>6, <2>7, <2>8
<1>14. CASE n # Len(out)
  <2>1. sent' = sent /\ item' = item
    BY <1>1, <1>14
  <2>2. Written' = Written
    BY <1>2, <2>1, Primes DEF Written
  <2>3. g # <<>> /\ out' = g
    <3>1. Len(g) # 0
      BY <1>3, <1>4, <1>8, <1>14
    <3>2. Len(<<>>) = 0
      OBVIOUS
    <3> QED BY <1>1, <1>8, <3>1, <3>2
  <2>4. Frame(item) = v \o g
    BY <1>7, <1>8, <1>11, <1>r
  <2>5. rPc' # "failed" => Arrived' = Flat(Written') \o v
    BY <1>10, <1>12, <2>2
  <2>6. CutInv'
    BY <1>2, <1>7, <2>1, <2>3, <2>4, <2>5, Primes
  <2>7. QueueInv'
    BY <1>2, <2>1 DEF SyncInv, QueueInv
  <2> QED BY <2>2, <2>6, <2>7
<1> QED BY <1>13, <1>14

(* The end leaves what was written where it is. *)
LEMMA WCloseKeeps ==
    ASSUME SyncInv, WClose
    PROVE  QueueInv' /\ CutInv' /\ Written' = Written
<1>1. /\ item' = item /\ sent' = sent /\ got' = got /\ out' = <<>> /\ end' # "open"
      /\ rPc' = rPc /\ buf' = buf /\ want' = want /\ wire' = wire
  BY DEF WClose, readerVars
<1>2. Arrived' = Arrived
  BY <1>1, Primes DEF Arrived
<1>3. rPc = "idle" => buf = <<>>
  BY DEF SyncInv, QueueInv
<1> QED BY <1>1, <1>2, <1>3, FramesKept

(* A new read starts where the last one ended. *)
LEMMA RStartKeeps ==
    ASSUME SyncInv, RStart
    PROVE  QueueInv' /\ CutInv' /\ Written' = Written
<1>1. /\ item' = item /\ sent' = sent /\ got' = got /\ out' = out /\ end' = end
      /\ rPc = "idle" /\ rPc' = "prefix" /\ buf' = <<>> /\ wire' = wire
  BY DEF RStart, writerVars
<1>2. buf = <<>>
  BY <1>1 DEF SyncInv, QueueInv
<1>3. Arrived' = Arrived
  BY <1>1, <1>2, Primes DEF Arrived
<1>4. /\ (out' = out /\ end' = end) \/ (out' = <<>> /\ end' # "open")
      /\ rPc' # "failed" => rPc # "failed" /\ Arrived' = Arrived
      /\ rPc' = "idle" => buf' = <<>>
  BY <1>1, <1>3
<1>5. item' = item /\ sent' = sent /\ got' = got
  BY <1>1
<1> QED BY <1>4, <1>5, FramesKept

(* Reading moves bytes from the wire to the buffer, none past the reader. *)
LEMMA RReadKeeps ==
    ASSUME SyncInv, RRead
    PROVE  QueueInv' /\ CutInv' /\ Written' = Written
<1>1. PICK n \in 1 .. Least(Missing, Len(wire)) :
          buf' = buf \o SubSeq(wire, 1, n) /\ wire' = Drop(wire, n)
  BY DEF RRead
<1>2. /\ item' = item /\ sent' = sent /\ got' = got /\ out' = out /\ end' = end
      /\ rPc' = rPc /\ rPc # "idle" /\ rPc # "failed" /\ want' = want
  BY DEF RRead, Reading, writerVars
<1>3. wire \in Bytes /\ buf \in Bytes /\ Len(wire) \in Nat /\ Len(buf) \in Nat /\ want \in U32 /\ want \in Nat
  BY Rows, ConstantTypes DEF SyncInv, TypeOK
<1>4. n \in 0 .. Len(wire)
  <2>1. Missing \in Int
    BY <1>3 DEF Missing
  <2> QED BY <1>3, <2>1 DEF Least
<1>5. PICK f \in Bytes, g \in Bytes : f = SubSeq(wire, 1, n) /\ g = Drop(wire, n) /\ f \o g = wire
  <2>1. SubSeq(wire, 1, n) \in Bytes /\ Drop(wire, n) \in Bytes /\ SubSeq(wire, 1, n) \o Drop(wire, n) = wire
    BY <1>3, <1>4, CutAt
  <2> QED BY <2>1, Zenon
<1>6. PICK h \in Bytes : h = IF rPc = "payload" THEN ToBeBytes(want) ELSE <<>>
  BY <1>3, ToFrom, Cat DEF Bytes
<1>7. Arrived' = (h \o (buf \o f)) \o g
  BY <1>1, <1>2, <1>5, <1>6, Primes
<1>8. Arrived = (h \o buf) \o (f \o g)
  BY <1>5, <1>6 DEF Arrived
<1>9. Arrived' = Arrived
  <2>1. PICK b \in Bytes, k \in Bytes : b = buf /\ k = h \o b
    BY <1>3, Cat
  <2>2. \A a2 \in Bytes : \A a3 \in Bytes : (h \o a2) \o a3 = h \o (a2 \o a3)
    BY CatAssoc, Zenon
  <2>3. h \o (b \o f) = (h \o b) \o f
    BY <2>2, Zenon
  <2>4. \A a2 \in Bytes : \A a3 \in Bytes : (k \o a2) \o a3 = k \o (a2 \o a3)
    BY CatAssoc, Zenon
  <2>5. (k \o f) \o g = k \o (f \o g)
    BY <2>4, Zenon
  <2> QED BY <1>7, <1>8, <2>1, <2>3, <2>5
<1>10. /\ (out' = out /\ end' = end) \/ (out' = <<>> /\ end' # "open")
       /\ rPc' # "failed" => rPc # "failed" /\ Arrived' = Arrived
       /\ rPc' = "idle" => buf' = <<>>
  BY <1>2, <1>9
<1> QED BY <1>2, <1>10, FramesKept

(* The prefix, as a number, still stands for its four bytes. *)
LEMMA RPrefixKeeps ==
    ASSUME SyncInv, RPrefix
    PROVE  QueueInv' /\ CutInv' /\ Written' = Written
<1>1. /\ item' = item /\ sent' = sent /\ got' = got /\ out' = out /\ end' = end
      /\ rPc = "prefix" /\ rPc' \in {"failed", "payload"} /\ buf' = <<>> /\ want' = Declared /\ wire' = wire
  BY DEF RPrefix, writerVars
<1>2. buf \in Bytes /\ wire \in Bytes /\ Len(buf) = 4
  <2>1. buf \in Bytes /\ wire \in Bytes /\ Len(buf) \in Nat
    BY Rows DEF SyncInv
  <2> QED BY <1>1, <2>1 DEF RPrefix, Missing
<1>3. ToBeBytes(Declared) = buf
  BY <1>2, FromTo DEF Declared, Bytes
<1>4. rPc' # "failed" => Arrived' = Arrived
  <2>1. ASSUME rPc' = "payload" PROVE Arrived' = (buf \o <<>>) \o wire
    BY <1>1, <1>3, <2>1, Primes
  <2>2. Arrived = (<<>> \o buf) \o wire
    BY <1>1 DEF Arrived
  <2>3. buf \o <<>> = buf /\ <<>> \o buf = buf
    BY <1>2, Cat
  <2> QED BY <1>1, <2>1, <2>2, <2>3
<1>5. /\ (out' = out /\ end' = end) \/ (out' = <<>> /\ end' # "open")
      /\ rPc' # "failed" => rPc # "failed" /\ Arrived' = Arrived
      /\ rPc' = "idle" => buf' = <<>>
  BY <1>1, <1>4
<1>6. item' = item /\ sent' = sent /\ got' = got
  BY <1>1
<1> QED BY <1>5, <1>6, FramesKept

(* What the reader has is the next of the frames written whole. *)
LEMMA ReaderSees ==
    ASSUME SyncInv, rPc # "failed", NEW p \in Bytes, NEW b \in Bytes, NEW c \in Bytes,
           Shows(Arrived, p, b, c)
    PROVE  /\ Written # <<>> /\ Head(Written) \in Writable /\ Tail(Written) \in Seq(Writable)
           /\ FromBeBytes(p) > MaxFrameBytes => Head(Written) \in Junk
           /\ FromBeBytes(p) <= MaxFrameBytes =>
                 /\ \A m \in Msgs : Payload[m] = b => Head(Written) = m
                 /\ Head(Written) \in Msgs => Payload[Head(Written)] = b
                 /\ \E w, rest \in Bytes : Cut(w, rest) /\ c = Flat(Tail(Written)) \o w
<1>1. PICK w, rest \in Bytes : Cut(w, rest)
  BY DEF SyncInv, CutInv
<1>2. Begun(w)
  <2>1. CASE item = None
    BY <1>1, <2>1 DEF Cut, Begun
  <2>2. CASE item # None
    <3>1. item \in Writable /\ Frame(item) = w \o rest /\ rest # <<>>
      BY <1>1, <2>2 DEF Cut, SyncInv, QueueInv
    <3> QED BY <3>1 DEF Begun
  <2> QED BY <2>1, <2>2
<1>3. PICK q \in Seq(Writable) : q = Written
  BY Rows DEF SyncInv
<1>4. Arrived = Flat(q) \o w
  BY <1>1, <1>3 DEF Cut
<1>5. Shows(Flat(q) \o w, p, b, c)
  BY <1>4
<1>6. /\ q # <<>>
      /\ FromBeBytes(p) > MaxFrameBytes => Head(q) \in Junk
      /\ FromBeBytes(p) <= MaxFrameBytes =>
            /\ \A m \in Msgs : Payload[m] = b => Head(q) = m
            /\ Head(q) \in Msgs => Payload[Head(q)] = b
            /\ c = Flat(Tail(q)) \o w
  BY <1>2, <1>5, FirstOfFrames
<1>7. Head(q) \in Writable /\ Tail(q) \in Seq(Writable)
  BY <1>6, FlatQueue
<1> QED BY <1>1, <1>3, <1>6, <1>7

(* A whole payload is the first frame's: it is read, or it is junk. *)
LEMMA RPayloadKeeps ==
    ASSUME SyncInv, RPayload
    PROVE  /\ QueueInv' /\ CutInv' /\ Written # <<>>
           /\ \/ /\ Head(Written) \in Msgs /\ got' = Append(got, Head(Written))
                 /\ Written' = Tail(Written) /\ rPc' = "idle"
              \/ Head(Written) \in Junk /\ got' = got /\ Written' = Written /\ rPc' = "failed"
<1>1. /\ item' = item /\ sent' = sent /\ out' = out /\ end' = end /\ wire' = wire /\ buf' = <<>>
      /\ rPc = "payload"
  BY DEF RPayload, writerVars
<1>2. /\ buf \in Bytes /\ wire \in Bytes /\ want \in U32 /\ Len(buf) = want /\ want <= MaxFrameBytes
      /\ Len(got) \in Nat /\ Len(sent) \in Nat
  <2>1. buf \in Bytes /\ wire \in Bytes /\ Len(buf) \in Nat /\ Len(got) \in Nat /\ Len(sent) \in Nat
    BY Rows DEF SyncInv
  <2>2. want \in U32 /\ want \in Nat /\ want <= MaxFrameBytes
    BY <1>1, ConstantTypes DEF SyncInv, TypeOK
  <2>3. Len(buf) = want
    BY <1>1, <2>1, <2>2 DEF RPayload, Missing
  <2> QED BY <2>1, <2>2, <2>3
<1>3. PICK p \in Bytes : p = ToBeBytes(want) /\ Len(p) = 4 /\ FromBeBytes(p) = want
  BY <1>2, ToFrom DEF Bytes
<1>4. Shows(Arrived, p, buf, wire)
  <2>1. Arrived = (p \o buf) \o wire
    BY <1>1, <1>3 DEF Arrived
  <2>2. (p \o buf) \o wire = p \o (buf \o wire)
    BY <1>2, CatAssoc
  <2> QED BY <1>2, <1>3, <2>1, <2>2 DEF Shows
<1>5. /\ Written # <<>> /\ Head(Written) \in Writable /\ Tail(Written) \in Seq(Writable)
      /\ \A m \in Msgs : Payload[m] = buf => Head(Written) = m
      /\ Head(Written) \in Msgs => Payload[Head(Written)] = buf
      /\ \E w, rest \in Bytes : Cut(w, rest) /\ wire = Flat(Tail(Written)) \o w
  BY <1>1, <1>2, <1>3, <1>4, ReaderSees
<1>6. CASE \E m \in Msgs : Payload[m] = buf /\ got' = Append(got, m) /\ rPc' = "idle"
  <2>1. Head(Written) \in Msgs /\ got' = Append(got, Head(Written)) /\ rPc' = "idle"
    BY <1>5, <1>6
  <2>2. Len(got') = Len(got) + 1
    <3>1. got \in Seq(Msgs)
      BY DEF SyncInv, TypeOK
    <3> QED BY <2>1, <3>1, AppendProperties
  <2>3. Len(got) < Len(sent) /\ sent \in Seq(Writable)
    <3>1. Len(got) <= Len(sent) /\ sent \in Seq(Writable)
      BY DEF SyncInv, QueueInv
    <3>2. Len(got) # Len(sent)
      BY <1>5, Rows DEF SyncInv
    <3> QED BY <1>2, <3>1, <3>2
  <2>4. Written' = Tail(Written)
    <3>1. Tail(SubSeq(sent, Len(got) + 1, Len(sent))) = SubSeq(sent, (Len(got) + 1) + 1, Len(sent))
      BY <1>2, <2>3, QueueShrinks
    <3> QED BY <1>1, <2>2, <3>1, Primes DEF Written
  <2>5. QueueInv'
    BY <1>1, <1>2, <2>2, <2>3 DEF SyncInv, QueueInv
  <2>6. CutInv'
    <3>1. PICK w, rest \in Bytes : Cut(w, rest) /\ wire = Flat(Tail(Written)) \o w
      BY <1>5
    <3>2. Arrived' = wire
      <4>1. Arrived' = (<<>> \o <<>>) \o wire
        BY <1>1, <2>1, Primes
      <4>2. <<>> \o <<>> = <<>> /\ <<>> \o wire = wire
        BY <1>2, Cat
      <4> QED BY <4>1, <4>2
    <3>3. Arrived' = Flat(Written') \o w
      BY <2>4, <3>1, <3>2
    <3>4. IF item' = None THEN w = <<>> /\ rest = <<>> ELSE Frame(item') = w \o rest /\ rest # <<>>
      BY <1>1, <3>1 DEF Cut
    <3>5. out' = (IF end' = "open" THEN rest ELSE <<>>)
      BY <1>1, <3>1 DEF Cut
    <3> QED BY <3>3, <3>4, <3>5, Primes
  <2> QED BY <1>5, <2>1, <2>4, <2>5, <2>6
<1>7. CASE (\A m \in Msgs : Payload[m] # buf) /\ rPc' = "failed" /\ got' = got
  <2>1. Head(Written) \in Junk
    BY <1>5, <1>7 DEF Writable
  <2>2. /\ (out' = out /\ end' = end) \/ (out' = <<>> /\ end' # "open")
        /\ rPc' # "failed" => rPc # "failed" /\ Arrived' = Arrived
        /\ rPc' = "idle" => buf' = <<>>
    BY <1>1, <1>7
  <2>3. QueueInv' /\ CutInv' /\ Written' = Written
    BY <1>1, <1>7, <2>2, FramesKept
  <2> QED BY <1>5, <1>7, <2>1, <2>3
<1> QED BY <1>6, <1>7 DEF RPayload

(* A length above the limit is another program's. *)
LEMMA RPrefixRefuses ==
    ASSUME SyncInv, RPrefix, rPc' = "failed"
    PROVE  Written # <<>> /\ Head(Written) \in Junk
<1>1. rPc = "prefix" /\ Oversized(Declared)
  BY DEF RPrefix
<1>2. buf \in Bytes /\ wire \in Bytes /\ Len(buf) = 4
  <2>1. buf \in Bytes /\ wire \in Bytes /\ Len(buf) \in Nat
    BY Rows DEF SyncInv
  <2> QED BY <1>1, <2>1 DEF RPrefix, Missing
<1>3. FromBeBytes(buf) > MaxFrameBytes /\ FromBeBytes(buf) \in Nat /\ MaxFrameBytes \in Nat
  BY <1>1, <1>2, FromTo, ConstantTypes DEF Declared, Oversized, Bytes
<1>4. PICK e \in Bytes : e = <<>>
  BY Cat
<1>5. Shows(Arrived, buf, e, wire)
  <2>1. Arrived = (<<>> \o buf) \o wire
    BY <1>1 DEF Arrived
  <2>2. <<>> \o buf = buf /\ <<>> \o wire = wire
    BY <1>2, Cat
  <2> QED BY <1>2, <1>3, <1>4, <2>1, <2>2 DEF Shows
<1> QED BY <1>1, <1>2, <1>3, <1>5, ReaderSees

(* A stream that ends within a frame holds no frame written whole. *)
LEMMA REofIsEnd ==
    ASSUME SyncInv, REof
    PROVE  (Written = <<>> /\ end # "open") \/ end = "rst"
<1> SUFFICES ASSUME end # "rst", Written # <<>> PROVE FALSE
  BY DEF REof
<1>1. wire = <<>> /\ rPc \in {"prefix", "payload"} /\ rPc # "failed" /\ Missing > 0
  BY DEF REof, Reading
<1>2. buf \in Bytes /\ Len(buf) \in Nat /\ want \in U32 /\ want \in Nat
  BY Rows, ConstantTypes DEF SyncInv, TypeOK
<1>3. PICK q \in Seq(Writable) : q = Written /\ q # <<>>
  BY Rows DEF SyncInv
<1>4. PICK w, rest \in Bytes : Cut(w, rest)
  BY DEF SyncInv, CutInv
<1>5. PICK x \in Writable, u \in Seq(Writable) : u = Tail(q) /\ Flat(q) = Frame(x) \o Flat(u)
  BY <1>3, FlatQueue
<1>6. PICK F \in Bytes, t \in Bytes : F = Frame(x) /\ t = Flat(u) /\ Len(F) >= 4
  BY FrameBytes, FlatQueue
<1>7. PICK r \in Bytes : r = t \o w
  BY Cat
<1>8. (F \o t) \o w = F \o (t \o w)
  <2>1. \A a2 \in Bytes : \A a3 \in Bytes : (F \o a2) \o a3 = F \o (a2 \o a3)
    BY CatAssoc, Zenon
  <2> QED BY <2>1, Zenon
<1>9. Arrived = F \o r
  BY <1>1, <1>3, <1>4, <1>5, <1>6, <1>7, <1>8 DEF Cut
<1>10. Len(F \o r) = Len(F) + Len(r) /\ Len(r) \in Nat /\ Len(F) \in Nat
  BY Cat
<1>11. CASE rPc = "prefix"
  <2>1. Arrived = (<<>> \o buf) \o <<>>
    BY <1>1, <1>11 DEF Arrived
  <2>2. <<>> \o buf = buf /\ buf \o <<>> = buf
    BY <1>2, Cat
  <2>3. Len(buf) < 4
    BY <1>1, <1>2, <1>11 DEF Missing
  <2> QED BY <1>2, <1>6, <1>9, <1>10, <2>1, <2>2, <2>3
<1>12. CASE rPc = "payload"
  <2>1. PICK p \in Bytes : p = ToBeBytes(want) /\ Len(p) = 4
    BY <1>2, ToFrom DEF Bytes
  <2>2. PICK y \in Bytes : y = p \o buf /\ Len(y) = 4 + Len(buf)
    <3>1. p \o buf \in Bytes /\ Len(p \o buf) = Len(p) + Len(buf)
      BY <1>2, Cat
    <3> QED BY <2>1, <3>1
  <2>3. Arrived = y
    <3>1. Arrived = (p \o buf) \o <<>>
      BY <1>1, <1>12, <2>1 DEF Arrived
    <3>2. y \o <<>> = y
      BY Cat
    <3> QED BY <2>2, <3>1, <3>2
  <2>4. Len(buf) < want /\ want <= MaxFrameBytes
    BY <1>1, <1>2, <1>12 DEF Missing, SyncInv, TypeOK
  <2>5. Frame(x) \o r = ToBeBytes(want) \o buf
    BY <1>6, <1>9, <2>1, <2>2, <2>3
  <2>6. Len(F) = 4 + want
    BY <1>2, <1>6, <2>4, <2>5, FrameLength
  <2> QED BY <1>2, <1>9, <1>10, <2>2, <2>3, <2>4, <2>6
<1> QED BY <1>1, <1>11, <1>12

(* Nothing is written, and nothing held. *)
LEMMA SyncInit == Init => SyncInv
<1> SUFFICES ASSUME Init PROVE SyncInv
  OBVIOUS
<1>1. TypeOK
  BY TypeInit
<1>2. QueueInv
  BY DEF Init, QueueInv
<1>3. Written = <<>>
  BY <1>1, <1>2, Rows DEF Init
<1>4. Flat(Written) = <<>>
  <2>1. <<>> \in Seq(Writable)
    OBVIOUS
  <2>2. Flat(<<>>) = <<>>
    BY <2>1, FlatQueue
  <2> QED BY <1>3, <2>2
<1>5. Arrived = <<>>
  <2>1. Arrived = (<<>> \o <<>>) \o <<>>
    BY DEF Init, Arrived
  <2>2. <<>> \o <<>> = <<>>
    BY Cat
  <2> QED BY <2>1, <2>2
<1>6. Cut(<<>>, <<>>) /\ <<>> \in Bytes
  <2>1. <<>> \in Bytes /\ <<>> \o <<>> = <<>>
    BY Cat
  <2> QED BY <1>4, <1>5, <2>1 DEF Cut, Init
<1> QED BY <1>1, <1>2, <1>6 DEF SyncInv, CutInv

(* Nothing is left to write of what is not there. *)
LEMMA SyncIsBusy == SyncInv => Busy
  BY DEF SyncInv, CutInv, Cut, Busy

(* The invariant is inductive. *)
LEMMA SyncStep == SyncInv /\ [Next]_vars => SyncInv'
<1> SUFFICES ASSUME SyncInv, [Next]_vars PROVE SyncInv'
  OBVIOUS
<1>0. TypeOK'
  BY SyncIsBusy, TypeStep DEF SyncInv
<1> SUFFICES QueueInv' /\ CutInv'
  BY <1>0 DEF SyncInv
<1>1. ASSUME NEW x \in Msgs \cup Junk, WWrite(x) PROVE QueueInv' /\ CutInv'
  BY <1>1, WWriteKeeps
<1>2. CASE WPush
  BY <1>2, WPushKeeps
<1>3. CASE WClose
  BY <1>3, WCloseKeeps
<1>4. CASE RStart
  BY <1>4, RStartKeeps
<1>5. CASE RRead
  BY <1>5, RReadKeeps
<1>6. CASE RPrefix
  BY <1>6, RPrefixKeeps
<1>7. CASE RPayload
  BY <1>7, RPayloadKeeps
<1>8. CASE REof
  <2>1. /\ item' = item /\ sent' = sent /\ got' = got /\ rPc' = "failed"
        /\ (out' = out /\ end' = end) \/ (out' = <<>> /\ end' # "open")
    BY <1>8 DEF REof, writerVars
  <2> QED BY <2>1, FramesKept
<1>9. CASE ROtherArm \/ UNCHANGED vars
  <2>1. /\ item' = item /\ sent' = sent /\ got' = got /\ out' = out /\ end' = end
        /\ rPc' = rPc /\ buf' = buf /\ want' = want /\ wire' = wire
    BY <1>9 DEF ROtherArm, vars, writerVars, readerVars
  <2>2. Arrived' = Arrived
    BY <2>1, Primes DEF Arrived
  <2>3. rPc = "idle" => buf = <<>>
    BY DEF SyncInv, QueueInv
  <2>4. /\ (out' = out /\ end' = end) \/ (out' = <<>> /\ end' # "open")
        /\ rPc' # "failed" => rPc # "failed" /\ Arrived' = Arrived
        /\ rPc' = "idle" => buf' = <<>>
    BY <2>1, <2>2, <2>3
  <2> QED BY <2>1, <2>4, FramesKept
<1> QED BY <1>1, <1>2, <1>3, <1>4, <1>5, <1>6, <1>7, <1>8, <1>9 DEF Next, Finished

(* And so it holds. *)
LEMMA SyncCorrect == Spec => []SyncInv
<1> QED BY SyncInit, SyncStep, PTL DEF Spec

(* The invariant is the agreement that StreamInSync states. *)
LEMMA SyncAgrees == SyncInv => StreamInSync
<1> SUFFICES ASSUME SyncInv, rPc # "failed" PROVE IsPrefix(Held, Stream) /\ (end = "open" => Held = Stream)
  BY DEF StreamInSync
<1>1. PICK w, rest \in Bytes : Cut(w, rest)
  BY DEF SyncInv, CutInv
<1>2. PICK q \in Seq(Writable), B \in Bytes, A \in Bytes :
          q = Written /\ B = Flat(q) /\ A = Arrived /\ A = B \o w
  BY <1>1, Rows DEF SyncInv, Cut
<1>3. Stream = A \o rest
  <2>1. Stream = Flat(Unread)
    BY DEF Stream, Flat, Frames
  <2>2. CASE item = None
    <3>1. Unread = q \o <<>> /\ w = <<>> /\ rest = <<>>
      BY <1>1, <1>2, <2>2 DEF Unread, Cut
    <3>2. q \o <<>> = q
      BY ConcatEmptySeq
    <3>3. B \o <<>> = B
      BY Cat
    <3> QED BY <1>2, <2>1, <3>1, <3>2, <3>3
  <2>3. CASE item # None
    <3>1. item \in Writable /\ Frame(item) = w \o rest
      BY <1>1, <2>3 DEF Cut, SyncInv, QueueInv
    <3>2. Unread = Append(q, item)
      <4>1. Append(q, item) = q \o <<item>>
        BY <3>1, AppendIsConcat
      <4> QED BY <1>2, <2>3, <4>1 DEF Unread
    <3>3. Flat(Append(q, item)) = B \o (w \o rest)
      BY <1>2, <3>1, FlatQueue
    <3>4. (B \o w) \o rest = B \o (w \o rest)
      BY CatAssoc, Zenon
    <3> QED BY <1>2, <2>1, <3>2, <3>3, <3>4
  <2> QED BY <2>2, <2>3
<1>4. Held = A \o out
  BY <1>2 DEF Held
<1>5. CASE end = "open"
  <2>1. Held = Stream
    BY <1>1, <1>3, <1>4, <1>5 DEF Cut
  <2>2. A \o rest \in Bytes
    BY Cat
  <2>3. Len(A \o rest) \in Nat
    BY <2>2, Cat
  <2> QED BY <1>3, <2>1, <2>3 DEF IsPrefix
<1>6. CASE end # "open"
  <2>1. Held = A
    <3>1. out = <<>>
      BY <1>1, <1>6 DEF Cut
    <3>2. A \o <<>> = A
      BY Cat
    <3> QED BY <1>4, <3>1, <3>2
  <2>2. PICK S \in Bytes : S = A \o rest /\ Len(S) = Len(A) + Len(rest) /\ Len(A) \in Nat /\ Len(rest) \in Nat
    BY Cat
  <2>3. SubSeq(S, 1, Len(A)) = A
    BY <2>2, FirstPart
  <2>4. SubSeq(A, 1, Len(A)) = A
    BY SubSeqFull DEF Bytes
  <2>5. Len(A) <= Len(S) /\ Held = A /\ Stream = S
    BY <1>3, <2>1, <2>2
  <2>6. IsPrefix(A, S)
    BY <2>3, <2>4, <2>5 DEF IsPrefix
  <2> QED BY <1>6, <2>5, <2>6
<1> QED BY <1>5, <1>6

(* Reader and writer agree on where the next frame starts, whatever the    *)
(* messages, the limit, and the places where reads and writes cut          *)
(* (StreamInSync).                                                         *)
THEOREM StreamsAgree == Spec => []StreamInSync
<1> QED BY SyncCorrect, SyncAgrees, PTL

-----------------------------------------------------------------------------
(* The queue of messages. *)

(* An empty queue, nothing read. *)
LEMMA ChannelInit == Init => Channel!Init
<1> SUFFICES ASSUME Init PROVE Channel!Init
  OBVIOUS
<1>1. Written = <<>>
  BY SyncInit, Rows DEF SyncInv, Init
<1>2. (rPc = "failed") = FALSE
  BY DEF Init
<1> QED BY <1>1, <1>2 DEF Init, Channel!Init

(* Every step is one of the queue's or leaves it alone. *)
LEMMA ChannelStep == SyncInv /\ [Next]_vars => [Channel!Next]_(Channel!vars)
<1> SUFFICES ASSUME SyncInv, [Next]_vars PROVE [Channel!Next]_(Channel!vars)
  OBVIOUS
<1> DEFINE F == (rPc = "failed")
<1>k. ASSUME rPc' = rPc PROVE F' = F
  BY <1>k, Zenon
<1>b. ASSUME rPc # "failed", rPc' # "failed" PROVE F' = F
  BY <1>b
<1>f. ASSUME rPc' = "failed" PROVE F' = TRUE
  BY <1>f
<1> HIDE DEF F
<1>v. Channel!vars = <<Written, got, end, F>>
  BY DEF Channel!vars, F
<1>s. ASSUME Written' = Written, got' = got, end' = end, F' = F PROVE [Channel!Next]_(Channel!vars)
  BY <1>s DEF Channel!vars, F
<1>1. ASSUME NEW x \in Msgs \cup Junk, WWrite(x) PROVE [Channel!Next]_(Channel!vars)
  <2>1. Written' = Written /\ got' = got /\ rPc' = rPc /\ end = "open" /\ end' \in {"open", "fin"}
    BY <1>1, WWriteKeeps DEF WWrite, readerVars
  <2>2. CASE end' = end
    BY <1>k, <1>s, <2>1, <2>2
  <2>3. CASE end' # end
    <3>1. Channel!Close
      BY <1>k, <2>1, <2>3 DEF Channel!Close, F
    <3> QED BY <3>1 DEF Channel!Next
  <2> QED BY <2>2, <2>3
<1>2. ASSUME WPush PROVE [Channel!Next]_(Channel!vars)
  <2>1. got' = got /\ rPc' = rPc /\ end = "open" /\ end' = end
    BY <1>2 DEF WPush, readerVars
  <2>2. CASE Written' = Written
    BY <1>k, <1>s, <2>1, <2>2
  <2>3. ASSUME NEW x \in Msgs \cup Junk, Written' = Append(Written, x) PROVE [Channel!Next]_(Channel!vars)
    <3>1. Channel!Write(x)
      BY <1>k, <2>1, <2>3 DEF Channel!Write, F
    <3> QED BY <3>1 DEF Channel!Next
  <2> QED BY <1>2, <2>2, <2>3, WPushKeeps
<1>3. ASSUME WClose PROVE [Channel!Next]_(Channel!vars)
  <2>1. /\ Written' = Written /\ got' = got /\ rPc' = rPc
        /\ \/ end = "open" /\ end' \in {"fin", "rst"}
           \/ end = "fin"  /\ end' = "rst"
    BY <1>3, WCloseKeeps DEF WClose, readerVars
  <2>2. Channel!Close
    BY <1>k, <2>1 DEF Channel!Close, F
  <2> QED BY <2>2 DEF Channel!Next
<1>4. ASSUME RStart PROVE [Channel!Next]_(Channel!vars)
  <2>1. Written' = Written /\ got' = got /\ rPc # "failed" /\ rPc' # "failed" /\ end' = end
    BY <1>4, RStartKeeps DEF RStart, writerVars
  <2> QED BY <1>b, <1>s, <2>1
<1>5. ASSUME RRead PROVE [Channel!Next]_(Channel!vars)
  <2>1. Written' = Written /\ got' = got /\ rPc' = rPc /\ end' = end
    BY <1>5, RReadKeeps DEF RRead, writerVars
  <2> QED BY <1>k, <1>s, <2>1
<1>6. ASSUME RPrefix PROVE [Channel!Next]_(Channel!vars)
  <2>1. Written' = Written /\ got' = got /\ rPc # "failed" /\ end' = end
    BY <1>6, RPrefixKeeps DEF RPrefix, writerVars
  <2>2. CASE rPc' # "failed"
    BY <1>b, <1>s, <2>1, <2>2
  <2>3. CASE rPc' = "failed"
    <3>1. Written # <<>> /\ Head(Written) \in Junk
      BY <1>6, <2>3, RPrefixRefuses
    <3>2. Channel!Fail
      BY <1>f, <2>1, <2>3, <3>1 DEF Channel!Fail, F
    <3> QED BY <3>2 DEF Channel!Next
  <2> QED BY <2>2, <2>3
<1>7. ASSUME RPayload PROVE [Channel!Next]_(Channel!vars)
  <2>0. rPc # "failed" /\ end' = end
    BY <1>7 DEF RPayload, writerVars
  <2>1. /\ Written # <<>>
        /\ \/ /\ Head(Written) \in Msgs /\ got' = Append(got, Head(Written))
              /\ Written' = Tail(Written) /\ rPc' = "idle"
           \/ Head(Written) \in Junk /\ got' = got /\ Written' = Written /\ rPc' = "failed"
    BY <1>7, RPayloadKeeps
  <2>2. CASE rPc' = "idle"
    <3>1. F' = F
      BY <1>b, <2>0, <2>2
    <3>2. Channel!Read
      BY <2>0, <2>1, <2>2, <3>1 DEF Channel!Read, F
    <3> QED BY <3>2 DEF Channel!Next
  <2>3. CASE rPc' = "failed"
    <3>1. Channel!Fail
      BY <1>f, <2>0, <2>1, <2>3 DEF Channel!Fail, F
    <3> QED BY <3>1 DEF Channel!Next
  <2> QED BY <2>1, <2>2, <2>3
<1>8. ASSUME REof PROVE [Channel!Next]_(Channel!vars)
  <2>1. got' = got /\ rPc # "failed" /\ rPc' = "failed" /\ end' = end /\ sent' = sent
    BY <1>8 DEF REof, Reading, writerVars
  <2>2. Written' = Written
    BY <2>1, Primes DEF Written
  <2>3. (Written = <<>> /\ end # "open") \/ end = "rst"
    BY <1>8, REofIsEnd
  <2>4. Channel!Fail
    BY <1>f, <2>1, <2>2, <2>3 DEF Channel!Fail, F
  <2> QED BY <2>4 DEF Channel!Next
<1>9. ASSUME ROtherArm \/ UNCHANGED vars PROVE [Channel!Next]_(Channel!vars)
  <2>1. sent' = sent /\ got' = got /\ rPc' = rPc /\ end' = end
    BY <1>9 DEF ROtherArm, vars, writerVars, readerVars
  <2>2. Written' = Written
    BY <2>1, Primes DEF Written
  <2> QED BY <1>k, <1>s, <2>1, <2>2
<1> QED BY <1>1, <1>2, <1>3, <1>4, <1>5, <1>6, <1>7, <1>8, <1>9 DEF Next, Finished

(* The byte stream is a queue of whole messages (FramesAreMessages): every *)
(* step of a read or a write is a step of MsgChannel or none at all.       *)
THEOREM ImplementsChannel == Spec => FramesAreMessages
<1> QED BY SyncCorrect, ChannelInit, ChannelStep, PTL DEF Spec, FramesAreMessages, Channel!Spec

=============================================================================
