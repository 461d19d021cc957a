---------------------------- MODULE TotalsProofs ----------------------------
(***************************************************************************)
(* Facts about PartialSums and Total, and the induction they rest on.  The *)
(* library states induction over the naturals for an operator, which the   *)
(* provers cannot instantiate; it is derived here for a set of naturals    *)
(* from the well-foundedness of inclusion among finite sets.               *)
(***************************************************************************)
EXTENDS Totals, FiniteSetTheorems, TLAPS

(* A set of naturals that is not empty has a least element. *)
LEMMA LeastNat ==
    ASSUME NEW T \in SUBSET Nat, T # {}
    PROVE  \E x \in T : \A y \in T : x <= y
<1> DEFINE U == {1 .. n : n \in T}
<1>1. IsWellFoundedOn(StrictSubsetOrdering(Nat), FiniteSubsetsOf(Nat))
  BY FS_StrictSubsetOrderingWellFounded
<1>2. U \subseteq FiniteSubsetsOf(Nat) /\ U # {}
  <2>1. ASSUME NEW n \in T PROVE IsFiniteSet(1 .. n) /\ 1 .. n \subseteq Nat
    BY FS_Interval
  <2> QED BY <2>1 DEF FiniteSubsetsOf
<1>3. PICK u \in U : \A v \in U : <<v, u>> \notin StrictSubsetOrdering(Nat)
  <2> HIDE DEF U
  <2> QED BY <1>1, <1>2, WFMin
<1>4. PICK x \in T : u = 1 .. x
  OBVIOUS
<1>5. ASSUME NEW y \in T, y < x PROVE FALSE
  <2>1. 1 .. y \subseteq 1 .. x /\ 1 .. y # 1 .. x
    <3>1. x \in 1 .. x /\ x \notin 1 .. y
      BY <1>5
    <3> QED BY <1>5, <3>1
  <2>2. 1 .. y \in SUBSET Nat /\ 1 .. x \in SUBSET Nat
    OBVIOUS
  <2>3. <<1 .. y, 1 .. x>> \in StrictSubsetOrdering(Nat)
    BY <2>1, <2>2 DEF StrictSubsetOrdering
  <2> QED BY <1>3, <1>4, <2>3
<1> QED BY <1>5

(* Induction: a set with zero and with the successor of each of its        *)
(* elements has every natural.                                             *)
LEMMA NatSetInduction ==
    ASSUME NEW T \in SUBSET Nat, 0 \in T, \A n \in T : n + 1 \in T
    PROVE  T = Nat
<1> DEFINE V == Nat \ T
<1> SUFFICES ASSUME V # {} PROVE FALSE
  OBVIOUS
<1>1. PICK x \in V : \A y \in V : x <= y
  <2>1. V \in SUBSET Nat
    OBVIOUS
  <2> HIDE DEF V
  <2> QED BY <2>1, LeastNat
<1>2. x # 0 /\ x - 1 \in Nat
  OBVIOUS
<1>3. x - 1 \in T
  BY <1>1, <1>2
<1> QED BY <1>2, <1>3

-----------------------------------------------------------------------------

(* g gives the sums of the first k elements of f, for k up to n. *)
IsSums(g, f, n) ==
    /\ g \in [0 .. n -> Nat] /\ g[0] = 0
    /\ \A k \in 1 .. n : g[k] = g[k - 1] + f[k]

(* There are partial sums of every sequence. *)
LEMMA SumsExist ==
    ASSUME NEW f \in Seq(Nat), NEW n \in 0 .. Len(f)
    PROVE  \E g \in [0 .. n -> Nat] : IsSums(g, f, n)
<1> DEFINE T == {m \in Nat : m <= Len(f) => \E g \in [0 .. m -> Nat] : IsSums(g, f, m)}
<1>1. 0 \in T
  <2> DEFINE z == [k \in 0 .. 0 |-> 0]
  <2>1. IsSums(z, f, 0)
    BY DEF IsSums
  <2> QED BY <2>1
<1>2. ASSUME NEW m \in T PROVE m + 1 \in T
  <2> SUFFICES ASSUME m + 1 <= Len(f) PROVE \E g \in [0 .. m + 1 -> Nat] : IsSums(g, f, m + 1)
    <3>1. m + 1 \in Nat
      OBVIOUS
    <3> QED BY <3>1
  <2>0. m \in Nat
    OBVIOUS
  <2>1. PICK g \in [0 .. m -> Nat] : IsSums(g, f, m)
    OBVIOUS
  <2> HIDE DEF T
  <2>2. f[m + 1] \in Nat /\ g[m] \in Nat
    BY <2>0
  <2> DEFINE h == [k \in 0 .. m + 1 |-> IF k = m + 1 THEN g[m] + f[m + 1] ELSE g[k]]
  <2>3. h \in [0 .. m + 1 -> Nat] /\ h[0] = 0
    <3>1. g[m] + f[m + 1] \in Nat
      BY <2>2
    <3>2. \A k \in 0 .. m + 1 : k # m + 1 => k \in 0 .. m
      BY <2>0
    <3>3. h \in [0 .. m + 1 -> Nat]
      BY <2>0, <3>1, <3>2
    <3>4. 0 \in 0 .. m + 1 /\ 0 # m + 1
      BY <2>0
    <3> QED BY <2>1, <3>3, <3>4 DEF IsSums
  <2>4. \A k \in 1 .. m + 1 : h[k] = h[k - 1] + f[k]
    <3> TAKE k \in 1 .. m + 1
    <3>1. CASE k = m + 1
      BY <2>0, <3>1
    <3>2. CASE k # m + 1
      <4>1. k \in 1 .. m /\ k - 1 \in 0 .. m
        BY <2>0, <3>2
      <4>2. k \in 0 .. m + 1 /\ k - 1 \in 0 .. m + 1 /\ k - 1 # m + 1
        BY <2>0, <3>2
      <4>3. h[k] = g[k] /\ h[k - 1] = g[k - 1]
        BY <3>2, <4>2, Zenon
      <4>4. g[k] = g[k - 1] + f[k]
        BY <2>1, <4>1, Zenon DEF IsSums
      <4> QED BY <4>3, <4>4, Zenon
    <3> QED BY <3>1, <3>2
  <2> HIDE DEF h
  <2> QED BY <2>3, <2>4 DEF IsSums
<1>3. T = Nat
  <2> HIDE DEF T
  <2>1. T \in SUBSET Nat
    BY DEF T
  <2> QED BY <1>1, <1>2, <2>1, NatSetInduction
<1> QED BY <1>3

(* PartialSums(f) is a function with the recursion it is defined by. *)
LEMMA SumsUnfold ==
    ASSUME NEW f \in Seq(Nat)
    PROVE  PartialSums(f) =
              [n \in 0 .. Len(f) |-> IF n = 0 THEN 0 ELSE PartialSums(f)[n - 1] + f[n]]
<1> DEFINE Rec(g) == [n \in 0 .. Len(f) |-> IF n = 0 THEN 0 ELSE g[n - 1] + f[n]]
<1>1. PICK g \in [0 .. Len(f) -> Nat] : IsSums(g, f, Len(f))
  BY SumsExist
<1>2. g = Rec(g)
  BY <1>1 DEF IsSums
<1>3. PartialSums(f) = CHOOSE h : h = Rec(h)
  BY DEF PartialSums
<1> HIDE DEF Rec
<1>4. PartialSums(f) = Rec(PartialSums(f))
  BY <1>2, <1>3
<1> QED BY <1>4 DEF Rec

(* The partial sums of numbers are numbers, and each is the one before it  *)
(* and one element more.                                                   *)
LEMMA PartialSumsAre ==
    ASSUME NEW f \in Seq(Nat)
    PROVE  IsSums(PartialSums(f), f, Len(f)) /\ Total(f) \in Nat
<1> DEFINE p == PartialSums(f)
           T == {m \in Nat : m <= Len(f) => p[m] \in Nat}
<1>1. /\ p = [n \in 0 .. Len(f) |-> IF n = 0 THEN 0 ELSE p[n - 1] + f[n]]
  BY SumsUnfold
<1> HIDE DEF p
<1>2. p[0] = 0 /\ \A k \in 1 .. Len(f) : p[k] = p[k - 1] + f[k]
  <2>1. Len(f) \in Nat
    OBVIOUS
  <2>2. \A n \in 0 .. Len(f) : p[n] = IF n = 0 THEN 0 ELSE p[n - 1] + f[n]
    BY <1>1, Zenon
  <2>3. \A k \in 1 .. Len(f) : k \in 0 .. Len(f) /\ k # 0
    BY <2>1
  <2>4. 0 \in 0 .. Len(f)
    BY <2>1
  <2> QED BY <2>2, <2>3, <2>4, Zenon
<1>3. 0 \in T
  BY <1>2
<1>4. ASSUME NEW m \in T PROVE m + 1 \in T
  BY <1>2
<1>5. T = Nat
  <2>1. T \in SUBSET Nat
    OBVIOUS
  <2> HIDE DEF T
  <2> QED BY <1>3, <1>4, <2>1, NatSetInduction
<1>6. \A n \in 0 .. Len(f) : p[n] \in Nat
  BY <1>5
<1>7. p \in [0 .. Len(f) -> Nat]
  BY <1>1, <1>6
<1> QED BY <1>2, <1>6, <1>7 DEF IsSums, Total, p

-----------------------------------------------------------------------------

(* Partial sums grow with the number of elements, and so do what is left   *)
(* to add and the sums themselves when elements grow.                      *)
LEMMA SumsGrow ==
    ASSUME NEW f \in Seq(Nat), NEW g \in Seq(Nat), Len(f) = Len(g),
           \A i \in 1 .. Len(f) : f[i] <= g[i],
           NEW j \in 0 .. Len(f), NEW k \in 0 .. Len(f), j <= k
    PROVE  /\ PartialSums(f)[j] <= PartialSums(f)[k]
           /\ PartialSums(f)[k] - PartialSums(f)[j] <= PartialSums(g)[k] - PartialSums(g)[j]
<1> DEFINE p == PartialSums(f)
           q == PartialSums(g)
           N == Len(f)
           P(m) == p[j] <= p[m] /\ p[m] + q[j] <= q[m] + p[j]
           T == {m \in Nat : j + m \in 0 .. N => P(j + m)}
<1>1. N \in Nat /\ IsSums(p, f, N) /\ IsSums(q, g, N)
  BY PartialSumsAre
<1> HIDE DEF p, q
<1>2. \A n \in 0 .. N : p[n] \in Nat /\ q[n] \in Nat
  BY <1>1 DEF IsSums
<1>3. ASSUME NEW n \in 0 .. N, n + 1 \in 0 .. N, P(n) PROVE P(n + 1)
  <2>1. n + 1 \in 1 .. N /\ (n + 1) - 1 = n
    BY <1>1, <1>3
  <2>2. p[n + 1] = p[n] + f[n + 1] /\ q[n + 1] = q[n] + g[n + 1]
    BY <1>1, <2>1 DEF IsSums
  <2>3. f[n + 1] \in Nat /\ g[n + 1] \in Nat /\ f[n + 1] <= g[n + 1]
    BY <2>1
  <2>4. p[n] \in Nat /\ q[n] \in Nat /\ p[j] \in Nat /\ q[j] \in Nat
    BY <1>2
  <2>5. \A a, b, c, d, x, y \in Nat : a <= b /\ b + d <= c + a /\ x <= y =>
                                       a <= b + x /\ (b + x) + d <= (c + y) + a
    OBVIOUS
  <2>6. p[j] <= p[n] + f[n + 1] /\ (p[n] + f[n + 1]) + q[j] <= (q[n] + g[n + 1]) + p[j]
    BY <1>3, <2>3, <2>4, <2>5
  <2> QED BY <2>2, <2>6
<1>4. 0 \in T
  <2>1. j + 0 = j /\ P(j)
    BY <1>1, <1>2
  <2> QED BY <2>1
<1>5. ASSUME NEW m \in T PROVE m + 1 \in T
  <2> SUFFICES ASSUME j + (m + 1) \in 0 .. N PROVE P(j + (m + 1))
    OBVIOUS
  <2>1. j + m \in 0 .. N /\ j + (m + 1) = (j + m) + 1
    BY <1>1
  <2>2. P(j + m)
    BY <2>1
  <2> HIDE DEF P
  <2> QED BY <1>3, <2>1, <2>2
<1>6. T = Nat
  <2>1. T \in SUBSET Nat
    OBVIOUS
  <2> HIDE DEF T
  <2> QED BY <1>4, <1>5, <2>1, NatSetInduction
<1>7. k - j \in Nat /\ j + (k - j) = k
  BY <1>1
<1>8. P(k)
  <2> HIDE DEF P
  <2> QED BY <1>6, <1>7
<1>9. p[k] \in Nat /\ q[k] \in Nat /\ p[j] \in Nat /\ q[j] \in Nat
  BY <1>2
<1> QED BY <1>8, <1>9 DEF p, q

(* An element added to the end adds to the total. *)
LEMMA TotalAppend ==
    ASSUME NEW f \in Seq(Nat), NEW x \in Nat
    PROVE  Total(Append(f, x)) = Total(f) + x
<1> DEFINE g == Append(f, x)
           p == PartialSums(f)
           q == PartialSums(g)
           T == {m \in Nat : m <= Len(f) => q[m] = p[m]}
<1>0. /\ g \in Seq(Nat) /\ Len(g) = Len(f) + 1 /\ Len(f) \in Nat /\ g[Len(f) + 1] = x
      /\ \A i \in 1 .. Len(f) : g[i] = f[i]
  OBVIOUS
<1>1. IsSums(p, f, Len(f)) /\ IsSums(q, g, Len(f) + 1)
  BY <1>0, PartialSumsAre
<1> HIDE DEF g, p, q
<1>2. 0 \in T
  BY <1>1 DEF IsSums
<1>3. ASSUME NEW m \in Nat, q[m] = p[m], m + 1 <= Len(f) PROVE q[m + 1] = p[m + 1]
  <2>1. m + 1 \in 1 .. Len(f) /\ m + 1 \in 1 .. Len(f) + 1 /\ (m + 1) - 1 = m /\ q[m] = p[m]
    <3>1. Len(f) \in Nat /\ m + 1 <= Len(f)
      BY <1>0, <1>3
    <3>2. \A k, n \in Nat : k + 1 <= n => k + 1 \in 1 .. n /\ k + 1 \in 1 .. n + 1 /\ (k + 1) - 1 = k
      OBVIOUS
    <3> QED BY <1>3, <3>1, <3>2
  <2>2. q[m + 1] = q[m] + g[m + 1] /\ p[m + 1] = p[m] + f[m + 1]
    BY <1>1, <2>1 DEF IsSums
  <2> QED BY <1>0, <2>1, <2>2
<1>4. T = Nat
  <2>1. T \in SUBSET Nat
    OBVIOUS
  <2>2. ASSUME NEW m \in T PROVE m + 1 \in T
    BY <1>0, <1>3
  <2> HIDE DEF T
  <2> QED BY <1>2, <2>1, <2>2, NatSetInduction
<1>5. q[Len(f)] = p[Len(f)]
  BY <1>0, <1>4
<1>6. q[Len(f) + 1] = q[Len(f)] + x
  BY <1>0, <1>1 DEF IsSums
<1> QED BY <1>0, <1>5, <1>6 DEF Total, g, p, q

(* Nothing adds up to zero. *)
LEMMA TotalEmpty == Total(<<>>) = 0
<1> DEFINE e == <<>>
<1>0. e \in Seq(Nat) /\ Len(e) = 0
  OBVIOUS
<1> HIDE DEF e
<1>1. IsSums(PartialSums(e), e, 0)
  BY <1>0, PartialSumsAre
<1> QED BY <1>0, <1>1 DEF IsSums, Total, e

=============================================================================
